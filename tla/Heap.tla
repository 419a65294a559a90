-------------------------------- MODULE Heap --------------------------------
(***************************************************************************)
(* The bytes under the search trees: where Buffer (src/src/buffer.cpp)     *)
(* puts nodes and entries, how the array of bytes grows, which overwrites  *)
(* are done in place, and how set_obj, set_arr, arr_append_obj and         *)
(* arr_append_arr lay a node out behind the type byte of an empty value.   *)
(* The walk of set_impl is BTree's: each of its turns is one step here,    *)
(* together with what that turn does to the layout.                        *)
(*                                                                         *)
(* Entries are never freed, so the id of an entry is its place in `entry`  *)
(* and BTree's Values are those ids.  Bytes have no contents: what a write *)
(* destroys is seen from extents that overlap.  No call starts on a buffer *)
(* that is no longer intact, as what it would do depends on those bytes.   *)
(***************************************************************************)
EXTENDS BTree, FiniteSetsExt

CONSTANTS
  KeyLen,     \* the number of bytes of each key
  Stored,     \* the values callers store in objects and in arrays
  MaxCalls    \* bound: calls on objects and calls on arrays

\* A key of more than 62 bytes gets a tag from which no reader finds its end
\* (HeapProofs!TagHolds): what compare_node_key then reads is not modelled.
ASSUME KeyLenAssumption == KeyLen \in [Keys -> 0 .. 62]
ASSUME StoredAssumption ==
  /\ Stored \in [Types -> SUBSET [type : STRING, size : Nat]]
  /\ MaxCalls \in [Types -> Nat]
  /\ Values = 1 .. MaxCalls["Object"] + MaxCalls["Array"]

VARIABLES
  addr,       \* the address of every node
  top,        \* m_used_size
  cap,        \* m_data.size()
  entry,      \* every entry written, by id
  ask,        \* the value the call stores, or Nothing
  spot,       \* where the call's value is, once a node must follow it
  calls,      \* history: the calls begun on objects and on arrays
  risk        \* history: the worst that a node was laid out over

layout == <<addr, top, cap, entry, ask, spot, calls, risk>>
hvars == <<vars, layout>>

NodeSize == 12 * MaxKeys + 12     \* config::node_size
Slack == 128
KeptMost == 1 .. MaxKeys          \* mutant: less of the node is cleared
Kept == MaxKeys - 1 .. MaxKeys    \* child slots in the 8 bytes not cleared
Wild == -1                        \* a child offset read from other bytes
Nothing == [type |-> "none", size |-> 0]
Storable == UNION {Stored[t] : t \in Types}
Placed == [at : Nat, klen : Nat, skip : Nat, val : Storable]
NoSpot == [ofs |-> -1, type |-> "none", over |-> "none"]

\* The bytes of a value: type, length of strings and bytes, data, null.
ValueSize(v) ==
  CASE v.type = "String" -> v.size + 6
    [] v.type = "Bytes"  -> v.size + 5
    [] OTHER             -> v.size + 1

\* Only nulls and structures have nothing behind their type byte.
ASSUME SizesAssumption ==
  \A t \in Types : \A v \in Stored[t] :
    ValueSize(v) = 1 <=> v.type \in Types \cup {"Null"}

\* The bytes a key of n bytes is given, and how many a reader passes over.
TagSize(n) == CASE n < 64 -> 1 [] n >= 64 /\ n < 16384 -> 2 [] OTHER -> 3
KeySize(n) == n + TagSize(n) + 1
\* Mutants: the final null is not counted; the tag is read as a signed byte.
TagShort(n) == (n * 4) % 256
TagSigned(n) == (((n + 1) * 4 + 128) % 256) - 128

Tag(n) == ((n + 1) * 4) % 256
Skipped(n) == 1 + Tag(n) \div 4

\* The bytes an entry of the call takes in front of its value.
Prefix == IF req.append THEN 0 ELSE KeySize(KeyLen[req.key])
Passed == IF req.append THEN 0 ELSE Skipped(KeyLen[req.key])

EntrySize(e) == e.klen + ValueSize(e.val)

-----------------------------------------------------------------------------
(***************************************************************************)
(* What is where                                                           *)
(***************************************************************************)

\* The nodes a walk from some structure can come to.
Children(ns) == UNION {{node[n].child[s] : s \in Live(n)} : n \in ns}
InUse ==
  LET within[i \in 0 .. used] ==
        IF i = 0 THEN roots
        ELSE within[i - 1] \cup (Children(within[i - 1]) \cap (Nodes \ {0}))
  IN  within[used]

Held == UNION {{node[n].keys[i].val : i \in 1 .. Len(node[n].keys)} : n \in InUse}

NodeExtent(n) == [what |-> "node", at |-> addr[n], end |-> addr[n] + NodeSize]
EntryExtent(i) ==
  [what |-> "entry", at |-> entry[i].at, end |-> entry[i].at + EntrySize(entry[i])]
Extents == {NodeExtent(n) : n \in InUse} \cup {EntryExtent(i) : i \in Held}
Disjoint(x, y) == x.end <= y.at \/ y.end <= x.at

\* No byte that can be reached belongs to two nodes or entries.
Apart == \A x, y \in Extents : x = y \/ Disjoint(x, y)

Intact == Apart /\ NodeShape

\* Bytes from a to b that were written at some time and never cleared.
Dirty(a, b) ==
  \/ \E n \in Nodes : ~Disjoint(NodeExtent(n), [at |-> a, end |-> b])
  \/ \E i \in DOMAIN entry : ~Disjoint(EntryExtent(i), [at |-> a, end |-> b])

-----------------------------------------------------------------------------
(***************************************************************************)
(* Operations                                                              *)
(***************************************************************************)

HInit ==
  /\ Init
  /\ addr = <<>>
  /\ top = 0
  /\ cap = 0
  /\ entry = <<>>
  /\ ask = Nothing
  /\ spot = NoSpot
  /\ calls = [t \in Types |-> 0]
  /\ risk = "none"

\* Mutant: the array doubles, whatever is asked for.
Doubled(n) == IF top + n > cap THEN Max({2 * cap, NodeSize}) ELSE cap

\* ensure_capacity
Grown(n) ==
  IF top + n > cap THEN Max({2 * cap, top + n, NodeSize}) ELSE cap

PlaceNode(at) ==
  /\ addr' = [n \in 0 .. used |-> IF n = used THEN at ELSE addr[n]]
  /\ top' = at + NodeSize

\* init_object and init_array
Create(type) ==
  /\ spot = NoSpot
  /\ InitStructure(type)
  /\ PlaceNode(top)
  /\ cap' = Grown(NodeSize)
  /\ UNCHANGED <<entry, ask, spot, calls, risk>>

\* The part all calls have; on is the type of the structure called and old the
\* id of the entry that holds its key, if any.
Begin(on, v, old) ==
  /\ pc = "idle"
  /\ spot = NoSpot
  /\ calls[on] < MaxCalls[on]
  /\ \/ v.type \notin Types
     \/ Cardinality(roots) < MaxRoots
     \/ old # NoValue /\ entry[old].val.type \in Types
  /\ ask' = v
  /\ calls' = [calls EXCEPT ![on] = @ + 1]
  /\ UNCHANGED <<addr, top, cap, entry, spot, risk>>

Set(r, k, v) == Begin("Object", v, Get(r, k)) /\ SetBegin(r, k, Len(entry) + 1)
Push(r, v) == Begin("Array", v, NoValue) /\ AppendBegin(r, Len(entry) + 1)

Call ==
  /\ Intact
  /\ \/ \E v \in Stored["Object"], r \in RootsOf("Object"), k \in Keys : Set(r, k, v)
     \/ \E v \in Stored["Array"], r \in RootsOf("Array") : Push(r, v)

\* Mutant: the address is rounded down.
PaddingDown == -(top % 4)

\* A split puts its node at the next multiple of node_alignment.
Padding == (4 - (top % 4)) % 4
SplitAndPlace(space) ==
  /\ PlaceNode(top + Padding)
  /\ cap' = Grown(space + Padding + Slack)
  /\ UNCHANGED <<entry, ask, spot, calls, risk>>

Done(value, over) ==
  /\ ask' = Nothing
  /\ spot' = IF ask.type \in Types
             THEN [ofs |-> value, type |-> ask.type, over |-> over]
             ELSE NoSpot

\* A new entry at the end of the buffer.
Write(over) ==
  /\ entry' = Append(entry, [at |-> top, klen |-> Prefix, skip |-> Passed,
                             val |-> ask])
  /\ top' = top + Prefix + ValueSize(ask)
  /\ cap' = Grown(Prefix + ValueSize(ask))
  /\ Done(top + Prefix, over)
  /\ UNCHANGED <<addr, calls, risk>>

\* The entry of the key the call overwrites.
Target == node[node_ofs].keys[Position(node[node_ofs].keys, req) + 1].val
SameSize == ValueSize(entry[Target].val) = ValueSize(ask)

OverwriteInPlace ==
  /\ pc = "loop"
  /\ ~Full(node_ofs)
  /\ Found(node[node_ofs].keys, req)
  /\ SameSize
  /\ Return(Bumped(node_ofs))
  /\ entry' = [entry EXCEPT ![Target].val = ask]
  /\ Done(entry[Target].at + entry[Target].skip, entry[Target].val.type)
  /\ UNCHANGED <<addr, top, cap, calls, risk>>

Step ==
  \/ SplitRoot /\ SplitAndPlace(2 * NodeSize)
  \/ SplitChild /\ SplitAndPlace(NodeSize)
  \/ Descend /\ UNCHANGED layout
  \/ OverwriteInPlace
  \/ Overwrite /\ ~SameSize /\ Write("moved")
  \/ InsertLeaf /\ Write("none")

\* The child slots of a node laid out at a: the last two are not cleared.
ChildrenAt(a) ==
  [s \in Slots |->
     CASE s \in Kept /\ \E n \in Nodes : addr[n] = a ->
            node[CHOOSE n \in Nodes : addr[n] = a].child[s]
       [] s \in Kept /\ Dirty(a + NodeSize - 8, a + NodeSize)
            /\ ~\E n \in Nodes : addr[n] = a -> Wild
       [] OTHER -> 0]

Tall(r) == Len(node[r].keys) >= MaxKeys - 1 /\ ~IsLeaf(r)

\* The rest of set_obj, set_arr, arr_append_obj and arr_append_arr: a node is
\* laid out behind the type byte, where one may have been before.
LayOut ==
  /\ spot # NoSpot
  /\ LET a  == spot.ofs + 1
         n  == IF \E m \in Nodes : addr[m] = a
               THEN CHOOSE m \in Nodes : addr[m] = a ELSE used
         nd == [EmptyNode(1, spot.type) EXCEPT !.child = ChildrenAt(a)]
     IN  /\ node' = [m \in Nodes \cup {n} |-> IF m = n THEN nd ELSE node[m]]
         /\ addr' = [m \in Nodes \cup {n} |-> IF m = n THEN a ELSE addr[m]]
         /\ used' = IF n = used THEN used + 1 ELSE used
         /\ roots' = roots \cup {n}
  /\ cap' = Grown(NodeSize)
  /\ top' = top + NodeSize
  /\ spot' = NoSpot
  /\ risk' = IF risk = "null" \/ (spot.over = "Null" /\ spot.ofs + 1 < top)
             THEN "null"
             ELSE IF \E r \in roots : addr[r] = spot.ofs + 1 /\ Tall(r)
             THEN "tall"
             ELSE risk
  /\ UNCHANGED <<pc, req, parent_ofs, node_ofs, path_depth, entry, ask, calls>>

HNext == (\E t \in Types : Create(t)) \/ Call \/ Step \/ LayOut

HSpec == HInit /\ [][HNext]_hvars

-----------------------------------------------------------------------------
(***************************************************************************)
(* What callers rely on                                                    *)
(***************************************************************************)

\* The layout keeps its types: every node has an address.
HTypeOK ==
  /\ addr \in [Nodes -> Nat]
  /\ top \in Nat /\ cap \in Nat
  /\ entry \in Seq(Placed)
  /\ ask \in Storable \cup {Nothing}
  /\ spot.ofs \in Nat \cup {-1}

\* Whatever grows when, every node and entry lies inside m_used_size and that
\* inside the array, also between the two halves of set_obj: no write of
\* set_impl and no clearing of a node runs past m_data.
InBuffer ==
  /\ top <= cap
  /\ \A n \in Nodes : addr[n] + NodeSize <= top
  /\ \A i \in DOMAIN entry : entry[i].at + EntrySize(entry[i]) <= top
  /\ spot.ofs < top

\* No operation ever writes over bytes that others can reach.  This is what the
\* buffer tests expect when they read the other keys back after each change.
AlwaysApart == Apart

\* A structure that replaces a null is the only thing that is ever written over
\* bytes in use: in-place overwrites, moved entries, splits and nested
\* structures spare everything else.
SparesNeighbours == risk = "null" \/ Apart

\* A structure laid out where a structure was starts without children of the
\* old one, though eight bytes are not cleared: only one whose root had at
\* least node_key_count - 1 keys over children leaves stale links behind.
StartsClean == risk # "none" \/ NodeShape

\* Readers find the value of every entry behind its key, and a nested node
\* behind the type byte that announces it.
ValuesFound ==
  risk = "none" => \A i \in Held :
    LET e == entry[i]
        v == e.at + e.klen
    IN  /\ e.skip = e.klen
        /\ e.val.type \in Types /\ spot.ofs # v =>
             \E r \in roots : addr[r] = v + 1 /\ node[r].type = e.val.type

\* What a structure holds, in the order of its keys.
Listing(r) == [i \in 1 .. Len(InOrder(r)) |->
  [key |-> InOrder(r)[i].key, val |-> entry[InOrder(r)[i].val].val]]

\* A step changes what a structure holds only if the call is on it or it lays
\* a node out in its place: no growth, split, in-place overwrite or nested
\* structure shows in another one.
OthersUntouched ==
  [][risk' = "none" =>
       \A r \in roots :
         \/ pc = "loop" /\ req.ofs = r
         \/ spot # NoSpot /\ addr[r] = spot.ofs + 1
         \/ Listing(r)' = Listing(r)]_hvars
=============================================================================
