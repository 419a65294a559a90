------------------------------- MODULE BTree --------------------------------
(***************************************************************************)
(* The search trees of lite3cpp::Buffer (src/src/buffer.cpp): creating a   *)
(* structure, writing one key of an object, appending to an array, and     *)
(* reading.  Every structure is a B-tree of 96-byte nodes that live in one *)
(* buffer and name each other by offset.  Writing walks down from the      *)
(* structure's root and splits each full node it meets before going on.    *)
(*                                                                         *)
(* A call of set_impl is several steps: one action starts it and one       *)
(* action is one turn of its while loop, so what the tree looks like       *)
(* between two turns is part of the model.                                 *)
(*                                                                         *)
(* Abstracted: an offset is the position of its node in allocation order   *)
(* (the root at offset 0 is node 0, so child offset 0 still means "no      *)
(* child"); a kv offset is the entry it points to; the slots of a node at  *)
(* and after its key count are not kept for keys, which the code never     *)
(* reads there, and are kept for children.  Bytes and sizes are left to    *)
(* the layout of the buffer and play no part in the search.                *)
(***************************************************************************)
EXTENDS Integers, Sequences, FiniteSets

CONSTANTS
  Keys,        \* the keys, as their ranks in string order (0 is the empty key)
  Hash,        \* utils::djb2_hash on those keys
  Values,      \* the values written
  NoValue,     \* what a read of an absent key returns (nullptr)
  MaxKeys,     \* config::node_key_count, 7 in the code
  GenMod,      \* generations are 24 bits wide: 2^24 in the code
  SizeMod,     \* array sizes are 26 bits wide: 2^26 in the code
  MaxRoots,    \* bound: structures created
  MaxNodes     \* bound: no call starts once this many nodes exist

ASSUME KeysAssumption == Keys \subseteq Nat /\ Hash \in [Keys -> Nat]
ASSUME ValuesAssumption == NoValue \notin Values
ASSUME MaxKeysAssumption == MaxKeys \in Nat /\ MaxKeys >= 3 /\ MaxKeys % 2 = 1
ASSUME WidthAssumption == GenMod \in Nat \ {0} /\ SizeMod \in Nat \ {0}
ASSUME BoundAssumption == MaxRoots \in Nat /\ MaxNodes \in Nat

VARIABLES
  node,        \* the nodes of the buffer, by offset
  used,        \* the number of nodes laid out (the offset of the next one)
  roots,       \* the offsets handed to callers: the root of every structure
  pc,          \* "idle", or "loop" while a call is inside set_impl
  req,         \* the call: which structure, key, hash and value
  parent_ofs,  \* set_impl's parent_ofs
  node_ofs,    \* set_impl's node_ofs
  path_depth   \* set_impl's path_depth: entries pushed on its path stack

vars == <<node, used, roots, pc, req, parent_ofs, node_ofs, path_depth>>

Types == {"Object", "Array"}
NoParent == -1                   \* SIZE_MAX
EmptyKey == 0                    \* the key {} an append passes
Slots == 0 .. MaxKeys            \* indices of child_ofs
Mid == MaxKeys \div 2            \* config::node_key_count_min

Entry == [hash : Nat, key : Nat, val : Values]
Node == [gen : 0 .. GenMod - 1, type : Types, size : 0 .. SizeMod - 1,
         keys : Seq(Entry), child : [Slots -> Nat]]
Request == [ofs : Nat, key : Nat, hash : Nat,
            val : Values \cup {NoValue}, append : BOOLEAN]
NoCall == [ofs |-> 0, key |-> EmptyKey, hash |-> 0, val |-> NoValue,
           append |-> FALSE]

NoChildren == [s \in Slots |-> 0]
EmptyNode(gen, type) ==
  [gen |-> gen % GenMod, type |-> type, size |-> 0, keys |-> <<>>,
   child |-> NoChildren]

-----------------------------------------------------------------------------
(***************************************************************************)
(* Searching a node                                                        *)
(***************************************************************************)

\* compare_node_key(...) < 0: the entry comes before what is searched for.
Before(entry, q) ==
  \/ entry.hash < q.hash
  \/ entry.hash = q.hash /\ ~q.append /\ entry.key < q.key

\* compare_node_key(...) == 0; array elements are told apart by hash alone.
Matches(entry, q) ==
  entry.hash = q.hash /\ (q.append \/ entry.key = q.key)

\* Where the scan of a node's keys stops: all before it compare less.
StopsAt(ks, q, i) ==
  /\ \A j \in 1 .. i : Before(ks[j], q)
  /\ i < Len(ks) => ~Before(ks[i + 1], q)
Position(ks, q) == CHOOSE i \in 0 .. Len(ks) : StopsAt(ks, q, i)

Found(ks, q) ==
  Position(ks, q) < Len(ks) /\ Matches(ks[Position(ks, q) + 1], q)

\* get_impl: what a search from offset r finds.
Lookup(r, q) ==
  LET find[n \in DOMAIN node] ==
        LET ks == node[n].keys
            i  == Position(ks, q)
            c  == node[n].child[i]
        IN  IF Found(ks, q) THEN ks[i + 1].val
            ELSE IF c # 0 THEN find[c] ELSE NoValue
  IN  find[r]

Get(r, k) == Lookup(r, [key |-> k, hash |-> Hash[k], append |-> FALSE])
ArrGet(r, i) == Lookup(r, [key |-> EmptyKey, hash |-> i, append |-> TRUE])

-----------------------------------------------------------------------------
(***************************************************************************)
(* Creating a structure and starting a call                                *)
(***************************************************************************)

Init ==
  /\ node = [n \in {} |-> EmptyNode(1, "Object")]
  /\ used = 0
  /\ roots = {}
  /\ pc = "idle"
  /\ req = NoCall
  /\ parent_ofs = NoParent
  /\ node_ofs = 0
  /\ path_depth = 0

\* init_object and init_array: an empty root after everything laid out so far.
InitStructure(type) ==
  /\ pc = "idle"
  /\ used < MaxNodes
  /\ Cardinality(roots) < MaxRoots
  /\ node' = [n \in 0 .. used |->
                IF n = used THEN EmptyNode(1, type) ELSE node[n]]
  /\ used' = used + 1
  /\ roots' = roots \cup {used}
  /\ UNCHANGED <<pc, req, parent_ofs, node_ofs, path_depth>>

\* Mutant: the offset handed in is ignored.
StartAtZero(request) ==
  /\ pc = "idle"
  /\ used < MaxNodes
  /\ request.ofs \in roots
  /\ pc' = "loop"
  /\ req' = request
  /\ parent_ofs' = NoParent
  /\ node_ofs' = 0
  /\ path_depth' = 0
  /\ UNCHANGED <<node, used, roots>>

Start(request) ==
  /\ pc = "idle"
  /\ used < MaxNodes
  /\ request.ofs \in roots
  /\ pc' = "loop"
  /\ req' = request
  /\ parent_ofs' = NoParent
  /\ node_ofs' = request.ofs
  /\ path_depth' = 0
  /\ UNCHANGED <<node, used, roots>>

\* set_null, set_bool, set_i64, set_f64, set_str and set_bytes on an object.
SetBegin(r, k, v) ==
  Start([ofs |-> r, key |-> k, hash |-> Hash[k], val |-> v, append |-> FALSE])

\* arr_append_impl: the element is stored under the array's current size.
AppendBegin(r, v) ==
  Start([ofs |-> r, key |-> EmptyKey, hash |-> node[r].size, val |-> v,
         append |-> TRUE])

-----------------------------------------------------------------------------
(***************************************************************************)
(* One turn of set_impl's loop.  Every turn pushes the node on the path    *)
(* stack and bumps the node's generation before anything else.             *)
(***************************************************************************)

\* Mutants: the generation outgrows its field; it is not bumped at all.
BumpedUnmasked(n) == [node[n] EXCEPT !.gen = @ + 1]
NotBumped(n) == node[n]

Bumped(n) == [node[n] EXCEPT !.gen = (@ + 1) % GenMod]
\* Mutant: a node is split one key too late.
FullLate(n) == Len(node[n].keys) > MaxKeys
Full(n) == Len(node[n].keys) >= MaxKeys

\* The root is full: its contents move to a new node and it becomes the
\* parent of that node alone, at generation 1.  The turn's push is undone.
SplitRoot ==
  /\ pc = "loop"
  /\ Full(node_ofs)
  /\ parent_ofs = NoParent
  /\ node' = [n \in 0 .. used |->
                CASE n = used -> Bumped(node_ofs)
                  [] n = node_ofs ->
                       [EmptyNode(1, node[n].type) EXCEPT
                          !.size = node[n].size, !.child[0] = used]
                  [] OTHER -> node[n]]
  /\ used' = used + 1
  /\ parent_ofs' = node_ofs
  /\ node_ofs' = used
  /\ UNCHANGED <<roots, pc, req, path_depth>>

\* Mutants: the first child is the one left of the median; the children stay
\* behind.
RightHalfShared(nd) ==
  [EmptyNode(nd.gen, nd.type) EXCEPT
     !.keys = SubSeq(nd.keys, Mid + 2, Len(nd.keys)),
     !.child = [s \in Slots |-> IF s <= Len(nd.keys) - (Mid + 1)
                                THEN nd.child[Mid + s] ELSE 0]]
RightHalfChildless(nd) ==
  [EmptyNode(nd.gen, nd.type) EXCEPT
     !.keys = SubSeq(nd.keys, Mid + 2, Len(nd.keys))]

\* The keys and children after the median, as the new right sibling.
RightHalf(nd) ==
  [EmptyNode(nd.gen, nd.type) EXCEPT
     !.keys = SubSeq(nd.keys, Mid + 2, Len(nd.keys)),
     !.child = [s \in Slots |-> IF s <= Len(nd.keys) - (Mid + 1)
                                THEN nd.child[Mid + 1 + s] ELSE 0]]

\* Mutants: a key too few stays; the key count is not reset.
LeftHalfShort(nd) == [nd EXCEPT !.keys = SubSeq(@, 1, Mid - 1)]
LeftHalfWhole(nd) == nd

\* The node keeps the keys before the median; its child slots stay as they are.
LeftHalf(nd) == [nd EXCEPT !.keys = SubSeq(@, 1, Mid)]

\* Mutants: the sibling takes the node's own slot; later children do not shift.
WithMedianOver(pd, i, median, sibling) ==
  [pd EXCEPT
     !.keys = SubSeq(@, 1, i) \o <<median>> \o SubSeq(@, i + 1, Len(@)),
     !.child = [s \in Slots |->
                  CASE s = i -> sibling
                    [] s > i + 1 /\ s <= Len(pd.keys) + 1 -> pd.child[s - 1]
                    [] OTHER -> pd.child[s]]]
WithMedianUnshifted(pd, i, median, sibling) ==
  [pd EXCEPT
     !.keys = SubSeq(@, 1, i) \o <<median>> \o SubSeq(@, i + 1, Len(@)),
     !.child[i + 1] = sibling]

\* The parent with the median put in at index i and the sibling right of it.
WithMedian(pd, i, median, sibling) ==
  [pd EXCEPT
     !.keys = SubSeq(@, 1, i) \o <<median>> \o SubSeq(@, i + 1, Len(@)),
     !.child = [s \in Slots |->
                  CASE s = i + 1 -> sibling
                    [] s > i + 1 /\ s <= Len(pd.keys) + 1 -> pd.child[s - 1]
                    [] OTHER -> pd.child[s]]]

\* Mutant: the median always goes to the front of the parent.
FrontOfParent(p, n) == 0

\* i_in_parent: the first slot of the parent that holds the node's offset.
IndexInParent(p, n) ==
  CHOOSE i \in 0 .. Len(node[p].keys) :
    /\ node[p].child[i] = n
    /\ \A j \in 0 .. i - 1 : node[p].child[j] # n

\* A full node below the root is split around its median.  The walk goes on
\* in the right half only when the hash is greater than the median's.
SplitChild ==
  /\ pc = "loop"
  /\ Full(node_ofs)
  /\ parent_ofs # NoParent
  /\ LET nd     == Bumped(node_ofs)
         median == nd.keys[Mid + 1]
         i      == IndexInParent(parent_ofs, node_ofs)
     IN  /\ node' = [n \in 0 .. used |->
                       CASE n = used -> RightHalf(nd)
                         [] n = node_ofs -> LeftHalf(nd)
                         [] n = parent_ofs ->
                              WithMedian(node[n], i, median, used)
                         [] OTHER -> node[n]]
         /\ node_ofs' = IF req.hash > median.hash THEN used ELSE node_ofs
  /\ used' = used + 1
  /\ path_depth' = path_depth + 1
  /\ UNCHANGED <<roots, pc, req, parent_ofs>>

\* The scan stops at a child: go down into it.
Descend ==
  /\ pc = "loop"
  /\ ~Full(node_ofs)
  /\ LET ks == node[node_ofs].keys
         c  == node[node_ofs].child[Position(ks, req)]
     IN  /\ ~Found(ks, req)
         /\ c # 0
         /\ node_ofs' = c
  /\ node' = [node EXCEPT ![node_ofs] = Bumped(node_ofs)]
  /\ parent_ofs' = node_ofs
  /\ path_depth' = path_depth + 1
  /\ UNCHANGED <<used, roots, pc, req>>

\* Mutants: the loop is not left; the size is not stored.
NoReturn(nd) ==
  /\ node' = [node EXCEPT ![node_ofs] = nd]
  /\ UNCHANGED <<used, roots, pc, req, parent_ofs, node_ofs, path_depth>>
ReturnUnsized(nd) ==
  /\ node' = [node EXCEPT ![node_ofs] = nd]
  /\ pc' = "idle"
  /\ req' = NoCall
  /\ parent_ofs' = NoParent
  /\ node_ofs' = 0
  /\ path_depth' = 0
  /\ UNCHANGED <<used, roots>>

\* The call ends with nd in place of the node it stands on.  An append then
\* stores the array's new size in the array's root.
Return(nd) ==
  LET written == [node EXCEPT ![node_ofs] = nd]
  IN  /\ node' = IF req.append
                 THEN [written EXCEPT
                         ![req.ofs].size = (req.hash + 1) % SizeMod]
                 ELSE written
      /\ pc' = "idle"
      /\ req' = NoCall
      /\ parent_ofs' = NoParent
      /\ node_ofs' = 0
      /\ path_depth' = 0
      /\ UNCHANGED <<used, roots>>

\* The key is in this node: its entry gets the new value, over the old bytes
\* when the encoded lengths agree and in a new entry otherwise.
Overwrite ==
  /\ pc = "loop"
  /\ ~Full(node_ofs)
  /\ LET ks == node[node_ofs].keys
         i  == Position(ks, req)
     IN  /\ Found(ks, req)
         /\ Return([Bumped(node_ofs) EXCEPT !.keys[i + 1].val = req.val])

\* The scan stops where there is no child: the entry goes in at that index.
InsertLeaf ==
  /\ pc = "loop"
  /\ ~Full(node_ofs)
  /\ LET ks == node[node_ofs].keys
         i  == Position(ks, req)
         e  == [hash |-> req.hash, key |-> req.key, val |-> req.val]
     IN  /\ ~Found(ks, req)
         /\ node[node_ofs].child[i] = 0
         /\ Return([Bumped(node_ofs) EXCEPT
                      !.keys = SubSeq(@, 1, i) \o <<e>>
                               \o SubSeq(@, i + 1, Len(@))])

-----------------------------------------------------------------------------

Turn == SplitRoot \/ SplitChild \/ Descend \/ Overwrite \/ InsertLeaf

\* The callers' part: they set keys of objects and append to arrays.  The code
\* takes their word for it.
RootsOf(type) == {r \in roots : node[r].type = type}

Next ==
  \/ \E t \in Types : InitStructure(t)
  \/ \E r \in RootsOf("Object"), k \in Keys, v \in Values : SetBegin(r, k, v)
  \/ \E r \in RootsOf("Array"), v \in Values : AppendBegin(r, v)
  \/ Turn

Spec == Init /\ [][Next]_vars

\* A call runs on its caller's thread without waiting for anyone, so once in
\* the loop it keeps taking turns.
FairSpec == Spec /\ WF_vars(Turn)

-----------------------------------------------------------------------------
(***************************************************************************)
(* What keeps the trees searchable                                         *)
(***************************************************************************)

Nodes == 0 .. used - 1
Live(n) == 0 .. Len(node[n].keys)     \* the child slots a search may follow
IsLeaf(n) == \A s \in Slots : node[n].child[s] = 0
Reaches(n, c) == \E s \in Live(n) : node[n].child[s] = c

\* Every variable keeps its type: nodes are as wide as PackedNodeLayout lets
\* them be and the walk variables name offsets.
TypeOK ==
  /\ used \in Nat
  /\ roots \subseteq Nodes
  /\ node \in [Nodes -> Node]
  /\ pc \in {"idle", "loop"}
  /\ req \in Request
  /\ parent_ofs \in Nat \cup {NoParent}
  /\ node_ofs \in Nat
  /\ path_depth \in Nat

\* No node outgrows its arrays of hashes, and its live child offsets are all
\* nodes laid out earlier, or all 0: a search never follows a stale or a
\* missing link half-way down a tree.
NodeShape ==
  \A n \in Nodes :
    /\ Len(node[n].keys) <= MaxKeys
    /\ \A s \in Slots : node[n].child[s] \in Nodes \cup {0}
    /\ IsLeaf(n) \/ \A s \in Live(n) : node[n].child[s] # 0

\* Between two turns the walk stands on a node that its parent links to, and
\* that parent has room for a median if the node must be split: a split
\* always finds i_in_parent and never writes an eighth key.
WalkOK ==
  pc = "loop" =>
    /\ req.ofs \in roots
    /\ req.val \in Values
    /\ node_ofs \in Nodes
    /\ parent_ofs = NoParent => node_ofs = req.ofs
    /\ parent_ofs # NoParent =>
         /\ parent_ofs \in Nodes
         /\ node_ofs # 0
         /\ Reaches(parent_ofs, node_ofs)
         /\ ~Full(parent_ofs) \/ ~Full(node_ofs)

\* No two live links name the same node and none names a root: structures
\* laid out in one buffer never share a subtree, and no split leaves a node
\* linked from both halves.
OneParent ==
  \A n \in Nodes : \A s \in Live(n) :
    node[n].child[s] # 0 =>
      /\ node[n].child[s] \notin roots
      /\ \A m \in Nodes : \A t \in Live(m) :
           node[m].child[t] = node[n].child[s] => m = n /\ t = s

\* Splits never leave a node below the fill a B-tree promises: only a root
\* holds fewer than node_key_count_min keys.
HalfFull == \A n \in Nodes \ roots : Len(node[n].keys) >= Mid

\* All leaves below a root are equally deep, between any two turns.
Height(n) ==
  LET height[m \in Nodes] == IF IsLeaf(m) THEN 0
                             ELSE 1 + height[node[m].child[0]]
  IN  height[n]
Balanced ==
  \A n \in Nodes : IsLeaf(n) \/
    \A s \in Live(n) : Height(node[n].child[s]) = Height(n) - 1

\* Entries with what lies before the first, between two, and after the last.
Woven(ks, between) ==
  LET upto[i \in 0 .. Len(ks)] ==
        IF i = 0 THEN between[0]
        ELSE upto[i - 1] \o <<ks[i]>> \o between[i]
  IN  upto[Len(ks)]

\* The entries of the tree below n, in the order an iteration meets them.
InOrder(n) ==
  LET below[m \in Nodes] ==
        Woven(node[m].keys,
              [s \in Live(m) |-> IF IsLeaf(m) THEN <<>>
                                 ELSE below[node[m].child[s]]])
  IN  below[n]

\* An object's keys are in the order compare_node_key searches them, a key
\* twice at most (the overwrite of a promoted median leaves it twice).
SearchOrder ==
  \A r \in roots :
    LET es == InOrder(r)
    IN  \A i \in 1 .. Len(es) - 1 :
          \/ es[i].hash < es[i + 1].hash
          \/ es[i].hash = es[i + 1].hash /\ es[i].key <= es[i + 1].key

\* An array's elements are numbered 0, 1, ... without gaps up to its size,
\* whichever splits the appends caused.
ArrayDense ==
  \A r \in roots :
    node[r].type = "Array" /\ ~(pc = "loop" /\ req.ofs = r) =>
      LET es == InOrder(r)
      IN  /\ Len(es) = node[r].size
          /\ \A i \in 1 .. Len(es) : es[i].hash = i - 1

\* The path stack takes at most two entries a level below the root, so its
\* 16 entries last for trees of eight levels and no more.
Depth(n) ==
  LET depth[m \in Nodes] ==
        IF m \in roots THEN 0
        ELSE 1 + depth[CHOOSE p \in Nodes : ~IsLeaf(p) /\ Reaches(p, m)]
  IN  depth[n]
PathFits == pc = "loop" => path_depth <= 2 * Depth(node_ofs)

\* Every call returns: no turn leads back to the node it was meant to leave.
SetReturns == (pc = "loop") ~> (pc = "idle")
=============================================================================
