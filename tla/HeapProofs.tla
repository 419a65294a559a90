----------------------------- MODULE HeapProofs -----------------------------
(***************************************************************************)
(* Proofs about the bytes under the search trees, for every value of the   *)
(* constants: which keys a reader can pass over, that ensure_capacity      *)
(* gives what it is asked for, that every node and every entry lies inside *)
(* m_used_size and that inside m_data, that none is written over another,  *)
(* that a reader finds the value behind each key, that a structure laid    *)
(* out where one was starts clean, and that no call shows in a structure   *)
(* it is not on.                                                           *)
(*                                                                         *)
(* A structure put where one was lies where the walk of set_impl says, so  *)
(* that this place is inside the buffer rests on the trees being sound     *)
(* (BTreeProofs!Sound), on every entry in them being one that was written  *)
(* (Known), and on readers and writers agreeing on the length of a key     *)
(* (TagHolds).  That it harms no one rests on nothing being freed: what    *)
(* was laid out, dead or alive, is spread over the buffer (Spread), and    *)
(* behind the type byte of every structure is its root (Backed).  That a   *)
(* call shows in its structure only rests on no entry being named from two *)
(* (Owned).                                                                *)
(***************************************************************************)
EXTENDS Heap, BTreeOrderProofs

-----------------------------------------------------------------------------
(***************************************************************************)
(* Lengths                                                                 *)
(***************************************************************************)

\* Exactly for keys of up to 62 bytes the one-byte tag that set_impl writes
\* leads a reader to the end of the key, though room is kept for longer tags.
THEOREM TagHolds ==
  \A n \in Nat : Skipped(n) = KeySize(n) <=> n <= 62
<1>1. ASSUME NEW n \in Nat, n <= 62
      PROVE  Skipped(n) = KeySize(n)
  <2>1. Tag(n) = (n + 1) * 4
    BY <1>1 DEF Tag
  <2>2. Skipped(n) = n + 2
    BY <2>1 DEF Skipped
  <2>3. TagSize(n) = 1
    BY <1>1 DEF TagSize
  <2> QED
    BY <2>2, <2>3 DEF KeySize
<1>2. ASSUME NEW n \in Nat, n > 62
      PROVE  Skipped(n) # KeySize(n)
  <2>1. Tag(n) \in 0 .. 255
    BY DEF Tag
  <2>2. Skipped(n) \in Nat /\ Skipped(n) <= 64
    BY <2>1 DEF Skipped
  <2>3. TagSize(n) \in 1 .. 3
    BY DEF TagSize
  <2> QED
    BY <1>2, <2>2, <2>3 DEF KeySize
<1> QED
  BY <1>1, <1>2

LEMMA NodeSizeNat == NodeSize \in Nat \ {0}
BY MaxKeysAssumption DEF NodeSize

\* ensure_capacity never shrinks the array and makes the room asked for.
LEMMA GrownFits ==
  ASSUME NEW n \in Nat, top \in Nat, cap \in Nat, top <= cap
  PROVE  /\ Grown(n) \in Nat
         /\ Grown(n) >= cap
         /\ Grown(n) >= top + n
<1>1. CASE top + n > cap
  <2> DEFINE S == {2 * cap, top + n, NodeSize}
  <2>1. S \subseteq Nat
    BY NodeSizeNat
  <2>2. \E x \in S : \A y \in S : x >= y
    <3>1. CASE 2 * cap >= top + n /\ 2 * cap >= NodeSize
      BY <3>1, <2>1
    <3>2. CASE top + n >= 2 * cap /\ top + n >= NodeSize
      BY <3>2, <2>1
    <3>3. CASE NodeSize >= 2 * cap /\ NodeSize >= top + n
      BY <3>3, <2>1
    <3> QED
      BY <3>1, <3>2, <3>3, NodeSizeNat
  <2>3. Max(S) \in S /\ \A y \in S : Max(S) >= y
    BY <2>2 DEF Max
  <2>4. Grown(n) = Max(S)
    BY <1>1 DEF Grown
  <2> QED
    BY <2>1, <2>3, <2>4
<1>2. CASE ~(top + n > cap)
  BY <1>2 DEF Grown
<1> QED
  BY <1>1, <1>2

LEMMA ValueSizePositive ==
  ASSUME NEW v \in Storable
  PROVE  ValueSize(v) \in Nat \ {0}
<1>1. v.size \in Nat
  BY StoredAssumption DEF Storable
<1> QED
  BY <1>1 DEF ValueSize

\* What a placed entry takes.
LEMMA EntrySizeNat ==
  ASSUME NEW e \in Placed
  PROVE  /\ EntrySize(e) \in Nat
         /\ e.at \in Nat
         /\ e.klen \in Nat
         /\ EntrySize(e) >= e.klen + 1
<1>1. e.at \in Nat /\ e.klen \in Nat /\ e.val \in Storable
  BY DEF Placed
<1>2. ValueSize(e.val) \in Nat \ {0}
  BY <1>1, ValueSizePositive
<1> QED
  BY <1>1, <1>2 DEF EntrySize

-----------------------------------------------------------------------------
(***************************************************************************)
(* The inductive invariant                                                 *)
(***************************************************************************)

\* What the trees keep even where a node was laid out over other bytes: child
\* offsets may be anything.
LooseNode ==
  [gen : 0 .. GenMod - 1, type : Types, size : 0 .. SizeMod - 1,
   keys : Seq(Entry), child : [Slots -> Int]]
Loose ==
  /\ used \in Nat
  /\ roots \subseteq Nodes
  /\ node \in [Nodes -> LooseNode]
  /\ pc \in {"idle", "loop"}
  /\ req \in Request
  /\ parent_ofs \in Nat \cup {NoParent}
  /\ node_ofs \in Nat
  /\ path_depth \in Nat

\* Every entry that a node names was written.
Written(n) == [hash : Nat, key : Nat, val : 1 .. n]
KeysIn(S) == \A n \in Nodes : node[n].keys \in Seq(S)
Known == KeysIn(Written(Len(entry)))

\* Each call writes one entry at most.
Counted ==
  /\ calls \in [Types -> Nat]
  /\ \A t \in Types : calls[t] <= MaxCalls[t]
  /\ Len(entry) + (IF pc = "loop" THEN 1 ELSE 0)
       <= calls["Object"] + calls["Array"]

\* A call runs on sound trees only, and has a value to write.
Called ==
  pc = "loop" => /\ Sound
                 /\ ask \in Storable
                 /\ req.val = Len(entry) + 1
                 /\ ~req.append => req.key \in Keys

\* A node follows its type byte before the next call.
Followed == spot # NoSpot => pc = "idle" /\ spot.type \in Types

\* Readers pass over as many bytes as were written.
Agreed == \A i \in DOMAIN entry : entry[i].skip = entry[i].klen

HTrees == Loose /\ Known /\ Counted /\ Called
HPlaces == Followed /\ Agreed /\ HTypeOK /\ InBuffer
HSound == HTrees /\ HPlaces

LEMMA TypedIsLoose ==
  (TypeOK => Loose) /\ (TypeOK' => Loose')
<1>1. Node \subseteq LooseNode
  BY DEF Node, LooseNode
<1>2. TypeOK => Loose
  BY <1>1 DEF TypeOK, Loose
<1>3. TypeOK' => Loose'
  BY <1>1 DEF TypeOK, Loose
<1> QED
  BY <1>2, <1>3

\* Loose trees that pass for sound between calls are.
LEMMA IntactIsSound ==
  ASSUME Loose, pc = "idle", NodeShape
  PROVE  Sound
<1>1. \A n \in Nodes : node[n] \in Node
  <2> TAKE n \in Nodes
  <2>1. node[n] \in LooseNode /\ \A s \in Slots : node[n].child[s] \in Nat
    BY DEF Loose, NodeShape, Nodes
  <2> QED
    BY <2>1 DEF LooseNode, Node
<1>2. TypeOK
  BY <1>1 DEF Loose, TypeOK
<1> QED
  BY <1>2 DEF Sound, WalkOK

LEMMA HInitSound == HInit => HSound
<1> SUFFICES ASSUME HInit PROVE HSound
  OBVIOUS
<1> USE DEF HInit, Init
<1>1. Nodes = {}
  BY DEF Nodes
<1>2. Loose
  BY <1>1 DEF Loose, NoCall, Request, EmptyKey, NoParent
<1>3. entry = <<>> /\ Len(entry) = 0 /\ DOMAIN entry = {}
  OBVIOUS
<1>4. Known /\ Counted /\ Called
  BY <1>1, <1>3, StoredAssumption DEF Known, KeysIn, Counted, Called, Types
<1>5. HPlaces
  BY <1>1, <1>3 DEF HPlaces, Followed, Agreed, HTypeOK, InBuffer, NoSpot
<1> QED
  BY <1>2, <1>4, <1>5 DEF HSound, HTrees

-----------------------------------------------------------------------------
(***************************************************************************)
(* What the turns do to the keys of the nodes                              *)
(***************************************************************************)

LEMMA SplitRootIn ==
  ASSUME Sound, SplitRoot, NEW S, KeysIn(S)
  PROVE  KeysIn(S)'
<1>1. pc = "loop" /\ used' = used + 1
  BY DEF SplitRoot
<1> USE TurnFacts, <1>1
<1>2. ASSUME NEW n \in 0 .. used
      PROVE  node'[n].keys \in Seq(S)
  <2> DEFINE nd == [EmptyNode(1, node[n].type) EXCEPT
                      !.size = node[n].size, !.child[0] = used]
  <2>1. node'[n] = CASE n = used -> Bumped(node_ofs)
                     [] n = node_ofs -> nd
                     [] OTHER -> node[n]
    BY DEF SplitRoot
  <2>2. Bumped(node_ofs).keys \in Seq(S)
    BY DEF KeysIn
  <2>3. nd.keys \in Seq(S)
    BY EmptySeq DEF EmptyNode
  <2>4. n \in Nodes => node[n].keys \in Seq(S)
    BY DEF KeysIn
  <2>5. n = used \/ n \in Nodes
    BY DEF Nodes
  <2> HIDE DEF nd
  <2>6. node_ofs # used
    BY DEF Nodes
  <2>7. CASE n = used
    <3>1. node'[n] = Bumped(node_ofs)
      BY <2>1, <2>6, <2>7, Zenon
    <3> QED
      BY <2>2, <3>1
  <2>8. CASE n = node_ofs
    <3>1. node'[n] = nd
      BY <2>1, <2>6, <2>8, Zenon
    <3> QED
      BY <2>3, <3>1
  <2>9. CASE n # used /\ n # node_ofs
    BY <2>1, <2>4, <2>5, <2>9
  <2> QED
    BY <2>7, <2>8, <2>9
<1> QED
  BY <1>2 DEF KeysIn, Nodes

LEMMA SplitChildIn ==
  ASSUME Sound, SplitChild, NEW S, KeysIn(S)
  PROVE  KeysIn(S)'
<1>1. /\ pc = "loop" /\ used' = used + 1 /\ parent_ofs # NoParent
      /\ Full(node_ofs)
  BY DEF SplitChild
<1> USE TurnFacts, <1>1
<1> DEFINE p      == parent_ofs
           nd     == Bumped(node_ofs)
           median == nd.keys[Mid + 1]
           i      == IndexInParent(p, node_ofs)
<1>2. p \in Nodes /\ Reaches(p, node_ofs) /\ node_ofs \in Nodes
  BY DEF Sound, WalkOK
<1>3. /\ nd.keys \in Seq(S) /\ Len(nd.keys) = MaxKeys
      /\ node[p].keys \in Seq(S) /\ Len(node[p].keys) \in Nat
      /\ node[p].keys \in Seq(Entry) /\ node[p] \in Node
  <2>1. node[p] \in Node
    BY <1>2, SoundNodes DEF WellFormed
  <2> QED
    BY <2>1, <1>2, FullIsExact, SoundNodes DEF KeysIn, Node
<1>4. median \in S
  BY <1>3, MidInside, ElementOfSeq
<1>5. i \in 0 .. Len(node[p].keys)
  BY <1>2, <1>3, IndexIsSlot
<1>6. RightHalf(nd).keys \in Seq(S)
  <2>1. RightHalf(nd).keys = SubSeq(nd.keys, Mid + 2, Len(nd.keys))
    BY DEF RightHalf, EmptyNode
  <2>2. \A j \in 1 .. Len(nd.keys) : nd.keys[j] \in S
    BY <1>3, ElementOfSeq
  <2> HIDE DEF nd
  <2>3. SubSeq(nd.keys, Mid + 2, Len(nd.keys)) \in Seq(S)
    BY <1>3, <2>2, MidInside, MaxKeysAssumption, SubSeqProperties
  <2> QED
    BY <2>1, <2>3
<1>7. LeftHalf(nd).keys \in Seq(S)
  <2>1. nd \in Node
    BY DEF WellFormed
  <2>2. LeftHalf(nd).keys = SubSeq(nd.keys, 1, Mid)
    BY <2>1 DEF LeftHalf, Node
  <2>3. \A j \in 1 .. Len(nd.keys) : nd.keys[j] \in S
    BY <1>3, ElementOfSeq
  <2> HIDE DEF nd
  <2>4. SubSeq(nd.keys, 1, Mid) \in Seq(S)
    BY <1>3, <2>3, MidInside, MaxKeysAssumption, SubSeqProperties
  <2> QED
    BY <2>2, <2>4
<1>8. WithMedian(node[p], i, median, used).keys \in Seq(S)
  <2> DEFINE ks == node[p].keys
  <2>1. WithMedian(node[p], i, median, used).keys
          = SubSeq(ks, 1, i) \o <<median>> \o SubSeq(ks, i + 1, Len(ks))
    BY <1>3 DEF WithMedian, Node
  <2> HIDE DEF i, median
  <2>2. SubSeq(ks, 1, i) \o <<median>> \o SubSeq(ks, i + 1, Len(ks)) \in Seq(S)
    BY <1>3, <1>4, <1>5, InsertedSeq
  <2> QED
    BY <2>1, <2>2
<1>9. ASSUME NEW n \in 0 .. used
      PROVE  node'[n].keys \in Seq(S)
  <2> DEFINE g(m) == CASE m = used -> RightHalf(nd)
                       [] m = node_ofs -> LeftHalf(nd)
                       [] m = parent_ofs -> WithMedian(node[m], i, median, used)
                       [] OTHER -> node[m]
  <2>1. node'[n] = g(n)
    <3>1. node' = [m \in 0 .. used |-> g(m)]
      BY DEF SplitChild
    <3> HIDE DEF g
    <3> QED
      BY <3>1
  <2>2. n = used \/ n \in Nodes
    BY DEF Nodes
  <2>3. n \in Nodes => node[n].keys \in Seq(S)
    BY DEF KeysIn
  <2> HIDE DEF nd, i, median
  <2>4. p # node_ofs /\ p # used /\ node_ofs # used
    BY <1>2, <1>3, FullIsExact DEF Sound, WalkOK, Nodes, Full
  <2>5. \/ node'[n] = RightHalf(nd)
        \/ node'[n] = LeftHalf(nd)
        \/ node'[n] = WithMedian(node[p], i, median, used)
        \/ n \in Nodes /\ node'[n] = node[n]
    BY <2>1, <2>2, <2>4, Zenon
  <2> QED
    BY <2>3, <2>5, <1>6, <1>7, <1>8
<1> QED
  BY <1>9 DEF KeysIn, Nodes

LEMMA ReturnIn ==
  ASSUME Sound, pc = "loop", NEW S, KeysIn(S),
         NEW nd \in Node, nd.keys \in Seq(S), Return(nd)
  PROVE  KeysIn(S)'
<1> USE TurnFacts
<1> DEFINE written == [node EXCEPT ![node_ofs] = nd]
           z       == (req.hash + 1) % SizeMod
<1>1. /\ used' = used
      /\ node' = IF req.append THEN [written EXCEPT ![req.ofs].size = z]
                 ELSE written
  BY DEF Return
<1>2. DOMAIN node = Nodes /\ Nodes' = Nodes
  BY <1>1, SoundNodes DEF Nodes
<1>3. DOMAIN written = Nodes
  BY <1>2
<1>4. \A m \in Nodes : written[m] \in Node /\ written[m].keys \in Seq(S)
  BY <1>2, SoundNodes DEF KeysIn, WellFormed
<1> HIDE DEF written, z
<1>5. ASSUME NEW m \in Nodes
      PROVE  node'[m].keys = written[m].keys
  <2>1. CASE ~req.append
    BY <2>1, <1>1
  <2>2. CASE req.append /\ m # req.ofs
    BY <2>2, <1>1, <1>3
  <2>3. CASE req.append /\ m = req.ofs
    <3>1. node'[m] = [written[m] EXCEPT !.size = z]
      BY <2>3, <1>1, <1>3
    <3> QED
      BY <3>1, <1>4 DEF Node
  <2> QED
    BY <2>1, <2>2, <2>3
<1> QED
  BY <1>2, <1>4, <1>5 DEF KeysIn

-----------------------------------------------------------------------------
(***************************************************************************)
(* What placing does to the layout                                         *)
(***************************************************************************)

\* A node put behind everything placed so far, where there is room for it.
LEMMA PlacedNode ==
  ASSUME used \in Nat, HTypeOK, InBuffer, NEW at \in Nat, at >= top,
         PlaceNode(at), used' = used + 1,
         cap' \in Nat, cap' >= at + NodeSize,
         entry' = entry, ask' = ask, spot' = spot
  PROVE  HTypeOK' /\ InBuffer'
<1> USE NodeSizeNat
<1>1. top' = at + NodeSize /\ top \in Nat /\ top' \in Nat /\ top' >= top
  BY DEF PlaceNode, HTypeOK
<1>2. \A n \in 0 .. used :
        addr'[n] \in Nat /\ addr'[n] + NodeSize <= top'
  <2> TAKE n \in 0 .. used
  <2>1. addr'[n] = IF n = used THEN at ELSE addr[n]
    BY DEF PlaceNode
  <2>2. n # used => n \in Nodes
    BY DEF Nodes
  <2>3. n # used => addr[n] \in Nat /\ addr[n] + NodeSize <= top
    BY <2>2 DEF HTypeOK, InBuffer
  <2> QED
    BY <1>1, <2>1, <2>3
<1>3. Nodes' = 0 .. used
  BY DEF Nodes
<1>4. addr' \in [Nodes' -> Nat]
  BY <1>2, <1>3 DEF PlaceNode
<1>5. HTypeOK'
  BY <1>1, <1>4 DEF HTypeOK
<1>6. \A i \in DOMAIN entry : entry[i] \in Placed
  BY ElementOfSeq DEF HTypeOK
<1>7. \A i \in DOMAIN entry : entry[i].at + EntrySize(entry[i]) <= top'
  <2> TAKE i \in DOMAIN entry
  <2>1. entry[i].at + EntrySize(entry[i]) <= top
    BY DEF InBuffer
  <2>2. entry[i].at \in Nat /\ EntrySize(entry[i]) \in Nat
    BY <1>6, EntrySizeNat
  <2> QED
    BY <1>1, <2>1, <2>2
<1>8. spot.ofs \in Int /\ spot.ofs < top'
  BY <1>1 DEF HTypeOK, InBuffer
<1> QED
  BY <1>1, <1>2, <1>3, <1>5, <1>7, <1>8 DEF InBuffer, EntrySize, ValueSize

\* Nothing but top and cap moves, upwards, and the spot is still below top.
LEMMA RoomGrows ==
  ASSUME HTypeOK, InBuffer, Nodes' = Nodes, addr' = addr, entry' = entry,
         top' \in Nat, cap' \in Nat, top <= top', top' <= cap',
         ask' \in Storable \cup {Nothing},
         spot'.ofs \in Nat \cup {-1}, spot'.ofs < top'
  PROVE  HTypeOK' /\ InBuffer'
<1>1. HTypeOK'
  BY DEF HTypeOK
<1>2. \A n \in Nodes : addr[n] + NodeSize <= top'
  <2> TAKE n \in Nodes
  <2>1. addr[n] \in Nat /\ addr[n] + NodeSize <= top /\ top \in Nat
    BY DEF HTypeOK, InBuffer
  <2> QED
    BY <2>1, NodeSizeNat
<1>3. \A i \in DOMAIN entry : entry[i].at + EntrySize(entry[i]) <= top'
  <2> TAKE i \in DOMAIN entry
  <2>1. entry[i].at + EntrySize(entry[i]) <= top /\ top \in Nat
    BY DEF HTypeOK, InBuffer
  <2>2. entry[i] \in Placed
    BY ElementOfSeq DEF HTypeOK
  <2>3. entry[i].at \in Nat /\ EntrySize(entry[i]) \in Nat
    BY <2>2, EntrySizeNat
  <2> QED
    BY <2>1, <2>3
<1> QED
  BY <1>1, <1>2, <1>3 DEF InBuffer, EntrySize, ValueSize

\* The bytes in front of a value are as many as a reader passes over.
LEMMA PrefixPassed ==
  ASSUME ~req.append => req.key \in Keys
  PROVE  Prefix \in Nat /\ Passed = Prefix
<1>1. CASE req.append
  BY <1>1 DEF Prefix, Passed
<1>2. CASE ~req.append
  <2> DEFINE n == KeyLen[req.key]
  <2>1. n \in Nat /\ n <= 62
    BY <1>2, KeyLenAssumption
  <2>2. Skipped(n) = KeySize(n)
    BY <2>1, TagHolds
  <2>3. KeySize(n) \in Nat
    BY <2>1 DEF KeySize, TagSize
  <2> QED
    BY <1>2, <2>2, <2>3 DEF Prefix, Passed
<1> QED
  BY <1>1, <1>2

\* What Done leaves: no value to store, and a spot where the value is.
LEMMA DoneSpot ==
  ASSUME NEW value \in Nat, NEW over, Done(value, over)
  PROVE  /\ ask' \in Storable \cup {Nothing}
         /\ spot'.ofs \in {value, -1}
         /\ spot' # NoSpot => spot'.type \in Types
BY DEF Done, NoSpot

\* A new entry at the end of the buffer.
LEMMA WrittenEntry ==
  ASSUME HTypeOK, InBuffer, Agreed, Called, pc = "loop",
         NEW over, Write(over), Nodes' = Nodes
  PROVE  HTypeOK' /\ InBuffer' /\ Agreed' /\ (spot' # NoSpot => spot'.type \in Types)
<1> DEFINE e == [at |-> top, klen |-> Prefix, skip |-> Passed, val |-> ask]
           z == Prefix + ValueSize(ask)
<1>1. /\ ask \in Storable /\ Prefix \in Nat /\ Passed = Prefix
      /\ ValueSize(ask) \in Nat \ {0}
  BY PrefixPassed, ValueSizePositive DEF Called
<1>2. /\ entry' = Append(entry, e) /\ top' = top + Prefix + ValueSize(ask)
      /\ cap' = Grown(z) /\ addr' = addr /\ Done(top + Prefix, over)
  BY DEF Write
<1>3. top \in Nat /\ cap \in Nat /\ top <= cap /\ z \in Nat
  BY <1>1 DEF HTypeOK, InBuffer
<1>4. cap' \in Nat /\ cap' >= top + z /\ cap' >= cap
  BY <1>2, <1>3, GrownFits
<1>5. top' \in Nat /\ top' <= cap' /\ top + Prefix < top' /\ top <= top'
      /\ top + Prefix \in Nat
  BY <1>1, <1>2, <1>3, <1>4
<1>6. e \in Placed
  BY <1>1, <1>3 DEF Placed
<1>7. entry \in Seq(Placed) /\ entry' \in Seq(Placed)
  BY <1>2, <1>6, AppendProperties DEF HTypeOK
<1>8. /\ ask' \in Storable \cup {Nothing}
      /\ spot'.ofs \in {top + Prefix, -1}
      /\ spot' # NoSpot => spot'.type \in Types
  BY <1>2, <1>5, DoneSpot
<1>9. HTypeOK'
  BY <1>2, <1>4, <1>5, <1>7, <1>8 DEF HTypeOK
<1>10. \A n \in Nodes : addr[n] + NodeSize <= top'
  <2> TAKE n \in Nodes
  <2>1. addr[n] \in Nat /\ addr[n] + NodeSize <= top /\ top \in Nat
    BY DEF HTypeOK, InBuffer
  <2> QED
    BY <2>1, <1>5, NodeSizeNat
<1> HIDE DEF e, z
<1>11. /\ DOMAIN entry = 1 .. Len(entry) /\ Len(entry) \in Nat
       /\ DOMAIN entry' = 1 .. Len(entry) + 1
       /\ \A i \in DOMAIN entry : entry'[i] = entry[i]
       /\ entry'[Len(entry) + 1] = e
  BY <1>2, <1>6, <1>7, AppendProperties, LenProperties
<1>12. \A i \in DOMAIN entry' :
         /\ entry'[i].at + EntrySize(entry'[i]) <= top'
         /\ entry'[i].skip = entry'[i].klen
  <2> TAKE i \in DOMAIN entry'
  <2>1. CASE i = Len(entry) + 1
    <3>1. entry'[i] = e
      BY <2>1, <1>11
    <3>2. e.at + EntrySize(e) <= top' /\ e.skip = e.klen
      BY <1>1, <1>2, <1>3 DEF e, EntrySize
    <3> QED
      BY <3>1, <3>2
  <2>2. CASE i # Len(entry) + 1
    <3>1. i \in DOMAIN entry /\ entry'[i] = entry[i]
      BY <2>2, <1>11
    <3>2. entry[i] \in Placed
      BY <3>1, <1>7, ElementOfSeq
    <3>3. entry[i].at \in Nat /\ EntrySize(entry[i]) \in Nat
      BY <3>2, EntrySizeNat
    <3>4. entry[i].at + EntrySize(entry[i]) <= top /\ entry[i].skip = entry[i].klen
      BY <3>1 DEF InBuffer, Agreed
    <3> QED
      BY <3>1, <3>3, <3>4, <1>3, <1>5
  <2> QED
    BY <2>1, <2>2
<1>13. spot'.ofs < top'
  BY <1>5, <1>8
<1> QED
  BY <1>2, <1>5, <1>8, <1>9, <1>10, <1>12, <1>13
  DEF InBuffer, Agreed

\* The value of a key that is found is an entry that was written.
LEMMA TargetWritten ==
  ASSUME Sound, Known, pc = "loop", entry \in Seq(Placed),
         Found(node[node_ofs].keys, req)
  PROVE  Target \in 1 .. Len(entry)
<1> DEFINE ks == node[node_ofs].keys
           i  == Position(ks, req)
<1>1. node_ofs \in Nodes /\ ks \in Seq(Written(Len(entry)))
  BY TurnFacts DEF Known, KeysIn
<1>2. Len(ks) \in Nat
  BY <1>1, SoundNodes
<1>3. i + 1 \in 1 .. Len(ks)
  BY <1>2, PositionStops DEF Found
<1>4. ks[i + 1] \in Written(Len(entry))
  <2> HIDE DEF ks, i
  <2> QED
    BY <1>1, <1>3, ElementOfSeq
<1> QED
  BY <1>4 DEF Target, Written

\* An overwrite in place keeps the entry's length.
LEMMA OverwrittenEntry ==
  ASSUME HTypeOK, InBuffer, Agreed, Called, Known, OverwriteInPlace
  PROVE  HTypeOK' /\ InBuffer' /\ Agreed' /\ (spot' # NoSpot => spot'.type \in Types)
<1> DEFINE T == Target
           e == [entry[T] EXCEPT !.val = ask]
           at == entry[T].at + entry[T].skip
<1>1. /\ pc = "loop" /\ Found(node[node_ofs].keys, req) /\ SameSize
      /\ used' = used
      /\ entry' = [entry EXCEPT ![T].val = ask]
      /\ Done(at, entry[T].val.type)
      /\ addr' = addr /\ top' = top /\ cap' = cap
  BY DEF OverwriteInPlace, Return
<1>2. Sound /\ ask \in Storable
  BY <1>1 DEF Called
<1>3. entry \in Seq(Placed) /\ top \in Nat /\ cap \in Nat
  BY DEF HTypeOK
<1>4. T \in 1 .. Len(entry)
  BY <1>1, <1>2, <1>3, TargetWritten
<1>5. entry[T] \in Placed
  BY <1>3, <1>4, ElementOfSeq
<1>6. e \in Placed /\ e.at = entry[T].at /\ EntrySize(e) = EntrySize(entry[T])
      /\ e.skip = entry[T].skip /\ e.klen = entry[T].klen
  <2>1. e = [at |-> entry[T].at, klen |-> entry[T].klen,
             skip |-> entry[T].skip, val |-> ask]
    BY <1>5 DEF Placed
  <2>2. e \in Placed
    BY <2>1, <1>2, <1>5 DEF Placed
  <2>3. EntrySize(e) = EntrySize(entry[T])
    BY <2>1, <1>1 DEF EntrySize, SameSize
  <2> HIDE DEF e
  <2> QED
    BY <2>1, <2>2, <2>3
<1>7. DOMAIN entry = 1 .. Len(entry) /\ Len(entry) \in Nat
  BY <1>3, LenProperties
<1>8. entry' = [entry EXCEPT ![T] = e]
  BY <1>1
<1> HIDE DEF e, T
<1>9. entry' \in Seq(Placed) /\ Len(entry') = Len(entry)
  BY <1>3, <1>4, <1>6, <1>8, ExceptSeq
<1>10. DOMAIN entry' = DOMAIN entry /\ entry'[T] = e
       /\ \A i \in DOMAIN entry : i # T => entry'[i] = entry[i]
  BY <1>4, <1>7, <1>8
<1>11. /\ entry[T].at \in Nat /\ entry[T].klen \in Nat
       /\ EntrySize(entry[T]) \in Nat
       /\ EntrySize(entry[T]) >= entry[T].klen + 1
       /\ entry[T].skip = entry[T].klen
       /\ entry[T].at + EntrySize(entry[T]) <= top
  BY <1>4, <1>5, <1>7, EntrySizeNat DEF Agreed, InBuffer
<1>12. at \in Nat /\ at < top
  BY <1>3, <1>11, SMTT(30)
<1> HIDE DEF at
<1>13. /\ ask' \in Storable \cup {Nothing}
       /\ spot'.ofs \in {at, -1}
       /\ spot' # NoSpot => spot'.type \in Types
  BY <1>1, <1>12, DoneSpot
<1>14. Nodes' = Nodes
  BY <1>1 DEF Nodes
<1>15. HTypeOK'
  BY <1>1, <1>9, <1>12, <1>13, <1>14 DEF HTypeOK
<1>16. \A i \in DOMAIN entry' :
         /\ entry'[i].at + EntrySize(entry'[i]) <= top'
         /\ entry'[i].skip = entry'[i].klen
  BY <1>1, <1>6, <1>10, <1>11 DEF InBuffer, Agreed
<1>17. spot'.ofs < top' /\ top' <= cap'
  BY <1>1, <1>3, <1>12, <1>13 DEF InBuffer
<1>18. \A n \in Nodes' : addr'[n] + NodeSize <= top'
  BY <1>1, <1>14 DEF InBuffer
<1> QED
  BY <1>13, <1>15, <1>16, <1>17, <1>18 DEF InBuffer, Agreed

-----------------------------------------------------------------------------
(***************************************************************************)
(* The operations                                                          *)
(***************************************************************************)

LEMMA CreateHSound ==
  ASSUME HSound, NEW t \in Types, Create(t)
  PROVE  HSound'
<1>1. /\ InitStructure(t) /\ PlaceNode(top) /\ cap' = Grown(NodeSize)
      /\ entry' = entry /\ ask' = ask /\ spot' = spot /\ calls' = calls
      /\ pc = "idle" /\ pc' = "idle" /\ spot = NoSpot
  BY DEF Create, InitStructure
<1>2. used \in Nat /\ used' = used + 1 /\ Loose
  BY DEF InitStructure, Create, HSound, HTrees, Loose
<1>3. top \in Nat /\ cap \in Nat /\ top <= cap /\ HTypeOK /\ InBuffer
  BY DEF HSound, HPlaces, HTypeOK, InBuffer
<1>4. cap' \in Nat /\ cap' >= top + NodeSize
  BY <1>1, <1>3, NodeSizeNat, GrownFits
<1>5. HTypeOK' /\ InBuffer'
  BY <1>1, <1>2, <1>3, <1>4, PlacedNode
<1>6. HPlaces'
  BY <1>1, <1>5 DEF HSound, HPlaces, Followed, Agreed
<1>7. EmptyNode(1, t) \in LooseNode /\ EmptyNode(1, t).keys = <<>>
  <2>1. WellFormed(EmptyNode(1, t), 1)
    BY EmptyNodeOK
  <2> QED
    BY <2>1 DEF WellFormed, Node, LooseNode, EmptyNode
<1>8. \A n \in Nodes' : \/ n \in Nodes /\ node'[n] = node[n]
                        \/ n = used /\ node'[n] = EmptyNode(1, t)
  BY <1>1, <1>2 DEF InitStructure, Nodes
<1>9. node' \in [Nodes' -> LooseNode]
  <2>1. node' = [n \in Nodes' |-> node'[n]]
    BY <1>1, <1>2 DEF InitStructure, Nodes
  <2>2. \A n \in Nodes' : node'[n] \in LooseNode
    BY <1>2, <1>7, <1>8 DEF Loose
  <2> QED
    BY <2>1, <2>2
<1>10. Loose'
  BY <1>1, <1>2, <1>9 DEF Loose, InitStructure, Nodes
<1>11. Known'
  BY <1>1, <1>7, <1>8, EmptySeq DEF HSound, HTrees, Known, KeysIn
<1>12. Counted' /\ Called'
  BY <1>1 DEF HSound, HTrees, Counted, Called
<1> QED
  BY <1>6, <1>10, <1>11, <1>12 DEF HSound, HTrees

\* The part all calls have.
LEMMA BeginHSound ==
  ASSUME HSound, Intact, NEW t \in Types, NEW v \in Stored[t], NEW old,
         NEW r \in RootsOf(t), Begin(t, v, old),
         \/ AppendBegin(r, Len(entry) + 1)
         \/ \E k \in Keys : SetBegin(r, k, Len(entry) + 1)
  PROVE  HSound'
<1> DEFINE id == Len(entry) + 1
<1>1. /\ pc = "idle" /\ pc' = "loop" /\ spot = NoSpot
      /\ calls[t] < MaxCalls[t]
      /\ ask' = v /\ calls' = [calls EXCEPT ![t] = @ + 1]
      /\ addr' = addr /\ top' = top /\ cap' = cap /\ entry' = entry
      /\ spot' = spot /\ node' = node /\ used' = used /\ roots' = roots
  BY DEF Begin, AppendBegin, SetBegin, Start
<1>2. /\ req'.val = id
      /\ ~req'.append => req'.key \in Keys
  BY DEF AppendBegin, SetBegin, Start
<1>3. Len(entry) \in Nat
  BY LenProperties DEF HSound, HPlaces, HTypeOK
<1>4. Counted'
  <2>1. /\ calls \in [Types -> Nat]
        /\ \A u \in Types : calls[u] <= MaxCalls[u]
        /\ Len(entry) <= calls["Object"] + calls["Array"]
    BY <1>1, <1>3 DEF HSound, HTrees, Counted
  <2>2. calls' \in [Types -> Nat]
    BY <1>1, <2>1
  <2>3. \A u \in Types : calls'[u] <= MaxCalls[u]
    BY <1>1, <2>1, StoredAssumption
  <2>4. calls'["Object"] + calls'["Array"] = calls["Object"] + calls["Array"] + 1
    BY <1>1, <2>1 DEF Types
  <2> QED
    BY <1>1, <1>3, <2>1, <2>2, <2>3, <2>4 DEF Counted, Types
<1>5. id \in Values
  <2>1. Len(entry) + 1 <= calls'["Object"] + calls'["Array"]
    BY <1>1, <1>4 DEF Counted
  <2>2. /\ calls'["Object"] \in Nat /\ calls'["Array"] \in Nat
        /\ calls'["Object"] <= MaxCalls["Object"]
        /\ calls'["Array"] <= MaxCalls["Array"]
        /\ MaxCalls["Object"] \in Nat /\ MaxCalls["Array"] \in Nat
    BY <1>4, StoredAssumption DEF Counted, Types
  <2> QED
    BY <1>3, <2>1, <2>2, StoredAssumption
<1>6. Sound
  BY <1>1, IntactIsSound DEF Intact, HSound, HTrees
<1>7. Sound'
  BY <1>5, <1>6, BeginSound
<1>8. Loose'
  BY <1>7, TypedIsLoose DEF Sound
<1>9. v \in Storable
  BY DEF Storable
<1>10. Called'
  BY <1>1, <1>2, <1>7, <1>9 DEF Called
<1>11. Known'
  BY <1>1 DEF HSound, HTrees, Known, KeysIn, Nodes
<1>12. HPlaces'
  <2>1. Followed' /\ Agreed'
    BY <1>1 DEF HSound, HPlaces, Followed, Agreed
  <2>2. HTypeOK' /\ InBuffer'
    BY <1>1, <1>9 DEF HSound, HPlaces, HTypeOK, InBuffer, Nodes, EntrySize, ValueSize
  <2> QED
    BY <2>1, <2>2 DEF HPlaces
<1> QED
  BY <1>4, <1>8, <1>10, <1>11, <1>12 DEF HSound, HTrees

LEMMA CallHSound ==
  ASSUME HSound, Call
  PROVE  HSound'
<1>1. ASSUME NEW v \in Stored["Object"], NEW r \in RootsOf("Object"),
             NEW k \in Keys, Set(r, k, v)
      PROVE  HSound'
  BY <1>1, BeginHSound DEF Call, Set, Types
<1>2. ASSUME NEW v \in Stored["Array"], NEW r \in RootsOf("Array"), Push(r, v)
      PROVE  HSound'
  BY <1>2, BeginHSound DEF Call, Push, Types
<1> QED
  BY <1>1, <1>2 DEF Call

\* A turn that leaves the walk in the loop, with the layout as it was or with
\* one more node.
LEMMA SplitHSound ==
  ASSUME HSound, SplitRoot \/ SplitChild,
         NEW space \in Nat, space >= NodeSize, SplitAndPlace(space)
  PROVE  HSound'
<1>1. /\ pc = "loop" /\ pc' = "loop" /\ used' = used + 1 /\ req' = req
  BY DEF SplitRoot, SplitChild
<1>2. /\ PlaceNode(top + Padding) /\ cap' = Grown(space + Padding + Slack)
      /\ entry' = entry /\ ask' = ask /\ spot' = spot /\ calls' = calls
  BY DEF SplitAndPlace
<1>3. Sound /\ Known /\ Loose
  BY <1>1 DEF HSound, HTrees, Called
<1>4. Sound'
  BY <1>3, SplitRootSound, SplitChildSound
<1>5. Loose'
  BY <1>4, TypedIsLoose DEF Sound
<1>6. KeysIn(Written(Len(entry)))'
  <2> DEFINE S == Written(Len(entry))
  <2>1. KeysIn(S)
    BY <1>3 DEF Known
  <2>2. S' = S
    BY <1>2 DEF Written
  <2> HIDE DEF S
  <2>3. KeysIn(S)'
    <3>1. \A n \in Nodes' : node'[n].keys \in Seq(S)
      BY <1>3, <2>1, SplitRootIn, SplitChildIn DEF KeysIn
    <3> QED
      BY <2>2, <3>1 DEF KeysIn
  <2> QED
    BY <2>3 DEF S
<1>7. Known' /\ Counted' /\ Called'
  BY <1>1, <1>2, <1>4, <1>6 DEF HSound, HTrees, Known, Counted, Called
<1>8. top \in Nat /\ cap \in Nat /\ top <= cap /\ Padding \in Nat /\ Slack \in Nat
  <2>1. top \in Nat /\ cap \in Nat /\ top <= cap
    BY DEF HSound, HPlaces, HTypeOK, InBuffer
  <2> QED
    BY <2>1 DEF Padding, Slack
<1>9. cap' \in Nat /\ cap' >= top + Padding + NodeSize
  <2> DEFINE n == space + Padding + Slack
  <2>1. n \in Nat /\ n >= Padding + NodeSize
    BY <1>8, NodeSizeNat
  <2>2. cap' = Grown(n)
    BY <1>2
  <2> HIDE DEF n
  <2>3. cap' \in Nat /\ cap' >= top + n
    BY <1>8, <2>1, <2>2, GrownFits
  <2> QED
    BY <1>8, <2>1, <2>3, NodeSizeNat
<1>10. HTypeOK' /\ InBuffer'
  <2> DEFINE at == top + Padding
  <2>1. at \in Nat /\ at >= top /\ PlaceNode(at) /\ cap' >= at + NodeSize
    BY <1>2, <1>8, <1>9
  <2>2. used \in Nat /\ HTypeOK /\ InBuffer
    BY <1>3 DEF Loose, HSound, HPlaces
  <2> HIDE DEF at
  <2> QED
    BY <1>1, <1>2, <1>9, <2>1, <2>2, PlacedNode
<1>11. HPlaces'
  BY <1>1, <1>2, <1>10 DEF HSound, HPlaces, Followed, Agreed
<1> QED
  BY <1>5, <1>7, <1>11 DEF HSound, HTrees

LEMMA DescendHSound ==
  ASSUME HSound, Descend, UNCHANGED layout
  PROVE  HSound'
<1>1. /\ pc = "loop" /\ pc' = "loop" /\ used' = used /\ req' = req
      /\ node' = [node EXCEPT ![node_ofs] = Bumped(node_ofs)]
  BY DEF Descend
<1>2. Sound /\ Known
  BY <1>1 DEF HSound, HTrees, Called
<1>3. Sound'
  BY <1>2, DescendSound
<1>4. Loose'
  BY <1>3, TypedIsLoose DEF Sound
<1>5. Nodes' = Nodes /\ DOMAIN node = Nodes /\ node_ofs \in Nodes
      /\ Bumped(node_ofs).keys = node[node_ofs].keys
  BY <1>1, <1>2, SoundNodes, TurnFacts DEF Nodes
<1>6. \A n \in Nodes : node'[n].keys = node[n].keys
  BY <1>1, <1>5
<1>7. Known' /\ Counted' /\ Called'
  BY <1>1, <1>2, <1>3, <1>5, <1>6
     DEF HSound, HTrees, Known, KeysIn, Counted, Called, layout
<1>8. HPlaces'
  BY <1>1, <1>5
     DEF HSound, HPlaces, Followed, Agreed, HTypeOK, InBuffer, layout, EntrySize, ValueSize
<1> QED
  BY <1>4, <1>7, <1>8 DEF HSound, HTrees

\* What remains to be shown when a call ends.
LEMMA EndHSound ==
  ASSUME HSound, pc = "loop", Sound', pc' = "idle", calls' = calls,
         Len(entry') \in Nat, Len(entry') <= Len(entry) + 1,
         \A n \in Nodes' : node'[n].keys \in Seq(Written(Len(entry'))),
         HTypeOK', InBuffer', Agreed', spot' # NoSpot => spot'.type \in Types
  PROVE  HSound'
<1>1. Loose'
  BY TypedIsLoose DEF Sound
<1>2. Known' /\ Called'
  BY DEF Known, KeysIn, Called, Written
<1>3. Counted'
  <2>1. /\ Len(entry) + 1 <= calls["Object"] + calls["Array"]
        /\ calls["Object"] \in Nat /\ calls["Array"] \in Nat
    BY DEF HSound, HTrees, Counted, Types
  <2>2. Len(entry) \in Nat
    BY LenProperties DEF HSound, HPlaces, HTypeOK
  <2> QED
    BY <2>1, <2>2 DEF HSound, HTrees, Counted
<1>4. HPlaces'
  BY DEF HPlaces, Followed
<1> QED
  BY <1>1, <1>2, <1>3, <1>4 DEF HSound, HTrees

LEMMA WrittenGrows ==
  ASSUME NEW m \in Nat, NEW n \in Nat, m <= n
  PROVE  \A s \in Seq(Written(m)) : s \in Seq(Written(n))
<1>1. Written(m) \subseteq Written(n)
  BY DEF Written
<1> QED
  BY <1>1

\* The entry of an overwritten key moves, or a new key gets one.
LEMMA WriteHSound ==
  ASSUME HSound, Overwrite \/ InsertLeaf, NEW over, Write(over)
  PROVE  HSound'
<1> DEFINE nd == Bumped(node_ofs)
           i  == Position(node[node_ofs].keys, req)
           e  == [hash |-> req.hash, key |-> req.key, val |-> req.val]
           W  == Written(Len(entry) + 1)
           o  == [nd EXCEPT !.keys[i + 1].val = req.val]
           l  == [nd EXCEPT !.keys = SubSeq(@, 1, i) \o <<e>>
                                       \o SubSeq(@, i + 1, Len(@))]
<1>1. pc = "loop"
  BY DEF Overwrite, InsertLeaf
<1>2. Sound /\ Known /\ req.val = Len(entry) + 1 /\ Called
  BY <1>1 DEF HSound, HTrees, Called
<1>3. Sound'
  BY <1>2, OverwriteSound, InsertLeafSound
<1>4. Len(entry) \in Nat /\ entry \in Seq(Placed)
  BY LenProperties DEF HSound, HPlaces, HTypeOK
<1>5. KeysIn(W)
  BY <1>2, <1>4, WrittenGrows DEF Known, KeysIn
<1>6. /\ node_ofs \in Nodes /\ req \in Request /\ nd \in Node
      /\ nd.keys = node[node_ofs].keys /\ nd.keys \in Seq(W)
      /\ Len(nd.keys) \in Nat /\ nd.keys \in Seq(Entry)
  BY <1>1, <1>2, <1>5, TurnFacts, SoundNodes DEF WellFormed, KeysIn, Node
<1>7. i \in 0 .. Len(nd.keys)
  BY <1>6, PositionStops
<1>8. e \in W
  BY <1>2, <1>4, <1>6 DEF Written, Request
<1>9. ASSUME Overwrite
      PROVE  \A n \in Nodes' : node'[n].keys \in Seq(W)
  <2>1. i + 1 \in 1 .. Len(nd.keys) /\ Return(o)
    BY <1>6, <1>7, <1>9 DEF Overwrite, Found
  <2> DEFINE x == [nd.keys[i + 1] EXCEPT !.val = req.val]
             ks == [nd.keys EXCEPT ![i + 1] = x]
  <2>2. nd.keys[i + 1] \in W /\ nd.keys[i + 1] \in Entry
    BY <1>6, <2>1, ElementOfSeq
  <2>3. x \in W /\ x \in Entry
    BY <1>2, <1>4, <1>1, <2>2, TurnFacts, SMTT(30) DEF Written, Entry
  <2>4. o = [nd EXCEPT !.keys = ks]
    BY <1>6 DEF Node
  <2> HIDE DEF x, i, nd, o, W
  <2>5. ks \in Seq(W) /\ ks \in Seq(Entry)
    BY <1>6, <2>1, <2>3, ExceptSeq
  <2> HIDE DEF ks
  <2>6. o \in Node /\ o.keys \in Seq(W)
    BY <1>6, <2>4, <2>5 DEF Node
  <2> QED
    BY <1>1, <1>2, <1>5, <2>1, <2>6, ReturnIn DEF KeysIn
<1>10. ASSUME InsertLeaf
       PROVE  \A n \in Nodes' : node'[n].keys \in Seq(W)
  <2> DEFINE ks == SubSeq(nd.keys, 1, i) \o <<e>>
                     \o SubSeq(nd.keys, i + 1, Len(nd.keys))
  <2>1. Return(l)
    BY <1>10 DEF InsertLeaf
  <2>2. l = [nd EXCEPT !.keys = ks]
    BY <1>6 DEF Node
  <2>3. e \in Entry
    BY <1>1, <1>2, <1>6, TurnFacts DEF Entry, Request
  <2> HIDE DEF e, i, nd, l, W
  <2>4. ks \in Seq(W) /\ ks \in Seq(Entry)
    BY <1>6, <1>7, <1>8, <2>3, InsertedSeq
  <2> HIDE DEF ks
  <2>5. l \in Node /\ l.keys \in Seq(W)
    BY <1>6, <2>2, <2>4 DEF Node
  <2> QED
    BY <1>1, <1>2, <1>5, <2>1, <2>5, ReturnIn DEF KeysIn
<1>11. \A n \in Nodes' : node'[n].keys \in Seq(W)
  BY <1>9, <1>10
<1>12. Nodes' = Nodes /\ pc' = "idle" /\ calls' = calls
  BY DEF Overwrite, InsertLeaf, Return, Write, Nodes
<1>13. Len(entry') = Len(entry) + 1
  <2> DEFINE p == [at |-> top, klen |-> Prefix, skip |-> Passed, val |-> ask]
  <2>1. entry' = Append(entry, p)
    BY DEF Write
  <2> QED
    BY <1>4, <2>1
<1>14. HTypeOK' /\ InBuffer' /\ Agreed' /\ (spot' # NoSpot => spot'.type \in Types)
  BY <1>1, <1>2, <1>12, WrittenEntry DEF HSound, HPlaces
<1> QED
  BY <1>1, <1>3, <1>4, <1>11, <1>12, <1>13, <1>14, EndHSound

\* The entry stays where it is: every node keeps its keys.
LEMMA InPlaceHSound ==
  ASSUME HSound, OverwriteInPlace
  PROVE  HSound'
<1> DEFINE nd == Bumped(node_ofs)
           W  == Written(Len(entry))
<1>1. pc = "loop" /\ Return(nd) /\ pc' = "idle" /\ calls' = calls
  BY DEF OverwriteInPlace, Return
<1>2. Sound /\ Known /\ Called
  BY <1>1 DEF HSound, HTrees, Called
<1>3. WellFormed(nd, used) /\ node_ofs \in Nodes /\ nd \in Node
      /\ nd.keys = node[node_ofs].keys
  BY <1>1, <1>2, TurnFacts DEF WellFormed
<1>4. Sound'
  BY <1>1, <1>2, <1>3, ReturnSound
<1>5. \A n \in Nodes' : node'[n].keys \in Seq(W)
  BY <1>1, <1>2, <1>3, ReturnIn DEF Known, KeysIn
<1>6. HTypeOK' /\ InBuffer' /\ Agreed' /\ (spot' # NoSpot => spot'.type \in Types)
  BY <1>2, OverwrittenEntry DEF HSound, HPlaces
<1>7. Len(entry') = Len(entry) /\ Len(entry) \in Nat
  <2>1. entry \in Seq(Placed)
    BY DEF HSound, HPlaces, HTypeOK
  <2>2. entry' \in Seq(Placed) /\ DOMAIN entry' = DOMAIN entry
    BY <1>6 DEF HTypeOK, OverwriteInPlace
  <2> QED
    BY <2>1, <2>2, LenProperties
<1> QED
  BY <1>1, <1>4, <1>5, <1>6, <1>7, EndHSound

\* The children of a node laid out over other bytes are offsets of some kind.
LEMMA ChildrenAtTyped ==
  ASSUME Loose, NEW a
  PROVE  ChildrenAt(a) \in [Slots -> Int]
<1> SUFFICES ASSUME NEW s \in Slots PROVE ChildrenAt(a)[s] \in Int
  BY DEF ChildrenAt
<1>1. CASE \E n \in Nodes : addr[n] = a
  <2> DEFINE m == CHOOSE n \in Nodes : addr[n] = a
  <2>1. m \in Nodes
    BY <1>1
  <2>2. node[m].child[s] \in Int
    BY <2>1 DEF Loose, LooseNode
  <2>3. ChildrenAt(a)[s] = IF s \in Kept THEN node[m].child[s] ELSE 0
    BY <1>1, Zenon DEF ChildrenAt
  <2> QED
    BY <2>2, <2>3
<1>2. CASE ~\E n \in Nodes : addr[n] = a
  BY <1>2 DEF ChildrenAt, Wild
<1> QED
  BY <1>1, <1>2

LEMMA LayOutHSound ==
  ASSUME HSound, LayOut
  PROVE  HSound'
<1> DEFINE a  == spot.ofs + 1
           n  == IF \E m \in Nodes : addr[m] = a
                 THEN CHOOSE m \in Nodes : addr[m] = a ELSE used
           nd == [EmptyNode(1, spot.type) EXCEPT !.child = ChildrenAt(a)]
<1>1. /\ node' = [m \in Nodes \cup {n} |-> IF m = n THEN nd ELSE node[m]]
      /\ addr' = [m \in Nodes \cup {n} |-> IF m = n THEN a ELSE addr[m]]
      /\ used' = IF n = used THEN used + 1 ELSE used
      /\ roots' = roots \cup {n}
  BY DEF LayOut
<1>2. /\ cap' = Grown(NodeSize) /\ top' = top + NodeSize /\ spot' = NoSpot
      /\ spot # NoSpot /\ pc' = pc /\ req' = req /\ parent_ofs' = parent_ofs
      /\ node_ofs' = node_ofs /\ path_depth' = path_depth
      /\ entry' = entry /\ ask' = ask /\ calls' = calls
  BY DEF LayOut
<1>3. /\ Loose /\ Known /\ HTypeOK /\ InBuffer
      /\ pc = "idle" /\ spot.type \in Types
  BY <1>2 DEF HSound, HTrees, HPlaces, Followed
<1>4. n \in Nodes \cup {used} /\ used \in Nat
  BY <1>3 DEF Loose
<1>5. nd \in LooseNode /\ nd.keys = <<>>
  <2> DEFINE c == ChildrenAt(a)
             en == EmptyNode(1, spot.type)
  <2>1. WellFormed(en, 1) /\ en.keys = <<>>
    BY <1>3, EmptyNodeOK DEF EmptyNode
  <2>2. c \in [Slots -> Int]
    BY <1>3, ChildrenAtTyped
  <2>3. nd = [en EXCEPT !.child = c]
    OBVIOUS
  <2> HIDE DEF c, en, nd
  <2> QED
    BY <2>1, <2>2, <2>3 DEF WellFormed, Node, LooseNode
<1>6. a \in Nat /\ a <= top /\ top \in Nat /\ cap \in Nat /\ top <= cap
  BY <1>3 DEF HTypeOK, InBuffer
<1> HIDE DEF a, n, nd
<1>7. Nodes' = Nodes \cup {n} /\ used' \in Nat
  BY <1>1, <1>4 DEF Nodes
<1>8. node' \in [Nodes' -> LooseNode] /\ addr' \in [Nodes' -> Nat]
  <2>1. \A m \in Nodes : node[m] \in LooseNode /\ addr[m] \in Nat
    BY <1>3 DEF Loose, HTypeOK
  <2>2. \A m \in Nodes \cup {n} :
          /\ (IF m = n THEN nd ELSE node[m]) \in LooseNode
          /\ (IF m = n THEN a ELSE addr[m]) \in Nat
    BY <1>5, <1>6, <2>1
  <2> QED
    BY <1>1, <1>7, <2>2
<1>9. Loose'
  BY <1>1, <1>2, <1>3, <1>7, <1>8 DEF Loose
<1>10. Known'
  BY <1>1, <1>2, <1>3, <1>5, <1>7, EmptySeq DEF Known, KeysIn, Written
<1>11. Counted' /\ Called' /\ Followed' /\ Agreed'
  BY <1>2, <1>3 DEF HSound, HTrees, HPlaces, Counted, Called, Followed, Agreed
<1>12. cap' \in Nat /\ cap' >= top + NodeSize
  BY <1>2, <1>6, NodeSizeNat, GrownFits
<1>13. HTypeOK'
  BY <1>2, <1>3, <1>6, <1>8, <1>12, NodeSizeNat DEF HTypeOK, NoSpot
<1>14. \A m \in Nodes' : addr'[m] + NodeSize <= top'
  <2> TAKE m \in Nodes'
  <2>1. CASE m = n
    BY <2>1, <1>1, <1>2, <1>6, <1>7, NodeSizeNat
  <2>2. CASE m # n
    <3>1. m \in Nodes /\ addr'[m] = addr[m]
      BY <2>2, <1>1, <1>7
    <3>2. addr[m] \in Nat /\ addr[m] + NodeSize <= top
      BY <1>3, <3>1 DEF HTypeOK, InBuffer
    <3> QED
      BY <1>2, <1>6, <3>1, <3>2, NodeSizeNat
  <2> QED
    BY <2>1, <2>2
<1>15. \A i \in DOMAIN entry : entry[i].at + EntrySize(entry[i]) <= top'
  <2> TAKE i \in DOMAIN entry
  <2>1. entry[i] \in Placed
    BY <1>3, ElementOfSeq DEF HTypeOK
  <2>2. entry[i].at \in Nat /\ EntrySize(entry[i]) \in Nat
    BY <2>1, EntrySizeNat
  <2>3. entry[i].at + EntrySize(entry[i]) <= top
    BY <1>3 DEF InBuffer
  <2> QED
    BY <1>2, <1>6, <2>2, <2>3, NodeSizeNat
<1>16. InBuffer'
  BY <1>2, <1>6, <1>12, <1>14, <1>15, NodeSizeNat
     DEF InBuffer, NoSpot, EntrySize, ValueSize
<1> QED
  BY <1>9, <1>10, <1>11, <1>13, <1>16 DEF HSound, HTrees, HPlaces

LEMMA HStutterSound ==
  ASSUME HSound, UNCHANGED hvars
  PROVE  HSound'
<1> USE DEF hvars, vars, layout
<1>1. Loose' /\ Known' /\ Counted' /\ Followed' /\ Agreed'
  BY DEF HSound, HTrees, HPlaces, Loose, Known, KeysIn, Counted, Followed, Agreed,
         Nodes, Written
<1>2. Called'
  BY StutterSound DEF HSound, HTrees, Called
<1>3. HTypeOK' /\ InBuffer'
  BY DEF HSound, HPlaces, HTypeOK, InBuffer, Nodes, EntrySize, ValueSize
<1> QED
  BY <1>1, <1>2, <1>3 DEF HSound, HTrees, HPlaces

LEMMA HNextSound ==
  ASSUME HSound, [HNext]_hvars
  PROVE  HSound'
<1>1. ASSUME NEW t \in Types, Create(t)
      PROVE  HSound'
  BY <1>1, CreateHSound
<1>2. CASE Call
  BY <1>2, CallHSound
<1>3. CASE SplitRoot /\ SplitAndPlace(2 * NodeSize)
  BY <1>3, SplitHSound, NodeSizeNat
<1>4. CASE SplitChild /\ SplitAndPlace(NodeSize)
  BY <1>4, SplitHSound, NodeSizeNat
<1>5. CASE Descend /\ UNCHANGED layout
  BY <1>5, DescendHSound
<1>6. CASE OverwriteInPlace
  BY <1>6, InPlaceHSound
<1>7. CASE Overwrite /\ ~SameSize /\ Write("moved")
  BY <1>7, WriteHSound
<1>8. CASE InsertLeaf /\ Write("none")
  BY <1>8, WriteHSound
<1>9. CASE LayOut
  BY <1>9, LayOutHSound
<1>10. CASE UNCHANGED hvars
  BY <1>10, HStutterSound
<1> QED
  BY <1>1, <1>2, <1>3, <1>4, <1>5, <1>6, <1>7, <1>8, <1>9, <1>10, Zenon
     DEF HNext, Step

-----------------------------------------------------------------------------
(***************************************************************************)
(* The theorems                                                            *)
(***************************************************************************)

\* Whatever is stored and however often m_data grows, the strengthened
\* invariant holds, also between the two halves of set_obj.
THEOREM HSoundAlways == HSpec => []HSound
<1>1. HInit => HSound
  BY HInitSound
<1>2. HSound /\ [HNext]_hvars => HSound'
  BY HNextSound
<1> QED
  BY <1>1, <1>2, PTL DEF HSpec

\* Every node has an address and every entry a place, a key length and a value
\* that some caller stored.
THEOREM HTypeCorrect == HSpec => []HTypeOK
<1>1. HSound => HTypeOK
  BY DEF HSound, HPlaces
<1> QED
  BY <1>1, HSoundAlways, PTL

\* No write of set_impl and no clearing of a node by set_obj, set_arr,
\* arr_append_obj and arr_append_arr ever runs past m_used_size or m_data.
THEOREM InBufferAlways == HSpec => []InBuffer
<1>1. HSound => InBuffer
  BY DEF HSound, HPlaces
<1> QED
  BY <1>1, HSoundAlways, PTL

-----------------------------------------------------------------------------
(***************************************************************************)
(* Nothing is written over anything: the inductive invariant               *)
(***************************************************************************)

\* Nodes N at addresses A and entries E, the dead ones included, share no byte.
SpreadOut(N, A, E) ==
  /\ \A m, n \in N : m # n =>
       A[m] + NodeSize <= A[n] \/ A[n] + NodeSize <= A[m]
  /\ \A i, j \in DOMAIN E : i # j =>
       E[i].at + EntrySize(E[i]) <= E[j].at \/ E[j].at + EntrySize(E[j]) <= E[i].at
  /\ \A n \in N : \A i \in DOMAIN E :
       A[n] + NodeSize <= E[i].at \/ E[i].at + EntrySize(E[i]) <= A[n]
Spread == \A N, A, E : N = Nodes /\ A = addr /\ E = entry => SpreadOut(N, A, E)

\* Every type byte of a structure, but the one the call has just written, has
\* the root of such a structure behind it.
Backed ==
  \A i \in DOMAIN entry :
    LET v == entry[i].at + entry[i].klen
    IN  entry[i].val.type \in Types /\ spot.ofs # v =>
          \E r \in roots : addr[r] = v + 1 /\ node[r].type = entry[i].val.type

\* Where a node must follow is the end of the buffer or a root, or the type
\* byte was a null.
Spotted ==
  spot # NoSpot =>
    /\ spot.ofs \in Nat
    /\ \A i \in DOMAIN entry :
         entry[i].at + entry[i].klen = spot.ofs => entry[i].val.type = spot.type
    /\ \/ spot.ofs + 1 = top
       \/ \E r \in roots : addr[r] = spot.ofs + 1
       \/ spot.over = "Null"

Fit == risk # "null" => Spread /\ Backed /\ Spotted

\* Everything laid out so far ends at T.
EndsBy(N, A, E, T) ==
  /\ T \in Nat /\ E \in Seq(Placed)
  /\ \A n \in N : A[n] \in Nat /\ A[n] + NodeSize <= T
  /\ \A i \in DOMAIN E : E[i].at + EntrySize(E[i]) <= T

LEMMA SpreadNode ==
  ASSUME NEW N, NEW A, NEW E, NEW T, EndsBy(N, A, E, T), SpreadOut(N, A, E),
         NEW u, u \notin N, NEW at \in Nat, at >= T,
         NEW M, M = N \cup {u}, NEW B, B[u] = at, \A n \in N : B[n] = A[n]
  PROVE  SpreadOut(M, B, E)
<1>1. T \in Nat /\ \A n \in N : A[n] \in Nat /\ A[n] + NodeSize <= T
  BY DEF EndsBy
<1>2. \A i \in DOMAIN E : E[i].at + EntrySize(E[i]) <= at
  <2> TAKE i \in DOMAIN E
  <2>1. E[i] \in Placed /\ E[i].at + EntrySize(E[i]) <= T
    BY ElementOfSeq DEF EndsBy
  <2>2. E[i].at + EntrySize(E[i]) \in Nat
    BY <2>1, EntrySizeNat
  <2> QED
    BY <2>1, <2>2, <1>1
<1>3. \A n \in N : B[n] + NodeSize <= at
  <2> TAKE n \in N
  <2>1. B[n] \in Nat /\ B[n] + NodeSize <= T
    BY <1>1
  <2> QED
    BY <2>1, <1>1, NodeSizeNat
<1>4. \A m, n \in M : m # n =>
        B[m] + NodeSize <= B[n] \/ B[n] + NodeSize <= B[m]
  <2>1. \A m, n \in N : m # n =>
          B[m] + NodeSize <= B[n] \/ B[n] + NodeSize <= B[m]
    BY DEF SpreadOut
  <2> QED
    BY <1>3, <2>1
<1>5. \A n \in M : \A i \in DOMAIN E :
        B[n] + NodeSize <= E[i].at \/ E[i].at + EntrySize(E[i]) <= B[n]
  <2>1. \A n \in N : \A i \in DOMAIN E :
          B[n] + NodeSize <= E[i].at \/ E[i].at + EntrySize(E[i]) <= B[n]
    BY DEF SpreadOut
  <2> QED
    BY <1>2, <2>1
<1> QED
  BY <1>4, <1>5 DEF SpreadOut

LEMMA SpreadEntry ==
  ASSUME NEW N, NEW A, NEW E, NEW T, EndsBy(N, A, E, T), SpreadOut(N, A, E),
         NEW e \in Placed, e.at >= T, NEW F, F = Append(E, e)
  PROVE  SpreadOut(N, A, F)
<1>1. /\ T \in Nat /\ E \in Seq(Placed)
      /\ \A n \in N : A[n] \in Nat /\ A[n] + NodeSize <= T
  BY DEF EndsBy
<1>2. /\ \A i \in DOMAIN F : i \in DOMAIN E \/ i = Len(E) + 1
      /\ \A i \in DOMAIN E : F[i] = E[i]
      /\ F[Len(E) + 1] = e
  BY <1>1, AppendProperties, LenProperties
<1>3. e.at \in Nat
  BY DEF Placed
<1>4. \A i \in DOMAIN E : E[i].at + EntrySize(E[i]) <= e.at
  <2> TAKE i \in DOMAIN E
  <2>1. E[i] \in Placed /\ E[i].at + EntrySize(E[i]) <= T
    BY <1>1, ElementOfSeq DEF EndsBy
  <2>2. E[i].at + EntrySize(E[i]) \in Nat
    BY <2>1, EntrySizeNat
  <2> QED
    BY <2>1, <2>2, <1>1, <1>3
<1>5. \A n \in N : A[n] + NodeSize <= e.at
  <2> TAKE n \in N
  <2>1. A[n] \in Nat /\ A[n] + NodeSize <= T
    BY <1>1
  <2> QED
    BY <2>1, <1>1, <1>3, NodeSizeNat
<1>6. ASSUME NEW i \in DOMAIN F, NEW j \in DOMAIN F, i # j
      PROVE  \/ F[i].at + EntrySize(F[i]) <= F[j].at
             \/ F[j].at + EntrySize(F[j]) <= F[i].at
  <2>1. CASE i \in DOMAIN E /\ j \in DOMAIN E
    BY <2>1, <1>2, <1>6 DEF SpreadOut
  <2>2. CASE i \in DOMAIN E /\ j = Len(E) + 1
    <3>1. F[i] = E[i] /\ F[j] = e
      BY <2>2, <1>2
    <3> QED
      BY <2>2, <3>1, <1>4
  <2>3. CASE j \in DOMAIN E /\ i = Len(E) + 1
    <3>1. F[j] = E[j] /\ F[i] = e
      BY <2>3, <1>2
    <3> QED
      BY <2>3, <3>1, <1>4
  <2> QED
    BY <2>1, <2>2, <2>3, <1>2, <1>6
<1>7. ASSUME NEW n \in N, NEW i \in DOMAIN F
      PROVE  \/ A[n] + NodeSize <= F[i].at
             \/ F[i].at + EntrySize(F[i]) <= A[n]
  <2>1. CASE i \in DOMAIN E
    BY <2>1, <1>2 DEF SpreadOut
  <2>2. CASE i = Len(E) + 1
    <3>1. F[i] = e
      BY <2>2, <1>2
    <3> QED
      BY <3>1, <1>5
  <2> QED
    BY <2>1, <2>2, <1>2
<1>8. \A m, n \in N : m # n =>
        A[m] + NodeSize <= A[n] \/ A[n] + NodeSize <= A[m]
  BY DEF SpreadOut
<1> QED
  BY <1>6, <1>7, <1>8 DEF SpreadOut

\* Neither entries nor nodes have moved or changed their lengths.
LEMMA SpreadSame ==
  ASSUME NEW N, NEW A, NEW E, SpreadOut(N, A, E),
         NEW B, \A n \in N : B[n] = A[n],
         NEW F, DOMAIN F = DOMAIN E,
         \A i \in DOMAIN E : F[i].at = E[i].at /\ EntrySize(F[i]) = EntrySize(E[i])
  PROVE  SpreadOut(N, B, F)
BY DEF SpreadOut

\* Two values never begin at one byte.
LEMMA ValuesApart ==
  ASSUME HTypeOK, Spread, NEW i \in DOMAIN entry, NEW j \in DOMAIN entry,
         entry[i].at + entry[i].klen = entry[j].at + entry[j].klen
  PROVE  i = j
<1> DEFINE s == EntrySize(entry[i])
           t == EntrySize(entry[j])
<1>1. entry[i] \in Placed /\ entry[j] \in Placed
  BY ElementOfSeq DEF HTypeOK
<1>2. /\ s \in Nat /\ s >= entry[i].klen + 1
      /\ entry[i].at \in Nat /\ entry[i].klen \in Nat
      /\ t \in Nat /\ t >= entry[j].klen + 1
      /\ entry[j].at \in Nat /\ entry[j].klen \in Nat
  BY <1>1, EntrySizeNat
<1>3. i # j => entry[i].at + s <= entry[j].at \/ entry[j].at + t <= entry[i].at
  BY DEF Spread, SpreadOut
<1> HIDE DEF s, t
<1> QED
  BY <1>2, <1>3

LEMMA LaidOut ==
  ASSUME HSound
  PROVE  \A N, A, E, T : N = Nodes /\ A = addr /\ E = entry /\ T = top =>
           EndsBy(N, A, E, T)
BY DEF HSound, HPlaces, HTypeOK, InBuffer, EndsBy

\* A step that puts a node at the end and leaves the rest alone.
LEMMA PlacedSpread ==
  ASSUME HSound, Spread, NEW at \in Nat, at >= top, PlaceNode(at),
         used' = used + 1, entry' = entry
  PROVE  Spread' /\ addr'[used] = at /\ \A n \in Nodes : addr'[n] = addr[n]
<1>1. used \in Nat
  BY DEF HSound, HTrees, Loose
<1>2. Nodes' = Nodes \cup {used} /\ used \notin Nodes
  BY <1>1 DEF Nodes
<1>3. addr'[used] = at /\ \A n \in Nodes : addr'[n] = addr[n]
  BY <1>1 DEF PlaceNode, Nodes
<1>4. SpreadOut(Nodes, addr, entry) /\ EndsBy(Nodes, addr, entry, top)
  BY LaidOut DEF Spread
<1>5. PICK N, A, E, T, u, M, B :
        /\ N = Nodes /\ A = addr /\ E = entry /\ T = top /\ u = used
        /\ M = Nodes' /\ B = addr'
  OBVIOUS
<1>6. SpreadOut(M, B, E)
  BY <1>2, <1>3, <1>4, <1>5, SpreadNode
<1>7. Spread'
  BY <1>5, <1>6 DEF Spread
<1> QED
  BY <1>3, <1>7

\* An overwrite in place leaves all keys as they are.
LEMMA InPlaceWrote ==
  ASSUME Sound, OverwriteInPlace
  PROVE  Wrote(node[node_ofs].keys)
<1>1. pc = "loop" /\ Return(Bumped(node_ofs))
  BY DEF OverwriteInPlace
<1>2. /\ WellFormed(Bumped(node_ofs), used) /\ node_ofs \in Nodes
      /\ Bumped(node_ofs).keys = node[node_ofs].keys
      /\ Bumped(node_ofs).child = node[node_ofs].child
      /\ Bumped(node_ofs).type = node[node_ofs].type
      /\ Bumped(node_ofs).size = node[node_ofs].size
  <2>1. WellFormed(Bumped(node_ofs), used) /\ node_ofs \in Nodes
    BY <1>1, TurnFacts
  <2>2. node[node_ofs] \in Node
    BY <2>1, SoundNodes DEF WellFormed
  <2> QED
    BY <2>1, <2>2 DEF Bumped, Node
<1>3. Wrote(Bumped(node_ofs).keys)
  BY <1>1, <1>2, ReturnWrote DEF WellFormed
<1> QED
  BY <1>2, <1>3

LEMMA InPlaceKind ==
  ASSUME Sound, OverwriteInPlace
  PROVE  Kind
<1>1. Wrote(node[node_ofs].keys)
  BY InPlaceWrote
<1> QED
  BY <1>1 DEF Wrote, Kind, Sound, TypeOK

-----------------------------------------------------------------------------
(***************************************************************************)
(* The invariant is kept                                                   *)
(***************************************************************************)

\* Steps that put no value anywhere.
LEMMA FitStays ==
  ASSUME Backed, Spotted, Spread', entry' = entry, spot' = spot, spot = NoSpot,
         roots \subseteq roots',
         \A r \in roots : addr'[r] = addr[r] /\ node'[r].type = node[r].type
  PROVE  Fit'
<1>1. Spotted'
  BY DEF Spotted
<1>2. Backed'
  BY DEF Backed
<1> QED
  BY <1>1, <1>2 DEF Fit

LEMMA SpreadCalm ==
  ASSUME Spread, Nodes' = Nodes, addr' = addr, entry' = entry
  PROVE  Spread'
BY DEF Spread

LEMMA CreateFit ==
  ASSUME HSound, Fit, NEW t \in Types, Create(t)
  PROVE  Fit'
<1> SUFFICES ASSUME risk' # "null" PROVE Fit'
  BY DEF Fit
<1>1. /\ InitStructure(t) /\ PlaceNode(top) /\ used' = used + 1
      /\ entry' = entry /\ spot' = spot /\ spot = NoSpot /\ risk' = risk
      /\ roots' = roots \cup {used}
  BY DEF Create, InitStructure
<1>2. Spread /\ Backed /\ Spotted
  BY <1>1 DEF Fit
<1>3. top \in Nat /\ top >= top /\ used \in Nat /\ roots \subseteq Nodes
  BY DEF HSound, HPlaces, HTypeOK, HTrees, Loose
<1>4. Spread' /\ \A n \in Nodes : addr'[n] = addr[n]
  BY <1>1, <1>2, <1>3, PlacedSpread
<1>5. \A n \in Nodes : node'[n] = node[n]
  BY <1>1, <1>3 DEF InitStructure, Nodes
<1> QED
  BY <1>1, <1>2, <1>3, <1>4, <1>5, FitStays

LEMMA SplitFit ==
  ASSUME HSound, Fit, SplitRoot \/ SplitChild, NEW space, SplitAndPlace(space)
  PROVE  Fit'
<1> SUFFICES ASSUME risk' # "null" PROVE Fit'
  BY DEF Fit
<1>1. /\ pc = "loop" /\ PlaceNode(top + Padding) /\ used' = used + 1
      /\ entry' = entry /\ spot' = spot /\ risk' = risk
  BY DEF SplitRoot, SplitChild, SplitAndPlace
<1>2. Spread /\ Backed /\ Spotted
  BY <1>1 DEF Fit
<1>3. Sound /\ spot = NoSpot
  BY <1>1 DEF HSound, HTrees, HPlaces, Called, Followed
<1>4. top + Padding \in Nat /\ top + Padding >= top
  <2>1. top \in Nat
    BY DEF HSound, HPlaces, HTypeOK
  <2> QED
    BY <2>1 DEF Padding
<1>5. Spread' /\ \A n \in Nodes : addr'[n] = addr[n]
  <2>1. PICK at : at = top + Padding
    OBVIOUS
  <2> QED
    BY <1>1, <1>2, <1>4, <2>1, PlacedSpread
<1>6. Kind
  BY <1>3, SplitKind
<1> QED
  BY <1>1, <1>2, <1>3, <1>5, <1>6, FitStays DEF Kind

LEMMA DescendFit ==
  ASSUME HSound, Fit, Descend, UNCHANGED layout
  PROVE  Fit'
<1> SUFFICES ASSUME risk' # "null" PROVE Fit'
  BY DEF Fit
<1>1. /\ pc = "loop" /\ Nodes' = Nodes /\ addr' = addr
      /\ entry' = entry /\ spot' = spot /\ risk' = risk
  BY DEF Descend, layout, Nodes
<1>2. Spread /\ Backed /\ Spotted
  BY <1>1 DEF Fit
<1>3. Sound /\ spot = NoSpot
  BY <1>1 DEF HSound, HTrees, HPlaces, Called, Followed
<1>4. Kind
  BY <1>3, DescendKind
<1> QED
  BY <1>1, <1>2, <1>3, <1>4, SpreadCalm, FitStays DEF Kind

LEMMA RestFit ==
  ASSUME HSound, Fit, Call \/ UNCHANGED hvars
  PROVE  Fit'
<1>1. /\ Nodes' = Nodes /\ addr' = addr /\ entry' = entry /\ spot' = spot
      /\ risk' = risk /\ node' = node /\ roots' = roots /\ top' = top
  BY DEF Call, Set, Push, Begin, SetBegin, AppendBegin, Start, hvars, vars,
         layout, Nodes
<1>2. Spread => Spread'
  BY <1>1 DEF Spread
<1>3. Backed => Backed'
  BY <1>1 DEF Backed
<1>4. Spotted => Spotted'
  BY <1>1 DEF Spotted
<1> QED
  BY <1>1, <1>2, <1>3, <1>4 DEF Fit

\* A value put behind all others.
LEMMA WriteFit ==
  ASSUME HSound, Fit, Overwrite \/ InsertLeaf, NEW over, Write(over)
  PROVE  Fit'
<1> SUFFICES ASSUME risk' # "null" PROVE Fit'
  BY DEF Fit
<1> DEFINE e == [at |-> top, klen |-> Prefix, skip |-> Passed, val |-> ask]
<1>1. /\ pc = "loop" /\ Nodes' = Nodes /\ addr' = addr /\ risk' = risk
      /\ entry' = Append(entry, e) /\ top' = top + Prefix + ValueSize(ask)
      /\ Done(top + Prefix, over)
  BY DEF Overwrite, InsertLeaf, Return, Write, Nodes
<1>2. Spread /\ Backed /\ Spotted
  BY <1>1 DEF Fit
<1>3. /\ Sound /\ Called /\ spot = NoSpot /\ ask \in Storable
      /\ top \in Nat /\ entry \in Seq(Placed)
  BY <1>1 DEF HSound, HTrees, HPlaces, Called, Followed, HTypeOK
<1>4. /\ Prefix \in Nat /\ Passed = Prefix /\ e \in Placed
      /\ e.at = top /\ e.klen = Prefix /\ e.val = ask
  <2>1. Prefix \in Nat /\ Passed = Prefix
    BY <1>1, <1>3, PrefixPassed DEF Called
  <2> QED
    BY <2>1, <1>3 DEF Placed
<1> HIDE DEF e
<1>5. Kind
  BY <1>3, WroteKind
<1>6. Spread'
  <2>1. SpreadOut(Nodes, addr, entry) /\ EndsBy(Nodes, addr, entry, top)
    BY <1>2, LaidOut DEF Spread
  <2>2. PICK N, A, E, T, F : /\ N = Nodes /\ A = addr /\ E = entry /\ T = top
                             /\ F = entry'
    OBVIOUS
  <2>3. e.at >= T
    BY <1>3, <1>4, <2>2
  <2>4. SpreadOut(N, A, F)
    BY <1>1, <1>4, <2>1, <2>2, <2>3, SpreadEntry
  <2> QED
    BY <1>1, <2>2, <2>4 DEF Spread
<1>7. /\ \A i \in DOMAIN entry' : i \in DOMAIN entry \/ i = Len(entry) + 1
      /\ \A i \in DOMAIN entry : entry'[i] = entry[i]
      /\ entry'[Len(entry) + 1] = e
  BY <1>1, <1>3, <1>4, AppendProperties, LenProperties
<1>8. /\ ask.type \in Types => spot'.ofs = top + Prefix /\ spot'.type = ask.type
      /\ ask.type \notin Types => spot' = NoSpot
  BY <1>1 DEF Done
<1>9. \A i \in DOMAIN entry : /\ entry[i].at \in Nat /\ entry[i].klen \in Nat
                              /\ entry[i].at + entry[i].klen < top
  <2> TAKE i \in DOMAIN entry
  <2>1. entry[i] \in Placed /\ entry[i].at + EntrySize(entry[i]) <= top
    BY <1>3, ElementOfSeq DEF HSound, HPlaces, InBuffer
  <2>2. /\ EntrySize(entry[i]) \in Nat /\ entry[i].at \in Nat /\ entry[i].klen \in Nat
        /\ EntrySize(entry[i]) >= entry[i].klen + 1
    BY <2>1, EntrySizeNat
  <2> QED
    BY <2>1, <2>2, <1>3
<1>10. ASSUME NEW i \in DOMAIN entry', entry'[i].val.type \in Types,
              spot'.ofs # entry'[i].at + entry'[i].klen
       PROVE  \E r \in roots' : /\ addr'[r] = entry'[i].at + entry'[i].klen + 1
                                /\ node'[r].type = entry'[i].val.type
  <2>1. i \in DOMAIN entry
    <3>1. i # Len(entry) + 1
      BY <1>4, <1>7, <1>8, <1>10
    <3> QED
      BY <3>1, <1>7
  <2>2. entry'[i] = entry[i]
    BY <2>1, <1>7
  <2>3. spot.ofs # entry[i].at + entry[i].klen
    BY <2>1, <1>3, <1>9 DEF NoSpot
  <2>4. PICK r \in roots : /\ addr[r] = entry[i].at + entry[i].klen + 1
                           /\ node[r].type = entry[i].val.type
    BY <2>1, <2>2, <2>3, <1>2, <1>10 DEF Backed
  <2> QED
    BY <2>2, <2>4, <1>1, <1>5 DEF Kind
<1>11. Backed'
  BY <1>10 DEF Backed
<1>12. Spotted'
  <2> SUFFICES ASSUME spot' # NoSpot
               PROVE  /\ spot'.ofs \in Nat
                      /\ \A i \in DOMAIN entry' :
                           entry'[i].at + entry'[i].klen = spot'.ofs
                             => entry'[i].val.type = spot'.type
                      /\ spot'.ofs + 1 = top'
    BY DEF Spotted
  <2>1. /\ ask.type \in Types /\ spot'.ofs = top + Prefix
        /\ spot'.type = ask.type
    BY <1>8
  <2>2. spot'.ofs \in Nat
    BY <2>1, <1>3, <1>4
  <2>3. spot'.ofs + 1 = top'
    <3>1. ValueSize(ask) = 1
      BY <2>1, <1>3, SizesAssumption DEF Storable
    <3> QED
      BY <3>1, <2>1, <1>1, <1>3, <1>4
  <2>4. ASSUME NEW i \in DOMAIN entry',
               entry'[i].at + entry'[i].klen = spot'.ofs
        PROVE  entry'[i].val.type = spot'.type
    <3>1. i \notin DOMAIN entry
      BY <2>1, <2>4, <1>3, <1>4, <1>7, <1>9
    <3> QED
      BY <3>1, <2>1, <1>4, <1>7
  <2> QED
    BY <2>2, <2>3, <2>4
<1> QED
  BY <1>6, <1>11, <1>12 DEF Fit

\* A value put over one that takes as many bytes.
LEMMA InPlaceFit ==
  ASSUME HSound, Fit, OverwriteInPlace
  PROVE  Fit'
<1> SUFFICES ASSUME risk' # "null" PROVE Fit'
  BY DEF Fit
<1>t. PICK T, old, v : /\ T = Target /\ old = entry[T]
                       /\ v = old.at + old.klen
  OBVIOUS
<1>1. /\ pc = "loop" /\ Found(node[node_ofs].keys, req) /\ SameSize
      /\ Nodes' = Nodes /\ addr' = addr /\ risk' = risk /\ top' = top
      /\ entry' = [entry EXCEPT ![T].val = ask]
      /\ Done(old.at + old.skip, old.val.type)
  BY <1>t DEF OverwriteInPlace, Return, Nodes
<1>2. Spread /\ Backed /\ Spotted
  BY <1>1 DEF Fit
<1>3. /\ Sound /\ Known /\ spot = NoSpot /\ ask \in Storable
      /\ entry \in Seq(Placed) /\ HTypeOK
  BY <1>1 DEF HSound, HTrees, HPlaces, Called, Followed, HTypeOK
<1>4. T \in DOMAIN entry
  BY <1>1, <1>3, <1>t, TargetWritten, LenProperties
<1>5. old \in Placed /\ old.skip = old.klen /\ old.at \in Nat /\ old.klen \in Nat
      /\ v \in Nat /\ old.val \in Storable
  <2>1. old \in Placed
    BY <1>3, <1>4, <1>t, ElementOfSeq
  <2>2. old.skip = old.klen
    BY <1>4, <1>t DEF HSound, HPlaces, Agreed
  <2> QED
    BY <2>1, <2>2, <1>t DEF Placed
<1>6. Kind
  BY <1>3, InPlaceKind
<1>7. /\ DOMAIN entry' = DOMAIN entry
      /\ \A i \in DOMAIN entry : i # T => entry'[i] = entry[i]
      /\ entry'[T] = [old EXCEPT !.val = ask]
  BY <1>1, <1>4, <1>t
<1>8. /\ entry'[T].at = old.at /\ entry'[T].klen = old.klen
      /\ entry'[T].val = ask
  BY <1>5, <1>7 DEF Placed
<1>9. ValueSize(old.val) = ValueSize(ask)
  BY <1>1, <1>t DEF SameSize
<1>10. Spread'
  <2>1. PICK N, A, E, F, B : /\ N = Nodes /\ A = addr /\ E = entry /\ F = entry'
                             /\ B = addr'
    OBVIOUS
  <2>2. SpreadOut(N, A, E)
    BY <2>1, <1>2 DEF Spread
  <2>3. ASSUME NEW i \in DOMAIN E
        PROVE  F[i].at = E[i].at /\ EntrySize(F[i]) = EntrySize(E[i])
    <3>1. CASE i = T
      BY <3>1, <2>1, <1>8, <1>9, <1>t DEF EntrySize
    <3>2. CASE i # T
      BY <3>2, <2>1, <2>3, <1>7
    <3> QED
      BY <3>1, <3>2
  <2>4. SpreadOut(N, B, F)
    <3>1. DOMAIN F = DOMAIN E /\ \A n \in N : B[n] = A[n]
      BY <2>1, <1>1, <1>7
    <3> QED
      BY <2>2, <2>3, <3>1, SpreadSame
  <2> QED
    BY <2>1, <2>4, <1>1 DEF Spread
<1>11. /\ ask.type \in Types => /\ spot'.ofs = v /\ spot'.type = ask.type
                                /\ spot'.over = old.val.type
       /\ ask.type \notin Types => spot' = NoSpot
  BY <1>1, <1>5, <1>t DEF Done
<1>12. \A i \in DOMAIN entry : spot.ofs # entry[i].at + entry[i].klen
  <2> TAKE i \in DOMAIN entry
  <2>1. entry[i] \in Placed
    BY <1>3, ElementOfSeq
  <2> QED
    BY <2>1, <1>3 DEF NoSpot, Placed
<1>13. ASSUME NEW i \in DOMAIN entry', entry'[i].val.type \in Types,
              spot'.ofs # entry'[i].at + entry'[i].klen
       PROVE  \E r \in roots' : /\ addr'[r] = entry'[i].at + entry'[i].klen + 1
                                /\ node'[r].type = entry'[i].val.type
  <2>1. i # T
    BY <1>8, <1>11, <1>13, <1>t
  <2>2. entry'[i] = entry[i] /\ i \in DOMAIN entry
    BY <2>1, <1>7
  <2>3. PICK r \in roots : /\ addr[r] = entry[i].at + entry[i].klen + 1
                           /\ node[r].type = entry[i].val.type
    BY <2>2, <1>2, <1>12, <1>13 DEF Backed
  <2> QED
    BY <2>2, <2>3, <1>1, <1>6 DEF Kind
<1>14. Backed'
  BY <1>13 DEF Backed
<1>15. Spotted'
  <2> SUFFICES ASSUME spot' # NoSpot
               PROVE  /\ spot'.ofs \in Nat
                      /\ \A i \in DOMAIN entry' :
                           entry'[i].at + entry'[i].klen = spot'.ofs
                             => entry'[i].val.type = spot'.type
                      /\ \/ \E r \in roots' : addr'[r] = spot'.ofs + 1
                         \/ spot'.over = "Null"
    BY DEF Spotted
  <2>1. /\ ask.type \in Types /\ spot'.ofs = v /\ spot'.type = ask.type
        /\ spot'.over = old.val.type
    BY <1>11
  <2>2. \/ \E r \in roots' : addr'[r] = v + 1
        \/ old.val.type = "Null"
    <3>1. old.val.type \in Types \cup {"Null"}
      <4>1. ValueSize(old.val) = 1
        BY <2>1, <1>3, <1>9, SizesAssumption DEF Storable
      <4> QED
        BY <4>1, <1>5, SizesAssumption DEF Storable
    <3>2. CASE old.val.type \in Types
      <4>1. PICK r \in roots : addr[r] = v + 1
        BY <3>2, <1>2, <1>4, <1>12, <1>t DEF Backed
      <4> QED
        BY <4>1, <1>1, <1>6 DEF Kind
    <3> QED
      BY <3>1, <3>2
  <2>3. ASSUME NEW i \in DOMAIN entry',
               entry'[i].at + entry'[i].klen = spot'.ofs
        PROVE  entry'[i].val.type = spot'.type
    <3>1. i = T
      <4>1. ASSUME i # T PROVE FALSE
        <5>1. i \in DOMAIN entry /\ entry[i].at + entry[i].klen = v
          BY <4>1, <2>1, <2>3, <1>7
        <5> QED
          BY <5>1, <4>1, <1>2, <1>3, <1>4, <1>t, ValuesApart
      <4> QED
        BY <4>1
    <3> QED
      BY <3>1, <2>1, <1>8
  <2> QED
    BY <2>1, <2>2, <2>3, <1>5
<1> QED
  BY <1>10, <1>14, <1>15 DEF Fit

\* A node put behind its type byte goes to the end of the buffer or over a root.
LEMMA LayOutPlace ==
  ASSUME HSound, Fit, LayOut, risk' # "null"
  PROVE  \E a, n :
           /\ a = spot.ofs + 1 /\ a \in Nat /\ a <= top
           /\ spot # NoSpot /\ spot' = NoSpot /\ entry' = entry
           /\ Nodes' = Nodes \cup {n} /\ roots' = roots \cup {n}
           /\ addr'[n] = a
           /\ node'[n] = [EmptyNode(1, spot.type) EXCEPT !.child = ChildrenAt(a)]
           /\ \A m \in Nodes : m # n => node'[m] = node[m] /\ addr'[m] = addr[m]
           /\ \/ /\ a = top /\ n = used
                 /\ \A m \in Nodes : addr[m] # a
              \/ /\ n \in roots /\ addr[n] = a
                 /\ \A m \in Nodes : addr[m] = a => m = n
<1> DEFINE a0 == spot.ofs + 1
           n0 == IF \E m \in Nodes : addr[m] = a0
                 THEN CHOOSE m \in Nodes : addr[m] = a0 ELSE used
           d0 == [EmptyNode(1, spot.type) EXCEPT !.child = ChildrenAt(a0)]
<1>a. PICK a, n, nd : a = a0 /\ n = n0 /\ nd = d0
  OBVIOUS
<1>1. /\ node' = [m \in Nodes \cup {n} |-> IF m = n THEN nd ELSE node[m]]
      /\ addr' = [m \in Nodes \cup {n} |-> IF m = n THEN a ELSE addr[m]]
      /\ used' = IF n = used THEN used + 1 ELSE used
      /\ roots' = roots \cup {n}
      /\ spot # NoSpot /\ spot' = NoSpot /\ entry' = entry
  BY <1>a DEF LayOut
<1>2. risk # "null" /\ ~(spot.over = "Null" /\ a < top)
  BY <1>a DEF LayOut
<1>3. Spread /\ Backed /\ Spotted
  BY <1>2 DEF Fit
<1>4. /\ (\E m \in Nodes : addr[m] = a) => n \in Nodes /\ addr[n] = a
      /\ (~\E m \in Nodes : addr[m] = a) => n = used
  <2> HIDE DEF a0, d0
  <2>1. CASE \E m \in Nodes : addr[m] = a
    <3>1. n = CHOOSE m \in Nodes : addr[m] = a
      BY <2>1, <1>a, Zenon
    <3> QED
      BY <2>1, <3>1
  <2>2. CASE ~\E m \in Nodes : addr[m] = a
    <3>1. n = used
      BY <2>2, <1>a, Zenon
    <3> QED
      BY <2>2, <3>1
  <2> QED
    BY <2>1, <2>2
<1>5. /\ used \in Nat /\ roots \subseteq Nodes /\ top \in Nat
      /\ \A m \in Nodes : addr[m] \in Nat /\ addr[m] + NodeSize <= top
      /\ spot.ofs \in Nat /\ a = spot.ofs + 1 /\ a <= top
  BY <1>1, <1>3, <1>a DEF HSound, HPlaces, HTypeOK, HTrees, Loose, InBuffer,
     Spotted
<1>6. nd = [EmptyNode(1, spot.type) EXCEPT !.child = ChildrenAt(a)]
  BY <1>a
<1> HIDE DEF a0, n0, d0
<1>7. /\ \A m \in Nodes : m # n => node'[m] = node[m] /\ addr'[m] = addr[m]
      /\ node'[n] = nd /\ addr'[n] = a
  BY <1>1
<1>8. Nodes' = Nodes \cup {n}
  <2>1. CASE n = used
    BY <2>1, <1>1, <1>5 DEF Nodes
  <2>2. CASE n # used
    <3>1. n \in Nodes
      BY <2>2, <1>4
    <3>2. used' = used
      BY <2>2, <1>1
    <3> QED
      BY <3>1, <3>2 DEF Nodes
  <2> QED
    BY <2>1, <2>2
<1>9. \/ /\ a = top /\ n = used
         /\ \A m \in Nodes : addr[m] # a
      \/ /\ n \in roots /\ addr[n] = a
         /\ \A m \in Nodes : addr[m] = a => m = n
  <2>1. CASE a = top
    <3>1. \A m \in Nodes : addr[m] # a
      BY <2>1, <1>5, NodeSizeNat
    <3> QED
      BY <2>1, <3>1, <1>4
  <2>2. CASE a # top
    <3>1. spot.over # "Null" /\ spot.ofs + 1 # top
      BY <2>2, <1>2, <1>5
    <3>2. PICK r \in roots : addr[r] = spot.ofs + 1
      BY <3>1, <1>1, <1>3 DEF Spotted
    <3>3. r \in Nodes /\ addr[r] = a
      BY <3>2, <1>5
    <3>4. n \in Nodes /\ addr[n] = a
      BY <3>3, <1>4
    <3>5. \A k, m \in Nodes : addr[k] = a /\ addr[m] = a => k = m
      <4>1. SpreadOut(Nodes, addr, entry)
        BY <1>3 DEF Spread
      <4> QED
        BY <4>1, <1>5, NodeSizeNat DEF SpreadOut
    <3> QED
      BY <3>2, <3>3, <3>4, <3>5
  <2> QED
    BY <2>1, <2>2
<1>10. /\ a = spot.ofs + 1 /\ a \in Nat /\ a <= top
       /\ spot # NoSpot /\ spot' = NoSpot /\ entry' = entry
  BY <1>1, <1>5
<1>11. Nodes' = Nodes \cup {n} /\ roots' = roots \cup {n} /\ addr'[n] = a
  BY <1>1, <1>7, <1>8
<1>12. node'[n] = [EmptyNode(1, spot.type) EXCEPT !.child = ChildrenAt(a)]
  BY <1>6, <1>7
<1>13. \A m \in Nodes : m # n => node'[m] = node[m] /\ addr'[m] = addr[m]
  BY <1>7
<1> QED
  BY <1>9, <1>10, <1>11, <1>12, <1>13, Zenon

LEMMA LayOutFit ==
  ASSUME HSound, Fit, LayOut
  PROVE  Fit'
<1> SUFFICES ASSUME risk' # "null" PROVE Fit'
  BY DEF Fit
<1>1. PICK a, n :
        /\ a = spot.ofs + 1 /\ a \in Nat /\ a <= top
        /\ spot # NoSpot /\ spot' = NoSpot /\ entry' = entry
        /\ Nodes' = Nodes \cup {n} /\ roots' = roots \cup {n}
        /\ addr'[n] = a
        /\ node'[n] = [EmptyNode(1, spot.type) EXCEPT !.child = ChildrenAt(a)]
        /\ \A m \in Nodes : m # n => node'[m] = node[m] /\ addr'[m] = addr[m]
        /\ \/ /\ a = top /\ n = used
              /\ \A m \in Nodes : addr[m] # a
           \/ /\ n \in roots /\ addr[n] = a
              /\ \A m \in Nodes : addr[m] = a => m = n
  BY LayOutPlace
<1>2. node'[n].type = spot.type
  BY <1>1 DEF EmptyNode
<1>3. Spread /\ Backed /\ Spotted
  <2>1. risk # "null"
    BY DEF LayOut
  <2> QED
    BY <2>1 DEF Fit
<1>4. /\ used \in Nat /\ roots \subseteq Nodes
      /\ entry \in Seq(Placed) /\ spot.ofs \in Nat
  BY <1>1, <1>3 DEF HSound, HPlaces, HTypeOK, HTrees, Loose, Spotted
<1>5. Spread' /\ \A r \in roots : r = n => addr[r] = a
  <2>1. CASE a = top /\ n = used
    <3>1. SpreadOut(Nodes, addr, entry) /\ EndsBy(Nodes, addr, entry, top)
      BY <1>3, LaidOut DEF Spread
    <3>2. PICK N, A, E, T, M, B : /\ N = Nodes /\ A = addr /\ E = entry
                                  /\ T = top /\ M = Nodes' /\ B = addr'
      OBVIOUS
    <3>3. n \notin N
      BY <2>1, <3>2, <1>4 DEF Nodes
    <3>4. M = N \cup {n} /\ a \in Nat /\ a >= T
      BY <2>1, <3>2, <1>1
    <3>5. B[n] = a /\ \A m \in N : B[m] = A[m]
      BY <3>2, <3>3, <1>1
    <3>6. SpreadOut(M, B, E)
      BY <3>1, <3>2, <3>3, <3>4, <3>5, SpreadNode
    <3>7. Spread'
      BY <3>2, <3>6, <1>1 DEF Spread
    <3> QED
      BY <3>2, <3>3, <3>7, <1>4
  <2>2. CASE n \in roots /\ addr[n] = a
    <3>1. Nodes' = Nodes /\ \A m \in Nodes : addr'[m] = addr[m]
      BY <2>2, <1>1, <1>4
    <3>2. PICK N, A, E, B : N = Nodes /\ A = addr /\ E = entry /\ B = addr'
      OBVIOUS
    <3>3. SpreadOut(N, A, E)
      BY <3>2, <1>3 DEF Spread
    <3>4. SpreadOut(N, B, E)
      BY <3>1, <3>2, <3>3, SpreadSame
    <3> QED
      BY <2>2, <3>1, <3>2, <3>4, <1>1 DEF Spread
  <2> QED
    BY <2>1, <2>2, <1>1
<1>6. ASSUME NEW i \in DOMAIN entry, entry[i].val.type \in Types
      PROVE  \E r \in roots' : /\ addr'[r] = entry[i].at + entry[i].klen + 1
                               /\ node'[r].type = entry[i].val.type
  <2>1. CASE entry[i].at + entry[i].klen = spot.ofs
    <3>1. entry[i].val.type = spot.type
      BY <2>1, <1>1, <1>3 DEF Spotted
    <3> QED
      BY <2>1, <3>1, <1>1, <1>2
  <2>2. CASE entry[i].at + entry[i].klen # spot.ofs
    <3>1. PICK r \in roots : /\ addr[r] = entry[i].at + entry[i].klen + 1
                             /\ node[r].type = entry[i].val.type
      BY <2>2, <1>3, <1>6 DEF Backed
    <3>2. entry[i].at \in Nat /\ entry[i].klen \in Nat
      <4>1. entry[i] \in Placed
        BY <1>4, ElementOfSeq
      <4> QED
        BY <4>1 DEF Placed
    <3>3. addr[r] # a
      BY <2>2, <3>1, <3>2, <1>1, <1>4
    <3>4. r # n /\ r \in Nodes /\ r \in roots'
      BY <3>3, <1>1, <1>4, <1>5
    <3> QED
      BY <3>1, <3>4, <1>1
  <2> QED
    BY <2>1, <2>2
<1>7. Backed'
  <2>1. entry' = entry
    BY <1>1
  <2> QED
    BY <2>1, <1>6 DEF Backed
<1>8. Spotted'
  BY <1>1 DEF Spotted
<1> QED
  BY <1>5, <1>7, <1>8 DEF Fit

LEMMA HNextFit ==
  ASSUME HSound, Fit, [HNext]_hvars
  PROVE  Fit'
<1>1. ASSUME NEW t \in Types, Create(t)
      PROVE  Fit'
  BY <1>1, CreateFit
<1>2. CASE Call \/ UNCHANGED hvars
  BY <1>2, RestFit
<1>3. CASE SplitRoot /\ SplitAndPlace(2 * NodeSize)
  BY <1>3, SplitFit
<1>4. CASE SplitChild /\ SplitAndPlace(NodeSize)
  BY <1>4, SplitFit
<1>5. CASE Descend /\ UNCHANGED layout
  BY <1>5, DescendFit
<1>6. CASE OverwriteInPlace
  BY <1>6, InPlaceFit
<1>7. CASE Overwrite /\ ~SameSize /\ Write("moved")
  BY <1>7, WriteFit
<1>8. CASE InsertLeaf /\ Write("none")
  BY <1>8, WriteFit
<1>9. CASE LayOut
  BY <1>9, LayOutFit
<1> QED
  BY <1>1, <1>2, <1>3, <1>4, <1>5, <1>6, <1>7, <1>8, <1>9, Zenon DEF HNext, Step

LEMMA HInitFit == HInit => Fit
<1> SUFFICES ASSUME HInit PROVE Fit
  OBVIOUS
<1>1. Nodes = {} /\ entry = <<>> /\ spot = NoSpot /\ DOMAIN entry = {}
  BY DEF HInit, Init, Nodes
<1>2. Spread
  BY <1>1 DEF Spread, SpreadOut
<1> QED
  BY <1>1, <1>2 DEF Fit, Backed, Spotted

\* Dead or alive, nothing that was laid out ever shares a byte with anything
\* else, every nested structure is where its type byte announces it, and a node
\* is laid out only where it belongs, until a structure replaces a null.
THEOREM FitAlways == HSpec => []Fit
<1>1. HSound /\ Fit /\ [HNext]_hvars => Fit'
  BY HNextFit
<1> QED
  BY <1>1, HInitFit, HSoundAlways, PTL DEF HSpec

-----------------------------------------------------------------------------
(***************************************************************************)
(* What can be reached                                                     *)
(***************************************************************************)

\* InUse is a recursive function; that it has values at all is FixedPoint.
LEMMA InUseNodes ==
  ASSUME Loose
  PROVE  InUse \subseteq Nodes
<1> DEFINE S == 0 .. used
           V == SUBSET Nodes
           Turns(f, i) == IF i = 0 THEN roots
                         ELSE f[i - 1] \cup (Children(f[i - 1]) \cap (Nodes \ {0}))
           Eq(f) == f = [i \in S |-> Turns(f, i)]
           W == CHOOSE f : Eq(f)
           G == [f \in [S -> V] |-> [i \in S |-> Turns(f, i)]]
           rank == [i \in S |-> i]
<1>1. used \in Nat /\ roots \subseteq Nodes
  BY DEF Loose
<1>2. InUse = W[used]
  BY DEF InUse
<1>3. \A f \in [S -> V] : \A i \in S : Turns(f, i) \in V
  <2> TAKE f \in [S -> V]
  <2> TAKE i \in S
  <2>1. CASE i = 0
    BY <2>1, <1>1
  <2>2. CASE i # 0
    <3>1. i - 1 \in S
      BY <2>2, <1>1
    <3>2. f[i - 1] \subseteq Nodes
      BY <3>1
    <3> QED
      BY <2>2, <3>2
  <2> QED
    BY <2>1, <2>2
<1>4. ByRank(S, V, rank, used, G)
  <2>1. G \in [[S -> V] -> [S -> V]]
    <3> HIDE DEF S, V, Turns
    <3> QED
      BY <1>3
  <2>2. rank \in [S -> Nat] /\ \A i \in S : rank[i] <= used /\ rank[i] = i
    BY <1>1
  <2>3. ASSUME NEW f \in [S -> V], NEW g \in [S -> V], NEW i \in S,
               \A t \in S : rank[t] < rank[i] => f[t] = g[t]
        PROVE  G[f][i] = G[g][i]
    <3>1. Turns(f, i) = Turns(g, i)
      <4>1. CASE i = 0
        BY <4>1
      <4>2. CASE i # 0
        <5>1. i - 1 \in S /\ rank[i - 1] < rank[i]
          BY <4>2, <1>1
        <5>2. f[i - 1] = g[i - 1]
          BY <5>1, <2>3
        <5> QED
          BY <5>2
      <4> QED
        BY <4>1, <4>2
    <3>2. G[f][i] = Turns(f, i) /\ G[g][i] = Turns(g, i)
      <4> HIDE DEF S, V, Turns
      <4> QED
        OBVIOUS
    <3> QED
      BY <3>1, <3>2
  <2> HIDE DEF S, V, G, rank
  <2> QED
    BY <1>1, <2>1, <2>2, <2>3 DEF ByRank
<1>5. \E f \in [S -> V] : G[f] = f
  <2>1. {} \in V
    OBVIOUS
  <2> HIDE DEF S, V, G, rank
  <2> QED
    BY <1>4, <2>1, FixedPoint
<1>6. \E f : Eq(f)
  <2>1. PICK f \in [S -> V] : G[f] = f
    BY <1>5
  <2> HIDE DEF S, V, Turns
  <2> QED
    BY <2>1
<1>7. Eq(W)
  <2> HIDE DEF Eq
  <2> QED
    BY <1>6
<1> DEFINE Wrong == {i \in S : ~(W[i] \subseteq Nodes)}
<1>8. \A i \in S : W[i] = Turns(W, i)
  <2> HIDE DEF W, Turns, S
  <2> QED
    BY <1>7
<1>9. Wrong = {}
  <2> SUFFICES ASSUME Wrong # {} PROVE FALSE
    OBVIOUS
  <2>1. Wrong \subseteq Nat
    BY <1>1
  <2> HIDE DEF W
  <2>2. PICK i \in Wrong : \A j \in Wrong : i <= j
    <3> HIDE DEF Wrong
    <3> QED
      BY <2>1, LeastNatural
  <2>3. i \in S /\ ~(W[i] \subseteq Nodes)
    BY <2>2
  <2>4. i # 0
    BY <2>3, <1>1, <1>8
  <2>5. i - 1 \in S /\ ~(i <= i - 1)
    BY <2>3, <2>4, <1>1
  <2>6. W[i - 1] \subseteq Nodes
    BY <2>2, <2>5
  <2> QED
    BY <2>3, <2>4, <2>6, <1>8
<1>10. used \in S
  BY <1>1
<1> HIDE DEF W, S
<1> QED
  BY <1>2, <1>9, <1>10

LEMMA HeldEntries ==
  ASSUME HSound
  PROVE  Held \subseteq DOMAIN entry
<1>1. Loose /\ Known /\ entry \in Seq(Placed)
  BY DEF HSound, HTrees, HPlaces, HTypeOK
<1> SUFFICES ASSUME NEW n \in InUse, NEW i \in 1 .. Len(node[n].keys)
             PROVE  node[n].keys[i].val \in DOMAIN entry
  BY DEF Held
<1>2. node[n].keys \in Seq(Written(Len(entry)))
  BY <1>1, InUseNodes DEF Known, KeysIn
<1>3. node[n].keys[i] \in Written(Len(entry))
  BY <1>2, ElementOfSeq
<1> QED
  BY <1>1, <1>3, LenProperties DEF Written

\* Whatever is stored, overwritten, split and nested, no two nodes or entries
\* that can be reached share a byte, unless a structure was put over a null.
THEOREM SparesNeighboursAlways == HSpec => []SparesNeighbours
<1>1. HSound /\ Fit => SparesNeighbours
  <2> SUFFICES ASSUME HSound, Spread PROVE Apart
    BY DEF SparesNeighbours, Fit
  <2>1. InUse \subseteq Nodes /\ Held \subseteq DOMAIN entry
    BY InUseNodes, HeldEntries DEF HSound, HTrees
  <2>2. SpreadOut(Nodes, addr, entry)
    BY DEF Spread
  <2> SUFFICES ASSUME NEW x \in Extents, NEW y \in Extents, x # y
               PROVE  Disjoint(x, y)
    BY DEF Apart
  <2>3. (\E m \in Nodes : x = NodeExtent(m)) \/ (\E i \in DOMAIN entry : x = EntryExtent(i))
    BY <2>1 DEF Extents
  <2>4. (\E m \in Nodes : y = NodeExtent(m)) \/ (\E i \in DOMAIN entry : y = EntryExtent(i))
    BY <2>1 DEF Extents
  <2>5. ASSUME NEW m \in Nodes, NEW n \in Nodes, x = NodeExtent(m), y = NodeExtent(n)
        PROVE  Disjoint(x, y)
    <3>1. m # n
      BY <2>5
    <3> QED
      BY <3>1, <2>2, <2>5 DEF SpreadOut, Disjoint, NodeExtent
  <2>6. ASSUME NEW i \in DOMAIN entry, NEW j \in DOMAIN entry,
               x = EntryExtent(i), y = EntryExtent(j)
        PROVE  Disjoint(x, y)
    <3>1. i # j
      BY <2>6
    <3> QED
      BY <3>1, <2>2, <2>6 DEF SpreadOut, Disjoint, EntryExtent
  <2>7. ASSUME NEW n \in Nodes, NEW i \in DOMAIN entry,
               \/ x = NodeExtent(n) /\ y = EntryExtent(i)
               \/ y = NodeExtent(n) /\ x = EntryExtent(i)
        PROVE  Disjoint(x, y)
    BY <2>2, <2>7 DEF SpreadOut, Disjoint, NodeExtent, EntryExtent
  <2> QED
    BY <2>3, <2>4, <2>5, <2>6, <2>7
<1> QED
  BY <1>1, HSoundAlways, FitAlways, PTL

\* A reader that passes over a key comes to its value, and behind the type byte
\* of a nested structure to its root, until a node was laid out where it does
\* not fit.
THEOREM ValuesFoundAlways == HSpec => []ValuesFound
<1>1. HSound /\ Fit => ValuesFound
  <2> SUFFICES ASSUME HSound, Fit, risk = "none", NEW i \in Held
               PROVE  LET e == entry[i]
                          v == e.at + e.klen
                      IN  /\ e.skip = e.klen
                          /\ e.val.type \in Types /\ spot.ofs # v =>
                               \E r \in roots : addr[r] = v + 1 /\ node[r].type = e.val.type
    BY DEF ValuesFound
  <2>1. i \in DOMAIN entry
    BY HeldEntries
  <2> QED
    BY <2>1 DEF Fit, Backed, HSound, HPlaces, Agreed
<1> QED
  BY <1>1, HSoundAlways, FitAlways, PTL

-----------------------------------------------------------------------------
(***************************************************************************)
(* What a structure laid out again starts with                             *)
(***************************************************************************)

\* No root holds a link behind its live ones: splits hand a root's links to a
\* new node, and only clear it.
Clear == \A r \in roots : \A s \in Slots :
           s > Len(node[r].keys) => node[r].child[s] = 0

\* As long as no node was laid out where it does not fit.
Clean == risk = "none" => NodeShape /\ HalfFull /\ OneParent /\ Clear

LEMMA CleanTrees ==
  ASSUME HSound, Clean, risk = "none"
  PROVE  Shapely /\ Clear
<1>1. Loose /\ Called /\ NodeShape /\ HalfFull /\ OneParent /\ Clear
  BY DEF HSound, HTrees, Clean
<1>2. Sound
  <2>1. pc \in {"idle", "loop"}
    BY <1>1 DEF Loose
  <2> QED
    BY <1>1, <2>1, IntactIsSound DEF Called
<1> QED
  BY <1>1, <1>2 DEF Shapely

LEMMA CalmClean ==
  ASSUME Shapely, Clear, Calm, Sound'
  PROVE  Clean'
<1>1. Shapely'
  BY CalmShapely
<1>2. Clear'
  <2> SUFFICES ASSUME NEW r \in roots, NEW s \in Slots, s > Len(node'[r].keys)
               PROVE  node'[r].child[s] = 0
    BY DEF Clear, Calm
  <2>1. r \in Nodes /\ Nodes' = Nodes
    BY DEF Calm, Nodes, Shapely, Sound, TypeOK
  <2>2. Len(node[r].keys) \in Nat /\ s \in Nat
    BY <2>1, SoundNodes DEF Shapely, Slots
  <2>3. Len(node'[r].keys) \in Nat
    <3>1. node'[r] \in Node
      BY <2>1 DEF Sound, TypeOK
    <3> QED
      BY <3>1, LenProperties DEF Node
  <2>4. s > Len(node[r].keys)
    BY <2>1, <2>2, <2>3 DEF Calm
  <2> QED
    BY <2>1, <2>4 DEF Clear, Calm
<1> QED
  BY <1>1, <1>2 DEF Clean, Shapely, Sound

LEMMA CreateClean ==
  ASSUME HSound, Clean, NEW t \in Types, Create(t)
  PROVE  Clean'
<1> SUFFICES ASSUME risk = "none" PROVE Clean'
  BY DEF Clean, Create
<1>1. Shapely /\ Clear /\ InitStructure(t)
  BY CleanTrees DEF Create
<1>2. Shapely'
  BY <1>1, CreateShapely
<1>3. /\ roots' = roots \cup {used} /\ used \notin roots /\ roots \subseteq Nodes
      /\ node' = [n \in 0 .. used |->
                    IF n = used THEN EmptyNode(1, t) ELSE node[n]]
  BY <1>1 DEF InitStructure, Shapely, Sound, TypeOK, Nodes
<1>4. Clear'
  <2> SUFFICES ASSUME NEW r \in roots', NEW s \in Slots, s > Len(node'[r].keys)
               PROVE  node'[r].child[s] = 0
    BY DEF Clear
  <2>1. r \in 0 .. used
    BY <1>1, <1>3 DEF Nodes, Shapely, Sound, TypeOK
  <2>2. CASE r = used
    BY <2>1, <2>2, <1>3 DEF EmptyNode, NoChildren
  <2>3. CASE r # used
    <3>1. r \in roots /\ node'[r] = node[r]
      BY <2>1, <2>3, <1>3
    <3> QED
      BY <3>1, <1>1 DEF Clear
  <2> QED
    BY <2>2, <2>3
<1> QED
  BY <1>2, <1>4 DEF Clean, Shapely, Sound

LEMMA SplitRootClean ==
  ASSUME HSound, Clean, SplitRoot, SplitAndPlace(2 * NodeSize)
  PROVE  Clean'
<1> SUFFICES ASSUME risk = "none" PROVE Clean'
  BY DEF Clean, SplitAndPlace
<1>1. Shapely /\ Clear
  BY CleanTrees
<1>2. Shapely'
  BY <1>1, SplitRootShapely
<1>3. /\ roots' = roots /\ roots \subseteq Nodes
      /\ Len(node'[node_ofs].keys) = 0
      /\ node'[node_ofs].child = [s \in Slots |-> IF s = 0 THEN used ELSE 0]
      /\ \A n \in Nodes \ {node_ofs} : node'[n] = node[n]
  BY <1>1, SplitRootNodes DEF Shapely, Sound, TypeOK
<1>4. Clear'
  <2> SUFFICES ASSUME NEW r \in roots, NEW s \in Slots, s > Len(node'[r].keys)
               PROVE  node'[r].child[s] = 0
    BY <1>3 DEF Clear
  <2>1. CASE r = node_ofs
    BY <2>1, <1>3
  <2>2. CASE r # node_ofs
    BY <2>2, <1>1, <1>3 DEF Clear
  <2> QED
    BY <2>1, <2>2
<1> QED
  BY <1>2, <1>4 DEF Clean, Shapely, Sound

LEMMA SplitChildClean ==
  ASSUME HSound, Clean, SplitChild, SplitAndPlace(NodeSize)
  PROVE  Clean'
<1> SUFFICES ASSUME risk = "none" PROVE Clean'
  BY DEF Clean, SplitAndPlace
<1>1. Shapely /\ Clear
  BY CleanTrees
<1>2. Shapely' /\ Sound
  BY <1>1, SplitChildShapely DEF Shapely
<1>p. PICK p : p = parent_ofs
  OBVIOUS
<1>r. roots \subseteq Nodes
  BY <1>2 DEF Sound, TypeOK
<1>s. /\ p \in Nodes /\ node_ofs # 0 /\ Len(node[p].keys) \in Nat
      /\ Len(node'[p].keys) = Len(node[p].keys) + 1
      /\ \A n \in Nodes \ {node_ofs, p} : node'[n] = node[n]
      /\ roots' = roots
  BY <1>2, <1>p, SplitChildNodes
<1>3. PICK i \in 0 .. Len(node[p].keys) :
        /\ node[p].child[i] = node_ofs
        /\ node'[p].child = [s \in Slots |->
             CASE s = i + 1 -> used
               [] s > i + 1 /\ s <= Len(node[p].keys) + 1 -> node[p].child[s - 1]
               [] OTHER -> node[p].child[s]]
  BY <1>2, <1>p, SplitChildNodes
<1>4. node_ofs \notin roots
  <2>1. i \in Live(p)
    BY <1>3, <1>r, <1>s DEF Live
  <2> QED
    BY <2>1, <1>1, <1>3, <1>r, <1>s DEF OneParent, Shapely
<1>5. Clear'
  <2> SUFFICES ASSUME NEW r \in roots, NEW s \in Slots, s > Len(node'[r].keys)
               PROVE  node'[r].child[s] = 0
    BY <1>3, <1>r, <1>s DEF Clear
  <2>1. CASE r = p
    <3>1. s \in Nat /\ s > Len(node[p].keys) + 1
      BY <2>1, <1>3, <1>r, <1>s DEF Slots
    <3>2. node'[p].child[s] = node[p].child[s]
      BY <3>1, <1>3, <1>r, <1>s
    <3>3. s > Len(node[r].keys)
      BY <3>1, <2>1, <1>3, <1>r, <1>s
    <3> QED
      BY <3>2, <3>3, <2>1, <1>1 DEF Clear
  <2>2. CASE r # p
    <3>1. node'[r] = node[r]
      BY <2>2, <1>3, <1>r, <1>s, <1>4
    <3> QED
      BY <3>1, <1>1 DEF Clear
  <2> QED
    BY <2>1, <2>2
<1> QED
  BY <1>2, <1>5 DEF Clean, Shapely, Sound

\* Turns that move no link.
LEMMA CalmTurnClean ==
  ASSUME HSound, Clean, risk' = risk, Descend \/ Overwrite \/ InsertLeaf
  PROVE  Clean'
<1> SUFFICES ASSUME risk = "none" PROVE Clean'
  BY DEF Clean
<1>1. Shapely /\ Clear /\ Sound
  BY CleanTrees DEF Shapely
<1>2. Calm /\ Sound'
  BY <1>1, DescendCalm, OverwriteCalm, InsertLeafCalm,
     DescendSound, OverwriteSound, InsertLeafSound
<1> QED
  BY <1>1, <1>2, CalmClean

LEMMA InPlaceClean ==
  ASSUME HSound, Clean, OverwriteInPlace
  PROVE  Clean'
<1> SUFFICES ASSUME risk = "none" PROVE Clean'
  BY DEF Clean, OverwriteInPlace
<1> DEFINE nd == Bumped(node_ofs)
<1>1. Shapely /\ Clear /\ Sound /\ pc = "loop" /\ Return(nd)
  BY CleanTrees DEF Shapely, OverwriteInPlace
<1>2. /\ WellFormed(nd, used) /\ node_ofs \in Nodes /\ nd \in Node
      /\ nd.keys = node[node_ofs].keys /\ nd.child = node[node_ofs].child
      /\ Len(node[node_ofs].keys) \in Nat
  BY <1>1, TurnFacts, SoundNodes DEF WellFormed
<1> HIDE DEF nd
<1>3. Sound'
  BY <1>1, <1>2, ReturnSound
<1>4. Calm
  BY <1>1, <1>2, ReturnCalm
<1> QED
  BY <1>1, <1>3, <1>4, CalmClean

\* A call begins, or nothing happens.
LEMMA IdleClean ==
  ASSUME HSound, Clean, Call \/ UNCHANGED hvars
  PROVE  Clean'
<1>1. node' = node /\ used' = used /\ roots' = roots /\ risk' = risk
  BY DEF Call, Set, Push, Begin, SetBegin, AppendBegin, Start, hvars, vars, layout
<1> QED
  BY <1>1 DEF Clean, NodeShape, HalfFull, OneParent, Clear, Nodes, Live, IsLeaf

\* The two slots that laying out a node leaves alone are clear already.
LEMMA StartsEmpty ==
  ASSUME HSound, Fit, Clean, LayOut, risk' = "none", NEW a, a = spot.ofs + 1,
         NEW n,
         \/ /\ a = top /\ n = used
            /\ \A m \in Nodes : addr[m] # a
         \/ /\ n \in roots /\ addr[n] = a
            /\ \A m \in Nodes : addr[m] = a => m = n
  PROVE  \A s \in Slots : ChildrenAt(a)[s] = 0
<1>1. risk = "none" /\ ~\E r \in roots : addr[r] = a /\ Tall(r)
  BY DEF LayOut
<1>2. Shapely /\ Clear
  BY <1>1, CleanTrees
<1> TAKE s \in Slots
<1>3. CASE a = top /\ \A m \in Nodes : addr[m] # a
  <2>1. top \in Nat /\ NodeSize - 8 \in Nat
    BY MaxKeysAssumption DEF HSound, HPlaces, HTypeOK, NodeSize
  <2>2. ~Dirty(a + NodeSize - 8, a + NodeSize)
    <3>1. \A m \in Nodes : addr[m] + NodeSize <= top /\ addr[m] \in Nat
      BY DEF HSound, HPlaces, InBuffer, HTypeOK
    <3>2. \A i \in DOMAIN entry :
            /\ entry[i].at + EntrySize(entry[i]) <= top
            /\ entry[i].at + EntrySize(entry[i]) \in Nat
      <4> TAKE i \in DOMAIN entry
      <4>1. entry[i].at \in Nat /\ EntrySize(entry[i]) \in Nat
        <5>1. entry[i] \in Placed
          BY ElementOfSeq DEF HSound, HPlaces, HTypeOK
        <5> QED
          BY <5>1, EntrySizeNat
      <4> QED
        BY <4>1 DEF HSound, HPlaces, InBuffer
    <3>3. \A m \in Nodes : addr[m] + NodeSize <= a + NodeSize - 8
      BY <3>1, <2>1, <1>3, NodeSizeNat
    <3>4. \A i \in DOMAIN entry :
            entry[i].at + EntrySize(entry[i]) <= a + NodeSize - 8
      BY <3>2, <2>1, <1>3, NodeSizeNat
    <3> QED
      BY <3>3, <3>4 DEF Dirty, Disjoint, NodeExtent, EntryExtent
  <2> QED
    BY <2>2, <1>3 DEF ChildrenAt
<1>4. CASE n \in roots /\ addr[n] = a /\ \A m \in Nodes : addr[m] = a => m = n
  <2>1. n \in Nodes /\ Len(node[n].keys) \in Nat
    BY <1>2, <1>4, SoundNodes DEF Shapely, Sound, TypeOK
  <2>2. (CHOOSE m \in Nodes : addr[m] = a) = n
    BY <2>1, <1>4
  <2>3. ChildrenAt(a)[s] = IF s \in Kept THEN node[n].child[s] ELSE 0
    BY <2>1, <2>2, <1>4, Zenon DEF ChildrenAt
  <2>4. s \in Kept => node[n].child[s] = 0
    <3>1. CASE IsLeaf(n)
      BY <3>1 DEF IsLeaf
    <3>2. CASE Len(node[n].keys) < MaxKeys - 1
      BY <3>2, <2>1, <1>2, <1>4, MaxKeysAssumption DEF Kept, Clear
    <3> QED
      BY <3>1, <3>2, <2>1, <1>1, <1>4, MaxKeysAssumption DEF Tall
  <2> QED
    BY <2>3, <2>4
<1> QED
  BY <1>3, <1>4

LEMMA LayOutClean ==
  ASSUME HSound, Fit, Clean, LayOut
  PROVE  Clean'
<1> SUFFICES ASSUME risk' = "none" PROVE Clean'
  BY DEF Clean
<1>1. PICK a, n :
        /\ a = spot.ofs + 1
        /\ Nodes' = Nodes \cup {n} /\ roots' = roots \cup {n}
        /\ node'[n] = [EmptyNode(1, spot.type) EXCEPT !.child = ChildrenAt(a)]
        /\ \A m \in Nodes : m # n => node'[m] = node[m]
        /\ \/ /\ a = top /\ n = used
              /\ \A m \in Nodes : addr[m] # a
           \/ /\ n \in roots /\ addr[n] = a
              /\ \A m \in Nodes : addr[m] = a => m = n
  BY LayOutPlace
<1>2. risk = "none"
  BY DEF LayOut
<1>3. Shapely /\ Clear
  BY <1>2, CleanTrees
<1>4. roots \subseteq Nodes /\ used \notin Nodes /\ (n \in roots \/ n \notin Nodes)
  BY <1>1, <1>3 DEF Shapely, Sound, TypeOK, Nodes
<1>5. node'[n].keys = <<>> /\ \A s \in Slots : node'[n].child[s] = 0
  <2>1. node'[n].child = ChildrenAt(a)
    BY <1>1 DEF EmptyNode
  <2>2. node'[n].keys = <<>>
    BY <1>1 DEF EmptyNode
  <2>3. \A s \in Slots : ChildrenAt(a)[s] = 0
    BY <1>1, StartsEmpty
  <2> QED
    BY <2>1, <2>2, <2>3
<1>6. Len(node'[n].keys) = 0 /\ 0 \in Slots /\ Live(n)' = {0}
  BY <1>5, MaxKeysAssumption DEF Slots, Live
<1>7. NodeShape'
  <2> SUFFICES ASSUME NEW m \in Nodes \cup {n}
               PROVE  /\ Len(node'[m].keys) <= MaxKeys
                      /\ \A s \in Slots : node'[m].child[s] \in Nodes \cup {n} \cup {0}
                      /\ \/ \A s \in Slots : node'[m].child[s] = 0
                         \/ \A s \in Live(m)' : node'[m].child[s] # 0
    BY <1>1 DEF NodeShape, IsLeaf
  <2>1. CASE m = n
    BY <2>1, <1>5, <1>6, MaxKeysAssumption
  <2>2. CASE m # n
    BY <2>2, <1>1, <1>3 DEF Shapely, Sound, NodeShape, IsLeaf, Live
  <2> QED
    BY <2>1, <2>2
<1>8. HalfFull'
  BY <1>1, <1>3, <1>4 DEF HalfFull, Shapely
\* Every live link was one before, and leads to a node that was there before.
<1>9. ASSUME NEW m \in Nodes', NEW s \in Live(m)', node'[m].child[s] # 0
      PROVE  /\ m \in Nodes /\ s \in Live(m) /\ node[m].child[s] = node'[m].child[s]
             /\ node[m].child[s] \in Nodes
  <2>1. m # n
    BY <1>5, <1>6, <1>9
  <2>2. m \in Nodes /\ s \in Live(m) /\ node[m].child[s] = node'[m].child[s]
    BY <2>1, <1>1, <1>9 DEF Live
  <2>3. s \in Slots /\ WellFormed(node[m], used)
    BY <2>2, <1>3, SoundNodes, MaxKeysAssumption, SMTT(30) DEF Live, Slots, WellFormed, Shapely
  <2> QED
    BY <2>2, <2>3, <1>9 DEF WellFormed, Nodes
<1>10. OneParent'
  <2> SUFFICES ASSUME NEW m \in Nodes', NEW s \in Live(m)', node'[m].child[s] # 0
               PROVE  /\ node'[m].child[s] \notin roots'
                      /\ \A k \in Nodes' : \A t \in Live(k)' :
                           node'[k].child[t] = node'[m].child[s]
                             => k = m /\ t = s
    BY DEF OneParent
  <2>1. \A k \in Nodes' : \A t \in Live(k)' :
          node'[k].child[t] = node'[m].child[s]
            => k \in Nodes /\ t \in Live(k) /\ node[k].child[t] = node'[k].child[t]
    BY <1>9
  <2>2. /\ m \in Nodes /\ s \in Live(m) /\ node[m].child[s] = node'[m].child[s]
        /\ node[m].child[s] \in Nodes
    BY <1>9
  <2> QED
    BY <2>1, <2>2, <1>1, <1>3, <1>4 DEF OneParent, Shapely
<1>11. Clear'
  <2> SUFFICES ASSUME NEW r \in roots', NEW s \in Slots, s > Len(node'[r].keys)
               PROVE  node'[r].child[s] = 0
    BY DEF Clear
  <2>1. CASE r = n
    BY <2>1, <1>5
  <2>2. CASE r # n
    <3>1. r \in roots /\ node'[r] = node[r]
      BY <2>2, <1>1, <1>4
    <3> QED
      BY <3>1, <1>3 DEF Clear
  <2> QED
    BY <2>1, <2>2
<1> QED
  BY <1>7, <1>8, <1>10, <1>11 DEF Clean

LEMMA HNextClean ==
  ASSUME HSound, Fit, Clean, [HNext]_hvars
  PROVE  Clean'
<1>1. ASSUME NEW t \in Types, Create(t)
      PROVE  Clean'
  BY <1>1, CreateClean
<1>2. CASE Call \/ UNCHANGED hvars
  BY <1>2, IdleClean
<1>3. CASE SplitRoot /\ SplitAndPlace(2 * NodeSize)
  BY <1>3, SplitRootClean
<1>4. CASE SplitChild /\ SplitAndPlace(NodeSize)
  BY <1>4, SplitChildClean
<1>5. CASE Descend /\ UNCHANGED layout
  BY <1>5, CalmTurnClean DEF layout
<1>6. CASE OverwriteInPlace
  BY <1>6, InPlaceClean
<1>7. CASE Overwrite /\ ~SameSize /\ Write("moved")
  BY <1>7, CalmTurnClean DEF Write
<1>8. CASE InsertLeaf /\ Write("none")
  BY <1>8, CalmTurnClean DEF Write
<1>9. CASE LayOut
  BY <1>9, LayOutClean
<1> QED
  BY <1>1, <1>2, <1>3, <1>4, <1>5, <1>6, <1>7, <1>8, <1>9, Zenon
     DEF HNext, Step

\* The invariant behind the theorems on what is laid out again.
THEOREM CleanAlways == HSpec => []Clean
<1>1. HInit => Clean
  BY DEF HInit, Init, Clean, NodeShape, HalfFull, OneParent, Clear, Nodes
<1>2. HSound /\ Fit /\ Clean /\ [HNext]_hvars => Clean'
  BY HNextClean
<1> QED
  BY <1>1, <1>2, HSoundAlways, FitAlways, PTL DEF HSpec

\* A structure laid out where one was starts without children, and no walk ever
\* meets a node with too many keys or a missing link, until a structure is laid
\* out over a root that is too full.
THEOREM StartsCleanAlways == HSpec => []StartsClean
<1>1. Clean => StartsClean
  BY DEF Clean, StartsClean
<1> QED
  BY <1>1, CleanAlways, PTL

-----------------------------------------------------------------------------
(***************************************************************************)
(* What one structure does to another: the inductive invariant             *)
(***************************************************************************)

\* The entries that node n names.
Names(n) == {node[n].keys[i].val : i \in 1 .. Len(node[n].keys)}

\* No two structures name one entry.
Owned(home) ==
  \A m, n \in Nodes : home[m] # home[n] => Names(m) \cap Names(n) = {}

\* As long as no node was laid out where it does not fit.
Homed == risk = "none" => \E lev, home, H : Ranking(lev, home, H) /\ Owned(home)

\* What the nodes of a structure name after a step: what some of its nodes
\* named before, and the entry of the call on it.
Handed(home, hm) ==
  \A n \in Nodes' : \A v \in Names(n)' :
    \/ \E m \in Nodes : home[m] = hm[n] /\ v \in Names(m)
    \/ v = Len(entry) + 1 /\ hm[n] = req.ofs

LEMMA NamesWritten ==
  ASSUME HSound, NEW n \in Nodes
  PROVE  Names(n) \subseteq 1 .. Len(entry)
<1> SUFFICES ASSUME NEW i \in 1 .. Len(node[n].keys)
             PROVE  node[n].keys[i].val \in 1 .. Len(entry)
  BY DEF Names
<1>1. node[n].keys \in Seq(Written(Len(entry)))
  BY DEF HSound, HTrees, Known, KeysIn
<1>2. node[n].keys[i] \in Written(Len(entry))
  BY <1>1, ElementOfSeq
<1> QED
  BY <1>2 DEF Written

LEMMA HandedOwned ==
  ASSUME HSound, NEW home, NEW hm, Owned(home), Handed(home, hm)
  PROVE  Owned(hm)'
<1> SUFFICES ASSUME NEW m \in Nodes', NEW n \in Nodes', hm[m] # hm[n],
                    NEW v, v \in Names(m)', v \in Names(n)'
             PROVE  FALSE
  BY DEF Owned
<1>1. \/ \E k \in Nodes : home[k] = hm[m] /\ v \in Names(k)
      \/ v = Len(entry) + 1 /\ hm[m] = req.ofs
  BY DEF Handed
<1>2. \/ \E k \in Nodes : home[k] = hm[n] /\ v \in Names(k)
      \/ v = Len(entry) + 1 /\ hm[n] = req.ofs
  BY DEF Handed
<1>3. \A k \in Nodes : v \in Names(k) => v # Len(entry) + 1
  <2>1. Len(entry) \in Nat
    BY LenProperties DEF HSound, HPlaces, HTypeOK
  <2> QED
    BY <2>1, NamesWritten
<1> QED
  BY <1>1, <1>2, <1>3 DEF Owned

\* Steps that leave the keys of all nodes alone, or lay out a node without any.
LEMMA SameHanded ==
  ASSUME NEW home, NEW hm, \A n \in Nodes : hm[n] = home[n],
         \A n \in Nodes' : \/ node'[n].keys = <<>>
                           \/ n \in Nodes /\ node'[n].keys = node[n].keys
  PROVE  Handed(home, hm)
<1> SUFFICES ASSUME NEW n \in Nodes', NEW v \in Names(n)'
             PROVE  \E m \in Nodes : home[m] = hm[n] /\ v \in Names(m)
  BY DEF Handed
<1>1. node'[n].keys # <<>>
  BY DEF Names
<1>2. n \in Nodes /\ node'[n].keys = node[n].keys
  BY <1>1
<1>3. v \in Names(n)
  BY <1>2 DEF Names
<1> QED
  BY <1>2, <1>3

LEMMA SplitRootHanded ==
  ASSUME Sound, SplitRoot, NEW home, NEW hm, Trees(hm)',
         \A n \in Nodes : hm[n] = home[n]
  PROVE  Handed(home, hm)
<1>1. PICK u, r : u = used /\ r = node_ofs
  OBVIOUS
<1>2. pc = "loop" /\ roots \subseteq Nodes /\ u \in Nat
  BY <1>1 DEF SplitRoot, Sound, TypeOK
<1>3. /\ used' = u + 1 /\ r \in roots
      /\ node'[u] = Bumped(r)
      /\ Len(node'[r].keys) = 0
      /\ node'[r].child = [s \in Slots |-> IF s = 0 THEN u ELSE 0]
      /\ \A n \in Nodes \ {r} : node'[n] = node[n]
  BY <1>1, SplitRootNodes
<1>4. Nodes' = Nodes \cup {u} /\ r \in Nodes /\ u \notin Nodes
  BY <1>1, <1>2, <1>3 DEF Nodes
<1>5. node'[u].keys = node[r].keys
  <2>1. node[r] \in Node
    BY <1>4, SoundNodes DEF WellFormed
  <2> QED
    BY <2>1, <1>3 DEF Bumped, Node
<1>6. u # 0
  BY <1>1, <1>4 DEF Nodes
<1>7. hm[u] = home[r]
  <2>1. 0 \in Slots /\ 0 \in Live(r)'
    BY <1>3, MaxKeysAssumption DEF Slots, Live
  <2>2. node'[r].child[0] = u
    BY <2>1, <1>3
  <2> QED
    BY <2>1, <2>2, <1>4, <1>6 DEF Trees
<1> SUFFICES ASSUME NEW n \in Nodes', NEW v \in Names(n)'
             PROVE  \E m \in Nodes : home[m] = hm[n] /\ v \in Names(m)
  BY DEF Handed
<1>8. CASE n = u
  BY <1>4, <1>5, <1>7, <1>8 DEF Names
<1>9. CASE n = r
  BY <1>3, <1>9 DEF Names
<1>10. CASE n # u /\ n # r
  BY <1>3, <1>4, <1>10 DEF Names
<1> QED
  BY <1>8, <1>9, <1>10

LEMMA SplitChildHanded ==
  ASSUME Sound, SplitChild, NEW home, NEW hm, Trees(home), Trees(hm)',
         \A n \in Nodes : hm[n] = home[n]
  PROVE  Handed(home, hm)
<1>1. PICK u, w, p : u = used /\ w = node_ofs /\ p = parent_ofs
  OBVIOUS
<1>2. pc = "loop" /\ u \in Nat /\ Mid \in Nat /\ MaxKeys = 2 * Mid + 1
  BY <1>1, MidInside, MaxKeysAssumption DEF SplitChild, Sound, TypeOK
<1>3. /\ used' = u + 1 /\ p \in Nodes /\ w \in Nodes /\ w # 0
      /\ Len(node[w].keys) = MaxKeys
      /\ Len(node[p].keys) \in Nat /\ Len(node[p].keys) < MaxKeys
      /\ Len(node'[u].keys) = Mid /\ Len(node'[w].keys) = Mid
      /\ Len(node'[p].keys) = Len(node[p].keys) + 1
      /\ \A n \in Nodes \ {w, p} : node'[n] = node[n]
  BY <1>1, <1>2, SplitChildNodes, TurnFacts
<1>4. PICK i : SplitAt(p, w, u, i)
  BY <1>1, SplitChildKeys
<1>5. PICK L : L = Len(node[p].keys)
  OBVIOUS
<1>6. /\ i \in 0 .. L /\ node[p].child[i] = w
      /\ node'[p].child = [s \in Slots |->
           CASE s = i + 1 -> u
             [] s > i + 1 /\ s <= L + 1 -> node[p].child[s - 1]
             [] OTHER -> node[p].child[s]]
      /\ \A j \in 1 .. i : node'[p].keys[j] = node[p].keys[j]
      /\ node'[p].keys[i + 1] = node[w].keys[Mid + 1]
      /\ \A j \in i + 1 .. L : node'[p].keys[j + 1] = node[p].keys[j]
      /\ \A j \in 1 .. Mid : /\ node'[w].keys[j] = node[w].keys[j]
                             /\ node'[u].keys[j] = node[w].keys[Mid + 1 + j]
  BY <1>4, <1>5 DEF SplitAt
<1>7. Nodes' = Nodes \cup {u} /\ u \notin Nodes /\ u # 0
  BY <1>1, <1>2, <1>3 DEF Nodes
<1>8. home[w] = home[p]
  BY <1>3, <1>5, <1>6 DEF Trees, Live
<1>9. hm[u] = home[p]
  <2>1. i + 1 \in Slots /\ i + 1 \in Live(p)'
    BY <1>3, <1>5, <1>6, MaxKeysAssumption DEF Slots, Live
  <2>2. node'[p].child[i + 1] = u
    BY <2>1, <1>6
  <2>3. p \in Nodes' /\ hm[p] = home[p]
    BY <1>3, <1>7
  <2>4. PICK s : s = i + 1
    OBVIOUS
  <2>5. s \in Live(p)' /\ node'[p].child[s] = u
    BY <2>1, <2>2, <2>4
  <2>6. hm[u] = hm[p]
    BY <2>3, <2>5, <1>7 DEF Trees
  <2> QED
    BY <2>3, <2>6
<1> SUFFICES ASSUME NEW n \in Nodes', NEW v \in Names(n)'
             PROVE  \E m \in Nodes : home[m] = hm[n] /\ v \in Names(m)
  BY DEF Handed
<1>10. PICK j \in 1 .. Len(node'[n].keys) : v = node'[n].keys[j].val
  BY DEF Names
<1>11. CASE n = u
  <2>1. j \in 1 .. Mid /\ v = node'[u].keys[j].val
    BY <1>3, <1>10, <1>11
  <2>2. v = node[w].keys[Mid + 1 + j].val /\ Mid + 1 + j \in 1 .. MaxKeys
    BY <2>1, <1>2, <1>6
  <2>3. v \in Names(w)
    BY <2>2, <1>3 DEF Names
  <2> QED
    BY <2>3, <1>3, <1>8, <1>9, <1>11
<1>12. CASE n = w
  <2>1. node'[n].keys[j] = node[w].keys[j] /\ j \in 1 .. MaxKeys
    BY <1>2, <1>3, <1>6, <1>10, <1>12
  <2>2. v \in Names(w)
    BY <2>1, <1>3, <1>10 DEF Names
  <2> QED
    BY <2>2, <1>3, <1>12
<1>13. CASE n = p
  <2>1. j \in 1 .. L + 1 /\ v = node'[p].keys[j].val /\ L \in Nat /\ i \in 0 .. L
    BY <1>3, <1>5, <1>6, <1>10, <1>13
  <2>2. CASE j <= i
    <3>1. j \in 1 .. L /\ j \in 1 .. i
      BY <2>1, <2>2
    <3>2. v = node[p].keys[j].val
      BY <2>1, <3>1, <1>6
    <3>3. v \in Names(p)
      BY <3>1, <3>2, <1>5 DEF Names
    <3> QED
      BY <3>3, <1>3, <1>13
  <2>3. CASE j = i + 1
    <3>1. v = node[w].keys[Mid + 1].val
      BY <2>1, <2>3, <1>6
    <3>2. Mid + 1 \in 1 .. MaxKeys
      BY <1>2
    <3>3. v \in Names(w)
      BY <3>1, <3>2, <1>3 DEF Names
    <3> QED
      BY <3>3, <1>3, <1>8, <1>13
  <2>4. CASE j > i + 1
    <3>1. PICK k : k = j - 1
      OBVIOUS
    <3>2. k \in i + 1 .. L /\ k + 1 = j /\ k \in 1 .. L
      BY <2>1, <2>4, <3>1
    <3>3. v = node[p].keys[k].val
      BY <2>1, <3>2, <1>6
    <3>4. v \in Names(p)
      BY <3>2, <3>3, <1>5 DEF Names
    <3> QED
      BY <3>4, <1>3, <1>13
  <2> QED
    BY <2>1, <2>2, <2>3, <2>4
<1>14. CASE n \in Nodes \ {w, p}
  BY <1>3, <1>14 DEF Names
<1> QED
  BY <1>7, <1>11, <1>12, <1>13, <1>14

LEMMA WroteHanded ==
  ASSUME Sound, Called, Overwrite \/ InsertLeaf, NEW home, NEW hm,
         home[node_ofs] = req.ofs, \A n \in Nodes : hm[n] = home[n]
  PROVE  Handed(home, hm)
<1>1. PICK w, i : w = node_ofs /\ i = Position(node[w].keys, req)
  OBVIOUS
<1>2. pc = "loop" /\ req.val = Len(entry) + 1
  BY DEF Overwrite, InsertLeaf, Called
<1>3. w \in Nodes /\ home[w] = req.ofs
  BY <1>1, <1>2, TurnFacts
<1>4. \E ks : /\ Wrote(ks)
              /\ \A j \in 1 .. Len(ks) :
                   \/ ks[j].val = req.val
                   \/ \E k \in 1 .. Len(node[w].keys) : ks[j].val = node[w].keys[k].val
  <2>1. node[w].keys \in Seq(Entry) /\ Len(node[w].keys) \in Nat
    BY <1>3, SoundNodes DEF WellFormed, Node
  <2>2. CASE Overwrite
    <3>1. PICK ks \in Seq(Entry) :
            /\ Wrote(ks) /\ Len(ks) = Len(node[w].keys)
            /\ ks[i + 1] = [node[w].keys[i + 1] EXCEPT !.val = req.val]
            /\ \A j \in 1 .. Len(ks) : j # i + 1 => ks[j] = node[w].keys[j]
      BY <2>2, <1>1, OverwriteKeys
    <3>2. i + 1 \in 1 .. Len(node[w].keys)
      BY <2>2, <1>1, OverwriteKeys
    <3>3. node[w].keys[i + 1] \in Entry
      BY <3>2, <2>1, ElementOfSeq
    <3>4. ks[i + 1].val = req.val
      BY <3>1, <3>3 DEF Entry
    <3>5. \A j \in 1 .. Len(ks) :
            \/ ks[j].val = req.val
            \/ \E k \in 1 .. Len(node[w].keys) : ks[j].val = node[w].keys[k].val
      BY <3>1, <3>4
    <3> QED
      BY <3>1, <3>5
  <2>3. CASE InsertLeaf
    <3>1. PICK ks \in Seq(Entry) :
            /\ Wrote(ks) /\ Len(ks) = Len(node[w].keys) + 1
            /\ \A j \in 1 .. i : ks[j] = node[w].keys[j]
            /\ ks[i + 1] = [hash |-> req.hash, key |-> req.key, val |-> req.val]
            /\ \A j \in i + 1 .. Len(node[w].keys) : ks[j + 1] = node[w].keys[j]
      BY <2>3, <1>1, InsertLeafKeys
    <3>2. i \in 0 .. Len(node[w].keys)
      BY <2>3, <1>1, InsertLeafKeys
    <3>3. ASSUME NEW j \in 1 .. Len(ks)
          PROVE  \/ ks[j].val = req.val
                 \/ \E k \in 1 .. Len(node[w].keys) : ks[j].val = node[w].keys[k].val
      <4>1. PICK L : L = Len(node[w].keys) /\ L \in Nat /\ i \in 0 .. L /\ j \in 1 .. L + 1
        BY <2>1, <3>1, <3>2
      <4>2. CASE j <= i
        <5>1. j \in 1 .. i /\ j \in 1 .. L
          BY <4>1, <4>2
        <5>2. ks[j] = node[w].keys[j]
          BY <5>1, <3>1
        <5> QED
          BY <5>1, <5>2, <4>1
      <4>3. CASE j = i + 1
        BY <4>3, <3>1
      <4>4. CASE j > i + 1
        <5>1. PICK k : k = j - 1
          OBVIOUS
        <5>2. k \in i + 1 .. L /\ k + 1 = j /\ k \in 1 .. L
          BY <4>1, <4>4, <5>1
        <5>3. ks[j] = node[w].keys[k]
          BY <5>2, <4>1, <3>1
        <5> QED
          BY <5>2, <5>3, <4>1
      <4> QED
        BY <4>1, <4>2, <4>3, <4>4
    <3> QED
      BY <3>1, <3>3
  <2> QED
    BY <2>2, <2>3
<1>5. PICK ks : /\ Wrote(ks)
                /\ \A j \in 1 .. Len(ks) :
                     \/ ks[j].val = req.val
                     \/ \E k \in 1 .. Len(node[w].keys) :
                          ks[j].val = node[w].keys[k].val
  BY <1>4
<1>6. /\ Nodes' = Nodes
      /\ \A n \in Nodes : node'[n].keys = IF n = w THEN ks ELSE node[n].keys
  BY <1>1, <1>5 DEF Wrote, Nodes
<1> SUFFICES ASSUME NEW n \in Nodes, NEW v \in Names(n)'
             PROVE  \/ \E m \in Nodes : home[m] = hm[n] /\ v \in Names(m)
                    \/ v = Len(entry) + 1 /\ hm[n] = req.ofs
  BY <1>6 DEF Handed
<1>7. CASE n = w
  <2>1. PICK j \in 1 .. Len(ks) : v = ks[j].val
    BY <1>6, <1>7 DEF Names
  <2>2. v = req.val \/ v \in Names(w)
    BY <2>1, <1>5 DEF Names
  <2> QED
    BY <2>2, <1>2, <1>3, <1>7
<1>8. CASE n # w
  BY <1>6, <1>8 DEF Names
<1> QED
  BY <1>7, <1>8

LEMMA HNextHanded ==
  ASSUME HSound, Fit, Sound, [HNext]_hvars, risk' = "none",
         NEW lev, NEW home, NEW H, Ranking(lev, home, H),
         NEW hm, Trees(hm)', \A n \in Nodes : hm[n] = home[n]
  PROVE  Handed(home, hm)
<1> DEFINE Same == \A n \in Nodes' : \/ node'[n].keys = <<>>
                                     \/ n \in Nodes /\ node'[n].keys = node[n].keys
<1>1. Same => Handed(home, hm)
  BY SameHanded
<1>2. ASSUME NEW t \in Types, Create(t)
      PROVE  Same
  BY <1>2 DEF Create, InitStructure, EmptyNode, Nodes, Sound, TypeOK
<1>3. CASE Call \/ UNCHANGED hvars
  <2>1. node' = node /\ Nodes' = Nodes
    BY <1>3 DEF Call, Set, Push, Begin, SetBegin, AppendBegin, Start, hvars, vars, Nodes
  <2> QED
    BY <2>1, <1>1
<1>4. CASE SplitRoot
  BY <1>4, SplitRootHanded
<1>5. CASE SplitChild
  BY <1>5, SplitChildHanded DEF Ranking
<1>6. CASE Descend
  BY <1>1, <1>6, DescendKeys DEF Nodes
<1>7. CASE OverwriteInPlace
  <2>1. Wrote(node[node_ofs].keys)
    BY <1>7, InPlaceWrote
  <2> QED
    BY <2>1, <1>1 DEF Wrote, Nodes
<1>8. CASE Overwrite \/ InsertLeaf
  <2>1. home[node_ofs] = req.ofs
    BY <1>8 DEF Ranking, WalkRank, Overwrite, InsertLeaf
  <2> QED
    BY <2>1, <1>8, WroteHanded DEF HSound, HTrees
<1>9. CASE LayOut
  <2>1. PICK a, n :
          /\ Nodes' = Nodes \cup {n}
          /\ node'[n] = [EmptyNode(1, spot.type) EXCEPT !.child = ChildrenAt(a)]
          /\ \A m \in Nodes : m # n => node'[m] = node[m]
    BY <1>9, LayOutPlace
  <2>2. node'[n].keys = <<>>
    BY <2>1 DEF EmptyNode
  <2> QED
    BY <2>1, <2>2, <1>1
<1> HIDE DEF Same
<1> QED
  BY <1>1, <1>2, <1>3, <1>4, <1>5, <1>6, <1>7, <1>8, <1>9, Zenon
     DEF HNext, Step

\* A structure laid out again is a tree of one node; what hung below the old
\* one hangs nowhere, and no one leads there.
LEMMA LayOutRanks ==
  ASSUME HSound, Fit, Clean, LayOut, risk' = "none",
         NEW lev, NEW home, NEW H, Ranking(lev, home, H)
  PROVE  \E lv, hm, h : Ranking(lv, hm, h)' /\ \A m \in Nodes : hm[m] = home[m]
<1>1. PICK a, n :
        /\ a = spot.ofs + 1 /\ spot # NoSpot
        /\ Nodes' = Nodes \cup {n} /\ roots' = roots \cup {n}
        /\ node'[n] = [EmptyNode(1, spot.type) EXCEPT !.child = ChildrenAt(a)]
        /\ \A m \in Nodes : m # n => node'[m] = node[m]
        /\ \/ /\ a = top /\ n = used
              /\ \A m \in Nodes : addr[m] # a
           \/ /\ n \in roots /\ addr[n] = a
              /\ \A m \in Nodes : addr[m] = a => m = n
  BY LayOutPlace
<1>2. Shapely
  <2>1. risk = "none"
    BY DEF LayOut
  <2> QED
    BY <2>1, CleanTrees
<1>3. roots \subseteq Nodes /\ (n \in roots \/ n \notin Nodes)
  BY <1>1, <1>2 DEF Shapely, Sound, TypeOK, Nodes
<1>4. node'[n].keys = <<>> /\ \A s \in Slots : node'[n].child[s] = 0
  <2>1. node'[n].child = ChildrenAt(a) /\ node'[n].keys = <<>>
    BY <1>1 DEF EmptyNode
  <2>2. \A s \in Slots : ChildrenAt(a)[s] = 0
    BY <1>1, StartsEmpty
  <2> QED
    BY <2>1, <2>2
<1>5. IsLeaf(n)' /\ Live(n)' = {0} /\ 0 \in Slots
  BY <1>4, MaxKeysAssumption DEF Slots, Live, IsLeaf
<1>6. PICK lv, hm : /\ lv = [m \in Nodes' |-> IF m = n THEN 0 ELSE lev[m]]
                    /\ hm = [m \in Nodes' |-> IF m = n THEN n ELSE home[m]]
  OBVIOUS
<1>7. Levels(lev) /\ Trees(home) /\ Bounded(lev, H)
  BY DEF Ranking
<1>8. \A m \in Nodes : hm[m] = home[m]
  BY <1>1, <1>3, <1>6, <1>7 DEF Trees
\* No live link leads to the node.
<1>9. ASSUME NEW m \in Nodes', m # n
      PROVE  /\ m \in Nodes /\ node'[m] = node[m]
             /\ Live(m)' = Live(m) /\ (IsLeaf(m)' <=> IsLeaf(m))
             /\ \A s \in Live(m) : node[m].child[s] # 0 =>
                  node[m].child[s] \in Nodes /\ node[m].child[s] # n
  <2>1. m \in Nodes /\ node'[m] = node[m]
    BY <1>1, <1>9
  <2>2. \A s \in Live(m) : node[m].child[s] # 0 =>
          node[m].child[s] \in Nodes /\ node[m].child[s] \notin roots
    BY <2>1, <1>2, LinkEnds
  <2> QED
    BY <2>1, <2>2, <1>3 DEF Live, IsLeaf
<1>10. Levels(lv)' /\ Bounded(lv, H)'
  <2>1. lv \in [Nodes' -> Nat] /\ H \in Nat /\ \A m \in Nodes' : lv[m] <= H
    BY <1>1, <1>6, <1>7 DEF Levels, Bounded
  <2>2. ASSUME NEW m \in Nodes'
        PROVE  IF IsLeaf(m)' THEN lv[m] = 0
               ELSE \A s \in Live(m)' : lv[m] = lv[node'[m].child[s]] + 1
    <3>1. CASE m = n
      BY <3>1, <1>5, <1>6
    <3>2. CASE m # n
      <4>1. CASE IsLeaf(m)
        BY <4>1, <3>2, <1>6, <1>7, <1>9 DEF Levels
      <4>2. CASE ~IsLeaf(m)
        <5> SUFFICES ASSUME NEW s \in Live(m)
                     PROVE  lv[m] = lv[node[m].child[s]] + 1
          BY <4>2, <3>2, <1>9
        <5>1. node[m].child[s] # 0
          BY <4>2, <3>2, <1>2, <1>9, LinkEnds
        <5>2. lev[m] = lev[node[m].child[s]] + 1
          BY <4>2, <3>2, <1>7, <1>9 DEF Levels
        <5> QED
          BY <5>1, <5>2, <3>2, <1>1, <1>6, <1>9
      <4> QED
        BY <4>1, <4>2
    <3> QED
      BY <3>1, <3>2
  <2> QED
    BY <2>1, <2>2 DEF Levels, Bounded
<1>11. Trees(hm)'
  <2>1. hm \in [Nodes' -> roots'] /\ \A r \in roots' : hm[r] = r
    BY <1>1, <1>3, <1>6, <1>7 DEF Trees
  <2>2. ASSUME NEW m \in Nodes', NEW s \in Live(m)', node'[m].child[s] # 0
        PROVE  hm[node'[m].child[s]] = hm[m]
    <3>1. m # n
      BY <2>2, <1>4, <1>5
    <3>2. /\ m \in Nodes /\ s \in Live(m) /\ node[m].child[s] = node'[m].child[s]
          /\ node[m].child[s] \in Nodes
      BY <3>1, <2>2, <1>9
    <3>3. home[node[m].child[s]] = home[m]
      BY <3>2, <2>2, <1>7 DEF Trees
    <3> QED
      BY <3>2, <3>3, <1>8
  <2> QED
    BY <2>1, <2>2 DEF Trees
<1>12. WalkRank(lv, hm)'
  <2>1. pc' = "idle"
    BY <1>1 DEF LayOut, HSound, HPlaces, Followed
  <2> QED
    BY <2>1 DEF WalkRank
<1>13. Ranking(lv, hm, H)'
  BY <1>10, <1>11, <1>12 DEF Ranking
<1> QED
  BY <1>8, <1>13

\* Until a node is laid out where it does not fit, the trees are in shape.
Tidy == risk = "none" => Shapely

\* After a step the trees are ranked, and no node has changed its tree.
Succeeds(home) ==
  \E lv, hm, h : Ranking(lv, hm, h)' /\ \A n \in Nodes : hm[n] = home[n]

LEMMA HNextRanks ==
  ASSUME HSound, Fit, Clean, Tidy, Tidy', [HNext]_hvars, risk' = "none",
         NEW lev, NEW home, NEW H, Ranking(lev, home, H)
  PROVE  Succeeds(home)
<1>1. risk = "none"
  BY DEF HNext, Step, Create, Call, Set, Push, Begin, SplitAndPlace, layout,
         OverwriteInPlace, Write, LayOut, hvars
<1>2. Shapely /\ Sound /\ Sound' /\ Ranking(lev, home, H)
  BY <1>1 DEF Tidy, Shapely
<1>3. Onward(home) => Succeeds(home)
  BY DEF Onward, Succeeds
<1>4. ASSUME NEW t \in Types, Create(t)
      PROVE  Succeeds(home)
  BY <1>2, <1>3, <1>4, CreateRanks DEF Create
<1>5. CASE Call
  <2>1. PICK request : Start(request)
    BY <1>5 DEF Call, Set, Push, SetBegin, AppendBegin
  <2>2. Calm
    BY <2>1, <1>2, SoundNodes DEF Start, Calm
  <2>3. /\ node_ofs' = req'.ofs /\ req'.ofs \in roots
        /\ parent_ofs' = NoParent /\ path_depth' = 0
    BY <2>1 DEF Start
  <2> QED
    BY <2>2, <2>3, <1>2, <1>3, RestRanks
<1>6. CASE SplitRoot
  BY <1>2, <1>3, <1>6, SplitRootRanks
<1>7. CASE SplitChild
  BY <1>2, <1>3, <1>7, SplitChildRanks
<1>8. CASE Descend
  BY <1>2, <1>3, <1>8, DescendRanks
<1>9. CASE Overwrite \/ InsertLeaf
  <2>1. Calm /\ pc' # "loop"
    BY <1>2, <1>9, OverwriteCalm, InsertLeafCalm DEF Overwrite, InsertLeaf, Return
  <2> QED
    BY <2>1, <1>2, <1>3, RestRanks
<1>10. CASE OverwriteInPlace
  <2>1. pc = "loop" /\ Return(Bumped(node_ofs)) /\ pc' # "loop"
    BY <1>10 DEF OverwriteInPlace, Return
  <2>2. PICK nd : nd = Bumped(node_ofs)
    OBVIOUS
  <2>3. nd \in Node /\ nd.keys = node[node_ofs].keys /\ nd.child = node[node_ofs].child
        /\ node_ofs \in Nodes /\ Len(node[node_ofs].keys) \in Nat
    BY <2>1, <2>2, <1>2, TurnFacts, SoundNodes DEF WellFormed
  <2>4. Calm
    BY <2>1, <2>2, <2>3, <1>2, ReturnCalm
  <2> QED
    BY <2>1, <2>4, <1>2, <1>3, RestRanks
<1>11. CASE UNCHANGED hvars
  <2>1. Calm /\ UNCHANGED vars
    BY <1>2, <1>11, SoundNodes DEF hvars, vars, Calm
  <2> QED
    BY <2>1, <1>2, <1>3, RestRanks
<1>12. CASE LayOut
  BY <1>2, <1>12, LayOutRanks DEF Succeeds
<1> QED
  BY <1>4, <1>5, <1>6, <1>7, <1>8, <1>9, <1>10, <1>11, <1>12, Zenon
     DEF HNext, Step

LEMMA HNextHomed ==
  ASSUME HSound, Fit, Clean, Tidy, Tidy', Homed, [HNext]_hvars
  PROVE  Homed'
<1> SUFFICES ASSUME risk' = "none" PROVE Homed'
  BY DEF Homed
<1>1. risk = "none"
  BY DEF HNext, Step, Create, Call, Set, Push, Begin, SplitAndPlace, layout,
         OverwriteInPlace, Write, LayOut, hvars
<1>2. PICK lev, home, H : Ranking(lev, home, H) /\ Owned(home)
  BY <1>1 DEF Homed
<1>3. PICK lv, hm, h : Ranking(lv, hm, h)' /\ \A n \in Nodes : hm[n] = home[n]
  BY <1>2, HNextRanks DEF Succeeds
<1>4. Sound /\ Trees(hm)'
  BY <1>1, <1>3 DEF Tidy, Shapely, Ranking
<1>5. Handed(home, hm)
  BY <1>2, <1>3, <1>4, HNextHanded
<1>6. Owned(hm)'
  BY <1>2, <1>5, HandedOwned
<1> QED
  BY <1>3, <1>6 DEF Homed

\* The invariant behind the theorem on other structures.
THEOREM HomedAlways == HSpec => []Homed
<1>1. HInit => Homed
  <2> SUFFICES ASSUME HInit PROVE Homed
    OBVIOUS
  <2>1. Ranked /\ Nodes = {}
    BY InitRanked DEF HInit, Init, Nodes
  <2> QED
    BY <2>1 DEF Ranked, Homed, Owned
<1>2. HSound /\ Clean => Tidy
  BY CleanTrees DEF Tidy
<1>3. HSound /\ Fit /\ Clean /\ Tidy /\ Tidy' /\ Homed /\ [HNext]_hvars => Homed'
  BY HNextHomed
<1> QED
  BY <1>1, <1>2, <1>3, HSoundAlways, FitAlways, CleanAlways, PTL DEF HSpec

-----------------------------------------------------------------------------
(***************************************************************************)
(* What one structure does to another                                      *)
(***************************************************************************)

\* Neither does the call stand on r, nor is a node laid out in r's place.
Aside(r) ==
  /\ r \in roots
  /\ ~(pc = "loop" /\ req.ofs = r)
  /\ ~(spot # NoSpot /\ addr[r] = spot.ofs + 1)

LEMMA AsideUntouched ==
  ASSUME HSound, Fit, Shapely, [HNext]_hvars, risk' = "none",
         NEW lev, NEW home, NEW H, Ranking(lev, home, H), NEW r, Aside(r)
  PROVE  Untouched(home, r)
<1> DEFINE Same == \A n \in Nodes : /\ n \in Nodes'
                                    /\ home[n] = r => node'[n] = node[n]
<1>1. Same => Untouched(home, r)
  BY DEF Untouched
<1>2. Sound /\ used \in Nat /\ Trees(home)
  BY DEF Shapely, Sound, TypeOK, Ranking
<1>3. ASSUME NEW t \in Types, Create(t)
      PROVE  Untouched(home, r)
  BY <1>1, <1>2, <1>3 DEF Create, InitStructure, Nodes
<1>4. CASE Call \/ UNCHANGED hvars
  <2>1. node' = node /\ Nodes' = Nodes
    BY <1>4 DEF Call, Set, Push, Begin, SetBegin, AppendBegin, Start, hvars, vars, Nodes
  <2> QED
    BY <2>1, <1>1
<1>5. CASE Turn
  <2>1. pc = "loop"
    BY <1>5 DEF Turn, SplitRoot, SplitChild, Descend, Overwrite, InsertLeaf
  <2>2. req.ofs # r
    BY <2>1 DEF Aside
  <2>3. \A n \in Nodes : n \in Nodes' /\ (home[n] # req.ofs => node'[n] = node[n])
    BY <1>5, TurnElsewhere
  <2> QED
    BY <2>2, <2>3, <1>1
<1>6. CASE OverwriteInPlace
  <2>1. Wrote(node[node_ofs].keys)
    BY <1>2, <1>6, InPlaceWrote
  <2> QED
    BY <2>1 DEF Wrote, Nodes, Untouched
<1>7. CASE LayOut
  <2>1. PICK a, n :
          /\ a = spot.ofs + 1 /\ spot # NoSpot
          /\ Nodes' = Nodes \cup {n}
          /\ \A m \in Nodes : m # n => node'[m] = node[m]
          /\ \/ n = used
             \/ n \in roots /\ addr[n] = a
    BY <1>7, LayOutPlace
  <2>2. n # r
    BY <2>1, <1>2 DEF Aside, Nodes, Sound, TypeOK
  <2>3. \A m \in Nodes : home[m] = r => m # n
    BY <2>1, <2>2, <1>2 DEF Trees, Nodes
  <2> QED
    BY <2>1, <2>3, <1>1
<1>8. Step => Turn \/ OverwriteInPlace
  BY DEF Step, Turn
<1> HIDE DEF Same
<1> QED
  BY <1>3, <1>4, <1>5, <1>6, <1>7, <1>8, Zenon DEF HNext

LEMMA AsideEntries ==
  ASSUME HSound, Shapely, [HNext]_hvars,
         NEW lev, NEW home, NEW H, Ranking(lev, home, H), Owned(home),
         NEW r, Aside(r), NEW n \in Nodes, home[n] = r, NEW v \in Names(n)
  PROVE  entry'[v].val = entry[v].val
<1>1. v \in 1 .. Len(entry) /\ entry \in Seq(Placed) /\ Len(entry) \in Nat
  BY NamesWritten, LenProperties DEF HSound, HPlaces, HTypeOK
<1>2. ASSUME NEW over, Write(over)
      PROVE  entry'[v] = entry[v]
  BY <1>1, <1>2 DEF Write
<1>3. CASE OverwriteInPlace
  <2>1. /\ pc = "loop" /\ Found(node[node_ofs].keys, req)
        /\ entry' = [entry EXCEPT ![Target].val = ask]
    BY <1>3 DEF OverwriteInPlace
  <2>2. home[node_ofs] = req.ofs /\ req.ofs # r /\ node_ofs \in Nodes
    BY <2>1, TurnFacts DEF Ranking, WalkRank, Aside, Shapely
  <2>3. Target \in Names(node_ofs)
    <3>1. PICK ks, i : ks = node[node_ofs].keys /\ i = Position(ks, req)
      OBVIOUS
    <3>2. Len(ks) \in Nat
      BY <2>2, <3>1, SoundNodes DEF Shapely
    <3>3. i + 1 \in 1 .. Len(ks)
      BY <2>1, <3>1, <3>2, PositionStops DEF Found
    <3> QED
      BY <3>1, <3>3 DEF Target, Names
  <2>4. v # Target
    BY <2>2, <2>3 DEF Owned
  <2>5. PICK T : T = Target
    OBVIOUS
  <2>6. entry' = [entry EXCEPT ![T].val = ask] /\ v # T /\ v \in DOMAIN entry
    BY <2>1, <2>4, <2>5, <1>1
  <2> QED
    BY <2>6
<1>4. CASE entry' = entry
  BY <1>4
<1>5. \/ entry' = entry
      \/ OverwriteInPlace
      \/ \E over : Write(over)
  BY DEF HNext, Step, Create, Call, Set, Push, Begin, SplitAndPlace, layout,
         LayOut, hvars
<1> QED
  BY <1>2, <1>3, <1>4, <1>5

\* What is woven from entries of some kind are entries of that kind.
LEMMA WovenOf ==
  ASSUME NEW S \in SUBSET Entry, NEW ks \in Seq(S),
         NEW c \in [0 .. Len(ks) -> Seq(S)]
  PROVE  Woven(ks, c) \in Seq(S)
<1>1. PICK L : L = Len(ks) /\ L \in Nat
  BY LenProperties
<1>2. ks \in Seq(Entry) /\ c \in [0 .. L -> Seq(Entry)]
  BY <1>1
<1>3. PICK u : /\ Woven(ks, c) = u[L]
               /\ u[0] = c[0]
               /\ \A i \in 1 .. L : u[i] = u[i - 1] \o <<ks[i]>> \o c[i]
  <2>1. PICK v : Prefixes(v, ks, c)
    BY <1>1, <1>2, WovenPrefixes
  <2> QED
    BY <2>1, <1>1 DEF Prefixes
<1> DEFINE Off == {i \in 0 .. L : u[i] \notin Seq(S)}
<1>4. Off = {}
  <2> SUFFICES ASSUME Off # {}
               PROVE  FALSE
    OBVIOUS
  <2>1. Off \subseteq Nat
    OBVIOUS
  <2>2. PICK i \in Off : \A k \in Off : i <= k
    <3> HIDE DEF Off
    <3> QED
      BY <2>1, LeastNatural
  <2>3. i \in 0 .. L /\ u[i] \notin Seq(S) /\ i # 0
    BY <2>2, <1>1, <1>3
  <2>4. i - 1 \in 0 .. L /\ ~(i <= i - 1) /\ i \in 1 .. L
    BY <2>3, <1>1
  <2>5. u[i - 1] \in Seq(S)
    BY <2>2, <2>4
  <2>6. c[i] \in Seq(S) /\ ks[i] \in S
    BY <2>3, <2>4, <1>1, ElementOfSeq
  <2>7. PICK a, e, d : a = u[i - 1] /\ e = ks[i] /\ d = c[i]
    OBVIOUS
  <2>8. a \in Seq(S) /\ <<e>> \in Seq(S) /\ d \in Seq(S)
    BY <2>5, <2>6, <2>7
  <2>9. a \o <<e>> \in Seq(S)
    BY <2>8, ConcatProperties
  <2>10. (a \o <<e>>) \o d \in Seq(S)
    BY <2>8, <2>9, ConcatProperties
  <2>11. u[i] = a \o <<e>> \o d
    BY <2>4, <2>7, <1>3
  <2> QED
    BY <2>3, <2>10, <2>11
<1>5. L \in 0 .. L
  BY <1>1
<1> QED
  BY <1>3, <1>4, <1>5

\* The entries listed below a node are named by nodes of its tree.
LEMMA ListedNames ==
  ASSUME Shapely, NEW lev, NEW home, NEW H, Ranking(lev, home, H), NEW n \in Nodes
  PROVE  /\ InOrder(n) \in Seq(Entry)
         /\ \A i \in 1 .. Len(InOrder(n)) :
              \E m \in Nodes : home[m] = home[n] /\ InOrder(n)[i].val \in Names(m)
<1>1. Levels(lev) /\ Bounded(lev, H) /\ Trees(home)
  BY DEF Ranking
<1>2. PICK b \in [Nodes -> Seq(Entry)] :
        /\ \A m : InOrder(m) = b[m]
        /\ \A m \in Nodes : b[m] = Woven(node[m].keys, Tween(b, m))
  BY <1>1, InOrderBelow
<1>3. PICK r : r = home[n]
  OBVIOUS
<1> DEFINE Ours(e) == \E m \in Nodes : home[m] = r /\ e.val \in Names(m)
           S == {e \in Entry : Ours(e)}
           Wrong == {lev[m] : m \in {k \in Nodes : home[k] = r /\ b[k] \notin Seq(S)}}
<1>4. Wrong = {}
  <2> SUFFICES ASSUME Wrong # {}
               PROVE  FALSE
    OBVIOUS
  <2>1. Wrong \subseteq Nat
    BY <1>1 DEF Levels
  <2>2. PICK l \in Wrong : \A k \in Wrong : l <= k
    <3> HIDE DEF Wrong
    <3> QED
      BY <2>1, LeastNatural
  <2>3. PICK m \in Nodes : home[m] = r /\ b[m] \notin Seq(S) /\ lev[m] = l
    BY <2>2
  <2>4. PICK ks, c : ks = node[m].keys /\ c = Tween(b, m)
    OBVIOUS
  <2>5. ks \in Seq(Entry) /\ Len(ks) \in Nat
    BY <2>4, SoundNodes DEF Shapely, WellFormed, Node
  <2>6. ks \in Seq(S)
    <3>1. ASSUME NEW i \in 1 .. Len(ks)
          PROVE  ks[i] \in S
      <4>1. ks[i] \in Entry
        BY <2>5, ElementOfSeq
      <4>2. ks[i].val \in Names(m)
        BY <2>4 DEF Names
      <4> QED
        BY <4>1, <4>2, <2>3
    <3> HIDE DEF S
    <3>2. ks \in [1 .. Len(ks) -> Entry]
      BY <2>5, LenProperties
    <3>3. ks \in [1 .. Len(ks) -> S]
      BY <3>1, <3>2
    <3>4. \E k \in Nat : ks \in [1 .. k -> S]
      BY <3>3, <2>5
    <3>5. ks \in UNION {[1 .. k -> S] : k \in Nat}
      BY <3>4, Zenon
    <3> QED
      BY <3>5, SeqDef, Zenon
  <2>7. ASSUME NEW s \in 0 .. Len(ks)
        PROVE  c[s] \in Seq(S)
    <3>1. s \in Live(m)
      BY <2>4 DEF Live
    <3>2. CASE IsLeaf(m)
      <4>1. c[s] = <<>>
        BY <3>1, <3>2, <2>4 DEF Tween
      <4> HIDE DEF S
      <4> QED
        BY <4>1
    <3>3. CASE ~IsLeaf(m)
      <4>1. PICK d : d = node[m].child[s]
        OBVIOUS
      <4>2. d # 0 /\ d \in Nodes
        BY <3>1, <3>3, <4>1, LinkEnds
      <4>3. lev[d] \in Nat /\ lev[m] = lev[d] + 1 /\ home[d] = r
        BY <3>1, <3>3, <4>1, <4>2, <2>3, <1>1 DEF Levels, Trees
      <4>4. lev[d] \notin Wrong
        <5>1. ~(l <= lev[d])
          BY <4>3, <2>3
        <5> HIDE DEF Wrong
        <5> QED
          BY <5>1, <2>2
      <4>5. b[d] \in Seq(S)
        <5> HIDE DEF S
        <5> QED
          BY <4>2, <4>3, <4>4
      <4>6. c[s] = b[d]
        BY <3>1, <3>3, <4>1, <2>4 DEF Tween
      <4> QED
        BY <4>5, <4>6
    <3> QED
      BY <3>2, <3>3
  <2>8. c \in [0 .. Len(ks) -> Seq(S)]
    <3>1. c = [s \in 0 .. Len(ks) |-> c[s]]
      BY <2>4 DEF Tween, Live
    <3> HIDE DEF S
    <3> QED
      BY <3>1, <2>7
  <2>9. S \in SUBSET Entry
    OBVIOUS
  <2>10. Woven(ks, c) \in Seq(S)
    <3> HIDE DEF S
    <3> QED
      BY <2>6, <2>8, <2>9, WovenOf
  <2> QED
    BY <2>3, <2>4, <2>10, <1>2
<1>5. b[n] \in Seq(S)
  <2> HIDE DEF S
  <2> QED
    BY <1>3, <1>4
<1>6. \A i \in 1 .. Len(b[n]) : b[n][i] \in S
  <2> HIDE DEF S
  <2> QED
    BY <1>5, ElementOfSeq
<1> QED
  BY <1>2, <1>3, <1>6

\* No step of a call shows in any structure but the one called, and laying out
\* a nested one shows only in the structure whose place it takes, until a node
\* was laid out where it does not fit.
THEOREM OthersUntouchedAlways == HSpec => OthersUntouched
<1>1. ASSUME HSound, Fit, Clean, Tidy, Tidy', Homed, AllBelow, AllBelow',
             [HNext]_hvars, risk' = "none", NEW r \in roots, Aside(r)
      PROVE  Listing(r)' = Listing(r)
  <2>1. risk = "none"
    BY <1>1 DEF HNext, Step, Create, Call, Set, Push, Begin, SplitAndPlace,
         layout, OverwriteInPlace, Write, LayOut, hvars
  <2>2. Shapely /\ Shapely'
    BY <1>1, <2>1 DEF Tidy
  <2>3. PICK lev, home, H : Ranking(lev, home, H) /\ Owned(home)
    BY <1>1, <2>1 DEF Homed
  <2>4. PICK lv, hm, h : Ranking(lv, hm, h)'
    BY <1>1, <2>3, HNextRanks DEF Succeeds
  <2>5. r \in Nodes /\ home[r] = r
    BY <2>2, <2>3 DEF Shapely, Sound, TypeOK, Ranking, Trees
  <2>6. InOrder(r)' = InOrder(r)
    <3>1. Untouched(home, r)
      BY <1>1, <2>2, <2>3, AsideUntouched
    <3> QED
      BY <3>1, <1>1, <2>2, <2>3, <2>4, <2>5, SameBelow
  <2>7. PICK es : es = InOrder(r)
    OBVIOUS
  <2>8. ASSUME NEW i \in 1 .. Len(es)
        PROVE  entry'[es[i].val].val = entry[es[i].val].val
    <3>1. PICK m \in Nodes : home[m] = r /\ es[i].val \in Names(m)
      BY <2>2, <2>3, <2>5, <2>7, ListedNames
    <3> QED
      BY <3>1, <1>1, <2>2, <2>3, AsideEntries
  <2>9. Listing(r) = [i \in 1 .. Len(es) |->
                        [key |-> es[i].key, val |-> entry[es[i].val].val]]
    BY <2>7 DEF Listing
  <2>10. Listing(r)' = [i \in 1 .. Len(es) |->
                          [key |-> es[i].key, val |-> entry'[es[i].val].val]]
    BY <2>6, <2>7 DEF Listing
  <2> QED
    BY <2>8, <2>9, <2>10
<1> DEFINE Spared == risk' = "none" =>
                       \A r \in roots :
                         \/ pc = "loop" /\ req.ofs = r
                         \/ spot # NoSpot /\ addr[r] = spot.ofs + 1
                         \/ Listing(r)' = Listing(r)
<1>2. /\ HSound /\ Fit /\ Clean /\ Tidy /\ Tidy' /\ Homed /\ AllBelow /\ AllBelow'
      /\ [HNext]_hvars
      => [Spared]_hvars
  BY <1>1 DEF Aside
<1>3. HSound /\ Clean => Tidy
  BY CleanTrees DEF Tidy
<1> QED
  BY <1>2, <1>3, HSoundAlways, FitAlways, CleanAlways, HomedAlways, AllBelowHolds,
     PTL DEF HSpec, OthersUntouched
=============================================================================
