---------------------------- MODULE BTreeProofs -----------------------------
(***************************************************************************)
(* Proofs about the search trees, for every value of the constants: the    *)
(* variables keep their types, every node stays within its arrays, every   *)
(* live link leads to a node, and the walk of set_impl always stands below *)
(* a parent that links to it and has room for a median.                    *)
(*                                                                         *)
(* None of the three invariants TypeOK, NodeShape and WalkOK is inductive  *)
(* alone: a split keeps its parent within bounds only because the walk     *)
(* left it with room, the walk finds i_in_parent only because the parent   *)
(* is no leaf, and a sibling takes its keys from a node that must be full  *)
(* exactly.  They are proved together, as Sound.                           *)
(***************************************************************************)
EXTENDS BTree, TLAPS, WellFoundedInduction, SequenceTheorems

-----------------------------------------------------------------------------
(***************************************************************************)
(* Choosing an index                                                       *)
(***************************************************************************)

\* A nonempty set of natural numbers has a least element.
LEMMA LeastNatural ==
  ASSUME NEW T \in SUBSET Nat, T # {}
  PROVE  \E n \in T : \A m \in T : n <= m
<1>1. IsWellFoundedOn(OpToRel(<, Nat), Nat)
  BY NatLessThanWellFounded
<1>2. PICK n \in T : \A m \in T : ~(<<m, n>> \in OpToRel(<, Nat))
  BY <1>1, WFMin, Zenon
<1>3. \A m \in T : m < n => <<m, n>> \in OpToRel(<, Nat)
  BY Zenon DEF OpToRel
<1>4. \A m \in T : ~(m < n)
  BY <1>2, <1>3, Zenon
<1> QED
  BY <1>4, SMT

\* The scan of a node's keys always stops, at an index of a child slot.
LEMMA PositionStops ==
  ASSUME NEW ks, Len(ks) \in Nat, NEW q
  PROVE  /\ Position(ks, q) \in 0 .. Len(ks)
         /\ StopsAt(ks, q, Position(ks, q))
<1> DEFINE T == {i \in 0 .. Len(ks) : i < Len(ks) => ~Before(ks[i + 1], q)}
<1>1. Len(ks) \in T /\ T \subseteq Nat
  OBVIOUS
<1>2. PICK n \in T : \A m \in T : n <= m
  BY <1>1, LeastNatural
<1>3. \A j \in 1 .. n : Before(ks[j], q)
  <2> TAKE j \in 1 .. n
  <2>1. j - 1 \in 0 .. Len(ks) /\ j - 1 < Len(ks) /\ ~(n <= j - 1)
    BY <1>1, <1>2
  <2>2. j - 1 \notin T
    BY <1>2, <2>1
  <2> QED
    BY <2>1, <2>2
<1>4. n \in 0 .. Len(ks) /\ StopsAt(ks, q, n)
  BY <1>2, <1>3 DEF StopsAt
<1> QED
  BY <1>4 DEF Position

\* A parent that links to a node has a first slot that does.
LEMMA IndexIsSlot ==
  ASSUME NEW p, NEW n, Len(node[p].keys) \in Nat, Reaches(p, n)
  PROVE  /\ IndexInParent(p, n) \in 0 .. Len(node[p].keys)
         /\ node[p].child[IndexInParent(p, n)] = n
<1> DEFINE T == {i \in 0 .. Len(node[p].keys) : node[p].child[i] = n}
<1>1. T # {} /\ T \subseteq Nat
  BY DEF Reaches, Live
<1>2. PICK i \in T : \A j \in T : i <= j
  BY <1>1, LeastNatural
<1>3. /\ i \in 0 .. Len(node[p].keys)
      /\ node[p].child[i] = n
      /\ \A j \in 0 .. i - 1 : node[p].child[j] # n
  BY <1>1, <1>2
<1> QED
  BY <1>3 DEF IndexInParent

\* Putting one element into a sequence makes it one longer.
LEMMA InsertedSeq ==
  ASSUME NEW S, NEW s \in Seq(S), NEW e \in S, NEW i \in 0 .. Len(s)
  PROVE  /\ SubSeq(s, 1, i) \o <<e>> \o SubSeq(s, i + 1, Len(s)) \in Seq(S)
         /\ Len(SubSeq(s, 1, i) \o <<e>> \o SubSeq(s, i + 1, Len(s)))
              = Len(s) + 1
<1> DEFINE a == SubSeq(s, 1, i)
           b == SubSeq(s, i + 1, Len(s))
<1>1. \A j \in 1 .. Len(s) : s[j] \in S
  BY ElementOfSeq
<1>2. a \in Seq(S) /\ Len(a) = i
  BY <1>1, SubSeqProperties, LenProperties
<1>3. b \in Seq(S) /\ Len(b) = Len(s) - i
  BY <1>1, SubSeqProperties, LenProperties
<1>4. <<e>> \in Seq(S) /\ Len(<<e>>) = 1 /\ Len(s) \in Nat
  BY LenProperties
<1>5. i + 1 + (Len(s) - i) = Len(s) + 1
  BY <1>4
<1> HIDE DEF a, b
<1> DEFINE c == a \o <<e>>
<1>6. c \in Seq(S) /\ Len(c) = i + 1
  BY <1>2, <1>4, ConcatProperties
<1> HIDE DEF c
<1>7. c \o b \in Seq(S) /\ Len(c \o b) = Len(c) + Len(b)
  BY <1>3, <1>6, ConcatProperties, Zenon
<1>8. Len(c \o b) = Len(s) + 1
  BY <1>3, <1>5, <1>6, <1>7, Zenon
<1> QED
  BY <1>7, <1>8, Zenon DEF a, b, c

-----------------------------------------------------------------------------
(***************************************************************************)
(* What each helper makes of a node                                        *)
(***************************************************************************)

\* A node that may stand in a buffer of u nodes.
WellFormed(nd, u) ==
  /\ nd \in Node
  /\ Len(nd.keys) <= MaxKeys
  /\ \A s \in Slots : nd.child[s] \in 0 .. u - 1
  /\ \/ \A s \in Slots : nd.child[s] = 0
     \/ \A s \in 0 .. Len(nd.keys) : nd.child[s] # 0

\* TypeOK and NodeShape say of the nodes that each is well formed.
LEMMA NodesWellFormed ==
  ASSUME used \in Nat
  PROVE  (node \in [Nodes -> Node] /\ NodeShape)
           <=> /\ node \in [Nodes -> Node]
               /\ \A n \in Nodes : WellFormed(node[n], used)
BY SMTT(30) DEF NodeShape, WellFormed, Nodes, Live, IsLeaf

\* Nothing is lost when more nodes are laid out.
LEMMA WellFormedGrows ==
  ASSUME NEW u \in Nat, NEW nd, WellFormed(nd, u)
  PROVE  WellFormed(nd, u + 1)
BY DEF WellFormed

LEMMA EmptyNodeOK ==
  ASSUME NEW u \in Nat \ {0}, NEW g \in Nat, NEW t \in Types
  PROVE  WellFormed(EmptyNode(g, t), u)
<1>1. g % GenMod \in 0 .. GenMod - 1 /\ 0 \in 0 .. SizeMod - 1
  BY WidthAssumption
<1>2. << >> \in Seq(Entry) /\ Len(<< >>) = 0
  BY EmptySeq
<1>3. NoChildren \in [Slots -> Nat] /\ \A s \in Slots : NoChildren[s] = 0
  BY DEF NoChildren
<1> QED
  BY <1>1, <1>2, <1>3, MaxKeysAssumption DEF EmptyNode, WellFormed, Node

LEMMA BumpedOK ==
  ASSUME NEW n, NEW u \in Nat, WellFormed(node[n], u)
  PROVE  /\ WellFormed(Bumped(n), u)
         /\ Bumped(n).keys = node[n].keys
         /\ Bumped(n).child = node[n].child
         /\ Bumped(n).type = node[n].type
<1>1. node[n].gen \in 0 .. GenMod - 1
  BY DEF WellFormed, Node
<1>2. (node[n].gen + 1) % GenMod \in 0 .. GenMod - 1
  BY <1>1, WidthAssumption
<1> QED
  BY <1>2 DEF Bumped, WellFormed, Node

LEMMA MidInside ==
  /\ Mid \in Nat
  /\ 1 <= Mid
  /\ Mid + 1 <= MaxKeys
  /\ MaxKeys = 2 * Mid + 1
BY MaxKeysAssumption DEF Mid

\* The right sibling of a split has the children of the keys it takes.
LEMMA RightHalfOK ==
  ASSUME NEW u \in Nat \ {0}, NEW nd, WellFormed(nd, u),
         Len(nd.keys) = MaxKeys
  PROVE  /\ WellFormed(RightHalf(nd), u)
         /\ Len(RightHalf(nd).keys) = Mid
         /\ \A s \in 0 .. Mid : RightHalf(nd).child[s] = nd.child[Mid + 1 + s]
<1> DEFINE ks == SubSeq(nd.keys, Mid + 2, Len(nd.keys))
           ch == [s \in Slots |-> IF s <= Len(nd.keys) - (Mid + 1)
                                  THEN nd.child[Mid + 1 + s] ELSE 0]
<1>1. /\ nd \in Node /\ nd.gen \in 0 .. GenMod - 1 /\ nd.type \in Types
      /\ nd.keys \in Seq(Entry)
  BY DEF WellFormed, Node
<1>2. ks \in Seq(Entry) /\ Len(ks) = Mid
  <2>1. \A i \in Mid + 2 .. Len(nd.keys) : nd.keys[i] \in Entry
    BY <1>1, MidInside, ElementOfSeq, MaxKeysAssumption
  <2> QED
    BY <2>1, MidInside, SubSeqProperties, MaxKeysAssumption
<1>3. /\ ch \in [Slots -> Nat]
      /\ \A s \in Slots : ch[s] \in 0 .. u - 1
      /\ \A s \in 0 .. Mid : ch[s] = nd.child[Mid + 1 + s]
  BY MidInside, MaxKeysAssumption, SMTT(30) DEF WellFormed, Node, Slots
<1>4. \/ \A s \in Slots : ch[s] = 0
      \/ \A s \in 0 .. Mid : ch[s] # 0
  <2>1. CASE \A s \in Slots : nd.child[s] = 0
    BY <2>1, MidInside, MaxKeysAssumption DEF Slots
  <2>2. CASE \A s \in 0 .. Len(nd.keys) : nd.child[s] # 0
    <3>1. \A s \in 0 .. Mid : Mid + 1 + s \in 0 .. Len(nd.keys)
      BY MidInside, MaxKeysAssumption
    <3>2. \A s \in 0 .. Mid : ch[s] = nd.child[Mid + 1 + s]
      BY <1>3
    <3> QED
      BY <2>2, <3>1, <3>2, Zenon
  <2> QED
    BY <2>1, <2>2 DEF WellFormed
<1>5. /\ RightHalf(nd).keys = ks
      /\ RightHalf(nd).child = ch
      /\ RightHalf(nd) \in Node
  <2> HIDE DEF ks, ch
  <2>1. EmptyNode(nd.gen, nd.type) \in Node
    <3>1. nd.gen \in Nat
      BY <1>1, WidthAssumption
    <3>2. WellFormed(EmptyNode(nd.gen, nd.type), u)
      BY <1>1, <3>1, EmptyNodeOK
    <3> QED
      BY <3>2 DEF WellFormed
  <2>2. RightHalf(nd) = [EmptyNode(nd.gen, nd.type) EXCEPT
                           !.keys = ks, !.child = ch]
    BY DEF RightHalf, ks, ch
  <2> QED
    BY <2>1, <2>2, <1>2, <1>3 DEF Node
<1> HIDE DEF ks, ch
<1>6. Len(ks) <= MaxKeys /\ 0 .. Len(ks) = 0 .. Mid
  BY <1>2, MidInside, MaxKeysAssumption
<1>7. WellFormed(RightHalf(nd), u)
  BY <1>3, <1>4, <1>5, <1>6, Zenon DEF WellFormed
<1>8. RightHalf(nd).keys = ks /\ RightHalf(nd).child = ch
  BY <1>5
<1>9. \A s \in 0 .. Mid : RightHalf(nd).child[s] = nd.child[Mid + 1 + s]
  BY <1>3, <1>8
<1> QED
  BY <1>2, <1>7, <1>8, <1>9

\* The node that was split keeps its live children up to the median.
LEMMA LeftHalfOK ==
  ASSUME NEW u \in Nat, NEW nd, WellFormed(nd, u), Len(nd.keys) = MaxKeys
  PROVE  /\ WellFormed(LeftHalf(nd), u)
         /\ Len(LeftHalf(nd).keys) = Mid
         /\ LeftHalf(nd).child = nd.child
<1> DEFINE ks == SubSeq(nd.keys, 1, Mid)
<1>1. nd \in Node /\ nd.keys \in Seq(Entry)
  BY DEF WellFormed, Node
<1>2. ks \in Seq(Entry) /\ Len(ks) = Mid
  <2>1. \A i \in 1 .. Mid : nd.keys[i] \in Entry
    BY <1>1, MidInside, ElementOfSeq, MaxKeysAssumption
  <2> QED
    BY <2>1, MidInside, SubSeqProperties
<1>3. LeftHalf(nd) = [nd EXCEPT !.keys = ks]
  BY DEF LeftHalf
<1> HIDE DEF ks
<1>4. /\ LeftHalf(nd) \in Node
      /\ LeftHalf(nd).keys = ks
      /\ LeftHalf(nd).child = nd.child
  BY <1>1, <1>2, <1>3 DEF Node
<1> QED
  BY <1>2, <1>4, MidInside, MaxKeysAssumption DEF WellFormed

\* A parent that has room takes a median and a sibling at any of its slots.
LEMMA WithMedianOK ==
  ASSUME NEW u \in Nat, NEW pd, WellFormed(pd, u), Len(pd.keys) < MaxKeys,
         \A s \in 0 .. Len(pd.keys) : pd.child[s] # 0,
         NEW i \in 0 .. Len(pd.keys), NEW median \in Entry,
         NEW sibling \in 1 .. u - 1
  PROVE  /\ WellFormed(WithMedian(pd, i, median, sibling), u)
         /\ Len(WithMedian(pd, i, median, sibling).keys) = Len(pd.keys) + 1
         /\ WithMedian(pd, i, median, sibling).child
              = [s \in Slots |->
                  CASE s = i + 1 -> sibling
                    [] s > i + 1 /\ s <= Len(pd.keys) + 1 -> pd.child[s - 1]
                    [] OTHER -> pd.child[s]]
<1> DEFINE ks == SubSeq(pd.keys, 1, i) \o <<median>>
                 \o SubSeq(pd.keys, i + 1, Len(pd.keys))
           ch == [s \in Slots |->
                  CASE s = i + 1 -> sibling
                    [] s > i + 1 /\ s <= Len(pd.keys) + 1 -> pd.child[s - 1]
                    [] OTHER -> pd.child[s]]
<1>1. pd \in Node /\ pd.keys \in Seq(Entry) /\ Len(pd.keys) \in Nat
  BY LenProperties DEF WellFormed, Node
<1>2. ks \in Seq(Entry) /\ Len(ks) = Len(pd.keys) + 1
  BY <1>1, InsertedSeq
<1>3. /\ \A s \in Slots : pd.child[s] \in 0 .. u - 1
      /\ 0 .. u - 1 \subseteq Nat /\ sibling \in 0 .. u - 1 /\ sibling # 0
      /\ Len(pd.keys) + 1 <= MaxKeys
  BY <1>1, MaxKeysAssumption DEF WellFormed
<1>4. ASSUME NEW s \in Slots
      PROVE  ch[s] \in 0 .. u - 1 /\ (s <= Len(pd.keys) + 1 => ch[s] # 0)
  <2>1. CASE s = i + 1
    BY <2>1, <1>3
  <2>2. CASE s > i + 1 /\ s <= Len(pd.keys) + 1
    <3>1. s - 1 \in Slots /\ s - 1 \in 0 .. Len(pd.keys) /\ s # i + 1
      BY <1>1, <2>2, MaxKeysAssumption DEF Slots
    <3>2. ch[s] = pd.child[s - 1]
      BY <2>2, <3>1
    <3> QED
      BY <3>1, <3>2, <1>3
  <2>3. CASE s # i + 1 /\ ~(s > i + 1 /\ s <= Len(pd.keys) + 1)
    <3>1. ch[s] = pd.child[s]
      BY <2>3
    <3>2. s <= Len(pd.keys) + 1 => s \in 0 .. Len(pd.keys)
      BY <1>1, <2>3, MaxKeysAssumption DEF Slots
    <3> QED
      BY <3>1, <3>2, <1>3
  <2> QED
    BY <2>1, <2>2, <2>3
<1>5. ch \in [Slots -> Nat]
  BY <1>3, <1>4
<1>6. WithMedian(pd, i, median, sibling) = [pd EXCEPT !.keys = ks, !.child = ch]
  BY DEF WithMedian
<1> HIDE DEF ks, ch
<1>7. /\ WithMedian(pd, i, median, sibling) \in Node
      /\ WithMedian(pd, i, median, sibling).keys = ks
      /\ WithMedian(pd, i, median, sibling).child = ch
  BY <1>1, <1>2, <1>5, <1>6 DEF Node
<1>8. \A s \in 0 .. Len(ks) : s \in Slots /\ s <= Len(pd.keys) + 1
  BY <1>1, <1>2, <1>3, MaxKeysAssumption DEF Slots
<1>9. WellFormed(WithMedian(pd, i, median, sibling), u)
  BY <1>2, <1>3, <1>4, <1>7, <1>8 DEF WellFormed
<1> QED
  BY <1>2, <1>7, <1>9, Zenon DEF ch

\* The root that takes the place of a full one has the old root as its child.
LEMMA NewRootOK ==
  ASSUME NEW u \in Nat \ {0}, NEW t \in Types, NEW z \in 0 .. SizeMod - 1
  PROVE  LET nd == [EmptyNode(1, t) EXCEPT !.size = z, !.child[0] = u]
         IN  /\ WellFormed(nd, u + 1)
             /\ Len(nd.keys) = 0
             /\ nd.child = [s \in Slots |-> IF s = 0 THEN u ELSE 0]
<1> DEFINE ch == [s \in Slots |-> IF s = 0 THEN u ELSE 0]
           nd == [EmptyNode(1, t) EXCEPT !.size = z, !.child[0] = u]
<1>1. EmptyNode(1, t) \in Node /\ EmptyNode(1, t).child = NoChildren
      /\ EmptyNode(1, t).keys = << >>
  BY EmptyNodeOK DEF WellFormed, EmptyNode
<1>2. [NoChildren EXCEPT ![0] = u] = ch /\ ch \in [Slots -> Nat]
  BY MaxKeysAssumption DEF NoChildren, Slots
<1>3. nd = [EmptyNode(1, t) EXCEPT !.size = z, !.child = ch]
  BY <1>1, <1>2 DEF Node
<1> HIDE DEF nd
<1>4. nd \in Node /\ nd.child = ch /\ nd.keys = << >>
  BY <1>1, <1>2, <1>3 DEF Node
<1>5. Len(nd.keys) = 0 /\ 0 .. 0 = {0} /\ 0 \in Slots /\ u # 0 /\ u \in 0 .. u
  BY <1>4, EmptySeq, MaxKeysAssumption DEF Slots
<1>6. WellFormed(nd, u + 1)
  BY <1>4, <1>5, MaxKeysAssumption DEF WellFormed
<1> QED
  BY <1>4, <1>5, <1>6 DEF nd

-----------------------------------------------------------------------------
(***************************************************************************)
(* The inductive invariant                                                 *)
(***************************************************************************)

Sound == TypeOK /\ NodeShape /\ WalkOK

\* Offsets of nodes are numbers, and no buffer with a node is empty.
LEMMA NodesAreNats ==
  ASSUME used \in Nat
  PROVE  /\ \A n \in Nodes : n \in Nat /\ n # NoParent /\ n # used
         /\ \A n \in Nodes : used \in Nat \ {0}
BY DEF Nodes, NoParent

LEMMA SoundNodes ==
  ASSUME Sound
  PROVE  /\ used \in Nat
         /\ DOMAIN node = Nodes
         /\ \A n \in Nodes : /\ WellFormed(node[n], used)
                            /\ WellFormed(node[n], used + 1)
                            /\ Len(node[n].keys) \in Nat
<1>1. used \in Nat /\ DOMAIN node = Nodes /\ node \in [Nodes -> Node]
  BY DEF Sound, TypeOK
<1>2. \A n \in Nodes : WellFormed(node[n], used)
  BY <1>1, NodesWellFormed DEF Sound, TypeOK
<1>3. \A n \in Nodes : node[n].keys \in Seq(Entry)
  BY <1>1 DEF Node
<1> QED
  BY <1>1, <1>2, <1>3, WellFormedGrows, LenProperties

\* What has to be shown of the nodes after a step.
LEMMA NodesAfter ==
  ASSUME used' \in Nat, DOMAIN node' = 0 .. used' - 1,
         node' = [n \in 0 .. used' - 1 |-> node'[n]],
         \A n \in 0 .. used' - 1 : WellFormed(node'[n], used')
  PROVE  node' \in [Nodes' -> Node] /\ NodeShape'
BY DEF NodeShape, WellFormed, Nodes, Live, IsLeaf

LEMMA InitSound == Init => Sound
BY DEF Init, Sound, TypeOK, NodeShape, WalkOK, Nodes, NoCall, Request,
       EmptyKey, NoParent

LEMMA CreateSound ==
  ASSUME Sound, NEW type \in Types, InitStructure(type)
  PROVE  Sound'
<1>1. used' = used + 1 /\ used' \in Nat /\ used \in Nat
  BY SoundNodes DEF InitStructure
<1>2. ASSUME NEW n \in 0 .. used
      PROVE  WellFormed(node'[n], used')
  <2>1. CASE n = used
    BY <2>1, <1>1, EmptyNodeOK DEF InitStructure
  <2>2. CASE n # used
    BY <2>2, <1>1, SoundNodes DEF InitStructure, Nodes
  <2> QED
    BY <2>1, <2>2
<1>3. node' \in [Nodes' -> Node] /\ NodeShape'
  BY <1>1, <1>2, NodesAfter DEF InitStructure
<1>4. TypeOK'
  BY <1>1, <1>3 DEF Sound, TypeOK, InitStructure, Nodes
<1>5. WalkOK'
  BY DEF WalkOK, InitStructure
<1> QED
  BY <1>3, <1>4, <1>5 DEF Sound

LEMMA StartSound ==
  ASSUME Sound, NEW request \in Request, request.val \in Values, Start(request)
  PROVE  Sound'
<1>1. /\ request.ofs \in Nodes /\ request.ofs \in Nat
      /\ roots \subseteq Nodes
  <2>1. roots \subseteq Nodes /\ used \in Nat
    BY DEF Sound, TypeOK
  <2>2. request.ofs \in roots
    BY DEF Start
  <2> QED
    BY <2>1, <2>2, NodesAreNats
<1>2. /\ node' = node /\ used' = used /\ roots' = roots
      /\ pc' = "loop" /\ req' = request /\ parent_ofs' = NoParent
      /\ node_ofs' = request.ofs /\ path_depth' = 0
      /\ request.ofs \in roots
  BY DEF Start
<1>3. Nodes' = Nodes
  BY <1>2 DEF Nodes
<1>4. used \in Nat /\ node \in [Nodes -> Node] /\ NodeShape
  BY DEF Sound, TypeOK
<1>5. TypeOK'
  BY <1>1, <1>2, <1>3, <1>4 DEF TypeOK
<1>6. NodeShape'
  BY <1>2, <1>3, <1>4 DEF NodeShape, IsLeaf, Live
<1>7. WalkOK'
  BY <1>1, <1>2, <1>3 DEF WalkOK
<1> QED
  BY <1>5, <1>6, <1>7 DEF Sound

LEMMA BeginSound ==
  ASSUME Sound, NEW t \in Types, NEW r \in RootsOf(t), NEW v \in Values,
         AppendBegin(r, v) \/ \E k \in Keys : SetBegin(r, k, v)
  PROVE  Sound'
<1>1. r \in Nodes /\ r \in Nat
  BY DEF Sound, TypeOK, Nodes, RootsOf
<1>2. CASE AppendBegin(r, v)
  <2>1. node[r].size \in Nat
    BY <1>1, SoundNodes, WidthAssumption DEF WellFormed, Node
  <2> DEFINE q == [ofs |-> r, key |-> EmptyKey, hash |-> node[r].size,
                   val |-> v, append |-> TRUE]
  <2>2. q \in Request /\ q.val \in Values
    BY <1>1, <2>1 DEF Request, EmptyKey
  <2> QED
    BY <1>2, <2>2, StartSound DEF AppendBegin
<1>3. ASSUME NEW k \in Keys, SetBegin(r, k, v)
      PROVE  Sound'
  <2> DEFINE q == [ofs |-> r, key |-> k, hash |-> Hash[k],
                   val |-> v, append |-> FALSE]
  <2>1. q \in Request /\ q.val \in Values
    BY <1>1, KeysAssumption DEF Request
  <2> QED
    BY <1>3, <2>1, StartSound DEF SetBegin
<1> QED
  BY <1>2, <1>3

-----------------------------------------------------------------------------
(***************************************************************************)
(* The turns of the loop                                                   *)
(***************************************************************************)

\* What a turn may rely on.
LEMMA TurnFacts ==
  ASSUME Sound, pc = "loop"
  PROVE  /\ used \in Nat \ {0}
         /\ node_ofs \in Nodes
         /\ req \in Request /\ req.ofs \in Nodes /\ req.ofs \in roots
         /\ req.val \in Values
         /\ path_depth \in Nat
         /\ Bumped(node_ofs).keys = node[node_ofs].keys
         /\ Bumped(node_ofs).child = node[node_ofs].child
         /\ Bumped(node_ofs).type = node[node_ofs].type
         /\ WellFormed(Bumped(node_ofs), used)
         /\ WellFormed(Bumped(node_ofs), used + 1)
<1>1. /\ used \in Nat \ {0} /\ node_ofs \in Nodes /\ req \in Request
      /\ req.ofs \in roots /\ req.ofs \in Nodes
      /\ req.val \in Values /\ path_depth \in Nat
  <2>1. req.ofs \in roots /\ req.val \in Values /\ node_ofs \in Nodes
    BY DEF Sound, WalkOK
  <2>2. /\ used \in Nat /\ roots \subseteq Nodes /\ req \in Request
        /\ path_depth \in Nat
    BY DEF Sound, TypeOK
  <2> QED
    BY <2>1, <2>2, NodesAreNats
<1>2. WellFormed(node[node_ofs], used) /\ used \in Nat
  BY <1>1, SoundNodes
<1>3. WellFormed(Bumped(node_ofs), used)
  BY <1>2, BumpedOK
<1>4. WellFormed(Bumped(node_ofs), used + 1)
  BY <1>2, <1>3, WellFormedGrows
<1> QED
  BY <1>1, <1>2, <1>3, <1>4, BumpedOK

\* A full node holds exactly MaxKeys keys.
LEMMA FullIsExact ==
  ASSUME Sound, NEW n \in Nodes
  PROVE  /\ Full(n) => Len(node[n].keys) = MaxKeys
         /\ ~Full(n) => Len(node[n].keys) < MaxKeys
BY SoundNodes, MaxKeysAssumption DEF Full, WellFormed

\* The root that was split: its contents are those of the new node, which is its
\* one child.
LEMMA SplitRootNodes ==
  ASSUME Sound, SplitRoot
  PROVE  /\ used' = used + 1 /\ roots' = roots /\ node_ofs \in roots
         /\ DOMAIN node' = 0 .. used /\ node' = [n \in 0 .. used |-> node'[n]]
         /\ node'[used] = Bumped(node_ofs)
         /\ WellFormed(node'[node_ofs], used + 1)
         /\ Len(node'[node_ofs].keys) = 0
         /\ node'[node_ofs].child = [s \in Slots |-> IF s = 0 THEN used ELSE 0]
         /\ \A n \in Nodes \ {node_ofs} : node'[n] = node[n]
         /\ node'[node_ofs].type = node[node_ofs].type
         /\ node'[node_ofs].size = node[node_ofs].size
<1>1. pc = "loop" /\ pc' = "loop" /\ used' = used + 1 /\ parent_ofs = NoParent
  BY DEF SplitRoot, Sound, TypeOK
<1> USE TurnFacts, <1>1
<1> DEFINE t == node[node_ofs].type
           z == node[node_ofs].size
           nd == [EmptyNode(1, t) EXCEPT !.size = z, !.child[0] = used]
<1>2. /\ WellFormed(nd, used + 1)
      /\ Len(nd.keys) = 0
      /\ nd.child = [s \in Slots |-> IF s = 0 THEN used ELSE 0]
      /\ nd.type = t /\ nd.size = z
  <2>1. t \in Types /\ z \in 0 .. SizeMod - 1
    BY SoundNodes DEF WellFormed, Node
  <2>2. nd.type = t /\ nd.size = z
    BY <2>1 DEF EmptyNode
  <2> QED
    BY <2>1, <2>2, NewRootOK
<1>3. node_ofs # used /\ used \in 0 .. used /\ node_ofs \in 0 .. used
  BY DEF Nodes
<1>4. /\ DOMAIN node' = 0 .. used
      /\ node' = [n \in 0 .. used |-> node'[n]]
      /\ node'[used] = Bumped(node_ofs)
      /\ node'[node_ofs] = nd
      /\ \A n \in Nodes \ {node_ofs} : node'[n] = node[n]
  <2> DEFINE g(n) == CASE n = used -> Bumped(node_ofs)
                       [] n = node_ofs ->
                            [EmptyNode(1, node[n].type) EXCEPT
                               !.size = node[n].size, !.child[0] = used]
                       [] OTHER -> node[n]
  <2>1. node' = [n \in 0 .. used |-> g(n)]
    BY DEF SplitRoot
  <2>2. \A n \in 0 .. used :
          node'[n] = CASE n = used -> Bumped(node_ofs)
                       [] n = node_ofs -> nd
                       [] OTHER -> node[n]
    BY <2>1, Zenon
  <2> HIDE DEF g
  <2>3. DOMAIN node' = 0 .. used /\ node' = [n \in 0 .. used |-> node'[n]]
    BY <2>1
  <2> HIDE DEF nd
  <2>4. node'[used] = Bumped(node_ofs)
    BY <2>2, <1>3, Zenon
  <2>5. node'[node_ofs] = nd
    BY <2>2, <1>3, Zenon
  <2>6. ASSUME NEW n \in Nodes \ {node_ofs}
        PROVE  node'[n] = node[n]
    <3>1. n \in 0 .. used /\ n # used /\ n # node_ofs
      BY DEF Nodes
    <3> QED
      BY <3>1, <2>2, Zenon
  <2> QED
    BY <2>3, <2>4, <2>5, <2>6, Zenon
<1>5. node_ofs \in roots /\ roots' = roots
  BY DEF SplitRoot, Sound, WalkOK
<1> HIDE DEF nd
<1> QED
  BY <1>2, <1>4, <1>5

LEMMA SplitRootSound ==
  ASSUME Sound, SplitRoot
  PROVE  Sound'
<1>1. pc = "loop" /\ pc' = "loop" /\ used' = used + 1 /\ parent_ofs = NoParent
  BY DEF SplitRoot, Sound, TypeOK
<1> USE TurnFacts, <1>1
<1>2. /\ DOMAIN node' = 0 .. used /\ node' = [n \in 0 .. used |-> node'[n]]
      /\ node'[used] = Bumped(node_ofs)
      /\ WellFormed(node'[node_ofs], used + 1)
      /\ Len(node'[node_ofs].keys) = 0
      /\ node'[node_ofs].child = [s \in Slots |-> IF s = 0 THEN used ELSE 0]
      /\ \A n \in Nodes \ {node_ofs} : node'[n] = node[n]
  BY SplitRootNodes
<1>3. ASSUME NEW n \in 0 .. used
      PROVE  WellFormed(node'[n], used')
  <2>1. n = used \/ n = node_ofs \/ n \in Nodes \ {node_ofs}
    BY DEF Nodes
  <2> QED
    BY <2>1, <1>2, SoundNodes
<1>4. node' \in [Nodes' -> Node] /\ NodeShape'
  BY <1>2, <1>3, NodesAfter
<1>5. /\ req' = req /\ roots' = roots /\ path_depth' = path_depth
      /\ parent_ofs' = node_ofs /\ node_ofs' = used
  BY DEF SplitRoot
<1>6. /\ Nodes \subseteq Nodes' /\ Nodes \subseteq Nat /\ used \in Nodes'
      /\ \A n \in Nodes : n # NoParent
  BY DEF Nodes, NoParent
<1>7. TypeOK'
  <2>1. roots' \subseteq Nodes'
    BY <1>5, <1>6 DEF Sound, TypeOK
  <2>2. used' \in Nat /\ parent_ofs' \in Nat /\ node_ofs' \in Nat
    BY <1>5, NodesAreNats
  <2> QED
    BY <2>1, <2>2, <1>4, <1>5 DEF TypeOK
<1>8. WalkOK'
  <2>1. Len(node'[parent_ofs'].keys) = 0 /\ node'[parent_ofs'].child[0] = used
    BY <1>2, <1>5, MaxKeysAssumption DEF Slots
  <2>2. Reaches(parent_ofs, node_ofs)'
    BY <1>5, <2>1 DEF Reaches, Live
  <2>3. ~Full(parent_ofs)'
    BY <2>1, MaxKeysAssumption DEF Full
  <2> QED
    BY <1>5, <1>6, <2>2, <2>3 DEF WalkOK
<1> QED
  BY <1>4, <1>7, <1>8 DEF Sound

\* The two halves of a node that was split, and its parent with the median and
\* the link to the right half.
LEMMA SplitChildNodes ==
  ASSUME Sound, SplitChild
  PROVE  LET p == parent_ofs
         IN  /\ used' = used + 1 /\ roots' = roots
             /\ p \in Nodes /\ p # node_ofs /\ node_ofs # 0
             /\ Len(node[node_ofs].keys) = MaxKeys
             /\ Len(node[p].keys) \in Nat /\ Len(node[p].keys) < MaxKeys
             /\ DOMAIN node' = 0 .. used /\ node' = [n \in 0 .. used |-> node'[n]]
             /\ \A n \in {used, node_ofs, p} : WellFormed(node'[n], used + 1)
             /\ Len(node'[used].keys) = Mid
             /\ \A s \in 0 .. Mid :
                  node'[used].child[s] = node[node_ofs].child[Mid + 1 + s]
             /\ Len(node'[node_ofs].keys) = Mid
             /\ node'[node_ofs].child = node[node_ofs].child
             /\ Len(node'[p].keys) = Len(node[p].keys) + 1
             /\ \E i \in 0 .. Len(node[p].keys) :
                  /\ i = IndexInParent(p, node_ofs)
                  /\ node[p].child[i] = node_ofs
                  /\ node'[p].child = [s \in Slots |->
                       CASE s = i + 1 -> used
                         [] s > i + 1 /\ s <= Len(node[p].keys) + 1
                              -> node[p].child[s - 1]
                         [] OTHER -> node[p].child[s]]
             /\ \A n \in Nodes \ {node_ofs, p} : node'[n] = node[n]
             /\ node'[used] = RightHalf(Bumped(node_ofs))
             /\ node'[node_ofs] = LeftHalf(Bumped(node_ofs))
             /\ node'[p] = WithMedian(node[p], IndexInParent(p, node_ofs),
                                     Bumped(node_ofs).keys[Mid + 1], used)
<1>1. pc = "loop" /\ pc' = "loop" /\ used' = used + 1 /\ parent_ofs # NoParent
  BY DEF SplitChild, Sound, TypeOK
<1> USE TurnFacts, <1>1
<1> DEFINE p      == parent_ofs
           nd     == Bumped(node_ofs)
           median == nd.keys[Mid + 1]
           i      == IndexInParent(p, node_ofs)
           pd     == WithMedian(node[p], i, median, used)
<1>2. /\ p \in Nodes /\ node_ofs # 0 /\ Reaches(p, node_ofs)
      /\ ~Full(p) \/ ~Full(node_ofs)
  BY DEF Sound, WalkOK
<1>3. Full(node_ofs) /\ ~Full(p) /\ p # node_ofs
  BY <1>2 DEF SplitChild
<1>4. /\ WellFormed(nd, used + 1) /\ Len(nd.keys) = MaxKeys
      /\ WellFormed(node[p], used + 1) /\ Len(node[p].keys) < MaxKeys
      /\ Len(node[p].keys) \in Nat
  BY <1>2, <1>3, FullIsExact, SoundNodes
<1>5. median \in Entry
  <2>1. nd.keys \in Seq(Entry) /\ Mid + 1 \in 1 .. Len(nd.keys)
    BY <1>4, MidInside, MaxKeysAssumption DEF WellFormed, Node
  <2> QED
    BY <2>1, ElementOfSeq
<1>6. i \in 0 .. Len(node[p].keys) /\ node[p].child[i] = node_ofs
  BY <1>2, <1>4, IndexIsSlot
<1>7. \A s \in 0 .. Len(node[p].keys) : node[p].child[s] # 0
  <2>1. i \in Slots
    BY <1>4, <1>6, MaxKeysAssumption DEF Slots
  <2> QED
    BY <2>1, <1>2, <1>4, <1>6 DEF WellFormed
<1>8. used + 1 \in Nat \ {0} /\ used \in 1 .. (used + 1) - 1
  OBVIOUS
<1>9. /\ WellFormed(RightHalf(nd), used') /\ Len(RightHalf(nd).keys) = Mid
      /\ WellFormed(LeftHalf(nd), used') /\ Len(LeftHalf(nd).keys) = Mid
  BY <1>4, <1>8, RightHalfOK, LeftHalfOK
<1>10. /\ WellFormed(pd, used') /\ Len(pd.keys) = Len(node[p].keys) + 1
       /\ pd.child = [s \in Slots |->
                  CASE s = i + 1 -> used
                    [] s > i + 1 /\ s <= Len(node[p].keys) + 1
                         -> node[p].child[s - 1]
                    [] OTHER -> node[p].child[s]]
  <2> DEFINE u == used + 1
             q == node[p]
  <2>1. u \in Nat /\ used \in 1 .. u - 1 /\ WellFormed(q, u)
    BY <1>4, <1>8
  <2>2. Len(q.keys) < MaxKeys /\ \A s \in 0 .. Len(q.keys) : q.child[s] # 0
    BY <1>4, <1>7
  <2>3. i \in 0 .. Len(q.keys) /\ median \in Entry
    BY <1>5, <1>6
  <2> HIDE DEF u, q, i, median, nd
  <2>4. /\ WellFormed(WithMedian(q, i, median, used), u)
        /\ Len(WithMedian(q, i, median, used).keys) = Len(q.keys) + 1
        /\ WithMedian(q, i, median, used).child
             = [s \in Slots |->
                  CASE s = i + 1 -> used
                    [] s > i + 1 /\ s <= Len(q.keys) + 1 -> q.child[s - 1]
                    [] OTHER -> q.child[s]]
    BY <2>1, <2>2, <2>3, WithMedianOK, SMTT(30)
  <2> QED
    BY <2>4, <1>1, Zenon DEF u, q
<1>11. /\ DOMAIN node' = 0 .. used
       /\ node' = [n \in 0 .. used |-> node'[n]]
       /\ node'[used] = RightHalf(nd)
       /\ node'[node_ofs] = LeftHalf(nd)
       /\ node'[p] = pd
       /\ \A n \in Nodes \ {node_ofs, p} : node'[n] = node[n]
  <2> DEFINE g(n) == CASE n = used -> RightHalf(nd)
                       [] n = node_ofs -> LeftHalf(nd)
                       [] n = parent_ofs -> WithMedian(node[n], i, median, used)
                       [] OTHER -> node[n]
  <2>1. node' = [n \in 0 .. used |-> g(n)]
    BY DEF SplitChild
  <2>2. /\ used \in 0 .. used /\ node_ofs \in 0 .. used /\ p \in 0 .. used
        /\ node_ofs # used /\ p # used
        /\ \A n \in Nodes : n \in 0 .. used /\ n # used
    BY <1>2 DEF Nodes
  <2>3. g(used) = RightHalf(nd) /\ g(node_ofs) = LeftHalf(nd) /\ g(p) = pd
    BY <2>2, <1>3, Zenon
  <2>4. \A n \in Nodes \ {node_ofs, p} : g(n) = node[n]
    BY <2>2, Zenon
  <2> HIDE DEF g, nd, pd
  <2> QED
    BY <2>1, <2>2, <2>3, <2>4
<1>12. /\ Len(node[node_ofs].keys) = MaxKeys /\ roots' = roots
       /\ nd.child = node[node_ofs].child
  BY <1>3, FullIsExact DEF SplitChild
<1>13. /\ \A s \in 0 .. Mid : RightHalf(nd).child[s] = nd.child[Mid + 1 + s]
       /\ LeftHalf(nd).child = nd.child
  BY <1>4, <1>8, RightHalfOK, LeftHalfOK
<1>14. /\ node'[used] = RightHalf(Bumped(node_ofs))
       /\ node'[node_ofs] = LeftHalf(Bumped(node_ofs))
       /\ node'[p] = WithMedian(node[p], IndexInParent(p, node_ofs),
                               Bumped(node_ofs).keys[Mid + 1], used)
       /\ i = IndexInParent(p, node_ofs)
  BY <1>11
<1> HIDE DEF nd, pd, median, i
<1> QED
  BY <1>2, <1>3, <1>4, <1>6, <1>9, <1>10, <1>11, <1>12, <1>13, <1>14, ZenonT(60)

LEMMA SplitChildSound ==
  ASSUME Sound, SplitChild
  PROVE  Sound'
<1>1. pc = "loop" /\ pc' = "loop" /\ used' = used + 1 /\ parent_ofs # NoParent
  BY DEF SplitChild, Sound, TypeOK
<1> USE TurnFacts, <1>1
<1> DEFINE p == parent_ofs
<1>2. /\ p \in Nodes /\ p # node_ofs /\ node_ofs # 0
      /\ Len(node[p].keys) \in Nat /\ Len(node[p].keys) < MaxKeys
      /\ DOMAIN node' = 0 .. used /\ node' = [n \in 0 .. used |-> node'[n]]
      /\ \A n \in {used, node_ofs, p} : WellFormed(node'[n], used + 1)
      /\ Len(node'[used].keys) = Mid /\ Len(node'[node_ofs].keys) = Mid
      /\ Len(node'[p].keys) = Len(node[p].keys) + 1
      /\ \A n \in Nodes \ {node_ofs, p} : node'[n] = node[n]
  BY SplitChildNodes
<1>3. PICK i \in 0 .. Len(node[p].keys) :
        /\ node[p].child[i] = node_ofs
        /\ node'[p].child = [s \in Slots |->
             CASE s = i + 1 -> used
               [] s > i + 1 /\ s <= Len(node[p].keys) + 1 -> node[p].child[s - 1]
               [] OTHER -> node[p].child[s]]
  BY SplitChildNodes
<1>4. ASSUME NEW n \in 0 .. used
       PROVE  WellFormed(node'[n], used')
  <2>1. n = used \/ n = node_ofs \/ n = p \/ n \in Nodes \ {node_ofs, p}
    BY DEF Nodes
  <2> QED
    BY <2>1, <1>2, SoundNodes
<1>5. node' \in [Nodes' -> Node] /\ NodeShape'
  BY <1>2, <1>4, NodesAfter
<1>6. /\ req' = req /\ roots' = roots /\ path_depth' = path_depth + 1
      /\ parent_ofs' = p /\ node_ofs' \in {used, node_ofs}
  BY DEF SplitChild
<1>7. /\ Nodes \subseteq Nodes' /\ used \in Nodes' /\ used' \in Nat
      /\ path_depth + 1 \in Nat
  BY DEF Nodes
<1>8. TypeOK'
  <2>1. roots' \subseteq Nodes'
    BY <1>6, <1>7 DEF Sound, TypeOK
  <2>2. parent_ofs' \in Nat /\ node_ofs' \in Nat
    BY <1>2, <1>6, NodesAreNats
  <2> QED
    BY <2>1, <2>2, <1>5, <1>6, <1>7 DEF TypeOK
<1>9. WalkOK'
  <2>1. node_ofs' \in Nodes' /\ node_ofs' # 0 /\ p \in Nodes'
    BY <1>2, <1>6, <1>7
  <2>2. Reaches(parent_ofs, node_ofs)'
    <3>1. i + 1 \in Slots /\ i \in Slots /\ i # i + 1 /\ ~(i > i + 1)
          /\ i + 1 \in 0 .. Len(node'[p].keys) /\ i \in 0 .. Len(node'[p].keys)
      BY <1>2, MaxKeysAssumption, SMTT(30) DEF Slots
    <3>2. node'[p].child[i + 1] = used
      BY <3>1, <1>3
    <3>3. node'[p].child[i] = node_ofs
      BY <3>1, <1>3
    <3> QED
      BY <3>1, <3>2, <3>3, <1>6 DEF Reaches, Live
  <2>3. ~Full(node_ofs)'
    <3>1. Len(node'[node_ofs'].keys) = Mid
      BY <1>2, <1>6
    <3>2. Mid < MaxKeys /\ Mid \in Nat /\ MaxKeys \in Nat
      BY MidInside, MaxKeysAssumption
    <3> QED
      BY <3>1, <3>2 DEF Full
  <2> QED
    BY <2>1, <2>2, <2>3, <1>6 DEF WalkOK, Sound
<1> QED
  BY <1>5, <1>8, <1>9 DEF Sound

\* One node changes and no node is laid out.
LEMMA OneNodeAfter ==
  ASSUME Sound, NEW n \in Nodes, NEW nd, WellFormed(nd, used),
         used' = used, node' = [node EXCEPT ![n] = nd]
  PROVE  /\ node' \in [Nodes' -> Node] /\ NodeShape'
         /\ Nodes' = Nodes
         /\ node'[n] = nd
         /\ \A m \in Nodes \ {n} : node'[m] = node[m]
<1>1. used \in Nat /\ used' \in Nat /\ DOMAIN node = Nodes
  BY SoundNodes
<1>2. Nodes' = Nodes /\ 0 .. used' - 1 = Nodes
  BY DEF Nodes
<1>3. /\ node'[n] = nd
      /\ \A m \in Nodes \ {n} : node'[m] = node[m]
      /\ DOMAIN node' = Nodes
      /\ node' = [m \in Nodes |-> node'[m]]
  BY <1>1
<1>4. \A m \in Nodes : WellFormed(node'[m], used')
  BY <1>3, SoundNodes
<1>5. node' \in [Nodes' -> Node] /\ NodeShape'
  BY <1>1, <1>2, <1>3, <1>4, NodesAfter
<1> QED
  BY <1>2, <1>3, <1>5

LEMMA DescendSound ==
  ASSUME Sound, Descend
  PROVE  Sound'
<1>1. pc = "loop" /\ pc' = "loop" /\ used' = used
  BY DEF Descend, Sound, TypeOK
<1> USE TurnFacts, <1>1
<1> DEFINE ks == node[node_ofs].keys
           i  == Position(ks, req)
           c  == node[node_ofs].child[i]
           nd == Bumped(node_ofs)
<1>2. /\ c # 0 /\ node_ofs' = c /\ parent_ofs' = node_ofs
      /\ ~Full(node_ofs)
      /\ path_depth' = path_depth + 1
      /\ req' = req /\ roots' = roots
      /\ node' = [node EXCEPT ![node_ofs] = nd]
  BY DEF Descend
<1>3. /\ node' \in [Nodes' -> Node] /\ NodeShape'
      /\ Nodes' = Nodes
      /\ node'[node_ofs] = nd
  BY <1>2, OneNodeAfter
<1>4. i \in 0 .. Len(ks) /\ Len(ks) < MaxKeys /\ Len(ks) \in Nat
  BY <1>2, SoundNodes, FullIsExact, PositionStops
<1>5. c \in Nodes
  <2>1. i \in Slots
    BY <1>4, MaxKeysAssumption DEF Slots
  <2>2. WellFormed(node[node_ofs], used)
    BY SoundNodes
  <2> QED
    BY <2>1, <2>2 DEF WellFormed, Nodes
<1>6. TypeOK'
  <2>1. roots \subseteq Nodes
    BY DEF Sound, TypeOK
  <2>2. node_ofs \in Nat /\ c \in Nat
    BY <1>5, NodesAreNats
  <2>3. path_depth' \in Nat /\ used' \in Nat
    BY <1>2
  <2> HIDE DEF c, nd
  <2> QED
    BY <1>2, <1>3, <2>1, <2>2, <2>3 DEF TypeOK
<1>7. WalkOK'
  <2>1. nd.keys = ks /\ nd.child[i] = c
    OBVIOUS
  <2>2. Reaches(parent_ofs, node_ofs)'
    <3> HIDE DEF nd, c, i
    <3> QED
      BY <1>2, <1>3, <1>4, <2>1 DEF Reaches, Live
  <2>3. ~Full(parent_ofs)'
    BY <1>2, <1>3, <1>4, <2>1, MaxKeysAssumption DEF Full
  <2>4. parent_ofs' # NoParent /\ parent_ofs' \in Nodes' /\ node_ofs' \in Nodes'
    BY <1>2, <1>3, <1>5, NodesAreNats
  <2>5. node_ofs' # 0 /\ (req.ofs \in roots /\ req.val \in Values)'
    BY <1>2
  <2> HIDE DEF nd, c, i
  <2> QED
    BY <2>2, <2>3, <2>4, <2>5, Zenon DEF WalkOK
<1> QED
  BY <1>3, <1>6, <1>7 DEF Sound

\* The end of a call, with any well formed node in place of the last one.
LEMMA ReturnSound ==
  ASSUME Sound, pc = "loop", NEW nd, WellFormed(nd, used), Return(nd)
  PROVE  Sound'
<1> USE TurnFacts
<1> DEFINE written == [node EXCEPT ![node_ofs] = nd]
           z       == (req.hash + 1) % SizeMod
<1>1. /\ used' = used /\ roots' = roots /\ pc' = "idle" /\ req' = NoCall
      /\ parent_ofs' = NoParent /\ node_ofs' = 0 /\ path_depth' = 0
      /\ node' = IF req.append THEN [written EXCEPT ![req.ofs].size = z]
                 ELSE written
  BY DEF Return
<1>2. DOMAIN node = Nodes /\ Nodes' = Nodes /\ used' \in Nat
      /\ 0 .. used' - 1 = Nodes
  BY <1>1, SoundNodes DEF Nodes
<1>3. /\ DOMAIN written = Nodes
      /\ written = [m \in Nodes |-> written[m]]
      /\ \A m \in Nodes : WellFormed(written[m], used)
  BY <1>2, SoundNodes
<1> HIDE DEF written
<1>4. z \in 0 .. SizeMod - 1
  BY WidthAssumption DEF Request
<1> HIDE DEF z
<1>5. node' \in [Nodes' -> Node] /\ NodeShape'
  <2>1. CASE ~req.append
    <3>1. node' = written
      BY <1>1, <2>1
    <3> QED
      BY <3>1, <1>1, <1>2, <1>3, NodesAfter
  <2>2. CASE req.append
    <3> DEFINE w == written[req.ofs]
               v == [w EXCEPT !.size = z]
    <3>1. WellFormed(w, used)
      BY <1>3
    <3>2. WellFormed(v, used)
      BY <3>1, <1>4 DEF WellFormed, Node
    <3>3. node' = [written EXCEPT ![req.ofs] = v]
      BY <1>1, <2>2
    <3> HIDE DEF v
    <3>4. /\ DOMAIN node' = Nodes
          /\ node' = [m \in Nodes |-> node'[m]]
          /\ \A m \in Nodes : WellFormed(node'[m], used)
      BY <3>2, <3>3, <1>3
    <3> QED
      BY <3>4, <1>1, <1>2, NodesAfter
  <2> QED
    BY <2>1, <2>2
<1>6. TypeOK'
  <2>1. roots \subseteq Nodes
    BY DEF Sound, TypeOK
  <2>2. NoCall \in Request
    BY DEF NoCall, Request, EmptyKey
  <2>3. req' \in Request /\ roots' \subseteq Nodes'
    BY <1>1, <1>2, <2>1, <2>2
  <2> QED
    BY <1>1, <1>2, <1>5, <2>3 DEF TypeOK
<1>7. WalkOK'
  BY <1>1 DEF WalkOK
<1> QED
  BY <1>5, <1>6, <1>7 DEF Sound

LEMMA OverwriteSound ==
  ASSUME Sound, Overwrite
  PROVE  Sound'
<1>1. pc = "loop"
  BY DEF Overwrite
<1> USE TurnFacts, <1>1
<1> DEFINE nd == Bumped(node_ofs)
           i  == Position(node[node_ofs].keys, req)
           ks == [nd.keys EXCEPT ![i + 1].val = req.val]
           wr == [nd EXCEPT !.keys[i + 1].val = req.val]
<1>2. i + 1 \in 1 .. Len(nd.keys) /\ Return(wr)
  <2>1. Len(node[node_ofs].keys) \in Nat
    BY SoundNodes
  <2> QED
    BY <2>1, PositionStops DEF Overwrite, Found
<1>3. nd \in Node /\ nd.keys \in Seq(Entry)
  BY DEF WellFormed, Node
<1>4. ks \in Seq(Entry) /\ Len(ks) = Len(nd.keys)
  <2> DEFINE e == [nd.keys[i + 1] EXCEPT !.val = req.val]
  <2>1. nd.keys[i + 1] \in Entry
    BY <1>2, <1>3, ElementOfSeq
  <2>2. e \in Entry
    BY <2>1 DEF Entry
  <2>3. ks = [nd.keys EXCEPT ![i + 1] = e]
    OBVIOUS
  <2> HIDE DEF e, i, nd, ks
  <2> QED
    BY <2>2, <2>3, <1>2, <1>3, ExceptSeq
<1>5. wr = [nd EXCEPT !.keys = ks]
  BY <1>3 DEF Node
<1>6. WellFormed(nd, used)
  OBVIOUS
<1> HIDE DEF nd, ks, wr, i
<1>7. wr \in Node /\ wr.keys = ks /\ wr.child = nd.child
  BY <1>3, <1>4, <1>5 DEF Node
<1>8. WellFormed(wr, used)
  BY <1>4, <1>6, <1>7 DEF WellFormed
<1> QED
  BY <1>2, <1>8, ReturnSound

LEMMA InsertLeafSound ==
  ASSUME Sound, InsertLeaf
  PROVE  Sound'
<1>1. pc = "loop"
  BY DEF InsertLeaf
<1> USE TurnFacts, <1>1
<1> DEFINE nd == Bumped(node_ofs)
           i  == Position(node[node_ofs].keys, req)
           e  == [hash |-> req.hash, key |-> req.key, val |-> req.val]
           ks == SubSeq(nd.keys, 1, i) \o <<e>>
                   \o SubSeq(nd.keys, i + 1, Len(nd.keys))
           wr == [nd EXCEPT !.keys = SubSeq(@, 1, i) \o <<e>>
                                       \o SubSeq(@, i + 1, Len(@))]
<1>2. /\ i \in 0 .. Len(nd.keys) /\ Return(wr)
      /\ nd.child[i] = 0 /\ Len(nd.keys) < MaxKeys
  <2>1. Len(node[node_ofs].keys) \in Nat
    BY SoundNodes
  <2>2. ~Full(node_ofs) /\ node[node_ofs].child[i] = 0 /\ Return(wr)
    BY DEF InsertLeaf
  <2> QED
    BY <2>1, <2>2, PositionStops, FullIsExact
<1>3. nd \in Node /\ nd.keys \in Seq(Entry) /\ Len(nd.keys) \in Nat
  BY LenProperties DEF WellFormed, Node
<1>4. e \in Entry
  BY DEF Entry, Request
<1>5. wr = [nd EXCEPT !.keys = ks]
  BY <1>3 DEF Node
<1>6. WellFormed(nd, used)
  OBVIOUS
<1> HIDE DEF nd, i, e
<1>7. ks \in Seq(Entry) /\ Len(ks) = Len(nd.keys) + 1
  BY <1>2, <1>3, <1>4, InsertedSeq
<1>8. \A s \in Slots : nd.child[s] = 0
  BY <1>2, <1>6 DEF WellFormed
<1> HIDE DEF ks, wr
<1>9. wr \in Node /\ wr.keys = ks /\ wr.child = nd.child
  BY <1>3, <1>5, <1>7 DEF Node
<1>10. WellFormed(wr, used)
  BY <1>2, <1>3, <1>6, <1>7, <1>8, <1>9, MaxKeysAssumption DEF WellFormed
<1> QED
  BY <1>2, <1>10, ReturnSound

\* A step that changes nothing keeps the invariant.
LEMMA StutterSound ==
  ASSUME Sound, UNCHANGED vars
  PROVE  Sound'
BY DEF Sound, TypeOK, NodeShape, WalkOK, vars, Nodes, Live, IsLeaf, Reaches,
       Full

LEMMA NextSound ==
  ASSUME Sound, [Next]_vars
  PROVE  Sound'
<1>1. ASSUME NEW t \in Types, InitStructure(t)
      PROVE  Sound'
  BY <1>1, CreateSound
<1>2. ASSUME NEW r \in RootsOf("Object"), NEW k \in Keys, NEW v \in Values,
             SetBegin(r, k, v)
      PROVE  Sound'
  BY <1>2, BeginSound DEF Types
<1>3. ASSUME NEW r \in RootsOf("Array"), NEW v \in Values, AppendBegin(r, v)
      PROVE  Sound'
  BY <1>3, BeginSound DEF Types
<1>4. CASE SplitRoot
  BY <1>4, SplitRootSound
<1>5. CASE SplitChild
  BY <1>5, SplitChildSound
<1>6. CASE Descend
  BY <1>6, DescendSound
<1>7. CASE Overwrite
  BY <1>7, OverwriteSound
<1>8. CASE InsertLeaf
  BY <1>8, InsertLeafSound
<1>9. CASE UNCHANGED vars
  BY <1>9, StutterSound
<1> QED
  BY <1>1, <1>2, <1>3, <1>4, <1>5, <1>6, <1>7, <1>8, <1>9, Zenon
     DEF Next, Turn

-----------------------------------------------------------------------------
(***************************************************************************)
(* The theorems                                                            *)
(***************************************************************************)

\* Whatever is written to the structures of a buffer, and between any two
\* turns of set_impl's loop, the strengthened invariant holds.
THEOREM SoundAlways == Spec => []Sound
<1>1. Init => Sound
  BY InitSound
<1>2. Sound /\ [Next]_vars => Sound'
  BY NextSound
<1> QED
  BY <1>1, <1>2, PTL DEF Spec

\* Node fields, offsets and the walk's variables keep their types: generation
\* and size never outgrow the 24 and 26 bits PackedNodeLayout gives them.
THEOREM TypeCorrect == Spec => []TypeOK
<1>1. Sound => TypeOK
  BY DEF Sound
<1> QED
  BY <1>1, SoundAlways, PTL

\* No node ever holds more keys than its arrays, and every live child offset
\* leads to a node that was laid out, or all of a leaf's are 0.
THEOREM ShapeSafe == Spec => []NodeShape
<1>1. Sound => NodeShape
  BY DEF Sound
<1> QED
  BY <1>1, SoundAlways, PTL

\* A split always finds i_in_parent and always finds room in the parent.
THEOREM WalkSafe == Spec => []WalkOK
<1>1. Sound => WalkOK
  BY DEF Sound
<1> QED
  BY <1>1, SoundAlways, PTL
=============================================================================
