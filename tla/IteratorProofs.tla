--------------------------- MODULE IteratorProofs ---------------------------
(***************************************************************************)
(* Proofs about the iterator, for every value of the constants: what its   *)
(* state is, that it yields the keys of its object in order and all of     *)
(* them, and that it notices writes to the structure at offset 0, as long  *)
(* as fewer calls were made than there are generations.                    *)
(*                                                                         *)
(* WritesNoticed says nothing of how often the generation was bumped.  The *)
(* proof counts: a call bumps node 0 exactly once, in its first turn and   *)
(* only if it is about structure 0, because a walk that has left its root  *)
(* never stands on offset 0 again (WalkOK, part of Sound).  So the         *)
(* generation is a known number of steps away from the one the iterator    *)
(* was made under.                                                         *)
(*                                                                         *)
(* For the order, every frame of the stack is given the entries of its     *)
(* node's subtree, cut up by the node's keys, and their place among those  *)
(* of the object (Placed).  The frames then add up to a number of entries  *)
(* passed (Path), which find_next raises by one (AdvancePath) and which a  *)
(* write to another structure leaves alone (PathStays).                    *)
(***************************************************************************)
EXTENDS Iterator, BTreeOrderProofs

\* A call that is about to bump node 0.
AboutToBump == pc = "loop" /\ node_ofs = 0

\* Node 0 was bumped c times since the iterator was made.
BumpedSince(c) ==
  /\ node[0].gen = it_gen + c \/ node[0].gen = it_gen + c - GenMod
  /\ 0 \in wrote => c >= 1 \/ AboutToBump
  /\ AboutToBump => c < calls

Counting ==
  /\ calls \in 0 .. MaxCalls
  /\ live => 0 \in Nodes /\ it_gen \in 0 .. GenMod - 1
  /\ live /\ ~split => \E c \in 0 .. calls : BumpedSince(c)

CountSound == Sound /\ Counting

-----------------------------------------------------------------------------

\* A generation grows by one or starts again at 0.
LEMMA NextGen ==
  ASSUME NEW g \in 0 .. GenMod - 1
  PROVE  /\ g + 1 < GenMod => (g + 1) % GenMod = g + 1
         /\ g + 1 = GenMod => (g + 1) % GenMod = 0
BY WidthAssumption

\* A buffer with a node has one at offset 0.
LEMMA FirstNode ==
  ASSUME NEW u \in Nat, u >= 1
  PROVE  0 \in 0 .. u - 1
OBVIOUS

\* What a turn does to the generation of node 0, and where it leads.
LEMMA TurnBumps ==
  ASSUME Sound, Turn, 0 \in Nodes
  PROVE  /\ pc = "loop"
         /\ node_ofs = 0 /\ ~Full(0) =>
              node'[0].gen = (node[0].gen + 1) % GenMod
         /\ node_ofs # 0 => node'[0].gen = node[0].gen
         /\ ~(node_ofs = 0 /\ Full(0)) => ~AboutToBump'
         /\ used' >= used
<1>1. pc = "loop"
  BY DEF Turn, SplitRoot, SplitChild, Descend, Overwrite, InsertLeaf
<1> USE TurnFacts, <1>1
<1>2. /\ DOMAIN node = Nodes /\ used \in Nat
      /\ node_ofs = 0 => parent_ofs = NoParent
      /\ parent_ofs = NoParent => node_ofs \in roots
      /\ roots \subseteq Nodes /\ used # 0
  BY SoundNodes DEF Sound, TypeOK, WalkOK, Nodes
<1>3. CASE SplitRoot
  <2>1. /\ used' = used + 1 /\ node_ofs' = used /\ Full(node_ofs)
        /\ \A n \in Nodes \ {node_ofs} : node'[n] = node[n]
    BY <1>3, SplitRootNodes DEF SplitRoot
  <2> QED
    BY <2>1, <1>2 DEF AboutToBump
<1>4. CASE SplitChild
  <2>1. parent_ofs # NoParent /\ node_ofs # 0 /\ used' = used + 1
        /\ node_ofs' \in {used, node_ofs}
    BY <1>2, <1>4 DEF SplitChild
  <2>2. node'[0].gen = node[0].gen
    <3> DEFINE nd == Bumped(node_ofs)
               median == nd.keys[Mid + 1]
               i == IndexInParent(parent_ofs, node_ofs)
               g(n) == CASE n = used -> RightHalf(nd)
                         [] n = node_ofs -> LeftHalf(nd)
                         [] n = parent_ofs -> WithMedian(node[n], i, median, used)
                         [] OTHER -> node[n]
    <3>1. node' = [n \in 0 .. used |-> g(n)] /\ 0 \in 0 .. used
      BY <1>2, <1>4 DEF SplitChild
    <3>2. node'[0] = IF 0 = parent_ofs THEN WithMedian(node[0], i, median, used)
                     ELSE node[0]
      BY <3>1, <2>1, <1>2
    <3>3. WithMedian(node[0], i, median, used).gen = node[0].gen
      <4>1. node[0] \in Node
        BY SoundNodes DEF WellFormed
      <4> QED
        BY <4>1 DEF WithMedian, Node
    <3> QED
      BY <3>2, <3>3
  <2> QED
    BY <2>1, <2>2, <1>2 DEF AboutToBump
<1>5. CASE Descend
  <2>1. /\ node_ofs' # 0 /\ used' = used
        /\ node' = [node EXCEPT ![node_ofs] = Bumped(node_ofs)]
    BY <1>5 DEF Descend
  <2>2. node_ofs = 0 => node'[0] = Bumped(0)
    BY <2>1, <1>2
  <2>3. node_ofs # 0 => node'[0] = node[0]
    BY <2>1, <1>2
  <2>4. Bumped(0).gen = (node[0].gen + 1) % GenMod
    <3>1. node[0] \in Node
      BY SoundNodes DEF WellFormed
    <3> QED
      BY <3>1 DEF Bumped, Node
  <2> QED
    BY <2>1, <2>2, <2>3, <2>4, <1>2 DEF AboutToBump
<1>6. ASSUME NEW nd, Return(nd), nd.gen = Bumped(node_ofs).gen
      PROVE  /\ node_ofs = 0 => node'[0].gen = (node[0].gen + 1) % GenMod
             /\ node_ofs # 0 => node'[0].gen = node[0].gen
             /\ pc' = "idle" /\ used' = used
  <2> DEFINE written == [node EXCEPT ![node_ofs] = nd]
             z       == (req.hash + 1) % SizeMod
  <2>1. /\ used' = used /\ pc' = "idle"
        /\ node' = IF req.append THEN [written EXCEPT ![req.ofs].size = z]
                   ELSE written
    BY <1>6 DEF Return
  <2>2. /\ node_ofs = 0 => written[0] = nd
        /\ node_ofs # 0 => written[0] = node[0]
        /\ 0 \in DOMAIN written
    BY <1>2
  <2> HIDE DEF written, z
  <2>3. node'[0].gen = written[0].gen
    <3>1. CASE req.append /\ req.ofs = 0
      <4>1. node'[0] = [written[0] EXCEPT !.size = z]
        BY <3>1, <2>1, <2>2
      <4> QED
        BY <4>1
    <3>2. CASE ~(req.append /\ req.ofs = 0)
      BY <3>2, <2>1, <2>2
    <3> QED
      BY <3>1, <3>2
  <2>4. Bumped(node_ofs).gen = (node[node_ofs].gen + 1) % GenMod
    <3>1. node[node_ofs] \in Node
      BY SoundNodes DEF WellFormed
    <3> QED
      BY <3>1 DEF Bumped, Node
  <2> QED
    BY <1>6, <2>1, <2>2, <2>3, <2>4
<1>7. CASE Overwrite
  <2> DEFINE nd == Bumped(node_ofs)
             i  == Position(node[node_ofs].keys, req)
             wr == [nd EXCEPT !.keys[i + 1].val = req.val]
  <2>1. Return(wr) /\ wr.gen = nd.gen
    BY <1>7 DEF Overwrite
  <2> HIDE DEF wr
  <2> QED
    BY <2>1, <1>2, <1>6 DEF AboutToBump
<1>8. CASE InsertLeaf
  <2> DEFINE nd == Bumped(node_ofs)
             i  == Position(node[node_ofs].keys, req)
             e  == [hash |-> req.hash, key |-> req.key, val |-> req.val]
             wr == [nd EXCEPT !.keys = SubSeq(@, 1, i) \o <<e>>
                                         \o SubSeq(@, i + 1, Len(@))]
  <2>1. Return(wr) /\ wr.gen = nd.gen
    BY <1>8 DEF InsertLeaf
  <2> HIDE DEF wr
  <2> QED
    BY <2>1, <1>2, <1>6 DEF AboutToBump
<1> QED
  BY <1>3, <1>4, <1>5, <1>7, <1>8 DEF Turn

-----------------------------------------------------------------------------

\* The steps of the iterator leave the buffer alone, and every step of the
\* buffer is one of its own specification's.
LEMMA ItNextSound ==
  ASSUME Sound, [ItNext]_allvars
  PROVE  Sound'
<1>1. CASE Create
  BY <1>1, CreateSound DEF Create
<1>2. CASE Write
  <2>1. PICK r \in roots, v \in Values :
          \/ r \in RootsOf("Array") /\ AppendBegin(r, v)
          \/ r \in RootsOf("Object") /\ \E k \in Keys : SetBegin(r, k, v)
    BY <1>2 DEF Write
  <2> QED
    BY <2>1, BeginSound DEF Types
<1>3. CASE TurnUnderIterator
  BY <1>3, NextSound DEF TurnUnderIterator, Next
<1>4. CASE UNCHANGED vars
  BY <1>4, StutterSound
<1> QED
  BY <1>1, <1>2, <1>3, <1>4
     DEF ItNext, BeginWalk, Increment, allvars

LEMMA CountingInit == ItInit => CountSound
BY InitSound, HeightAssumption DEF ItInit, CountSound, Counting

LEMMA CountingNext ==
  ASSUME MaxCalls < GenMod, CountSound, [ItNext]_allvars
  PROVE  CountSound'
<1>1. Sound /\ Sound' /\ Counting /\ calls \in 0 .. MaxCalls
  BY ItNextSound DEF CountSound, Counting
<1>2. used \in Nat /\ DOMAIN node = Nodes
      /\ \A n \in Nodes : node[n].gen \in 0 .. GenMod - 1
  BY <1>1, SoundNodes DEF WellFormed, Node
<1> USE HeightAssumption, WidthAssumption
<1>3. CASE Create
  <2>1. PICK type \in Types : InitStructure(type)
    BY <1>3 DEF Create
  <2>2. /\ pc' = pc /\ node_ofs' = node_ofs /\ used' = used + 1
        /\ live' = live /\ it_gen' = it_gen /\ split' = split
        /\ wrote' = wrote /\ calls' = calls
    BY <1>3, <2>1 DEF Create, InitStructure, itvars
  <2>3. 0 \in Nodes => node'[0] = node[0]
    BY <2>1, <1>2 DEF InitStructure, Nodes
  <2>4. 0 \in Nodes => 0 \in Nodes'
    BY <2>2, <1>2 DEF Nodes
  <2> QED
    BY <1>1, <2>2, <2>3, <2>4
       DEF CountSound, Counting, BumpedSince, AboutToBump
<1>4. CASE Write
  <2>1. PICK r \in roots, v \in Values :
          /\ AppendBegin(r, v) \/ \E k \in Keys : SetBegin(r, k, v)
          /\ wrote' = wrote \cup {r}
    BY <1>4 DEF Write
  <2>2. /\ pc = "idle" /\ pc' = "loop" /\ node_ofs' = r
        /\ node' = node /\ used' = used
    BY <2>1 DEF AppendBegin, SetBegin, Start
  <2>3. /\ calls' = calls + 1 /\ calls < MaxCalls
        /\ live' = live /\ it_gen' = it_gen /\ split' = split
    BY <1>4 DEF Write
  <2>4. Nodes' = Nodes
    BY <2>2 DEF Nodes
  <2>5. ASSUME NEW c \in 0 .. calls, BumpedSince(c)
        PROVE  c \in 0 .. calls' /\ BumpedSince(c)'
    BY <1>1, <2>1, <2>2, <2>3, <2>5 DEF BumpedSince, AboutToBump
  <2> QED
    BY <1>1, <2>3, <2>4, <2>5 DEF CountSound, Counting
<1>5. CASE TurnUnderIterator
  <2>1. /\ Turn /\ calls' = calls /\ live' = live /\ it_gen' = it_gen
        /\ wrote' = wrote /\ split' = (split \/ (node_ofs = 0 /\ Full(0)))
    BY <1>5 DEF TurnUnderIterator
  <2>2. live => 0 \in Nodes'
    <3> SUFFICES ASSUME live
                 PROVE  0 \in Nodes'
      OBVIOUS
    <3>1. 0 \in Nodes
      BY <1>1, <2>1 DEF Counting
    <3>2. used' >= used /\ used' \in Nat
      <4>1. used' >= used
        BY <1>1, <2>1, <3>1, TurnBumps
      <4>2. used' \in Nat
        BY <1>1 DEF Sound, TypeOK
      <4> QED
        BY <4>1, <4>2
    <3>3. used \in Nat /\ used >= 1
      BY <1>2, <3>1 DEF Nodes
    <3>4. used' >= 1
      BY <3>2, <3>3
    <3> QED
      BY <3>2, <3>4, FirstNode DEF Nodes
  <2>3. ASSUME live, ~split'
        PROVE  \E c \in 0 .. calls : BumpedSince(c)'
    <3>1. 0 \in Nodes /\ it_gen \in 0 .. GenMod - 1 /\ ~split
      BY <1>1, <2>1, <2>3 DEF Counting
    <3>2. PICK c \in 0 .. calls : BumpedSince(c)
      BY <1>1, <2>3, <3>1 DEF Counting
    <3>3. /\ pc = "loop" /\ ~(node_ofs = 0 /\ Full(0)) /\ ~AboutToBump'
          /\ node_ofs = 0 => node'[0].gen = (node[0].gen + 1) % GenMod
          /\ node_ofs # 0 => node'[0].gen = node[0].gen
      BY <1>1, <2>1, <2>3, <3>1, TurnBumps
    <3>4. CASE node_ofs = 0
      <4>1. c + 1 \in 0 .. calls /\ c + 1 < GenMod
        BY <1>1, <3>2, <3>3, <3>4 DEF BumpedSince, AboutToBump
      <4>2. node[0].gen \in 0 .. GenMod - 1
        BY <1>2, <3>1
      <4>3. \/ node'[0].gen = it_gen + (c + 1)
            \/ node'[0].gen = it_gen + (c + 1) - GenMod
        <5>1. \/ node'[0].gen = node[0].gen + 1
              \/ node'[0].gen = 0 /\ node[0].gen + 1 = GenMod
          BY <3>3, <3>4, <4>2, NextGen
        <5>2. \/ node[0].gen = it_gen + c
              \/ node[0].gen = it_gen + c - GenMod
          BY <3>2 DEF BumpedSince
        <5> QED
          BY <5>1, <5>2, <4>1, <4>2, <3>1
      <4>4. BumpedSince(c + 1)'
        BY <2>1, <3>3, <4>1, <4>3 DEF BumpedSince
      <4> QED
        BY <4>1, <4>4
    <3>5. CASE node_ofs # 0
      <4>1. ~AboutToBump
        BY <3>5 DEF AboutToBump
      <4>2. BumpedSince(c)'
        BY <2>1, <3>2, <3>3, <3>5, <4>1 DEF BumpedSince
      <4> QED
        BY <4>2
    <3> QED
      BY <3>4, <3>5
  <2> QED
    BY <1>1, <2>1, <2>2, <2>3 DEF CountSound, Counting
<1>6. ASSUME NEW r \in RootsOf("Object"), BeginWalk(r)
      PROVE  CountSound'
  <2>1. /\ UNCHANGED <<vars, calls>> /\ pc = "idle" /\ it_gen' = node[0].gen
        /\ split' = FALSE /\ wrote' = {}
    BY <1>6 DEF BeginWalk
  <2>2. 0 \in Nodes /\ Nodes' = Nodes
    <3>1. r \in Nodes
      BY <1>1 DEF RootsOf, Sound, TypeOK
    <3> QED
      BY <2>1, <3>1, <1>2 DEF Nodes, vars
  <2>3. it_gen' \in 0 .. GenMod - 1
    BY <1>2, <2>1, <2>2
  <2>4. BumpedSince(0)'
    BY <2>1, <2>3 DEF BumpedSince, AboutToBump, vars
  <2> QED
    BY <1>1, <2>1, <2>2, <2>3, <2>4 DEF CountSound, Counting
<1>7. CASE Increment
  <2>1. /\ UNCHANGED <<vars, it_gen, split, wrote, calls>> /\ live
    BY <1>7 DEF Increment
  <2> QED
    BY <1>1, <2>1 DEF CountSound, Counting, BumpedSince, AboutToBump, vars, Nodes
<1>8. CASE UNCHANGED allvars
  BY <1>1, <1>8
     DEF CountSound, Counting, BumpedSince, AboutToBump, allvars, itvars, vars, Nodes
<1> QED
  BY <1>3, <1>4, <1>5, <1>6, <1>7, <1>8 DEF ItNext

\* Up to as many calls as there are generations, 2^24 in the code, no write to
\* the structure at offset 0 goes unnoticed by an iterator unless its root was
\* split since: Iterator::operator* throws.
THEOREM NoticedAlways ==
  ASSUME MaxCalls < GenMod
  PROVE  ItSpec => []WritesNoticed
<1>1. CountSound => WritesNoticed
  <2> SUFFICES ASSUME CountSound, Readable, 0 \in wrote, ~split
               PROVE  FALSE
    BY DEF WritesNoticed
  <2>1. /\ pc = "idle" /\ node[0].gen = it_gen /\ it_gen \in 0 .. GenMod - 1
        /\ calls \in 0 .. MaxCalls
    BY DEF Readable, CountSound, Counting
  <2>2. PICK c \in 0 .. calls : BumpedSince(c)
    BY DEF Readable, CountSound, Counting
  <2>3. c >= 1 /\ c < GenMod
    BY <2>1, <2>2, HeightAssumption, WidthAssumption DEF BumpedSince, AboutToBump
  <2> QED
    BY <2>1, <2>2, <2>3, WidthAssumption DEF BumpedSince
<1>2. ItInit => CountSound
  BY CountingInit
<1>3. CountSound /\ [ItNext]_allvars => CountSound'
  BY CountingNext
<1> QED
  BY <1>1, <1>2, <1>3, PTL DEF ItSpec

-----------------------------------------------------------------------------
(***************************************************************************)
(* What an iteration meets below a node                                    *)
(***************************************************************************)

\* a stands in es after the first k entries.
Sits(a, es, k) ==
  /\ a \in Seq(Entry) /\ k \in Nat /\ k + Len(a) <= Len(es)
  /\ \A p \in 1 .. Len(a) : es[k + p] = a[p]

ChildOrder(n, s) == IF IsLeaf(n) THEN <<>> ELSE InOrder(node[n].child[s])

\* q[s] of the entries below n come up to the end of its child s.
CutAt(n, q) ==
  /\ q \in [Live(n) -> Nat]
  /\ q[0] = Len(ChildOrder(n, 0)) /\ q[Len(node[n].keys)] = Len(InOrder(n))
  /\ Sits(ChildOrder(n, 0), InOrder(n), 0)
  /\ \A i \in 1 .. Len(node[n].keys) :
       /\ q[i] = q[i - 1] + 1 + Len(ChildOrder(n, i))
       /\ InOrder(n)[q[i - 1] + 1] = node[n].keys[i]
       /\ Sits(ChildOrder(n, i), InOrder(n), q[i - 1] + 1)

LEMMA SitsWithin ==
  ASSUME NEW a, NEW b, NEW c, NEW i, NEW j, Sits(a, b, i), Sits(b, c, j)
  PROVE  Sits(a, c, j + i)
<1>1. /\ Len(a) \in Nat /\ Len(b) \in Nat /\ i \in Nat /\ j \in Nat
      /\ i + Len(a) <= Len(b) /\ j + Len(b) <= Len(c)
      /\ \A p \in 1 .. Len(a) : b[i + p] = a[p]
      /\ \A p \in 1 .. Len(b) : c[j + p] = b[p]
  BY LenProperties DEF Sits
<1>2. \A p \in 1 .. Len(a) : c[(j + i) + p] = a[p]
  <2> TAKE p \in 1 .. Len(a)
  <2>1. i + p \in 1 .. Len(b) /\ j + (i + p) = (j + i) + p
    BY <1>1
  <2> QED
    BY <2>1, <1>1
<1> QED
  BY <1>1, <1>2 DEF Sits

\* What is left of an entry, the entry and what is right of it.
LEMMA SitsJoined ==
  ASSUME NEW a \in Seq(Entry), NEW e \in Entry, NEW c \in Seq(Entry)
  PROVE  LET z == a \o <<e>> \o c
         IN  /\ z \in Seq(Entry) /\ Len(z) = Len(a) + 1 + Len(c)
             /\ Sits(a, z, 0) /\ z[Len(a) + 1] = e /\ Sits(c, z, Len(a) + 1)
<1>1. PICK z, E : z = a \o <<e>> \o c /\ E = Entry
  OBVIOUS
<1>2. /\ z \in Seq(E) /\ Len(a) \in Nat /\ Len(c) \in Nat
      /\ Len(z) = Len(a) + 1 + Len(c)
      /\ \A j \in 1 .. Len(a) + 1 + Len(c) :
           z[j] = IF j <= Len(a) THEN a[j]
                  ELSE IF j = Len(a) + 1 THEN e ELSE c[j - (Len(a) + 1)]
  BY <1>1, Joined
<1>3. \A p \in 1 .. Len(a) : z[0 + p] = a[p]
  BY <1>2
<1>4. z[Len(a) + 1] = e
  BY <1>2
<1>5. \A p \in 1 .. Len(c) : z[(Len(a) + 1) + p] = c[p]
  <2> TAKE p \in 1 .. Len(c)
  <2>1. PICK k, j : k = Len(a) /\ j = (k + 1) + p
    OBVIOUS
  <2>2. /\ j \in 1 .. k + 1 + Len(c) /\ ~(j <= k) /\ j # k + 1
        /\ j - (k + 1) = p
    BY <2>1, <1>2
  <2> QED
    BY <2>1, <2>2, <1>2
<1> QED
  BY <1>1, <1>2, <1>3, <1>4, <1>5 DEF Sits

LEMMA CutExists ==
  ASSUME AllBelow, Shapely, NEW lev, NEW home, NEW H, Ranking(lev, home, H),
         NEW n \in Nodes
  PROVE  /\ \E q : CutAt(n, q)
         /\ InOrder(n) \in Seq(Entry)
<1>1. PICK b \in [Nodes -> Seq(Entry)] :
        /\ \A m : InOrder(m) = b[m]
        /\ \A m \in Nodes : b[m] = Woven(node[m].keys, Tween(b, m))
  BY DEF AllBelow, Ranking
<1>2. PICK ks, c, L : ks = node[n].keys /\ c = Tween(b, n) /\ L = Len(ks)
  OBVIOUS
<1>3. ks \in Seq(Entry) /\ L \in Nat /\ \A j \in 1 .. L : ks[j] \in Entry
  <2>1. ks \in Seq(Entry) /\ L \in Nat
    BY <1>2, SoundNodes DEF Shapely, WellFormed, Node
  <2> QED
    BY <2>1, <1>2, ElementOfSeq
<1>4. Live(n) = 0 .. L
  BY <1>2 DEF Live
<1>5. \A s \in 0 .. L : c[s] = ChildOrder(n, s) /\ c[s] \in Seq(Entry)
  <2> TAKE s \in 0 .. L
  <2>1. c[s] = IF IsLeaf(n) THEN <<>> ELSE b[node[n].child[s]]
    BY <1>2, <1>4 DEF Tween
  <2>2. ~IsLeaf(n) => node[n].child[s] \in Nodes
    BY <1>4, LinkEnds
  <2> QED
    BY <2>1, <2>2, <1>1 DEF ChildOrder
<1>6. c \in [0 .. L -> Seq(Entry)]
  <2>1. c = [s \in 0 .. L |-> c[s]]
    BY <1>2, <1>4 DEF Tween
  <2> QED
    BY <2>1, <1>5
<1>7. PICK u \in [0 .. L -> Seq(Entry)] :
        /\ Woven(ks, c) = u[L]
        /\ u[0] = c[0]
        /\ \A i \in 1 .. L : u[i] = u[i - 1] \o <<ks[i]>> \o c[i]
  <2>1. PICK v : Prefixes(v, ks, c)
    BY <1>2, <1>3, <1>6, WovenPrefixes
  <2> QED
    BY <2>1, <1>2 DEF Prefixes
<1>8. PICK es : es = InOrder(n)
  OBVIOUS
<1>9. u[L] = es /\ es \in Seq(Entry) /\ Len(es) \in Nat
  BY <1>1, <1>2, <1>7, <1>8, LenProperties
<1>10. ASSUME NEW i \in 1 .. L
       PROVE  /\ i \in 0 .. L /\ i - 1 \in 0 .. L
              /\ Len(u[i]) = Len(u[i - 1]) + 1 + Len(c[i])
              /\ Sits(u[i - 1], u[i], 0) /\ u[i][Len(u[i - 1]) + 1] = ks[i]
              /\ Sits(c[i], u[i], Len(u[i - 1]) + 1)
  <2>1. i \in 0 .. L /\ i - 1 \in 0 .. L
    BY <1>3
  <2>2. u[i - 1] \in Seq(Entry) /\ c[i] \in Seq(Entry) /\ ks[i] \in Entry
    BY <2>1, <1>3, <1>6
  <2>3. PICK x, e, y, z : x = u[i - 1] /\ e = ks[i] /\ y = c[i] /\ z = x \o <<e>> \o y
    OBVIOUS
  <2>4. u[i] = z
    BY <2>3, <1>7
  <2>5. /\ z \in Seq(Entry) /\ Len(z) = Len(x) + 1 + Len(y)
        /\ Sits(x, z, 0) /\ z[Len(x) + 1] = e /\ Sits(y, z, Len(x) + 1)
    BY <2>2, <2>3, SitsJoined
  <2> QED
    BY <2>1, <2>3, <2>4, <2>5
<1> DEFINE Off == {k \in 0 .. L : ~Sits(u[L - k], es, 0)}
<1>11. Off = {}
  <2>1. SUFFICES ASSUME Off # {}
                 PROVE  FALSE
    OBVIOUS
  <2>2. Off \subseteq Nat
    OBVIOUS
  <2>3. PICK k \in Off : \A j \in Off : k <= j
    BY <2>1, <2>2, LeastNatural
  <2>4. PICK i : i = L - k
    OBVIOUS
  <2>5. i \in 0 .. L /\ ~Sits(u[i], es, 0) /\ k \in 0 .. L
    BY <2>3, <2>4, <1>3
  <2>6. i # L
    <3>1. Sits(es, es, 0)
      BY <1>9 DEF Sits
    <3> QED
      BY <3>1, <2>5, <1>9
  <2>7. i + 1 \in 1 .. L /\ (i + 1) - 1 = i /\ k - 1 \in 0 .. L /\ ~(k <= k - 1)
        /\ L - (k - 1) = i + 1
    BY <2>4, <2>5, <2>6, <1>3
  <2>8. Sits(u[i + 1], es, 0)
    <3>1. k - 1 \notin Off
      <4> HIDE DEF Off
      <4> QED
        BY <2>3, <2>7
    <3> QED
      BY <3>1, <2>7
  <2>9. Sits(u[i], u[i + 1], 0)
    BY <2>7, <1>10
  <2>10. Sits(u[i], es, 0 + 0)
    BY <2>8, <2>9, SitsWithin
  <2> QED
    BY <2>5, <2>10
<1>12. \A i \in 0 .. L : Sits(u[i], es, 0)
  <2> TAKE i \in 0 .. L
  <2>1. L - i \in 0 .. L /\ L - (L - i) = i
    BY <1>3
  <2> QED
    BY <2>1, <1>11
<1>13. PICK q : q = [s \in 0 .. L |-> Len(u[s])]
  OBVIOUS
<1>14. /\ q \in [0 .. L -> Nat] /\ \A s \in 0 .. L : q[s] = Len(u[s])
  <2>1. \A s \in 0 .. L : Len(u[s]) \in Nat
    BY LenProperties
  <2> QED
    BY <2>1, <1>13
<1>15. 0 \in 0 .. L /\ L \in 0 .. L
  BY <1>3
<1>16. ASSUME NEW i \in 1 .. L
       PROVE  /\ q[i] = q[i - 1] + 1 + Len(ChildOrder(n, i))
              /\ es[q[i - 1] + 1] = ks[i]
              /\ Sits(ChildOrder(n, i), es, q[i - 1] + 1)
  <2>1. PICK k : k = Len(u[i - 1])
    OBVIOUS
  <2>2. /\ q[i - 1] = k /\ k \in Nat /\ q[i] = k + 1 + Len(c[i])
        /\ u[i][k + 1] = ks[i] /\ Sits(c[i], u[i], k + 1)
        /\ c[i] = ChildOrder(n, i) /\ Len(u[i]) = k + 1 + Len(c[i])
    <3>1. /\ i \in 0 .. L /\ i - 1 \in 0 .. L
          /\ Len(u[i]) = k + 1 + Len(c[i])
          /\ u[i][k + 1] = ks[i] /\ Sits(c[i], u[i], k + 1)
      BY <2>1, <1>10
    <3>2. q[i - 1] = k /\ q[i] = Len(u[i]) /\ k \in Nat
      BY <3>1, <2>1, <1>14
    <3>3. c[i] = ChildOrder(n, i)
      BY <3>1, <1>5
    <3> QED
      BY <3>1, <3>2, <3>3
  <2>3. Sits(u[i], es, 0)
    BY <1>10, <1>12
  <2>4. Sits(c[i], es, 0 + (k + 1))
    BY <2>2, <2>3, SitsWithin
  <2>5. es[k + 1] = u[i][k + 1]
    <3>1. Len(c[i]) \in Nat
      BY <1>5, <1>10, LenProperties
    <3>2. k + 1 \in 1 .. Len(u[i]) /\ 0 + (k + 1) = k + 1
      BY <3>1, <2>2
    <3> QED
      BY <3>2, <2>3 DEF Sits
  <2>6. 0 + (k + 1) = k + 1
    BY <2>2
  <2> QED
    BY <2>2, <2>4, <2>5, <2>6
<1>17. CutAt(n, q)
  <2>1. q[0] = Len(ChildOrder(n, 0)) /\ q[L] = Len(es)
        /\ Sits(ChildOrder(n, 0), es, 0)
    BY <1>5, <1>7, <1>9, <1>12, <1>14, <1>15
  <2> QED
    BY <2>1, <1>2, <1>4, <1>8, <1>14, <1>16 DEF CutAt
<1> QED
  BY <1>8, <1>9, <1>17

-----------------------------------------------------------------------------
(***************************************************************************)
(* The stack                                                               *)
(***************************************************************************)

\* w is a walk from node m down first children, of room + 1 frames at most, and
\* down to a leaf if these are enough.
Spine(lev, home, room, m, w) ==
  /\ w \in Seq([ofs : Nodes, idx : {0}])
  /\ Len(w) \in 1 .. room + 1
  /\ w[1].ofs = m
  /\ \A j \in 1 .. Len(w) : home[w[j].ofs] = home[m]
  /\ lev[m] <= room =>
       /\ Len(w) = lev[m] + 1
       /\ \A j \in 1 .. Len(w) : lev[w[j].ofs] = lev[m] - (j - 1)
       /\ \A j \in 1 .. Len(w) - 1 :
            /\ w[j + 1].ofs = node[w[j].ofs].child[0]
            /\ ~IsLeaf(w[j].ofs)

\* The frame of node m before those below it.
LEMMA SpineGrows ==
  ASSUME Shapely, NEW lev, NEW home, NEW H, Ranking(lev, home, H),
         NEW m \in Nodes, NEW room \in Nat, NEW w,
         node[m].child[0] # 0, Spine(lev, home, room, node[m].child[0], w)
  PROVE  Spine(lev, home, room + 1, m, <<Frame(m, 0)>> \o w)
<1>1. PICK c, f, F : c = node[m].child[0] /\ f = Frame(m, 0)
                     /\ F = [ofs : Nodes, idx : {0}]
  OBVIOUS
<1>2. 0 \in Live(m)
  BY SoundNodes DEF Live, Shapely
<1>3. /\ c \in Nodes /\ ~IsLeaf(m) /\ lev[m] = lev[c] + 1 /\ lev[c] \in Nat
      /\ home[c] = home[m]
  BY <1>1, <1>2, LinkEnds DEF Ranking, Levels, Trees
<1>4. f \in F /\ f.ofs = m
  BY <1>1 DEF Frame
<1>5. /\ w \in Seq(F) /\ Len(w) \in 1 .. room + 1 /\ w[1].ofs = c
      /\ \A j \in 1 .. Len(w) : home[w[j].ofs] = home[m]
  BY <1>1, <1>3 DEF Spine
<1>6. PICK z : z = <<f>> \o w
  OBVIOUS
<1>7. /\ z \in Seq(F) /\ Len(z) = Len(w) + 1 /\ z[1] = f
      /\ \A j \in 2 .. Len(w) + 1 : z[j] = w[j - 1]
  <2>1. <<f>> \in Seq(F) /\ Len(<<f>>) = 1 /\ <<f>>[1] = f
    BY <1>4
  <2>2. /\ z \in Seq(F) /\ Len(z) = 1 + Len(w)
        /\ \A j \in 1 .. 1 + Len(w) :
             z[j] = IF j <= 1 THEN <<f>>[j] ELSE w[j - 1]
    BY <2>1, <1>5, <1>6, ConcatProperties
  <2>3. Len(w) \in Nat
    BY <1>5
  <2> QED
    BY <2>1, <2>2, <2>3
<1>8. \A j \in 1 .. Len(z) : home[z[j].ofs] = home[m]
  <2> TAKE j \in 1 .. Len(z)
  <2>1. CASE j = 1
    BY <2>1, <1>4, <1>7
  <2>2. CASE j # 1
    <3>1. j \in 2 .. Len(w) + 1 /\ j - 1 \in 1 .. Len(w)
      BY <2>2, <1>5, <1>7
    <3> QED
      BY <3>1, <1>5, <1>7
  <2> QED
    BY <2>1, <2>2
<1>9. ASSUME lev[m] <= room + 1
      PROVE  /\ Len(z) = lev[m] + 1
             /\ \A j \in 1 .. Len(z) : lev[z[j].ofs] = lev[m] - (j - 1)
             /\ \A j \in 1 .. Len(z) - 1 :
                  /\ z[j + 1].ofs = node[z[j].ofs].child[0]
                  /\ ~IsLeaf(z[j].ofs)
  <2>1. /\ Len(w) = lev[c] + 1
        /\ \A j \in 1 .. Len(w) : lev[w[j].ofs] = lev[c] - (j - 1)
        /\ \A j \in 1 .. Len(w) - 1 :
             /\ w[j + 1].ofs = node[w[j].ofs].child[0]
             /\ ~IsLeaf(w[j].ofs)
    BY <1>1, <1>3, <1>9 DEF Spine
  <2>2. ASSUME NEW j \in 1 .. Len(z)
        PROVE  lev[z[j].ofs] = lev[m] - (j - 1)
    <3>1. CASE j = 1
      BY <3>1, <1>3, <1>4, <1>7
    <3>2. CASE j # 1
      <4>1. PICK x, i : x = lev[c] /\ i = j - 1
        OBVIOUS
      <4>2. i \in 1 .. Len(w) /\ z[j] = w[i]
        BY <4>1, <3>2, <1>5, <1>7
      <4>3. lev[z[j].ofs] = x - (i - 1)
        BY <4>1, <4>2, <2>1
      <4>4. x \in Nat /\ i \in Nat /\ j \in Nat /\ lev[m] = x + 1
        BY <4>1, <4>2, <1>3, <1>5, <1>7
      <4>5. x - (i - 1) = lev[m] - (j - 1)
        BY <4>1, <4>4
      <4> QED
        BY <4>3, <4>5, Zenon
    <3> QED
      BY <3>1, <3>2
  <2>3. ASSUME NEW j \in 1 .. Len(z) - 1
        PROVE  z[j + 1].ofs = node[z[j].ofs].child[0] /\ ~IsLeaf(z[j].ofs)
    <3>1. j + 1 \in 2 .. Len(w) + 1 /\ (j + 1) - 1 = j /\ z[j + 1] = w[j]
      BY <1>5, <1>7
    <3>2. CASE j = 1
      BY <3>1, <3>2, <1>1, <1>3, <1>4, <1>5, <1>7
    <3>3. CASE j # 1
      <4>1. j \in 2 .. Len(w) + 1 /\ j - 1 \in 1 .. Len(w) - 1 /\ (j - 1) + 1 = j
        BY <3>3, <1>5, <1>7
      <4>2. z[j] = w[j - 1]
        BY <4>1, <1>7
      <4> QED
        BY <3>1, <4>1, <4>2, <2>1
    <3> QED
      BY <3>2, <3>3
  <2> QED
    BY <2>1, <2>2, <2>3, <1>3, <1>7
<1>10. Len(z) \in 1 .. (room + 1) + 1
  BY <1>5, <1>7
<1> QED
  BY <1>1, <1>4, <1>6, <1>7, <1>8, <1>9, <1>10 DEF Spine

\* The last frame of such a walk.
LEMMA SpineEnds ==
  ASSUME Shapely, NEW lev, NEW home, NEW H, Ranking(lev, home, H),
         NEW m \in Nodes, NEW room \in Nat, node[m].child[0] = 0 \/ room = 0
  PROVE  Spine(lev, home, room, m, <<Frame(m, 0)>>)
<1>1. PICK f, F : f = Frame(m, 0) /\ F = [ofs : Nodes, idx : {0}]
  OBVIOUS
<1>2. f \in F /\ f.ofs = m
  BY <1>1 DEF Frame
<1>3. PICK w : w = <<f>>
  OBVIOUS
<1>4. w \in Seq(F) /\ Len(w) = 1 /\ w[1] = f
  BY <1>2, <1>3
<1>5. lev[m] \in Nat /\ (lev[m] <= room => lev[m] = 0)
  <2>1. lev[m] \in Nat /\ 0 \in Live(m)
    BY SoundNodes DEF Live, Shapely, Ranking, Levels
  <2>2. CASE node[m].child[0] = 0
    <3>1. IsLeaf(m)
      BY <2>1, <2>2, LinkEnds
    <3> QED
      BY <3>1, <2>1 DEF Ranking, Levels
  <2>3. CASE room = 0
    BY <2>1, <2>3
  <2> QED
    BY <2>1, <2>2, <2>3
<1> QED
  BY <1>1, <1>2, <1>3, <1>4, <1>5 DEF Spine

\* What find_first pushes, from node n at stack index d.
LEMMA LeftmostSpine ==
  ASSUME Shapely, NEW lev, NEW home, NEW H, Ranking(lev, home, H),
         NEW n \in Nodes, NEW d \in 0 .. HeightMax
  PROVE  Spine(lev, home, HeightMax - d, n, Leftmost(n, d))
<1> DEFINE S == 0 .. HeightMax
           F == [ofs : Nodes, idx : {0}]
           V == [Nodes -> Seq(F)]
           Step(m, room, v) ==
             IF node[m].child[0] = 0 \/ room = 0 THEN <<Frame(m, 0)>>
             ELSE <<Frame(m, 0)>> \o v[node[m].child[0]]
           Eq(f) == f = [room \in S |-> [m \in Nodes |->
                           LET c == node[m].child[0]
                           IN  IF c = 0 \/ room = 0 THEN <<Frame(m, 0)>>
                               ELSE <<Frame(m, 0)>> \o f[room - 1][c]]]
           G == [f \in [S -> V] |->
                   [room \in S |-> [m \in Nodes |-> Step(m, room, f[room - 1])]]]
           rank == [room \in S |-> room]
<1>1. ASSUME NEW m \in Nodes
      PROVE  Frame(m, 0) \in F /\ (node[m].child[0] # 0 => node[m].child[0] \in Nodes)
  <2>1. 0 \in Live(m)
    BY SoundNodes DEF Live, Shapely
  <2> QED
    BY <2>1, LinkEnds DEF Frame
<1>2. HeightMax \in Nat /\ \A room \in S : room # 0 => room - 1 \in S /\ room - 1 < room
  BY HeightAssumption
<1>3. ASSUME NEW room \in S, NEW m \in Nodes, NEW v, room # 0 => v \in V
      PROVE  Step(m, room, v) \in Seq(F)
  <2>1. PICK f, E : f = Frame(m, 0) /\ E = F
    OBVIOUS
  <2>2. f \in E
    BY <2>1, <1>1
  <2>3. <<f>> \in Seq(E)
    BY <2>2
  <2>4. CASE node[m].child[0] = 0 \/ room = 0
    BY <2>1, <2>3, <2>4
  <2>5. CASE ~(node[m].child[0] = 0 \/ room = 0)
    <3>1. PICK x : x = v[node[m].child[0]]
      OBVIOUS
    <3>2. x \in Seq(E)
      BY <3>1, <2>1, <2>5, <1>1, <1>3
    <3>3. <<f>> \o x \in Seq(E)
      BY <3>2, <2>3, ConcatProperties
    <3> QED
      BY <3>1, <3>3, <2>1, <2>5
  <2> QED
    BY <2>4, <2>5
<1>4. ByRank(S, V, rank, HeightMax, G)
  <2>1. rank \in [S -> Nat] /\ \A s \in S : rank[s] <= HeightMax
    BY <1>2
  <2>2. G \in [[S -> V] -> [S -> V]]
    <3>1. ASSUME NEW f \in [S -> V], NEW room \in S, NEW m \in Nodes
          PROVE  Step(m, room, f[room - 1]) \in Seq(F)
      <4>1. room # 0 => f[room - 1] \in V
        BY <1>2
      <4> HIDE DEF Step, V, F
      <4> QED
        BY <4>1, <1>3
    <3> HIDE DEF Step, F
    <3> QED
      BY <3>1
  <2>3. ASSUME NEW f \in [S -> V], NEW g \in [S -> V], NEW s \in S,
               \A t \in S : rank[t] < rank[s] => f[t] = g[t]
        PROVE  G[f][s] = G[g][s]
    <3>1. s # 0 => f[s - 1] = g[s - 1]
      BY <2>3, <1>2
    <3>2. \A m \in Nodes : Step(m, s, f[s - 1]) = Step(m, s, g[s - 1])
      BY <3>1
    <3> HIDE DEF Step, V
    <3> QED
      BY <3>2
  <2> HIDE DEF V, G, rank, S
  <2> QED
    BY <2>1, <2>2, <2>3, <1>2 DEF ByRank
<1>5. \E f \in [S -> V] : Eq(f)
  <2>1. [m \in Nodes |-> <<>>] \in V
    OBVIOUS
  <2>2. PICK f \in [S -> V] : G[f] = f
    <3> HIDE DEF V, G, S, rank
    <3> QED
      BY <1>4, <2>1, FixedPoint
  <2>3. f = [room \in S |-> [m \in Nodes |-> Step(m, room, f[room - 1])]]
    <3> HIDE DEF V, S, Step
    <3> QED
      BY <2>2
  <2> HIDE DEF V, S
  <2> QED
    BY <2>3
<1>6. Leftmost(n, d) = (CHOOSE f : Eq(f))[HeightMax - d][n]
  BY DEF Leftmost
<1>7. PICK f : f = (CHOOSE g : Eq(g))
  OBVIOUS
<1>8. Eq(f)
  <2> HIDE DEF Eq
  <2> QED
    BY <1>5, <1>7
<1>9. \A room \in S, m \in Nodes : f[room][m] = Step(m, room, f[room - 1])
  <2> TAKE room \in S, m \in Nodes
  <2>1. f[room] = [x \in Nodes |-> Step(x, room, f[room - 1])]
    <3>1. f = [k \in S |-> [x \in Nodes |-> Step(x, k, f[k - 1])]]
      BY <1>8
    <3> HIDE DEF S, Step
    <3> QED
      BY <3>1
  <2> HIDE DEF Step
  <2> QED
    BY <2>1
<1> HIDE DEF Eq, G, rank
<1> DEFINE Fits(room) == \A m \in Nodes : Spine(lev, home, room, m, f[room][m])
           Wrong == {room \in S : ~Fits(room)}
<1>10. Wrong = {}
  <2>1. SUFFICES ASSUME Wrong # {}
                 PROVE  FALSE
    OBVIOUS
  <2>2. Wrong \subseteq Nat
    BY <1>2
  <2>3. PICK room \in Wrong : \A k \in Wrong : room <= k
    BY <2>1, <2>2, LeastNatural
  <2>4. PICK m \in Nodes : ~Spine(lev, home, room, m, f[room][m])
    BY <2>3
  <2>5. room \in S /\ room \in Nat
    BY <2>2, <2>3
  <2>6. CASE node[m].child[0] = 0 \/ room = 0
    <3>1. f[room][m] = <<Frame(m, 0)>>
      BY <2>5, <2>6, <1>9
    <3>2. Spine(lev, home, room, m, <<Frame(m, 0)>>)
      BY <2>5, <2>6, SpineEnds
    <3> QED
      BY <3>1, <3>2, <2>4
  <2>7. CASE node[m].child[0] # 0 /\ room # 0
    <3>1. PICK k, w : k = room - 1 /\ w = f[k][node[m].child[0]]
      OBVIOUS
    <3>2. k \in S /\ k \in Nat /\ ~(room <= k) /\ k + 1 = room
      BY <3>1, <2>5, <2>7, <1>2
    <3>3. Fits(k)
      <4> HIDE DEF Fits, S
      <4> QED
        BY <3>2, <2>3
    <3>4. Spine(lev, home, k, node[m].child[0], w)
      BY <3>1, <3>3, <2>7, <1>1
    <3>5. Spine(lev, home, k + 1, m, <<Frame(m, 0)>> \o w)
      BY <3>2, <3>4, <2>7, SpineGrows
    <3>6. f[room][m] = <<Frame(m, 0)>> \o w
      BY <3>1, <2>5, <2>7, <1>9
    <3> QED
      BY <3>2, <3>5, <3>6, <2>4
  <2> QED
    BY <2>6, <2>7
<1>11. HeightMax - d \in S
  BY <1>2
<1>12. Fits(HeightMax - d)
  <2> HIDE DEF Fits, S
  <2> QED
    BY <1>10, <1>11
<1> QED
  BY <1>6, <1>7, <1>12

-----------------------------------------------------------------------------
(***************************************************************************)
(* Where the iterator stands                                               *)
(***************************************************************************)

AnyFrame == [ofs : Nat, idx : Nat]

\* How many entries frame j leaves behind, when its node starts after at[j].
Passed(st, at, cut, j) == at[j] + cut[j][st[j].idx]

\* The frames of st are those of a walk from r down to a leaf; each but the last
\* has entered the child at its index, whose entries end where it goes on.
Placed(lev, home, r, st, at, cut) ==
  /\ st \in Seq(AnyFrame) /\ Len(st) = lev[r] + 1 /\ lev[r] \in Nat
  /\ at \in [1 .. Len(st) -> Nat]
  /\ st[1].ofs = r /\ at[1] = 0
  /\ \A j \in 1 .. Len(st) :
       /\ st[j].ofs \in Nodes /\ home[st[j].ofs] = r
       /\ lev[st[j].ofs] = lev[r] - (j - 1)
       /\ st[j].idx \in Live(st[j].ofs)
       /\ CutAt(st[j].ofs, cut[j])
       /\ Sits(InOrder(st[j].ofs), InOrder(r), at[j])
  /\ \A j \in 1 .. Len(st) - 1 :
       Passed(st, at, cut, j) = at[j + 1] + Len(InOrder(st[j + 1].ofs))

\* The stack leaves the first k entries of r behind.
Path(lev, home, r, st, k) ==
  \E at, cut : /\ Placed(lev, home, r, st, at, cut)
               /\ k = Passed(st, at, cut, Len(st))

\* A walk down first children in a part of es that starts after the first a.
LEMMA SpineStands ==
  ASSUME AllBelow, Shapely, NEW lev, NEW home, NEW H, Ranking(lev, home, H),
         NEW c \in Nodes, NEW room \in Nat, NEW w, Spine(lev, home, room, c, w),
         lev[c] <= room, NEW es, NEW a, Sits(InOrder(c), es, a)
  PROVE  \E cut :
           /\ \A j \in 1 .. Len(w) : /\ w[j].ofs \in Nodes /\ w[j].idx = 0
                                     /\ CutAt(w[j].ofs, cut[j])
                                     /\ Sits(InOrder(w[j].ofs), es, a)
           /\ \A j \in 1 .. Len(w) - 1 :
                cut[j][0] = Len(InOrder(w[j + 1].ofs))
           /\ cut[Len(w)][0] = 0
<1>1. /\ w \in Seq([ofs : Nodes, idx : {0}]) /\ Len(w) \in Nat \ {0} /\ w[1].ofs = c
      /\ Len(w) = lev[c] + 1
      /\ \A j \in 1 .. Len(w) : lev[w[j].ofs] = lev[c] - (j - 1)
      /\ \A j \in 1 .. Len(w) - 1 : /\ w[j + 1].ofs = node[w[j].ofs].child[0]
                                    /\ ~IsLeaf(w[j].ofs)
  BY DEF Spine
<1>2. \A j \in 1 .. Len(w) : w[j].ofs \in Nodes /\ w[j].idx = 0
  <2>1. \A j \in 1 .. Len(w) : w[j] \in [ofs : Nodes, idx : {0}]
    BY <1>1, ElementOfSeq
  <2> QED
    BY <2>1
<1> DEFINE cut == [j \in 1 .. Len(w) |-> CHOOSE q : CutAt(w[j].ofs, q)]
<1>3. \A j \in 1 .. Len(w) : CutAt(w[j].ofs, cut[j])
  <2> TAKE j \in 1 .. Len(w)
  <2>1. \E q : CutAt(w[j].ofs, q)
    BY <1>2, CutExists
  <2>2. CutAt(w[j].ofs, CHOOSE q : CutAt(w[j].ofs, q))
    BY <2>1
  <2> QED
    BY <2>2
<1> HIDE DEF cut
<1>4. ASSUME NEW j \in 1 .. Len(w) - 1
      PROVE  /\ j \in 1 .. Len(w) /\ j + 1 \in 1 .. Len(w)
             /\ InOrder(w[j + 1].ofs) = ChildOrder(w[j].ofs, 0)
             /\ cut[j][0] = Len(InOrder(w[j + 1].ofs))
             /\ Sits(InOrder(w[j + 1].ofs), InOrder(w[j].ofs), 0)
  <2>1. j \in 1 .. Len(w) /\ j + 1 \in 1 .. Len(w)
    BY <1>1
  <2> QED
    BY <2>1, <1>1, <1>3 DEF ChildOrder, CutAt
<1> DEFINE Off == {j \in 1 .. Len(w) : ~Sits(InOrder(w[j].ofs), es, a)}
<1>5. Off = {}
  <2>1. SUFFICES ASSUME Off # {}
                 PROVE  FALSE
    OBVIOUS
  <2>2. Off \subseteq Nat
    OBVIOUS
  <2>3. PICK j \in Off : \A k \in Off : j <= k
    BY <2>1, <2>2, LeastNatural
  <2>4. j \in 1 .. Len(w) /\ ~Sits(InOrder(w[j].ofs), es, a)
    BY <2>3
  <2>5. j # 1
    BY <2>4, <1>1
  <2>6. PICK i : i = j - 1
    OBVIOUS
  <2>7. i \in 1 .. Len(w) - 1 /\ i + 1 = j /\ ~(j <= i) /\ i \in 1 .. Len(w)
    BY <2>4, <2>5, <2>6, <1>1
  <2>8. Sits(InOrder(w[i].ofs), es, a)
    <3>1. i \notin Off
      <4> HIDE DEF Off
      <4> QED
        BY <2>3, <2>7
    <3> QED
      BY <3>1, <2>7
  <2>9. Sits(InOrder(w[j].ofs), es, a + 0)
    BY <2>7, <2>8, <1>4, SitsWithin
  <2>10. a + 0 = a
    BY DEF Sits
  <2> QED
    BY <2>4, <2>9, <2>10
<1>6. cut[Len(w)][0] = 0
  <2>1. Len(w) \in 1 .. Len(w)
    BY <1>1
  <2>2. PICK m : m = w[Len(w)].ofs
    OBVIOUS
  <2>3. m \in Nodes /\ lev[m] = 0
    <3>1. m \in Nodes /\ lev[m] = lev[c] - (Len(w) - 1)
      BY <2>1, <2>2, <1>1, <1>2
    <3>2. PICK x, y : x = lev[c] /\ y = Len(w)
      OBVIOUS
    <3>3. x \in Nat /\ y = x + 1
      BY <3>2, <1>1 DEF Ranking, Levels
    <3>4. x - (y - 1) = 0
      BY <3>3
    <3> QED
      BY <3>1, <3>2, <3>4
  <2>4. IsLeaf(m)
    <3>1. ASSUME ~IsLeaf(m)
          PROVE  FALSE
      <4>1. 0 \in Live(m)
        BY <2>3, SoundNodes DEF Live, Shapely
      <4>2. node[m].child[0] \in Nodes /\ lev[m] = lev[node[m].child[0]] + 1
        BY <3>1, <4>1, <2>3, LinkEnds DEF Ranking, Levels
      <4>3. lev[node[m].child[0]] \in Nat
        BY <4>2 DEF Ranking, Levels
      <4> QED
        BY <4>2, <4>3, <2>3
    <3> QED
      BY <3>1
  <2>5. cut[Len(w)][0] = Len(ChildOrder(m, 0))
    BY <2>1, <2>2, <1>3 DEF CutAt
  <2> QED
    BY <2>4, <2>5 DEF ChildOrder
<1> QED
  BY <1>2, <1>3, <1>4, <1>5, <1>6

\* A step that leaves structure r as it is leaves the iterator where it stood.
LEMMA PathStays ==
  ASSUME AllBelow, AllBelow', Shapely, Shapely',
         NEW lev, NEW home, NEW H, Ranking(lev, home, H),
         NEW lv, NEW hm, NEW h, Ranking(lv, hm, h)',
         \A n \in Nodes : hm[n] = home[n], NEW r, Untouched(home, r),
         r \in Nodes, NEW st, NEW k, Path(lev, home, r, st, k)
  PROVE  Path(lv, hm, r, st, k)'
<1>1. PICK at, cut : /\ Placed(lev, home, r, st, at, cut)
                     /\ k = Passed(st, at, cut, Len(st))
  BY DEF Path
<1>2. /\ st \in Seq(AnyFrame) /\ Len(st) = lev[r] + 1 /\ lev[r] \in Nat
      /\ at \in [1 .. Len(st) -> Nat] /\ st[1].ofs = r /\ at[1] = 0
      /\ \A j \in 1 .. Len(st) :
           /\ st[j].ofs \in Nodes /\ home[st[j].ofs] = r
           /\ lev[st[j].ofs] = lev[r] - (j - 1)
           /\ st[j].idx \in Live(st[j].ofs)
           /\ CutAt(st[j].ofs, cut[j])
           /\ Sits(InOrder(st[j].ofs), InOrder(r), at[j])
      /\ \A j \in 1 .. Len(st) - 1 :
           Passed(st, at, cut, j) = at[j + 1] + Len(InOrder(st[j + 1].ofs))
  BY <1>1, Zenon DEF Placed
<1>3. \A n \in Nodes : home[n] = r =>
        /\ lv[n] = lev[n] /\ InOrder(n)' = InOrder(n) /\ n \in Nodes'
        /\ node'[n].keys = node[n].keys /\ node'[n].child = node[n].child
        /\ hm[n] = r
  <2>1. \A n \in Nodes : home[n] = r => lv[n] = lev[n] /\ InOrder(n)' = InOrder(n)
    BY SameBelow
  <2> QED
    BY <2>1 DEF Untouched
<1>4. home[r] = r
  <2>1. 1 \in 1 .. Len(st)
    BY <1>2
  <2> QED
    BY <2>1, <1>2, Zenon
<1>5. ASSUME NEW n \in Nodes, home[n] = r, NEW q, CutAt(n, q)
      PROVE  Live(n)' = Live(n) /\ CutAt(n, q)'
  <2>1. /\ Live(n)' = Live(n) /\ (IsLeaf(n)' <=> IsLeaf(n))
        /\ InOrder(n)' = InOrder(n)
    BY <1>3, <1>5 DEF Live, IsLeaf
  <2>2. ASSUME NEW s \in Live(n)
        PROVE  ChildOrder(n, s)' = ChildOrder(n, s)
    <3>1. CASE IsLeaf(n)
      BY <3>1, <2>1 DEF ChildOrder
    <3>2. CASE ~IsLeaf(n)
      <4>1. PICK c : c = node[n].child[s]
        OBVIOUS
      <4>2. node'[n].child[s] = c
        BY <4>1, <1>3, <1>5
      <4>3. c \in Nodes /\ home[c] = r
        BY <4>1, <3>2, <1>5, LinkEnds DEF Ranking, Trees
      <4>4. InOrder(c)' = InOrder(c)
        BY <4>3, <1>3
      <4>5. ChildOrder(n, s) = InOrder(c)
        BY <4>1, <3>2 DEF ChildOrder
      <4>6. ChildOrder(n, s)' = InOrder(c)'
        BY <4>2, <3>2, <2>1 DEF ChildOrder
      <4> QED
        BY <4>4, <4>5, <4>6
    <3> QED
      BY <3>1, <3>2
  <2>3. /\ node'[n].keys = node[n].keys /\ Len(node[n].keys) \in Nat
    BY <1>3, <1>5, SoundNodes DEF Shapely
  <2>4. 0 \in Live(n) /\ \A i \in 1 .. Len(node[n].keys) : i \in Live(n)
    BY <2>3 DEF Live
  <2>5. /\ q \in [Live(n) -> Nat]
        /\ q[0] = Len(ChildOrder(n, 0)) /\ q[Len(node[n].keys)] = Len(InOrder(n))
        /\ Sits(ChildOrder(n, 0), InOrder(n), 0)
        /\ \A i \in 1 .. Len(node[n].keys) :
             /\ q[i] = q[i - 1] + 1 + Len(ChildOrder(n, i))
             /\ InOrder(n)[q[i - 1] + 1] = node[n].keys[i]
             /\ Sits(ChildOrder(n, i), InOrder(n), q[i - 1] + 1)
    BY <1>5 DEF CutAt
  <2>6. Sits(ChildOrder(n, 0), InOrder(n), 0)'
    BY <2>1, <2>2, <2>4, <2>5 DEF Sits
  <2>7. ASSUME NEW i \in 1 .. Len(node[n].keys)
        PROVE  /\ q[i] = q[i - 1] + 1 + Len(ChildOrder(n, i)')
               /\ InOrder(n)'[q[i - 1] + 1] = node[n].keys[i]
               /\ Sits(ChildOrder(n, i), InOrder(n), q[i - 1] + 1)'
    BY <2>1, <2>2, <2>4, <2>5 DEF Sits
  <2> QED
    BY <2>1, <2>2, <2>3, <2>4, <2>5, <2>6, <2>7 DEF CutAt
<1>6. ASSUME NEW j \in 1 .. Len(st)
      PROVE  /\ st[j].ofs \in Nodes' /\ hm[st[j].ofs] = r
             /\ lv[st[j].ofs] = lv[r] - (j - 1)
             /\ st[j].idx \in Live(st[j].ofs)'
             /\ CutAt(st[j].ofs, cut[j])'
             /\ Sits(InOrder(st[j].ofs), InOrder(r), at[j])'
  <2>1. PICK n : n = st[j].ofs
    OBVIOUS
  <2>2. /\ n \in Nodes /\ home[n] = r /\ CutAt(n, cut[j])
        /\ st[j].idx \in Live(n) /\ lev[n] = lev[r] - (j - 1)
        /\ Sits(InOrder(n), InOrder(r), at[j])
    BY <2>1, <1>2
  <2>3. Live(n)' = Live(n) /\ CutAt(n, cut[j])'
    BY <2>2, <1>5
  <2>4. /\ lv[n] = lev[n] /\ lv[r] = lev[r] /\ n \in Nodes' /\ hm[n] = r
        /\ InOrder(n)' = InOrder(n) /\ InOrder(r)' = InOrder(r)
    BY <2>2, <1>3, <1>4
  <2>5. Sits(InOrder(n), InOrder(r), at[j])'
    BY <2>2, <2>4 DEF Sits
  <2> QED
    BY <2>1, <2>2, <2>3, <2>4, <2>5
<1>7. ASSUME NEW j \in 1 .. Len(st) - 1
      PROVE  Passed(st, at, cut, j) = at[j + 1] + Len(InOrder(st[j + 1].ofs)')
  <2>1. PICK n : n = st[j + 1].ofs
    OBVIOUS
  <2>2. n \in Nodes /\ home[n] = r
    <3>1. j + 1 \in 1 .. Len(st)
      BY <1>2
    <3> QED
      BY <3>1, <2>1, <1>2
  <2>3. InOrder(n)' = InOrder(n)
    BY <2>2, <1>3
  <2>4. Passed(st, at, cut, j) = at[j + 1] + Len(InOrder(n))
    BY <2>1, <1>2
  <2> QED
    BY <2>1, <2>3, <2>4
<1>8. lv[r] = lev[r]
  BY <1>3, <1>4
<1>9. Placed(lv, hm, r, st, at, cut)'
  BY <1>2, <1>6, <1>7, <1>8 DEF Placed, Passed
<1>10. k = Passed(st, at, cut, Len(st))'
  BY <1>1 DEF Passed
<1> QED
  BY <1>9, <1>10 DEF Path

\* The walk of r starts with all of its entries to come.
LEMMA BeginPath ==
  ASSUME AllBelow, Shapely, NEW lev, NEW home, NEW H, Ranking(lev, home, H),
         NEW r \in roots, lev[r] <= HeightMax
  PROVE  Path(lev, home, r, Leftmost(r, 0), 0)
<1>1. PICK w : w = Leftmost(r, 0)
  OBVIOUS
<1>2. r \in Nodes /\ home[r] = r /\ lev[r] \in Nat /\ HeightMax \in Nat
  BY HeightAssumption DEF Shapely, Sound, TypeOK, Ranking, Trees, Levels
<1>3. Spine(lev, home, HeightMax, r, w)
  <2>1. 0 \in 0 .. HeightMax /\ HeightMax - 0 = HeightMax
    BY <1>2
  <2> QED
    BY <2>1, <1>1, <1>2, LeftmostSpine
<1>4. /\ w \in Seq([ofs : Nodes, idx : {0}]) /\ Len(w) = lev[r] + 1 /\ w[1].ofs = r
      /\ \A j \in 1 .. Len(w) : /\ home[w[j].ofs] = r
                                /\ lev[w[j].ofs] = lev[r] - (j - 1)
  BY <1>2, <1>3 DEF Spine
<1>5. Sits(InOrder(r), InOrder(r), 0)
  <2>1. InOrder(r) \in Seq(Entry)
    BY <1>2, CutExists
  <2>2. Len(InOrder(r)) \in Nat
    BY <2>1, LenProperties
  <2> QED
    BY <2>1, <2>2 DEF Sits
<1>6. PICK cut :
        /\ \A j \in 1 .. Len(w) : /\ w[j].ofs \in Nodes /\ w[j].idx = 0
                                  /\ CutAt(w[j].ofs, cut[j])
                                  /\ Sits(InOrder(w[j].ofs), InOrder(r), 0)
        /\ \A j \in 1 .. Len(w) - 1 : cut[j][0] = Len(InOrder(w[j + 1].ofs))
        /\ cut[Len(w)][0] = 0
  BY <1>2, <1>3, <1>5, SpineStands
<1>7. PICK at : at = [j \in 1 .. Len(w) |-> 0]
  OBVIOUS
<1>8. /\ \A j \in 1 .. Len(w) : at[j] = 0 /\ Passed(w, at, cut, j) = cut[j][0]
      /\ at \in [1 .. Len(w) -> Nat] /\ Len(w) \in 1 .. Len(w)
  <2>1. ASSUME NEW j \in 1 .. Len(w)
        PROVE  cut[j][0] \in Nat
    <3>1. 0 \in Live(w[j].ofs)
      BY <1>6, SoundNodes DEF Live, Shapely
    <3> QED
      BY <3>1, <1>6 DEF CutAt
  <2>2. Len(w) \in Nat /\ Len(w) >= 1
    BY <1>2, <1>4, LenProperties DEF Ranking, Levels
  <2>3. at \in [1 .. Len(w) -> Nat] /\ \A j \in 1 .. Len(w) : at[j] = 0
    BY <1>7
  <2>4. \A j \in 1 .. Len(w) : w[j].idx = 0
    BY <1>6
  <2>5. ASSUME NEW j \in 1 .. Len(w)
        PROVE  Passed(w, at, cut, j) = cut[j][0]
    <3>1. at[j] = 0 /\ w[j].idx = 0 /\ cut[j][0] \in Nat
      BY <2>1, <2>3, <2>4, <2>5
    <3> QED
      BY <3>1 DEF Passed
  <2> QED
    BY <2>2, <2>3, <2>5
<1>9. w \in Seq(AnyFrame)
  <2>1. [ofs : Nodes, idx : {0}] \subseteq AnyFrame
    BY SoundNodes DEF AnyFrame, Nodes, Shapely
  <2> QED
    BY <2>1, <1>4, SeqMonotonic
<1>10. \A j \in 1 .. Len(w) : w[j].idx \in Live(w[j].ofs)
  BY <1>6, SoundNodes DEF Live, Shapely
<1>11. \A j \in 1 .. Len(w) - 1 :
         Passed(w, at, cut, j) = at[j + 1] + Len(InOrder(w[j + 1].ofs))
  <2> TAKE j \in 1 .. Len(w) - 1
  <2>1. j \in 1 .. Len(w) /\ j + 1 \in 1 .. Len(w)
    <3>1. Len(w) \in Nat
      BY <1>4, LenProperties
    <3> QED
      BY <3>1
  <2>2. Passed(w, at, cut, j) = Len(InOrder(w[j + 1].ofs)) /\ at[j + 1] = 0
    <3>1. Passed(w, at, cut, j) = cut[j][0] /\ at[j + 1] = 0
      BY <2>1, <1>8
    <3>2. cut[j][0] = Len(InOrder(w[j + 1].ofs))
      BY <1>6
    <3> QED
      BY <3>1, <3>2
  <2>3. Len(InOrder(w[j + 1].ofs)) \in Nat
    BY <2>1, <1>6 DEF Sits
  <2> QED
    BY <2>2, <2>3
<1>12. Placed(lev, home, r, w, at, cut)
  <2>1. 1 \in 1 .. Len(w)
    BY <1>2, <1>4
  <2> QED
    BY <2>1, <1>2, <1>4, <1>6, <1>8, <1>9, <1>10, <1>11 DEF Placed
<1> QED
  BY <1>1, <1>6, <1>8, <1>12 DEF Path

-----------------------------------------------------------------------------

\* d is the innermost frame with a key left, or 0.
Innermost(st, d) ==
  /\ d \in 0 .. Len(st)
  /\ d # 0 => HasMore(st[d])
  /\ \A j \in d + 1 .. Len(st) : ~HasMore(st[j])

LEMMA MaxIsInnermost ==
  ASSUME NEW S, NEW st \in Seq(S)
  PROVE  Innermost(st, Max({0} \cup {i \in DOMAIN st : HasMore(st[i])}))
<1>1. PICK L : L = Len(st)
  OBVIOUS
<1>2. DOMAIN st = 1 .. L /\ L \in Nat
  BY <1>1, LenProperties
<1> DEFINE T == {0} \cup {i \in DOMAIN st : HasMore(st[i])}
           Down == {k \in 0 .. L : L - k \in T}
<1>3. Down # {} /\ Down \subseteq Nat
  <2>1. L \in 0 .. L /\ L - L = 0
    BY <1>2
  <2> QED
    BY <2>1
<1>4. PICK k \in Down : \A j \in Down : k <= j
  <2> HIDE DEF Down
  <2> QED
    BY <1>3, LeastNatural
<1>5. L - k \in T /\ \A y \in T : L - k >= y
  <2>1. k \in 0 .. L /\ L - k \in T
    BY <1>4
  <2>2. ASSUME NEW y \in T
        PROVE  L - k >= y
    <3>1. y \in 0 .. L
      BY <1>2
    <3>2. L - y \in 0 .. L /\ L - (L - y) = y
      BY <3>1, <1>2
    <3>3. L - y \in Down
      BY <3>2
    <3>4. k <= L - y
      <4> HIDE DEF Down, T
      <4> QED
        BY <3>3, <1>4
    <3> QED
      BY <2>1, <3>1, <3>4, <1>2
  <2> QED
    BY <2>1, <2>2
<1>6. PICK d : d = Max(T)
  OBVIOUS
<1>7. d \in T /\ \A y \in T : d >= y
  <2> HIDE DEF T
  <2> QED
    BY <1>5, <1>6, Zenon DEF Max
<1>8. \A j \in d + 1 .. L : ~HasMore(st[j])
  <2> SUFFICES ASSUME NEW j \in d + 1 .. L, HasMore(st[j])
               PROVE  FALSE
    OBVIOUS
  <2>1. d \in 0 .. L
    BY <1>2, <1>7
  <2>2. j \in 1 .. L
    BY <2>1, <1>2
  <2>3. j \in T
    BY <2>2, <1>2
  <2>4. d >= j
    <3> HIDE DEF T
    <3> QED
      BY <2>3, <1>7
  <2> QED
    BY <2>1, <2>2, <2>4
<1>9. d \in 0 .. L /\ (d # 0 => HasMore(st[d]))
  BY <1>2, <1>7
<1> QED
  BY <1>1, <1>6, <1>8, <1>9 DEF Innermost

\* The stack st with its d-th frame replaced by f and those of w after it.
LEMMA StackGrows ==
  ASSUME NEW S, NEW st \in Seq(S), NEW d \in 1 .. Len(st), NEW f \in S,
         NEW w \in Seq(S)
  PROVE  LET z == SubSeq(st, 1, d - 1) \o <<f>> \o w
         IN  /\ z \in Seq(S) /\ Len(z) = d + Len(w) /\ Len(w) \in Nat
             /\ \A j \in 1 .. d - 1 : z[j] = st[j]
             /\ z[d] = f
             /\ \A j \in d + 1 .. d + Len(w) : z[j] = w[j - d]
<1>1. Len(st) \in Nat /\ d \in Nat /\ Len(w) \in Nat
  BY LenProperties
<1>2. \A j \in 1 .. d - 1 : st[j] \in S
  <2>1. \A j \in 1 .. Len(st) : st[j] \in S
    BY ElementOfSeq
  <2> QED
    BY <2>1, <1>1
<1>3. PICK a : a = SubSeq(st, 1, d - 1)
  OBVIOUS
<1>4. a \in Seq(S) /\ Len(a) = d - 1 /\ \A j \in 1 .. d - 1 : a[j] = st[j]
  <2>1. PICK e : e = d - 1
    OBVIOUS
  <2>2. e \in Nat /\ 1 \in Int /\ e \in Int
    BY <2>1, <1>1
  <2>3. /\ SubSeq(st, 1, e) \in Seq(S)
        /\ Len(SubSeq(st, 1, e)) = IF 1 <= e THEN e - 1 + 1 ELSE 0
        /\ \A j \in 1 .. e - 1 + 1 : SubSeq(st, 1, e)[j] = st[1 + j - 1]
    BY <2>1, <2>2, <1>2, SubSeqProperties
  <2>4. \A j \in 1 .. e : a[j] = st[j]
    BY <2>1, <2>2, <2>3, <1>3
  <2>5. Len(a) = e
    BY <2>1, <2>2, <2>3, <1>3
  <2> QED
    BY <2>1, <2>3, <2>4, <2>5, <1>3
<1>5. PICK z : z = a \o <<f>> \o w
  OBVIOUS
<1>6. /\ z \in Seq(S) /\ Len(z) = Len(a) + 1 + Len(w)
      /\ \A j \in 1 .. Len(a) + 1 + Len(w) :
           z[j] = IF j <= Len(a) THEN a[j]
                  ELSE IF j = Len(a) + 1 THEN f ELSE w[j - (Len(a) + 1)]
  <2>1. a \in Seq(S) /\ f \in S /\ w \in Seq(S)
    BY <1>4
  <2>2. /\ a \o <<f>> \o w \in Seq(S)
        /\ Len(a \o <<f>> \o w) = Len(a) + 1 + Len(w)
        /\ \A j \in 1 .. Len(a) + 1 + Len(w) :
             (a \o <<f>> \o w)[j] = IF j <= Len(a) THEN a[j]
                                    ELSE IF j = Len(a) + 1 THEN f
                                    ELSE w[j - (Len(a) + 1)]
    BY <2>1, Joined
  <2> QED
    BY <2>2, <1>5
<1>7. /\ Len(z) = d + Len(w)
      /\ \A j \in 1 .. d + Len(w) :
           z[j] = IF j <= d - 1 THEN a[j] ELSE IF j = d THEN f ELSE w[j - d]
  BY <1>1, <1>4, <1>6
<1>8. /\ \A j \in 1 .. d - 1 : z[j] = st[j]
      /\ z[d] = f
      /\ \A j \in d + 1 .. d + Len(w) : z[j] = w[j - d]
  BY <1>1, <1>4, <1>7
<1> QED
  BY <1>1, <1>3, <1>5, <1>6, <1>7, <1>8

\* The frames without a key left leave behind what the one before them does.
LEMMA PopPath ==
  ASSUME Shapely, NEW lev, NEW home, NEW r, NEW st, NEW at, NEW cut,
         Placed(lev, home, r, st, at, cut), NEW d, Innermost(st, d)
  PROVE  /\ d # 0 => Passed(st, at, cut, Len(st)) = Passed(st, at, cut, d)
         /\ d = 0 => Passed(st, at, cut, Len(st)) = Len(InOrder(r))
<1>1. /\ Len(st) = lev[r] + 1 /\ lev[r] \in Nat
      /\ at \in [1 .. Len(st) -> Nat] /\ st[1].ofs = r /\ at[1] = 0
      /\ \A j \in 1 .. Len(st) :
           /\ st[j].ofs \in Nodes /\ st[j].idx \in Live(st[j].ofs)
           /\ CutAt(st[j].ofs, cut[j])
           /\ Sits(InOrder(st[j].ofs), InOrder(r), at[j])
      /\ \A j \in 1 .. Len(st) - 1 :
           Passed(st, at, cut, j) = at[j + 1] + Len(InOrder(st[j + 1].ofs))
  BY DEF Placed
<1>2. PICK N, K : N = Len(st) /\ K = Passed(st, at, cut, N)
  OBVIOUS
<1>3. N \in Nat \ {0} /\ d \in 0 .. N /\ \A j \in d + 1 .. N : ~HasMore(st[j])
  BY <1>1, <1>2 DEF Innermost
<1>4. \A j \in d + 1 .. N :
        Passed(st, at, cut, j) = at[j] + Len(InOrder(st[j].ofs))
  <2> TAKE j \in d + 1 .. N
  <2>1. j \in 1 .. N /\ ~HasMore(st[j])
    BY <1>3
  <2>2. PICK n, i : n = st[j].ofs /\ i = st[j].idx
    OBVIOUS
  <2>3. /\ n \in Nodes /\ i \in 0 .. Len(node[n].keys) /\ CutAt(n, cut[j])
        /\ ~(i < Len(node[n].keys))
    BY <2>1, <2>2, <1>1, <1>2 DEF HasMore, Live
  <2>4. i = Len(node[n].keys)
    BY <2>3, SoundNodes DEF Shapely
  <2>5. cut[j][i] = Len(InOrder(n))
    BY <2>3, <2>4 DEF CutAt
  <2> QED
    BY <2>2, <2>5 DEF Passed
<1>5. \A j \in d + 1 .. N :
        j # 1 => Passed(st, at, cut, j) = Passed(st, at, cut, j - 1)
  <2> TAKE j \in d + 1 .. N
  <2>1. ASSUME j # 1
        PROVE  j - 1 \in 1 .. N - 1 /\ (j - 1) + 1 = j
    BY <2>1, <1>3
  <2> QED
    BY <2>1, <1>1, <1>2, <1>4
<1>6. PICK e : e = IF d = 0 THEN 1 ELSE d
  OBVIOUS
<1>7. e \in 1 .. N /\ \A j \in e + 1 .. N : j \in d + 1 .. N /\ j # 1
  BY <1>3, <1>6
<1> DEFINE Off == {i \in 0 .. N - e : Passed(st, at, cut, N - i) # K}
<1>8. Off = {}
  <2>1. SUFFICES ASSUME Off # {}
                 PROVE  FALSE
    OBVIOUS
  <2>2. Off \subseteq Nat
    OBVIOUS
  <2>3. PICK i \in Off : \A x \in Off : i <= x
    BY <2>1, <2>2, LeastNatural
  <2>4. i \in 0 .. N - e /\ Passed(st, at, cut, N - i) # K
    BY <2>3
  <2>5. i # 0
    BY <2>4, <1>2, <1>3
  <2>6. PICK x : x = i - 1
    OBVIOUS
  <2>7. /\ x \in 0 .. N - e /\ ~(i <= x)
        /\ N - x \in e + 1 .. N /\ (N - x) - 1 = N - i
    BY <2>4, <2>5, <2>6, <1>3, <1>7
  <2>8. Passed(st, at, cut, N - x) = K
    <3>1. x \notin Off
      <4> HIDE DEF Off
      <4> QED
        BY <2>3, <2>7
    <3> QED
      BY <3>1, <2>7
  <2>9. Passed(st, at, cut, N - x) = Passed(st, at, cut, N - i)
    BY <2>7, <1>5, <1>7
  <2> QED
    BY <2>4, <2>8, <2>9
<1>9. Passed(st, at, cut, e) = K
  <2>1. N - e \in 0 .. N - e /\ N - (N - e) = e
    BY <1>3, <1>7
  <2> QED
    BY <2>1, <1>8
<1>10. d = 0 => Passed(st, at, cut, 1) = Len(InOrder(r))
  <2> SUFFICES ASSUME d = 0
               PROVE  Passed(st, at, cut, 1) = Len(InOrder(r))
    OBVIOUS
  <2>1. 1 \in d + 1 .. N /\ 1 \in 1 .. Len(st)
    BY <1>2, <1>3
  <2>2. Passed(st, at, cut, 1) = 0 + Len(InOrder(r))
    BY <2>1, <1>1, <1>4
  <2>3. Len(InOrder(r)) \in Nat
    BY <2>1, <1>1 DEF Sits
  <2> QED
    BY <2>2, <2>3
<1> QED
  BY <1>2, <1>6, <1>9, <1>10

\* The frames of w, all at their first child, enter t entries of es after the
\* first a, and leave none of them behind.
Leads(w, cut, es, a, t) ==
  /\ \A j \in 1 .. Len(w) : /\ w[j].ofs \in Nodes /\ w[j].idx = 0
                            /\ CutAt(w[j].ofs, cut[j])
                            /\ Sits(InOrder(w[j].ofs), es, a)
  /\ \A j \in 1 .. Len(w) - 1 : cut[j][0] = Len(InOrder(w[j + 1].ofs))
  /\ IF Len(w) = 0 THEN t = 0
     ELSE t = Len(InOrder(w[1].ofs)) /\ cut[Len(w)][0] = 0

\* The frames that find_next pushes after frame d, of node n, has moved on to
\* its child s.
LEMMA EntersChild ==
  ASSUME AllBelow, Shapely, NEW lev, NEW home, NEW H, Ranking(lev, home, H),
         NEW r \in Nodes, lev[r] <= HeightMax, NEW d \in Nat \ {0},
         NEW n \in Nodes, home[n] = r, lev[n] = lev[r] - (d - 1),
         NEW s \in Live(n), NEW es, NEW a, Sits(ChildOrder(n, s), es, a),
         NEW w, w = IF node[n].child[s] # 0 /\ d - 1 < HeightMax
                    THEN Leftmost(node[n].child[s], d) ELSE <<>>
  PROVE  /\ w \in Seq(AnyFrame) /\ Len(w) = lev[n]
         /\ \A j \in 1 .. Len(w) : /\ home[w[j].ofs] = r
                                   /\ lev[w[j].ofs] = lev[n] - j
         /\ \E cw : Leads(w, cw, es, a, Len(ChildOrder(n, s)))
<1>1. lev[n] \in Nat /\ lev[r] \in Nat /\ HeightMax \in Nat
  BY HeightAssumption DEF Ranking, Levels
<1>2. PICK c : c = node[n].child[s]
  OBVIOUS
<1>3. CASE IsLeaf(n)
  <2>1. c = 0 /\ lev[n] = 0 /\ Len(ChildOrder(n, s)) = 0
    BY <1>2, <1>3, LinkEnds DEF ChildOrder, Ranking, Levels
  <2>2. w = <<>>
    BY <2>1, <1>2
  <2>3. w \in Seq(AnyFrame) /\ Len(w) = 0
    BY <2>2, EmptySeq
  <2>4. Leads(w, <<>>, es, a, Len(ChildOrder(n, s)))
    BY <2>1, <2>3 DEF Leads
  <2> QED
    BY <2>1, <2>3, <2>4
<1>4. CASE ~IsLeaf(n)
  <2>1. /\ c \in Nodes /\ c # 0 /\ lev[n] = lev[c] + 1 /\ lev[c] \in Nat
        /\ home[c] = r /\ ChildOrder(n, s) = InOrder(c)
    BY <1>2, <1>4, LinkEnds DEF ChildOrder, Ranking, Levels, Trees
  <2>2. d - 1 < HeightMax /\ d \in 0 .. HeightMax /\ HeightMax - d \in Nat
        /\ lev[c] <= HeightMax - d
    BY <2>1, <1>1
  <2>3. w = Leftmost(c, d)
    BY <2>1, <2>2, <1>2
  <2>4. PICK room : room = HeightMax - d
    OBVIOUS
  <2>5. Spine(lev, home, room, c, w) /\ room \in Nat /\ lev[c] <= room
    BY <2>1, <2>2, <2>3, <2>4, LeftmostSpine
  <2>6. /\ w \in Seq([ofs : Nodes, idx : {0}]) /\ Len(w) = lev[c] + 1
        /\ w[1].ofs = c
        /\ \A j \in 1 .. Len(w) : /\ home[w[j].ofs] = home[c]
                                  /\ lev[w[j].ofs] = lev[c] - (j - 1)
    BY <2>5 DEF Spine
  <2>7. w \in Seq(AnyFrame)
    <3>1. [ofs : Nodes, idx : {0}] \subseteq AnyFrame
      BY SoundNodes DEF AnyFrame, Nodes, Shapely
    <3> QED
      BY <3>1, <2>6, SeqMonotonic
  <2>8. \A j \in 1 .. Len(w) : home[w[j].ofs] = r /\ lev[w[j].ofs] = lev[n] - j
    <3> TAKE j \in 1 .. Len(w)
    <3>1. j \in Nat /\ lev[c] - (j - 1) = lev[n] - j
      BY <2>1, <2>6
    <3> QED
      BY <3>1, <2>1, <2>6
  <2>9. PICK cw :
          /\ \A j \in 1 .. Len(w) : /\ w[j].ofs \in Nodes /\ w[j].idx = 0
                                    /\ CutAt(w[j].ofs, cw[j])
                                    /\ Sits(InOrder(w[j].ofs), es, a)
          /\ \A j \in 1 .. Len(w) - 1 : cw[j][0] = Len(InOrder(w[j + 1].ofs))
          /\ cw[Len(w)][0] = 0
    <3>1. Sits(InOrder(c), es, a)
      BY <2>1
    <3> QED
      BY <3>1, <2>1, <2>5, SpineStands
  <2>10. Leads(w, cw, es, a, Len(ChildOrder(n, s)))
    <3>1. Len(w) # 0 /\ InOrder(w[1].ofs) = ChildOrder(n, s)
      BY <2>1, <2>6
    <3> QED
      BY <3>1, <2>9 DEF Leads
  <2> QED
    BY <2>1, <2>6, <2>7, <2>8, <2>10
<1> QED
  BY <1>3, <1>4

\* find_next yields the entry after those left behind, and ends the walk when
\* there is none.
LEMMA AdvancePath ==
  ASSUME AllBelow, Shapely, NEW lev, NEW home, NEW H, Ranking(lev, home, H),
         NEW r, lev[r] <= HeightMax, NEW st, NEW k, Path(lev, home, r, st, k),
         Advance(st)
  PROVE  /\ k \in 0 .. Len(InOrder(r)) /\ Len(InOrder(r)) \in Nat
         /\ live' => /\ k + 1 <= Len(InOrder(r))
                     /\ current' = InOrder(r)[k + 1].key
                     /\ Path(lev, home, r, stack', k + 1)
         /\ ~live' => k = Len(InOrder(r))
<1>1. PICK at, cut : /\ Placed(lev, home, r, st, at, cut)
                     /\ k = Passed(st, at, cut, Len(st))
  BY DEF Path
<1>2. /\ st \in Seq(AnyFrame) /\ Len(st) = lev[r] + 1 /\ lev[r] \in Nat
      /\ at \in [1 .. Len(st) -> Nat] /\ st[1].ofs = r /\ at[1] = 0
      /\ \A j \in 1 .. Len(st) :
           /\ st[j].ofs \in Nodes /\ home[st[j].ofs] = r
           /\ lev[st[j].ofs] = lev[r] - (j - 1)
           /\ st[j].idx \in Live(st[j].ofs)
           /\ CutAt(st[j].ofs, cut[j])
           /\ Sits(InOrder(st[j].ofs), InOrder(r), at[j])
      /\ \A j \in 1 .. Len(st) - 1 :
           Passed(st, at, cut, j) = at[j + 1] + Len(InOrder(st[j + 1].ofs))
  BY <1>1 DEF Placed
<1>n. PICK l, N : l = lev[r] /\ N = Len(st)
  OBVIOUS
<1>m. l \in Nat /\ N = l + 1 /\ r \in Nodes
  <2>1. l \in Nat /\ N = l + 1
    BY <1>2, <1>n
  <2>2. 1 \in 1 .. N
    BY <2>1
  <2> QED
    BY <2>1, <2>2, <1>2, <1>n
<1>3. PICK d : d = Max({0} \cup {i \in DOMAIN st : HasMore(st[i])})
  OBVIOUS
<1>4. Innermost(st, d) /\ d \in 0 .. Len(st)
  <2>1. Innermost(st, d)
    BY <1>2, <1>3, MaxIsInnermost
  <2> QED
    BY <2>1 DEF Innermost
<1>5. /\ d # 0 => k = Passed(st, at, cut, d)
      /\ d = 0 => k = Len(InOrder(r))
  BY <1>1, <1>4, PopPath
<1>6. Len(InOrder(r)) \in Nat
  <2>1. 1 \in 1 .. Len(st)
    BY <1>2
  <2> QED
    BY <2>1, <1>2 DEF Sits
<1>7. CASE d = 0
  <2>1. live' = FALSE
    BY <1>3, <1>7 DEF Advance
  <2> QED
    BY <2>1, <1>5, <1>6, <1>7
<1>8. CASE d # 0
  <2>1. PICK n, i, c : n = st[d].ofs /\ i = st[d].idx /\ c = node[n].child[i + 1]
    OBVIOUS
  <2>2. PICK w : w = IF c # 0 /\ d - 1 < HeightMax THEN Leftmost(c, d) ELSE <<>>
    OBVIOUS
  <2>3. PICK f : f = Frame(n, i + 1)
    OBVIOUS
  <2>4. PICK z : z = SubSeq(st, 1, d - 1) \o <<f>> \o w
    OBVIOUS
  <2>5. live' = TRUE /\ current' = node[n].keys[i + 1].key /\ stack' = z
    BY <1>3, <1>8, <2>1, <2>2, <2>3, <2>4 DEF Advance
  <2>6. /\ d \in 1 .. Len(st) /\ n \in Nodes /\ home[n] = r /\ d \in Nat
        /\ lev[n] = lev[r] - (d - 1) /\ lev[n] \in Nat
        /\ CutAt(n, cut[d]) /\ Sits(InOrder(n), InOrder(r), at[d])
        /\ i \in 0 .. Len(node[n].keys) /\ at[d] \in Nat
    <3>1. d \in 1 .. Len(st) /\ d \in Nat
      BY <1>4, <1>8, <1>m, <1>n
    <3>2. /\ n \in Nodes /\ home[n] = r /\ lev[n] = lev[r] - (d - 1)
          /\ CutAt(n, cut[d]) /\ Sits(InOrder(n), InOrder(r), at[d])
          /\ i \in Live(n) /\ at[d] \in Nat
      BY <3>1, <2>1, <1>2
    <3>3. lev[n] \in Nat
      BY <3>2 DEF Ranking, Levels
    <3> QED
      BY <3>1, <3>2, <3>3 DEF Live
  <2>7. i + 1 \in 1 .. Len(node[n].keys) /\ (i + 1) - 1 = i /\ i + 1 \in Live(n)
        /\ i \in Live(n) /\ i \in Nat
    <3>1. i < Len(node[n].keys)
      BY <1>4, <1>8, <2>1 DEF Innermost, HasMore
    <3>2. Len(node[n].keys) \in Nat
      BY <2>6, SoundNodes DEF Shapely
    <3> QED
      BY <3>1, <3>2, <2>6 DEF Live
  <2>8. PICK q : q = cut[d]
    OBVIOUS
  <2>9. /\ k = at[d] + q[i] /\ q[i] \in Nat /\ q[i + 1] \in Nat
        /\ q[i + 1] = q[i] + 1 + Len(ChildOrder(n, i + 1))
        /\ InOrder(n)[q[i] + 1] = node[n].keys[i + 1]
        /\ Sits(ChildOrder(n, i + 1), InOrder(n), q[i] + 1)
    BY <1>5, <1>8, <2>1, <2>6, <2>7, <2>8 DEF CutAt, Passed
  <2>10. /\ q[i] + 1 \in 1 .. Len(InOrder(n)) /\ k + 1 <= Len(InOrder(r))
         /\ at[d] + (q[i] + 1) = k + 1 /\ k \in Nat
    <3>1. /\ Len(ChildOrder(n, i + 1)) \in Nat /\ Len(InOrder(n)) \in Nat
          /\ (q[i] + 1) + Len(ChildOrder(n, i + 1)) <= Len(InOrder(n))
          /\ at[d] + Len(InOrder(n)) <= Len(InOrder(r))
      BY <2>6, <2>9, LenProperties DEF Sits
    <3>2. PICK x, y, b, c1, c3 :
            /\ x = q[i] /\ y = at[d] /\ b = Len(ChildOrder(n, i + 1))
            /\ c1 = Len(InOrder(n)) /\ c3 = Len(InOrder(r))
      OBVIOUS
    <3>3. /\ x \in Nat /\ y \in Nat /\ b \in Nat /\ c1 \in Nat /\ c3 \in Nat
          /\ k = y + x /\ (x + 1) + b <= c1 /\ y + c1 <= c3
      BY <3>1, <3>2, <2>6, <2>9, <1>6
    <3>4. x + 1 \in 1 .. c1 /\ k + 1 <= c3 /\ y + (x + 1) = k + 1 /\ k \in Nat
      BY <3>3
    <3> QED
      BY <3>2, <3>4
  <2>11. InOrder(r)[k + 1] = node[n].keys[i + 1]
    BY <2>6, <2>9, <2>10 DEF Sits
  <2>12. Sits(ChildOrder(n, i + 1), InOrder(r), k + 1)
    <3>1. Sits(ChildOrder(n, i + 1), InOrder(r), at[d] + (q[i] + 1))
      BY <2>6, <2>9, SitsWithin
    <3> QED
      BY <3>1, <2>10
  <2>13. /\ w \in Seq(AnyFrame) /\ Len(w) = lev[n]
         /\ \A j \in 1 .. Len(w) : /\ home[w[j].ofs] = r
                                   /\ lev[w[j].ofs] = lev[n] - j
         /\ \E cw : Leads(w, cw, InOrder(r), k + 1, Len(ChildOrder(n, i + 1)))
    <3>1. r \in Nodes /\ d \in Nat \ {0}
      BY <1>8, <1>m, <2>6
    <3>2. PICK s, a, es : s = i + 1 /\ a = k + 1 /\ es = InOrder(r)
      OBVIOUS
    <3>3. s \in Live(n) /\ Sits(ChildOrder(n, s), es, a)
      BY <3>2, <2>7, <2>12
    <3>4. w = IF node[n].child[s] # 0 /\ d - 1 < HeightMax
              THEN Leftmost(node[n].child[s], d) ELSE <<>>
      BY <3>2, <2>1, <2>2
    <3>5. n \in Nodes /\ home[n] = r /\ lev[n] = lev[r] - (d - 1)
      BY <2>6
    <3>6. /\ w \in Seq(AnyFrame) /\ Len(w) = lev[n]
          /\ \A j \in 1 .. Len(w) : /\ home[w[j].ofs] = r
                                    /\ lev[w[j].ofs] = lev[n] - j
          /\ \E cw : Leads(w, cw, es, a, Len(ChildOrder(n, s)))
      BY <3>1, <3>3, <3>4, <3>5, EntersChild
    <3> QED
      BY <3>2, <3>6
  <2>14. PICK cw : Leads(w, cw, InOrder(r), k + 1, Len(ChildOrder(n, i + 1)))
    BY <2>13
  <2>15. f \in AnyFrame /\ f.ofs = n /\ f.idx = i + 1
    BY <2>3, <2>6, <2>7, SoundNodes DEF Frame, AnyFrame, Nodes, Shapely
  <2>16. /\ z \in Seq(AnyFrame) /\ Len(z) = d + Len(w) /\ Len(w) \in Nat
         /\ \A j \in 1 .. d - 1 : z[j] = st[j]
         /\ z[d] = f
         /\ \A j \in d + 1 .. d + Len(w) : z[j] = w[j - d]
    <3>1. PICK S : S = AnyFrame
      OBVIOUS
    <3>2. /\ st \in Seq(S) /\ d \in 1 .. Len(st)
          /\ f \in S /\ w \in Seq(S)
      BY <3>1, <1>2, <2>6, <2>13, <2>15
    <3>3. LET y == SubSeq(st, 1, d - 1) \o <<f>> \o w
          IN  /\ y \in Seq(S) /\ Len(y) = d + Len(w) /\ Len(w) \in Nat
              /\ \A j \in 1 .. d - 1 : y[j] = st[j]
              /\ y[d] = f
              /\ \A j \in d + 1 .. d + Len(w) : y[j] = w[j - d]
      BY <3>2, StackGrows
    <3> QED
      BY <3>1, <3>3, <2>4
  <2>17. PICK a2, c2 :
           /\ a2 = [j \in 1 .. Len(z) |-> IF j <= d THEN at[j] ELSE k + 1]
           /\ c2 = [j \in 1 .. Len(z) |-> IF j <= d THEN cut[j] ELSE cw[j - d]]
    OBVIOUS
  <2>18. Len(z) = lev[r] + 1 /\ d \in 1 .. Len(z)
    <3>1. PICK x, y : x = lev[n] /\ y = Len(z)
      OBVIOUS
    <3>2. x = l - (d - 1) /\ y = d + x /\ d \in 1 .. N
      BY <3>1, <2>6, <2>13, <2>16, <1>n
    <3>3. y = l + 1 /\ d \in 1 .. y
      BY <3>2, <1>m
    <3> QED
      BY <3>1, <3>3, <1>n
  <2>19. ASSUME NEW j \in 1 .. Len(z), j < d
         PROVE  /\ j \in 1 .. Len(st) /\ j + 1 \in 1 .. Len(st) /\ z[j] = st[j]
                /\ a2[j] = at[j] /\ c2[j] = cut[j]
                /\ Passed(z, a2, c2, j) = Passed(st, at, cut, j)
    <3>1. j \in 1 .. Len(st) /\ j + 1 \in 1 .. Len(st) /\ j \in 1 .. d - 1 /\ j <= d
      BY <1>m, <1>n, <2>6, <2>19
    <3> QED
      BY <3>1, <2>16, <2>17 DEF Passed
  <2>20. /\ a2[d] = at[d] /\ c2[d] = q
         /\ Passed(z, a2, c2, d) = k + 1 + Len(ChildOrder(n, i + 1))
    <3>1. a2[d] = at[d] /\ c2[d] = q
      BY <2>6, <2>8, <2>17, <2>18
    <3>2. Passed(z, a2, c2, d) = at[d] + q[i + 1]
      BY <3>1, <2>15, <2>16 DEF Passed
    <3>3. Len(ChildOrder(n, i + 1)) \in Nat
      BY <2>12, LenProperties DEF Sits
    <3>4. PICK x, y, b : x = q[i] /\ y = at[d] /\ b = Len(ChildOrder(n, i + 1))
      OBVIOUS
    <3>5. /\ x \in Nat /\ y \in Nat /\ b \in Nat /\ k = y + x
          /\ q[i + 1] = x + 1 + b
      BY <3>3, <3>4, <2>6, <2>9
    <3>6. y + (x + 1 + b) = k + 1 + b
      BY <3>5
    <3> QED
      BY <3>1, <3>2, <3>4, <3>5, <3>6
  <2>21. ASSUME NEW j \in 1 .. Len(z), j > d
         PROVE  /\ j - d \in 1 .. Len(w) /\ z[j] = w[j - d]
                /\ a2[j] = k + 1 /\ c2[j] = cw[j - d]
                /\ Passed(z, a2, c2, j) = k + 1 + cw[j - d][0]
    <3>1. j - d \in 1 .. Len(w) /\ j \in d + 1 .. d + Len(w) /\ ~(j <= d)
      BY <2>6, <2>16, <2>21
    <3>2. z[j] = w[j - d] /\ a2[j] = k + 1 /\ c2[j] = cw[j - d]
      BY <3>1, <2>16, <2>17
    <3>3. w[j - d].idx = 0
      BY <3>1, <2>14 DEF Leads
    <3> QED
      BY <3>1, <3>2, <3>3 DEF Passed
  <2>22. ASSUME NEW j \in 1 .. Len(z)
         PROVE  /\ z[j].ofs \in Nodes /\ home[z[j].ofs] = r
                /\ lev[z[j].ofs] = lev[r] - (j - 1)
                /\ z[j].idx \in Live(z[j].ofs)
                /\ CutAt(z[j].ofs, c2[j])
                /\ Sits(InOrder(z[j].ofs), InOrder(r), a2[j])
                /\ a2[j] \in Nat
    <3>1. CASE j < d
      <4>1. /\ j \in 1 .. Len(st) /\ z[j] = st[j]
            /\ a2[j] = at[j] /\ c2[j] = cut[j]
        BY <3>1, <2>19
      <4> QED
        BY <4>1, <1>2
    <3>2. CASE j = d
      BY <3>2, <2>6, <2>7, <2>8, <2>15, <2>16, <2>20
    <3>3. CASE j > d
      <4>1. PICK x : x = j - d
        OBVIOUS
      <4>2. x \in 1 .. Len(w) /\ z[j] = w[x] /\ a2[j] = k + 1 /\ c2[j] = cw[x]
        BY <3>3, <4>1, <2>21
      <4>3. /\ w[x].ofs \in Nodes /\ w[x].idx = 0 /\ CutAt(w[x].ofs, cw[x])
            /\ Sits(InOrder(w[x].ofs), InOrder(r), k + 1)
        BY <4>2, <2>14 DEF Leads
      <4>4. w[x].idx \in Live(w[x].ofs)
        BY <4>3, SoundNodes DEF Live, Shapely
      <4>5. home[w[x].ofs] = r /\ lev[w[x].ofs] = lev[n] - x
        BY <4>2, <2>13
      <4>6. lev[n] - x = lev[r] - (j - 1)
        <5>1. lev[n] = l - (d - 1) /\ d \in Nat /\ j \in Nat /\ x \in Nat
          BY <4>2, <2>6, <2>18, <1>n
        <5>2. (l - (d - 1)) - x = l - (j - 1)
          BY <5>1, <4>1, <1>m
        <5> QED
          BY <5>1, <5>2, <1>n
      <4>7. k + 1 \in Nat
        BY <2>10
      <4> QED
        BY <4>2, <4>3, <4>4, <4>5, <4>6, <4>7
    <3> QED
      BY <3>1, <3>2, <3>3, <2>6
  <2>23. ASSUME NEW j \in 1 .. Len(z) - 1
         PROVE  Passed(z, a2, c2, j) = a2[j + 1] + Len(InOrder(z[j + 1].ofs))
    <3>1. j \in 1 .. Len(z) /\ j + 1 \in 1 .. Len(z)
      BY <1>m, <1>n, <2>18
    <3>2. CASE j < d
      <4>1. j \in 1 .. Len(st) - 1 /\ Passed(z, a2, c2, j) = Passed(st, at, cut, j)
        BY <3>1, <3>2, <1>2, <2>19
      <4>2. a2[j + 1] = at[j + 1] /\ z[j + 1].ofs = st[j + 1].ofs
        <5>1. CASE j + 1 < d
          BY <5>1, <3>1, <2>19
        <5>2. CASE j + 1 = d
          BY <5>2, <2>1, <2>15, <2>16, <2>20
        <5> QED
          BY <5>1, <5>2, <3>1, <3>2, <2>6
      <4> QED
        BY <4>1, <4>2, <1>2
    <3>3. CASE j = d
      <4>1. j + 1 > d /\ (j + 1) - d = 1
        BY <3>3, <2>6
      <4>2. 1 \in 1 .. Len(w) /\ z[j + 1] = w[1] /\ a2[j + 1] = k + 1
        BY <3>1, <4>1, <2>21
      <4>3. Len(ChildOrder(n, i + 1)) = Len(InOrder(w[1].ofs))
        BY <4>2, <2>14, <2>16 DEF Leads
      <4> QED
        BY <3>3, <4>2, <4>3, <2>20
    <3>4. CASE j > d
      <4>1. PICK x : x = j - d
        OBVIOUS
      <4>2. j + 1 > d /\ (j + 1) - d = x + 1
        BY <3>1, <3>4, <4>1, <2>6
      <4>3. /\ x + 1 \in 1 .. Len(w) /\ z[j + 1] = w[x + 1] /\ a2[j + 1] = k + 1
            /\ x \in 1 .. Len(w) /\ Passed(z, a2, c2, j) = k + 1 + cw[x][0]
        BY <3>1, <3>4, <4>1, <4>2, <2>21
      <4>4. x \in 1 .. Len(w) - 1
        BY <4>3, <2>16
      <4>5. cw[x][0] = Len(InOrder(w[x + 1].ofs))
        BY <4>4, <2>14 DEF Leads
      <4> QED
        BY <4>3, <4>5
    <3> QED
      BY <3>2, <3>3, <3>4, <2>6
  <2>24. Passed(z, a2, c2, Len(z)) = k + 1
    <3>1. CASE Len(w) = 0
      <4>1. Len(z) = d /\ Len(ChildOrder(n, i + 1)) = 0
        BY <3>1, <2>6, <2>14, <2>16 DEF Leads
      <4> QED
        BY <4>1, <2>10, <2>20
    <3>2. CASE Len(w) # 0
      <4>1. Len(z) > d /\ Len(z) - d = Len(w) /\ Len(z) \in 1 .. Len(z)
        BY <3>2, <2>6, <2>16, <2>18
      <4>2. Passed(z, a2, c2, Len(z)) = k + 1 + cw[Len(w)][0]
        BY <4>1, <2>21
      <4>3. cw[Len(w)][0] = 0
        BY <3>2, <2>14 DEF Leads
      <4> QED
        BY <4>2, <4>3, <2>10
    <3> QED
      BY <3>1, <3>2
  <2>25. z[1].ofs = r /\ a2[1] = 0
    <3>1. CASE d = 1
      BY <3>1, <1>2, <2>1, <2>15, <2>16, <2>20
    <3>2. CASE d # 1
      <4>1. 1 \in 1 .. Len(z) /\ 1 < d
        BY <3>2, <1>2, <2>6, <2>18
      <4> QED
        BY <4>1, <1>2, <2>19
    <3> QED
      BY <3>1, <3>2
  <2>26. a2 \in [1 .. Len(z) -> Nat]
    BY <2>17, <2>22
  <2>27. Placed(lev, home, r, z, a2, c2)
    BY <1>2, <2>16, <2>18, <2>22, <2>23, <2>25, <2>26 DEF Placed
  <2>28. Path(lev, home, r, z, k + 1)
    BY <2>24, <2>27 DEF Path
  <2> QED
    BY <2>5, <2>10, <2>11, <2>28, <1>6
<1> QED
  BY <1>7, <1>8

-----------------------------------------------------------------------------
(***************************************************************************)
(* The steps of the buffer, as the iterator sees them                      *)
(***************************************************************************)

\* The buffer takes a step of its own specification, or none.
LEMMA ItStepIsStep ==
  ASSUME [ItNext]_allvars
  PROVE  [Next]_vars
<1>1. CASE Create
  BY <1>1 DEF Create, Next
<1>2. CASE Write
  <2>1. PICK r \in roots, v \in Values :
          \/ r \in RootsOf("Array") /\ AppendBegin(r, v)
          \/ r \in RootsOf("Object") /\ \E k \in Keys : SetBegin(r, k, v)
    BY <1>2 DEF Write
  <2> QED
    BY <2>1 DEF Next
<1>3. CASE TurnUnderIterator
  BY <1>3 DEF TurnUnderIterator, Next
<1>4. ASSUME NEW r \in RootsOf("Object"), BeginWalk(r)
      PROVE  UNCHANGED vars
  BY <1>4 DEF BeginWalk
<1>5. CASE Increment
  BY <1>5 DEF Increment
<1>6. CASE UNCHANGED allvars
  BY <1>6 DEF allvars
<1> QED
  BY <1>1, <1>2, <1>3, <1>4, <1>5, <1>6 DEF ItNext

\* No step takes a node or a root away, or makes one of another type.
LEMMA StepKeeps ==
  ASSUME Shapely, [Next]_vars, NEW lev, NEW home, NEW H, Ranking(lev, home, H)
  PROVE  /\ roots \subseteq Nodes /\ roots \subseteq roots'
         /\ \A n \in Nodes : n \in Nodes' /\ node'[n].type = node[n].type
<1>1. Sound /\ roots \subseteq Nodes /\ used \in Nat
  BY DEF Shapely, Sound, TypeOK
<1>2. ASSUME NEW t \in Types, InitStructure(t)
      PROVE  /\ roots \subseteq roots'
             /\ \A n \in Nodes : n \in Nodes' /\ node'[n] = node[n]
  BY <1>1, <1>2 DEF InitStructure, Nodes
<1>3. ASSUME NEW request, Start(request)
      PROVE  roots' = roots /\ Nodes' = Nodes /\ node' = node
  BY <1>3 DEF Start, Nodes
<1>4. CASE Turn
  <2>1. Kind
    BY <1>1, <1>4, TurnKind
  <2>2. \A n \in Nodes : n \in Nodes'
    BY <1>4, TurnElsewhere
  <2> QED
    BY <2>1, <2>2 DEF Kind
<1>5. CASE UNCHANGED vars
  BY <1>1, <1>5 DEF vars, Nodes
<1> QED
  BY <1>1, <1>2, <1>3, <1>4, <1>5 DEF Next, SetBegin, AppendBegin

-----------------------------------------------------------------------------
(***************************************************************************)
(* The stack keeps to objects                                              *)
(***************************************************************************)

\* Objects hold keys in trees of one type each.
Treed == Shapely /\ \E lev, home, H : Ranking(lev, home, H) /\ Typed(home)

LEMMA InitTreed == Init => Treed
<1> SUFFICES ASSUME Init
             PROVE  Treed
  OBVIOUS
<1> DEFINE none == [n \in {} |-> 0]
<1>1. Shapely /\ Nodes = {} /\ roots = {} /\ pc = "idle"
  BY InitShapely DEF Init, Nodes
<1>2. Levels(none) /\ Trees(none) /\ WalkRank(none, none) /\ Bounded(none, 0)
  BY <1>1 DEF Levels, Trees, WalkRank, Bounded
<1>3. Typed(none)
  BY <1>1 DEF Typed
<1> HIDE DEF none
<1> QED
  BY <1>1, <1>2, <1>3 DEF Treed, Ranking

LEMMA NextTreed ==
  ASSUME Treed, [Next]_vars
  PROVE  Treed'
<1>1. PICK lev, home, H : Shapely /\ Ranking(lev, home, H) /\ Typed(home)
  BY DEF Treed
<1>2. Onward(home)
  BY <1>1, NextOnward
<1>3. PICK lv, hm, h : Ranking(lv, hm, h)' /\ \A n \in Nodes : hm[n] = home[n]
  BY <1>2 DEF Onward
<1>4. Shapely' /\ Trees(hm)'
  BY <1>2, <1>3 DEF Onward, Ranking
<1>5. Typed(hm)'
  BY <1>1, <1>3, <1>4, NextTyped
<1> QED
  BY <1>3, <1>4, <1>5 DEF Treed

\* A frame of a walk over an object.
WalkFrame ==
  {f \in [ofs : Nodes, idx : 0 .. MaxKeys] : node[f.ofs].type = "Object"}

\* find_first pushes such frames, no more of them than there is room for.
LEMMA LeftmostFrames ==
  ASSUME Treed, NEW n \in Nodes, node[n].type = "Object",
         NEW d \in 0 .. HeightMax
  PROVE  /\ Leftmost(n, d) \in Seq(WalkFrame)
         /\ Len(Leftmost(n, d)) \in 1 .. HeightMax - d + 1
<1>1. PICK lev, home, H : Shapely /\ Ranking(lev, home, H) /\ Typed(home)
  BY DEF Treed
<1>2. PICK w, L : w = Leftmost(n, d) /\ L = Len(w)
  OBVIOUS
<1>3. Spine(lev, home, HeightMax - d, n, w)
  BY <1>1, <1>2, LeftmostSpine
<1>4. /\ w \in Seq([ofs : Nodes, idx : {0}]) /\ L \in 1 .. HeightMax - d + 1
      /\ \A j \in 1 .. L : home[w[j].ofs] = home[n]
  BY <1>2, <1>3 DEF Spine
<1>5. \A j \in 1 .. L : w[j] \in WalkFrame
  <2> TAKE j \in 1 .. L
  <2>1. w[j] \in [ofs : Nodes, idx : {0}]
    BY <1>2, <1>4, ElementOfSeq
  <2>2. w[j].ofs \in Nodes /\ home[w[j].ofs] = home[n]
    BY <2>1, <1>4
  <2>3. node[w[j].ofs].type = node[n].type
    BY <2>2, <1>1 DEF Typed
  <2>4. w[j] \in [ofs : Nodes, idx : 0 .. MaxKeys]
    BY <2>1, MaxKeysAssumption
  <2> QED
    BY <2>3, <2>4 DEF WalkFrame
<1>6. w \in Seq(WalkFrame)
  <2>1. L \in Nat /\ w = [j \in 1 .. L |-> w[j]]
    BY <1>2, <1>4, LenProperties
  <2>2. w \in [1 .. L -> WalkFrame]
    BY <2>1, <1>5
  <2> QED
    BY <2>1, <2>2, SeqDef
<1> QED
  BY <1>2, <1>4, <1>6

\* find_next keeps to them.
LEMMA AdvanceFrames ==
  ASSUME Treed, NEW st \in Seq(WalkFrame), Len(st) <= HeightMax + 1, Advance(st)
  PROVE  /\ stack' \in Seq(WalkFrame) /\ Len(stack') <= HeightMax + 1
         /\ live' \in BOOLEAN /\ current' \in Keys \cup {NoKey}
         /\ live' => stack' # <<>> /\ current' \in Keys
<1>1. PICK lev, home, H : Shapely /\ Ranking(lev, home, H) /\ Typed(home)
  BY DEF Treed
<1>2. PICK d : d = Max({0} \cup {i \in DOMAIN st : HasMore(st[i])})
  OBVIOUS
<1>3. d \in 0 .. Len(st) /\ (d # 0 => HasMore(st[d]))
  BY <1>2, MaxIsInnermost DEF Innermost
<1>4. Len(st) \in Nat /\ HeightMax \in Nat
  BY LenProperties, HeightAssumption
<1>5. CASE d = 0
  <2>1. live' = FALSE /\ stack' = <<>> /\ current' = NoKey
    BY <1>2, <1>5 DEF Advance
  <2>2. <<>> \in Seq(WalkFrame) /\ Len(<<>>) = 0
    BY EmptySeq
  <2>3. stack' \in Seq(WalkFrame) /\ Len(stack') <= HeightMax + 1
    BY <2>1, <2>2, <1>4
  <2>4. live' \in BOOLEAN /\ ~live'
    BY <2>1
  <2>5. current' \in Keys \cup {NoKey}
    BY <2>1
  <2> QED
    BY <2>3, <2>4, <2>5, Zenon
<1>6. CASE d # 0
  <2>1. PICK n, i, c : n = st[d].ofs /\ i = st[d].idx /\ c = node[n].child[i + 1]
    OBVIOUS
  <2>2. PICK w : w = IF c # 0 /\ d - 1 < HeightMax THEN Leftmost(c, d) ELSE <<>>
    OBVIOUS
  <2>3. PICK f : f = Frame(n, i + 1)
    OBVIOUS
  <2>4. PICK z : z = SubSeq(st, 1, d - 1) \o <<f>> \o w
    OBVIOUS
  <2>5. live' = TRUE /\ current' = node[n].keys[i + 1].key /\ stack' = z
    BY <1>2, <1>6, <2>1, <2>2, <2>3, <2>4 DEF Advance
  <2>6. d \in 1 .. Len(st) /\ d \in Nat /\ d <= HeightMax + 1
    BY <1>3, <1>4, <1>6
  <2>7. n \in Nodes /\ i \in 0 .. MaxKeys /\ node[n].type = "Object"
    <3>1. st[d] \in WalkFrame
      BY <2>6, ElementOfSeq
    <3> QED
      BY <3>1, <2>1 DEF WalkFrame
  <2>8. /\ i < Len(node[n].keys) /\ Len(node[n].keys) \in 0 .. MaxKeys
        /\ i + 1 \in 1 .. Len(node[n].keys) /\ i + 1 \in Live(n)
        /\ i + 1 \in 0 .. MaxKeys
    <3>1. i < Len(node[n].keys)
      BY <1>3, <1>6, <2>1 DEF HasMore
    <3>2. Len(node[n].keys) \in Nat /\ Len(node[n].keys) <= MaxKeys /\ MaxKeys \in Nat
      BY <1>1, <2>7, SoundNodes, MaxKeysAssumption DEF Shapely, WellFormed
    <3> QED
      BY <3>1, <3>2, <2>7 DEF Live
  <2>9. f \in WalkFrame
    BY <2>3, <2>7, <2>8 DEF Frame, WalkFrame
  <2>10. node[n].keys[i + 1].key \in Keys
    <3>1. EntryFits("Object", node[n].keys[i + 1])
      BY <1>1, <2>7, <2>8 DEF Typed
    <3> QED
      BY <3>1 DEF EntryFits
  <2>11. w \in Seq(WalkFrame) /\ Len(w) \in Nat /\ d + Len(w) <= HeightMax + 1
    <3>1. CASE c # 0 /\ d - 1 < HeightMax
      <4>1. c \in Nodes /\ home[c] = home[n]
        BY <1>1, <2>1, <2>7, <2>8, <3>1, LinkEnds DEF Ranking, Trees
      <4>2. node[c].type = "Object"
        BY <4>1, <1>1, <2>7 DEF Typed
      <4>3. d \in 0 .. HeightMax
        BY <2>6, <3>1, <1>4
      <4>4. /\ Leftmost(c, d) \in Seq(WalkFrame)
            /\ Len(Leftmost(c, d)) \in 1 .. HeightMax - d + 1
        BY <4>1, <4>2, <4>3, LeftmostFrames
      <4> QED
        BY <4>4, <2>2, <2>6, <3>1, <1>4
    <3>2. CASE ~(c # 0 /\ d - 1 < HeightMax)
      <4>1. <<>> \in Seq(WalkFrame) /\ Len(<<>>) = 0
        BY EmptySeq
      <4> QED
        BY <4>1, <2>2, <2>6, <3>2, <1>4
    <3> QED
      BY <3>1, <3>2
  <2>12. z \in Seq(WalkFrame) /\ Len(z) = d + Len(w)
    BY <2>4, <2>6, <2>9, <2>11, StackGrows
  <2>13. z # <<>>
    <3>1. Len(z) # 0
      BY <2>6, <2>11, <2>12
    <3> QED
      BY <3>1, EmptySeq
  <2> QED
    BY <2>5, <2>10, <2>11, <2>12, <2>13
<1> QED
  BY <1>5, <1>6

\* The inductive form of ItTypeOK: all frames are of objects.
ItTyped == Treed /\ ItTypeOK /\ stack \in Seq(WalkFrame)

LEMMA InitItTyped == ItInit => ItTyped
<1> SUFFICES ASSUME ItInit
             PROVE  ItTyped
  OBVIOUS
<1>1. Treed
  BY InitTreed DEF ItInit
<1>2. /\ <<>> \in Seq(WalkFrame) /\ <<>> \in Seq([ofs : Nodes, idx : 0 .. MaxKeys])
      /\ <<>> \in Seq(Keys) /\ Len(<<>>) = 0
  BY EmptySeq
<1>3. 0 \in 0 .. GenMod - 1 /\ 0 \in 0 .. MaxCalls /\ 0 <= HeightMax + 1
  BY WidthAssumption, HeightAssumption
<1> QED
  BY <1>1, <1>2, <1>3 DEF ItInit, ItTyped, ItTypeOK

\* The keys yielded, after a step of the walk.
LEMMA YieldsKeys ==
  ASSUME NEW S, NEW s \in Seq(S), live' \in BOOLEAN, live' => current' \in S
  PROVE  Yielded \in Seq(S) /\ s \o Yielded \in Seq(S)
<1>1. PICK y, x : y = Yielded /\ x = current'
  OBVIOUS
<1>2. y \in Seq(S)
  <2>1. CASE live'
    <3>1. y = <<x>> /\ x \in S
      BY <2>1, <1>1 DEF Yielded
    <3> QED
      BY <3>1
  <2>2. CASE ~live'
    <3>1. y = <<>>
      BY <2>2, <1>1 DEF Yielded
    <3> QED
      BY <3>1, EmptySeq
  <2> QED
    BY <2>1, <2>2
<1> QED
  BY <1>1, <1>2, ConcatProperties

LEMMA NextItTyped ==
  ASSUME ItTyped, [ItNext]_allvars
  PROVE  ItTyped'
<1>1. PICK lev, home, H : Shapely /\ Ranking(lev, home, H) /\ Typed(home)
  BY DEF ItTyped, Treed
<1>2. Treed /\ Treed' /\ [Next]_vars
  BY ItStepIsStep, NextTreed DEF ItTyped
<1>3. /\ roots \subseteq Nodes /\ roots \subseteq roots'
      /\ \A n \in Nodes : n \in Nodes' /\ node'[n].type = node[n].type
  BY <1>1, <1>2, StepKeeps
<1>4. /\ live \in BOOLEAN /\ it_gen \in 0 .. GenMod - 1
      /\ stack \in Seq(WalkFrame) /\ Len(stack) <= HeightMax + 1
      /\ live => stack # <<>>
      /\ current \in Keys \cup {NoKey} /\ seen \in Seq(Keys)
      /\ split \in BOOLEAN /\ wrote \subseteq roots /\ calls \in 0 .. MaxCalls
  BY DEF ItTyped, ItTypeOK
<1>5. ASSUME NEW st \in Seq(WalkFrame)
      PROVE  st \in Seq(WalkFrame') /\ st \in Seq([ofs : Nodes', idx : 0 .. MaxKeys])
  <2>1. WalkFrame \subseteq WalkFrame'
    BY <1>3 DEF WalkFrame
  <2>2. WalkFrame \subseteq [ofs : Nodes', idx : 0 .. MaxKeys]
    BY <1>3 DEF WalkFrame
  <2> QED
    BY <2>1, <2>2, SeqMonotonic
<1>6. ASSUME stack' \in Seq(WalkFrame), Len(stack') <= HeightMax + 1,
             live' \in BOOLEAN, live' => stack' # <<>>,
             it_gen' \in 0 .. GenMod - 1,
             current' \in Keys \cup {NoKey}, seen' \in Seq(Keys),
             split' \in BOOLEAN, wrote' \subseteq roots',
             calls' \in 0 .. MaxCalls
      PROVE  ItTyped'
  BY <1>2, <1>5, <1>6 DEF ItTyped, ItTypeOK
<1>7. CASE Create
  BY <1>3, <1>4, <1>6, <1>7 DEF Create, itvars
<1>8. CASE Write
  <2>1. PICK r \in roots : wrote' = wrote \cup {r}
    BY <1>8 DEF Write
  <2>2. /\ calls < MaxCalls /\ calls' = calls + 1
        /\ UNCHANGED <<live, it_gen, stack, current, seen, split>>
    BY <1>8 DEF Write
  <2>3. calls' \in 0 .. MaxCalls
    BY <2>2, <1>4, HeightAssumption
  <2> QED
    BY <2>1, <2>2, <2>3, <1>3, <1>4, <1>6
<1>9. CASE TurnUnderIterator
  BY <1>3, <1>4, <1>6, <1>9 DEF TurnUnderIterator
<1>10. ASSUME NEW r \in RootsOf("Object"), BeginWalk(r)
       PROVE  ItTyped'
  <2>1. /\ it_gen' = node[0].gen /\ Advance(Leftmost(r, 0)) /\ seen' = Yielded
        /\ split' = FALSE /\ wrote' = {} /\ calls' = calls
    BY <1>10 DEF BeginWalk
  <2>2. r \in Nodes /\ node[r].type = "Object"
    BY <1>3 DEF RootsOf
  <2>3. node[0].gen \in 0 .. GenMod - 1
    <3>1. used \in Nat /\ \A n \in Nodes : WellFormed(node[n], used)
      BY <1>1, SoundNodes DEF Shapely
    <3>2. 0 \in Nodes
      BY <3>1, <2>2 DEF Nodes
    <3> QED
      BY <3>1, <3>2 DEF WellFormed, Node
  <2>4. PICK st : st = Leftmost(r, 0)
    OBVIOUS
  <2>5. st \in Seq(WalkFrame) /\ Len(st) <= HeightMax + 1
    <3>1. 0 \in 0 .. HeightMax /\ HeightMax - 0 + 1 = HeightMax + 1
      BY HeightAssumption
    <3>2. Len(st) \in 1 .. HeightMax + 1 /\ st \in Seq(WalkFrame)
      BY <3>1, <2>2, <2>4, <1>2, LeftmostFrames
    <3> QED
      BY <3>2, HeightAssumption
  <2>6. /\ stack' \in Seq(WalkFrame) /\ Len(stack') <= HeightMax + 1
        /\ live' \in BOOLEAN /\ current' \in Keys \cup {NoKey}
        /\ live' => stack' # <<>> /\ current' \in Keys
    BY <2>1, <2>4, <2>5, <1>2, AdvanceFrames
  <2>7. Yielded \in Seq(Keys)
    BY <2>6, <1>4, YieldsKeys
  <2> QED
    BY <2>1, <2>3, <2>6, <2>7, <1>4, <1>6
<1>11. CASE Increment
  <2>1. UNCHANGED <<it_gen, split, wrote, calls>>
    BY <1>11 DEF Increment
  <2>2. CASE node[0].gen # it_gen
    <3>1. live' = FALSE /\ current' = NoKey /\ UNCHANGED <<stack, seen>>
      BY <2>2, <1>11 DEF Increment
    <3> QED
      BY <3>1, <2>1, <1>3, <1>4, <1>6
  <2>3. CASE node[0].gen = it_gen
    <3>1. Advance(stack) /\ seen' = seen \o Yielded
      BY <2>3, <1>11 DEF Increment
    <3>2. /\ stack' \in Seq(WalkFrame) /\ Len(stack') <= HeightMax + 1
          /\ live' \in BOOLEAN /\ current' \in Keys \cup {NoKey}
          /\ live' => stack' # <<>> /\ current' \in Keys
      BY <3>1, <1>2, <1>4, AdvanceFrames
    <3>3. seen' \in Seq(Keys)
      BY <3>1, <3>2, <1>4, YieldsKeys
    <3> QED
      BY <3>2, <3>3, <2>1, <1>3, <1>4, <1>6
  <2> QED
    BY <2>2, <2>3
<1>12. CASE UNCHANGED allvars
  BY <1>3, <1>4, <1>6, <1>12 DEF allvars, itvars
<1> QED
  BY <1>7, <1>8, <1>9, <1>10, <1>11, <1>12 DEF ItNext

\* The iterator's stack never outgrows m_stack and its frames stay on nodes of
\* objects, at keys these have, whatever was written and split meanwhile: the
\* walk of Iterator::find_next never reads past a node or the stack.
THEOREM ItTypeOKAlways == ItSpec => []ItTypeOK
<1>1. ItTyped => ItTypeOK
  BY DEF ItTyped
<1>2. ItTyped /\ [ItNext]_allvars => ItTyped'
  BY NextItTyped
<1> QED
  BY <1>1, <1>2, InitItTyped, PTL DEF ItSpec

-----------------------------------------------------------------------------
(***************************************************************************)
(* The keys come in order, and all of them                                 *)
(***************************************************************************)

\* The keys s are those of the first entries of structure r.
Leading(s, r) == \A p \in 1 .. Len(s) : s[p] = InOrder(r)[p].key

\* A step of the walk adds the next key to those yielded, or they are all there.
LEMMA AdvanceYields ==
  ASSUME AllBelow, Shapely, NEW lev, NEW home, NEW H, Ranking(lev, home, H),
         NEW r \in Nodes, lev[r] <= HeightMax, NEW st, NEW s \in Seq(Keys),
         Path(lev, home, r, st, Len(s)), Leading(s, r),
         Advance(st), NEW t, t = s \o Yielded
  PROVE  /\ live' => /\ Len(t) \in 1 .. Len(InOrder(r))
                     /\ Leading(t, r)
                     /\ current' = InOrder(r)[Len(t)].key
                     /\ Path(lev, home, r, stack', Len(t))
         /\ ~live' => t = KeysOf(r)
<1>1. PICK k, x, es : k = Len(s) /\ x = current' /\ es = InOrder(r)
  OBVIOUS
<1>2. /\ k \in 0 .. Len(es) /\ Len(es) \in Nat
      /\ live' => k + 1 <= Len(es) /\ x = es[k + 1].key
                  /\ Path(lev, home, r, stack', k + 1)
      /\ ~live' => k = Len(es)
  BY <1>1, AdvancePath
<1>3. CASE live'
  <2>1. t = s \o <<x>>
    BY <1>1, <1>3 DEF Yielded
  <2> DEFINE T == Keys \cup {x}
  <2>2. s \in Seq(T) /\ <<x>> \in Seq(T) /\ Len(<<x>>) = 1 /\ <<x>>[1] = x
    <3>1. s \in Seq(T)
      BY SeqMonotonic
    <3>2. <<x>> \in Seq(T) /\ Len(<<x>>) = 1 /\ <<x>>[1] = x
      OBVIOUS
    <3> QED
      BY <3>1, <3>2
  <2> HIDE DEF T
  <2>3. /\ Len(t) = k + 1
        /\ \A p \in 1 .. k + 1 : t[p] = IF p <= k THEN s[p] ELSE <<x>>[p - k]
    BY <1>1, <2>1, <2>2, ConcatProperties
  <2>4. \A p \in 1 .. k + 1 : t[p] = es[p].key
    <3> TAKE p \in 1 .. k + 1
    <3>1. CASE p <= k
      BY <3>1, <2>3, <1>1, <1>2 DEF Leading
    <3>2. CASE p = k + 1
      BY <3>2, <2>2, <2>3, <1>2, <1>3
    <3>3. p <= k \/ p = k + 1
      <4>1. k \in Nat
        BY <1>2
      <4> QED
        BY <4>1
    <3> QED
      BY <3>1, <3>2, <3>3
  <2> QED
    BY <2>3, <2>4, <1>1, <1>2, <1>3 DEF Leading
<1>4. CASE ~live'
  <2>1. t = s
    <3>1. t = s \o <<>>
      BY <1>4 DEF Yielded
    <3> QED
      BY <3>1, ConcatEmptySeq
  <2>2. es \in Seq(Entry)
    BY <1>1, CutExists
  <2>3. DOMAIN es = 1 .. k
    BY <2>2, <1>2, <1>4, LenProperties
  <2>4. s = [p \in 1 .. k |-> s[p]]
    BY <1>1, LenProperties
  <2>5. s = [p \in 1 .. k |-> es[p].key]
    BY <2>4, <1>1 DEF Leading
  <2>6. KeysOf(r) = [p \in 1 .. k |-> es[p].key]
    BY <2>3, <1>1 DEF KeysOf
  <2> QED
    BY <2>1, <2>5, <2>6, <1>4
<1> QED
  BY <1>3, <1>4

\* The iterator has yielded the first entries of its object and its stack stands
\* after them, or it has ended and yielded them all.
OnTheWay(lev, home) ==
  IF live
  THEN /\ Len(seen) \in 1 .. Len(InOrder(origin))
       /\ Leading(seen, origin)
       /\ current = InOrder(origin)[Len(seen)].key
       /\ Path(lev, home, origin, stack, Len(seen))
  ELSE wrote = {} => seen = KeysOf(origin)

\* The object is unchanged, in a tree no higher than the stack.
Unchanged ==
  origin # NoOrigin /\ origin \notin wrote /\ Height(origin) <= HeightMax

\* What is kept of the calls made since.
Noted ==
  /\ live => origin # NoOrigin
  /\ origin # NoOrigin => origin \in roots
  /\ pc = "loop" => req.ofs \in wrote
  /\ wrote = {} /\ live => node[0].gen = it_gen

Walks ==
  /\ ItTyped /\ Noted
  /\ \E lev, home, H : /\ Ranking(lev, home, H)
                       /\ Unchanged => OnTheWay(lev, home)

LEMMA InitWalks == ItInit => Walks
<1> SUFFICES ASSUME ItInit
             PROVE  Walks
  OBVIOUS
<1>1. ItTyped
  BY InitItTyped
<1>2. PICK lev, home, H : Ranking(lev, home, H)
  BY <1>1 DEF ItTyped, Treed
<1>3. Noted /\ ~Unchanged
  BY DEF ItInit, Init, Noted, Unchanged
<1> QED
  BY <1>1, <1>2, <1>3 DEF Walks

\* What a step that leaves structure r as it is leaves of a walk of it.
LEMMA WayStays ==
  ASSUME AllBelow, AllBelow', Shapely, Shapely',
         NEW lev, NEW home, NEW H, Ranking(lev, home, H),
         NEW lv, NEW hm, NEW h, Ranking(lv, hm, h)',
         \A n \in Nodes : hm[n] = home[n],
         NEW r \in roots, Untouched(home, r)
  PROVE  /\ Height(r)' = Height(r) /\ InOrder(r)' = InOrder(r)
         /\ KeysOf(r)' = KeysOf(r)
         /\ \A st, k : Path(lev, home, r, st, k) => Path(lv, hm, r, st, k)'
<1>1. r \in Nodes /\ home[r] = r
  BY DEF Shapely, Sound, TypeOK, Ranking, Trees
<1>2. Height(r)' = Height(r) /\ InOrder(r)' = InOrder(r)
  BY <1>1, SameBelow
<1>3. KeysOf(r)' = KeysOf(r)
  BY <1>2 DEF KeysOf
<1>4. ASSUME NEW st, NEW k, Path(lev, home, r, st, k)
      PROVE  Path(lv, hm, r, st, k)'
  BY <1>1, <1>4, PathStays
<1> QED
  BY <1>2, <1>3, <1>4

LEMMA NextWalks ==
  ASSUME AllBelow, AllBelow', Walks, [ItNext]_allvars
  PROVE  Walks'
<1>1. PICK lev, home, H : /\ Ranking(lev, home, H)
                          /\ Unchanged => OnTheWay(lev, home)
  BY DEF Walks
<1>2. /\ ItTyped /\ ItTyped' /\ Noted /\ Shapely /\ [Next]_vars
      /\ live \in BOOLEAN /\ seen \in Seq(Keys) /\ wrote \subseteq roots
  BY NextItTyped, ItStepIsStep DEF Walks, ItTyped, ItTypeOK, Treed
<1>3. Shapely' /\ Onward(home)
  BY <1>1, <1>2, NextOnward DEF Onward
<1>4. PICK lv, hm, h : Ranking(lv, hm, h)' /\ \A n \in Nodes : hm[n] = home[n]
  BY <1>3 DEF Onward
<1>5. /\ roots \subseteq Nodes /\ roots \subseteq roots'
      /\ \A n \in Nodes : n \in Nodes'
  BY <1>1, <1>2, StepKeeps
<1>6. ASSUME NEW r \in roots, Untouched(home, r)
      PROVE  /\ Height(r)' = Height(r) /\ InOrder(r)' = InOrder(r)
             /\ KeysOf(r)' = KeysOf(r)
             /\ \A st, k : Path(lev, home, r, st, k) => Path(lv, hm, r, st, k)'
  BY <1>1, <1>2, <1>3, <1>4, <1>6, WayStays
<1>7. ASSUME Noted', Unchanged' => OnTheWay(lv, hm)'
      PROVE  Walks'
  BY <1>2, <1>4, <1>7 DEF Walks
\* Steps that do not move the iterator.
<1>8. ASSUME UNCHANGED <<live, it_gen, stack, current, origin, seen>>,
             wrote \subseteq wrote', pc' = "loop" => req'.ofs \in wrote',
             wrote' = {} /\ live => node'[0].gen = node[0].gen,
             origin \in roots /\ origin \notin wrote' => Untouched(home, origin)
      PROVE  Walks'
  <2>1. Noted'
    BY <1>2, <1>5, <1>8 DEF Noted
  <2>2. ASSUME Unchanged'
        PROVE  OnTheWay(lv, hm)'
    <3>1. PICK r : r = origin
      OBVIOUS
    <3>2. r \in roots /\ r \notin wrote /\ r # NoOrigin /\ Untouched(home, r)
      BY <2>2, <3>1, <1>2, <1>8 DEF Unchanged, Noted
    <3>3. /\ Height(r)' = Height(r) /\ InOrder(r)' = InOrder(r)
          /\ KeysOf(r)' = KeysOf(r)
          /\ \A st, k : Path(lev, home, r, st, k) => Path(lv, hm, r, st, k)'
      BY <3>2, <1>6
    <3>4. Height(r)' <= HeightMax
      BY <2>2, <3>1, <1>8 DEF Unchanged
    <3>5. Unchanged
      BY <3>1, <3>2, <3>3, <3>4 DEF Unchanged
    <3>6. OnTheWay(lev, home)
      BY <3>5, <1>1
    <3>7. PICK st, s, x : st = stack /\ s = seen /\ x = current
      OBVIOUS
    <3>8. stack' = st /\ seen' = s /\ current' = x /\ live' = live /\ origin' = r
      BY <3>1, <3>7, <1>8
    <3>9. CASE live
      <4>1. /\ Len(s) \in 1 .. Len(InOrder(r))
            /\ Leading(s, r)
            /\ x = InOrder(r)[Len(s)].key
            /\ Path(lev, home, r, st, Len(s))
        BY <3>1, <3>6, <3>7, <3>9 DEF OnTheWay
      <4>2. Path(lv, hm, r, st, Len(s))'
        BY <4>1, <3>3
      <4>3. Path(lv, hm, origin, stack, Len(seen))'
        BY <4>2, <3>8
      <4> QED
        BY <4>1, <4>3, <3>3, <3>8, <3>9 DEF OnTheWay, Leading
    <3>10. CASE ~live
      <4>1. wrote' = {} => s = KeysOf(r)
        BY <3>1, <3>6, <3>7, <3>10, <1>8 DEF OnTheWay
      <4>2. KeysOf(origin)' = KeysOf(r)'
        BY <3>8
      <4> QED
        BY <4>1, <4>2, <3>3, <3>8, <3>10 DEF OnTheWay
    <3> QED
      BY <3>9, <3>10
  <2> QED
    BY <2>1, <2>2, <1>7
<1>9. ASSUME UNCHANGED vars, NEW r \in roots
      PROVE  Untouched(home, r)
  BY <1>5, <1>9 DEF Untouched, vars
\* Steps of the walk, from st and with the keys s yielded so far.
<1>10. ASSUME UNCHANGED vars, pc = "idle", node[0].gen = it_gen',
              NEW r \in roots, origin' = r, NEW st, NEW s \in Seq(Keys),
              Advance(st), seen' = s \o Yielded,
              r \notin wrote' /\ lev[r] <= HeightMax =>
                Path(lev, home, r, st, Len(s)) /\ Leading(s, r)
       PROVE  Walks'
  <2>1. pc' = "idle" /\ node'[0].gen = it_gen' /\ Untouched(home, r) /\ r # NoOrigin
    <3>1. r \in Nat
      BY <1>2, <1>5, SoundNodes DEF Shapely, Nodes
    <3> QED
      BY <3>1, <1>9, <1>10 DEF vars, NoOrigin
  <2>2. Noted'
    BY <2>1, <1>5, <1>10 DEF Noted
  <2>3. /\ Height(r)' = Height(r) /\ InOrder(r)' = InOrder(r)
        /\ KeysOf(r)' = KeysOf(r)
        /\ \A z, k : Path(lev, home, r, z, k) => Path(lv, hm, r, z, k)'
    BY <2>1, <1>6, <1>10
  <2>4. ASSUME Unchanged'
        PROVE  OnTheWay(lv, hm)'
    <3>1. r \notin wrote' /\ Height(r)' <= HeightMax
      BY <2>4, <1>10 DEF Unchanged
    <3>2. r \in Nodes /\ lev[r] <= HeightMax
      <4>1. r \in Nodes /\ Levels(lev) /\ Bounded(lev, H)
        BY <1>1, <1>5, <1>10 DEF Ranking
      <4>2. Height(r) = lev[r]
        BY <4>1, <1>2 DEF AllBelow
      <4> QED
        BY <4>1, <4>2, <3>1, <2>3
    <3>3. PICK t, z, x : t = seen' /\ z = stack' /\ x = current'
      OBVIOUS
    <3>4. /\ live' => /\ Len(t) \in 1 .. Len(InOrder(r))
                      /\ Leading(t, r)
                      /\ x = InOrder(r)[Len(t)].key
                      /\ Path(lev, home, r, z, Len(t))
          /\ ~live' => t = KeysOf(r)
      <4>1. /\ Path(lev, home, r, st, Len(s))
            /\ Leading(s, r)
            /\ t = s \o Yielded /\ Advance(st) /\ s \in Seq(Keys)
            /\ Shapely /\ Ranking(lev, home, H)
            /\ r \in Nodes /\ lev[r] <= HeightMax
        BY <1>1, <1>2, <1>10, <3>1, <3>2, <3>3
      <4>2. /\ live' => /\ Len(t) \in 1 .. Len(InOrder(r))
                        /\ Leading(t, r)
                        /\ current' = InOrder(r)[Len(t)].key
                        /\ Path(lev, home, r, stack', Len(t))
            /\ ~live' => t = KeysOf(r)
        BY <4>1, AdvanceYields
      <4> QED
        BY <4>2, <3>3
    <3>5. CASE live'
      <4>1. Path(lv, hm, r, z, Len(t))'
        BY <3>4, <3>5, <2>3
      <4>2. Path(lv, hm, origin, stack, Len(seen))'
        BY <4>1, <3>3, <1>10
      <4> QED
        BY <4>2, <3>3, <3>4, <3>5, <2>3, <1>10 DEF OnTheWay, Leading
    <3>6. CASE ~live'
      <4>1. KeysOf(origin)' = KeysOf(r)'
        BY <1>10
      <4> QED
        BY <4>1, <3>3, <3>4, <3>6, <2>3 DEF OnTheWay
    <3> QED
      BY <3>5, <3>6
  <2> QED
    BY <2>2, <2>4, <1>7
<1>11. CASE Create
  <2>1. PICK t \in Types : InitStructure(t)
    BY <1>11 DEF Create
  <2>2. /\ UNCHANGED <<live, it_gen, stack, current, origin, seen, wrote>>
        /\ pc = "idle" /\ pc' = "idle"
    BY <2>1, <1>11 DEF Create, InitStructure, itvars
  <2>3. used \in Nat /\ DOMAIN node = Nodes
    BY <1>2, SoundNodes DEF Shapely
  <2>4. \A n \in Nodes : node'[n] = node[n]
    BY <2>1, <2>3 DEF InitStructure, Nodes
  <2>5. live => 0 \in Nodes
    <3>1. live => origin \in Nodes
      BY <1>2, <1>5 DEF Noted
    <3> QED
      BY <3>1, <2>3 DEF Nodes
  <2>6. origin \in roots => Untouched(home, origin)
    BY <2>4, <1>5 DEF Untouched
  <2> QED
    BY <2>2, <2>4, <2>5, <2>6, <1>8
<1>12. CASE Write
  <2>1. PICK r \in roots, v \in Values :
          /\ AppendBegin(r, v) \/ \E k \in Keys : SetBegin(r, k, v)
          /\ wrote' = wrote \cup {r}
    BY <1>12 DEF Write
  <2>2. req'.ofs = r /\ node' = node
    BY <2>1 DEF AppendBegin, SetBegin, Start
  <2>3. UNCHANGED <<live, it_gen, stack, current, origin, seen>>
    BY <1>12 DEF Write
  <2>4. origin \in roots => Untouched(home, origin)
    BY <2>2, <1>5 DEF Untouched
  <2> QED
    BY <2>1, <2>2, <2>3, <2>4, <1>8
<1>13. CASE TurnUnderIterator
  <2>1. Turn /\ UNCHANGED <<live, it_gen, stack, current, origin, seen, wrote>>
    BY <1>13 DEF TurnUnderIterator
  <2>2. pc = "loop"
    BY <2>1 DEF Turn, SplitRoot, SplitChild, Descend, Overwrite, InsertLeaf
  <2>3. req.ofs \in wrote /\ (pc' = "loop" => req' = req)
    <3>1. pc' = "loop" => req' = req
      <4>1. CASE SplitRoot \/ SplitChild \/ Descend
        BY <4>1 DEF SplitRoot, SplitChild, Descend
      <4>2. CASE Overwrite \/ InsertLeaf
        <5>1. PICK nd : Return(nd)
          BY <4>2 DEF Overwrite, InsertLeaf
        <5> QED
          BY <5>1 DEF Return
      <4> QED
        BY <4>1, <4>2, <2>1 DEF Turn
    <3> QED
      BY <3>1, <2>2, <1>2 DEF Noted
  <2>4. origin \notin wrote => Untouched(home, origin)
    <3>1. \A n \in Nodes : home[n] # req.ofs => node'[n] = node[n]
      BY <2>1, <1>1, <1>2, TurnElsewhere
    <3> QED
      BY <3>1, <2>3, <1>5 DEF Untouched
  <2> QED
    BY <2>1, <2>3, <2>4, <1>8
<1>14. ASSUME NEW r \in RootsOf("Object"), BeginWalk(r)
       PROVE  Walks'
  <2>1. /\ UNCHANGED vars /\ pc = "idle" /\ it_gen' = node[0].gen /\ origin' = r
        /\ Advance(Leftmost(r, 0)) /\ seen' = Yielded
    BY <1>14 DEF BeginWalk
  <2>2. r \in roots
    BY DEF RootsOf
  <2>3. PICK s : s = <<>>
    OBVIOUS
  <2>4. s \in Seq(Keys) /\ Len(s) = 0
    BY <2>3, EmptySeq
  <2>5. Yielded = s \o Yielded
    <3>1. live' \in BOOLEAN
      BY <1>2 DEF ItTyped, ItTypeOK
    <3>2. PICK y, S : y = Yielded /\ S = {current'}
      OBVIOUS
    <3>3. y \in Seq(S)
      <4>1. <<>> \in Seq(S)
        BY EmptySeq
      <4> QED
        BY <4>1, <3>1, <3>2, YieldsKeys
    <3> QED
      BY <2>3, <3>2, <3>3, ConcatEmptySeq
  <2>6. lev[r] <= HeightMax => Path(lev, home, r, Leftmost(r, 0), Len(s))
    BY <1>1, <1>2, <2>2, <2>4, BeginPath
  <2>7. Leading(s, r)
    BY <2>4 DEF Leading
  <2> QED
    BY <2>1, <2>2, <2>4, <2>5, <2>6, <2>7, <1>10
<1>15. CASE Increment
  <2>1. /\ UNCHANGED <<vars, it_gen, origin, wrote>> /\ pc = "idle" /\ live
    BY <1>15 DEF Increment
  <2>2. CASE node[0].gen # it_gen
    <3>1. live' = FALSE
      BY <2>2, <1>15 DEF Increment
    <3>2. wrote' # {}
      BY <2>1, <2>2, <1>2 DEF Noted
    <3>3. Noted'
      BY <2>1, <3>1, <3>2, <1>2 DEF Noted, vars
    <3>4. OnTheWay(lv, hm)'
      BY <3>1, <3>2 DEF OnTheWay
    <3> QED
      BY <3>3, <3>4, <1>7
  <2>3. CASE node[0].gen = it_gen
    <3>1. PICK r, st, s : r = origin /\ st = stack /\ s = seen
      OBVIOUS
    <3>2. /\ r \in roots /\ r # NoOrigin /\ origin' = r /\ s \in Seq(Keys)
          /\ Advance(st) /\ seen' = s \o Yielded /\ node[0].gen = it_gen'
      BY <2>1, <2>3, <3>1, <1>2, <1>15 DEF Noted, Increment
    <3>3. ASSUME r \notin wrote', lev[r] <= HeightMax
          PROVE  Path(lev, home, r, st, Len(s)) /\ Leading(s, r)
      <4>1. Height(r) = lev[r]
        <5>1. r \in Nodes /\ Levels(lev) /\ Bounded(lev, H)
          BY <1>1, <1>5, <3>2 DEF Ranking
        <5> QED
          BY <5>1, <1>2 DEF AllBelow
      <4>2. Unchanged
        BY <4>1, <3>1, <3>2, <3>3, <2>1 DEF Unchanged
      <4> QED
        BY <4>2, <3>1, <2>1, <1>1 DEF OnTheWay
    <3> QED
      BY <2>1, <3>2, <3>3, <1>10
  <2> QED
    BY <2>2, <2>3
<1>16. CASE UNCHANGED allvars
  <2>1. /\ UNCHANGED vars
        /\ UNCHANGED <<live, it_gen, stack, current, origin, seen, wrote>>
    BY <1>16 DEF allvars, itvars
  <2>2. pc' = pc /\ req' = req /\ node' = node
    BY <2>1 DEF vars
  <2>3. pc = "loop" => req.ofs \in wrote
    BY <1>2 DEF Noted
  <2> QED
    BY <2>1, <2>2, <2>3, <1>8, <1>9
<1> QED
  BY <1>11, <1>12, <1>13, <1>14, <1>15, <1>16 DEF ItNext

LEMMA WalksAlways == ItSpec => []Walks
<1>1. Walks /\ AllBelow /\ AllBelow' /\ [ItNext]_allvars => Walks'
  BY NextWalks
<1> QED
  BY <1>1, InitWalks, AllBelowHolds, PTL DEF ItSpec

\* As long as an object is not written to, and is in a tree no higher than
\* m_stack, an iterator that can be dereferenced has yielded its first keys, in
\* order, and stands on the last of them: other structures of the buffer may be
\* created, written to and split meanwhile.
THEOREM YieldsInOrderAlways == ItSpec => []YieldsInOrder
<1>1. AllBelow /\ Walks => YieldsInOrder
  <2> SUFFICES ASSUME AllBelow, Walks, Readable, origin \notin wrote,
                      Height(origin) <= HeightMax
               PROVE  /\ seen = SubSeq(KeysOf(origin), 1, Len(seen))
                      /\ current = seen[Len(seen)]
    BY DEF YieldsInOrder
  <2>1. PICK lev, home, H : /\ Ranking(lev, home, H)
                            /\ Unchanged => OnTheWay(lev, home)
    BY DEF Walks
  <2>2. PICK r, s, es : r = origin /\ s = seen /\ es = InOrder(r)
    OBVIOUS
  <2>3. r \in Nodes /\ Unchanged /\ live /\ s \in Seq(Keys) /\ Shapely
    BY <2>2 DEF Walks, Noted, Unchanged, Readable, ItTyped, ItTypeOK, Treed,
                Shapely, Sound, TypeOK
  <2>4. /\ Len(s) \in 1 .. Len(es)
        /\ \A p \in 1 .. Len(s) : s[p] = es[p].key
        /\ current = es[Len(s)].key
    BY <2>1, <2>2, <2>3 DEF OnTheWay, Leading
  <2>5. es \in Seq(Entry) /\ Len(es) \in Nat /\ DOMAIN es = 1 .. Len(es)
    <3>1. es \in Seq(Entry)
      BY <2>1, <2>2, <2>3, CutExists
    <3> QED
      BY <3>1, LenProperties
  <2>6. PICK ks : ks = KeysOf(r)
    OBVIOUS
  <2>7. ks = [i \in 1 .. Len(es) |-> es[i].key]
    BY <2>2, <2>5, <2>6 DEF KeysOf
  <2>8. PICK z : z = SubSeq(ks, 1, Len(s))
    OBVIOUS
  <2>9. \A p \in 1 .. Len(s) : p \in 1 .. Len(es) /\ ks[p] = s[p]
    BY <2>4, <2>5, <2>7
  <2>10. /\ z \in Seq(Keys) /\ Len(z) = Len(s)
         /\ \A p \in 1 .. Len(s) : z[p] = ks[p]
    <3>1. \A p \in 1 .. Len(s) : ks[p] \in Keys
      BY <2>3, <2>9, ElementOfSeq
    <3>2. Len(s) \in Nat /\ 1 <= Len(s)
      BY <2>4, <2>5
    <3>3. /\ SubSeq(ks, 1, Len(s)) \in Seq(Keys)
          /\ Len(SubSeq(ks, 1, Len(s))) = IF 1 <= Len(s) THEN Len(s) - 1 + 1 ELSE 0
          /\ \A i \in 1 .. Len(s) - 1 + 1 : SubSeq(ks, 1, Len(s))[i] = ks[1 + i - 1]
      BY <3>1, <3>2, SubSeqProperties
    <3> QED
      BY <3>2, <3>3, <2>8
  <2>11. z = s
    <3>1. /\ z = [p \in 1 .. Len(s) |-> z[p]] /\ s = [p \in 1 .. Len(s) |-> s[p]]
      BY <2>3, <2>10, LenProperties
    <3>2. \A p \in 1 .. Len(s) : z[p] = s[p]
      BY <2>9, <2>10
    <3> QED
      BY <3>1, <3>2
  <2>12. current = s[Len(s)]
    <3>1. Len(s) \in 1 .. Len(s)
      BY <2>4, <2>5
    <3> QED
      BY <3>1, <2>4
  <2> QED
    BY <2>2, <2>6, <2>8, <2>11, <2>12
<1> QED
  BY <1>1, WalksAlways, AllBelowHolds, PTL

\* A walk that was not cut short by a write ends with all keys of its object
\* yielded: Iterator::find_next neither stops early nor leaves one out.
THEOREM EndsCompleteAlways == ItSpec => []EndsComplete
<1>1. Walks => EndsComplete
  BY DEF Walks, Unchanged, OnTheWay, EndsComplete
<1> QED
  BY <1>1, WalksAlways, PTL
=============================================================================
