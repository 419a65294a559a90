-------------------------- MODULE BTreeShapeProofs --------------------------
(***************************************************************************)
(* Proofs about the shape of the search trees, for every value of the      *)
(* constants: no node has two parents, only roots hold few keys, leaves    *)
(* are equally deep, and the path stack of a call holds no more than the   *)
(* depth it has reached allows.                                            *)
(*                                                                         *)
(* The first two are inductive together with Sound.  Most turns leave the  *)
(* links alone; a split moves them, and the proof follows each live link   *)
(* of the new tree back to the link of the old one it was, no two to the   *)
(* same.  Depth is handled by a level for every node, whose existence is   *)
(* inductive too.                                                          *)
(***************************************************************************)
EXTENDS BTreeProofs

Shapely == Sound /\ HalfFull /\ OneParent

-----------------------------------------------------------------------------
(***************************************************************************)
(* Turns that move no link                                                 *)
(***************************************************************************)

\* No node loses keys or changes its children, and only leaves gain keys.
Calm ==
  /\ used' = used /\ roots' = roots
  /\ \A n \in Nodes :
       /\ node'[n].child = node[n].child
       /\ Len(node'[n].keys) >= Len(node[n].keys)
       /\ Len(node'[n].keys) = Len(node[n].keys) \/ IsLeaf(n)

LEMMA CalmShapely ==
  ASSUME Shapely, Sound', Calm
  PROVE  Shapely'
<1>1. /\ Nodes' = Nodes /\ roots' = roots
      /\ \A n \in Nodes : /\ Len(node[n].keys) \in Nat
                          /\ Len(node'[n].keys) \in Nat
                          /\ Len(node'[n].keys) <= MaxKeys
  <2>1. Nodes' = Nodes
    BY DEF Calm, Nodes
  <2>2. \A n \in Nodes' : /\ Len(node'[n].keys) \in Nat
                          /\ Len(node'[n].keys) <= MaxKeys
    <3>1. node' \in [Nodes' -> Node] /\ NodeShape'
      BY DEF Sound, TypeOK
    <3>2. \A n \in Nodes' : node'[n].keys \in Seq(Entry)
      BY <3>1 DEF Node
    <3> QED
      BY <3>1, <3>2, LenProperties DEF NodeShape
  <2> QED
    BY <2>1, <2>2, SoundNodes DEF Shapely, Calm
<1>2. HalfFull'
  BY <1>1, MidInside DEF Calm, HalfFull, Shapely
\* Every live link was a live link before.
<1>3. ASSUME NEW n \in Nodes, NEW s \in Live(n)', node'[n].child[s] # 0
      PROVE  s \in Live(n) /\ node[n].child[s] = node'[n].child[s]
  <2>1. s \in Slots
    BY <1>1, MaxKeysAssumption DEF Live, Slots
  <2>2. ~IsLeaf(n)
    BY <2>1, <1>3 DEF IsLeaf, Calm
  <2> QED
    BY <2>2 DEF Calm, Live
<1>4. OneParent'
  <2> SUFFICES ASSUME NEW n \in Nodes, NEW s \in Live(n)', node'[n].child[s] # 0
               PROVE  /\ node'[n].child[s] \notin roots
                      /\ \A m \in Nodes : \A t \in Live(m)' :
                           node'[m].child[t] = node'[n].child[s]
                             => m = n /\ t = s
    BY <1>1 DEF OneParent
  <2>1. s \in Live(n) /\ node[n].child[s] = node'[n].child[s]
    BY <1>3
  <2>2. ASSUME NEW m \in Nodes, NEW t \in Live(m)',
               node'[m].child[t] = node'[n].child[s]
        PROVE  m = n /\ t = s
    <3>1. t \in Live(m) /\ node[m].child[t] = node'[m].child[t]
      BY <1>3, <2>2
    <3> QED
      BY <2>1, <2>2, <3>1 DEF OneParent, Shapely
  <2> QED
    BY <2>1, <2>2 DEF OneParent, Shapely
<1> QED
  BY <1>2, <1>4 DEF Shapely

\* The end of a call with a node that kept its links is calm.
LEMMA ReturnCalm ==
  ASSUME Sound, pc = "loop", NEW nd, Return(nd),
         nd.child = node[node_ofs].child,
         Len(nd.keys) \in Nat,
         Len(nd.keys) >= Len(node[node_ofs].keys),
         Len(nd.keys) = Len(node[node_ofs].keys) \/ IsLeaf(node_ofs)
  PROVE  Calm
<1> DEFINE written == [node EXCEPT ![node_ofs] = nd]
           z       == (req.hash + 1) % SizeMod
<1>1. /\ used' = used /\ roots' = roots
      /\ node' = IF req.append THEN [written EXCEPT ![req.ofs].size = z]
                 ELSE written
  BY DEF Return
<1>2. /\ DOMAIN node = Nodes /\ node_ofs \in Nodes
      /\ \A n \in Nodes : Len(node[n].keys) \in Nat
  BY SoundNodes, TurnFacts
<1>3. \A n \in Nodes : /\ written[n] = IF n = node_ofs THEN nd ELSE node[n]
                       /\ n \in DOMAIN written
  BY <1>2
<1> HIDE DEF written, z
<1>4. ASSUME NEW n \in Nodes
      PROVE  node'[n].keys = written[n].keys /\ node'[n].child = written[n].child
  <2>1. CASE ~req.append
    BY <2>1, <1>1
  <2>2. CASE req.append /\ n # req.ofs
    BY <2>2, <1>1, <1>3
  <2>3. CASE req.append /\ n = req.ofs
    <3>1. node'[n] = [written[n] EXCEPT !.size = z]
      BY <2>3, <1>1, <1>3
    <3> QED
      BY <3>1
  <2> QED
    BY <2>1, <2>2, <2>3
<1>5. ASSUME NEW n \in Nodes
      PROVE  /\ node'[n].child = node[n].child
             /\ Len(node'[n].keys) >= Len(node[n].keys)
             /\ Len(node'[n].keys) = Len(node[n].keys) \/ IsLeaf(n)
  <2>1. CASE n = node_ofs
    BY <2>1, <1>3, <1>4
  <2>2. CASE n # node_ofs
    BY <2>2, <1>2, <1>3, <1>4
  <2> QED
    BY <2>1, <2>2
<1> QED
  BY <1>1, <1>5 DEF Calm

LEMMA DescendCalm ==
  ASSUME Sound, Descend
  PROVE  Calm
<1>1. /\ pc = "loop" /\ used' = used /\ roots' = roots
      /\ node' = [node EXCEPT ![node_ofs] = Bumped(node_ofs)]
  BY DEF Descend
<1>2. \A n \in Nodes : /\ node'[n].child = node[n].child
                       /\ node'[n].keys = node[n].keys
                       /\ Len(node[n].keys) \in Nat
  BY <1>1, TurnFacts, SoundNodes
<1> QED
  BY <1>1, <1>2 DEF Calm

LEMMA OverwriteCalm ==
  ASSUME Sound, Overwrite
  PROVE  Calm
<1> DEFINE nd == Bumped(node_ofs)
           i  == Position(node[node_ofs].keys, req)
           ks == [nd.keys EXCEPT ![i + 1].val = req.val]
           wr == [nd EXCEPT !.keys[i + 1].val = req.val]
<1>1. pc = "loop" /\ Return(wr)
  BY DEF Overwrite
<1>2. /\ nd \in Node /\ nd.keys \in Seq(Entry)
      /\ nd.keys = node[node_ofs].keys /\ nd.child = node[node_ofs].child
  BY <1>1, TurnFacts DEF WellFormed, Node
<1>3. DOMAIN ks = DOMAIN nd.keys
  OBVIOUS
<1>4. wr = [nd EXCEPT !.keys = ks]
  BY <1>2 DEF Node
<1> HIDE DEF nd, ks, wr, i
<1>5. wr.keys = ks /\ wr.child = nd.child
  BY <1>2, <1>4 DEF Node
<1>6. Len(nd.keys) \in Nat
  BY <1>2, LenProperties
<1>7. Len(ks) = Len(nd.keys)
  <2> DEFINE e == [nd.keys[i + 1] EXCEPT !.val = req.val]
  <2>1. i + 1 \in 1 .. Len(nd.keys)
    BY <1>2, <1>6, PositionStops DEF Overwrite, Found, i
  <2>2. nd.keys[i + 1] \in Entry
    BY <1>2, <2>1, ElementOfSeq
  <2>3. e \in Entry
    BY <2>2, <1>1, TurnFacts DEF Entry
  <2>4. ks = [nd.keys EXCEPT ![i + 1] = e]
    BY DEF ks
  <2> HIDE DEF e
  <2> QED
    BY <2>1, <2>3, <2>4, <1>2, ExceptSeq
<1> QED
  BY <1>1, <1>2, <1>5, <1>6, <1>7, ReturnCalm

LEMMA InsertLeafCalm ==
  ASSUME Sound, InsertLeaf
  PROVE  Calm
<1> DEFINE nd == Bumped(node_ofs)
           i  == Position(node[node_ofs].keys, req)
           e  == [hash |-> req.hash, key |-> req.key, val |-> req.val]
           ks == SubSeq(nd.keys, 1, i) \o <<e>>
                   \o SubSeq(nd.keys, i + 1, Len(nd.keys))
           wr == [nd EXCEPT !.keys = SubSeq(@, 1, i) \o <<e>>
                                       \o SubSeq(@, i + 1, Len(@))]
<1>1. /\ pc = "loop" /\ Return(wr) /\ ~Full(node_ofs)
      /\ node[node_ofs].child[i] = 0
  BY DEF InsertLeaf
<1>2. /\ nd \in Node /\ nd.keys \in Seq(Entry) /\ Len(nd.keys) \in Nat
      /\ nd.keys = node[node_ofs].keys /\ nd.child = node[node_ofs].child
      /\ node_ofs \in Nodes /\ WellFormed(nd, used) /\ req \in Request
      /\ req.val \in Values
  BY <1>1, TurnFacts, LenProperties DEF WellFormed, Node
<1>3. i \in 0 .. Len(nd.keys)
  BY <1>2, PositionStops
<1>4. e \in Entry
  BY <1>2 DEF Entry, Request
<1>5. wr = [nd EXCEPT !.keys = ks]
  BY <1>2 DEF Node
<1> HIDE DEF nd, i, e
<1>6. ks \in Seq(Entry) /\ Len(ks) = Len(nd.keys) + 1
  BY <1>2, <1>3, <1>4, InsertedSeq, ZenonT(60)
<1> HIDE DEF ks, wr
<1>7. wr.keys = ks /\ wr.child = nd.child
  BY <1>2, <1>5, <1>6 DEF Node
<1>8. IsLeaf(node_ofs)
  BY <1>1, <1>2, <1>3 DEF WellFormed, IsLeaf
<1> QED
  BY <1>1, <1>2, <1>6, <1>7, <1>8, ReturnCalm

-----------------------------------------------------------------------------
(***************************************************************************)
(* Steps that lay out a node                                               *)
(***************************************************************************)

\* A new structure is an empty root that links to nothing.
LEMMA CreateShapely ==
  ASSUME Shapely, NEW type \in Types, InitStructure(type)
  PROVE  Shapely'
<1>1. Sound'
  BY CreateSound DEF Shapely
<1>2. /\ used \in Nat /\ Nodes' = Nodes \cup {used} /\ used \notin Nodes
      /\ roots' = roots \cup {used} /\ roots \subseteq Nodes
  BY SoundNodes DEF Shapely, InitStructure, Nodes, Sound, TypeOK
<1>3. /\ node' = [n \in 0 .. used |->
                IF n = used THEN EmptyNode(1, type) ELSE node[n]]
      /\ 0 .. used = Nodes'
  BY <1>2 DEF InitStructure, Nodes
<1>4. \A n \in Nodes : node'[n] = node[n]
  BY <1>2, <1>3
<1>5. node'[used].keys = << >> /\ node'[used].child = NoChildren
  BY <1>2, <1>3 DEF EmptyNode
<1>6. HalfFull'
  BY <1>2, <1>4 DEF HalfFull, Shapely
<1>7. ASSUME NEW n \in Nodes', NEW s \in Live(n)', node'[n].child[s] # 0
      PROVE  /\ n \in Nodes /\ s \in Live(n) /\ node[n].child[s] = node'[n].child[s]
             /\ node[n].child[s] \in Nodes
  <2>1. n # used
    <3>1. SUFFICES ASSUME n = used
                   PROVE  FALSE
      OBVIOUS
    <3>2. s = 0
      BY <1>5, <3>1, EmptySeq DEF Live
    <3> QED
      BY <1>5, <1>7, <3>1, <3>2, MaxKeysAssumption DEF NoChildren, Slots
  <2>2. n \in Nodes /\ s \in Live(n) /\ node[n].child[s] = node'[n].child[s]
    BY <2>1, <1>2, <1>4 DEF Live
  <2>3. s \in Slots /\ WellFormed(node[n], used)
    BY <2>2, SoundNodes, MaxKeysAssumption, SMTT(30) DEF Live, Slots, WellFormed, Shapely
  <2> QED
    BY <2>2, <2>3 DEF WellFormed, Nodes
<1>8. OneParent'
  <2> SUFFICES ASSUME NEW n \in Nodes', NEW s \in Live(n)', node'[n].child[s] # 0
               PROVE  /\ node'[n].child[s] \notin roots'
                      /\ \A m \in Nodes' : \A t \in Live(m)' :
                           node'[m].child[t] = node'[n].child[s]
                             => m = n /\ t = s
    BY DEF OneParent
  <2>1. \A m \in Nodes' : \A t \in Live(m)' :
          node'[m].child[t] = node'[n].child[s]
            => m \in Nodes /\ t \in Live(m) /\ node[m].child[t] = node'[m].child[t]
    BY <1>7
  <2>2. /\ n \in Nodes /\ s \in Live(n) /\ node[n].child[s] = node'[n].child[s]
        /\ node[n].child[s] \in Nodes
    BY <1>7
  <2> QED
    BY <2>1, <2>2, <1>2 DEF OneParent, Shapely
<1> QED
  BY <1>1, <1>6, <1>8 DEF Shapely

\* The live links of the buffer, before and after a step.
Link(n, s) == n \in Nodes /\ s \in Live(n) /\ node[n].child[s] # 0

\* A live link after the step, other than slot b of node a.
Moved(n, s, a, b) == Link(n, s)' /\ ~(n = a /\ s = b)

\* It was the live link of slot t[n][s] of node m[n][s] before; and no two of
\* them were the same.
WereLinks(m, t, a, b) ==
  \A n, s : Moved(n, s, a, b) =>
    /\ Link(m[n][s], t[n][s])
    /\ node[m[n][s]].child[t[n][s]] = node'[n].child[s]
WereApart(m, t, a, b) ==
  \A n1, s1, n2, s2 :
    (/\ Moved(n1, s1, a, b) /\ Moved(n2, s2, a, b)
     /\ m[n1][s1] = m[n2][s2] /\ t[n1][s1] = t[n2][s2])
    => n1 = n2 /\ s1 = s2

\* A split that moves all live links and adds one to the new node leaves every
\* node one parent.
LEMMA LinksMoved ==
  ASSUME Shapely, used' = used + 1, roots' = roots, NEW m, NEW t, NEW a, NEW b,
         WereLinks(m, t, a, b), WereApart(m, t, a, b), node'[a].child[b] = used
  PROVE  OneParent'
<1>1. /\ used \in Nat /\ roots \subseteq Nodes /\ used \notin Nodes
  BY DEF Shapely, Sound, TypeOK, Nodes
<1>2. ASSUME NEW n, NEW s, Link(n, s)
      PROVE  /\ node[n].child[s] \in Nodes
             /\ node[n].child[s] \notin roots
             /\ \A n2, s2 : Link(n2, s2) /\ node[n2].child[s2] = node[n].child[s]
                  => n2 = n /\ s2 = s
  <2>1. s \in Slots /\ WellFormed(node[n], used)
    BY <1>2, SoundNodes, MaxKeysAssumption, SMTT(30)
       DEF Link, Live, Slots, WellFormed, Shapely
  <2>2. node[n].child[s] \in Nodes
    BY <2>1 DEF WellFormed, Nodes
  <2> QED
    BY <2>2, <1>2 DEF Link, OneParent, Shapely
<1>3. ASSUME NEW n1, NEW s1, NEW n2, NEW s2, Link(n1, s1)', Link(n2, s2)',
             node'[n2].child[s2] = node'[n1].child[s1]
      PROVE  n2 = n1 /\ s2 = s1
  <2>1. \A n, s : Moved(n, s, a, b) => node'[n].child[s] # used
    BY <1>1, <1>2 DEF WereLinks
  <2>2. CASE n1 = a /\ s1 = b
    BY <1>3, <2>1, <2>2 DEF Moved
  <2>3. CASE n2 = a /\ s2 = b
    BY <1>3, <2>1, <2>3 DEF Moved
  <2>4. CASE ~(n1 = a /\ s1 = b) /\ ~(n2 = a /\ s2 = b)
    <3>0. Moved(n1, s1, a, b) /\ Moved(n2, s2, a, b)
      BY <1>3, <2>4 DEF Moved
    <3>1. /\ Link(m[n1][s1], t[n1][s1]) /\ Link(m[n2][s2], t[n2][s2])
          /\ node[m[n1][s1]].child[t[n1][s1]] = node[m[n2][s2]].child[t[n2][s2]]
      BY <1>3, <3>0, Zenon DEF WereLinks
    <3>2. m[n1][s1] = m[n2][s2] /\ t[n1][s1] = t[n2][s2]
      BY <3>1, <1>2, ZenonT(60)
    <3> QED
      BY <3>0, <3>2 DEF WereApart
  <2> QED
    BY <2>2, <2>3, <2>4
<1>4. ASSUME NEW n, NEW s, Link(n, s)'
      PROVE  node'[n].child[s] \notin roots'
  <2>1. CASE n = a /\ s = b
    BY <1>1, <2>1
  <2>2. CASE ~(n = a /\ s = b)
    <3>1. Moved(n, s, a, b)
      BY <1>4, <2>2 DEF Moved
    <3> QED
      BY <3>1, <1>2 DEF WereLinks
  <2> QED
    BY <2>1, <2>2
<1> QED
  <2> SUFFICES ASSUME NEW n \in Nodes', NEW s \in Live(n)', node'[n].child[s] # 0
               PROVE  /\ node'[n].child[s] \notin roots'
                      /\ \A n2 \in Nodes' : \A s2 \in Live(n2)' :
                           node'[n2].child[s2] = node'[n].child[s]
                             => n2 = n /\ s2 = s
    BY DEF OneParent
  <2>1. Link(n, s)'
    BY DEF Link
  <2>2. \A n2 \in Nodes' : \A s2 \in Live(n2)' :
          node'[n2].child[s2] = node'[n].child[s] => Link(n2, s2)'
    BY DEF Link
  <2> QED
    BY <2>1, <2>2, <1>3, <1>4

\* A live link leaves from a slot of its node.
LEMMA LinkSlots ==
  ASSUME Sound'
  PROVE  \A n, s : Link(n, s)' => n \in Nodes' /\ s \in Slots
<1>1. \A n \in Nodes' : Len(node'[n].keys) <= MaxKeys /\ Len(node'[n].keys) \in Nat
  <2>1. node' \in [Nodes' -> Node] /\ NodeShape'
    BY DEF Sound, TypeOK
  <2>2. \A n \in Nodes' : node'[n].keys \in Seq(Entry)
    BY <2>1 DEF Node
  <2> QED
    BY <2>1, <2>2, LenProperties DEF NodeShape
<1> QED
  BY <1>1, MaxKeysAssumption DEF Link, Live, Slots

\* The split of a root hands all its links to the new node.
LEMMA SplitRootShapely ==
  ASSUME Shapely, SplitRoot
  PROVE  Shapely'
<1>1. Sound' /\ Sound /\ pc = "loop"
  BY SplitRootSound DEF Shapely, SplitRoot
<1>2. /\ used' = used + 1 /\ roots' = roots /\ node_ofs \in roots
      /\ node'[used] = Bumped(node_ofs)
      /\ Len(node'[node_ofs].keys) = 0
      /\ node'[node_ofs].child = [s \in Slots |-> IF s = 0 THEN used ELSE 0]
      /\ \A n \in Nodes \ {node_ofs} : node'[n] = node[n]
  BY <1>1, SplitRootNodes
<1>3. /\ used \in Nat /\ roots \subseteq Nodes /\ used \notin Nodes
      /\ Nodes' = Nodes \cup {used} /\ node_ofs \in Nodes
      /\ Bumped(node_ofs).keys = node[node_ofs].keys
      /\ Bumped(node_ofs).child = node[node_ofs].child
  BY <1>1, <1>2, TurnFacts DEF Sound, TypeOK, Nodes
<1>4. HalfFull'
  <2>1. Full(node_ofs) /\ Len(node[node_ofs].keys) = MaxKeys
    BY <1>1, <1>3, FullIsExact DEF SplitRoot
  <2>2. Len(node'[used].keys) >= Mid
    BY <2>1, <1>2, <1>3, MidInside, MaxKeysAssumption
  <2>3. \A n \in Nodes \ roots : Len(node'[n].keys) >= Mid
    BY <1>2 DEF HalfFull, Shapely
  <2> QED
    BY <2>2, <2>3, <1>2, <1>3 DEF HalfFull
<1> DEFINE m == [n \in Nodes' |-> [s \in Slots |->
                   IF n = used THEN node_ofs ELSE n]]
           t == [n \in Nodes' |-> [s \in Slots |-> s]]
<1>5. ASSUME NEW n, NEW s, Moved(n, s, node_ofs, 0)
      PROVE  /\ n # node_ofs /\ m[n][s] = (IF n = used THEN node_ofs ELSE n)
             /\ t[n][s] = s
             /\ Link(m[n][s], t[n][s])
             /\ node[m[n][s]].child[t[n][s]] = node'[n].child[s]
  <2>1. n \in Nodes' /\ s \in Slots
    BY <1>1, <1>5, LinkSlots DEF Moved
  <2>2. n # node_ofs
    BY <2>1, <1>2, <1>5 DEF Link, Moved
  <2>3. m[n][s] = (IF n = used THEN node_ofs ELSE n) /\ t[n][s] = s
    BY <2>1
  <2>4. CASE n = used
    BY <2>3, <2>4, <1>2, <1>3, <1>5 DEF Link, Live, Moved
  <2>5. CASE n # used
    BY <2>1, <2>2, <2>3, <2>5, <1>2, <1>3, <1>5 DEF Link, Live, Moved
  <2> QED
    BY <2>2, <2>3, <2>4, <2>5
<1> HIDE DEF m, t
<1>6. node'[node_ofs].child[0] = used
  BY <1>2, MaxKeysAssumption DEF Slots
<1>7. ASSUME NEW n1, NEW s1, Moved(n1, s1, node_ofs, 0),
             NEW n2, NEW s2, Moved(n2, s2, node_ofs, 0),
             m[n1][s1] = m[n2][s2], t[n1][s1] = t[n2][s2]
      PROVE  n1 = n2 /\ s1 = s2
  <2>1. /\ n1 # node_ofs /\ m[n1][s1] = (IF n1 = used THEN node_ofs ELSE n1)
        /\ t[n1][s1] = s1
    BY <1>5, <1>7, ZenonT(60)
  <2>2. /\ n2 # node_ofs /\ m[n2][s2] = (IF n2 = used THEN node_ofs ELSE n2)
        /\ t[n2][s2] = s2
    BY <1>5, <1>7, ZenonT(60)
  <2> QED
    BY <2>1, <2>2, <1>7
<1>8. WereLinks(m, t, node_ofs, 0) /\ WereApart(m, t, node_ofs, 0)
  BY <1>5, <1>7 DEF WereLinks, WereApart
<1>9. OneParent'
  BY <1>2, <1>6, <1>8, LinksMoved, Zenon
<1> QED
  BY <1>1, <1>4, <1>9 DEF Shapely

\* The split below a root hands the links after the median to the sibling and
\* moves the parent's later links by one.
LEMMA SplitChildShapely ==
  ASSUME Shapely, SplitChild
  PROVE  Shapely'
<1> DEFINE p == parent_ofs
<1>1. Sound' /\ Sound /\ pc = "loop"
  BY SplitChildSound DEF Shapely, SplitChild
<1>2. /\ used' = used + 1 /\ roots' = roots
      /\ p \in Nodes /\ p # node_ofs
      /\ Len(node[node_ofs].keys) = MaxKeys
      /\ Len(node[p].keys) \in Nat /\ Len(node[p].keys) < MaxKeys
      /\ Len(node'[used].keys) = Mid
      /\ \A s \in 0 .. Mid :
           node'[used].child[s] = node[node_ofs].child[Mid + 1 + s]
      /\ Len(node'[node_ofs].keys) = Mid
      /\ node'[node_ofs].child = node[node_ofs].child
      /\ Len(node'[p].keys) = Len(node[p].keys) + 1
      /\ \A n \in Nodes \ {node_ofs, p} : node'[n] = node[n]
  BY <1>1, SplitChildNodes
<1>3. PICK i \in 0 .. Len(node[p].keys) :
        /\ node[p].child[i] = node_ofs
        /\ node'[p].child = [s \in Slots |->
             CASE s = i + 1 -> used
               [] s > i + 1 /\ s <= Len(node[p].keys) + 1 -> node[p].child[s - 1]
               [] OTHER -> node[p].child[s]]
  BY <1>1, SplitChildNodes
<1>4. /\ used \in Nat /\ roots \subseteq Nodes /\ used \notin Nodes
      /\ Nodes' = Nodes \cup {used} /\ node_ofs \in Nodes
  <2>1. used \in Nat /\ roots \subseteq Nodes /\ node_ofs \in Nodes
    BY <1>1, TurnFacts DEF Sound, TypeOK
  <2> QED
    BY <2>1, <1>2 DEF Nodes
<1>5. HalfFull'
  <2>1. \A n \in Nodes \ roots : Len(node'[n].keys) >= Mid
    <3>1. \A n \in Nodes \ roots : Len(node[n].keys) >= Mid
      BY DEF HalfFull, Shapely
    <3>2. p \notin roots => Len(node'[p].keys) >= Mid
      BY <3>1, <1>2, MidInside
    <3> QED
      BY <3>1, <3>2, <1>2, MidInside, SMTT(30)
  <2> QED
    BY <2>1, <1>2, <1>4, MidInside DEF HalfFull
<1> DEFINE m == [n \in Nodes' |-> [s \in Slots |->
                   IF n = used THEN node_ofs ELSE n]]
           t == [n \in Nodes' |-> [s \in Slots |->
                   CASE n = used -> Mid + 1 + s
                     [] n = p /\ s > i -> s - 1
                     [] OTHER -> s]]
<1>6. ASSUME NEW n, NEW s, Moved(n, s, p, i + 1)
      PROVE  /\ n \in Nodes' /\ s \in Nat
             /\ m[n][s] = (IF n = used THEN node_ofs ELSE n)
             /\ n = node_ofs => s <= Mid /\ t[n][s] = s
             /\ n = used => t[n][s] = Mid + 1 + s
             /\ n = p /\ s <= i => t[n][s] = s
             /\ n = p /\ s > i => s > i + 1 /\ t[n][s] = s - 1
             /\ n \notin {node_ofs, used, p} => t[n][s] = s
             /\ Link(m[n][s], t[n][s])
             /\ node[m[n][s]].child[t[n][s]] = node'[n].child[s]
  <2>1. /\ n \in Nodes' /\ s \in Slots /\ s \in Live(n)' /\ s \in Nat
        /\ node'[n].child[s] # 0
    BY <1>1, <1>6, LinkSlots DEF Link, Live, Moved, Slots
  <2>2. /\ m[n][s] = (IF n = used THEN node_ofs ELSE n)
        /\ n = used => t[n][s] = Mid + 1 + s
        /\ n = p /\ s > i => t[n][s] = s - 1
        /\ n # used /\ ~(n = p /\ s > i) => t[n][s] = s
    BY <2>1, <1>2, <1>4
  <2> HIDE DEF m, t
  <2>3. CASE n = used
    <3>1. s \in 0 .. Mid /\ Mid + 1 + s \in 0 .. Len(node[node_ofs].keys)
      <4>1. Live(n)' = 0 .. Mid
        BY <2>3, <1>2 DEF Live
      <4> QED
        BY <4>1, <2>1, <1>2, MidInside
    <3>2. m[n][s] = node_ofs /\ t[n][s] = Mid + 1 + s
      BY <2>2, <2>3
    <3>3. node[node_ofs].child[Mid + 1 + s] = node'[n].child[s]
      BY <3>1, <2>3, <1>2
    <3> QED
      BY <3>1, <3>2, <3>3, <2>1, <2>3, <1>2, <1>4 DEF Link, Live
  <2>4. CASE n = node_ofs
    <3>1. m[n][s] = n /\ t[n][s] = s
      BY <2>2, <2>4, <1>2, <1>4
    <3>2. s <= Mid /\ s \in 0 .. Len(node[n].keys)
      BY <2>1, <2>4, <1>2, MidInside DEF Live
    <3> QED
      BY <3>1, <3>2, <2>1, <2>4, <1>2, <1>4 DEF Link, Live
  <2>5. CASE n = p
    <3>1. n # used /\ n # node_ofs /\ s <= Len(node[p].keys) + 1 /\ s # i + 1
      BY <2>1, <2>5, <1>2, <1>4, <1>6 DEF Live, Moved
    <3>2. CASE s <= i
      <4>1. m[n][s] = p /\ t[n][s] = s /\ node'[n].child[s] = node[p].child[s]
        BY <2>1, <2>2, <2>5, <3>1, <3>2, <1>3
      <4>2. s \in 0 .. Len(node[p].keys)
        BY <2>1, <3>2, <1>2
      <4> QED
        BY <4>1, <4>2, <2>1, <2>5, <3>1, <3>2, <1>2 DEF Link, Live
    <3>3. CASE s > i
      <4>1. s > i + 1
        BY <3>1, <3>3, <2>1
      <4>2. /\ m[n][s] = p /\ t[n][s] = s - 1
            /\ node'[n].child[s] = node[p].child[s - 1]
        BY <4>1, <2>1, <2>2, <2>5, <3>1, <3>3, <1>3
      <4>3. s - 1 \in 0 .. Len(node[p].keys)
        BY <4>1, <2>1, <3>1, <1>2
      <4> QED
        BY <4>1, <4>2, <4>3, <2>1, <2>5, <3>1, <3>3, <1>2 DEF Link, Live
    <3> QED
      BY <3>2, <3>3, <2>1
  <2>6. CASE n \notin {node_ofs, used, p}
    <3>1. m[n][s] = n /\ t[n][s] = s
      BY <2>2, <2>6
    <3>2. n \in Nodes /\ node'[n] = node[n]
      BY <2>1, <2>6, <1>2, <1>4
    <3> QED
      BY <3>1, <3>2, <2>1, <2>6 DEF Link, Live
  <2> QED
    BY <2>3, <2>4, <2>5, <2>6
<1> HIDE DEF m, t
\* No two links were the same: the halves' come from either side of the
\* median's child slots, the parent's from either side of the new one.
<1>7. ASSUME NEW n1, NEW s1, Moved(n1, s1, p, i + 1),
             NEW n2, NEW s2, Moved(n2, s2, p, i + 1),
             m[n1][s1] = m[n2][s2], t[n1][s1] = t[n2][s2]
      PROVE  n1 = n2 /\ s1 = s2
  <2>1. /\ n1 \in Nodes' /\ s1 \in Nat
        /\ m[n1][s1] = (IF n1 = used THEN node_ofs ELSE n1)
        /\ n1 = node_ofs => s1 <= Mid /\ t[n1][s1] = s1
        /\ n1 = used => t[n1][s1] = Mid + 1 + s1
        /\ n1 = p /\ s1 <= i => t[n1][s1] = s1
        /\ n1 = p /\ s1 > i => s1 > i + 1 /\ t[n1][s1] = s1 - 1
        /\ n1 \notin {node_ofs, used, p} => t[n1][s1] = s1
    BY <1>6, <1>7
  <2>2. /\ n2 \in Nodes' /\ s2 \in Nat
        /\ m[n2][s2] = (IF n2 = used THEN node_ofs ELSE n2)
        /\ n2 = node_ofs => s2 <= Mid /\ t[n2][s2] = s2
        /\ n2 = used => t[n2][s2] = Mid + 1 + s2
        /\ n2 = p /\ s2 <= i => t[n2][s2] = s2
        /\ n2 = p /\ s2 > i => s2 > i + 1 /\ t[n2][s2] = s2 - 1
        /\ n2 \notin {node_ofs, used, p} => t[n2][s2] = s2
    BY <1>6, <1>7
  <2>3. PICK a : a = t[n1][s1] /\ a = t[n2][s2]
    BY <1>7
  <2>4. n1 = n2
    <3>1. n1 = used /\ n2 = node_ofs => Mid + 1 + s1 = s2 /\ s2 <= Mid
      BY <2>1, <2>2, <2>3
    <3>2. n2 = used /\ n1 = node_ofs => Mid + 1 + s2 = s1 /\ s1 <= Mid
      BY <2>1, <2>2, <2>3
    <3>3. Mid \in Nat
      BY MidInside
    <3>4. ~(n1 = used /\ n2 = node_ofs) /\ ~(n2 = used /\ n1 = node_ofs)
      BY <3>1, <3>2, <3>3, <2>1, <2>2
    <3> QED
      BY <3>4, <2>1, <2>2, <1>7
  <2>5. CASE n1 = node_ofs
    BY <2>1, <2>2, <2>3, <2>4, <2>5
  <2>6. CASE n1 = used
    <3>1. Mid + 1 + s1 = Mid + 1 + s2 /\ Mid \in Nat
      BY <2>1, <2>2, <2>3, <2>4, <2>6, MidInside
    <3> QED
      BY <3>1, <2>1, <2>2, <2>4
  <2>7. CASE n1 = p
    <3>1. i \in Nat /\ s1 \in Nat /\ s2 \in Nat
      BY <2>1, <2>2, <1>2
    <3>2. (s1 <= i /\ a = s1) \/ (s1 > i + 1 /\ a = s1 - 1)
      BY <2>1, <2>3, <2>7, <3>1
    <3>3. (s2 <= i /\ a = s2) \/ (s2 > i + 1 /\ a = s2 - 1)
      BY <2>2, <2>3, <2>4, <2>7, <3>1
    <3> QED
      BY <3>1, <3>2, <3>3, <2>4
  <2>8. CASE n1 \notin {node_ofs, used, p}
    BY <2>1, <2>2, <2>3, <2>4, <2>8
  <2> QED
    BY <2>5, <2>6, <2>7, <2>8
<1>8. node'[p].child[i + 1] = used
  BY <1>2, <1>3, MaxKeysAssumption DEF Slots
<1>9. WereLinks(m, t, p, i + 1) /\ WereApart(m, t, p, i + 1)
  BY <1>6, <1>7 DEF WereLinks, WereApart
<1>10. OneParent'
  BY <1>2, <1>8, <1>9, LinksMoved, Zenon
<1> QED
  BY <1>1, <1>5, <1>10 DEF Shapely

-----------------------------------------------------------------------------
(***************************************************************************)
(* The theorems                                                            *)
(***************************************************************************)

LEMMA InitShapely == Init => Shapely
BY InitSound DEF Init, Shapely, HalfFull, OneParent, Nodes

LEMMA NextShapely ==
  ASSUME Shapely, [Next]_vars
  PROVE  Shapely'
<1>1. Sound /\ Sound'
  BY NextSound DEF Shapely
<1>2. ASSUME NEW t \in Types, InitStructure(t)
      PROVE  Shapely'
  BY <1>2, CreateShapely
<1>3. ASSUME NEW request, Start(request)
      PROVE  Shapely'
  <2>1. Calm
    BY <1>1, <1>3, SoundNodes DEF Start, Calm
  <2> QED
    BY <1>1, <2>1, CalmShapely
<1>4. CASE SplitRoot
  BY <1>4, SplitRootShapely
<1>5. CASE SplitChild
  BY <1>5, SplitChildShapely
<1>6. CASE Descend \/ Overwrite \/ InsertLeaf
  BY <1>1, <1>6, DescendCalm, OverwriteCalm, InsertLeafCalm, CalmShapely
<1>7. CASE UNCHANGED vars
  <2>1. Calm
    BY <1>1, <1>7, SoundNodes DEF vars, Calm
  <2> QED
    BY <1>1, <2>1, CalmShapely
<1> QED
  BY <1>2, <1>3, <1>4, <1>5, <1>6, <1>7, Zenon
     DEF Next, Turn, SetBegin, AppendBegin

\* The invariant behind the two theorems below.
THEOREM ShapelyAlways == Spec => []Shapely
<1> QED
  BY InitShapely, NextShapely, PTL DEF Spec

\* Structures laid out in one buffer never share a subtree and no split of
\* set_impl leaves a node linked from two places, whatever is written.
THEOREM OneParentAlways == Spec => []OneParent
<1>1. Shapely => OneParent
  BY DEF Shapely
<1> QED
  BY <1>1, ShapelyAlways, PTL

\* The splits of set_impl leave every node but a root at least half full.
THEOREM HalfFullAlways == Spec => []HalfFull
<1>1. Shapely => HalfFull
  BY DEF Shapely
<1> QED
  BY <1>1, ShapelyAlways, PTL

-----------------------------------------------------------------------------
(***************************************************************************)
(* Levels and trees                                                        *)
(***************************************************************************)

\* lev counts the levels below each node, the same under all its children.
Levels(lev) ==
  /\ lev \in [Nodes -> Nat]
  /\ \A n \in Nodes :
       IF IsLeaf(n) THEN lev[n] = 0
       ELSE \A s \in Live(n) : lev[n] = lev[node[n].child[s]] + 1

\* home names the root of each node.
Trees(home) ==
  /\ home \in [Nodes -> roots]
  /\ \A r \in roots : home[r] = r
  /\ \A n \in Nodes : \A s \in Live(n) :
       node[n].child[s] # 0 => home[node[n].child[s]] = home[n]

\* All nodes but roots hang in a tree.
Hung == \A c \in Nodes \ roots : \E n \in Nodes : ~IsLeaf(n) /\ Reaches(n, c)

\* How far below its root the walk is, and how many turns took it there.
WalkRank(lev, home) ==
  pc = "loop" =>
    /\ home[node_ofs] = req.ofs
    /\ path_depth <= 2 * (lev[req.ofs] - lev[node_ofs])
    /\ Full(node_ofs) /\ parent_ofs # NoParent =>
         path_depth + 1 <= 2 * (lev[req.ofs] - lev[node_ofs])

\* No node is more than H levels high.
Bounded(lev, H) == H \in Nat /\ \A n \in Nodes : lev[n] <= H

Ranking(lev, home, H) ==
  Levels(lev) /\ Trees(home) /\ WalkRank(lev, home) /\ Bounded(lev, H)

Ranked == Shapely /\ Hung /\ \E lev, home, H : Ranking(lev, home, H)

\* Where a live link leads.
LEMMA LinkEnds ==
  ASSUME Shapely, NEW n \in Nodes, NEW s \in Live(n)
  PROVE  /\ s \in Slots
         /\ node[n].child[s] \in Nodes \cup {0}
         /\ ~IsLeaf(n) => node[n].child[s] # 0
         /\ IsLeaf(n) => node[n].child[s] = 0
         /\ node[n].child[s] # 0 =>
              /\ node[n].child[s] \in Nodes
              /\ node[n].child[s] \notin roots
              /\ \A m \in Nodes : \A t \in Live(m) :
                   node[m].child[t] = node[n].child[s] => m = n /\ t = s
<1>1. s \in Slots /\ WellFormed(node[n], used)
  BY SoundNodes, MaxKeysAssumption, SMTT(30) DEF Live, Slots, WellFormed, Shapely
<1>2. node[n].child[s] \in Nodes \cup {0} /\ (IsLeaf(n) \/ node[n].child[s] # 0)
  BY <1>1 DEF WellFormed, IsLeaf, Live, Nodes
<1>3. IsLeaf(n) => node[n].child[s] = 0
  BY <1>1 DEF IsLeaf
<1> QED
  BY <1>1, <1>2, <1>3 DEF OneParent, Shapely

\* Steps that move no link keep levels and trees.
LEMMA CalmRanks ==
  ASSUME Shapely, Sound', Calm, NEW lev, NEW home, NEW H,
         Levels(lev), Trees(home), Bounded(lev, H)
  PROVE  Levels(lev)' /\ Trees(home)' /\ Bounded(lev, H)' /\ (Hung => Hung')
<1>1. /\ Nodes' = Nodes /\ roots' = roots
      /\ \A n \in Nodes : /\ Len(node[n].keys) \in Nat
                          /\ Len(node'[n].keys) \in Nat
                          /\ node'[n].child = node[n].child
                          /\ IsLeaf(n)' <=> IsLeaf(n)
                          /\ Len(node'[n].keys) >= Len(node[n].keys)
                          /\ ~IsLeaf(n) => Len(node'[n].keys) = Len(node[n].keys)
  <2>1. Nodes' = Nodes
    BY DEF Calm, Nodes
  <2>2. \A n \in Nodes' : node'[n].keys \in Seq(Entry)
    BY DEF Sound, TypeOK, Node
  <2> QED
    BY <2>1, <2>2, SoundNodes, LenProperties DEF Calm, IsLeaf, Shapely
<1>2. \A n \in Nodes : ~IsLeaf(n) => Live(n)' = Live(n)
  BY <1>1 DEF Live
<1>3. Levels(lev)' /\ Bounded(lev, H)'
  BY <1>1, <1>2 DEF Levels, Bounded
<1>4. ASSUME NEW n \in Nodes, NEW s \in Live(n)', node'[n].child[s] # 0
      PROVE  home[node'[n].child[s]] = home[n]
  <2>1. s \in Slots
    <3>1. Len(node'[n].keys) <= MaxKeys
      BY <1>1 DEF Sound, NodeShape
    <3> QED
      BY <1>1, <3>1, MaxKeysAssumption DEF Live, Slots
  <2>2. ~IsLeaf(n)
    BY <2>1, <1>1, <1>4 DEF IsLeaf
  <2> QED
    BY <2>2, <1>1, <1>2, <1>4 DEF Trees
<1>5. \A n \in Nodes : \A c : ~IsLeaf(n) /\ Reaches(n, c) => ~IsLeaf(n)' /\ Reaches(n, c)'
  BY <1>1, <1>2 DEF Reaches
<1>6. Trees(home)'
  BY <1>1, <1>4 DEF Trees
<1>7. Hung => Hung'
  BY <1>1, <1>5 DEF Hung
<1> QED
  BY <1>3, <1>6, <1>7

\* After a step the trees are ranked, no node has changed its tree, and none has
\* come off it.
Onward(home) ==
  /\ Shapely' /\ (Hung => Hung')
  /\ \E lv, hm, h : Ranking(lv, hm, h)' /\ \A n \in Nodes : hm[n] = home[n]

LEMMA CreateRanks ==
  ASSUME Shapely, NEW type \in Types, InitStructure(type),
         NEW lev, NEW home, NEW H, Ranking(lev, home, H)
  PROVE  Onward(home)
<1>u. PICK u : u = used
  OBVIOUS
<1>a. PICK lv : lv = [n \in Nodes' |-> IF n = u THEN 0 ELSE lev[n]]
  OBVIOUS
<1>b. PICK hm : hm = [n \in Nodes' |-> IF n = u THEN u ELSE home[n]]
  OBVIOUS
<1>1. Shapely'
  BY CreateShapely
<1>2. /\ u \in Nat /\ Nodes' = Nodes \cup {u} /\ u \notin Nodes
      /\ roots' = roots \cup {u} /\ roots \subseteq Nodes /\ 0 .. u = Nodes'
      /\ \A n \in Nodes : node'[n] = node[n]
      /\ node'[u].keys = << >> /\ node'[u].child = NoChildren
      /\ 0 \in Nodes \cup {u}
  <2>1. /\ u \in Nat /\ used' = u + 1 /\ roots \subseteq Nodes
        /\ roots' = roots \cup {u}
    BY SoundNodes, <1>u DEF Shapely, InitStructure, Sound, TypeOK
  <2>2. node' = [n \in 0 .. u |->
                  IF n = u THEN EmptyNode(1, type) ELSE node[n]]
    BY <1>u DEF InitStructure
  <2> QED
    BY <2>1, <2>2, <1>u DEF Nodes, EmptyNode
<1>3. /\ \A n \in Nodes : /\ IsLeaf(n)' <=> IsLeaf(n)
                          /\ Live(n)' = Live(n)
                          /\ n # u
      /\ IsLeaf(u)'
      /\ Live(u)' = {0} /\ node'[u].child[0] = 0
  <2>1. Len(node'[u].keys) = 0 /\ 0 \in Slots /\ 0 .. 0 = {0}
    BY <1>2, EmptySeq, MaxKeysAssumption DEF Slots
  <2>2. \A s \in Slots : node'[u].child[s] = 0
    BY <1>2 DEF NoChildren
  <2>3. ASSUME NEW n \in Nodes
        PROVE  (IsLeaf(n)' <=> IsLeaf(n)) /\ Live(n)' = Live(n) /\ n # u
    BY <1>2 DEF IsLeaf, Live
  <2> QED
    BY <2>1, <2>2, <2>3 DEF IsLeaf, Live
<1>4. \A n \in Nodes : \A s \in Live(n) :
        node'[n].child[s] # 0 => node'[n].child[s] \in Nodes /\ node'[n].child[s] # u
  BY <1>2, <1>3, LinkEnds
<1>5. \A n \in Nodes : ~IsLeaf(n) => \A s \in Live(n) : node'[n].child[s] # 0
  BY <1>2, LinkEnds
<1>6. Levels(lv)'
  BY <1>2, <1>3, <1>4, <1>5, <1>a DEF Levels, Ranking
<1>7. Trees(hm)'
  <2>1. hm \in [Nodes' -> roots'] /\ \A r \in roots' : hm[r] = r
    BY <1>2, <1>a, <1>b DEF Trees, Ranking
  <2>2. ASSUME NEW n \in Nodes', NEW s \in Live(n)', node'[n].child[s] # 0
        PROVE  hm[node'[n].child[s]] = hm[n]
    <3>1. n \in Nodes /\ s \in Live(n) /\ node[n].child[s] # 0
      BY <2>2, <1>2, <1>3
    <3>2. home[node[n].child[s]] = home[n]
      BY <3>1 DEF Trees, Ranking
    <3> QED
      BY <3>1, <3>2, <1>2, <1>3, <1>4, <1>b
  <2> QED
    BY <2>1, <2>2, <1>a, <1>b DEF Trees
<1>8. WalkRank(lv, hm)' /\ Bounded(lv, H)'
  BY <1>2, <1>a, <1>b DEF InitStructure, WalkRank, Bounded, Ranking
<1>9. \A n \in Nodes : hm[n] = home[n]
  BY <1>2, <1>b
<1>10. Hung => Hung'
  BY <1>2, <1>3 DEF Hung, Reaches
<1> QED
  BY <1>1, <1>6, <1>7, <1>8, <1>9, <1>10 DEF Onward, Ranking

LEMMA SplitRootRanks ==
  ASSUME Shapely, SplitRoot, NEW lev, NEW home, NEW H, Ranking(lev, home, H)
  PROVE  Onward(home)
<1>u. PICK u, r : u = used /\ r = node_ofs
  OBVIOUS
<1>a. PICK lv : lv = [n \in Nodes' |-> CASE n = u -> lev[r]
                                        [] n = r -> lev[r] + 1
                                        [] OTHER -> lev[n]]
  OBVIOUS
<1>b. PICK hm : hm = [n \in Nodes' |-> IF n = u THEN r ELSE home[n]]
  OBVIOUS
<1>1. Shapely' /\ Sound /\ pc = "loop" /\ parent_ofs = NoParent
  BY SplitRootShapely DEF Shapely, SplitRoot
<1>2. /\ used' = u + 1 /\ roots' = roots /\ r \in roots
      /\ node'[u] = Bumped(r)
      /\ Len(node'[r].keys) = 0
      /\ node'[r].child = [s \in Slots |-> IF s = 0 THEN u ELSE 0]
      /\ \A n \in Nodes \ {r} : node'[n] = node[n]
  BY <1>1, <1>u, SplitRootNodes
<1>3. /\ u \in Nat \ {0} /\ roots \subseteq Nodes /\ u \notin Nodes
      /\ Nodes' = Nodes \cup {u} /\ r \in Nodes /\ 0 \in Slots
      /\ Bumped(r).keys = node[r].keys
      /\ Bumped(r).child = node[r].child
  BY <1>1, <1>2, <1>u, TurnFacts, MaxKeysAssumption DEF Sound, TypeOK, Nodes, Slots
<1>4. /\ \A n \in Nodes \ {r} : /\ IsLeaf(n)' <=> IsLeaf(n)
                                /\ Live(n)' = Live(n)
      /\ IsLeaf(u)' <=> IsLeaf(r)
      /\ Live(u)' = Live(r)
      /\ ~IsLeaf(r)'
      /\ Live(r)' = {0} /\ node'[r].child[0] = u
  <2>1. Live(r)' = {0} /\ node'[r].child[0] = u
    BY <1>2, <1>3 DEF Live
  <2>2. ~IsLeaf(r)'
    BY <2>1, <1>3 DEF IsLeaf
  <2>3. (IsLeaf(u)' <=> IsLeaf(r)) /\ Live(u)' = Live(r)
    BY <1>2, <1>3 DEF IsLeaf, Live
  <2>4. \A n \in Nodes \ {r} : (IsLeaf(n)' <=> IsLeaf(n)) /\ Live(n)' = Live(n)
    BY <1>2, <1>3 DEF IsLeaf, Live
  <2> QED
    BY <2>1, <2>2, <2>3, <2>4
<1>5. \A n \in Nodes : \A s \in Live(n) : node[n].child[s] # 0 =>
        /\ node[n].child[s] \in Nodes \ roots
        /\ node[n].child[s] # u /\ node[n].child[s] # r
  BY <1>2, <1>3, LinkEnds
<1>6. \A n \in Nodes : ~IsLeaf(n) => \A s \in Live(n) : node[n].child[s] # 0
  BY LinkEnds
<1>7. Levels(lv)'
  <2>1. lv \in [Nodes' -> Nat]
    BY <1>3, <1>a, <1>b DEF Levels, Ranking
  <2>2. ASSUME NEW n \in Nodes'
        PROVE  IF IsLeaf(n)' THEN lv[n] = 0
               ELSE \A s \in Live(n)' : lv[n] = lv[node'[n].child[s]] + 1
    <3>1. CASE n = u
      BY <3>1, <1>2, <1>3, <1>4, <1>5, <1>6, <1>a, <1>b DEF Levels, Ranking
    <3>2. CASE n = r
      BY <3>2, <1>3, <1>4, <1>a DEF Levels, Ranking
    <3>3. CASE n \in Nodes \ {r}
      BY <3>3, <1>2, <1>3, <1>4, <1>5, <1>6, <1>a, <1>b DEF Levels, Ranking
    <3> QED
      BY <3>1, <3>2, <3>3, <1>3
  <2> QED
    BY <2>1, <2>2, <1>a, <1>b DEF Levels
<1>8. Trees(hm)'
  <2>1. hm \in [Nodes' -> roots'] /\ \A q \in roots' : hm[q] = q
    BY <1>2, <1>3, <1>a, <1>b DEF Trees, Ranking
  <2>2. ASSUME NEW n \in Nodes', NEW s \in Live(n)', node'[n].child[s] # 0
        PROVE  hm[node'[n].child[s]] = hm[n]
    <3>1. CASE n = u
      <4>1. /\ s \in Live(r) /\ node'[n].child[s] = node[r].child[s]
            /\ node[r].child[s] # 0
        BY <2>2, <3>1, <1>2, <1>3, <1>4
      <4>2. home[node[r].child[s]] = home[r] /\ home[r] = r
        BY <4>1, <1>2, <1>3 DEF Trees, Ranking
      <4> QED
        BY <3>1, <4>1, <4>2, <1>3, <1>5, <1>b
    <3>2. CASE n = r
      <4>1. node'[n].child[s] = u /\ home[r] = r
        BY <3>2, <1>2, <1>4 DEF Trees, Ranking
      <4> QED
        BY <3>2, <4>1, <1>3, <1>b
    <3>3. CASE n \in Nodes \ {r}
      <4>1. /\ s \in Live(n) /\ node'[n].child[s] = node[n].child[s]
            /\ node[n].child[s] # 0 /\ n \in Nodes
        BY <2>2, <3>3, <1>2, <1>4
      <4>2. home[node[n].child[s]] = home[n]
        BY <4>1 DEF Trees, Ranking
      <4> QED
        BY <3>3, <4>1, <4>2, <1>3, <1>5, <1>b
    <3> QED
      BY <3>1, <3>2, <3>3, <1>3
  <2> QED
    BY <2>1, <2>2, <1>a, <1>b DEF Trees
<1>9. WalkRank(lv, hm)'
  <2>1. /\ req' = req /\ path_depth' = path_depth /\ node_ofs' = u
        /\ req.ofs = r /\ path_depth \in Nat
    BY <1>1, <1>u, TurnFacts DEF SplitRoot, WalkOK, Sound
  <2>2. path_depth <= 0
    BY <1>1, <1>3, <2>1, <1>u DEF WalkRank, Ranking, Levels
  <2>3. lv[r] = lev[r] + 1 /\ lv[u] = lev[r] /\ hm[u] = r /\ lev[r] \in Nat
    BY <1>3, <1>a, <1>b DEF Ranking, Levels
  <2> QED
    BY <2>1, <2>2, <2>3, <1>a, <1>b DEF WalkRank
<1>10. Bounded(lv, H + 1)'
  BY <1>3, <1>a, <1>b DEF Bounded, Ranking, Levels
<1>11. \A n \in Nodes : hm[n] = home[n]
  BY <1>3, <1>b
<1>12. ASSUME Hung
      PROVE  Hung'
  <2> SUFFICES ASSUME NEW c \in Nodes' \ roots'
               PROVE  \E n \in Nodes' : ~IsLeaf(n)' /\ Reaches(n, c)'
    BY DEF Hung
  <2>1. CASE c = u
    <3>1. ~IsLeaf(r)' /\ Reaches(r, c)' /\ r \in Nodes'
      BY <2>1, <1>3, <1>4 DEF Reaches
    <3> QED
      BY <3>1
  <2>2. CASE c # u
    <3>1. PICK n \in Nodes : ~IsLeaf(n) /\ Reaches(n, c)
      BY <2>2, <1>2, <1>3, <1>12 DEF Hung
    <3>2. CASE n = r
      <4>1. ~IsLeaf(u)' /\ Reaches(u, c)'
        <5>1. PICK s \in Live(r) : node[r].child[s] = c
          BY <3>1, <3>2 DEF Reaches
        <5>2. s \in Live(u)' /\ node'[u].child[s] = c
          BY <5>1, <1>2, <1>3, <1>4
        <5> QED
          BY <5>2, <3>1, <3>2, <1>4 DEF Reaches
      <4> QED
        BY <4>1, <1>3
    <3>3. CASE n # r
      <4>1. ~IsLeaf(n)' /\ Reaches(n, c)'
        BY <3>1, <3>3, <1>2, <1>3, <1>4 DEF Reaches
      <4> QED
        BY <4>1, <1>3
    <3> QED
      BY <3>2, <3>3
  <2> QED
    BY <2>1, <2>2
<1> QED
  BY <1>1, <1>7, <1>8, <1>9, <1>10, <1>11, <1>12 DEF Onward, Ranking

LEMMA SplitChildRanks ==
  ASSUME Shapely, SplitChild, NEW lev, NEW home, NEW H, Ranking(lev, home, H)
  PROVE  Onward(home)
<1>u. PICK u, w, p : u = used /\ w = node_ofs /\ p = parent_ofs
  OBVIOUS
<1>a. PICK lv : lv = [n \in Nodes' |-> IF n = u THEN lev[w] ELSE lev[n]]
  OBVIOUS
<1>b. PICK hm : hm = [n \in Nodes' |-> IF n = u THEN home[w] ELSE home[n]]
  OBVIOUS
<1>1. Shapely' /\ Sound /\ pc = "loop" /\ parent_ofs # NoParent /\ Full(w)
  BY <1>u, SplitChildShapely DEF Shapely, SplitChild
<1>2. /\ used' = u + 1 /\ roots' = roots
      /\ p \in Nodes /\ p # w
      /\ Len(node[w].keys) = MaxKeys
      /\ Len(node[p].keys) \in Nat /\ Len(node[p].keys) < MaxKeys
      /\ WellFormed(node'[u], u + 1)
      /\ Len(node'[u].keys) = Mid
      /\ \A s \in 0 .. Mid : node'[u].child[s] = node[w].child[Mid + 1 + s]
      /\ Len(node'[w].keys) = Mid
      /\ node'[w].child = node[w].child
      /\ Len(node'[p].keys) = Len(node[p].keys) + 1
      /\ \A n \in Nodes \ {w, p} : node'[n] = node[n]
  BY <1>1, <1>u, SplitChildNodes
<1>3. PICK i \in 0 .. Len(node[p].keys) :
        /\ node[p].child[i] = w
        /\ node'[p].child = [s \in Slots |->
             CASE s = i + 1 -> u
               [] s > i + 1 /\ s <= Len(node[p].keys) + 1 -> node[p].child[s - 1]
               [] OTHER -> node[p].child[s]]
  BY <1>1, <1>u, SplitChildNodes, SMTT(30)
<1>4. /\ u \in Nat /\ roots \subseteq Nodes /\ u \notin Nodes
      /\ Nodes' = Nodes \cup {u} /\ w \in Nodes /\ w # u /\ p # u
      /\ w # 0 /\ u # 0
  <2>1. used \in Nat \ {0} /\ roots \subseteq Nodes /\ node_ofs \in Nodes
    BY <1>1, TurnFacts DEF Sound, TypeOK
  <2>2. node_ofs # 0
    BY <1>1, SplitChildNodes
  <2> QED
    BY <2>1, <2>2, <1>2, <1>u DEF Nodes
<1>5. /\ \A n \in Nodes \ {w, p} : (IsLeaf(n)' <=> IsLeaf(n)) /\ Live(n)' = Live(n)
      /\ IsLeaf(w)' <=> IsLeaf(w)
      /\ Live(w)' = 0 .. Mid /\ Live(w)' \subseteq Live(w)
      /\ Live(u)' = 0 .. Mid /\ \A s \in 0 .. Mid : Mid + 1 + s \in Live(w)
      /\ ~IsLeaf(p) /\ ~IsLeaf(p)'
      /\ \A s \in Live(p)' :
           \/ s = i + 1 /\ node'[p].child[s] = u
           \/ s \in Live(p) /\ s <= i /\ node'[p].child[s] = node[p].child[s]
           \/ s - 1 \in Live(p) /\ s - 1 > i /\ node'[p].child[s] = node[p].child[s - 1]
      /\ i \in Live(p) /\ i \in Slots /\ i + 1 \in Slots
      /\ i \in Live(p)' /\ i + 1 \in Live(p)'
      /\ \A s \in Live(p) : s > i => s + 1 \in Live(p)' /\ node'[p].child[s + 1] = node[p].child[s]
      /\ \A s \in Live(p) : s <= i => s \in Live(p)' /\ node'[p].child[s] = node[p].child[s]
  <2>1. i \in Slots /\ i + 1 \in Slots /\ i \in Live(p) /\ i \in Live(p)' /\ i + 1 \in Live(p)'
    BY <1>2, MaxKeysAssumption DEF Live, Slots
  <2>2. ~IsLeaf(p) /\ ~IsLeaf(p)'
    BY <2>1, <1>3, <1>4 DEF IsLeaf
  <2>3. \A s \in Live(p)' :
           \/ s = i + 1 /\ node'[p].child[s] = u
           \/ s \in Live(p) /\ s <= i /\ node'[p].child[s] = node[p].child[s]
           \/ s - 1 \in Live(p) /\ s - 1 > i /\ node'[p].child[s] = node[p].child[s - 1]
    <3> TAKE s \in Live(p)'
    <3>1. s \in 0 .. Len(node[p].keys) + 1 /\ s \in Slots
      BY <1>2, MaxKeysAssumption DEF Live, Slots
    <3>2. CASE s = i + 1
      BY <3>1, <3>2, <1>3
    <3>3. CASE s <= i
      BY <3>1, <3>3, <1>2, <1>3 DEF Live
    <3>4. CASE s > i + 1
      <4>1. s - 1 \in 0 .. Len(node[p].keys) /\ s - 1 > i /\ s # i + 1
        BY <3>1, <3>4, <1>2
      <4>2. node'[p].child[s] = node[p].child[s - 1]
        BY <3>1, <3>4, <4>1, <1>3
      <4> QED
        BY <4>1, <4>2 DEF Live
    <3> QED
      BY <3>1, <3>2, <3>3, <3>4
  <2>4. \A n \in Nodes \ {w, p} : (IsLeaf(n)' <=> IsLeaf(n)) /\ Live(n)' = Live(n)
    BY <1>2 DEF IsLeaf, Live
  <2>5. (IsLeaf(w)' <=> IsLeaf(w)) /\ Live(w)' = 0 .. Mid /\ Live(w)' \subseteq Live(w)
    BY <1>2, MidInside, MaxKeysAssumption DEF IsLeaf, Live
  <2>6. Live(u)' = 0 .. Mid /\ \A s \in 0 .. Mid : Mid + 1 + s \in Live(w)
    BY <1>2, MidInside, MaxKeysAssumption DEF Live
  <2>a. \A s \in Live(p) : /\ s \in 0 .. Len(node[p].keys) /\ s \in Live(p)'
                           /\ s + 1 \in Live(p)' /\ s \in Slots /\ s + 1 \in Slots
    BY <1>2, MaxKeysAssumption DEF Live, Slots
  <2>7. \A s \in Live(p) : s > i => s + 1 \in Live(p)' /\ node'[p].child[s + 1] = node[p].child[s]
    <3> TAKE s \in Live(p)
    <3>1. s > i => /\ s + 1 # i + 1 /\ s + 1 > i + 1
                   /\ s + 1 <= Len(node[p].keys) + 1 /\ (s + 1) - 1 = s
      BY <2>a, <1>2
    <3>2. s > i => node'[p].child[s + 1] = node[p].child[(s + 1) - 1]
      BY <2>a, <3>1, <1>3
    <3> QED
      BY <2>a, <3>1, <3>2
  <2>8. \A s \in Live(p) : s <= i => s \in Live(p)' /\ node'[p].child[s] = node[p].child[s]
    BY <2>a, <1>3
  <2> QED
    BY <2>1, <2>2, <2>3, <2>4, <2>5, <2>6, <2>7, <2>8
<1>6. IsLeaf(u)' <=> IsLeaf(w)
  <2>1. CASE IsLeaf(w)
    <3>1. node'[u].child[0] = 0 /\ 0 \in 0 .. Len(node'[u].keys)
      BY <2>1, <1>2, MidInside, MaxKeysAssumption, SMTT(30) DEF IsLeaf, Slots
    <3> QED
      BY <2>1, <3>1, <1>2 DEF WellFormed, IsLeaf
  <2>2. CASE ~IsLeaf(w)
    <3>1. 0 \in 0 .. Mid /\ 0 \in Slots /\ node'[u].child[0] = node[w].child[Mid + 1 + 0]
      BY <1>2, MidInside, MaxKeysAssumption DEF Slots
    <3>2. node[w].child[Mid + 1 + 0] # 0
      BY <2>2, <3>1, <1>4, <1>5, <1>1, LinkEnds
    <3> QED
      BY <2>2, <3>1, <3>2 DEF IsLeaf
  <2> QED
    BY <2>1, <2>2
<1>7. \A n \in Nodes : \A s \in Live(n) :
        /\ ~IsLeaf(n) => node[n].child[s] # 0
        /\ node[n].child[s] # 0 => node[n].child[s] \in Nodes /\ node[n].child[s] # u
  BY <1>4, LinkEnds
<1>8. lev[w] = lev[p] - 1 /\ home[w] = home[p] /\ lev[p] \in Nat /\ lev[w] \in Nat
  <2>1. Levels(lev) /\ Trees(home)
    BY DEF Ranking
  <2>2. p \in Nodes /\ w \in Nodes /\ i \in Live(p) /\ node[p].child[i] = w
    BY <1>2, <1>3, <1>4, <1>5
  <2>3. lev[p] \in Nat /\ lev[w] \in Nat
    BY <2>1, <2>2 DEF Levels
  <2>4. lev[p] = lev[w] + 1
    BY <2>1, <2>2, <1>5 DEF Levels
  <2>5. home[w] = home[p]
    BY <2>1, <2>2, <1>4 DEF Trees
  <2> QED
    BY <2>3, <2>4, <2>5
<1>9. Levels(lv)'
  <2>1. lv \in [Nodes' -> Nat]
    BY <1>4, <1>a DEF Levels, Ranking
  <2>2. ASSUME NEW n \in Nodes'
        PROVE  IF IsLeaf(n)' THEN lv[n] = 0
               ELSE \A s \in Live(n)' : lv[n] = lv[node'[n].child[s]] + 1
    <3>1. CASE n = u
      <4>1. IsLeaf(w) => lv[n] = 0
        BY <3>1, <1>4, <1>a DEF Ranking, Levels
      <4>2. ASSUME ~IsLeaf(w), NEW s \in Live(n)'
            PROVE  lv[n] = lv[node'[n].child[s]] + 1
        <5>1. /\ Mid + 1 + s \in Live(w)
              /\ node'[n].child[s] = node[w].child[Mid + 1 + s]
          BY <4>2, <3>1, <1>2, <1>5
        <5>2. lev[w] = lev[node[w].child[Mid + 1 + s]] + 1
          BY <4>2, <5>1, <1>4 DEF Ranking, Levels
        <5>3. node[w].child[Mid + 1 + s] \in Nodes \ {u}
          BY <4>2, <5>1, <1>4, <1>7
        <5> QED
          BY <5>1, <5>2, <5>3, <3>1, <1>4, <1>a
      <4> QED
        BY <4>1, <4>2, <3>1, <1>6
    <3>2. CASE n = p
      <4>1. ASSUME NEW s \in Live(p)'
            PROVE  lv[p] = lv[node'[p].child[s]] + 1
        <5>1. CASE node'[p].child[s] = u
          BY <5>1, <1>2, <1>4, <1>8, <1>a
        <5>2. ASSUME NEW t \in Live(p), node'[p].child[s] = node[p].child[t]
              PROVE  lv[p] = lv[node'[p].child[s]] + 1
          <6>1. lev[p] = lev[node[p].child[t]] + 1
            BY <1>2, <1>5 DEF Ranking, Levels
          <6>2. node[p].child[t] \in Nodes \ {u}
            BY <1>2, <1>5, <1>7
          <6> QED
            BY <5>2, <6>1, <6>2, <1>2, <1>4, <1>a
        <5> QED
          BY <5>1, <5>2, <1>5
      <4> QED
        BY <3>2, <4>1, <1>5
    <3>3. CASE n \in Nodes \ {p}
      <4>1. (IsLeaf(n)' <=> IsLeaf(n)) /\ Live(n)' \subseteq Live(n)
            /\ node'[n].child = node[n].child
        BY <3>3, <1>2, <1>5
      <4> QED
        BY <3>3, <4>1, <1>4, <1>7, <1>a DEF Ranking, Levels
    <3> QED
      BY <3>1, <3>2, <3>3, <1>4
  <2> QED
    BY <2>1, <2>2 DEF Levels
<1>10. Trees(hm)'
  <2>1. hm \in [Nodes' -> roots'] /\ \A q \in roots' : hm[q] = q
    <3>1. home \in [Nodes -> roots] /\ \A q \in roots : home[q] = q
      BY DEF Trees, Ranking
    <3>2. \A n \in Nodes' : hm[n] \in roots'
      BY <3>1, <1>2, <1>4, <1>b
    <3>3. \A q \in roots' : hm[q] = q
      BY <3>1, <1>2, <1>4, <1>b
    <3> QED
      BY <3>2, <3>3, <1>b
  <2>2. ASSUME NEW n \in Nodes', NEW s \in Live(n)', node'[n].child[s] # 0
        PROVE  hm[node'[n].child[s]] = hm[n]
    <3>1. CASE n = u
      <4>1. /\ Mid + 1 + s \in Live(w)
            /\ node'[n].child[s] = node[w].child[Mid + 1 + s]
        BY <3>1, <1>2, <1>5
      <4>2. home[node[w].child[Mid + 1 + s]] = home[w]
        BY <2>2, <4>1, <1>4 DEF Trees, Ranking
      <4> QED
        BY <2>2, <3>1, <4>1, <4>2, <1>4, <1>7, <1>b
    <3>2. CASE n = p
      <4>1. CASE node'[p].child[s] = u
        BY <3>2, <4>1, <1>2, <1>4, <1>8, <1>b
      <4>2. ASSUME NEW t \in Live(p), node'[p].child[s] = node[p].child[t]
            PROVE  hm[node'[p].child[s]] = hm[p]
        <5>1. home[node[p].child[t]] = home[p]
          BY <2>2, <3>2, <4>2, <1>2 DEF Ranking, Trees
        <5> QED
          BY <2>2, <3>2, <4>2, <5>1, <1>2, <1>4, <1>7, <1>b
      <4> QED
        BY <3>2, <4>1, <4>2, <1>5
    <3>3. CASE n \in Nodes \ {p}
      <4>1. s \in Live(n) /\ node'[n].child[s] = node[n].child[s]
        BY <3>3, <1>2, <1>5
      <4>2. home[node[n].child[s]] = home[n]
        BY <2>2, <3>3, <4>1 DEF Ranking, Trees
      <4> QED
        BY <2>2, <3>3, <4>1, <4>2, <1>4, <1>7, <1>b
    <3> QED
      BY <3>1, <3>2, <3>3, <1>4
  <2> QED
    BY <2>1, <2>2 DEF Trees
<1>11. WalkRank(lv, hm)'
  <2>1. /\ req' = req /\ path_depth' = path_depth + 1 /\ node_ofs' \in {u, w}
        /\ path_depth \in Nat /\ req.ofs \in Nodes
    BY <1>1, <1>u, TurnFacts DEF SplitChild
  <2>2. home[w] = req.ofs /\ path_depth + 1 <= 2 * (lev[req.ofs] - lev[w])
    BY <1>1, <1>u DEF WalkRank, Ranking
  <2>3. hm[node_ofs'] = req.ofs /\ lv[node_ofs'] = lev[w] /\ lv[req.ofs] = lev[req.ofs]
    BY <2>1, <2>2, <1>4, <1>a, <1>b
  <2>4. ~Full(node_ofs)'
    <3>1. Len(node'[node_ofs'].keys) = Mid
      BY <2>1, <1>2
    <3> QED
      BY <3>1, MidInside, MaxKeysAssumption DEF Full
  <2> QED
    BY <2>1, <2>2, <2>3, <2>4 DEF WalkRank
<1>12. Bounded(lv, H)'
  BY <1>4, <1>a DEF Bounded, Ranking
<1>13. \A n \in Nodes : hm[n] = home[n]
  BY <1>4, <1>b
<1>14. ASSUME Hung
      PROVE  Hung'
  <2> SUFFICES ASSUME NEW c \in Nodes' \ roots'
               PROVE  \E n \in Nodes' : ~IsLeaf(n)' /\ Reaches(n, c)'
    BY DEF Hung
  <2>1. CASE c = u
    <3>1. Reaches(p, c)'
      BY <2>1, <1>2, <1>3, <1>5 DEF Reaches
    <3> QED
      BY <3>1, <1>2, <1>4, <1>5
  <2>2. CASE c # u
    <3>1. PICK n \in Nodes : ~IsLeaf(n) /\ Reaches(n, c)
      BY <2>2, <1>2, <1>4, <1>14 DEF Hung
    <3>2. PICK s \in Live(n) : node[n].child[s] = c
      BY <3>1 DEF Reaches
    <3>3. CASE n = w /\ s > Mid
      <4>1. s \in 0 .. MaxKeys
        BY <3>2, <3>3, <1>2 DEF Live
      <4>2. s - (Mid + 1) \in 0 .. Mid /\ Mid + 1 + (s - (Mid + 1)) = s
        BY <3>3, <4>1, MidInside, MaxKeysAssumption
      <4>3. node'[u].child[s - (Mid + 1)] = c
        BY <3>2, <3>3, <4>2, <1>2
      <4>4. Reaches(u, c)'
        BY <4>2, <4>3, <1>5 DEF Reaches
      <4> QED
        BY <3>1, <3>3, <4>4, <1>4, <1>6
    <3>4. CASE n = w /\ s <= Mid
      <4>1. s \in Live(w)' /\ node'[w].child[s] = c
        BY <3>2, <3>4, <1>2, <1>5, MidInside DEF Live
      <4> QED
        BY <3>1, <3>4, <4>1, <1>4, <1>5 DEF Reaches
    <3>5. CASE n = p
      <4>1. \E t \in Live(p)' : node'[p].child[t] = c
        <5>1. s \in Nat
          BY DEF Live
        <5>2. CASE s <= i
          BY <3>2, <3>5, <5>2, <1>5
        <5>3. CASE s > i
          <6>1. s + 1 \in Live(p)' /\ node'[p].child[s + 1] = c
            BY <3>2, <3>5, <5>3, <1>5
          <6> QED
            BY <6>1
        <5> QED
          BY <5>1, <5>2, <5>3
      <4> QED
        BY <3>5, <4>1, <1>4, <1>5 DEF Reaches
    <3>6. CASE n \in Nodes \ {w, p}
      <4>1. s \in Live(n)' /\ node'[n].child[s] = c
        BY <3>2, <3>6, <1>2, <1>5
      <4> QED
        BY <3>1, <3>6, <4>1, <1>4, <1>5 DEF Reaches
    <3> QED
      <4>1. s \in Nat /\ Mid \in Nat
        BY MidInside DEF Live
      <4> QED
        BY <4>1, <3>3, <3>4, <3>5, <3>6
  <2> QED
    BY <2>1, <2>2
<1> QED
  BY <1>1, <1>9, <1>10, <1>11, <1>12, <1>13, <1>14 DEF Onward, Ranking

\* The walk goes down to a child, one level lower in the same tree.
LEMMA DescendRanks ==
  ASSUME Shapely, Descend, NEW lev, NEW home, NEW H, Ranking(lev, home, H)
  PROVE  Onward(home)
<1>u. PICK w, c : w = node_ofs /\ c = node_ofs'
  OBVIOUS
<1>1. Sound /\ Sound' /\ Calm /\ pc = "loop" /\ Shapely'
  BY DescendSound, DescendCalm, CalmShapely DEF Shapely, Descend
<1>2. /\ req' = req /\ path_depth' = path_depth + 1 /\ path_depth \in Nat
      /\ w \in Nodes /\ req.ofs \in Nodes
  BY <1>1, <1>u, TurnFacts DEF Descend
<1>3. \E s \in Live(w) : c = node[w].child[s] /\ c # 0
  <2>1. Position(node[w].keys, req) \in Live(w)
    BY <1>1, <1>2, SoundNodes, PositionStops DEF Live
  <2> QED
    BY <2>1, <1>u DEF Descend
<1>4. lev[w] = lev[c] + 1 /\ home[c] = home[w] /\ c \in Nodes
  BY <1>2, <1>3, LinkEnds DEF Ranking, Levels, Trees
<1>5. Levels(lev)' /\ Trees(home)' /\ Bounded(lev, H)' /\ (Hung => Hung')
  BY <1>1, CalmRanks DEF Ranking
<1>6. WalkRank(lev, home)'
  <2>1. home[w] = req.ofs /\ path_depth <= 2 * (lev[req.ofs] - lev[w])
    BY <1>1, <1>u DEF Ranking, WalkRank
  <2>2. lev[w] \in Nat /\ lev[c] \in Nat /\ lev[req.ofs] \in Nat
    BY <1>2, <1>4 DEF Ranking, Levels
  <2>3. path_depth + 2 <= 2 * (lev[req.ofs] - lev[c])
    BY <2>1, <2>2, <1>2, <1>4
  <2> QED
    BY <2>1, <2>2, <2>3, <1>2, <1>4, <1>u DEF WalkRank
<1> QED
  BY <1>1, <1>5, <1>6 DEF Onward, Ranking

\* Steps between which no call runs, or a call starts at its root.
LEMMA RestRanks ==
  ASSUME Shapely, Sound', Calm, NEW lev, NEW home, NEW H, Ranking(lev, home, H),
         \/ pc' # "loop"
         \/ /\ node_ofs' = req'.ofs /\ req'.ofs \in roots
            /\ parent_ofs' = NoParent /\ path_depth' = 0
         \/ UNCHANGED vars
  PROVE  Onward(home)
<1>1. /\ Shapely' /\ Levels(lev)' /\ Trees(home)' /\ Bounded(lev, H)'
      /\ Hung => Hung'
  BY CalmShapely, CalmRanks DEF Ranking
<1>2. WalkRank(lev, home)'
  <2>1. CASE pc' # "loop"
    BY <2>1 DEF WalkRank
  <2>2. CASE /\ node_ofs' = req'.ofs /\ req'.ofs \in roots
             /\ parent_ofs' = NoParent /\ path_depth' = 0
    <3>1. req'.ofs \in Nodes
      BY <2>2 DEF Shapely, Sound, TypeOK
    <3>2. lev[req'.ofs] \in Nat /\ home[req'.ofs] = req'.ofs
      BY <2>2, <3>1 DEF Ranking, Levels, Trees
    <3> QED
      BY <2>2, <3>2 DEF WalkRank
  <2>3. CASE UNCHANGED vars
    BY <2>3 DEF WalkRank, Ranking, vars, Full
  <2> QED
    BY <2>1, <2>2, <2>3
<1> QED
  BY <1>1, <1>2 DEF Onward, Ranking

LEMMA InitRanked == Init => Ranked
<1> SUFFICES ASSUME Init
             PROVE  Ranked
  OBVIOUS
<1> DEFINE none == [n \in {} |-> 0]
<1>1. Shapely /\ Nodes = {} /\ roots = {} /\ pc = "idle"
  BY InitShapely DEF Init, Nodes
<1>2. /\ Levels(none) /\ Trees(none) /\ WalkRank(none, none) /\ Bounded(none, 0)
      /\ Hung
  BY <1>1 DEF Levels, Trees, WalkRank, Bounded, Hung
<1> HIDE DEF none
<1> QED
  BY <1>1, <1>2 DEF Ranked, Ranking

LEMMA NextOnward ==
  ASSUME Shapely, [Next]_vars, NEW lev, NEW home, NEW H, Ranking(lev, home, H)
  PROVE  Onward(home)
<1>1. Shapely /\ Sound /\ Sound'
  BY NextSound DEF Shapely
<1>2. Ranking(lev, home, H)
  OBVIOUS
<1>3. ASSUME NEW t \in Types, InitStructure(t)
      PROVE  Onward(home)
  BY <1>1, <1>2, <1>3, CreateRanks
<1>4. ASSUME NEW request, Start(request)
      PROVE  Onward(home)
  <2>1. Calm
    BY <1>1, <1>4, SoundNodes DEF Start, Calm
  <2>2. /\ node_ofs' = req'.ofs /\ req'.ofs \in roots
        /\ parent_ofs' = NoParent /\ path_depth' = 0
    BY <1>4 DEF Start
  <2> QED
    BY <1>1, <1>2, <2>1, <2>2, RestRanks
<1>5. CASE SplitRoot
  BY <1>1, <1>2, <1>5, SplitRootRanks
<1>6. CASE SplitChild
  BY <1>1, <1>2, <1>6, SplitChildRanks
<1>7. CASE Descend
  BY <1>1, <1>2, <1>7, DescendRanks
<1>8. CASE Overwrite \/ InsertLeaf
  <2>1. Calm /\ pc' # "loop"
    BY <1>1, <1>8, OverwriteCalm, InsertLeafCalm DEF Overwrite, InsertLeaf, Return
  <2> QED
    BY <1>1, <1>2, <2>1, RestRanks
<1>9. CASE UNCHANGED vars
  <2>1. Calm
    BY <1>1, <1>9, SoundNodes DEF vars, Calm
  <2> QED
    BY <1>1, <1>2, <1>9, <2>1, RestRanks
<1> QED
  BY <1>3, <1>4, <1>5, <1>6, <1>7, <1>8, <1>9, Zenon
     DEF Next, Turn, SetBegin, AppendBegin

LEMMA NextRanked ==
  ASSUME Ranked, [Next]_vars
  PROVE  Ranked'
<1>1. PICK lev, home, H : Ranking(lev, home, H)
  BY DEF Ranked
<1>2. Onward(home)
  BY <1>1, NextOnward DEF Ranked
<1> QED
  BY <1>2 DEF Onward, Ranked

\* The invariant behind the theorems on heights and depths.
THEOREM RankedAlways == Spec => []Ranked
<1> QED
  BY InitRanked, NextRanked, PTL DEF Spec

\* What Height computes is the level of the node.
LEMMA HeightIsLevel ==
  ASSUME Shapely, NEW lev, Levels(lev), NEW n \in Nodes
  PROVE  Height(n) = lev[n]
<1> DEFINE Eq(h) == h = [m \in Nodes |-> IF IsLeaf(m) THEN 0
                                        ELSE 1 + h[node[m].child[0]]]
<1>1. \A m \in Nodes : ~IsLeaf(m) =>
        node[m].child[0] \in Nodes /\ lev[m] = lev[node[m].child[0]] + 1
  <2>1. \A m \in Nodes : 0 \in Live(m)
    BY SoundNodes DEF Live, Shapely
  <2> QED
    BY <2>1, LinkEnds DEF Levels
<1>2. lev = [m \in Nodes |-> IF IsLeaf(m) THEN 0 ELSE 1 + lev[node[m].child[0]]]
  BY <1>1 DEF Levels
<1>3. Eq(lev)
  BY <1>2
<1>4. Height(n) = (CHOOSE h : Eq(h))[n]
  BY DEF Height
<1>5. Eq(CHOOSE h : Eq(h))
  <2> HIDE DEF Eq
  <2> QED
    BY <1>3
<1>6. PICK h : h = (CHOOSE g : Eq(g))
  OBVIOUS
<1>7. \A m \in Nodes : h[m] = IF IsLeaf(m) THEN 0 ELSE 1 + h[node[m].child[0]]
  BY <1>5, <1>6
<1> DEFINE Wrong == {lev[m] : m \in {k \in Nodes : h[k] # lev[k]}}
<1>8. Wrong = {}
  <2>1. SUFFICES ASSUME Wrong # {}
                 PROVE  FALSE
    OBVIOUS
  <2>2. Wrong \subseteq Nat
    BY DEF Levels
  <2>3. PICK l \in Wrong : \A k \in Wrong : l <= k
    BY <2>1, <2>2, LeastNatural
  <2>4. PICK m \in Nodes : h[m] # lev[m] /\ lev[m] = l
    BY <2>3
  <2>5. ~IsLeaf(m)
    BY <2>4, <1>7 DEF Levels
  <2>6. lev[node[m].child[0]] \notin Wrong
    <3>1. lev[node[m].child[0]] \in Nat /\ l = lev[node[m].child[0]] + 1
      BY <2>4, <2>5, <1>1 DEF Levels
    <3>2. ~(l <= lev[node[m].child[0]])
      BY <3>1
    <3> QED
      BY <2>3, <3>2
  <2>7. h[node[m].child[0]] = lev[node[m].child[0]]
    BY <2>5, <2>6, <1>1
  <2> QED
    BY <2>4, <2>5, <2>7, <1>1, <1>7 DEF Levels
<1> QED
  BY <1>4, <1>6, <1>8

\* All leaves of a structure are equally deep, whatever is written to it, and
\* also between two turns of set_impl, when one side of a root was split.
THEOREM BalancedAlways == Spec => []Balanced
<1>1. Ranked => Balanced
  <2> SUFFICES ASSUME Ranked
               PROVE  Balanced
    OBVIOUS
  <2>1. PICK lev : Levels(lev)
    BY DEF Ranked, Ranking
  <2>2. ASSUME NEW n \in Nodes, ~IsLeaf(n), NEW s \in Live(n)
        PROVE  Height(node[n].child[s]) = Height(n) - 1
    <3>1. node[n].child[s] \in Nodes
      BY <2>2, LinkEnds DEF Ranked
    <3>2. Height(node[n].child[s]) = lev[node[n].child[s]] /\ Height(n) = lev[n]
      BY <2>1, <3>1, HeightIsLevel DEF Ranked
    <3> QED
      BY <2>1, <2>2, <3>1, <3>2 DEF Levels
  <2> QED
    BY <2>2 DEF Balanced
<1> QED
  BY <1>1, RankedAlways, PTL

\* What Depth computes is how far the level of the node is below its root's.
LEMMA DepthIsLevels ==
  ASSUME Shapely, NEW lev, NEW home, NEW H,
         Levels(lev), Trees(home), Hung, Bounded(lev, H), NEW n \in Nodes
  PROVE  Depth(n) = lev[home[n]] - lev[n]
<1> DEFINE Par(m) == CHOOSE p \in Nodes : ~IsLeaf(p) /\ Reaches(p, m)
           Eq(d) == d = [m \in Nodes |-> IF m \in roots THEN 0
                                        ELSE 1 + d[CHOOSE p \in Nodes :
                                                     ~IsLeaf(p) /\ Reaches(p, m)]]
<1>1. \A m \in Nodes \ roots :
        Par(m) \in Nodes /\ lev[Par(m)] = lev[m] + 1 /\ home[Par(m)] = home[m]
  <2> TAKE m \in Nodes \ roots
  <2>1. \E p \in Nodes : ~IsLeaf(p) /\ Reaches(p, m)
    BY DEF Hung
  <2>2. Par(m) \in Nodes /\ ~IsLeaf(Par(m)) /\ Reaches(Par(m), m)
    BY <2>1
  <2> HIDE DEF Par
  <2>3. PICK s \in Live(Par(m)) : node[Par(m)].child[s] = m
    BY <2>2 DEF Reaches
  <2>4. m # 0
    BY <2>2, <2>3, LinkEnds
  <2> QED
    BY <2>2, <2>3, <2>4 DEF Levels, Trees
<1>2. \A m \in Nodes : lev[m] \in Nat /\ home[m] \in Nodes /\ lev[home[m]] \in Nat
  BY SoundNodes DEF Levels, Trees, Shapely, Sound, TypeOK
<1> DEFINE D == [m \in Nodes |-> lev[home[m]] - lev[m]]
<1>3. Eq(D)
  <2>1. \A m \in Nodes : D[m] = IF m \in roots THEN 0 ELSE 1 + D[Par(m)]
    <3> TAKE m \in Nodes
    <3> HIDE DEF Par
    <3>1. CASE m \in roots
      BY <3>1, <1>2 DEF Trees
    <3>2. CASE m \notin roots
      BY <3>2, <1>1, <1>2
    <3> QED
      BY <3>1, <3>2
  <2>2. D = [m \in Nodes |-> IF m \in roots THEN 0 ELSE 1 + D[Par(m)]]
    <3> HIDE DEF Par
    <3> QED
      BY <2>1
  <2> QED
    BY <2>2
<1>4. Depth(n) = (CHOOSE d : Eq(d))[n]
  BY DEF Depth
<1>5. Eq(CHOOSE d : Eq(d))
  <2> HIDE DEF Eq, D
  <2> QED
    BY <1>3
<1>6. PICK d : d = (CHOOSE g : Eq(g))
  OBVIOUS
<1>7. \A m \in Nodes : d[m] = IF m \in roots THEN 0 ELSE 1 + d[Par(m)]
  BY <1>5, <1>6
<1>8. \A m \in Nodes : D[m] = IF m \in roots THEN 0 ELSE 1 + D[Par(m)]
  BY <1>3
<1> HIDE DEF Par, Eq, D
<1> DEFINE Wrong == {H - lev[m] : m \in {k \in Nodes : d[k] # D[k]}}
<1>9. Wrong = {}
  <2>1. SUFFICES ASSUME Wrong # {}
                 PROVE  FALSE
    OBVIOUS
  <2>2. Wrong \subseteq Nat
    BY <1>2 DEF Bounded
  <2>3. PICK l \in Wrong : \A k \in Wrong : l <= k
    BY <2>1, <2>2, LeastNatural
  <2>4. PICK m \in Nodes : d[m] # D[m] /\ H - lev[m] = l
    BY <2>3
  <2>5. m \notin roots
    BY <2>4, <1>7, <1>8
  <2>6. Par(m) \in Nodes /\ lev[Par(m)] = lev[m] + 1
    BY <2>5, <1>1
  <2>7. H - lev[Par(m)] \notin Wrong
    <3>1. H - lev[Par(m)] \in Nat /\ ~(l <= H - lev[Par(m)])
      BY <2>4, <2>6, <1>2 DEF Bounded
    <3> QED
      BY <2>3, <3>1
  <2>8. d[Par(m)] = D[Par(m)]
    BY <2>6, <2>7
  <2> QED
    BY <2>4, <2>5, <2>8, <1>7, <1>8
<1> QED
  BY <1>4, <1>6, <1>9 DEF D

\* The path stack holds at most two entries a level that the walk has gone
\* down: its 16 entries last for trees of eight levels, whatever is written.
THEOREM PathFitsAlways == Spec => []PathFits
<1>1. Ranked => PathFits
  <2> SUFFICES ASSUME Ranked, pc = "loop"
               PROVE  path_depth <= 2 * Depth(node_ofs)
    BY DEF PathFits
  <2>1. PICK lev, home, H : Ranking(lev, home, H)
    BY DEF Ranked
  <2>2. node_ofs \in Nodes
    BY DEF Ranked, Shapely, Sound, WalkOK
  <2>3. Depth(node_ofs) = lev[home[node_ofs]] - lev[node_ofs]
    BY <2>1, <2>2, DepthIsLevels DEF Ranked, Ranking
  <2> QED
    BY <2>1, <2>3 DEF Ranking, WalkRank
<1> QED
  BY <1>1, RankedAlways, PTL
=============================================================================
