-------------------------- MODULE BTreeOrderProofs --------------------------
(***************************************************************************)
(* Proofs about the order of the keys in the search trees.                 *)
(***************************************************************************)
EXTENDS BTreeShapeProofs

-----------------------------------------------------------------------------
(***************************************************************************)
(* What each step makes of the keys                                        *)
(***************************************************************************)

\* Where the elements of a sequence are after one was put into it.
InsertedIn(S, s, e, i, t) ==
  /\ t \in Seq(S) /\ Len(t) = Len(s) + 1
  /\ \A j \in 1 .. i : t[j] = s[j]
  /\ t[i + 1] = e
  /\ \A j \in i + 1 .. Len(s) : t[j + 1] = s[j]

LEMMA InsertedAt ==
  ASSUME NEW S, NEW s \in Seq(S), NEW e \in S, NEW i \in 0 .. Len(s)
  PROVE  InsertedIn(S, s, e, i,
                    SubSeq(s, 1, i) \o <<e>> \o SubSeq(s, i + 1, Len(s)))
<1>1. Len(s) \in Nat /\ \A j \in 1 .. Len(s) : s[j] \in S
  BY LenProperties, ElementOfSeq
<1>2. PICK a : a = SubSeq(s, 1, i)
  OBVIOUS
<1>3. PICK b : b = SubSeq(s, i + 1, Len(s))
  OBVIOUS
<1>4. a \in Seq(S) /\ Len(a) = i /\ \A j \in 1 .. i : a[j] = s[j]
  <2>1. \A j \in 1 .. i : s[j] \in S /\ 1 + j - 1 = j
    BY <1>1
  <2> QED
    BY <1>1, <1>2, <2>1, SubSeqProperties
<1>5. /\ b \in Seq(S) /\ Len(b) = Len(s) - i
      /\ \A j \in 1 .. Len(s) - i : b[j] = s[i + j]
  <2>1. /\ \A j \in i + 1 .. Len(s) : s[j] \in S
        /\ i + 1 \in Int /\ Len(s) \in Int
        /\ Len(s) - (i + 1) + 1 = Len(s) - i
        /\ \A j \in 1 .. Len(s) - i : (i + 1) + j - 1 = i + j
    BY <1>1
  <2>2. /\ b \in Seq(S)
        /\ Len(b) = IF i + 1 <= Len(s) THEN Len(s) - (i + 1) + 1 ELSE 0
        /\ \A j \in 1 .. Len(s) - (i + 1) + 1 : b[j] = s[(i + 1) + j - 1]
    BY <1>3, <2>1, SubSeqProperties
  <2>3. \A j \in 1 .. Len(s) - i : b[j] = s[i + j]
    <3> TAKE j \in 1 .. Len(s) - i
    <3>1. b[j] = s[(i + 1) + j - 1]
      BY <2>1, <2>2
    <3>2. (i + 1) + j - 1 = i + j
      BY <2>1
    <3> QED
      BY <3>1, <3>2, Zenon
  <2>4. Len(b) = Len(s) - i
    <3>1. PICK x, k : x = Len(b) /\ k = Len(s)
      OBVIOUS
    <3>2. /\ x = IF i + 1 <= k THEN k - (i + 1) + 1 ELSE 0
          /\ k \in Nat /\ i \in 0 .. k
      BY <3>1, <2>2, <1>1
    <3> QED
      BY <3>1, <3>2
  <2>5. b \in Seq(S)
    BY <2>2
  <2> QED
    BY <2>3, <2>4, <2>5
<1>6. <<e>> \in Seq(S) /\ Len(<<e>>) = 1 /\ <<e>>[1] = e
  BY LenProperties
<1>7. PICK c : c = a \o <<e>>
  OBVIOUS
<1>8. /\ c \in Seq(S) /\ Len(c) = i + 1
      /\ \A j \in 1 .. i : c[j] = s[j]
      /\ c[i + 1] = e
  <2>1. /\ c \in Seq(S) /\ Len(c) = Len(a) + 1
        /\ \A j \in 1 .. Len(a) + 1 :
             c[j] = IF j <= Len(a) THEN a[j] ELSE <<e>>[j - Len(a)]
    BY <1>4, <1>6, <1>7, ConcatProperties
  <2> QED
    BY <2>1, <1>1, <1>4, <1>6
<1>9. /\ c \o b \in Seq(S) /\ Len(c \o b) = Len(c) + Len(b)
      /\ \A j \in 1 .. Len(c) + Len(b) :
           (c \o b)[j] = IF j <= Len(c) THEN c[j] ELSE b[j - Len(c)]
  BY <1>5, <1>8, ConcatProperties
<1>10. PICK t : t = c \o b
  OBVIOUS
<1>11. \A j \in i + 1 .. Len(s) : t[j + 1] = s[j]
  <2> TAKE j \in i + 1 .. Len(s)
  <2>1. j + 1 \in 1 .. Len(c) + Len(b) /\ ~(j + 1 <= Len(c))
        /\ (j + 1) - Len(c) = j - i /\ j - i \in 1 .. Len(s) - i /\ i + (j - i) = j
    BY <1>1, <1>5, <1>8
  <2>2. t[j + 1] = b[j - i]
    BY <2>1, <1>9, <1>10
  <2> QED
    BY <2>1, <2>2, <1>5
<1>12. /\ t \in Seq(S) /\ Len(t) = Len(s) + 1
       /\ \A j \in 1 .. i : t[j] = s[j]
       /\ t[i + 1] = e
  BY <1>1, <1>5, <1>8, <1>9, <1>10
<1> QED
  BY <1>2, <1>3, <1>7, <1>10, <1>11, <1>12, Zenon DEF InsertedIn

\* The keys of a full node on either side of its median, and its other fields.
LEMMA HalvesKeys ==
  ASSUME NEW u \in Nat, NEW nd, WellFormed(nd, u), Len(nd.keys) = MaxKeys
  PROVE  /\ \A j \in 1 .. Mid : RightHalf(nd).keys[j] = nd.keys[Mid + 1 + j]
         /\ RightHalf(nd).type = nd.type
         /\ \A j \in 1 .. Mid : LeftHalf(nd).keys[j] = nd.keys[j]
         /\ LeftHalf(nd).type = nd.type
         /\ LeftHalf(nd).size = nd.size
<1>1. nd \in Node /\ \A j \in 1 .. MaxKeys : nd.keys[j] \in Entry
  BY ElementOfSeq DEF WellFormed, Node
<1>2. PICK a, b : a = SubSeq(nd.keys, Mid + 2, Len(nd.keys))
                  /\ b = SubSeq(nd.keys, 1, Mid)
  OBVIOUS
<1>3. \A j \in 1 .. Mid : a[j] = nd.keys[Mid + 1 + j]
  <2>1. PICK m, ks : m = Mid + 2 /\ ks = nd.keys
    OBVIOUS
  <2>2. /\ m \in Int /\ MaxKeys \in Int /\ MaxKeys - m + 1 = Mid
        /\ \A j \in m .. MaxKeys : ks[j] \in Entry
    BY <1>1, <2>1, MidInside
  <2>3. a = SubSeq(ks, m, MaxKeys)
    BY <1>2, <2>1
  <2>4. \A j \in 1 .. MaxKeys - m + 1 : a[j] = ks[m + j - 1]
    BY <2>2, <2>3, SubSeqProperties
  <2> TAKE j \in 1 .. Mid
  <2>5. a[j] = ks[m + j - 1]
    BY <2>2, <2>4
  <2>6. m + j - 1 = Mid + 1 + j
    BY <2>1, MidInside
  <2> QED
    BY <2>1, <2>5, <2>6, Zenon
<1>4. \A j \in 1 .. Mid : b[j] = nd.keys[j]
  <2>1. /\ Mid \in Int /\ Mid - 1 + 1 = Mid
        /\ \A j \in 1 .. Mid : nd.keys[j] \in Entry /\ 1 + j - 1 = j
    BY <1>1, MidInside
  <2> QED
    BY <1>2, <2>1, SubSeqProperties
<1>5. RightHalf(nd).keys = a /\ RightHalf(nd).type = nd.type
  BY <1>2 DEF RightHalf, EmptyNode
<1>6. /\ LeftHalf(nd).keys = b /\ LeftHalf(nd).type = nd.type
      /\ LeftHalf(nd).size = nd.size
  BY <1>1, <1>2 DEF LeftHalf, Node
<1> QED
  BY <1>3, <1>4, <1>5, <1>6

LEMMA WithMedianKeys ==
  ASSUME NEW pd \in Node, NEW i \in 0 .. Len(pd.keys), NEW median \in Entry,
         NEW sibling
  PROVE  LET new == WithMedian(pd, i, median, sibling)
         IN  /\ \A j \in 1 .. i : new.keys[j] = pd.keys[j]
             /\ new.keys[i + 1] = median
             /\ \A j \in i + 1 .. Len(pd.keys) : new.keys[j + 1] = pd.keys[j]
             /\ new.type = pd.type /\ new.size = pd.size
<1>1. PICK t : t = SubSeq(pd.keys, 1, i) \o <<median>>
                     \o SubSeq(pd.keys, i + 1, Len(pd.keys))
  OBVIOUS
<1>2. /\ \A j \in 1 .. i : t[j] = pd.keys[j]
      /\ t[i + 1] = median
      /\ \A j \in i + 1 .. Len(pd.keys) : t[j + 1] = pd.keys[j]
  <2>1. pd.keys \in Seq(Entry)
    BY DEF Node
  <2>2. InsertedIn(Entry, pd.keys, median, i, t)
    BY <1>1, <2>1, InsertedAt
  <2> QED
    BY <2>2 DEF InsertedIn
<1>3. LET new == WithMedian(pd, i, median, sibling)
      IN  new.keys = t /\ new.type = pd.type /\ new.size = pd.size
  BY <1>1 DEF WithMedian, Node
<1> QED
  BY <1>2, <1>3

\* Where a split of w below p, at slot i, puts the keys: those of the node
\* itself and of its new sibling u come from w, the median goes to p.
SplitAt(p, w, u, i) ==
  /\ i \in 0 .. Len(node[p].keys)
  /\ node[p].child[i] = w
  /\ node'[p].child = [s \in Slots |->
       CASE s = i + 1 -> u
         [] s > i + 1 /\ s <= Len(node[p].keys) + 1 -> node[p].child[s - 1]
         [] OTHER -> node[p].child[s]]
  /\ \A j \in 1 .. i : node'[p].keys[j] = node[p].keys[j]
  /\ node'[p].keys[i + 1] = node[w].keys[Mid + 1]
  /\ \A j \in i + 1 .. Len(node[p].keys) : node'[p].keys[j + 1] = node[p].keys[j]
  /\ \A j \in 1 .. Mid : /\ node'[w].keys[j] = node[w].keys[j]
                         /\ node'[u].keys[j] = node[w].keys[Mid + 1 + j]
  /\ node'[p].type = node[p].type /\ node'[p].size = node[p].size
  /\ node'[w].type = node[w].type /\ node'[w].size = node[w].size
  /\ node'[u].type = node[w].type

LEMMA SplitChildKeys ==
  ASSUME Sound, SplitChild
  PROVE  \E i : SplitAt(parent_ofs, node_ofs, used, i)
<1>u. PICK u, w, p : u = used /\ w = node_ofs /\ p = parent_ofs
  OBVIOUS
<1>1. pc = "loop"
  BY DEF SplitChild
<1>2. /\ p \in Nodes /\ w \in Nodes /\ u \in Nat
      /\ Len(node[w].keys) = MaxKeys
      /\ node'[u] = RightHalf(Bumped(w))
      /\ node'[w] = LeftHalf(Bumped(w))
      /\ node'[p] = WithMedian(node[p], IndexInParent(p, w),
                               Bumped(w).keys[Mid + 1], u)
  BY <1>1, <1>u, TurnFacts, SplitChildNodes
<1>3. PICK i \in 0 .. Len(node[p].keys) :
        /\ i = IndexInParent(p, w)
        /\ node[p].child[i] = w
        /\ node'[p].child = [s \in Slots |->
             CASE s = i + 1 -> u
               [] s > i + 1 /\ s <= Len(node[p].keys) + 1 -> node[p].child[s - 1]
               [] OTHER -> node[p].child[s]]
  BY <1>u, SplitChildNodes
<1>4. /\ Bumped(w).keys = node[w].keys /\ Bumped(w).type = node[w].type
      /\ Bumped(w).size = node[w].size
      /\ WellFormed(Bumped(w), u)
      /\ node[p] \in Node
      /\ node[w].keys[Mid + 1] \in Entry
  <2>1. WellFormed(node[w], u) /\ node[p] \in Node /\ WellFormed(Bumped(w), u)
    BY <1>1, <1>2, <1>u, SoundNodes, TurnFacts DEF WellFormed
  <2>2. node[w] \in Node /\ node[w].keys \in Seq(Entry)
    BY <2>1 DEF WellFormed, Node
  <2>3. node[w].keys[Mid + 1] \in Entry
    BY <2>2, <1>2, ElementOfSeq, MidInside, MaxKeysAssumption
  <2>4. /\ Bumped(w).keys = node[w].keys /\ Bumped(w).type = node[w].type
        /\ Bumped(w).size = node[w].size
    BY <2>2 DEF Bumped, Node
  <2> QED
    BY <2>1, <2>3, <2>4
<1>5. /\ \A j \in 1 .. i : node'[p].keys[j] = node[p].keys[j]
      /\ node'[p].keys[i + 1] = node[w].keys[Mid + 1]
      /\ \A j \in i + 1 .. Len(node[p].keys) :
           node'[p].keys[j + 1] = node[p].keys[j]
      /\ node'[p].type = node[p].type /\ node'[p].size = node[p].size
  BY <1>2, <1>3, <1>4, WithMedianKeys, SMTT(30)
<1>6. /\ \A j \in 1 .. Mid : /\ node'[w].keys[j] = node[w].keys[j]
                             /\ node'[u].keys[j] = node[w].keys[Mid + 1 + j]
      /\ node'[w].type = node[w].type /\ node'[w].size = node[w].size
      /\ node'[u].type = node[w].type
  BY <1>2, <1>4, HalvesKeys
<1> QED
  BY <1>3, <1>5, <1>6, <1>u DEF SplitAt

\* What a call leaves when it returns: one node with other keys, and after an
\* append another size in the root.
Wrote(ks) ==
  /\ used' = used /\ roots' = roots /\ pc' = "idle"
  /\ \A n \in Nodes :
       /\ node'[n].keys = IF n = node_ofs THEN ks ELSE node[n].keys
       /\ node'[n].child = node[n].child
       /\ node'[n].type = node[n].type
       /\ node'[n].size = IF req.append /\ n = req.ofs
                          THEN (req.hash + 1) % SizeMod ELSE node[n].size

LEMMA ReturnWrote ==
  ASSUME Sound, pc = "loop", NEW nd \in Node, Return(nd),
         nd.child = node[node_ofs].child, nd.type = node[node_ofs].type,
         nd.size = node[node_ofs].size
  PROVE  Wrote(nd.keys)
<1> DEFINE written == [node EXCEPT ![node_ofs] = nd]
           z       == (req.hash + 1) % SizeMod
<1>1. /\ used' = used /\ roots' = roots /\ pc' = "idle"
      /\ node' = IF req.append THEN [written EXCEPT ![req.ofs].size = z]
                 ELSE written
  BY DEF Return
<1>2. /\ node_ofs \in Nodes /\ req.ofs \in Nodes /\ DOMAIN node = Nodes
      /\ \A n \in Nodes : node[n] \in Node
  BY TurnFacts, SoundNodes DEF WellFormed
<1>3. \A n \in Nodes : /\ written[n] = IF n = node_ofs THEN nd ELSE node[n]
                       /\ written[n] \in Node
  BY <1>2
<1>4. DOMAIN written = Nodes
  BY <1>2
<1> HIDE DEF written, z
<1>5. ASSUME NEW n \in Nodes
      PROVE  /\ node'[n].keys = written[n].keys
             /\ node'[n].child = written[n].child
             /\ node'[n].type = written[n].type
             /\ node'[n].size = IF req.append /\ n = req.ofs THEN z
                                ELSE written[n].size
  <2>1. CASE ~req.append
    BY <2>1, <1>1
  <2>2. CASE req.append
    <3>1. node' = [written EXCEPT ![req.ofs].size = z]
      BY <2>2, <1>1
    <3>2. CASE n = req.ofs
      <4>1. node'[n] = [written[n] EXCEPT !.size = z]
        BY <3>1, <3>2, <1>4
      <4> QED
        BY <4>1, <3>2, <2>2, <1>3 DEF Node
    <3>3. CASE n # req.ofs
      BY <3>1, <3>3, <1>4
    <3> QED
      BY <3>2, <3>3
  <2> QED
    BY <2>1, <2>2
<1> QED
  BY <1>1, <1>3, <1>5 DEF Wrote, z

\* An overwrite changes the value of an entry that matches.
LEMMA OverwriteKeys ==
  ASSUME Sound, Overwrite
  PROVE  LET w  == node_ofs
             i  == Position(node[w].keys, req)
         IN  /\ i + 1 \in 1 .. Len(node[w].keys)
             /\ Matches(node[w].keys[i + 1], req)
             /\ \E ks \in Seq(Entry) :
                  /\ Wrote(ks) /\ Len(ks) = Len(node[w].keys)
                  /\ ks[i + 1] = [node[w].keys[i + 1] EXCEPT !.val = req.val]
                  /\ \A j \in 1 .. Len(ks) : j # i + 1 => ks[j] = node[w].keys[j]
<1> DEFINE nd == Bumped(node_ofs)
           i  == Position(node[node_ofs].keys, req)
           ks == [nd.keys EXCEPT ![i + 1].val = req.val]
           wr == [nd EXCEPT !.keys[i + 1].val = req.val]
           e  == [nd.keys[i + 1] EXCEPT !.val = req.val]
<1>1. pc = "loop" /\ Return(wr) /\ Found(node[node_ofs].keys, req)
  BY DEF Overwrite
<1>2. /\ nd \in Node /\ nd.keys \in Seq(Entry)
      /\ nd.keys = node[node_ofs].keys /\ nd.child = node[node_ofs].child
      /\ nd.type = node[node_ofs].type /\ nd.size = node[node_ofs].size
  <2>1. node[node_ofs] \in Node /\ WellFormed(nd, used)
    BY <1>1, TurnFacts, SoundNodes DEF WellFormed
  <2> QED
    BY <2>1 DEF WellFormed, Node, Bumped
<1>3. Len(nd.keys) \in Nat
  BY <1>2, LenProperties
<1>4. i + 1 \in 1 .. Len(nd.keys) /\ Matches(nd.keys[i + 1], req)
  BY <1>1, <1>2, <1>3, PositionStops DEF Found, i
<1>5. ks = [nd.keys EXCEPT ![i + 1] = e]
  OBVIOUS
<1>6. wr = [nd EXCEPT !.keys = ks]
  BY <1>2 DEF Node
<1>7. e \in Entry
  <2>1. nd.keys[i + 1] \in Entry
    BY <1>2, <1>4, ElementOfSeq
  <2> QED
    BY <2>1, <1>1, TurnFacts DEF Entry
<1> HIDE DEF nd, i, ks, wr, e
<1>8. /\ ks \in Seq(Entry) /\ Len(ks) = Len(nd.keys)
      /\ \A j \in 1 .. Len(nd.keys) : ks[j] = IF j = i + 1 THEN e ELSE nd.keys[j]
  BY <1>2, <1>4, <1>5, <1>7, ExceptSeq
<1>9. /\ wr \in Node /\ wr.keys = ks /\ wr.child = nd.child /\ wr.type = nd.type
      /\ wr.size = nd.size
  BY <1>2, <1>6, <1>8 DEF Node
<1>10. Wrote(ks)
  BY <1>1, <1>2, <1>9, ReturnWrote
<1>11. /\ i + 1 \in 1 .. Len(node[node_ofs].keys)
       /\ Matches(node[node_ofs].keys[i + 1], req)
       /\ ks \in Seq(Entry) /\ Wrote(ks) /\ Len(ks) = Len(node[node_ofs].keys)
       /\ ks[i + 1] = [node[node_ofs].keys[i + 1] EXCEPT !.val = req.val]
       /\ \A j \in 1 .. Len(ks) : j # i + 1 => ks[j] = node[node_ofs].keys[j]
  BY <1>2, <1>3, <1>4, <1>8, <1>10 DEF e
<1> QED
  BY <1>11 DEF i

\* An insertion puts a new entry into a leaf.
LEMMA InsertLeafKeys ==
  ASSUME Sound, InsertLeaf
  PROVE  LET w  == node_ofs
             i  == Position(node[w].keys, req)
         IN  /\ i \in 0 .. Len(node[w].keys) /\ ~Found(node[w].keys, req)
             /\ IsLeaf(w)
             /\ \E ks \in Seq(Entry) :
                  /\ Wrote(ks) /\ Len(ks) = Len(node[w].keys) + 1
                  /\ \A j \in 1 .. i : ks[j] = node[w].keys[j]
                  /\ ks[i + 1]
                       = [hash |-> req.hash, key |-> req.key, val |-> req.val]
                  /\ \A j \in i + 1 .. Len(node[w].keys) :
                       ks[j + 1] = node[w].keys[j]
<1> DEFINE nd == Bumped(node_ofs)
           i  == Position(node[node_ofs].keys, req)
           e  == [hash |-> req.hash, key |-> req.key, val |-> req.val]
           ks == SubSeq(nd.keys, 1, i) \o <<e>>
                   \o SubSeq(nd.keys, i + 1, Len(nd.keys))
           wr == [nd EXCEPT !.keys = SubSeq(@, 1, i) \o <<e>>
                                       \o SubSeq(@, i + 1, Len(@))]
<1>1. /\ pc = "loop" /\ Return(wr) /\ ~Found(node[node_ofs].keys, req)
      /\ node[node_ofs].child[i] = 0
  BY DEF InsertLeaf
<1>2. /\ nd \in Node /\ nd.keys \in Seq(Entry) /\ Len(nd.keys) \in Nat
      /\ nd.keys = node[node_ofs].keys /\ nd.child = node[node_ofs].child
      /\ nd.type = node[node_ofs].type /\ nd.size = node[node_ofs].size
      /\ req \in Request /\ req.val \in Values /\ WellFormed(nd, used)
  <2>1. node[node_ofs] \in Node /\ WellFormed(nd, used)
    BY <1>1, TurnFacts, SoundNodes DEF WellFormed
  <2>2. /\ nd \in Node /\ nd.keys \in Seq(Entry)
        /\ nd.keys = node[node_ofs].keys /\ nd.child = node[node_ofs].child
        /\ nd.type = node[node_ofs].type /\ nd.size = node[node_ofs].size
    BY <2>1 DEF WellFormed, Node, Bumped
  <2> QED
    BY <2>1, <2>2, <1>1, TurnFacts, LenProperties
<1>3. i \in 0 .. Len(nd.keys)
  BY <1>2, PositionStops
<1>4. e \in Entry
  BY <1>2 DEF Entry, Request
<1>5. wr = [nd EXCEPT !.keys = ks]
  BY <1>2 DEF Node
<1> HIDE DEF nd, i, e
<1>6. /\ ks \in Seq(Entry) /\ Len(ks) = Len(nd.keys) + 1
      /\ \A j \in 1 .. i : ks[j] = nd.keys[j]
      /\ ks[i + 1] = e
      /\ \A j \in i + 1 .. Len(nd.keys) : ks[j + 1] = nd.keys[j]
  <2>1. InsertedIn(Entry, nd.keys, e, i, ks)
    BY <1>2, <1>3, <1>4, InsertedAt
  <2> HIDE DEF ks
  <2> QED
    BY <2>1 DEF InsertedIn
<1> HIDE DEF ks, wr
<1>7. /\ wr \in Node /\ wr.keys = ks /\ wr.child = nd.child /\ wr.type = nd.type
      /\ wr.size = nd.size
  BY <1>2, <1>5, <1>6 DEF Node
<1>8. IsLeaf(node_ofs)
  BY <1>1, <1>2, <1>3 DEF WellFormed, IsLeaf
<1>9. Wrote(ks)
  BY <1>1, <1>2, <1>7, ReturnWrote
<1> QED
  BY <1>1, <1>2, <1>3, <1>6, <1>8, <1>9 DEF i, e

\* A descent bumps a generation.
LEMMA DescendKeys ==
  ASSUME Sound, Descend
  PROVE  /\ used' = used /\ roots' = roots /\ pc' = "loop" /\ req' = req
         /\ \A n \in Nodes :
              /\ node'[n].keys = node[n].keys /\ node'[n].child = node[n].child
              /\ node'[n].type = node[n].type /\ node'[n].size = node[n].size
<1>1. /\ used' = used /\ roots' = roots /\ pc = "loop" /\ pc' = "loop"
      /\ req' = req
      /\ node' = [node EXCEPT ![node_ofs] = Bumped(node_ofs)]
  BY DEF Descend
<1>2. /\ node_ofs \in Nodes /\ DOMAIN node = Nodes /\ node[node_ofs] \in Node
  BY <1>1, TurnFacts, SoundNodes DEF WellFormed
<1>3. /\ Bumped(node_ofs).keys = node[node_ofs].keys
      /\ Bumped(node_ofs).child = node[node_ofs].child
      /\ Bumped(node_ofs).type = node[node_ofs].type
      /\ Bumped(node_ofs).size = node[node_ofs].size
  BY <1>2 DEF Bumped, Node
<1> QED
  BY <1>1, <1>2, <1>3

-----------------------------------------------------------------------------
(***************************************************************************)
(* Objects hold keys, arrays hold indices                                  *)
(***************************************************************************)

\* Entries of objects have keys and their hashes, those of arrays the empty
\* key and any number; requests for them are made likewise.
EntryFits(t, e) ==
  IF t = "Object" THEN e.key \in Keys /\ e.hash = Hash[e.key]
  ELSE e.key = EmptyKey
Seeks(t, q) == EntryFits(t, q) /\ (q.append <=> t = "Array")

Typed(home) ==
  /\ \A n \in Nodes : node[n].type = node[home[n]].type
  /\ \A n \in Nodes : \A j \in 1 .. Len(node[n].keys) :
       EntryFits(node[n].type, node[n].keys[j])
  /\ pc = "loop" => /\ Seeks(node[req.ofs].type, req)
                    /\ req.append => req.hash = node[req.ofs].size

\* Steps that lay out no node.
LEMMA TypedStays ==
  ASSUME Sound, NEW home, NEW hm, Typed(home), Trees(home),
         \A n \in Nodes : hm[n] = home[n], Nodes' = Nodes,
         \A n \in Nodes : /\ node'[n].type = node[n].type
                          /\ \A j \in 1 .. Len(node'[n].keys) :
                               EntryFits(node[n].type, node'[n].keys[j]),
         pc' = "loop" => /\ Seeks(node'[req'.ofs].type, req')
                         /\ req'.append => req'.hash = node'[req'.ofs].size
  PROVE  Typed(hm)'
<1>1. \A n \in Nodes : home[n] \in Nodes
  BY DEF Trees, Sound, TypeOK
<1>2. \A n \in Nodes' : node'[n].type = node'[hm[n]].type
  BY <1>1 DEF Typed
<1> QED
  BY <1>2 DEF Typed

LEMMA CreateTyped ==
  ASSUME Sound, NEW type \in Types, InitStructure(type),
         NEW home, NEW hm, Trees(home), Typed(home), Trees(hm)',
         \A n \in Nodes : hm[n] = home[n]
  PROVE  Typed(hm)'
<1>u. PICK u : u = used
  OBVIOUS
<1>1. /\ Nodes' = Nodes \cup {u} /\ u \notin Nodes
      /\ roots' = roots \cup {u} /\ roots \subseteq Nodes
      /\ \A n \in Nodes : node'[n] = node[n]
      /\ Len(node'[u].keys) = 0
      /\ pc' = "idle"
  <2>1. /\ u \in Nat /\ used' = u + 1 /\ roots \subseteq Nodes
        /\ roots' = roots \cup {u} /\ pc' = "idle"
    BY SoundNodes, <1>u DEF InitStructure, Sound, TypeOK
  <2>2. node' = [n \in 0 .. u |->
                  IF n = u THEN EmptyNode(1, type) ELSE node[n]]
    BY <1>u DEF InitStructure
  <2>3. Len(EmptyNode(1, type).keys) = 0
    BY EmptySeq DEF EmptyNode
  <2> QED
    BY <2>1, <2>2, <2>3, <1>u DEF Nodes
<1>2. hm[u] = u /\ \A n \in Nodes : home[n] \in Nodes
  BY <1>1 DEF Trees
<1>3. \A n \in Nodes' : node'[n].type = node'[hm[n]].type
  BY <1>1, <1>2 DEF Typed
<1>4. \A n \in Nodes' : \A j \in 1 .. Len(node'[n].keys) :
        EntryFits(node'[n].type, node'[n].keys[j])
  BY <1>1 DEF Typed
<1> QED
  BY <1>1, <1>3, <1>4 DEF Typed

LEMMA SplitRootTyped ==
  ASSUME Shapely, Shapely', SplitRoot, NEW home, NEW hm, Trees(home),
         Typed(home), Trees(hm)', \A n \in Nodes : hm[n] = home[n]
  PROVE  Typed(hm)'
<1>u. PICK u, r : u = used /\ r = node_ofs
  OBVIOUS
<1>1. Sound /\ Sound' /\ pc = "loop" /\ parent_ofs = NoParent
  BY DEF Shapely, SplitRoot
<1>2. /\ used' = u + 1 /\ roots' = roots /\ r \in roots /\ r \in Nodes
      /\ node'[u] = Bumped(r)
      /\ Len(node'[r].keys) = 0
      /\ node'[r].child = [s \in Slots |-> IF s = 0 THEN u ELSE 0]
      /\ node'[r].type = node[r].type /\ node'[r].size = node[r].size
      /\ \A n \in Nodes \ {r} : node'[n] = node[n]
  BY <1>1, <1>u, SplitRootNodes, TurnFacts
<1>3. /\ u \in Nat \ {0} /\ roots \subseteq Nodes /\ u \notin Nodes
      /\ Nodes' = Nodes \cup {u} /\ 0 \in Slots
      /\ Bumped(r).keys = node[r].keys /\ Bumped(r).type = node[r].type
  BY <1>1, <1>2, <1>u, TurnFacts, MaxKeysAssumption DEF Sound, TypeOK, Nodes, Slots
<1>4. \A n \in Nodes : home[n] \in Nodes /\ hm[n] = home[n]
  BY <1>3 DEF Trees
<1>5. hm[u] = r
  <2>1. 0 \in Live(r)' /\ node'[r].child[0] = u
    BY <1>2, <1>3 DEF Live
  <2>2. hm[u] = hm[r]
    BY <2>1, <1>2, <1>3 DEF Trees
  <2> QED
    BY <2>2, <1>2, <1>4 DEF Trees
<1>6. \A n \in Nodes : node'[n].type = node[n].type
  BY <1>2
<1>7. node'[u].type = node[r].type
  BY <1>2, <1>3
<1>8. \A n \in Nodes' : node'[n].type = node'[hm[n]].type
  <2>1. \A n \in Nodes : node'[n].type = node'[hm[n]].type
    BY <1>4, <1>6 DEF Typed
  <2>2. node'[u].type = node'[hm[u]].type
    BY <1>2, <1>5, <1>6, <1>7
  <2> QED
    BY <2>1, <2>2, <1>3
<1>9. \A n \in Nodes' : \A j \in 1 .. Len(node'[n].keys) :
        EntryFits(node'[n].type, node'[n].keys[j])
  <2>1. \A n \in Nodes \ {r} : \A j \in 1 .. Len(node'[n].keys) :
          EntryFits(node'[n].type, node'[n].keys[j])
    BY <1>2 DEF Typed
  <2>2. \A j \in 1 .. Len(node'[u].keys) :
          EntryFits(node'[u].type, node'[u].keys[j])
    BY <1>2, <1>3 DEF Typed
  <2> QED
    BY <2>1, <2>2, <1>2, <1>3
<1>10. pc' = "loop" => /\ Seeks(node'[req'.ofs].type, req')
                       /\ req'.append => req'.hash = node'[req'.ofs].size
  <2>1. req' = req /\ req.ofs \in Nodes
    BY <1>1, TurnFacts DEF SplitRoot
  <2>2. node'[req.ofs].size = node[req.ofs].size
    BY <2>1, <1>2
  <2> QED
    BY <2>1, <2>2, <1>1, <1>6 DEF Typed
<1> QED
  BY <1>8, <1>9, <1>10 DEF Typed

LEMMA SplitChildTyped ==
  ASSUME Shapely, Shapely', SplitChild, NEW home, NEW hm, Trees(home),
         Typed(home), Trees(hm)', \A n \in Nodes : hm[n] = home[n]
  PROVE  Typed(hm)'
<1>u. PICK u, w, p : u = used /\ w = node_ofs /\ p = parent_ofs
  OBVIOUS
<1>1. Sound /\ Sound' /\ pc = "loop"
  BY DEF Shapely, SplitChild
<1>2. /\ used' = u + 1 /\ roots' = roots /\ p \in Nodes /\ p # w
      /\ w # 0
      /\ Len(node[w].keys) = MaxKeys
      /\ Len(node'[u].keys) = Mid /\ Len(node'[w].keys) = Mid
      /\ Len(node[p].keys) \in Nat
      /\ Len(node'[p].keys) = Len(node[p].keys) + 1
      /\ Len(node[p].keys) < MaxKeys
      /\ \A n \in Nodes \ {w, p} : node'[n] = node[n]
  BY <1>1, <1>u, SplitChildNodes
<1>3. /\ u \in Nat \ {0} /\ roots \subseteq Nodes /\ u \notin Nodes
      /\ Nodes' = Nodes \cup {u} /\ w \in Nodes
  <2>1. used \in Nat \ {0} /\ roots \subseteq Nodes /\ node_ofs \in Nodes
    BY <1>1, TurnFacts DEF Sound, TypeOK
  <2> QED
    BY <2>1, <1>2, <1>u DEF Nodes
<1>4. PICK i : SplitAt(p, w, u, i)
  BY <1>1, <1>u, SplitChildKeys
<1>5. /\ i \in 0 .. Len(node[p].keys) /\ node[p].child[i] = w
      /\ \A j \in 1 .. i : node'[p].keys[j] = node[p].keys[j]
      /\ node'[p].keys[i + 1] = node[w].keys[Mid + 1]
      /\ \A j \in i + 1 .. Len(node[p].keys) :
            node'[p].keys[j + 1] = node[p].keys[j]
  BY <1>4, Zenon DEF SplitAt
<1>6. \A j \in 1 .. Mid : /\ node'[w].keys[j] = node[w].keys[j]
                          /\ node'[u].keys[j] = node[w].keys[Mid + 1 + j]
  BY <1>4, Zenon DEF SplitAt
<1>7. /\ node'[p].type = node[p].type /\ node'[p].size = node[p].size
      /\ node'[w].type = node[w].type /\ node'[w].size = node[w].size
      /\ node'[u].type = node[w].type
  BY <1>4, Zenon DEF SplitAt
<1>8. \A n \in Nodes : home[n] \in Nodes /\ hm[n] = home[n]
  BY <1>3 DEF Trees
<1>9. i \in Live(p) /\ i + 1 \in Live(p)' /\ node'[p].child[i + 1] = u
  BY <1>2, <1>4, MaxKeysAssumption DEF SplitAt, Live, Slots
<1>10. home[w] = home[p]
  BY <1>2, <1>3, <1>5, <1>9 DEF Trees
<1>11. hm[u] = home[p]
  <2>1. hm[u] = hm[p]
    BY <1>2, <1>3, <1>9 DEF Trees
  <2> QED
    BY <2>1, <1>2, <1>8
<1>12. /\ \A n \in Nodes : node'[n].type = node[n].type
       /\ node'[u].type = node[w].type
       /\ node[p].type = node[w].type
  BY <1>2, <1>3, <1>7, <1>10 DEF Typed
<1>13. \A n \in Nodes' : node'[n].type = node'[hm[n]].type
  <2>1. \A n \in Nodes : node'[n].type = node'[hm[n]].type
    BY <1>8, <1>12 DEF Typed
  <2>2. node'[u].type = node'[hm[u]].type
    BY <1>2, <1>8, <1>11, <1>12 DEF Typed
  <2> QED
    BY <2>1, <2>2, <1>3
<1>14. ASSUME NEW n \in Nodes', NEW j \in 1 .. Len(node'[n].keys)
       PROVE  EntryFits(node'[n].type, node'[n].keys[j])
  <2>1. CASE n \in Nodes \ {w, p}
    BY <2>1, <1>2, <1>14 DEF Typed
  <2>2. \A k \in 1 .. MaxKeys : EntryFits(node[w].type, node[w].keys[k])
    BY <1>2, <1>3 DEF Typed
  <2>3. CASE n = w
    <3>1. j \in 1 .. Mid
      BY <2>3, <1>2, <1>14
    <3>2. node'[w].keys[j] = node[w].keys[j]
      BY <3>1, <1>6
    <3>3. j \in 1 .. MaxKeys
      BY <3>1, MidInside
    <3> QED
      BY <2>2, <2>3, <3>2, <3>3, <1>3, <1>12
  <2>4. CASE n = u
    <3>1. j \in 1 .. Mid
      BY <2>4, <1>2, <1>14
    <3>2. node'[u].keys[j] = node[w].keys[Mid + 1 + j]
      BY <3>1, <1>6
    <3>3. Mid + 1 + j \in 1 .. MaxKeys
      BY <3>1, MidInside
    <3> QED
      BY <2>2, <2>4, <3>2, <3>3, <1>12
  <2>5. CASE n = p
    <3>1. \A k \in 1 .. Len(node[p].keys) : EntryFits(node[p].type, node[p].keys[k])
      BY <1>2 DEF Typed
    <3>2. i \in 0 .. Len(node[p].keys) /\ j \in 1 .. Len(node[p].keys) + 1
      BY <2>5, <1>2, <1>5, <1>14
    <3>3. CASE j <= i
      <4>1. j \in 1 .. i /\ j \in 1 .. Len(node[p].keys)
        BY <3>2, <3>3, <1>2
      <4>2. node'[p].keys[j] = node[p].keys[j]
        BY <4>1, <1>5
      <4> QED
        BY <4>1, <4>2, <3>1, <2>5, <1>7
    <3>4. CASE j = i + 1
      <4>1. node'[p].keys[j] = node[w].keys[Mid + 1]
        BY <3>4, <1>5
      <4>2. Mid + 1 \in 1 .. MaxKeys
        BY MidInside
      <4> QED
        BY <4>1, <4>2, <2>2, <2>5, <1>7, <1>12
    <3>5. CASE j > i + 1
      <4>1. j - 1 \in i + 1 .. Len(node[p].keys) /\ (j - 1) + 1 = j
            /\ j - 1 \in 1 .. Len(node[p].keys)
        BY <3>2, <3>5, <1>2, SMTT(30)
      <4>2. node'[p].keys[(j - 1) + 1] = node[p].keys[j - 1]
        BY <4>1, <1>5
      <4> QED
        BY <4>1, <4>2, <3>1, <2>5, <1>7
    <3> QED
      BY <3>2, <3>3, <3>4, <3>5
  <2> QED
    BY <2>1, <2>3, <2>4, <2>5, <1>3
<1>15. pc' = "loop" => /\ Seeks(node'[req'.ofs].type, req')
                       /\ req'.append => req'.hash = node'[req'.ofs].size
  <2>1. req' = req /\ req.ofs \in Nodes
    BY <1>1, TurnFacts DEF SplitChild
  <2>2. node'[req.ofs].size = node[req.ofs].size
    BY <2>1, <1>2, <1>7
  <2> QED
    BY <2>1, <2>2, <1>1, <1>12 DEF Typed
<1> QED
  BY <1>13, <1>14, <1>15 DEF Typed

LEMMA StartTyped ==
  ASSUME Sound, NEW request, Start(request),
         Seeks(node[request.ofs].type, request),
         request.append => request.hash = node[request.ofs].size,
         NEW home, NEW hm, Trees(home), Typed(home),
         \A n \in Nodes : hm[n] = home[n]
  PROVE  Typed(hm)'
<1>1. used' = used /\ node' = node /\ req' = request
  BY DEF Start
<1>2. Nodes' = Nodes
  BY <1>1 DEF Nodes
<1> QED
  BY <1>1, <1>2, TypedStays DEF Typed

LEMMA DescendTyped ==
  ASSUME Shapely, Descend, NEW home, NEW hm, Trees(home), Typed(home),
         \A n \in Nodes : hm[n] = home[n]
  PROVE  Typed(hm)'
<1>1. Sound /\ pc = "loop" /\ req.ofs \in Nodes
  BY TurnFacts DEF Shapely, Descend
<1>2. /\ Nodes' = Nodes /\ req' = req
      /\ \A n \in Nodes : /\ node'[n].keys = node[n].keys
                          /\ node'[n].type = node[n].type
                          /\ node'[n].size = node[n].size
  BY <1>1, DescendKeys DEF Nodes
<1>3. \A n \in Nodes : \A j \in 1 .. Len(node'[n].keys) :
        EntryFits(node[n].type, node'[n].keys[j])
  BY <1>2 DEF Typed
<1>4. /\ Seeks(node'[req'.ofs].type, req')
      /\ req'.append => req'.hash = node'[req'.ofs].size
  BY <1>1, <1>2 DEF Typed
<1> QED
  BY <1>1, <1>2, <1>3, <1>4, TypedStays

\* The walk stands in the tree it writes to.
LEMMA WalkType ==
  ASSUME Sound, pc = "loop", NEW lev, NEW home, Typed(home), Trees(home),
         WalkRank(lev, home)
  PROVE  /\ node[node_ofs].type = node[req.ofs].type
         /\ node[node_ofs].type \in Types
         /\ Seeks(node[node_ofs].type, req)
<1>1. node_ofs \in Nodes /\ home[node_ofs] = req.ofs
  BY TurnFacts DEF WalkRank
<1>2. node[node_ofs].type \in Types
  BY <1>1, SoundNodes DEF WellFormed, Node
<1> QED
  BY <1>1, <1>2 DEF Typed

LEMMA WroteTyped ==
  ASSUME Shapely, pc = "loop", NEW ks, Wrote(ks),
         NEW lev, NEW home, NEW hm, Trees(home), Typed(home),
         WalkRank(lev, home), \A n \in Nodes : hm[n] = home[n],
         \A j \in 1 .. Len(ks) : EntryFits(node[node_ofs].type, ks[j])
  PROVE  Typed(hm)'
<1>1. Sound /\ Nodes' = Nodes /\ pc' # "loop"
  BY DEF Shapely, Wrote, Nodes
<1>2. ASSUME NEW n \in Nodes
      PROVE  /\ node'[n].type = node[n].type
             /\ \A j \in 1 .. Len(node'[n].keys) :
                  EntryFits(node[n].type, node'[n].keys[j])
  BY DEF Wrote, Typed
<1> QED
  BY <1>1, <1>2, TypedStays

LEMMA OverwriteTyped ==
  ASSUME Shapely, Overwrite, NEW lev, NEW home, NEW hm, Trees(home),
         Typed(home), WalkRank(lev, home), \A n \in Nodes : hm[n] = home[n]
  PROVE  Typed(hm)'
<1> DEFINE i == Position(node[node_ofs].keys, req)
           old == node[node_ofs].keys
<1>1. Sound /\ pc = "loop" /\ node_ofs \in Nodes
  BY TurnFacts DEF Shapely, Overwrite
<1>2. i + 1 \in 1 .. Len(old)
  BY <1>1, OverwriteKeys
<1>3. PICK ks \in Seq(Entry) :
        /\ Wrote(ks) /\ Len(ks) = Len(old)
        /\ ks[i + 1] = [old[i + 1] EXCEPT !.val = req.val]
        /\ \A j \in 1 .. Len(ks) : j # i + 1 => ks[j] = old[j]
  BY <1>1, OverwriteKeys
<1>4. old \in Seq(Entry)
  BY <1>1, SoundNodes DEF WellFormed, Node
<1>5. \A j \in 1 .. Len(old) : EntryFits(node[node_ofs].type, old[j])
  BY <1>1 DEF Typed
<1> HIDE DEF i, old
<1>6. ks[i + 1].key = old[i + 1].key /\ ks[i + 1].hash = old[i + 1].hash
  <2>1. old[i + 1] \in Entry
    BY <1>2, <1>4, ElementOfSeq
  <2> QED
    BY <2>1, <1>3 DEF Entry
<1>7. \A j \in 1 .. Len(ks) : EntryFits(node[node_ofs].type, ks[j])
  BY <1>2, <1>3, <1>5, <1>6 DEF EntryFits
<1> QED
  BY <1>1, <1>3, <1>7, WroteTyped

LEMMA InsertLeafTyped ==
  ASSUME Shapely, InsertLeaf, NEW lev, NEW home, NEW hm, Trees(home),
         Typed(home), WalkRank(lev, home), \A n \in Nodes : hm[n] = home[n]
  PROVE  Typed(hm)'
<1> DEFINE i == Position(node[node_ofs].keys, req)
           old == node[node_ofs].keys
<1>1. Sound /\ pc = "loop" /\ node_ofs \in Nodes
  BY TurnFacts DEF Shapely, InsertLeaf
<1>2. i \in 0 .. Len(old)
  BY <1>1, InsertLeafKeys
<1>3. PICK ks \in Seq(Entry) :
        /\ Wrote(ks) /\ Len(ks) = Len(old) + 1
        /\ \A j \in 1 .. i : ks[j] = old[j]
        /\ ks[i + 1] = [hash |-> req.hash, key |-> req.key, val |-> req.val]
        /\ \A j \in i + 1 .. Len(old) : ks[j + 1] = old[j]
  BY <1>1, InsertLeafKeys
<1>4. old \in Seq(Entry) /\ Len(old) \in Nat
  BY <1>1, SoundNodes DEF WellFormed, Node
<1>5. \A j \in 1 .. Len(old) : EntryFits(node[node_ofs].type, old[j])
  BY <1>1 DEF Typed
<1>6. EntryFits(node[node_ofs].type, req)
  BY <1>1, WalkType DEF Seeks
<1> HIDE DEF i, old
<1>7. EntryFits(node[node_ofs].type, ks[i + 1])
  BY <1>3, <1>6 DEF EntryFits
<1>8. ASSUME NEW j \in 1 .. Len(ks)
      PROVE  EntryFits(node[node_ofs].type, ks[j])
  <2>1. CASE j <= i
    <3>1. j \in 1 .. i /\ j \in 1 .. Len(old)
      BY <2>1, <1>2, <1>4
    <3> QED
      BY <3>1, <1>3, <1>5
  <2>2. CASE j = i + 1
    BY <2>2, <1>7
  <2>3. CASE j > i + 1
    <3>1. j - 1 \in i + 1 .. Len(old) /\ (j - 1) + 1 = j /\ j - 1 \in 1 .. Len(old)
      BY <2>3, <1>2, <1>3, <1>4
    <3>2. ks[(j - 1) + 1] = old[j - 1]
      BY <3>1, <1>3
    <3> QED
      BY <3>1, <3>2, <1>5
  <2> QED
    BY <2>1, <2>2, <2>3, <1>2
<1> QED
  BY <1>1, <1>3, <1>8, WroteTyped

\* Whatever the step, it leaves objects with keys and arrays with indices.
LEMMA NextTyped ==
  ASSUME Shapely, Shapely', [Next]_vars, NEW lev, NEW home, NEW H,
         Ranking(lev, home, H), Typed(home),
         NEW hm, Trees(hm)', \A n \in Nodes : hm[n] = home[n]
  PROVE  Typed(hm)'
<1>1. Sound /\ Trees(home) /\ WalkRank(lev, home)
  BY DEF Shapely, Ranking
<1>2. ASSUME NEW t \in Types, InitStructure(t)
      PROVE  Typed(hm)'
  BY <1>1, <1>2, CreateTyped
<1>3. ASSUME NEW r \in RootsOf("Object"), NEW k \in Keys, NEW v \in Values,
             SetBegin(r, k, v)
      PROVE  Typed(hm)'
  <2>1. PICK q : q = [ofs |-> r, key |-> k, hash |-> Hash[k], val |-> v,
                      append |-> FALSE]
    OBVIOUS
  <2>2. Start(q) /\ Seeks(node[q.ofs].type, q) /\ ~q.append
    BY <2>1, <1>3 DEF SetBegin, Seeks, EntryFits, RootsOf
  <2> QED
    BY <2>2, <1>1, StartTyped
<1>4. ASSUME NEW r \in RootsOf("Array"), NEW v \in Values, AppendBegin(r, v)
      PROVE  Typed(hm)'
  <2>1. PICK q : q = [ofs |-> r, key |-> EmptyKey, hash |-> node[r].size,
                      val |-> v, append |-> TRUE]
    OBVIOUS
  <2>2. /\ Start(q) /\ Seeks(node[q.ofs].type, q)
        /\ q.hash = node[q.ofs].size
    BY <2>1, <1>4 DEF AppendBegin, Seeks, EntryFits, RootsOf
  <2> QED
    BY <2>2, <1>1, StartTyped
<1>5. CASE SplitRoot
  BY <1>1, <1>5, SplitRootTyped
<1>6. CASE SplitChild
  BY <1>1, <1>6, SplitChildTyped
<1>7. CASE Descend
  BY <1>1, <1>7, DescendTyped
<1>8. CASE Overwrite
  BY <1>1, <1>8, OverwriteTyped
<1>9. CASE InsertLeaf
  BY <1>1, <1>9, InsertLeafTyped
<1>10. CASE UNCHANGED vars
  <2>1. Nodes' = Nodes /\ node' = node /\ req' = req /\ pc' = pc
    BY <1>10 DEF vars, Nodes
  <2> QED
    BY <2>1, <1>1, TypedStays DEF Typed
<1> QED
  BY <1>2, <1>3, <1>4, <1>5, <1>6, <1>7, <1>8, <1>9, <1>10, Zenon DEF Next, Turn

-----------------------------------------------------------------------------

\* What the turns keep of the structures: their roots and their types.
Kind == /\ roots' = roots /\ roots \subseteq Nodes
        /\ \A n \in Nodes : node'[n].type = node[n].type

LEMMA SplitKind ==
  ASSUME Sound, SplitRoot \/ SplitChild
  PROVE  Kind
<1>1. roots \subseteq Nodes
  BY DEF Sound, TypeOK
<1>2. CASE SplitRoot
  <2>1. /\ roots' = roots
        /\ \A n \in Nodes \ {node_ofs} : node'[n] = node[n]
        /\ node'[node_ofs].type = node[node_ofs].type
    BY <1>2, SplitRootNodes
  <2> QED
    BY <1>1, <2>1 DEF Kind
<1>3. CASE SplitChild
  <2>1. PICK u, w, p : u = used /\ w = node_ofs /\ p = parent_ofs
    OBVIOUS
  <2>2. /\ roots' = roots
        /\ \A n \in Nodes \ {w, p} : node'[n] = node[n]
    BY <1>3, <2>1, SplitChildNodes
  <2>3. PICK i : SplitAt(p, w, u, i)
    BY <1>3, <2>1, SplitChildKeys
  <2>4. node'[p].type = node[p].type /\ node'[w].type = node[w].type
    BY <2>3, Zenon DEF SplitAt
  <2> QED
    BY <1>1, <2>2, <2>4 DEF Kind
<1> QED
  BY <1>2, <1>3

LEMMA DescendKind ==
  ASSUME Sound, Descend
  PROVE  Kind
<1>1. \A n \in Nodes : node'[n].type = node[n].type
  BY DescendKeys
<1>2. roots' = roots
  BY DEF Descend
<1> QED
  BY <1>1, <1>2 DEF Kind, Sound, TypeOK

LEMMA WroteKind ==
  ASSUME Sound, Overwrite \/ InsertLeaf
  PROVE  Kind
<1>1. PICK ks : Wrote(ks)
  BY OverwriteKeys, InsertLeafKeys
<1> QED
  BY <1>1 DEF Wrote, Kind, Sound, TypeOK

LEMMA TurnKind ==
  ASSUME Sound, Turn
  PROVE  Kind
BY SplitKind, DescendKind, WroteKind DEF Turn

-----------------------------------------------------------------------------
(***************************************************************************)
(* The search of a node goes by hash alone                                 *)
(***************************************************************************)

\* No two of the keys in use have one hash.  The code compares such keys only
\* where it meets both in one node and always goes left at a split: with
\* collisions it loses keys (BTree_collide).
HashInjective == \A j, k \in Keys : Hash[j] = Hash[k] => j = k

\* An entry and a request of the same tree compare as their hashes do.
LEMMA Compares ==
  ASSUME HashInjective, NEW t, NEW e, NEW q, EntryFits(t, e), Seeks(t, q),
         e.hash \in Nat, q.hash \in Nat
  PROVE  /\ Before(e, q) <=> e.hash < q.hash
         /\ Matches(e, q) <=> e.hash = q.hash
<1>1. CASE t = "Object"
  <2>1. ~q.append /\ e.key \in Nat /\ q.key \in Nat
        /\ (e.hash = q.hash => e.key = q.key)
    BY <1>1, KeysAssumption DEF Seeks, EntryFits, HashInjective
  <2> QED
    BY <2>1 DEF Before, Matches
<1>2. CASE t # "Object"
  <2>1. e.key = EmptyKey /\ q.key = EmptyKey
    BY <1>2 DEF Seeks, EntryFits
  <2> QED
    BY <2>1 DEF Before, Matches, EmptyKey
<1> QED
  BY <1>1, <1>2

\* The hashes of a node's keys grow from slot to slot.
Rising(ks) == \A j, k \in 1 .. Len(ks) : j < k => ks[j].hash < ks[k].hash

\* Where the scan of such keys stops, and whether it finds the hash it is for.
LEMMA FindsPlace ==
  ASSUME HashInjective, NEW t, NEW ks \in Seq(Entry), NEW q, Seeks(t, q),
         q.hash \in Nat, \A j \in 1 .. Len(ks) : EntryFits(t, ks[j]), Rising(ks)
  PROVE  LET i == Position(ks, q)
         IN  /\ i \in 0 .. Len(ks)
             /\ \A j \in 1 .. i : ks[j].hash < q.hash
             /\ Found(ks, q) => i < Len(ks) /\ ks[i + 1].hash = q.hash
             /\ ~Found(ks, q) => \A j \in i + 1 .. Len(ks) : q.hash < ks[j].hash
<1>1. Len(ks) \in Nat /\ \A j \in 1 .. Len(ks) : ks[j].hash \in Nat
  <2>1. Len(ks) \in Nat /\ \A j \in 1 .. Len(ks) : ks[j] \in Entry
    BY LenProperties, ElementOfSeq
  <2> QED
    BY <2>1 DEF Entry
<1>2. \A j \in 1 .. Len(ks) : /\ Before(ks[j], q) <=> ks[j].hash < q.hash
                              /\ Matches(ks[j], q) <=> ks[j].hash = q.hash
  BY <1>1, Compares
<1>3. PICK i : i = Position(ks, q)
  OBVIOUS
<1>4. i \in 0 .. Len(ks) /\ StopsAt(ks, q, i)
  BY <1>1, <1>3, PositionStops
<1>5. Found(ks, q) <=> i < Len(ks) /\ Matches(ks[i + 1], q)
  BY <1>3 DEF Found
<1>6. \A j \in 1 .. i : ks[j].hash < q.hash
  BY <1>1, <1>2, <1>4 DEF StopsAt
<1>7. i < Len(ks) => ~(ks[i + 1].hash < q.hash)
  BY <1>1, <1>2, <1>4 DEF StopsAt
<1>8. ASSUME Found(ks, q)
      PROVE  i < Len(ks) /\ ks[i + 1].hash = q.hash
  BY <1>1, <1>2, <1>4, <1>5, <1>8
<1>9. ASSUME ~Found(ks, q), NEW j \in i + 1 .. Len(ks)
      PROVE  q.hash < ks[j].hash
  <2>1. i + 1 \in 1 .. Len(ks) /\ i < Len(ks) /\ j \in 1 .. Len(ks)
    BY <1>1, <1>4, <1>9
  <2>2. q.hash < ks[i + 1].hash
    BY <2>1, <1>1, <1>2, <1>5, <1>7, <1>9
  <2>3. j = i + 1 \/ ks[i + 1].hash < ks[j].hash
    BY <2>1, <1>9 DEF Rising
  <2> QED
    BY <2>1, <2>2, <2>3, <1>1
<1> QED
  BY <1>3, <1>4, <1>6, <1>8, <1>9

-----------------------------------------------------------------------------
(***************************************************************************)
(* The order of the hashes                                                 *)
(***************************************************************************)

None == -1        \* no bound

\* lo and hi bound what may stand at or below each node.
LoOf(lo, n, s) == IF s = 0 THEN lo[n] ELSE node[n].keys[s].hash
HiOf(hi, n, s) == IF s = Len(node[n].keys) THEN hi[n]
                  ELSE node[n].keys[s + 1].hash
BoundsLinked(lo, hi) ==
  /\ \A r \in roots : lo[r] = None /\ hi[r] = None
  /\ \A n \in Nodes : lo[n] \in Nat \cup {None} /\ hi[n] \in Nat \cup {None}
  /\ \A n \in Nodes : \A s \in Live(n) :
       node[n].child[s] # 0 => /\ lo[node[n].child[s]] = LoOf(lo, n, s)
                               /\ hi[node[n].child[s]] = HiOf(hi, n, s)

\* A leaf may hold the hash of its upper bound: an overwrite that comes down
\* with a split leaves the promoted median twice.
Below(h, top) == top = None \/ h < top
Between(ks, l, t, leaf) ==
  \A j \in 1 .. Len(ks) :
    l < ks[j].hash /\ (Below(ks[j].hash, t) \/ (leaf /\ ks[j].hash = t))

InBounds(lo, hi) ==
  \A n \in Nodes : /\ Rising(node[n].keys)
                   /\ Between(node[n].keys, lo[n], hi[n], IsLeaf(n))

\* The walk goes where the key belongs, or stands just left of it.
WalkBound(lo, hi) ==
  pc = "loop" =>
    lo[node_ofs] < req.hash /\ (hi[node_ofs] = None \/ req.hash <= hi[node_ofs])

Order(lo, hi) == BoundsLinked(lo, hi) /\ InBounds(lo, hi) /\ WalkBound(lo, hi)

\* The bounds after a step, where u is the node it laid out.
Extended(f, u, b, g) == g = [n \in Nodes' |-> IF n = u THEN b ELSE f[n]]

LEMMA CreateOrder ==
  ASSUME Shapely, NEW type \in Types, InitStructure(type), NEW lo, NEW hi,
         Order(lo, hi), NEW l2, NEW h2, Extended(lo, used, None, l2),
         Extended(hi, used, None, h2)
  PROVE  Order(l2, h2)'
<1>u. PICK u : u = used
  OBVIOUS
<1>1. /\ u \in Nat /\ Nodes' = Nodes \cup {u} /\ u \notin Nodes
      /\ roots' = roots \cup {u} /\ roots \subseteq Nodes
      /\ \A n \in Nodes : node'[n] = node[n]
      /\ Len(node'[u].keys) = 0 /\ node'[u].child = NoChildren
      /\ pc' = "idle"
  <2>1. /\ u \in Nat /\ used' = u + 1 /\ roots \subseteq Nodes
        /\ roots' = roots \cup {u} /\ pc' = "idle"
    BY SoundNodes, <1>u DEF InitStructure, Sound, TypeOK, Shapely
  <2>2. node' = [n \in 0 .. u |->
                  IF n = u THEN EmptyNode(1, type) ELSE node[n]]
    BY <1>u DEF InitStructure
  <2>3. Len(EmptyNode(1, type).keys) = 0 /\ EmptyNode(1, type).child = NoChildren
    BY EmptySeq DEF EmptyNode
  <2> QED
    BY <2>1, <2>2, <2>3, <1>u DEF Nodes
<1>2. /\ \A n \in Nodes : l2[n] = lo[n] /\ h2[n] = hi[n]
      /\ l2[u] = None /\ h2[u] = None
  BY <1>1, <1>u DEF Extended
<1>3. BoundsLinked(l2, h2)'
  <2>1. ASSUME NEW n \in Nodes, NEW s \in Live(n)', node'[n].child[s] # 0
        PROVE  /\ l2[node'[n].child[s]] = LoOf(l2, n, s)'
               /\ h2[node'[n].child[s]] = HiOf(h2, n, s)'
    <3>1. s \in Live(n) /\ node[n].child[s] # 0 /\ node[n].child[s] \in Nodes
      BY <2>1, <1>1, LinkEnds DEF Live
    <3> QED
      BY <3>1, <1>1, <1>2 DEF Order, BoundsLinked, LoOf, HiOf
  <2>2. \A s \in Live(u)' : node'[u].child[s] = 0
    BY <1>1, MaxKeysAssumption DEF Live, NoChildren, Slots
  <2>3. \A n \in Nodes' : l2[n] \in Nat \cup {None} /\ h2[n] \in Nat \cup {None}
    BY <1>1, <1>2 DEF Order, BoundsLinked
  <2>4. \A r \in roots' : l2[r] = None /\ h2[r] = None
    BY <1>1, <1>2 DEF Order, BoundsLinked
  <2> QED
    BY <2>1, <2>2, <2>3, <2>4, <1>1 DEF BoundsLinked
<1>4. InBounds(l2, h2)'
  <2>1. \A n \in Nodes : IsLeaf(n)' <=> IsLeaf(n)
    BY <1>1 DEF IsLeaf
  <2>2. ASSUME NEW n \in Nodes
        PROVE  Rising(node'[n].keys) /\ Between(node'[n].keys, l2[n], h2[n], IsLeaf(n)')
    BY <2>1, <1>1, <1>2 DEF Order, InBounds, Between
  <2>3. Rising(node'[u].keys) /\ Between(node'[u].keys, l2[u], h2[u], IsLeaf(u)')
    BY <1>1 DEF Rising, Between
  <2> QED
    BY <2>2, <2>3, <1>1 DEF InBounds
<1> QED
  BY <1>1, <1>3, <1>4 DEF Order, WalkBound

LEMMA SplitRootOrder ==
  ASSUME Shapely, SplitRoot, NEW lo, NEW hi, Order(lo, hi), NEW l2, NEW h2,
         Extended(lo, used, None, l2), Extended(hi, used, None, h2)
  PROVE  Order(l2, h2)'
<1>u. PICK u, r : u = used /\ r = node_ofs
  OBVIOUS
<1>1. Sound /\ pc = "loop" /\ parent_ofs = NoParent
  BY DEF Shapely, SplitRoot
<1>2. /\ used' = u + 1 /\ roots' = roots /\ r \in roots
      /\ node'[u] = Bumped(r)
      /\ Len(node'[r].keys) = 0
      /\ node'[r].child = [s \in Slots |-> IF s = 0 THEN u ELSE 0]
      /\ \A n \in Nodes \ {r} : node'[n] = node[n]
  BY <1>1, <1>u, SplitRootNodes
<1>3. /\ u \in Nat \ {0} /\ roots \subseteq Nodes /\ u \notin Nodes
      /\ Nodes' = Nodes \cup {u} /\ r \in Nodes /\ 0 \in Slots
      /\ node'[u].keys = node[r].keys
      /\ node'[u].child = node[r].child
  BY <1>1, <1>2, <1>u, TurnFacts, MaxKeysAssumption DEF Sound, TypeOK, Nodes, Slots
<1>4. /\ \A n \in Nodes : l2[n] = lo[n] /\ h2[n] = hi[n]
      /\ l2[u] = None /\ h2[u] = None /\ lo[r] = None /\ hi[r] = None
  BY <1>2, <1>3, <1>u DEF Extended, Order, BoundsLinked
<1>5. BoundsLinked(l2, h2)'
  <2>1. ASSUME NEW n \in Nodes \ {r}, NEW s \in Live(n)', node'[n].child[s] # 0
        PROVE  /\ l2[node'[n].child[s]] = LoOf(l2, n, s)'
               /\ h2[node'[n].child[s]] = HiOf(h2, n, s)'
    <3>1. s \in Live(n) /\ node[n].child[s] # 0 /\ node[n].child[s] \in Nodes
      BY <2>1, <1>2, LinkEnds DEF Live
    <3> QED
      BY <3>1, <1>2, <1>4 DEF Order, BoundsLinked, LoOf, HiOf
  <2>2. ASSUME NEW s \in Live(u)', node'[u].child[s] # 0
        PROVE  /\ l2[node'[u].child[s]] = LoOf(l2, u, s)'
               /\ h2[node'[u].child[s]] = HiOf(h2, u, s)'
    <3>1. s \in Live(r) /\ node[r].child[s] # 0 /\ node[r].child[s] \in Nodes
      BY <2>2, <1>3, LinkEnds DEF Live
    <3> QED
      BY <3>1, <1>3, <1>4 DEF Order, BoundsLinked, LoOf, HiOf
  <2>3. ASSUME NEW s \in Live(r)', node'[r].child[s] # 0
        PROVE  /\ l2[node'[r].child[s]] = LoOf(l2, r, s)'
               /\ h2[node'[r].child[s]] = HiOf(h2, r, s)'
    <3>1. s = 0 /\ node'[r].child[s] = u
      BY <2>3, <1>2, <1>3 DEF Live
    <3> QED
      BY <3>1, <1>2, <1>3, <1>4 DEF LoOf, HiOf
  <2>4. \A n \in Nodes' : l2[n] \in Nat \cup {None} /\ h2[n] \in Nat \cup {None}
    BY <1>3, <1>4 DEF Order, BoundsLinked
  <2>5. \A q \in roots' : l2[q] = None /\ h2[q] = None
    BY <1>2, <1>3, <1>4 DEF Order, BoundsLinked
  <2> QED
    BY <2>1, <2>2, <2>3, <2>4, <2>5, <1>3 DEF BoundsLinked
<1>6. InBounds(l2, h2)'
  <2>1. /\ \A n \in Nodes \ {r} : IsLeaf(n)' <=> IsLeaf(n)
        /\ IsLeaf(u)' <=> IsLeaf(r)
    BY <1>2, <1>3 DEF IsLeaf
  <2>2. ASSUME NEW n \in Nodes \ {r}
        PROVE  Rising(node'[n].keys) /\ Between(node'[n].keys, l2[n], h2[n], IsLeaf(n)')
    BY <2>1, <1>2, <1>4 DEF Order, InBounds, Between
  <2>3. Rising(node'[u].keys) /\ Between(node'[u].keys, l2[u], h2[u], IsLeaf(u)')
    BY <2>1, <1>3, <1>4 DEF Order, InBounds, Between
  <2>4. Rising(node'[r].keys) /\ Between(node'[r].keys, l2[r], h2[r], IsLeaf(r)')
    BY <1>2 DEF Rising, Between
  <2> QED
    BY <2>2, <2>3, <2>4, <1>3 DEF InBounds
<1>7. WalkBound(l2, h2)'
  <2>1. node_ofs' = u /\ req' = req
    BY <1>u DEF SplitRoot
  <2>2. req.hash \in Nat
    BY <1>1, TurnFacts DEF Request
  <2> QED
    BY <2>1, <2>2, <1>4 DEF WalkBound, None
<1> QED
  BY <1>5, <1>6, <1>7 DEF Order

\* The new sibling and the node itself meet at the median's hash.
LEMMA SplitChildOrder ==
  ASSUME Shapely, SplitChild, NEW lo, NEW hi, Order(lo, hi), NEW l2, NEW h2,
         Extended(lo, used, node[node_ofs].keys[Mid + 1].hash, l2),
         h2 = [n \in Nodes' |->
                 CASE n = used -> hi[node_ofs]
                   [] n = node_ofs -> node[node_ofs].keys[Mid + 1].hash
                   [] OTHER -> hi[n]]
  PROVE  Order(l2, h2)'
<1>u. PICK u, w, p, m : /\ u = used /\ w = node_ofs /\ p = parent_ofs
                        /\ m = node[w].keys[Mid + 1].hash
  OBVIOUS
<1>1. Sound /\ pc = "loop" /\ Order(lo, hi)
  BY DEF Shapely, SplitChild
<1>2. /\ used' = u + 1 /\ roots' = roots /\ p \in Nodes /\ p # w
      /\ w # 0
      /\ Len(node[w].keys) = MaxKeys
      /\ Len(node'[u].keys) = Mid /\ Len(node'[w].keys) = Mid
      /\ Len(node[p].keys) \in Nat
      /\ Len(node'[p].keys) = Len(node[p].keys) + 1
      /\ Len(node[p].keys) < MaxKeys
      /\ \A s \in 0 .. Mid : node'[u].child[s] = node[w].child[Mid + 1 + s]
      /\ node'[w].child = node[w].child
      /\ \A n \in Nodes \ {w, p} : node'[n] = node[n]
  BY <1>1, <1>u, SplitChildNodes
<1>3. /\ u \in Nat \ {0} /\ roots \subseteq Nodes /\ u \notin Nodes
      /\ Nodes' = Nodes \cup {u} /\ w \in Nodes /\ req.hash \in Nat
  <2>1. used \in Nat \ {0} /\ roots \subseteq Nodes /\ node_ofs \in Nodes /\ req.hash \in Nat
    BY <1>1, TurnFacts DEF Sound, TypeOK, Request
  <2> QED
    BY <2>1, <1>2, <1>u, SMTT(30) DEF Nodes
<1>4. PICK i : SplitAt(p, w, u, i)
  BY <1>1, <1>u, SplitChildKeys
<1>5. /\ i \in 0 .. Len(node[p].keys) /\ node[p].child[i] = w
      /\ \A j \in 1 .. i : node'[p].keys[j] = node[p].keys[j]
      /\ node'[p].keys[i + 1] = node[w].keys[Mid + 1]
      /\ \A j \in i + 1 .. Len(node[p].keys) :
            node'[p].keys[j + 1] = node[p].keys[j]
  BY <1>4, Zenon DEF SplitAt
<1>6. \A j \in 1 .. Mid : /\ node'[w].keys[j] = node[w].keys[j]
                          /\ node'[u].keys[j] = node[w].keys[Mid + 1 + j]
  BY <1>4, Zenon DEF SplitAt
<1>7. node'[p].child = [s \in Slots |->
        CASE s = i + 1 -> u
          [] s > i + 1 /\ s <= Len(node[p].keys) + 1 -> node[p].child[s - 1]
          [] OTHER -> node[p].child[s]]
  BY <1>4, Zenon DEF SplitAt
<1>8. /\ \A n \in Nodes : \A j \in 1 .. Len(node[n].keys) : node[n].keys[j].hash \in Nat
      /\ \A n \in Nodes : Len(node[n].keys) \in Nat
      /\ \A n \in Nodes : lo[n] \in Nat \cup {None} /\ hi[n] \in Nat \cup {None}
  <2>1. \A n \in Nodes : node[n].keys \in Seq(Entry) /\ Len(node[n].keys) \in Nat
    BY <1>1, SoundNodes DEF WellFormed, Node
  <2>2. \A n \in Nodes : \A j \in 1 .. Len(node[n].keys) : node[n].keys[j] \in Entry
    BY <2>1, ElementOfSeq
  <2> QED
    BY <2>1, <2>2, <1>1 DEF Entry, Order, BoundsLinked
<1>9. i \in Live(p) /\ Mid + 1 \in 1 .. MaxKeys /\ m \in Nat
  <2>1. i \in Live(p)
    BY <1>5 DEF Live
  <2>2. Mid + 1 \in 1 .. MaxKeys
    BY MidInside
  <2>3. \A j \in 1 .. MaxKeys : node[w].keys[j].hash \in Nat
    BY <1>2, <1>3, <1>8
  <2>4. m \in Nat
    BY <2>2, <2>3, <1>u
  <2> QED
    BY <2>1, <2>2, <2>4
<1>10. /\ \A n \in Nodes : l2[n] = lo[n]
       /\ \A n \in Nodes \ {w} : h2[n] = hi[n]
       /\ l2[u] = m /\ h2[u] = hi[w] /\ h2[w] = m
  BY <1>3, <1>u DEF Extended
<1>11. \A n \in Nodes : \A s \in Live(n) : node[n].child[s] # 0 =>
         /\ node[n].child[s] \in Nodes
         /\ node[n].child[s] = w => n = p /\ s = i
         /\ lo[node[n].child[s]] = LoOf(lo, n, s)
         /\ hi[node[n].child[s]] = HiOf(hi, n, s)
  BY <1>1, <1>2, <1>5, <1>9, LinkEnds DEF Order, BoundsLinked
<1>12. lo[w] = LoOf(lo, p, i) /\ hi[w] = HiOf(hi, p, i) /\ w \notin roots
  BY <1>2, <1>5, <1>9, <1>11, LinkEnds
<1>13. /\ Rising(node[w].keys) /\ Rising(node[p].keys)
       /\ Between(node[w].keys, lo[w], hi[w], IsLeaf(w))
       /\ Between(node[p].keys, lo[p], hi[p], FALSE)
  <2>1. 0 # w /\ i \in Slots
    BY <1>2, <1>5, MaxKeysAssumption DEF Slots
  <2>2. ~IsLeaf(p)
    BY <2>1, <1>5 DEF IsLeaf
  <2> QED
    BY <2>2, <1>1, <1>2, <1>3 DEF Order, InBounds, Between
<1>14. lo[w] < m /\ Below(m, hi[w])
  <2>1. /\ Mid + 1 \in 1 .. MaxKeys /\ Mid + 2 \in 1 .. MaxKeys
        /\ Mid + 1 < Mid + 2
    BY MidInside
  <2>2. lo[w] < m /\ m < node[w].keys[Mid + 2].hash
    BY <2>1, <1>2, <1>13, <1>u DEF Rising, Between
  <2>3. Below(node[w].keys[Mid + 2].hash, hi[w]) \/ node[w].keys[Mid + 2].hash = hi[w]
    BY <2>1, <1>2, <1>13 DEF Between
  <2>4. node[w].keys[Mid + 2].hash \in Nat
    BY <2>1, <1>2, <1>3, <1>8
  <2>5. PICK g, t : g = node[w].keys[Mid + 2].hash /\ t = hi[w]
    OBVIOUS
  <2>6. /\ lo[w] < m /\ m < g /\ g \in Nat /\ m \in Nat /\ t \in Nat \cup {None}
        /\ Below(g, t) \/ g = t
    BY <2>2, <2>3, <2>4, <2>5, <1>3, <1>8, <1>9
  <2>7. Below(m, t)
    BY <2>6 DEF Below, None
  <2> QED
    BY <2>5, <2>6, <2>7
<1>15. ASSUME NEW n \in Nodes \ {w, p}, NEW s \in Live(n)', node'[n].child[s] # 0
       PROVE  /\ l2[node'[n].child[s]] = LoOf(l2, n, s)'
              /\ h2[node'[n].child[s]] = HiOf(h2, n, s)'
  <2>1. node'[n] = node[n] /\ s \in Live(n) /\ node[n].child[s] # 0
    BY <1>15, <1>2 DEF Live
  <2>2. /\ node[n].child[s] \in Nodes /\ node[n].child[s] # w
        /\ lo[node[n].child[s]] = LoOf(lo, n, s)
        /\ hi[node[n].child[s]] = HiOf(hi, n, s)
    BY <2>1, <1>11
  <2>3. LoOf(lo, n, s) = LoOf(l2, n, s)' /\ HiOf(hi, n, s) = HiOf(h2, n, s)'
    BY <2>1, <1>10 DEF LoOf, HiOf
  <2> QED
    BY <2>1, <2>2, <2>3, <1>10
<1>16. ASSUME NEW s \in Live(w)', node'[w].child[s] # 0
       PROVE  /\ l2[node'[w].child[s]] = LoOf(l2, w, s)'
              /\ h2[node'[w].child[s]] = HiOf(h2, w, s)'
  <2>1. PICK c : c = node[w].child[s]
    OBVIOUS
  <2>2. s \in 0 .. Mid /\ s \in Live(w) /\ c # 0 /\ node'[w].child[s] = c
    BY <2>1, <1>16, <1>2, MidInside DEF Live
  <2>3. /\ c \in Nodes /\ c # w
        /\ lo[c] = LoOf(lo, w, s) /\ hi[c] = HiOf(hi, w, s)
    BY <2>1, <2>2, <1>2, <1>3, <1>11
  <2>4. LoOf(lo, w, s) = IF s = 0 THEN lo[w] ELSE node'[w].keys[s].hash
    <3>1. s # 0 => s \in 1 .. Mid
      BY <2>2, MidInside
    <3> QED
      BY <3>1, <1>6 DEF LoOf
  <2>5. HiOf(hi, w, s) = IF s = Mid THEN m ELSE node'[w].keys[s + 1].hash
    <3>1. s # MaxKeys /\ (s # Mid => s + 1 \in 1 .. Mid)
      BY <2>2, MidInside
    <3> QED
      BY <3>1, <1>2, <1>6, <1>u DEF HiOf
  <2> QED
    BY <2>2, <2>3, <2>4, <2>5, <1>2, <1>3, <1>10 DEF LoOf, HiOf
<1>17. ASSUME NEW s \in Live(u)', node'[u].child[s] # 0
       PROVE  /\ l2[node'[u].child[s]] = LoOf(l2, u, s)'
              /\ h2[node'[u].child[s]] = HiOf(h2, u, s)'
  <2>1. PICK c, t : c = node'[u].child[s] /\ t = Mid + 1 + s
    OBVIOUS
  <2>2. s \in 0 .. Mid /\ t \in Live(w) /\ c # 0 /\ node[w].child[t] = c
    BY <2>1, <1>17, <1>2, MidInside DEF Live
  <2>3. /\ c \in Nodes /\ c # w
        /\ lo[c] = LoOf(lo, w, t) /\ hi[c] = HiOf(hi, w, t)
    BY <2>1, <2>2, <1>2, <1>3, <1>11
  <2>4. LoOf(lo, w, t) = IF s = 0 THEN m ELSE node'[u].keys[s].hash
    <3>1. t # 0 /\ (s = 0 => t = Mid + 1) /\ (s # 0 => s \in 1 .. Mid)
      BY <2>1, <2>2, MidInside
    <3> QED
      BY <3>1, <2>1, <1>6, <1>u DEF LoOf
  <2>5. HiOf(hi, w, t) = IF s = Mid THEN hi[w] ELSE node'[u].keys[s + 1].hash
    <3>1. /\ s = Mid <=> t = MaxKeys
          /\ s # Mid => s + 1 \in 1 .. Mid /\ t + 1 = Mid + 1 + (s + 1)
      BY <2>1, <2>2, MidInside
    <3> QED
      BY <3>1, <1>2, <1>6 DEF HiOf
  <2>6. LoOf(lo, w, t) = LoOf(l2, u, s)' /\ HiOf(hi, w, t) = HiOf(h2, u, s)'
    BY <2>4, <2>5, <1>2, <1>10 DEF LoOf, HiOf
  <2>7. l2[c] = lo[c] /\ h2[c] = hi[c]
    BY <2>3, <1>10
  <2> QED
    BY <2>1, <2>3, <2>6, <2>7
<1>18. ASSUME NEW s \in Live(p)', node'[p].child[s] # 0
       PROVE  /\ l2[node'[p].child[s]] = LoOf(l2, p, s)'
              /\ h2[node'[p].child[s]] = HiOf(h2, p, s)'
  <2>1. PICK L : L = Len(node[p].keys)
    OBVIOUS
  <2>2. /\ L \in Nat /\ i \in 0 .. L /\ s \in 0 .. L + 1 /\ s \in Slots
        /\ i + 1 \in 1 .. L + 1 /\ Len(node'[p].keys) = L + 1
    <3>1. L \in Nat /\ L < MaxKeys /\ i \in 0 .. L /\ Len(node'[p].keys) = L + 1
      BY <2>1, <1>2, <1>5
    <3>2. s \in 0 .. L + 1
      BY <3>1, <1>18 DEF Live
    <3> QED
      BY <3>1, <3>2, MaxKeysAssumption DEF Slots
  <2>3. CASE s < i
    <3>1. PICK c : c = node[p].child[s]
      OBVIOUS
    <3>2. /\ s \in Live(p) /\ node'[p].child[s] = c /\ c # 0
          /\ s # L /\ s # L + 1
      BY <2>1, <2>2, <2>3, <3>1, <1>7, <1>18 DEF Live
    <3>3. c \in Nodes /\ c # w /\ lo[c] = LoOf(lo, p, s) /\ hi[c] = HiOf(hi, p, s)
      BY <3>1, <3>2, <2>3, <2>2, <1>2, <1>11
    <3>4. s + 1 \in 1 .. i /\ (s # 0 => s \in 1 .. i)
      BY <2>2, <2>3
    <3> QED
      BY <3>2, <3>3, <3>4, <2>1, <2>2, <1>2, <1>5, <1>10 DEF LoOf, HiOf
  <2>4. CASE s = i
    <3>1. node'[p].child[s] = w /\ s # L + 1 /\ (s # 0 => s \in 1 .. i)
      BY <2>1, <2>2, <2>4, <1>5, <1>7
    <3>2. lo[w] = LoOf(l2, p, s)'
      BY <3>1, <2>4, <1>2, <1>5, <1>10, <1>12 DEF LoOf
    <3>3. m = HiOf(h2, p, s)'
      BY <3>1, <2>2, <2>4, <1>5, <1>u DEF HiOf
    <3> QED
      BY <3>1, <3>2, <3>3, <1>3, <1>10
  <2>5. CASE s = i + 1
    <3>1. node'[p].child[s] = u /\ s # 0
      BY <2>2, <2>5, <1>7
    <3>2. m = LoOf(l2, p, s)'
      BY <3>1, <2>5, <1>5, <1>u DEF LoOf
    <3>3. hi[w] = HiOf(h2, p, s)'
      <4>1. CASE i = L
        BY <4>1, <2>1, <2>2, <2>5, <1>2, <1>10, <1>12 DEF HiOf
      <4>2. CASE i # L
        <5>1. i + 1 \in i + 1 .. L /\ s # L + 1
          BY <4>2, <2>2, <2>5
        <5>2. node'[p].keys[s + 1] = node[p].keys[i + 1]
          BY <5>1, <2>1, <2>5, <1>5
        <5> QED
          BY <4>2, <5>1, <5>2, <2>1, <2>2, <1>12 DEF HiOf
      <4> QED
        BY <4>1, <4>2
    <3> QED
      BY <3>1, <3>2, <3>3, <1>10
  <2>6. CASE s > i + 1
    <3>1. PICK t : t = s - 1
      OBVIOUS
    <3>2. PICK c : c = node[p].child[t]
      OBVIOUS
    <3>3. /\ t \in 0 .. L /\ t \in i + 1 .. L /\ t + 1 = s /\ t # i /\ t # 0 /\ s # 0
          /\ s # i + 1 /\ s <= L + 1
      BY <3>1, <2>2, <2>6
    <3>4. t \in Live(p) /\ node'[p].child[s] = c /\ c # 0
      BY <3>1, <3>2, <3>3, <2>1, <2>2, <2>6, <1>7, <1>18 DEF Live
    <3>5. c \in Nodes /\ c # w /\ lo[c] = LoOf(lo, p, t) /\ hi[c] = HiOf(hi, p, t)
      BY <3>2, <3>3, <3>4, <1>2, <1>11
    <3>6. LoOf(lo, p, t) = LoOf(l2, p, s)'
      BY <3>3, <2>1, <1>5 DEF LoOf
    <3>7. HiOf(hi, p, t) = HiOf(h2, p, s)'
      <4>1. CASE t = L
        BY <4>1, <3>3, <2>1, <2>2, <1>2, <1>10 DEF HiOf
      <4>2. CASE t # L
        <5>1. s \in i + 1 .. L /\ s # L + 1
          BY <4>2, <3>3, <2>2
        <5>2. node'[p].keys[s + 1] = node[p].keys[s]
          BY <5>1, <2>1, <1>5
        <5> QED
          BY <4>2, <5>1, <5>2, <3>3, <2>1, <2>2 DEF HiOf
      <4> QED
        BY <4>1, <4>2
    <3> QED
      BY <3>4, <3>5, <3>6, <3>7, <1>10
  <2> QED
    BY <2>2, <2>3, <2>4, <2>5, <2>6
<1>19. BoundsLinked(l2, h2)'
  <2>1. \A n \in Nodes' : l2[n] \in Nat \cup {None} /\ h2[n] \in Nat \cup {None}
    BY <1>3, <1>8, <1>9, <1>10
  <2>2. \A r \in roots' : l2[r] = None /\ h2[r] = None
    BY <1>1, <1>2, <1>3, <1>10, <1>12 DEF Order, BoundsLinked
  <2>3. ASSUME NEW n \in Nodes', NEW s \in Live(n)', node'[n].child[s] # 0
        PROVE  /\ l2[node'[n].child[s]] = LoOf(l2, n, s)'
               /\ h2[node'[n].child[s]] = HiOf(h2, n, s)'
    <3>1. n \in Nodes \ {w, p} \/ n = w \/ n = p \/ n = u
      BY <1>3
    <3> QED
      BY <3>1, <2>3, <1>15, <1>16, <1>17, <1>18
  <2> QED
    BY <2>1, <2>2, <2>3 DEF BoundsLinked
<1>20. /\ \A n \in Nodes \ {w, p} : IsLeaf(n)' <=> IsLeaf(n)
       /\ IsLeaf(w)' <=> IsLeaf(w)
       /\ IsLeaf(w) => IsLeaf(u)'
  <2>1. \A n \in Nodes \ {w, p} : IsLeaf(n)' <=> IsLeaf(n)
    BY <1>2 DEF IsLeaf
  <2>2. IsLeaf(w)' <=> IsLeaf(w)
    BY <1>2 DEF IsLeaf
  <2>3. ASSUME IsLeaf(w)
        PROVE  IsLeaf(u)'
    <3>1. node'[u].child[0] = 0 /\ 0 \in 0 .. Len(node'[u].keys)
      <4>1. Mid \in Nat /\ Mid + 1 \in Slots /\ 0 \in 0 .. Mid
        BY MidInside, MaxKeysAssumption DEF Slots
      <4>2. node[w].child[Mid + 1] = 0
        BY <4>1, <2>3 DEF IsLeaf
      <4> QED
        BY <4>1, <4>2, <1>2
    <3>2. WellFormed(node'[u], u + 1)
      BY <1>1, <1>u, SplitChildNodes
    <3> QED
      BY <3>1, <3>2 DEF WellFormed, IsLeaf
  <2> QED
    BY <2>1, <2>2, <2>3
<1>21. ASSUME NEW n \in Nodes \ {w, p}
       PROVE  Rising(node'[n].keys) /\ Between(node'[n].keys, l2[n], h2[n], IsLeaf(n)')
  BY <1>1, <1>2, <1>10, <1>20 DEF Order, InBounds, Between
<1>22. Rising(node'[w].keys) /\ Between(node'[w].keys, lo[w], m, IsLeaf(w)')
  <2>1. \A j \in 1 .. Mid : j \in 1 .. MaxKeys /\ j < Mid + 1
    BY MidInside
  <2>2. Rising(node'[w].keys)
    BY <2>1, <1>2, <1>6, <1>13 DEF Rising
  <2>3. \A j \in 1 .. Mid : lo[w] < node[w].keys[j].hash /\ node[w].keys[j].hash < m
    BY <2>1, <1>2, <1>9, <1>13, <1>u DEF Rising, Between
  <2> QED
    BY <2>2, <2>3, <1>2, <1>6 DEF Between, Below
<1>23. Rising(node'[u].keys) /\ Between(node'[u].keys, m, hi[w], IsLeaf(u)')
  <2>1. \A j \in 1 .. Mid : Mid + 1 + j \in 1 .. MaxKeys /\ Mid + 1 < Mid + 1 + j
    BY MidInside
  <2>2. \A j, k \in 1 .. Mid : j < k => Mid + 1 + j < Mid + 1 + k
    BY MidInside
  <2>3. Rising(node'[u].keys)
    <3>1. ASSUME NEW j \in 1 .. Mid, NEW k \in 1 .. Mid, j < k
          PROVE  node'[u].keys[j].hash < node'[u].keys[k].hash
      <4>1. node[w].keys[Mid + 1 + j].hash < node[w].keys[Mid + 1 + k].hash
        BY <2>1, <2>2, <3>1, <1>2, <1>13 DEF Rising
      <4> QED
        BY <4>1, <1>6
    <3> QED
      BY <3>1, <1>2 DEF Rising
  <2>4. \A j \in 1 .. Mid :
          /\ m < node[w].keys[Mid + 1 + j].hash
          /\ \/ Below(node[w].keys[Mid + 1 + j].hash, hi[w])
             \/ IsLeaf(w) /\ node[w].keys[Mid + 1 + j].hash = hi[w]
    BY <2>1, <1>2, <1>9, <1>13, <1>u DEF Rising, Between
  <2>5. \A j \in 1 .. Mid : node'[u].keys[j].hash = node[w].keys[Mid + 1 + j].hash
    BY <1>6
  <2> QED
    BY <2>3, <2>4, <2>5, <1>2, <1>20 DEF Between
<1>24. Rising(node'[p].keys) /\ Between(node'[p].keys, lo[p], hi[p], IsLeaf(p)')
  <2>1. PICK L, old, new : /\ L = Len(node[p].keys) /\ old = node[p].keys
                           /\ new = node'[p].keys
    OBVIOUS
  <2>2. /\ L \in Nat /\ i \in 0 .. L /\ Len(new) = L + 1
        /\ \A j \in 1 .. L : old[j].hash \in Nat
        /\ \A j \in 1 .. i : new[j] = old[j]
        /\ new[i + 1].hash = m
        /\ \A j \in i + 1 .. L : new[j + 1] = old[j]
        /\ \A j, k \in 1 .. L : j < k => old[j].hash < old[k].hash
        /\ \A j \in 1 .. L : lo[p] < old[j].hash /\ Below(old[j].hash, hi[p])
    BY <2>1, <1>2, <1>5, <1>8, <1>13, <1>u DEF Rising, Between
  <2>3. \A j \in 1 .. i : old[j].hash < m
    <3>1. i # 0 => old[i].hash < m
      BY <2>1, <1>12, <1>14 DEF LoOf
    <3> TAKE j \in 1 .. i
    <3>2. /\ i # 0 /\ j \in 1 .. L /\ i \in 1 .. L
          /\ (j = i \/ j < i)
      BY <2>2
    <3>3. CASE j = i
      BY <3>1, <3>2, <3>3
    <3>4. CASE j < i
      <4>1. /\ old[j].hash < old[i].hash
            /\ old[i].hash \in Nat /\ old[j].hash \in Nat
        BY <3>2, <3>4, <2>2
      <4> QED
        BY <3>1, <3>2, <4>1, <1>9
    <3> QED
      BY <3>2, <3>3, <3>4
  <2>4. \A j \in i + 1 .. L : m < old[j].hash
    <3>1. i # L => m < old[i + 1].hash
      <4>1. i # L => i + 1 \in 1 .. L
        BY <2>2
      <4> QED
        BY <4>1, <2>1, <2>2, <1>12, <1>14, <1>9 DEF HiOf, Below, None
    <3> TAKE j \in i + 1 .. L
    <3>2. /\ i # L /\ j \in 1 .. L /\ i + 1 \in 1 .. L
          /\ (j = i + 1 \/ i + 1 < j)
      BY <2>2
    <3>3. m < old[i + 1].hash
      BY <3>1, <3>2
    <3>4. CASE j = i + 1
      BY <3>3, <3>4
    <3>5. CASE i + 1 < j
      <4>1. /\ old[i + 1].hash < old[j].hash
            /\ old[i + 1].hash \in Nat /\ old[j].hash \in Nat
        BY <3>2, <3>5, <2>2
      <4> QED
        BY <3>3, <4>1, <1>9
    <3> QED
      BY <3>2, <3>4, <3>5
  <2>5. lo[p] < m
    <3>1. CASE i = 0
      BY <3>1, <1>12, <1>14 DEF LoOf
    <3>2. CASE i # 0
      <4>1. i \in 1 .. i /\ i \in 1 .. L
        BY <3>2, <2>2
      <4>2. lo[p] < old[i].hash /\ old[i].hash < m /\ old[i].hash \in Nat
        BY <4>1, <2>2, <2>3
      <4>3. lo[p] \in Int /\ m \in Int
        BY <1>2, <1>8, <1>9 DEF None
      <4> QED
        BY <4>2, <4>3
    <3> QED
      BY <3>1, <3>2
  <2>6. Below(m, hi[p])
    <3>1. CASE i = L
      BY <3>1, <2>1, <1>12, <1>14 DEF HiOf
    <3>2. CASE i # L
      <4>1. i + 1 \in i + 1 .. L /\ i + 1 \in 1 .. L
        BY <3>2, <2>2
      <4>2. /\ Below(old[i + 1].hash, hi[p]) /\ m < old[i + 1].hash
            /\ old[i + 1].hash \in Nat
        BY <4>1, <2>2, <2>4
      <4>3. hi[p] \in Int /\ m \in Int
        BY <1>2, <1>8, <1>9 DEF None
      <4> QED
        BY <4>2, <4>3 DEF Below
    <3> QED
      BY <3>1, <3>2
  <2>7. ASSUME NEW j \in 1 .. L + 1
        PROVE  \/ j \in 1 .. i /\ j \in 1 .. L /\ new[j] = old[j]
               \/ j = i + 1 /\ new[j].hash = m
               \/ /\ j > i + 1 /\ j - 1 \in i + 1 .. L /\ j - 1 \in 1 .. L
                  /\ new[j] = old[j - 1]
    <3>1. CASE j > i + 1
      <4>1. j - 1 \in i + 1 .. L /\ j - 1 \in 1 .. L /\ (j - 1) + 1 = j
        BY <3>1, <2>2
      <4>2. new[(j - 1) + 1] = old[j - 1]
        BY <4>1, <2>2
      <4> QED
        BY <3>1, <4>1, <4>2
    <3> QED
      BY <3>1, <2>2
  <2>8. \A j \in 1 .. L + 1 : lo[p] < new[j].hash /\ Below(new[j].hash, hi[p])
    BY <2>2, <2>5, <2>6, <2>7
  <2>9. ASSUME NEW j \in 1 .. L + 1, NEW k \in 1 .. L + 1, j < k
        PROVE  new[j].hash < new[k].hash
    <3>1. CASE j \in 1 .. i /\ new[j] = old[j]
      <4>1. CASE k \in 1 .. i /\ new[k] = old[k]
        BY <3>1, <4>1, <2>2, <2>9
      <4>2. CASE k = i + 1
        BY <3>1, <4>2, <2>2, <2>3
      <4>3. CASE k - 1 \in i + 1 .. L /\ new[k] = old[k - 1]
        <5>1. old[j].hash < m /\ m < old[k - 1].hash
          BY <3>1, <4>3, <2>3, <2>4
        <5>2. j \in 1 .. L /\ k - 1 \in 1 .. L
          BY <3>1, <4>3, <2>2
        <5> QED
          BY <3>1, <4>3, <5>1, <5>2, <2>2, <1>9, SMTT(30)
      <4> QED
        BY <4>1, <4>2, <4>3, <2>7
    <3>2. CASE j = i + 1
      <4>1. k > i + 1 /\ k - 1 \in i + 1 .. L /\ new[k] = old[k - 1]
        BY <3>2, <2>9, <2>7, <2>2
      <4> QED
        BY <3>2, <4>1, <2>2, <2>4
    <3>3. CASE j > i + 1 /\ j - 1 \in 1 .. L /\ new[j] = old[j - 1]
      <4>1. k > i + 1
        BY <3>3, <2>9, <2>2
      <4>2. k - 1 \in 1 .. L /\ new[k] = old[k - 1] /\ j - 1 < k - 1
        BY <4>1, <2>9, <2>7, <2>2
      <4> QED
        BY <3>3, <4>2, <2>2
    <3> QED
      BY <3>1, <3>2, <3>3, <2>7
  <2> QED
    BY <2>1, <2>2, <2>8, <2>9 DEF Rising, Between
<1>25. InBounds(l2, h2)'
  BY <1>2, <1>3, <1>10, <1>21, <1>22, <1>23, <1>24, SMTT(30) DEF InBounds
<1>26. WalkBound(l2, h2)'
  <2>1. node_ofs' = (IF req.hash > m THEN u ELSE w) /\ req' = req
    <3>1. Bumped(w).keys = node[w].keys
      BY <1>1, <1>u, TurnFacts
    <3> QED
      BY <3>1, <1>u DEF SplitChild
  <2>2. lo[w] < req.hash /\ (hi[w] = None \/ req.hash <= hi[w])
    BY <1>1, <1>u DEF Order, WalkBound
  <2>3. CASE req.hash > m
    BY <2>1, <2>2, <2>3, <1>3, <1>9, <1>10 DEF WalkBound
  <2>4. CASE ~(req.hash > m)
    BY <2>1, <2>2, <2>4, <1>3, <1>9, <1>10 DEF WalkBound
  <2> QED
    BY <2>3, <2>4
<1> QED
  BY <1>19, <1>25, <1>26 DEF Order

\* Steps that change no hash and no link keep all bounds.
LEMMA BoundsStay ==
  ASSUME Shapely, NEW lo, NEW hi, BoundsLinked(lo, hi), InBounds(lo, hi),
         Nodes' = Nodes, roots' = roots,
         \A n \in Nodes :
           /\ node'[n].child = node[n].child
           /\ Len(node'[n].keys) = Len(node[n].keys)
           /\ \A j \in 1 .. Len(node[n].keys) :
                node'[n].keys[j].hash = node[n].keys[j].hash
  PROVE  BoundsLinked(lo, hi)' /\ InBounds(lo, hi)'
<1>1. \A n \in Nodes : (IsLeaf(n)' <=> IsLeaf(n)) /\ Live(n)' = Live(n)
                       /\ Len(node[n].keys) \in Nat
  BY SoundNodes DEF IsLeaf, Live, Shapely
<1>2. ASSUME NEW n \in Nodes, NEW s \in Live(n)
      PROVE  LoOf(lo, n, s)' = LoOf(lo, n, s) /\ HiOf(hi, n, s)' = HiOf(hi, n, s)
  <2>1. /\ s # 0 => s \in 1 .. Len(node[n].keys)
        /\ s # Len(node[n].keys) => s + 1 \in 1 .. Len(node[n].keys)
    BY <1>1, <1>2 DEF Live
  <2> QED
    BY <2>1 DEF LoOf, HiOf
<1>3. BoundsLinked(lo, hi)'
  BY <1>1, <1>2 DEF BoundsLinked
<1>4. ASSUME NEW n \in Nodes
      PROVE  Rising(node'[n].keys) /\ Between(node'[n].keys, lo[n], hi[n], IsLeaf(n)')
  <2>1. Rising(node[n].keys) /\ Between(node[n].keys, lo[n], hi[n], IsLeaf(n))
    BY DEF InBounds
  <2>2. Rising(node'[n].keys)
    BY <2>1 DEF Rising
  <2> QED
    BY <2>1, <2>2, <1>1 DEF Between
<1> QED
  BY <1>3, <1>4 DEF InBounds

\* What the invariants say of the node that the walk stands on.
LEMMA WalkNode ==
  ASSUME HashInjective, Shapely, pc = "loop", NEW lev, NEW home, Typed(home),
         Trees(home), WalkRank(lev, home), NEW lo, NEW hi, Order(lo, hi)
  PROVE  LET ks == node[node_ofs].keys
             i  == Position(ks, req)
         IN  /\ ks \in Seq(Entry) /\ Len(ks) \in Nat /\ Rising(ks)
             /\ \A j \in 1 .. Len(ks) : ks[j] \in Entry
             /\ i \in 0 .. Len(ks)
             /\ \A j \in 1 .. i : ks[j].hash < req.hash
             /\ Found(ks, req) => i < Len(ks) /\ ks[i + 1].hash = req.hash
             /\ ~Found(ks, req) => \A j \in i + 1 .. Len(ks) : req.hash < ks[j].hash
             /\ req.hash \in Nat /\ lo[node_ofs] < req.hash
             /\ hi[node_ofs] = None \/ req.hash <= hi[node_ofs]
<1>1. Sound /\ node_ofs \in Nodes /\ req.hash \in Nat
  BY TurnFacts DEF Shapely, Request
<1>2. PICK ks, t : ks = node[node_ofs].keys /\ t = node[node_ofs].type
  OBVIOUS
<1>3. ks \in Seq(Entry) /\ Len(ks) \in Nat
  BY <1>1, <1>2, SoundNodes DEF WellFormed, Node
<1>4. Rising(ks) /\ \A j \in 1 .. Len(ks) : EntryFits(t, ks[j])
  BY <1>1, <1>2 DEF Order, InBounds, Typed
<1>5. Seeks(t, req)
  BY <1>1, <1>2, WalkType
<1>6. LET i  == Position(ks, req)
      IN  /\ i \in 0 .. Len(ks)
          /\ \A j \in 1 .. i : ks[j].hash < req.hash
          /\ Found(ks, req) => i < Len(ks) /\ ks[i + 1].hash = req.hash
          /\ ~Found(ks, req) => \A j \in i + 1 .. Len(ks) : req.hash < ks[j].hash
  BY <1>1, <1>3, <1>4, <1>5, FindsPlace
<1>7. lo[node_ofs] < req.hash /\ (hi[node_ofs] = None \/ req.hash <= hi[node_ofs])
  BY DEF Order, WalkBound
<1>8. \A j \in 1 .. Len(ks) : ks[j] \in Entry
  BY <1>3, ElementOfSeq
<1> QED
  BY <1>1, <1>2, <1>3, <1>4, <1>6, <1>7, <1>8

LEMMA DescendOrder ==
  ASSUME HashInjective, Shapely, Descend, NEW lev, NEW home, Typed(home),
         Trees(home), WalkRank(lev, home), NEW lo, NEW hi, Order(lo, hi)
  PROVE  Order(lo, hi)'
<1>u. PICK w, ks, i : /\ w = node_ofs /\ ks = node[w].keys
                      /\ i = Position(ks, req)
  OBVIOUS
<1>1. Sound /\ pc = "loop" /\ w \in Nodes
  BY <1>u, TurnFacts DEF Shapely, Descend
<1>2. /\ i \in 0 .. Len(ks) /\ Len(ks) \in Nat /\ ~Found(ks, req)
      /\ \A j \in 1 .. i : ks[j].hash < req.hash
      /\ \A j \in i + 1 .. Len(ks) : req.hash < ks[j].hash
      /\ \A j \in 1 .. Len(ks) : ks[j] \in Entry
      /\ req.hash \in Nat /\ lo[w] < req.hash
      /\ hi[w] = None \/ req.hash <= hi[w]
  <2>1. ~Found(ks, req)
    BY <1>u DEF Descend
  <2> QED
    BY <2>1, <1>1, <1>u, WalkNode
<1>3. PICK c : c = node[w].child[i]
  OBVIOUS
<1>4. c # 0 /\ node_ofs' = c /\ req' = req
  BY <1>u, <1>3 DEF Descend
<1>5. i \in Live(w) /\ c \in Nodes
  BY <1>1, <1>2, <1>3, <1>4, <1>u, LinkEnds DEF Live
<1>6. lo[c] = LoOf(lo, w, i) /\ hi[c] = HiOf(hi, w, i)
  BY <1>1, <1>3, <1>4, <1>5 DEF Order, BoundsLinked
<1>7. lo[c] < req.hash
  BY <1>2, <1>6, <1>u DEF LoOf
<1>8. hi[c] = None \/ req.hash <= hi[c]
  <2>1. CASE i = Len(ks)
    BY <2>1, <1>2, <1>6, <1>u DEF HiOf
  <2>2. CASE i # Len(ks)
    <3>1. i + 1 \in i + 1 .. Len(ks) /\ i + 1 \in 1 .. Len(ks)
      BY <2>2, <1>2
    <3>2. req.hash < ks[i + 1].hash /\ ks[i + 1].hash \in Nat
      BY <3>1, <1>2 DEF Entry
    <3> QED
      BY <2>2, <3>2, <1>2, <1>6, <1>u DEF HiOf
  <2> QED
    BY <2>1, <2>2
<1>9. BoundsLinked(lo, hi)' /\ InBounds(lo, hi)'
  <2>1. /\ Nodes' = Nodes /\ roots' = roots
        /\ \A n \in Nodes : node'[n].keys = node[n].keys /\ node'[n].child = node[n].child
    BY <1>1, DescendKeys DEF Nodes
  <2> QED
    BY <2>1, BoundsStay DEF Order
<1> QED
  BY <1>4, <1>7, <1>8, <1>9 DEF Order, WalkBound

LEMMA OverwriteOrder ==
  ASSUME Shapely, Overwrite, NEW lo, NEW hi, Order(lo, hi)
  PROVE  Order(lo, hi)'
<1> DEFINE i == Position(node[node_ofs].keys, req)
           old == node[node_ofs].keys
<1>1. Sound /\ pc = "loop" /\ node_ofs \in Nodes
  BY TurnFacts DEF Shapely, Overwrite
<1>2. i + 1 \in 1 .. Len(old)
  BY <1>1, OverwriteKeys
<1>3. PICK ks \in Seq(Entry) :
        /\ Wrote(ks) /\ Len(ks) = Len(old)
        /\ ks[i + 1] = [old[i + 1] EXCEPT !.val = req.val]
        /\ \A j \in 1 .. Len(ks) : j # i + 1 => ks[j] = old[j]
  BY <1>1, OverwriteKeys
<1>4. old \in Seq(Entry)
  BY <1>1, SoundNodes DEF WellFormed, Node
<1>5. ks[i + 1].hash = old[i + 1].hash
  <2>1. old[i + 1] \in Entry
    BY <1>2, <1>4, ElementOfSeq
  <2>2. PICK e : e = old[i + 1]
    OBVIOUS
  <2> QED
    BY <2>1, <2>2, <1>3 DEF Entry
<1>6. \A j \in 1 .. Len(old) : ks[j].hash = old[j].hash
  BY <1>3, <1>5
<1>7. /\ Nodes' = Nodes /\ roots' = roots /\ pc' = "idle"
      /\ \A n \in Nodes : /\ node'[n].child = node[n].child
                          /\ node'[n].keys = IF n = node_ofs THEN ks ELSE node[n].keys
  BY <1>3 DEF Wrote, Nodes
<1>8. BoundsLinked(lo, hi)' /\ InBounds(lo, hi)'
  BY <1>3, <1>6, <1>7, BoundsStay DEF Order
<1> QED
  BY <1>7, <1>8 DEF Order, WalkBound

LEMMA InsertLeafOrder ==
  ASSUME HashInjective, Shapely, InsertLeaf, NEW lev, NEW home, Typed(home),
         Trees(home), WalkRank(lev, home), NEW lo, NEW hi, Order(lo, hi)
  PROVE  Order(lo, hi)'
<1>u. PICK w, old, i, h : /\ w = node_ofs /\ old = node[w].keys
                          /\ i = Position(old, req) /\ h = req.hash
  OBVIOUS
<1>1. Sound /\ pc = "loop" /\ w \in Nodes /\ Order(lo, hi)
  BY <1>u, TurnFacts DEF Shapely, InsertLeaf
<1>2. i \in 0 .. Len(old) /\ ~Found(old, req) /\ IsLeaf(w)
  BY <1>1, <1>u, InsertLeafKeys
<1>3. PICK ks \in Seq(Entry) :
        /\ Wrote(ks) /\ Len(ks) = Len(old) + 1
        /\ \A j \in 1 .. i : ks[j] = old[j]
        /\ ks[i + 1] = [hash |-> req.hash, key |-> req.key, val |-> req.val]
        /\ \A j \in i + 1 .. Len(old) : ks[j + 1] = old[j]
  BY <1>1, <1>u, InsertLeafKeys
<1>4. /\ Len(old) \in Nat /\ Rising(old)
      /\ \A j \in 1 .. i : old[j].hash < h
      /\ \A j \in i + 1 .. Len(old) : h < old[j].hash
      /\ \A j \in 1 .. Len(old) : old[j] \in Entry
      /\ h \in Nat /\ lo[w] < h
      /\ hi[w] = None \/ h <= hi[w]
  BY <1>1, <1>2, <1>u, WalkNode
<1>5. /\ Nodes' = Nodes /\ roots' = roots /\ pc' = "idle"
      /\ node'[w].keys = ks
      /\ \A n \in Nodes : node'[n].child = node[n].child
      /\ \A n \in Nodes \ {w} : node'[n].keys = node[n].keys
  BY <1>1, <1>3, <1>u DEF Wrote, Nodes
<1>6. \A n \in Nodes : IsLeaf(n)' <=> IsLeaf(n)
  BY <1>5 DEF IsLeaf
<1>7. BoundsLinked(lo, hi)'
  <2>1. ASSUME NEW n \in Nodes, NEW s \in Live(n)', node'[n].child[s] # 0
        PROVE  /\ lo[node'[n].child[s]] = LoOf(lo, n, s)'
               /\ hi[node'[n].child[s]] = HiOf(hi, n, s)'
    <3>1. CASE n = w
      <4>1. s \in Slots
        <5>1. Len(node'[w].keys) <= MaxKeys /\ Len(node'[w].keys) \in Nat
          <6>1. ~Full(w)
            BY <1>u DEF InsertLeaf
          <6>2. Len(old) < MaxKeys
            BY <6>1, <1>1, <1>u, FullIsExact
          <6> QED
            BY <6>2, <1>3, <1>4, <1>5, MaxKeysAssumption
        <5> QED
          BY <5>1, <2>1, <3>1, MaxKeysAssumption DEF Live, Slots
      <4> QED
        BY <4>1, <3>1, <2>1, <1>2, <1>5, <1>1 DEF IsLeaf
    <3>2. CASE n # w
      <4>1. node'[n].keys = node[n].keys /\ node'[n].child = node[n].child
        BY <3>2, <1>5
      <4>2. s \in Live(n)
        BY <4>1, <2>1 DEF Live
      <4> QED
        BY <4>1, <4>2, <2>1, <1>1 DEF Order, BoundsLinked, LoOf, HiOf
    <3> QED
      BY <3>1, <3>2
  <2> QED
    BY <2>1, <1>1, <1>5 DEF Order, BoundsLinked
<1>8. ASSUME NEW j \in 1 .. Len(ks)
      PROVE  \/ j \in 1 .. i /\ j \in 1 .. Len(old) /\ ks[j] = old[j]
             \/ j = i + 1 /\ ks[j].hash = h
             \/ /\ j > i + 1 /\ j - 1 \in i + 1 .. Len(old)
                /\ j - 1 \in 1 .. Len(old) /\ ks[j] = old[j - 1]
  <2>1. CASE j > i + 1
    <3>1. j - 1 \in i + 1 .. Len(old) /\ j - 1 \in 1 .. Len(old) /\ (j - 1) + 1 = j
      BY <2>1, <1>2, <1>3, <1>4
    <3>2. ks[(j - 1) + 1] = old[j - 1]
      BY <3>1, <1>3
    <3> QED
      BY <2>1, <3>1, <3>2
  <2>2. CASE ~(j > i + 1)
    BY <2>2, <1>2, <1>3, <1>4, <1>u
  <2> QED
    BY <2>1, <2>2
<1>9. \A j \in 1 .. Len(old) : old[j].hash \in Nat
  BY <1>4 DEF Entry
<1>10. Rising(ks)
  <2>1. ASSUME NEW j \in 1 .. Len(ks), NEW k \in 1 .. Len(ks), j < k
        PROVE  ks[j].hash < ks[k].hash
    <3>1. CASE j \in 1 .. i /\ j \in 1 .. Len(old) /\ ks[j] = old[j]
      <4>1. CASE k \in 1 .. i /\ k \in 1 .. Len(old) /\ ks[k] = old[k]
        BY <3>1, <4>1, <2>1, <1>4 DEF Rising
      <4>2. CASE k = i + 1 /\ ks[k].hash = h
        BY <3>1, <4>2, <1>4
      <4>3. CASE k - 1 \in i + 1 .. Len(old) /\ k - 1 \in 1 .. Len(old) /\ ks[k] = old[k - 1]
        <5>1. ks[j].hash < h /\ h < ks[k].hash
          BY <3>1, <4>3, <1>4
        <5>2. ks[j].hash \in Nat /\ ks[k].hash \in Nat
          BY <3>1, <4>3, <1>9
        <5> QED
          BY <5>1, <5>2, <1>4
      <4> QED
        BY <4>1, <4>2, <4>3, <1>8
    <3>2. CASE j = i + 1 /\ ks[j].hash = h
      <4>1. k > i + 1
        BY <3>2, <2>1, <1>2
      <4>2. k - 1 \in i + 1 .. Len(old) /\ ks[k] = old[k - 1]
        BY <4>1, <1>8, <1>2
      <4> QED
        BY <3>2, <4>2, <1>4
    <3>3. CASE j > i + 1 /\ j - 1 \in 1 .. Len(old) /\ ks[j] = old[j - 1]
      <4>1. k > i + 1
        BY <3>3, <2>1, <1>2, <1>3, <1>4
      <4>2. k - 1 \in 1 .. Len(old) /\ ks[k] = old[k - 1] /\ j - 1 < k - 1
        BY <4>1, <2>1, <1>8, <1>2, <1>3, <1>4
      <4> QED
        BY <3>3, <4>2, <1>4 DEF Rising
    <3> QED
      BY <3>1, <3>2, <3>3, <1>8
  <2> QED
    BY <2>1 DEF Rising
<1>11. Between(ks, lo[w], hi[w], IsLeaf(w)')
  <2>1. IsLeaf(w)' /\ Between(old, lo[w], hi[w], TRUE)
    BY <1>1, <1>2, <1>6, <1>u DEF Order, InBounds
  <2>2. \A j \in 1 .. Len(old) :
          lo[w] < old[j].hash /\ (Below(old[j].hash, hi[w]) \/ old[j].hash = hi[w])
    BY <2>1 DEF Between
  <2>3. Below(h, hi[w]) \/ h = hi[w]
    BY <1>1, <1>4 DEF Below, Order, BoundsLinked, None
  <2>4. \A j \in 1 .. Len(ks) :
          lo[w] < ks[j].hash /\ (Below(ks[j].hash, hi[w]) \/ ks[j].hash = hi[w])
    BY <2>2, <2>3, <1>4, <1>8
  <2> QED
    BY <2>1, <2>4 DEF Between
<1>12. ASSUME NEW n \in Nodes \ {w}
       PROVE  Rising(node'[n].keys) /\ Between(node'[n].keys, lo[n], hi[n], IsLeaf(n)')
  BY <1>1, <1>5, <1>6 DEF Order, InBounds, Between
<1> QED
  BY <1>5, <1>7, <1>10, <1>11, <1>12 DEF Order, InBounds, WalkBound

\* Beginning a call puts the walk on a root, which has no bounds.
LEMMA StartOrder ==
  ASSUME Shapely, Sound', NEW request, Start(request), NEW lo, NEW hi, Order(lo, hi)
  PROVE  Order(lo, hi)'
<1>1. /\ used' = used /\ roots' = roots /\ node' = node /\ pc' = "loop"
      /\ node_ofs' \in roots
  BY DEF Start
<1>2. req'.hash \in Nat
  BY DEF Sound, TypeOK, Request
<1>3. Nodes' = Nodes
  BY <1>1 DEF Nodes
<1>4. BoundsLinked(lo, hi)' /\ InBounds(lo, hi)'
  BY <1>1, <1>3, BoundsStay DEF Order
<1>5. lo[node_ofs'] = None /\ hi[node_ofs'] = None
  BY <1>1 DEF Order, BoundsLinked
<1> QED
  BY <1>2, <1>4, <1>5 DEF Order, WalkBound, None

\* Whatever the step, it leaves all keys in order.
LEMMA NextOrder ==
  ASSUME HashInjective, Shapely, [Next]_vars, NEW lev, NEW home,
         Trees(home), WalkRank(lev, home), Typed(home), NEW lo, NEW hi,
         Order(lo, hi)
  PROVE  \E l2, h2 : Order(l2, h2)'
<1>1. Shapely /\ HashInjective /\ Typed(home) /\ Order(lo, hi)
      /\ Trees(home) /\ WalkRank(lev, home) /\ Sound'
  BY NextSound DEF Shapely
<1>2. ASSUME NEW t \in Types, InitStructure(t)
      PROVE  \E l2, h2 : Order(l2, h2)'
  <2>1. PICK l2, h2 : Extended(lo, used, None, l2) /\ Extended(hi, used, None, h2)
    BY DEF Extended
  <2>2. Order(l2, h2)'
    BY <2>1, <1>1, <1>2, CreateOrder
  <2> QED
    BY <2>2
<1>3. ASSUME NEW request, Start(request)
      PROVE  \E l2, h2 : Order(l2, h2)'
  <2>1. Order(lo, hi)'
    BY <1>1, <1>3, StartOrder
  <2> QED
    BY <2>1
<1>4. ASSUME SplitRoot
      PROVE  \E l2, h2 : Order(l2, h2)'
  <2>1. PICK l2, h2 : Extended(lo, used, None, l2) /\ Extended(hi, used, None, h2)
    BY DEF Extended
  <2>2. Order(l2, h2)'
    BY <2>1, <1>1, <1>4, SplitRootOrder
  <2> QED
    BY <2>2
<1>5. ASSUME SplitChild
      PROVE  \E l2, h2 : Order(l2, h2)'
  <2>1. PICK l2 : Extended(lo, used, node[node_ofs].keys[Mid + 1].hash, l2)
    BY DEF Extended
  <2>2. PICK h2 : h2 = [n \in Nodes' |->
                  CASE n = used -> hi[node_ofs]
                    [] n = node_ofs -> node[node_ofs].keys[Mid + 1].hash
                    [] OTHER -> hi[n]]
    OBVIOUS
  <2>3. Order(l2, h2)'
    BY <2>1, <2>2, <1>1, <1>5, SplitChildOrder
  <2> QED
    BY <2>3
<1>6. ASSUME Descend \/ Overwrite \/ InsertLeaf
      PROVE  \E l2, h2 : Order(l2, h2)'
  <2>1. Order(lo, hi)'
    BY <1>1, <1>6, DescendOrder, OverwriteOrder, InsertLeafOrder
  <2> QED
    BY <2>1
<1>7. ASSUME UNCHANGED vars
      PROVE  \E l2, h2 : Order(l2, h2)'
  <2>1. Order(lo, hi)'
    <3>1. /\ Nodes' = Nodes /\ roots' = roots /\ node' = node /\ pc' = pc
          /\ req' = req /\ node_ofs' = node_ofs
      BY <1>7 DEF vars, Nodes
    <3>2. BoundsLinked(lo, hi)' /\ InBounds(lo, hi)'
      BY <1>1, <3>1, BoundsStay DEF Order
    <3> QED
      BY <1>1, <3>1, <3>2 DEF Order, WalkBound
  <2> QED
    BY <2>1
<1> QED
  BY <1>2, <1>3, <1>4, <1>5, <1>6, <1>7, Zenon
     DEF Next, Turn, SetBegin, AppendBegin

\* The invariant behind the theorems on the order of keys.
Arranged(lev, home, H, lo, hi) ==
  Ranking(lev, home, H) /\ Hung /\ Typed(home) /\ Order(lo, hi)
Ordered == Shapely /\ \E lev, home, H, lo, hi : Arranged(lev, home, H, lo, hi)

LEMMA InitOrdered == Init => Ordered
<1> SUFFICES ASSUME Init
             PROVE  Ordered
  OBVIOUS
<1> DEFINE none == [n \in {} |-> 0]
<1>1. Shapely /\ Nodes = {} /\ roots = {} /\ pc = "idle"
  BY InitShapely DEF Init, Nodes
<1>2. /\ Levels(none) /\ Trees(none) /\ WalkRank(none, none) /\ Bounded(none, 0)
      /\ Hung
  BY <1>1 DEF Levels, Trees, WalkRank, Bounded, Hung
<1>3. Typed(none) /\ Order(none, none)
  BY <1>1 DEF Typed, Order, BoundsLinked, InBounds, WalkBound
<1> HIDE DEF none
<1>4. Arranged(none, none, 0, none, none)
  BY <1>2, <1>3 DEF Arranged, Ranking
<1> QED
  BY <1>1, <1>4 DEF Ordered

LEMMA NextOrdered ==
  ASSUME HashInjective, Ordered, [Next]_vars
  PROVE  Ordered'
<1>1. PICK lev, home, H, lo, hi : Arranged(lev, home, H, lo, hi)
  BY DEF Ordered
<1>2. Shapely
  BY DEF Ordered
<1>3. Ranking(lev, home, H) /\ Typed(home) /\ Order(lo, hi)
  BY <1>1 DEF Arranged
<1>4. Onward(home)
  BY <1>2, <1>3, NextOnward
<1>5. PICK lv, hm, h : Ranking(lv, hm, h)' /\ \A n \in Nodes : hm[n] = home[n]
  BY <1>4 DEF Onward
<1>6. Shapely' /\ Hung'
  BY <1>1, <1>4 DEF Arranged, Onward
<1>7. Trees(hm)'
  BY <1>5 DEF Ranking
<1>8. Typed(hm)'
  BY <1>2, <1>3, <1>5, <1>6, <1>7, NextTyped
<1>9. Trees(home) /\ WalkRank(lev, home)
  BY <1>3 DEF Ranking
<1>10. PICK l2, h2 : Order(l2, h2)'
  BY <1>2, <1>3, <1>9, NextOrder
<1>11. Arranged(lv, hm, h, l2, h2)'
  BY <1>5, <1>6, <1>8, <1>10 DEF Arranged
<1> QED
  BY <1>6, <1>11 DEF Ordered

THEOREM OrderedAlways ==
  ASSUME HashInjective
  PROVE  Spec => []Ordered
<1>1. Ordered /\ [Next]_vars => Ordered'
  BY NextOrdered
<1> QED
  BY <1>1, InitOrdered, PTL DEF Spec

-----------------------------------------------------------------------------
(***************************************************************************)
(* What the recursive functions compute                                    *)
(***************************************************************************)

\* G maps functions to functions, and the value at each point depends on those
\* at points of lower rank alone.
ByRank(S, V, rank, B, G) ==
  /\ B \in Nat /\ rank \in [S -> Nat] /\ \A s \in S : rank[s] <= B
  /\ G \in [[S -> V] -> [S -> V]]
  /\ \A f, g \in [S -> V] : \A s \in S :
       (\A t \in S : rank[t] < rank[s] => f[t] = g[t]) => G[f][s] = G[g][s]

\* Such an equation f = G[f] has a solution.
LEMMA FixedPoint ==
  ASSUME NEW S, NEW V, NEW v \in V, NEW rank, NEW B, NEW G,
         ByRank(S, V, rank, B, G)
  PROVE  \E f \in [S -> V] : G[f] = f
<1>r. /\ B \in Nat /\ rank \in [S -> Nat] /\ \A s \in S : rank[s] <= B
      /\ G \in [[S -> V] -> [S -> V]]
      /\ \A f, g \in [S -> V] : \A s \in S :
           (\A t \in S : rank[t] < rank[s] => f[t] = g[t]) => G[f][s] = G[g][s]
  BY DEF ByRank
<1> DEFINE Good(f, k) == \A s \in S : rank[s] < k => f[s] = G[f][s]
           Bad == {k \in 0 .. B + 1 : ~ \E f \in [S -> V] : Good(f, k)}
<1>1. Bad = {}
  <2>1. SUFFICES ASSUME Bad # {}
                 PROVE  FALSE
    OBVIOUS
  <2>2. Bad \subseteq Nat
    OBVIOUS
  <2>3. PICK k \in Bad : \A j \in Bad : k <= j
    BY <2>1, <2>2, LeastNatural
  <2>4. k # 0
    <3>1. [s \in S |-> v] \in [S -> V] /\ Good([s \in S |-> v], 0)
      BY <1>r
    <3> HIDE DEF Good
    <3> QED
      BY <3>1, <2>3
  <2>5. k - 1 \in 0 .. B + 1 /\ k - 1 \notin Bad
    <3>1. B \in Nat /\ k \in 0 .. B + 1
      BY <1>r
    <3>2. k - 1 \in 0 .. B + 1 /\ ~(k <= k - 1)
      BY <3>1, <2>4
    <3> HIDE DEF Bad
    <3> QED
      BY <3>2, <2>3
  <2>6. PICK f \in [S -> V] : Good(f, k - 1)
    BY <2>5
  <2>7. PICK g \in [S -> V] : g = G[f]
    BY <1>r
  <2>8. ASSUME NEW s \in S, rank[s] < k
        PROVE  g[s] = G[g][s]
    <3>1. \A t \in S : rank[t] < rank[s] => f[t] = g[t]
      <4> TAKE t \in S
      <4> HAVE rank[t] < rank[s]
      <4>1. rank[t] < k - 1
        BY <2>3, <2>8, <1>r
      <4> QED
        BY <4>1, <2>6, <2>7, <1>r
    <3> QED
      BY <3>1, <2>7, <1>r
  <2>9. Good(g, k)
    BY <2>8
  <2> HIDE DEF Good
  <2> QED
    BY <2>3, <2>9
<1>2. PICK f \in [S -> V] : Good(f, B + 1)
  <2>1. B + 1 \in 0 .. B + 1
    BY <1>r
  <2> HIDE DEF Good
  <2> QED
    BY <1>1, <2>1
<1>3. \A s \in S : rank[s] < B + 1
  BY <1>r
<1>4. \A s \in S : G[f][s] = f[s]
  BY <1>2, <1>3
<1> QED
  BY <1>2, <1>4, <1>r

\* Joining what lies left of an entry, the entry and what lies right of it.
LEMMA Joined ==
  ASSUME NEW E, NEW a \in Seq(E), NEW e \in E, NEW c \in Seq(E)
  PROVE  /\ a \o <<e>> \o c \in Seq(E)
         /\ Len(a) \in Nat /\ Len(c) \in Nat
         /\ Len(a \o <<e>> \o c) = Len(a) + 1 + Len(c)
         /\ \A j \in 1 .. Len(a) + 1 + Len(c) :
              (a \o <<e>> \o c)[j] = IF j <= Len(a) THEN a[j]
                                     ELSE IF j = Len(a) + 1 THEN e
                                     ELSE c[j - (Len(a) + 1)]
<1>1. Len(a) \in Nat /\ Len(c) \in Nat
  BY LenProperties
<1>2. <<e>> \in Seq(E) /\ Len(<<e>>) = 1 /\ <<e>>[1] = e
  BY LenProperties
<1>3. PICK b : b = a \o <<e>>
  OBVIOUS
<1>4. /\ b \in Seq(E) /\ Len(b) = Len(a) + 1
      /\ \A j \in 1 .. Len(a) + 1 : b[j] = IF j <= Len(a) THEN a[j] ELSE e
  <2>1. /\ b \in Seq(E) /\ Len(b) = Len(a) + 1
        /\ \A j \in 1 .. Len(a) + 1 :
             b[j] = IF j <= Len(a) THEN a[j] ELSE <<e>>[j - Len(a)]
    BY <1>2, <1>3, ConcatProperties
  <2> QED
    BY <2>1, <1>1, <1>2
<1>5. /\ b \o c \in Seq(E) /\ Len(b \o c) = Len(b) + Len(c)
      /\ \A j \in 1 .. Len(b) + Len(c) :
           (b \o c)[j] = IF j <= Len(b) THEN b[j] ELSE c[j - Len(b)]
  BY <1>4, ConcatProperties
<1> QED
  BY <1>1, <1>3, <1>4, <1>5

\* The prefixes that Woven goes through.
Prefixes(u, ks, c) ==
  /\ u \in [0 .. Len(ks) -> Seq(Entry)]
  /\ Woven(ks, c) = u[Len(ks)]
  /\ u[0] = c[0]
  /\ \A i \in 1 .. Len(ks) : u[i] = u[i - 1] \o <<ks[i]>> \o c[i]

LEMMA WovenPrefixes ==
  ASSUME NEW ks \in Seq(Entry), NEW c \in [0 .. Len(ks) -> Seq(Entry)]
  PROVE  \E u : Prefixes(u, ks, c)
<1>e. PICK E : E = Entry
  OBVIOUS
<1>c. ks \in Seq(E) /\ c \in [0 .. Len(ks) -> Seq(E)]
  BY <1>e
<1> DEFINE S == 0 .. Len(ks)
           Eq(u) == u = [i \in S |-> IF i = 0 THEN c[0]
                                     ELSE u[i - 1] \o <<ks[i]>> \o c[i]]
           G == [f \in [S -> Seq(E)] |->
                   [i \in S |-> IF i = 0 THEN c[0]
                                ELSE f[i - 1] \o <<ks[i]>> \o c[i]]]
           rank == [i \in S |-> i]
<1>1. Len(ks) \in Nat /\ \A j \in 1 .. Len(ks) : ks[j] \in E
  BY <1>c, LenProperties, ElementOfSeq
<1>2. \A i \in S : i # 0 => i - 1 \in S /\ i \in 1 .. Len(ks) /\ i - 1 < i /\ c[i] \in Seq(E)
  BY <1>1, <1>c
<1>3. ASSUME NEW f, NEW i \in S, i # 0 => f[i - 1] \in Seq(E)
      PROVE  (IF i = 0 THEN c[0] ELSE f[i - 1] \o <<ks[i]>> \o c[i]) \in Seq(E)
  BY <1>1, <1>2, <1>3, <1>c, Joined
<1>4. \E u : Eq(u)
  <2>1. G \in [[S -> Seq(E)] -> [S -> Seq(E)]]
    <3>1. ASSUME NEW f \in [S -> Seq(E)], NEW i \in S
          PROVE  (IF i = 0 THEN c[0] ELSE f[i - 1] \o <<ks[i]>> \o c[i]) \in Seq(E)
      <4>1. i # 0 => f[i - 1] \in Seq(E)
        BY <1>2
      <4> QED
        BY <4>1, <1>3
    <3> QED
      BY <3>1
  <2>2. ASSUME NEW f \in [S -> Seq(E)], NEW g \in [S -> Seq(E)], NEW s \in S,
               \A t \in S : rank[t] < rank[s] => f[t] = g[t]
        PROVE  G[f][s] = G[g][s]
    <3>1. s # 0 => f[s - 1] = g[s - 1]
      BY <2>2, <1>2
    <3> QED
      BY <3>1
  <2>3. <<>> \in Seq(E) /\ rank \in [S -> Nat] /\ \A s \in S : rank[s] <= Len(ks)
    BY <1>1
  <2>4. PICK f \in [S -> Seq(E)] : G[f] = f
    <3>1. \E f \in [S -> Seq(E)] : G[f] = f
      <4> HIDE DEF G, rank, S
      <4>1. PICK V : V = Seq(E)
        OBVIOUS
      <4>2. <<>> \in V /\ ByRank(S, V, rank, Len(ks), G)
        BY <4>1, <2>1, <2>2, <2>3, <1>1 DEF ByRank
      <4>3. \E f \in [S -> V] : G[f] = f
        BY <4>2, FixedPoint
      <4> QED
        BY <4>1, <4>3
    <3> QED
      BY <3>1
  <2> QED
    BY <2>4
<1>5. Woven(ks, c) = (CHOOSE u : Eq(u))[Len(ks)]
  BY DEF Woven
<1>6. PICK u : u = (CHOOSE g : Eq(g))
  OBVIOUS
<1>7. Eq(u)
  <2> HIDE DEF Eq
  <2> QED
    BY <1>4, <1>6
<1>8. /\ u[0] = c[0]
      /\ \A i \in S : i # 0 => u[i] = u[i - 1] \o <<ks[i]>> \o c[i]
      /\ \A i \in S : u[i] = IF i = 0 THEN c[0] ELSE u[i - 1] \o <<ks[i]>> \o c[i]
      /\ DOMAIN u = S /\ u = [i \in DOMAIN u |-> u[i]]
  <2>1. \A i \in S : u[i] = IF i = 0 THEN c[0] ELSE u[i - 1] \o <<ks[i]>> \o c[i]
    BY <1>7
  <2>2. DOMAIN u = S /\ u = [i \in DOMAIN u |-> u[i]]
    BY <1>7
  <2>3. 0 \in S
    BY <1>1
  <2> QED
    BY <2>1, <2>2, <2>3
<1> DEFINE Wrong == {i \in S : u[i] \notin Seq(E)}
<1>9. Wrong = {}
  <2>1. SUFFICES ASSUME Wrong # {}
                 PROVE  FALSE
    OBVIOUS
  <2>2. Wrong \subseteq Nat
    OBVIOUS
  <2>3. PICK i \in Wrong : \A k \in Wrong : i <= k
    BY <2>1, <2>2, LeastNatural
  <2>4. i \in S /\ u[i] \notin Seq(E)
    BY <2>3
  <2>5. i # 0 => u[i - 1] \in Seq(E)
    <3>1. ASSUME i # 0, u[i - 1] \notin Seq(E)
          PROVE  FALSE
      <4>1. i - 1 \in Wrong
        BY <3>1, <2>4, <1>2
      <4> QED
        BY <4>1, <2>3, <2>4, <1>1
    <3> QED
      BY <3>1
  <2>6. (IF i = 0 THEN c[0] ELSE u[i - 1] \o <<ks[i]>> \o c[i]) \in Seq(E)
    BY <2>4, <2>5, <1>3
  <2> QED
    BY <2>4, <2>6, <1>8
<1>10. u \in [0 .. Len(ks) -> Seq(E)]
  BY <1>8, <1>9
<1>11. \A i \in 1 .. Len(ks) : i \in S /\ i # 0
  BY <1>1
<1> HIDE DEF Eq
<1>12. Prefixes(u, ks, c)
  BY <1>5, <1>6, <1>8, <1>10, <1>11, <1>e DEF Prefixes
<1> QED
  BY <1>12

\* What lies left, between and right of the keys of node m, when b gives the
\* entries below each of its children.
Tween(b, m) ==
  [s \in Live(m) |-> IF IsLeaf(m) THEN <<>> ELSE b[node[m].child[s]]]

\* What InOrder computes.
LEMMA InOrderBelow ==
  ASSUME Shapely, NEW lev, NEW H, Levels(lev), Bounded(lev, H)
  PROVE  \E b \in [Nodes -> Seq(Entry)] :
           /\ \A n : InOrder(n) = b[n]
           /\ \A m \in Nodes : b[m] = Woven(node[m].keys, Tween(b, m))
<1> DEFINE V == Seq(Entry)
           Eq(b) == b = [m \in Nodes |-> Woven(node[m].keys, Tween(b, m))]
           G == [f \in [Nodes -> V] |-> [m \in Nodes |-> Woven(node[m].keys, Tween(f, m))]]
<1>1. ASSUME NEW m \in Nodes
      PROVE  /\ node[m].keys \in Seq(Entry) /\ lev[m] \in Nat
             /\ ~IsLeaf(m) => \A s \in Live(m) :
                  /\ node[m].child[s] \in Nodes
                  /\ lev[node[m].child[s]] \in Nat
                  /\ lev[node[m].child[s]] < lev[m]
  <2>1. node[m].keys \in Seq(Entry) /\ lev[m] \in Nat
    BY SoundNodes DEF Shapely, WellFormed, Node, Levels
  <2>2. ASSUME ~IsLeaf(m), NEW s \in Live(m)
        PROVE  /\ node[m].child[s] \in Nodes
               /\ lev[m] = lev[node[m].child[s]] + 1
    BY <2>2, LinkEnds DEF Levels
  <2> QED
    BY <2>1, <2>2 DEF Levels
<1>2. ASSUME NEW b, NEW m \in Nodes,
             ~IsLeaf(m) => \A s \in Live(m) : b[node[m].child[s]] \in V
      PROVE  Woven(node[m].keys, Tween(b, m)) \in V
  <2>1. Tween(b, m) \in [0 .. Len(node[m].keys) -> Seq(Entry)]
    BY <1>2 DEF Tween, Live
  <2>2. PICK c, ks : c = Tween(b, m) /\ ks = node[m].keys
    OBVIOUS
  <2>3. PICK u : Prefixes(u, ks, c)
    BY <2>1, <2>2, <1>1, WovenPrefixes
  <2>4. Len(ks) \in 0 .. Len(ks)
    BY <2>2, <1>1, LenProperties
  <2> QED
    BY <2>2, <2>3, <2>4 DEF Prefixes
<1>3. ByRank(Nodes, V, lev, H, G)
  <2>1. H \in Nat /\ lev \in [Nodes -> Nat] /\ \A s \in Nodes : lev[s] <= H
    BY DEF Levels, Bounded
  <2>2. G \in [[Nodes -> V] -> [Nodes -> V]]
    <3>1. ASSUME NEW f \in [Nodes -> V], NEW m \in Nodes
          PROVE  Woven(node[m].keys, Tween(f, m)) \in V
      <4>1. ~IsLeaf(m) => \A s \in Live(m) : f[node[m].child[s]] \in V
        BY <1>1
      <4> HIDE DEF V
      <4> QED
        BY <4>1, <1>2
    <3> HIDE DEF V
    <3> QED
      BY <3>1
  <2>3. ASSUME NEW f \in [Nodes -> V], NEW g \in [Nodes -> V], NEW m \in Nodes,
               \A t \in Nodes : lev[t] < lev[m] => f[t] = g[t]
        PROVE  G[f][m] = G[g][m]
    <3>1. Tween(f, m) = Tween(g, m)
      BY <2>3, <1>1 DEF Tween
    <3> HIDE DEF V
    <3> QED
      BY <3>1
  <2> HIDE DEF V, G
  <2> QED
    BY <2>1, <2>2, <2>3 DEF ByRank
<1>4. \E b : Eq(b)
  <2>1. <<>> \in V
    OBVIOUS
  <2>2. PICK b \in [Nodes -> V] : G[b] = b
    <3> HIDE DEF V, G
    <3> QED
      BY <1>3, <2>1, FixedPoint
  <2> HIDE DEF V
  <2> QED
    BY <2>2
<1>5. \A n : InOrder(n) = (CHOOSE b : Eq(b))[n]
  BY DEF InOrder, Tween
<1>6. PICK b : b = (CHOOSE g : Eq(g))
  OBVIOUS
<1>7. Eq(b)
  <2> HIDE DEF Eq
  <2> QED
    BY <1>4, <1>6
<1>8. /\ \A m \in Nodes : b[m] = Woven(node[m].keys, Tween(b, m))
      /\ DOMAIN b = Nodes /\ b = [m \in DOMAIN b |-> b[m]]
  BY <1>7
<1> HIDE DEF Eq, V
<1> DEFINE Wrong == {lev[m] : m \in {k \in Nodes : b[k] \notin V}}
<1>9. Wrong = {}
  <2>1. SUFFICES ASSUME Wrong # {}
                 PROVE  FALSE
    OBVIOUS
  <2>2. Wrong \subseteq Nat
    BY <1>1
  <2>3. PICK l \in Wrong : \A k \in Wrong : l <= k
    BY <2>1, <2>2, LeastNatural
  <2>4. PICK m \in Nodes : b[m] \notin V /\ lev[m] = l
    BY <2>3
  <2>5. ~IsLeaf(m) => \A s \in Live(m) : b[node[m].child[s]] \in V
    <3>1. ASSUME ~IsLeaf(m), NEW s \in Live(m), b[node[m].child[s]] \notin V
          PROVE  FALSE
      <4>1. /\ node[m].child[s] \in Nodes /\ lev[node[m].child[s]] \in Nat
            /\ lev[node[m].child[s]] < l /\ l \in Nat
        BY <3>1, <2>4, <1>1
      <4>2. lev[node[m].child[s]] \in Wrong
        BY <3>1, <4>1
      <4> HIDE DEF Wrong
      <4> QED
        BY <4>1, <4>2, <2>3
    <3> QED
      BY <3>1
  <2>6. Woven(node[m].keys, Tween(b, m)) \in V
    BY <2>5, <1>2
  <2> QED
    BY <2>4, <2>6, <1>8
<1>10. b \in [Nodes -> V]
  BY <1>8, <1>9
<1> QED
  BY <1>5, <1>6, <1>8, <1>10 DEF V

\* What Height and InOrder compute, however levels are given to the nodes.
AllBelow ==
  \A lev, H : Shapely /\ Levels(lev) /\ Bounded(lev, H) =>
    /\ \A n \in Nodes : Height(n) = lev[n]
    /\ \E b \in [Nodes -> Seq(Entry)] :
         /\ \A n : InOrder(n) = b[n]
         /\ \A m \in Nodes : b[m] = Woven(node[m].keys, Tween(b, m))

LEMMA AllBelowHolds == AllBelow
BY HeightIsLevel, InOrderBelow DEF AllBelow

\* The keys and the links of the nodes of structure r stay as they are.
Untouched(home, r) ==
  \A n \in Nodes : home[n] = r =>
    /\ n \in Nodes'
    /\ node'[n].keys = node[n].keys
    /\ node'[n].child = node[n].child

\* Then so do its trees.
LEMMA SameBelow ==
  ASSUME AllBelow, AllBelow', Shapely, Shapely',
         NEW lev, NEW home, NEW H, Ranking(lev, home, H),
         NEW lv, NEW hm, NEW h, Ranking(lv, hm, h)', NEW r, Untouched(home, r)
  PROVE  \A n \in Nodes : home[n] = r =>
           /\ lv[n] = lev[n] /\ Height(n)' = Height(n)
           /\ InOrder(n)' = InOrder(n)
<1>1. /\ Levels(lev) /\ Bounded(lev, H) /\ Trees(home)
      /\ Levels(lv)' /\ Bounded(lv, h)'
  BY DEF Ranking
<1>2. PICK b : /\ \A n : InOrder(n) = b[n]
               /\ \A m \in Nodes : b[m] = Woven(node[m].keys, Tween(b, m))
  BY <1>1 DEF AllBelow
<1>3. PICK c : /\ \A n : InOrder(n)' = c[n]
               /\ \A m \in Nodes' : c[m] = Woven(node'[m].keys, Tween(c, m)')
  BY <1>1 DEF AllBelow
<1> DEFINE Same(n) == lv[n] = lev[n] /\ c[n] = b[n]
           Wrong == {lev[n] : n \in {m \in Nodes : home[m] = r /\ ~Same(m)}}
<1>4. Wrong = {}
  <2>1. SUFFICES ASSUME Wrong # {}
                 PROVE  FALSE
    OBVIOUS
  <2>2. Wrong \subseteq Nat
    BY <1>1 DEF Levels
  <2>3. PICK l \in Wrong : \A k \in Wrong : l <= k
    BY <2>1, <2>2, LeastNatural
  <2>4. PICK m \in Nodes : home[m] = r /\ ~Same(m) /\ lev[m] = l
    BY <2>3
  <2>5. /\ m \in Nodes' /\ node'[m].keys = node[m].keys
        /\ node'[m].child = node[m].child /\ Live(m)' = Live(m)
        /\ IsLeaf(m)' <=> IsLeaf(m)
    BY <2>4 DEF Untouched, Live, IsLeaf
  <2>6. ASSUME ~IsLeaf(m), NEW s \in Live(m)
        PROVE  /\ lev[m] = lev[node[m].child[s]] + 1
               /\ Same(node[m].child[s])
    <3>1. PICK d : d = node[m].child[s]
      OBVIOUS
    <3>2. d \in Nodes /\ d # 0 /\ lev[m] = lev[d] + 1 /\ lev[d] \in Nat
      BY <3>1, <2>6, <1>1, LinkEnds DEF Levels
    <3>3. home[d] = r
      BY <3>1, <3>2, <2>4, <1>1 DEF Trees
    <3>4. lev[d] \notin Wrong
      <4> HIDE DEF Wrong
      <4>1. ~(l <= lev[d])
        BY <3>2, <2>4
      <4> QED
        BY <4>1, <2>3
    <3>5. Same(d)
      <4> HIDE DEF Same
      <4> QED
        BY <3>2, <3>3, <3>4
    <3> QED
      BY <3>1, <3>2, <3>5
  <2>7. lv[m] = lev[m]
    <3>1. CASE IsLeaf(m)
      BY <3>1, <2>5, <1>1 DEF Levels
    <3>2. CASE ~IsLeaf(m)
      <4>1. 0 \in Live(m)
        BY SoundNodes DEF Live, Shapely
      <4>2. lv[m] = lv[node[m].child[0]] + 1
        BY <4>1, <3>2, <2>5, <1>1 DEF Levels
      <4> QED
        BY <4>1, <4>2, <3>2, <2>6
    <3> QED
      BY <3>1, <3>2
  <2>8. c[m] = b[m]
    <3>1. Tween(c, m)' = Tween(b, m)
      BY <2>5, <2>6 DEF Tween
    <3> QED
      BY <3>1, <2>5, <1>2, <1>3
  <2> QED
    BY <2>4, <2>7, <2>8
<1>5. \A n \in Nodes : home[n] = r => Same(n)
  <2> HIDE DEF Same
  <2> QED
    BY <1>4
<1>6. \A n \in Nodes : home[n] = r =>
        Height(n)' = lv[n] /\ Height(n) = lev[n]
  BY <1>1 DEF AllBelow, Untouched
<1> QED
  BY <1>2, <1>3, <1>5, <1>6

\* A turn changes nodes of the structure that is being written to only.
LEMMA TurnElsewhere ==
  ASSUME Shapely, Turn, NEW lev, NEW home, NEW H, Ranking(lev, home, H)
  PROVE  /\ req.ofs \in roots
         /\ \A n \in Nodes : /\ n \in Nodes'
                             /\ home[n] # req.ofs => node'[n] = node[n]
<1>1. pc = "loop" /\ Sound
  BY DEF Turn, SplitRoot, SplitChild, Descend, Overwrite, InsertLeaf, Shapely
<1>2. /\ DOMAIN node = Nodes /\ used \in Nat \ {0} /\ req.ofs \in roots
      /\ node_ofs \in Nodes /\ home[node_ofs] = req.ofs /\ Trees(home)
  BY <1>1, TurnFacts, SoundNodes DEF Ranking, WalkRank, Sound, WalkOK
<1>3. CASE SplitRoot
  BY <1>1, <1>2, <1>3, SplitRootNodes DEF Nodes
<1>4. CASE SplitChild
  <2>1. /\ used' = used + 1
        /\ \A n \in Nodes \ {node_ofs, parent_ofs} : node'[n] = node[n]
    BY <1>1, <1>4, SplitChildNodes
  <2>2. home[parent_ofs] = req.ofs
    <3>1. parent_ofs \in Nodes /\ node_ofs # 0 /\ Reaches(parent_ofs, node_ofs)
      BY <1>1, <1>4 DEF Sound, WalkOK, SplitChild
    <3> QED
      BY <3>1, <1>2 DEF Trees, Reaches
  <2> QED
    BY <2>1, <2>2, <1>2 DEF Nodes
<1>5. CASE Descend
  BY <1>2, <1>5 DEF Descend, Nodes
<1>6. ASSUME NEW nd, Return(nd)
      PROVE  \A n \in Nodes : n \in Nodes' /\ (home[n] # req.ofs => node'[n] = node[n])
  BY <1>2, <1>6 DEF Return, Nodes, Trees
<1>7. CASE Overwrite \/ InsertLeaf
  <2>1. \E nd : Return(nd)
    BY <1>7 DEF Overwrite, InsertLeaf
  <2> QED
    BY <2>1, <1>2, <1>6
<1> QED
  BY <1>2, <1>3, <1>4, <1>5, <1>7 DEF Turn

\* A sequence of entries of a tree of type t in the order of their hashes, all
\* above l and none above h.
Run(es, t, l, h) ==
  /\ es \in Seq(Entry)
  /\ \A j \in 1 .. Len(es) : /\ EntryFits(t, es[j])
                             /\ l < es[j].hash
                             /\ h = None \/ es[j].hash <= h
  /\ \A j \in 1 .. Len(es) - 1 : es[j].hash <= es[j + 1].hash

LEMMA EmptyRun ==
  ASSUME NEW t, NEW l, NEW h
  PROVE  Run(<<>>, t, l, h)
BY EmptySeq DEF Run

LEMMA RunsJoin ==
  ASSUME NEW t, NEW l \in Nat \cup {None}, NEW h \in Nat \cup {None}, NEW e \in Entry,
         NEW a, NEW c, Run(a, t, l, e.hash), Run(c, t, e.hash, h),
         EntryFits(t, e), l < e.hash, h = None \/ e.hash <= h
  PROVE  Run(a \o <<e>> \o c, t, l, h)
<1>1. a \in Seq(Entry) /\ c \in Seq(Entry) /\ e.hash \in Nat
  BY DEF Run, Entry
<1>2. PICK z, A, C : z = a \o <<e>> \o c /\ A = Len(a) /\ C = Len(c)
  OBVIOUS
<1>3. /\ z \in Seq(Entry) /\ A \in Nat /\ C \in Nat /\ Len(z) = A + 1 + C
      /\ \A j \in 1 .. A + 1 + C : z[j] = IF j <= A THEN a[j]
                                          ELSE IF j = A + 1 THEN e ELSE c[j - (A + 1)]
  BY <1>1, <1>2, Joined
<1>4. /\ \A j \in 1 .. A : a[j] \in Entry
      /\ \A j \in 1 .. C : c[j] \in Entry
  BY <1>1, <1>2, ElementOfSeq
<1>5. /\ \A j \in 1 .. A : /\ EntryFits(t, a[j]) /\ l < a[j].hash
                           /\ a[j].hash <= e.hash /\ a[j].hash \in Nat
      /\ \A j \in 1 .. A - 1 : a[j].hash <= a[j + 1].hash
  <2>1. e.hash # None
    BY <1>1 DEF None
  <2> QED
    BY <2>1, <1>2, <1>4 DEF Run, Entry
<1>6. /\ \A j \in 1 .. C : /\ EntryFits(t, c[j]) /\ e.hash < c[j].hash
                           /\ h = None \/ c[j].hash <= h
                           /\ c[j].hash \in Nat
      /\ \A j \in 1 .. C - 1 : c[j].hash <= c[j + 1].hash
  BY <1>2, <1>4 DEF Run, Entry
<1>7. ASSUME NEW j \in 1 .. A + 1 + C
      PROVE  \/ j \in 1 .. A /\ z[j] = a[j]
             \/ j = A + 1 /\ z[j] = e
             \/ j > A + 1 /\ j - (A + 1) \in 1 .. C /\ z[j] = c[j - (A + 1)]
  BY <1>3
<1>8. \A j \in 1 .. A + 1 + C : /\ EntryFits(t, z[j]) /\ l < z[j].hash
                                /\ h = None \/ z[j].hash <= h
  <2> TAKE j \in 1 .. A + 1 + C
  <2>1. l \in Int /\ (h = None \/ h \in Nat)
    BY DEF None
  <2>2. CASE j \in 1 .. A /\ z[j] = a[j]
    BY <2>1, <2>2, <1>1, <1>5
  <2>3. CASE j = A + 1 /\ z[j] = e
    BY <2>3
  <2>4. CASE j - (A + 1) \in 1 .. C /\ z[j] = c[j - (A + 1)]
    BY <2>1, <2>4, <1>1, <1>6
  <2> QED
    BY <2>2, <2>3, <2>4, <1>7
<1>9. ASSUME NEW j \in 1 .. A + C
      PROVE  z[j].hash <= z[j + 1].hash
  <2>1. j \in 1 .. A + 1 + C /\ j + 1 \in 1 .. A + 1 + C
    BY <1>3
  <2>2. CASE j < A
    <3>1. j \in 1 .. A - 1 /\ z[j] = a[j] /\ z[j + 1] = a[j + 1]
      BY <2>1, <2>2, <1>3
    <3> QED
      BY <3>1, <1>5
  <2>3. CASE j = A
    <3>1. j \in 1 .. A /\ z[j] = a[j] /\ z[j + 1] = e
      BY <2>1, <2>3, <1>3
    <3> QED
      BY <3>1, <1>5
  <2>4. CASE j = A + 1
    <3>1. 1 \in 1 .. C /\ z[j] = e /\ z[j + 1] = c[1]
      BY <2>1, <2>4, <1>3
    <3> QED
      BY <3>1, <1>1, <1>6
  <2>5. CASE j > A + 1
    <3>1. PICK k : k = j - (A + 1)
      OBVIOUS
    <3>2. k \in 1 .. C - 1 /\ z[j] = c[k] /\ (j + 1) - (A + 1) = k + 1
      BY <3>1, <2>1, <2>5, <1>3
    <3>3. z[j + 1] = c[k + 1]
      BY <3>2, <2>1, <2>5, <1>3
    <3> QED
      BY <3>2, <3>3, <1>6
  <2> QED
    BY <2>1, <2>2, <2>3, <2>4, <2>5, <1>3
<1>10. Len(z) - 1 = A + C
  BY <1>3
<1>11. Run(z, t, l, h)
  BY <1>3, <1>8, <1>9, <1>10 DEF Run
<1> QED
  BY <1>2, <1>11

\* What the levels and the bounds say of one node and of its children.
LEMMA NodeBounds ==
  ASSUME Shapely, NEW lev, NEW home, NEW H, NEW lo, NEW hi,
         Arranged(lev, home, H, lo, hi), NEW n \in Nodes
  PROVE  /\ node[n].keys \in Seq(Entry) /\ Len(node[n].keys) \in Nat
         /\ \A j \in 1 .. Len(node[n].keys) : node[n].keys[j] \in Entry
         /\ lev[n] \in Nat /\ home[n] \in roots /\ home[n] \in Nodes
         /\ lo[n] \in Nat \cup {None} /\ hi[n] \in Nat \cup {None}
         /\ Rising(node[n].keys)
         /\ Between(node[n].keys, lo[n], hi[n], IsLeaf(n))
         /\ \A j \in 1 .. Len(node[n].keys) : EntryFits(node[n].type, node[n].keys[j])
         /\ \A s \in Live(n) : LET c == node[n].child[s]
                               IN  /\ IsLeaf(n) <=> c = 0
                                   /\ c # 0 => /\ c \in Nodes /\ lev[c] < lev[n]
                                               /\ lev[c] \in Nat
                                               /\ home[c] = home[n]
                                               /\ node[c].type = node[n].type
                                               /\ lo[c] = LoOf(lo, n, s)
                                               /\ hi[c] = HiOf(hi, n, s)
<1>1. /\ Levels(lev) /\ Trees(home) /\ Typed(home)
      /\ BoundsLinked(lo, hi) /\ InBounds(lo, hi)
  BY DEF Arranged, Ranking, Order
<1>2. node[n].keys \in Seq(Entry) /\ Len(node[n].keys) \in Nat /\ roots \subseteq Nodes
  BY SoundNodes DEF Shapely, WellFormed, Node, Sound, TypeOK
<1>3. \A j \in 1 .. Len(node[n].keys) : node[n].keys[j] \in Entry
  BY <1>2, ElementOfSeq
<1>4. lev[n] \in Nat /\ home[n] \in roots /\ home[n] \in Nodes
  BY <1>1, <1>2 DEF Levels, Trees
<1>5. /\ lo[n] \in Nat \cup {None} /\ hi[n] \in Nat \cup {None}
      /\ Rising(node[n].keys) /\ Between(node[n].keys, lo[n], hi[n], IsLeaf(n))
      /\ \A j \in 1 .. Len(node[n].keys) : EntryFits(node[n].type, node[n].keys[j])
  BY <1>1 DEF BoundsLinked, InBounds, Typed
<1>6. ASSUME NEW s \in Live(n)
      PROVE  LET c == node[n].child[s]
             IN  /\ IsLeaf(n) <=> c = 0
                 /\ c # 0 => /\ c \in Nodes /\ lev[c] < lev[n] /\ lev[c] \in Nat
                             /\ home[c] = home[n] /\ node[c].type = node[n].type
                             /\ lo[c] = LoOf(lo, n, s) /\ hi[c] = HiOf(hi, n, s)
  <2>1. PICK c : c = node[n].child[s]
    OBVIOUS
  <2>2. (IsLeaf(n) <=> c = 0) /\ (c # 0 => c \in Nodes)
    BY <2>1, LinkEnds
  <2>3. ASSUME c # 0
        PROVE  /\ lev[c] < lev[n] /\ lev[c] \in Nat
               /\ home[c] = home[n] /\ node[c].type = node[n].type
               /\ lo[c] = LoOf(lo, n, s) /\ hi[c] = HiOf(hi, n, s)
    <3>1. lev[n] = lev[c] + 1 /\ lev[c] \in Nat
      BY <2>1, <2>2, <2>3, <1>1 DEF Levels
    <3>2. home[c] = home[n]
      BY <2>1, <2>3, <1>1 DEF Trees
    <3>3. node[c].type = node[n].type
      BY <2>2, <2>3, <3>2, <1>1 DEF Typed
    <3>4. lo[c] = LoOf(lo, n, s) /\ hi[c] = HiOf(hi, n, s)
      BY <2>1, <2>3, <1>1 DEF BoundsLinked
    <3> QED
      BY <3>1, <3>2, <3>3, <3>4
  <2> QED
    BY <2>1, <2>2, <2>3
<1> QED
  BY <1>2, <1>3, <1>4, <1>5, <1>6

\* R says something of a sequence with the bounds below and above it: what
\* holds of nothing between any two neighbours of a leaf of r, and of an entry
\* with what is on either side of it.
Weaves(home, lo, hi, r, R) ==
  /\ \A m \in Nodes : \A s \in Live(m) :
       home[m] = r /\ IsLeaf(m) => <<<<>>, LoOf(lo, m, s), HiOf(hi, m, s)>> \in R
  /\ \A m \in Nodes : \A i \in 1 .. Len(node[m].keys) :
       \A a, c \in Seq(Entry) :
         /\ home[m] = r
         /\ <<a, lo[m], node[m].keys[i].hash>> \in R
         /\ <<c, node[m].keys[i].hash, HiOf(hi, m, i)>> \in R
         => <<a \o <<node[m].keys[i]>> \o c, lo[m], HiOf(hi, m, i)>> \in R

\* Then it holds of the entries below every node of r.
LEMMA WovenBelow ==
  ASSUME Shapely, NEW lev, NEW home, NEW H, NEW lo, NEW hi,
         Arranged(lev, home, H, lo, hi), NEW r, NEW R,
         Weaves(home, lo, hi, r, R)
  PROVE  \A n \in Nodes : home[n] = r =>
           InOrder(n) \in Seq(Entry) /\ <<InOrder(n), lo[n], hi[n]>> \in R
<1>1. PICK b \in [Nodes -> Seq(Entry)] :
        /\ \A m : InOrder(m) = b[m]
        /\ \A m \in Nodes : b[m] = Woven(node[m].keys, Tween(b, m))
  <2>1. Levels(lev) /\ Bounded(lev, H)
    BY DEF Arranged, Ranking
  <2> QED
    BY <2>1, InOrderBelow
<1> DEFINE Wrong == {lev[m] : m \in {k \in Nodes : /\ home[k] = r
                                                   /\ <<b[k], lo[k], hi[k]>> \notin R}}
<1>2. Wrong = {}
  <2>1. SUFFICES ASSUME Wrong # {}
                 PROVE  FALSE
    OBVIOUS
  <2>2. Wrong \subseteq Nat
    <3>1. \A m \in Nodes : lev[m] \in Nat
      BY NodeBounds
    <3> QED
      BY <3>1
  <2>3. PICK l \in Wrong : \A k \in Wrong : l <= k
    BY <2>1, <2>2, LeastNatural
  <2>4. PICK m \in Nodes : home[m] = r /\ <<b[m], lo[m], hi[m]>> \notin R /\ lev[m] = l
    BY <2>3
  <2>5. PICK ks, c, L : ks = node[m].keys /\ c = Tween(b, m) /\ L = Len(ks)
    OBVIOUS
  <2>6. ks \in Seq(Entry) /\ L \in Nat /\ lev[m] \in Nat
    BY <2>5, NodeBounds
  <2>7. ASSUME NEW s \in 0 .. L
        PROVE  c[s] \in Seq(Entry) /\ <<c[s], LoOf(lo, m, s), HiOf(hi, m, s)>> \in R
    <3>1. s \in Live(m)
      BY <2>5, <2>7 DEF Live
    <3>2. CASE IsLeaf(m)
      <4>1. c[s] = <<>>
        BY <3>1, <3>2, <2>5 DEF Tween
      <4>2. <<<<>>, LoOf(lo, m, s), HiOf(hi, m, s)>> \in R
        BY <3>1, <3>2, <2>4 DEF Weaves
      <4>3. <<>> \in Seq(Entry)
        OBVIOUS
      <4>4. <<c[s], LoOf(lo, m, s), HiOf(hi, m, s)>> \in R
        BY <4>1, <4>2
      <4>5. c[s] \in Seq(Entry)
        BY <4>1, <4>3
      <4> QED
        BY <4>4, <4>5
    <3>3. CASE ~IsLeaf(m)
      <4>1. PICK d : d = node[m].child[s]
        OBVIOUS
      <4>2. /\ d \in Nodes /\ lev[d] < l /\ lev[d] \in Nat /\ l \in Nat
            /\ home[d] = r
            /\ lo[d] = LoOf(lo, m, s) /\ hi[d] = HiOf(hi, m, s)
        BY <3>1, <3>3, <4>1, <2>4, <2>5, <2>6, NodeBounds
      <4>3. c[s] = b[d]
        BY <3>1, <3>3, <4>1, <2>5 DEF Tween
      <4>4. <<b[d], lo[d], hi[d]>> \in R
        <5>1. lev[d] \notin Wrong
          <6> HIDE DEF Wrong
          <6> QED
            BY <4>2, <2>3
        <5> QED
          BY <4>2, <5>1
      <4> QED
        BY <4>2, <4>3, <4>4
    <3> QED
      BY <3>2, <3>3
  <2>8. c \in [0 .. L -> Seq(Entry)]
    <3>1. c = [s \in 0 .. L |-> c[s]]
      BY <2>5 DEF Tween, Live
    <3> QED
      BY <3>1, <2>7
  <2>9. PICK u \in [0 .. L -> Seq(Entry)] :
          /\ Woven(ks, c) = u[L]
          /\ u[0] = c[0]
          /\ \A i \in 1 .. L : u[i] = u[i - 1] \o <<ks[i]>> \o c[i]
    <3>1. PICK v : Prefixes(v, ks, c)
      BY <2>5, <2>6, <2>8, WovenPrefixes
    <3> QED
      BY <3>1, <2>5 DEF Prefixes
  <2> DEFINE Off == {i \in 0 .. L : <<u[i], lo[m], HiOf(hi, m, i)>> \notin R}
  <2>10. Off = {}
    <3>1. SUFFICES ASSUME Off # {}
                   PROVE  FALSE
      OBVIOUS
    <3>2. Off \subseteq Nat
      OBVIOUS
    <3>3. PICK i \in Off : \A k \in Off : i <= k
      BY <3>1, <3>2, LeastNatural
    <3>4. i \in 0 .. L /\ <<u[i], lo[m], HiOf(hi, m, i)>> \notin R
      BY <3>3
    <3>5. i # 0
      <4>1. <<c[0], LoOf(lo, m, 0), HiOf(hi, m, 0)>> \in R
        BY <2>6, <2>7
      <4> QED
        BY <4>1, <3>4, <2>9 DEF LoOf
    <3>6. i - 1 \in 0 .. L /\ ~(i <= i - 1) /\ i \in 1 .. L /\ i - 1 # L /\ (i - 1) + 1 = i
      BY <3>4, <3>5, <2>6
    <3>7. <<u[i - 1], lo[m], HiOf(hi, m, i - 1)>> \in R
      <4>1. i - 1 \notin Off
        <5> HIDE DEF Off
        <5> QED
          BY <3>3, <3>6
      <4> QED
        BY <4>1, <3>6
    <3>8. HiOf(hi, m, i - 1) = ks[i].hash /\ LoOf(lo, m, i) = ks[i].hash
      BY <3>5, <3>6, <2>5 DEF HiOf, LoOf
    <3>9. c[i] \in Seq(Entry) /\ <<c[i], ks[i].hash, HiOf(hi, m, i)>> \in R
      BY <3>4, <3>8, <2>7
    <3>10. u[i - 1] \in Seq(Entry)
      BY <3>6, <2>9
    <3>11. <<u[i - 1] \o <<ks[i]>> \o c[i], lo[m], HiOf(hi, m, i)>> \in R
      BY <3>6, <3>7, <3>8, <3>9, <3>10, <2>4, <2>5 DEF Weaves
    <3>12. u[i] = u[i - 1] \o <<ks[i]>> \o c[i]
      BY <3>6, <2>9
    <3> QED
      BY <3>4, <3>11, <3>12
  <2>11. <<u[L], lo[m], HiOf(hi, m, L)>> \in R
    <3>1. L \in 0 .. L
      BY <2>6
    <3> QED
      BY <3>1, <2>10
  <2>12. b[m] = u[L] /\ HiOf(hi, m, L) = hi[m]
    BY <1>1, <2>5, <2>9 DEF HiOf
  <2> QED
    BY <2>4, <2>11, <2>12
<1> QED
  BY <1>1, <1>2

\* The entries below a node stand in order between its bounds.
LEMMA RunBelow ==
  ASSUME Shapely, NEW lev, NEW home, NEW H, NEW lo, NEW hi,
         Arranged(lev, home, H, lo, hi), NEW n \in Nodes
  PROVE  Run(InOrder(n), node[n].type, lo[n], hi[n])
<1>1. PICK r, t : r = home[n] /\ t = node[n].type
  OBVIOUS
<1> DEFINE R == {x \in Seq(Entry) \X Int \X Int : Run(x[1], t, x[2], x[3])}
<1>2. \A m \in Nodes : home[m] = r => node[m].type = t
  BY <1>1 DEF Arranged, Typed
<1>3. ASSUME NEW m \in Nodes, NEW s \in Live(m), IsLeaf(m)
      PROVE  <<<<>>, LoOf(lo, m, s), HiOf(hi, m, s)>> \in R
  <2>1. LoOf(lo, m, s) \in Int /\ HiOf(hi, m, s) \in Int
    <3>1. /\ lo[m] \in Int /\ hi[m] \in Int /\ Len(node[m].keys) \in Nat
          /\ \A j \in 1 .. Len(node[m].keys) : node[m].keys[j] \in Entry
      BY NodeBounds DEF None
    <3>2. s \in 0 .. Len(node[m].keys)
      BY DEF Live
    <3> QED
      BY <3>1, <3>2 DEF LoOf, HiOf, Entry
  <2>2. Run(<<>>, t, LoOf(lo, m, s), HiOf(hi, m, s))
    BY EmptyRun
  <2>3. <<>> \in Seq(Entry)
    OBVIOUS
  <2>4. PICK a, l, h : a = <<>> /\ l = LoOf(lo, m, s) /\ h = HiOf(hi, m, s)
    OBVIOUS
  <2>5. /\ a \in Seq(Entry) /\ l \in Int /\ h \in Int
        /\ Run(a, t, l, h)
    BY <2>1, <2>2, <2>3, <2>4
  <2>6. <<a, l, h>> \in R
    BY <2>5
  <2> QED
    BY <2>4, <2>6
<1>4. ASSUME NEW m \in Nodes, NEW i \in 1 .. Len(node[m].keys),
             NEW a \in Seq(Entry), NEW c \in Seq(Entry), home[m] = r,
             <<a, lo[m], node[m].keys[i].hash>> \in R,
             <<c, node[m].keys[i].hash, HiOf(hi, m, i)>> \in R
      PROVE  <<a \o <<node[m].keys[i]>> \o c, lo[m], HiOf(hi, m, i)>> \in R
  <2>1. PICK ks, L, e, h : /\ ks = node[m].keys /\ L = Len(ks)
                           /\ e = ks[i] /\ h = HiOf(hi, m, i)
    OBVIOUS
  <2>2. /\ ks \in Seq(Entry) /\ L \in Nat
        /\ \A j \in 1 .. L : ks[j] \in Entry /\ EntryFits(t, ks[j])
        /\ Rising(ks) /\ Between(ks, lo[m], hi[m], IsLeaf(m))
        /\ lo[m] \in Nat \cup {None} /\ hi[m] \in Nat \cup {None}
    BY <2>1, <1>2, <1>4, NodeBounds
  <2>3. i \in 1 .. L
    BY <2>1
  <2>4. e \in Entry /\ e.hash \in Nat /\ EntryFits(t, e)
    BY <2>1, <2>2, <2>3 DEF Entry
  <2>5. lo[m] < e.hash /\ (hi[m] = None \/ e.hash <= hi[m])
    <3>1. lo[m] < e.hash /\ (Below(e.hash, hi[m]) \/ e.hash = hi[m])
      BY <2>1, <2>2, <2>3 DEF Between
    <3> QED
      BY <3>1, <2>2, <2>4 DEF Below, None
  <2>6. h \in Nat \cup {None} /\ (h = None \/ e.hash <= h)
    <3>1. CASE i = L
      BY <3>1, <2>1, <2>2, <2>5 DEF HiOf
    <3>2. CASE i # L
      <4>1. i + 1 \in 1 .. L /\ i < i + 1
        BY <3>2, <2>2, <2>3
      <4>2. h = ks[i + 1].hash /\ ks[i + 1] \in Entry
        BY <3>2, <4>1, <2>1, <2>2 DEF HiOf
      <4>3. ks[i].hash < ks[i + 1].hash
        BY <4>1, <2>1, <2>2, <2>3 DEF Rising
      <4>4. ks[i + 1].hash \in Nat
        BY <4>2 DEF Entry
      <4> QED
        BY <4>2, <4>3, <4>4, <2>1, <2>4
    <3> QED
      BY <3>1, <3>2
  <2>7. Run(a, t, lo[m], e.hash) /\ Run(c, t, e.hash, h)
    BY <2>1, <1>4
  <2>8. Run(a \o <<e>> \o c, t, lo[m], h)
    BY <2>2, <2>4, <2>5, <2>6, <2>7, RunsJoin
  <2>9. /\ a \o <<e>> \o c \in Seq(Entry) /\ lo[m] \in Int /\ h \in Int
    BY <2>2, <2>6, <2>8 DEF Run, None
  <2>10. PICK z, l : z = a \o <<e>> \o c /\ l = lo[m]
    OBVIOUS
  <2>11. /\ z \in Seq(Entry) /\ l \in Int /\ h \in Int
         /\ Run(z, t, l, h)
    BY <2>8, <2>9, <2>10
  <2>12. <<z, l, h>> \in R
    BY <2>11
  <2>13. /\ e = node[m].keys[i] /\ l = lo[m] /\ h = HiOf(hi, m, i)
         /\ z = a \o <<e>> \o c
    BY <2>1, <2>10
  <2> HIDE DEF R
  <2> QED
    BY <2>12, <2>13, Zenon
<1>5. Weaves(home, lo, hi, r, R)
  <2> HIDE DEF R
  <2> QED
    BY <1>3, <1>4 DEF Weaves
<1>6. <<InOrder(n), lo[n], hi[n]>> \in R
  <2> HIDE DEF R
  <2> QED
    BY <1>1, <1>5, WovenBelow
<1> QED
  BY <1>1, <1>6

\* An object's keys are in the order that compare_node_key searches them in,
\* between any two turns of any calls.
THEOREM SearchOrderAlways ==
  ASSUME HashInjective
  PROVE  Spec => []SearchOrder
<1>1. Ordered => SearchOrder
  <2> SUFFICES ASSUME Ordered, NEW r \in roots, NEW i \in 1 .. Len(InOrder(r)) - 1
               PROVE  \/ InOrder(r)[i].hash < InOrder(r)[i + 1].hash
                      \/ /\ InOrder(r)[i].hash = InOrder(r)[i + 1].hash
                         /\ InOrder(r)[i].key <= InOrder(r)[i + 1].key
    BY DEF SearchOrder
  <2>1. PICK lev, home, H, lo, hi : Arranged(lev, home, H, lo, hi)
    BY DEF Ordered
  <2>2. Shapely /\ r \in Nodes
    BY DEF Ordered, Shapely, Sound, TypeOK
  <2>3. PICK es, t : es = InOrder(r) /\ t = node[r].type
    OBVIOUS
  <2>4. Run(es, t, lo[r], hi[r])
    BY <2>1, <2>2, <2>3, RunBelow
  <2>5. /\ es \in Seq(Entry) /\ Len(es) \in Nat
        /\ i \in 1 .. Len(es) /\ i + 1 \in 1 .. Len(es)
    BY <2>3, <2>4, LenProperties DEF Run
  <2>6. PICK e, f : e = es[i] /\ f = es[i + 1]
    OBVIOUS
  <2>7. /\ e \in Entry /\ f \in Entry /\ EntryFits(t, e) /\ EntryFits(t, f)
        /\ e.hash <= f.hash
    BY <2>3, <2>4, <2>5, <2>6, ElementOfSeq DEF Run
  <2>8. e.hash = f.hash => e.key = f.key
    BY <2>7 DEF EntryFits, HashInjective
  <2> QED
    BY <2>3, <2>6, <2>7, <2>8 DEF Entry
<1> QED
  BY <1>1, OrderedAlways, PTL
=============================================================================
