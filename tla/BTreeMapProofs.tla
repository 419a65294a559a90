--------------------------- MODULE BTreeMapProofs ---------------------------
(***************************************************************************)
(* Proofs that callers see maps and sequences in the search trees.         *)
(***************************************************************************)
EXTENDS BTreeObjects, BTreeOrderProofs

-----------------------------------------------------------------------------
(***************************************************************************)
(* What a search finds                                                     *)
(***************************************************************************)

Held(n, q) == node[n].keys[Position(node[n].keys, q) + 1].val
Child(n, q) == node[n].child[Position(node[n].keys, q)]
Results == Values \cup {NoValue}

\* f gives what a search for q finds from each node.
Searches(f, q) ==
  /\ f \in [Nodes -> Results]
  /\ \A n \in Nodes :
       f[n] = IF Found(node[n].keys, q) THEN Held(n, q)
              ELSE IF Child(n, q) # 0 THEN f[Child(n, q)] ELSE NoValue

LEMMA LookupSearches ==
  ASSUME Shapely, NEW lev, NEW H, Levels(lev), Bounded(lev, H), NEW q
  PROVE  \E f : Searches(f, q) /\ \A n : Lookup(n, q) = f[n]
<1> DEFINE Step(f, n) == IF Found(node[n].keys, q) THEN Held(n, q)
                         ELSE IF Child(n, q) # 0 THEN f[Child(n, q)]
                         ELSE NoValue
           Eq(f) == f = [n \in Nodes |-> Step(f, n)]
           V == Results
           G == [f \in [Nodes -> V] |-> [n \in Nodes |-> Step(f, n)]]
<1>1. ASSUME NEW n \in Nodes
      PROVE  /\ Found(node[n].keys, q) => Held(n, q) \in V
             /\ Child(n, q) # 0 => /\ Child(n, q) \in Nodes
                                   /\ lev[Child(n, q)] \in Nat
                                   /\ lev[Child(n, q)] < lev[n]
             /\ lev[n] \in Nat
  <2>1. node[n].keys \in Seq(Entry) /\ Len(node[n].keys) \in Nat
    BY SoundNodes DEF Shapely, WellFormed, Node
  <2>2. PICK ks, i : ks = node[n].keys /\ i = Position(ks, q)
    OBVIOUS
  <2>3. i \in 0 .. Len(ks)
    BY <2>1, <2>2, PositionStops
  <2>4. Found(ks, q) => Held(n, q) \in V
    <3>1. Found(ks, q) => i + 1 \in 1 .. Len(ks)
      BY <2>1, <2>2, <2>3 DEF Found
    <3>2. Found(ks, q) => ks[i + 1] \in Entry
      BY <3>1, <2>1, <2>2, ElementOfSeq
    <3> QED
      BY <3>2, <2>2 DEF Entry, Held, Results
  <2>5. i \in Live(n)
    BY <2>2, <2>3 DEF Live
  <2>6. PICK c : c = Child(n, q)
    OBVIOUS
  <2>7. c = node[n].child[i]
    BY <2>2, <2>6 DEF Child
  <2>8. c # 0 => c \in Nodes /\ ~IsLeaf(n)
    BY <2>5, <2>7, LinkEnds
  <2>9. c # 0 => lev[n] = lev[c] + 1 /\ lev[c] \in Nat
    BY <2>5, <2>7, <2>8 DEF Levels
  <2>10. lev[n] \in Nat
    BY DEF Levels
  <2> QED
    BY <2>2, <2>4, <2>6, <2>8, <2>9, <2>10
<1>2. ByRank(Nodes, V, lev, H, G)
  <2>1. H \in Nat /\ lev \in [Nodes -> Nat] /\ \A s \in Nodes : lev[s] <= H
    BY DEF Levels, Bounded
  <2>2. NoValue \in V
    BY DEF Results
  <2> HIDE DEF V
  <2>3. G \in [[Nodes -> V] -> [Nodes -> V]]
    BY <2>2, <1>1
  <2>4. ASSUME NEW f \in [Nodes -> V], NEW g \in [Nodes -> V], NEW n \in Nodes,
               \A t \in Nodes : lev[t] < lev[n] => f[t] = g[t]
        PROVE  G[f][n] = G[g][n]
    <3>1. Step(f, n) = Step(g, n)
      BY <2>4, <1>1
    <3> HIDE DEF Step
    <3> QED
      BY <3>1
  <2> HIDE DEF G
  <2> QED
    BY <2>1, <2>3, <2>4 DEF ByRank
<1>3. NoValue \in V
  BY DEF Results
<1>4. PICK b \in [Nodes -> V] : G[b] = b
  <2> HIDE DEF V, G
  <2> QED
    BY <1>2, <1>3, FixedPoint
<1>5. \E f : Eq(f)
  <2> HIDE DEF V, Step
  <2> QED
    BY <1>4
<1>6. DOMAIN node = Nodes
  BY SoundNodes DEF Shapely
<1>7. \A n : Lookup(n, q) = (CHOOSE f : Eq(f))[n]
  BY <1>6 DEF Lookup, Held, Child
<1>8. PICK f : f = (CHOOSE g : Eq(g))
  OBVIOUS
<1>9. Eq(f)
  <2> HIDE DEF Eq
  <2> QED
    BY <1>5, <1>8
<1>10. \A n \in Nodes : f[n] = Step(f, n)
  <2> HIDE DEF Step
  <2> QED
    BY <1>9
<1>11. f \in [Nodes -> V]
  <2>1. DOMAIN f = Nodes /\ f = [n \in DOMAIN f |-> f[n]]
    <3> HIDE DEF Step
    <3> QED
      BY <1>9
  <2> DEFINE Wrong == {lev[n] : n \in {k \in Nodes : f[k] \notin V}}
  <2>2. Wrong = {}
    <3>1. SUFFICES ASSUME Wrong # {}
                   PROVE  FALSE
      OBVIOUS
    <3> HIDE DEF V, Step
    <3>2. Wrong \subseteq Nat
      BY <1>1
    <3>3. PICK l \in Wrong : \A k \in Wrong : l <= k
      BY <3>1, <3>2, LeastNatural
    <3>4. PICK n \in Nodes : f[n] \notin V /\ lev[n] = l
      BY <3>3
    <3>5. Child(n, q) # 0 => f[Child(n, q)] \in V
      <4>1. ASSUME Child(n, q) # 0, f[Child(n, q)] \notin V
            PROVE  FALSE
        <5>1. /\ Child(n, q) \in Nodes /\ lev[Child(n, q)] \in Nat
              /\ lev[Child(n, q)] < l /\ l \in Nat
          BY <4>1, <3>4, <1>1
        <5>2. lev[Child(n, q)] \in Wrong
          BY <4>1, <5>1
        <5> HIDE DEF Wrong
        <5> QED
          BY <5>1, <5>2, <3>3
      <4> QED
        BY <4>1
    <3>6. Step(f, n) \in V
      BY <3>5, <1>1, <1>3 DEF Step
    <3> QED
      BY <3>4, <3>6, <1>10
  <2>3. \A n \in Nodes : f[n] \in V
    <3> HIDE DEF V
    <3> QED
      BY <2>2
  <2> HIDE DEF V, Wrong
  <2> QED
    BY <2>1, <2>3
<1>12. Searches(f, q)
  BY <1>10, <1>11 DEF Searches
<1> HIDE DEF Eq
<1> QED
  BY <1>7, <1>8, <1>12

-----------------------------------------------------------------------------
(***************************************************************************)
(* Walking up and down a tree comes to an end                              *)
(***************************************************************************)

\* No set of nodes below the roots has with each node the one linking to it.
LEMMA NoClimb ==
  ASSUME Shapely, Hung, NEW lev, NEW home, NEW H, Ranking(lev, home, H),
         NEW S \in SUBSET (Nodes \ roots),
         \A n \in Nodes : \A s \in Live(n) :
           node[n].child[s] # 0 /\ node[n].child[s] \in S => n \in S
  PROVE  S = {}
<1>1. Levels(lev) /\ Trees(home) /\ Bounded(lev, H)
  BY DEF Ranking
<1> DEFINE Gaps == {H - lev[n] : n \in S}
<1>2. \A n \in Nodes : lev[n] \in Nat /\ H \in Nat /\ lev[n] <= H
  BY <1>1 DEF Levels, Bounded
<1>3. Gaps \subseteq Nat
  BY <1>2
<1> SUFFICES ASSUME S # {}
             PROVE  FALSE
  OBVIOUS
<1>4. PICK g \in Gaps : \A k \in Gaps : g <= k
  <2>1. Gaps # {}
    OBVIOUS
  <2> HIDE DEF Gaps
  <2> QED
    BY <2>1, <1>3, LeastNatural
<1>5. PICK c \in S : g = H - lev[c]
  BY <1>4
<1>6. PICK n \in Nodes : ~IsLeaf(n) /\ Reaches(n, c)
  BY DEF Hung
<1>7. PICK s \in Live(n) : node[n].child[s] = c
  BY <1>6 DEF Reaches
<1>8. c # 0
  BY <1>6, <1>7, LinkEnds
<1>9. n \in S
  BY <1>7, <1>8
<1>10. lev[n] = lev[c] + 1
  BY <1>1, <1>6, <1>7 DEF Levels
<1>11. H - lev[n] \in Gaps
  BY <1>9
<1>12. g <= H - lev[n]
  <2> HIDE DEF Gaps
  <2> QED
    BY <1>4, <1>11
<1> QED
  BY <1>2, <1>5, <1>10, <1>12

\* No set of nodes has with each node one of its children.
LEMMA NoFall ==
  ASSUME Shapely, NEW lev, NEW home, NEW H, Ranking(lev, home, H),
         NEW S \in SUBSET Nodes,
         \A n \in S : \E s \in Live(n) :
           node[n].child[s] # 0 /\ node[n].child[s] \in S
  PROVE  S = {}
<1>1. Levels(lev)
  BY DEF Ranking
<1> DEFINE Ranks == {lev[n] : n \in S}
<1>2. \A n \in Nodes : lev[n] \in Nat
  BY <1>1 DEF Levels
<1>3. Ranks \subseteq Nat
  BY <1>2
<1> SUFFICES ASSUME S # {}
             PROVE  FALSE
  OBVIOUS
<1>4. PICK l \in Ranks : \A k \in Ranks : l <= k
  <2>1. Ranks # {}
    OBVIOUS
  <2> HIDE DEF Ranks
  <2> QED
    BY <2>1, <1>3, LeastNatural
<1>5. PICK n \in S : l = lev[n]
  BY <1>4
<1>6. PICK s \in Live(n) : node[n].child[s] # 0 /\ node[n].child[s] \in S
  BY <1>5
<1>7. PICK c \in S : c = node[n].child[s]
  BY <1>6
<1>8. ~IsLeaf(n)
  BY <1>6, LinkEnds
<1>9. lev[n] = lev[c] + 1
  BY <1>1, <1>7, <1>8 DEF Levels
<1>10. lev[c] \in Ranks
  BY <1>7
<1>11. l <= lev[c]
  <2> HIDE DEF Ranks
  <2> QED
    BY <1>4, <1>10
<1> QED
  BY <1>2, <1>5, <1>9, <1>11

-----------------------------------------------------------------------------
(***************************************************************************)
(* What a tree holds                                                       *)
(***************************************************************************)

\* A search for h may come to n and then has not passed it.
Strict(lo, hi, n, h) == lo[n] < h /\ Below(h, hi[n])

\* The entries that searches find: those of the tree that are not the second
\* of a hash that bounds their node from above.
HeldAt(home, hi, r, h, v, n, j) ==
  /\ n \in Nodes /\ home[n] = r /\ hi[n] # h
  /\ j \in 1 .. Len(node[n].keys)
  /\ node[n].keys[j].hash = h /\ node[n].keys[j].val = v
Has(home, hi, r, h, v) == \E n, j : HeldAt(home, hi, r, h, v, n, j)

\* What bounds a child lies within the bounds of its parent.
LEMMA BoundsWithin ==
  ASSUME Shapely, NEW lev, NEW home, NEW H, NEW lo, NEW hi,
         Arranged(lev, home, H, lo, hi), NEW n \in Nodes, NEW s \in Live(n),
         ~IsLeaf(n)
  PROVE  /\ s \in 0 .. Len(node[n].keys)
         /\ LoOf(lo, n, s) \in Int /\ lo[n] <= LoOf(lo, n, s)
         /\ HiOf(hi, n, s) \in Nat \cup {None}
         /\ s < Len(node[n].keys) =>
              /\ HiOf(hi, n, s) = node[n].keys[s + 1].hash
              /\ Below(HiOf(hi, n, s), hi[n]) /\ HiOf(hi, n, s) \in Nat
         /\ s = Len(node[n].keys) => HiOf(hi, n, s) = hi[n]
<1>1. PICK ks : ks = node[n].keys
  OBVIOUS
<1>2. /\ Len(ks) \in Nat /\ \A j \in 1 .. Len(ks) : ks[j] \in Entry
      /\ lo[n] \in Nat \cup {None} /\ hi[n] \in Nat \cup {None}
      /\ Between(ks, lo[n], hi[n], IsLeaf(n))
  BY <1>1, NodeBounds
<1>3. s \in 0 .. Len(ks)
  BY <1>1 DEF Live
<1>4. \A j \in 1 .. Len(ks) : /\ ks[j].hash \in Nat /\ lo[n] < ks[j].hash
                              /\ Below(ks[j].hash, hi[n])
  BY <1>2 DEF Between, Entry
<1>5. LoOf(lo, n, s) \in Int /\ lo[n] <= LoOf(lo, n, s)
  <2>1. CASE s = 0
    BY <2>1, <1>2 DEF LoOf, None
  <2>2. CASE s # 0
    <3>1. s \in 1 .. Len(ks)
      BY <2>2, <1>2, <1>3
    <3>2. LoOf(lo, n, s) = ks[s].hash
      BY <2>2, <1>1 DEF LoOf
    <3> QED
      BY <3>1, <3>2, <1>2, <1>4 DEF None
  <2> QED
    BY <2>1, <2>2
<1>6. s < Len(ks) => HiOf(hi, n, s) = ks[s + 1].hash /\ s + 1 \in 1 .. Len(ks)
  BY <1>1, <1>2, <1>3 DEF HiOf
<1>7. s = Len(ks) => HiOf(hi, n, s) = hi[n]
  BY <1>1 DEF HiOf
<1> QED
  BY <1>1, <1>2, <1>3, <1>4, <1>5, <1>6, <1>7

\* What is strictly between a child's bounds is between its parent's.
LEMMA StrictAbove ==
  ASSUME Shapely, NEW lev, NEW home, NEW H, NEW lo, NEW hi,
         Arranged(lev, home, H, lo, hi), NEW n \in Nodes, NEW s \in Live(n),
         ~IsLeaf(n), NEW h \in Nat, LoOf(lo, n, s) < h, Below(h, HiOf(hi, n, s))
  PROVE  Strict(lo, hi, n, h)
<1>1. PICK l, t, len : l = LoOf(lo, n, s) /\ t = HiOf(hi, n, s) /\ len = Len(node[n].keys)
  OBVIOUS
<1>2. /\ s \in 0 .. len /\ l \in Int /\ lo[n] <= l /\ t \in Nat \cup {None}
      /\ s < len => Below(t, hi[n]) /\ t \in Nat
      /\ s = len => t = hi[n]
  BY <1>1, BoundsWithin
<1>3. lo[n] \in Nat \cup {None} /\ hi[n] \in Nat \cup {None} /\ len \in Nat
  BY <1>1, NodeBounds
<1>4. l < h /\ Below(h, t)
  BY <1>1
<1>5. lo[n] < h
  BY <1>2, <1>3, <1>4 DEF None
<1>6. Below(h, hi[n])
  BY <1>2, <1>3, <1>4 DEF None, Below
<1> QED
  BY <1>5, <1>6 DEF Strict

\* Where a search for h that has come to n goes next.
LEMMA SearchTurns ==
  ASSUME HashInjective, Shapely, NEW lev, NEW home, NEW H, NEW lo, NEW hi,
         Arranged(lev, home, H, lo, hi), NEW n \in Nodes, NEW q, q.hash \in Nat,
         Seeks(node[n].type, q), Strict(lo, hi, n, q.hash)
  PROVE  LET ks == node[n].keys
             i  == Position(ks, q)
         IN  /\ i \in Live(n)
             /\ \A j \in 1 .. Len(ks) :
                  ks[j].hash = q.hash <=> Found(ks, q) /\ j = i + 1
             /\ Found(ks, q) => i + 1 \in 1 .. Len(ks)
             /\ \A s \in Live(n) :
                  LoOf(lo, n, s) < q.hash /\ Below(q.hash, HiOf(hi, n, s))
                   => ~Found(ks, q) /\ s = i
             /\ ~Found(ks, q) => LoOf(lo, n, i) < q.hash
                                 /\ Below(q.hash, HiOf(hi, n, i))
<1>1. PICK ks, i, h : ks = node[n].keys /\ i = Position(ks, q) /\ h = q.hash
  OBVIOUS
<1>2. /\ ks \in Seq(Entry) /\ Len(ks) \in Nat
      /\ \A j \in 1 .. Len(ks) : ks[j] \in Entry
      /\ Rising(ks) /\ \A j \in 1 .. Len(ks) : EntryFits(node[n].type, ks[j])
      /\ lo[n] \in Nat \cup {None} /\ hi[n] \in Nat \cup {None}
  BY <1>1, NodeBounds
<1>3. /\ i \in 0 .. Len(ks)
      /\ \A j \in 1 .. i : ks[j].hash < h
      /\ Found(ks, q) => i < Len(ks) /\ ks[i + 1].hash = h
      /\ ~Found(ks, q) => \A j \in i + 1 .. Len(ks) : h < ks[j].hash
  <2>1. PICK t : t = node[n].type
    OBVIOUS
  <2>2. /\ Seeks(t, q) /\ \A j \in 1 .. Len(ks) : EntryFits(t, ks[j])
        /\ ks \in Seq(Entry) /\ Rising(ks) /\ q.hash \in Nat
    BY <2>1, <1>2
  <2>3. LET k == Position(ks, q)
        IN  /\ k \in 0 .. Len(ks)
            /\ \A j \in 1 .. k : ks[j].hash < q.hash
            /\ Found(ks, q) => k < Len(ks) /\ ks[k + 1].hash = q.hash
            /\ ~Found(ks, q) => \A j \in k + 1 .. Len(ks) : q.hash < ks[j].hash
    BY <2>2, FindsPlace
  <2> QED
    BY <2>3, <1>1
<1>4. h \in Nat /\ \A j \in 1 .. Len(ks) : ks[j].hash \in Nat
  BY <1>1, <1>2 DEF Entry
<1>5. i \in Live(n)
  BY <1>1, <1>3 DEF Live
<1>6. Found(ks, q) => i + 1 \in 1 .. Len(ks)
  BY <1>2, <1>3
<1>7. ASSUME NEW j \in 1 .. Len(ks), ks[j].hash = h
      PROVE  Found(ks, q) /\ j = i + 1
  <2>1. ~(j <= i)
    BY <1>7, <1>3, <1>4, <1>2
  <2>2. j \in i + 1 .. Len(ks)
    BY <2>1, <1>2, <1>3
  <2>3. Found(ks, q)
    BY <2>2, <1>7, <1>3, <1>4
  <2>4. ~(i + 1 < j)
    <3>1. i + 1 \in 1 .. Len(ks) /\ ks[i + 1].hash = h
      BY <2>3, <1>3, <1>6
    <3>2. i + 1 < j => ks[i + 1].hash < ks[j].hash
      BY <3>1, <1>2 DEF Rising
    <3> QED
      BY <3>1, <3>2, <1>4, <1>7
  <2> QED
    BY <2>2, <2>3, <2>4, <1>2, <1>3
<1>8. \A j \in 1 .. Len(ks) : ks[j].hash = h <=> Found(ks, q) /\ j = i + 1
  BY <1>3, <1>7
<1>9. ASSUME NEW s \in Live(n), LoOf(lo, n, s) < h, Below(h, HiOf(hi, n, s))
      PROVE  ~Found(ks, q) /\ s = i
  <2>1. s \in 0 .. Len(ks)
    BY <1>1 DEF Live
  <2>2. s # 0 => ks[s].hash < h /\ s \in 1 .. Len(ks)
    BY <1>1, <1>9, <2>1, <1>2 DEF LoOf
  <2>3. s < Len(ks) => h < ks[s + 1].hash /\ s + 1 \in 1 .. Len(ks)
    <3>1. ASSUME s < Len(ks)
          PROVE  h < ks[s + 1].hash /\ s + 1 \in 1 .. Len(ks)
      <4>1. HiOf(hi, n, s) = ks[s + 1].hash
        BY <1>1, <3>1, <1>2, <2>1 DEF HiOf
      <4>2. s + 1 \in 1 .. Len(ks)
        BY <3>1, <2>1, <1>2
      <4> QED
        BY <4>1, <4>2, <1>4, <1>9 DEF Below, None
    <3> QED
      BY <3>1
  <2>4. ~(i < s)
    <3>1. SUFFICES ASSUME i < s
                   PROVE  FALSE
      OBVIOUS
    <3>2. i + 1 \in 1 .. Len(ks) /\ s \in 1 .. Len(ks) /\ i + 1 <= s /\ s # 0
      BY <3>1, <2>1, <1>2, <1>3
    <3>3. ks[i + 1].hash <= ks[s].hash
      <4>1. CASE i + 1 = s
        BY <4>1, <3>2, <1>4
      <4>2. CASE i + 1 < s
        BY <4>2, <3>2, <1>4, <1>2 DEF Rising
      <4> QED
        BY <4>1, <4>2, <3>2, <1>3, <2>1
    <3>4. ks[s].hash < h
      BY <2>2, <3>2
    <3>5. ks[i + 1].hash < h
      BY <3>2, <3>3, <3>4, <1>4
    <3>6. i + 1 \in i + 1 .. Len(ks)
      BY <3>2, <1>2, <1>3
    <3> QED
      BY <3>2, <3>5, <3>6, <1>3, <1>4
  <2>5. ~(s < i)
    <3>1. SUFFICES ASSUME s < i
                   PROVE  FALSE
      OBVIOUS
    <3>2. s + 1 \in 1 .. i /\ s < Len(ks)
      BY <3>1, <2>1, <1>2, <1>3
    <3>3. ks[s + 1].hash < h
      BY <3>2, <1>3
    <3> QED
      BY <3>2, <3>3, <2>3, <1>4
  <2>6. s = i
    BY <2>1, <2>4, <2>5, <1>3, <1>2
  <2>7. ~Found(ks, q)
    BY <2>3, <2>6, <1>3, <1>4
  <2> QED
    BY <2>6, <2>7
<1>10. ASSUME ~Found(ks, q)
       PROVE  LoOf(lo, n, i) < h /\ Below(h, HiOf(hi, n, i))
  <2>1. LoOf(lo, n, i) < h
    <3>1. CASE i = 0
      BY <3>1, <1>1 DEF LoOf, Strict
    <3>2. CASE i # 0
      <4>1. i \in 1 .. i
        BY <3>2, <1>2, <1>3
      <4> QED
        BY <4>1, <3>2, <1>1, <1>3 DEF LoOf
    <3> QED
      BY <3>1, <3>2
  <2>2. Below(h, HiOf(hi, n, i))
    <3>1. CASE i = Len(ks)
      BY <3>1, <1>1 DEF HiOf, Strict
    <3>2. CASE i # Len(ks)
      <4>1. i + 1 \in i + 1 .. Len(ks)
        BY <3>2, <1>2, <1>3
      <4>2. h < ks[i + 1].hash
        BY <4>1, <1>10, <1>3
      <4> QED
        BY <4>2, <3>2, <1>1 DEF HiOf, Below
    <3> QED
      BY <3>1, <3>2
  <2> QED
    BY <2>1, <2>2
<1> QED
  BY <1>1, <1>5, <1>6, <1>8, <1>9, <1>10

\* Searches of a structure find what its tree holds.
Reads(home, hi) ==
  \A r \in roots : \A q : Seeks(node[r].type, q) /\ q.hash \in Nat =>
    /\ Lookup(r, q) \in Results
    /\ \A v \in Values : Lookup(r, q) = v <=> Has(home, hi, r, q.hash, v)

\* What is found from anywhere on the way is found from the root.
LEMMA FoundFromRoot ==
  ASSUME HashInjective, Shapely, NEW lev, NEW home, NEW H, NEW lo, NEW hi,
         Arranged(lev, home, H, lo, hi), NEW r \in roots, NEW q, q.hash \in Nat,
         Seeks(node[r].type, q), NEW f, Searches(f, q)
  PROVE  \A n \in Nodes : Strict(lo, hi, n, q.hash) /\ home[n] = r => f[n] = f[r]
<1>1. Ranking(lev, home, H) /\ Trees(home) /\ Typed(home) /\ Hung
  BY DEF Arranged, Ranking
<1> DEFINE S == {n \in Nodes : /\ Strict(lo, hi, n, q.hash) /\ home[n] = r
                               /\ f[n] # f[r]}
<1>2. S \in SUBSET (Nodes \ roots)
  BY <1>1 DEF Trees
<1>3. ASSUME NEW n \in Nodes, NEW s \in Live(n), node[n].child[s] # 0,
             node[n].child[s] \in S
      PROVE  n \in S
  <2>1. PICK c : c = node[n].child[s]
    OBVIOUS
  <2>2. c \in Nodes /\ Strict(lo, hi, c, q.hash) /\ home[c] = r /\ f[c] # f[r]
    BY <2>1, <1>3
  <2>3. /\ ~IsLeaf(n) /\ home[n] = r
        /\ lo[c] = LoOf(lo, n, s) /\ hi[c] = HiOf(hi, n, s)
    BY <2>1, <2>2, <1>3, NodeBounds
  <2>4. LoOf(lo, n, s) < q.hash /\ Below(q.hash, HiOf(hi, n, s))
    BY <2>2, <2>3 DEF Strict
  <2>5. Strict(lo, hi, n, q.hash)
    BY <2>3, <2>4, StrictAbove
  <2>6. Seeks(node[n].type, q)
    BY <2>3, <1>1 DEF Typed
  <2>7. ~Found(node[n].keys, q) /\ s = Position(node[n].keys, q)
    BY <2>3, <2>4, <2>5, <2>6, SearchTurns
  <2>8. Child(n, q) = c
    BY <2>1, <2>7 DEF Child
  <2>9. f[n] = f[c]
    BY <2>1, <2>7, <2>8, <1>3 DEF Searches
  <2> QED
    BY <2>2, <2>3, <2>5, <2>9
<1>4. S = {}
  <2> HIDE DEF S
  <2> QED
    BY <1>1, <1>2, <1>3, NoClimb
<1> QED
  BY <1>4

\* What a search finds is in the tree.
LEMMA FoundIsHeld ==
  ASSUME HashInjective, Shapely, NEW lev, NEW home, NEW H, NEW lo, NEW hi,
         Arranged(lev, home, H, lo, hi), NEW r \in roots, NEW q, q.hash \in Nat,
         Seeks(node[r].type, q), NEW f, Searches(f, q), NEW v \in Values
  PROVE  \A n \in Nodes : Strict(lo, hi, n, q.hash) /\ home[n] = r /\ f[n] = v
                          => Has(home, hi, r, q.hash, v)
<1>1. Ranking(lev, home, H) /\ Typed(home)
  BY DEF Arranged, Ranking
<1> SUFFICES ASSUME ~Has(home, hi, r, q.hash, v)
             PROVE  \A n \in Nodes :
                      ~(Strict(lo, hi, n, q.hash) /\ home[n] = r /\ f[n] = v)
  OBVIOUS
<1> DEFINE S == {n \in Nodes : /\ Strict(lo, hi, n, q.hash) /\ home[n] = r
                               /\ f[n] = v}
<1>2. ASSUME NEW n \in S
      PROVE  \E s \in Live(n) : node[n].child[s] # 0 /\ node[n].child[s] \in S
  <2>1. n \in Nodes /\ Strict(lo, hi, n, q.hash) /\ home[n] = r /\ f[n] = v
    OBVIOUS
  <2>2. Seeks(node[n].type, q)
    BY <2>1, <1>1 DEF Typed
  <2>3. PICK ks, i : ks = node[n].keys /\ i = Position(ks, q)
    OBVIOUS
  <2>4. /\ i \in Live(n)
        /\ \A j \in 1 .. Len(ks) :
             ks[j].hash = q.hash <=> Found(ks, q) /\ j = i + 1
        /\ Found(ks, q) => i + 1 \in 1 .. Len(ks)
        /\ ~Found(ks, q) => LoOf(lo, n, i) < q.hash
                            /\ Below(q.hash, HiOf(hi, n, i))
    BY <2>1, <2>2, <2>3, SearchTurns
  <2>5. ~Found(ks, q)
    <3>1. SUFFICES ASSUME Found(ks, q)
                   PROVE  FALSE
      OBVIOUS
    <3>2. ks[i + 1].val = v
      BY <3>1, <2>1, <2>3 DEF Searches, Held
    <3>3. hi[n] # q.hash
      BY <2>1, <1>1 DEF Strict, Below, None
    <3>4. HeldAt(home, hi, r, q.hash, v, n, i + 1)
      BY <3>1, <3>2, <3>3, <2>1, <2>3, <2>4 DEF HeldAt
    <3> QED
      BY <3>4 DEF Has
  <2>6. PICK c : c = Child(n, q)
    OBVIOUS
  <2>7. c = node[n].child[i]
    BY <2>3, <2>6 DEF Child
  <2>8. c # 0 /\ f[c] = v
    BY <2>1, <2>3, <2>5, <2>6, ValuesAssumption DEF Searches
  <2>9. c \in Nodes /\ home[c] = r /\ lo[c] = LoOf(lo, n, i) /\ hi[c] = HiOf(hi, n, i)
    BY <2>1, <2>4, <2>7, <2>8, NodeBounds
  <2>10. Strict(lo, hi, c, q.hash)
    BY <2>4, <2>5, <2>9 DEF Strict
  <2>11. c \in S
    BY <2>8, <2>9, <2>10
  <2> QED
    BY <2>4, <2>7, <2>8, <2>11
<1>3. S = {}
  <2>1. S \in SUBSET Nodes
    OBVIOUS
  <2> HIDE DEF S
  <2> QED
    BY <2>1, <1>1, <1>2, NoFall
<1> QED
  BY <1>3

LEMMA ReadsHeld ==
  ASSUME HashInjective, Shapely, NEW lev, NEW home, NEW H, NEW lo, NEW hi,
         Arranged(lev, home, H, lo, hi)
  PROVE  Reads(home, hi)
<1>1. /\ Levels(lev) /\ Bounded(lev, H) /\ Trees(home) /\ Typed(home)
      /\ Order(lo, hi) /\ roots \subseteq Nodes
  BY DEF Arranged, Ranking, Shapely, Sound, TypeOK
<1> SUFFICES ASSUME NEW r \in roots, NEW q, Seeks(node[r].type, q), q.hash \in Nat
             PROVE  /\ Lookup(r, q) \in Results
                    /\ \A v \in Values :
                         Lookup(r, q) = v <=> Has(home, hi, r, q.hash, v)
  BY DEF Reads
<1>2. PICK f : Searches(f, q) /\ \A n : Lookup(n, q) = f[n]
  BY <1>1, LookupSearches
<1>3. r \in Nodes /\ home[r] = r /\ Strict(lo, hi, r, q.hash)
  BY <1>1 DEF Trees, Order, BoundsLinked, Strict, Below, None
<1>4. f[r] \in Results
  BY <1>2, <1>3 DEF Searches
<1>5. ASSUME NEW v \in Values, f[r] = v
      PROVE  Has(home, hi, r, q.hash, v)
  BY <1>2, <1>3, <1>5, FoundIsHeld
<1>6. ASSUME NEW v \in Values, Has(home, hi, r, q.hash, v)
      PROVE  f[r] = v
  <2>1. PICK n, j : HeldAt(home, hi, r, q.hash, v, n, j)
    BY <1>6 DEF Has
  <2>2. PICK ks : ks = node[n].keys
    OBVIOUS
  <2>3. /\ n \in Nodes /\ home[n] = r /\ hi[n] # q.hash /\ j \in 1 .. Len(ks)
        /\ ks[j].hash = q.hash /\ ks[j].val = v
    BY <2>1, <2>2 DEF HeldAt
  <2>4. Between(ks, lo[n], hi[n], IsLeaf(n))
    BY <2>2, <2>3, NodeBounds
  <2>5. Strict(lo, hi, n, q.hash)
    BY <2>3, <2>4 DEF Between, Strict
  <2>6. Seeks(node[n].type, q)
    BY <2>3, <1>1 DEF Typed
  <2>7. Found(ks, q) /\ j = Position(ks, q) + 1
    BY <2>2, <2>3, <2>5, <2>6, SearchTurns
  <2>8. f[n] = v
    BY <2>2, <2>3, <2>7, <1>2 DEF Searches, Held
  <2>9. f[n] = f[r]
    BY <2>3, <2>5, <1>2, FoundFromRoot
  <2> QED
    BY <2>8, <2>9
<1> QED
  BY <1>2, <1>4, <1>5, <1>6

\* The upper bound of a node is a key that searches find.
LEMMA BoundIsHeld ==
  ASSUME Shapely, NEW lev, NEW home, NEW H, NEW lo, NEW hi,
         Arranged(lev, home, H, lo, hi)
  PROVE  \A n \in Nodes : hi[n] # None =>
           \E v \in Values : Has(home, hi, home[n], hi[n], v)
<1>1. Ranking(lev, home, H) /\ Order(lo, hi) /\ Hung
  BY DEF Arranged
<1> DEFINE S == {n \in Nodes : /\ hi[n] # None
                               /\ \A v \in Values : ~Has(home, hi, home[n], hi[n], v)}
<1>2. S \in SUBSET (Nodes \ roots)
  BY <1>1 DEF Order, BoundsLinked
<1>3. ASSUME NEW n \in Nodes, NEW s \in Live(n), node[n].child[s] # 0,
             node[n].child[s] \in S
      PROVE  n \in S
  <2>1. PICK c : c = node[n].child[s]
    OBVIOUS
  <2>2. PICK t : t = hi[c]
    OBVIOUS
  <2>3. PICK ks : ks = node[n].keys
    OBVIOUS
  <2>4. t # None /\ \A v \in Values : ~Has(home, hi, home[c], t, v)
    BY <2>1, <2>2, <1>3
  <2>5. ~IsLeaf(n) /\ home[c] = home[n] /\ t = HiOf(hi, n, s)
    BY <2>1, <2>2, <1>3, NodeBounds
  <2>6. /\ s \in 0 .. Len(ks)
        /\ s < Len(ks) => t = ks[s + 1].hash /\ Below(t, hi[n]) /\ t \in Nat
        /\ s = Len(ks) => t = hi[n]
    BY <2>3, <2>5, BoundsWithin
  <2>7. Len(ks) \in Nat /\ \A j \in 1 .. Len(ks) : ks[j] \in Entry
    BY <2>3, NodeBounds
  <2>8. ~(s < Len(ks))
    <3>1. SUFFICES ASSUME s < Len(ks)
                   PROVE  FALSE
      OBVIOUS
    <3>2. s + 1 \in 1 .. Len(ks)
      BY <3>1, <2>6, <2>7
    <3>3. PICK v \in Values : v = ks[s + 1].val
      BY <3>2, <2>7 DEF Entry
    <3>4. hi[n] # t
      BY <3>1, <2>6 DEF Below, None
    <3>5. HeldAt(home, hi, home[n], t, v, n, s + 1)
      BY <3>1, <3>2, <3>3, <3>4, <2>3, <2>6 DEF HeldAt
    <3>6. Has(home, hi, home[n], t, v)
      BY <3>5 DEF Has
    <3> QED
      BY <3>3, <3>6, <2>4, <2>5
  <2>9. t = hi[n]
    BY <2>6, <2>7, <2>8
  <2> QED
    BY <2>4, <2>5, <2>9
<1>4. S = {}
  <2> HIDE DEF S
  <2> QED
    BY <1>1, <1>2, <1>3, NoClimb
<1> QED
  BY <1>4

-----------------------------------------------------------------------------
(***************************************************************************)
(* What each step leaves of what the trees hold                            *)
(***************************************************************************)

\* The step leaves what the tree at r holds under h.
Stays(home, hi, hm, h2, r, h) ==
  \A v : Has(home, hi, r, h, v) <=> Has(hm, h2, r, h, v)'

\* A node that keeps its keys, its tree and its upper bound.
LEMMA NodeStays ==
  ASSUME NEW home, NEW hi, NEW hm, NEW h2, NEW n \in Nodes, n \in Nodes',
         node'[n].keys = node[n].keys, hm[n] = home[n], h2[n] = hi[n]
  PROVE  \A r, h, v, j : HeldAt(home, hi, r, h, v, n, j)
                         <=> HeldAt(hm, h2, r, h, v, n, j)'
BY DEF HeldAt

LEMMA AllStay ==
  ASSUME Nodes' = Nodes, NEW home, NEW hi, NEW hm,
         \A n \in Nodes : node'[n].keys = node[n].keys /\ hm[n] = home[n]
  PROVE  \A r, h : Stays(home, hi, hm, hi, r, h)
<1> SUFFICES ASSUME NEW r, NEW h, NEW v
             PROVE  Has(home, hi, r, h, v) <=> Has(hm, hi, r, h, v)'
  BY DEF Stays
<1>1. \A n, j : HeldAt(home, hi, r, h, v, n, j)
                <=> HeldAt(hm, hi, r, h, v, n, j)'
  BY DEF HeldAt
<1> QED
  BY <1>1 DEF Has

LEMMA CreateHeld ==
  ASSUME Shapely, NEW type \in Types, InitStructure(type),
         NEW home, NEW hm, Trees(home), \A n \in Nodes : hm[n] = home[n],
         Trees(hm)', NEW hi, NEW h2, Extended(hi, used, None, h2)
  PROVE  /\ \A r \in roots : \A h : Stays(home, hi, hm, h2, r, h)
         /\ \A u : u = used => \A h, v : ~Has(hm, h2, u, h, v)'
<1>u. PICK u : u = used
  OBVIOUS
<1>1. /\ u \in Nat /\ Nodes' = Nodes \cup {u} /\ u \notin Nodes
      /\ roots' = roots \cup {u} /\ roots \subseteq Nodes
      /\ \A n \in Nodes : node'[n] = node[n]
      /\ Len(node'[u].keys) = 0
  <2>1. /\ u \in Nat /\ used' = u + 1 /\ roots \subseteq Nodes
        /\ roots' = roots \cup {u}
    BY SoundNodes, <1>u DEF InitStructure, Sound, TypeOK, Shapely
  <2>2. node' = [n \in 0 .. u |->
                  IF n = u THEN EmptyNode(1, type) ELSE node[n]]
    BY <1>u DEF InitStructure
  <2>3. Len(EmptyNode(1, type).keys) = 0
    BY EmptySeq DEF EmptyNode
  <2> QED
    BY <2>1, <2>2, <2>3, <1>u DEF Nodes
<1>2. \A r, h, v, n, j : HeldAt(hm, h2, r, h, v, n, j)' => n \in Nodes
  BY <1>1 DEF HeldAt
<1>3. \A n \in Nodes : h2[n] = hi[n]
  BY <1>1, <1>u DEF Extended
<1>4. \A r, h, v, n, j : n \in Nodes =>
        (HeldAt(home, hi, r, h, v, n, j) <=> HeldAt(hm, h2, r, h, v, n, j)')
  <2> TAKE r, h, v, n, j
  <2> HAVE n \in Nodes
  <2>1. n \in Nodes' /\ node'[n].keys = node[n].keys /\ h2[n] = hi[n]
    BY <1>1, <1>3
  <2> QED
    BY <2>1, NodeStays
<1>5. ASSUME NEW r \in roots, NEW h, NEW v
      PROVE  Has(home, hi, r, h, v) <=> Has(hm, h2, r, h, v)'
  <2>1. \A n, j : HeldAt(home, hi, r, h, v, n, j) => n \in Nodes
    BY DEF HeldAt
  <2> QED
    BY <2>1, <1>2, <1>4 DEF Has
<1>6. ASSUME NEW h, NEW v, Has(hm, h2, u, h, v)'
      PROVE  FALSE
  <2>1. PICK n, j : HeldAt(hm, h2, u, h, v, n, j)'
    BY <1>6 DEF Has
  <2>2. n \in Nodes /\ hm[n] = u
    BY <2>1, <1>2 DEF HeldAt
  <2>3. home[n] \in Nodes
    BY <2>2, <1>1 DEF Trees
  <2> QED
    BY <2>2, <2>3, <1>1
<1> QED
  BY <1>5, <1>6, <1>u DEF Stays

LEMMA SplitRootHeld ==
  ASSUME Shapely, SplitRoot, NEW home, NEW hm, Trees(home),
         \A n \in Nodes : hm[n] = home[n], Trees(hm)',
         NEW lo, NEW hi, Order(lo, hi), NEW h2, Extended(hi, used, None, h2)
  PROVE  \A q, h : Stays(home, hi, hm, h2, q, h)
<1>u. PICK u, r : u = used /\ r = node_ofs
  OBVIOUS
<1>1. Sound /\ pc = "loop" /\ parent_ofs = NoParent
  BY DEF Shapely, SplitRoot
<1>2. /\ used' = u + 1 /\ roots' = roots /\ r \in roots
      /\ node'[u] = Bumped(r)
      /\ Len(node'[r].keys) = 0
      /\ node'[r].child = [s \in Slots |-> IF s = 0 THEN u ELSE 0]
      /\ \A n \in Nodes \ {r} : node'[n] = node[n]
  BY <1>1, <1>u, SplitRootNodes
<1>3. /\ u \in Nat \ {0} /\ roots \subseteq Nodes /\ u \notin Nodes
      /\ Nodes' = Nodes \cup {u} /\ r \in Nodes /\ 0 \in Slots
      /\ node'[u].keys = node[r].keys
  BY <1>1, <1>2, <1>u, TurnFacts, MaxKeysAssumption DEF Sound, TypeOK, Nodes, Slots
<1>4. /\ \A n \in Nodes : h2[n] = hi[n]
      /\ h2[u] = None /\ hi[r] = None
  BY <1>2, <1>3, <1>u DEF Extended, Order, BoundsLinked
<1>5. hm[u] = r /\ home[r] = r
  <2>1. 0 \in Live(r)' /\ node'[r].child[0] = u
    BY <1>2, <1>3 DEF Live
  <2>2. hm[u] = hm[r]
    BY <2>1, <1>2, <1>3 DEF Trees
  <2> QED
    BY <2>2, <1>2, <1>3 DEF Trees
<1> SUFFICES ASSUME NEW q, NEW h, NEW v
             PROVE  Has(home, hi, q, h, v) <=> Has(hm, h2, q, h, v)'
  BY DEF Stays
<1>6. \A n, j : n \in Nodes \ {r} =>
        (HeldAt(home, hi, q, h, v, n, j) <=> HeldAt(hm, h2, q, h, v, n, j)')
  <2> TAKE n, j
  <2> HAVE n \in Nodes \ {r}
  <2>1. n \in Nodes /\ n \in Nodes' /\ node'[n].keys = node[n].keys /\ h2[n] = hi[n]
    BY <1>2, <1>3, <1>4
  <2> QED
    BY <2>1, NodeStays
<1>7. \A j : HeldAt(home, hi, q, h, v, r, j) <=> HeldAt(hm, h2, q, h, v, u, j)'
  BY <1>3, <1>4, <1>5 DEF HeldAt
<1>8. \A j : ~HeldAt(hm, h2, q, h, v, r, j)'
  BY <1>2 DEF HeldAt
<1>9. /\ \A n, j : HeldAt(home, hi, q, h, v, n, j) => n \in Nodes
      /\ \A n, j : HeldAt(hm, h2, q, h, v, n, j)' => n \in Nodes \cup {u}
  BY <1>3 DEF HeldAt
<1> QED
  BY <1>6, <1>7, <1>8, <1>9 DEF Has

LEMMA SplitChildHeld ==
  ASSUME Shapely, SplitChild, NEW home, NEW hm, Trees(home),
         \A n \in Nodes : hm[n] = home[n], Trees(hm)',
         NEW lo, NEW hi, Order(lo, hi), NEW h2,
         h2 = [n \in Nodes' |->
                 CASE n = used -> hi[node_ofs]
                   [] n = node_ofs -> node[node_ofs].keys[Mid + 1].hash
                   [] OTHER -> hi[n]]
  PROVE  \A q, h : Stays(home, hi, hm, h2, q, h)
<1>u. PICK u, w, p, m, old : /\ u = used /\ w = node_ofs /\ p = parent_ofs
                             /\ old = node[w].keys /\ m = old[Mid + 1].hash
  OBVIOUS
<1>1. Sound /\ pc = "loop" /\ w \in Nodes
  BY <1>u, TurnFacts DEF Shapely, SplitChild
<1>2. /\ used' = u + 1 /\ roots' = roots /\ p \in Nodes /\ p # w /\ w # 0
      /\ Len(old) = MaxKeys
      /\ Len(node'[u].keys) = Mid /\ Len(node'[w].keys) = Mid
      /\ Len(node[p].keys) \in Nat
      /\ Len(node'[p].keys) = Len(node[p].keys) + 1
      /\ \A n \in Nodes \ {w, p} : node'[n] = node[n]
  BY <1>1, <1>u, SplitChildNodes
<1>3. /\ u \in Nat \ {0} /\ u \notin Nodes /\ Nodes' = Nodes \cup {u}
      /\ Mid \in Nat /\ Mid >= 1 /\ MaxKeys = 2 * Mid + 1
  BY <1>1, <1>2, <1>u, TurnFacts, MidInside, SMTT(30) DEF Nodes
<1>4. PICK i : SplitAt(p, w, u, i)
  BY <1>1, <1>u, SplitChildKeys
<1>5. /\ i \in 0 .. Len(node[p].keys)
      /\ node[p].child[i] = w
      /\ \A j \in 1 .. i : node'[p].keys[j] = node[p].keys[j]
      /\ node'[p].keys[i + 1] = old[Mid + 1]
      /\ \A j \in i + 1 .. Len(node[p].keys) : node'[p].keys[j + 1] = node[p].keys[j]
      /\ \A j \in 1 .. Mid : /\ node'[w].keys[j] = old[j]
                             /\ node'[u].keys[j] = old[Mid + 1 + j]
  BY <1>4, <1>u DEF SplitAt
<1>6. /\ h2[u] = hi[w] /\ h2[w] = m
      /\ \A n \in Nodes \ {w} : h2[n] = hi[n]
  BY <1>1, <1>3, <1>u
<1>7. i \in Live(p) /\ ~IsLeaf(p)
  BY <1>2, <1>5, LinkEnds DEF Live
<1>8. home[w] = home[p] /\ hm[w] = home[w] /\ hm[p] = home[w]
  BY <1>1, <1>2, <1>5, <1>7 DEF Trees
<1>9. hm[u] = home[w]
  <2>1. i + 1 \in Live(p)' /\ i + 1 \in Slots
    <3>1. WellFormed(node'[p], u + 1)
      BY <1>1, <1>u, SplitChildNodes
    <3> QED
      BY <3>1, <1>2, <1>5, MaxKeysAssumption DEF WellFormed, Live, Slots
  <2>2. node'[p].child[i + 1] = u
    BY <2>1, <1>4 DEF SplitAt
  <2>3. hm[u] = hm[p]
    BY <2>1, <2>2, <1>2, <1>3 DEF Trees
  <2> QED
    BY <2>3, <1>8
<1>10. \A j \in 1 .. MaxKeys : old[j].hash \in Nat
  <2>1. old \in Seq(Entry)
    BY <1>1, <1>u, SoundNodes DEF WellFormed, Node
  <2>2. \A j \in 1 .. MaxKeys : old[j] \in Entry
    BY <2>1, <1>2, ElementOfSeq
  <2> QED
    BY <2>2 DEF Entry
<1>11. /\ Rising(old) /\ Between(old, lo[w], hi[w], IsLeaf(w))
       /\ hi[w] \in Nat \cup {None} /\ hi[p] \in Nat \cup {None}
  BY <1>1, <1>2, <1>u DEF Order, InBounds, BoundsLinked
<1>12. hi[w] = HiOf(hi, p, i)
  BY <1>1, <1>2, <1>5, <1>7 DEF Order, BoundsLinked
\* Below the median and at it there is no upper bound of w.
<1>13. \A j \in 1 .. Mid + 1 : hi[w] # old[j].hash
  <2> TAKE j \in 1 .. Mid + 1
  <2>1. j \in 1 .. MaxKeys /\ MaxKeys \in 1 .. MaxKeys /\ j < MaxKeys
    BY <1>3
  <2>2. old[j].hash < old[MaxKeys].hash
    BY <2>1, <1>2, <1>11 DEF Rising
  <2>3. Below(old[MaxKeys].hash, hi[w]) \/ old[MaxKeys].hash = hi[w]
    BY <2>1, <1>2, <1>11 DEF Between
  <2> QED
    BY <2>1, <2>2, <2>3, <1>10, <1>11 DEF Below, None
<1>14. \A j \in 1 .. Mid : old[j].hash # m
  <2> TAKE j \in 1 .. Mid
  <2>1. j \in 1 .. MaxKeys /\ Mid + 1 \in 1 .. MaxKeys /\ j < Mid + 1
    BY <1>3
  <2>2. old[j].hash < old[Mid + 1].hash
    BY <2>1, <1>2, <1>11 DEF Rising
  <2> QED
    BY <2>1, <2>2, <1>10, <1>u
<1>15. hi[p] # m
  <2>1. m \in Nat /\ Mid + 1 \in 1 .. MaxKeys /\ lo[w] < m
    BY <1>2, <1>3, <1>10, <1>11, <1>u, SMTT(30) DEF Between
  <2>2. Below(m, hi[w])
    <3>1. Mid + 1 < MaxKeys /\ MaxKeys \in 1 .. MaxKeys
      BY <1>3
    <3>2. m < old[MaxKeys].hash
      BY <2>1, <3>1, <1>2, <1>11, <1>u DEF Rising
    <3>3. Below(old[MaxKeys].hash, hi[w]) \/ old[MaxKeys].hash = hi[w]
      BY <3>1, <1>2, <1>11 DEF Between
    <3> QED
      BY <2>1, <3>1, <3>2, <3>3, <1>10, <1>11 DEF Below, None
  <2>3. CASE i = Len(node[p].keys)
    <3>1. hi[w] = hi[p]
      BY <2>3, <1>12 DEF HiOf
    <3> QED
      BY <3>1, <2>1, <2>2 DEF Below, None
  <2>4. CASE i # Len(node[p].keys)
    <3>1. i + 1 \in 1 .. Len(node[p].keys)
      BY <2>4, <1>2, <1>5
    <3>2. hi[w] = node[p].keys[i + 1].hash
      BY <2>4, <1>12 DEF HiOf
    <3>3. \A j \in 1 .. Len(node[p].keys) : Below(node[p].keys[j].hash, hi[p])
      BY <1>2, <1>7 DEF Order, InBounds, Between
    <3>4. Below(hi[w], hi[p])
      BY <3>1, <3>2, <3>3
    <3>5. hi[w] \in Nat
      <4>1. node[p].keys \in Seq(Entry)
        BY <1>1, <1>2, SoundNodes DEF WellFormed, Node
      <4>2. node[p].keys[i + 1] \in Entry
        BY <3>1, <4>1, ElementOfSeq
      <4> QED
        BY <3>2, <4>2 DEF Entry
    <3> QED
      BY <3>4, <3>5, <2>1, <2>2, <1>11 DEF Below, None
  <2> QED
    BY <2>3, <2>4
<1> SUFFICES ASSUME NEW q, NEW h, NEW v
             PROVE  Has(home, hi, q, h, v) <=> Has(hm, h2, q, h, v)'
  BY DEF Stays
<1>16. ASSUME NEW n, NEW j, HeldAt(home, hi, q, h, v, n, j)
       PROVE  Has(hm, h2, q, h, v)'
  <2>1. CASE n \notin {w, p}
    <3>1. n \in Nodes /\ n \in Nodes' /\ node'[n].keys = node[n].keys /\ h2[n] = hi[n]
      BY <2>1, <1>16, <1>2, <1>3, <1>6 DEF HeldAt
    <3>2. HeldAt(hm, h2, q, h, v, n, j)'
      BY <3>1, <1>16, NodeStays
    <3> QED
      BY <3>2 DEF Has
  <2>2. CASE n = p
    <3>1. /\ home[p] = q /\ hi[p] # h /\ j \in 1 .. Len(node[p].keys)
          /\ node[p].keys[j].hash = h /\ node[p].keys[j].val = v
      BY <2>2, <1>16 DEF HeldAt
    <3>2. PICK k : k = IF j <= i THEN j ELSE j + 1
      OBVIOUS
    <3>3. k \in 1 .. Len(node'[p].keys) /\ node'[p].keys[k] = node[p].keys[j]
      <4>0. /\ i \in Nat /\ Len(node[p].keys) \in Nat
            /\ Len(node'[p].keys) = Len(node[p].keys) + 1
        BY <1>2, <1>5
      <4>1. CASE j <= i
        <5>1. j \in 1 .. i /\ k = j
          BY <4>0, <4>1, <3>1, <3>2
        <5> QED
          BY <4>0, <5>1, <3>1, <1>5
      <4>2. CASE ~(j <= i)
        <5>1. j \in i + 1 .. Len(node[p].keys) /\ k = j + 1
          BY <4>0, <4>2, <3>1, <3>2
        <5> QED
          BY <4>0, <5>1, <3>1, <1>5, SMTT(30)
      <4> QED
        BY <4>1, <4>2
    <3>4. HeldAt(hm, h2, q, h, v, p, k)'
      BY <3>1, <3>3, <1>2, <1>3, <1>6, <1>8 DEF HeldAt
    <3> QED
      BY <3>4 DEF Has
  <2>3. CASE n = w
    <3>1. /\ home[w] = q /\ hi[w] # h /\ j \in 1 .. MaxKeys
          /\ old[j].hash = h /\ old[j].val = v
      BY <2>3, <1>16, <1>2, <1>u DEF HeldAt
    <3>2. CASE j \in 1 .. Mid
      <4>1. node'[w].keys[j] = old[j] /\ h # m
        BY <3>1, <3>2, <1>5, <1>14
      <4>2. HeldAt(hm, h2, q, h, v, w, j)'
        BY <3>1, <3>2, <4>1, <1>1, <1>2, <1>3, <1>6, <1>8 DEF HeldAt
      <4> QED
        BY <4>2 DEF Has
    <3>3. CASE j = Mid + 1
      <4>1. node'[p].keys[i + 1] = old[j] /\ h = m
        BY <3>1, <3>3, <1>5, <1>u
      <4>2. i + 1 \in 1 .. Len(node'[p].keys) /\ h2[p] # h
        <5>1. p \in Nodes \ {w}
          BY <1>2
        <5>2. h2[p] = hi[p]
          BY <5>1, <1>6
        <5> QED
          BY <5>2, <4>1, <1>2, <1>5, <1>15, SMTT(30)
      <4>3. HeldAt(hm, h2, q, h, v, p, i + 1)'
        BY <3>1, <4>1, <4>2, <1>2, <1>3, <1>8 DEF HeldAt
      <4> QED
        BY <4>3 DEF Has
    <3>4. CASE j > Mid + 1
      <4>1. PICK k : k = j - (Mid + 1)
        OBVIOUS
      <4>2. k \in 1 .. Mid /\ Mid + 1 + k = j
        BY <3>1, <3>4, <4>1, <1>3
      <4>3. node'[u].keys[k] = old[j]
        BY <4>2, <1>5
      <4>4. HeldAt(hm, h2, q, h, v, u, k)'
        BY <3>1, <4>2, <4>3, <1>2, <1>3, <1>6, <1>9 DEF HeldAt
      <4> QED
        BY <4>4 DEF Has
    <3> QED
      BY <3>1, <3>2, <3>3, <3>4, <1>3
  <2> QED
    BY <2>1, <2>2, <2>3
<1>17. ASSUME NEW n, NEW j, HeldAt(hm, h2, q, h, v, n, j)'
       PROVE  Has(home, hi, q, h, v)
  <2>0. n \in Nodes \cup {u}
    BY <1>17, <1>3 DEF HeldAt
  <2>1. CASE n \in Nodes \ {w, p}
    <3>1. n \in Nodes /\ n \in Nodes' /\ node'[n].keys = node[n].keys /\ h2[n] = hi[n]
      BY <2>1, <1>2, <1>3, <1>6
    <3>2. HeldAt(home, hi, q, h, v, n, j)
      BY <3>1, <1>17, NodeStays
    <3> QED
      BY <3>2 DEF Has
  <2>2. CASE n = p
    <3>1. /\ home[p] = q /\ hi[p] # h /\ j \in 1 .. Len(node[p].keys) + 1
          /\ node'[p].keys[j].hash = h /\ node'[p].keys[j].val = v
      BY <2>2, <1>17, <1>2, <1>6, <1>8 DEF HeldAt
    <3>2. CASE j = i + 1
      <4>1. old[Mid + 1].hash = h /\ old[Mid + 1].val = v
        BY <3>1, <3>2, <1>5
      <4>2. Mid + 1 \in 1 .. MaxKeys /\ hi[w] # h
        BY <4>1, <1>3, <1>13
      <4>3. HeldAt(home, hi, q, h, v, w, Mid + 1)
        BY <3>1, <4>1, <4>2, <1>1, <1>2, <1>8, <1>u DEF HeldAt
      <4> QED
        BY <4>3 DEF Has
    <3>3. CASE j # i + 1
      <4>1. PICK k : k = IF j <= i THEN j ELSE j - 1
        OBVIOUS
      <4>2. /\ k \in 1 .. Len(node[p].keys)
            /\ (k \in 1 .. i /\ k = j) \/ (k \in i + 1 .. Len(node[p].keys) /\ k + 1 = j)
        BY <3>1, <3>3, <4>1, <1>2, <1>5, SMTT(30)
      <4>3. node'[p].keys[j] = node[p].keys[k]
        BY <4>2, <1>5
      <4>4. HeldAt(home, hi, q, h, v, p, k)
        BY <3>1, <4>2, <4>3, <1>2 DEF HeldAt
      <4> QED
        BY <4>4 DEF Has
    <3> QED
      BY <3>2, <3>3
  <2>3. CASE n = w
    <3>1. /\ home[w] = q /\ j \in 1 .. Mid
          /\ node'[w].keys[j].hash = h /\ node'[w].keys[j].val = v
      BY <2>3, <1>17, <1>2, <1>8 DEF HeldAt
    <3>2. old[j].hash = h /\ old[j].val = v
      BY <3>1, <1>5
    <3>3. hi[w] # h /\ j \in 1 .. MaxKeys
      BY <3>1, <3>2, <1>3, <1>13
    <3>4. HeldAt(home, hi, q, h, v, w, j)
      BY <3>1, <3>2, <3>3, <1>1, <1>2, <1>u DEF HeldAt
    <3> QED
      BY <3>4 DEF Has
  <2>4. CASE n = u
    <3>1. /\ home[w] = q /\ hi[w] # h /\ j \in 1 .. Mid
          /\ node'[u].keys[j].hash = h /\ node'[u].keys[j].val = v
      BY <2>4, <1>17, <1>2, <1>6, <1>9 DEF HeldAt
    <3>2. old[Mid + 1 + j].hash = h /\ old[Mid + 1 + j].val = v
      BY <3>1, <1>5
    <3>3. Mid + 1 + j \in 1 .. MaxKeys
      BY <3>1, <1>3
    <3>4. HeldAt(home, hi, q, h, v, w, Mid + 1 + j)
      BY <3>1, <3>2, <3>3, <1>1, <1>2, <1>u DEF HeldAt
    <3> QED
      BY <3>4 DEF Has
  <2> QED
    BY <2>0, <2>1, <2>2, <2>3, <2>4
<1> QED
  BY <1>16, <1>17 DEF Has

\* Two sequences of entries agree on all hashes but g.
SameBut(old, ks, g) ==
  \A h, v : h # g =>
    ((\E j \in 1 .. Len(old) : old[j].hash = h /\ old[j].val = v)
     <=> (\E j \in 1 .. Len(ks) : ks[j].hash = h /\ ks[j].val = v))

\* A call that returns stores its value under its hash, or in a second entry
\* that no search finds; whatever else the trees hold stays.
Stored(home, hi, hm) ==
  /\ \A q, h : ~(q = req.ofs /\ h = req.hash) => Stays(home, hi, hm, hi, q, h)
  /\ IF hi[node_ofs] = req.hash THEN \A q, h : Stays(home, hi, hm, hi, q, h)
     ELSE \A q, h, v : q = req.ofs /\ h = req.hash /\ v = req.val
                       => Has(hm, hi, q, h, v)'

LEMMA WroteHeld ==
  ASSUME Shapely, pc = "loop", NEW ks, Wrote(ks),
         SameBut(node[node_ofs].keys, ks, req.hash),
         NEW k \in 1 .. Len(ks), ks[k].hash = req.hash, ks[k].val = req.val,
         NEW home, NEW hi, NEW hm, \A n \in Nodes : hm[n] = home[n],
         home[node_ofs] = req.ofs
  PROVE  Stored(home, hi, hm)
<1>u. PICK w, g, o, old : /\ w = node_ofs /\ g = req.hash /\ o = req.ofs
                          /\ old = node[w].keys
  OBVIOUS
<1>1. /\ w \in Nodes /\ Nodes' = Nodes /\ node'[w].keys = ks
      /\ \A n \in Nodes \ {w} : node'[n].keys = node[n].keys
      /\ home[w] = o /\ hm[w] = o
  BY <1>u, TurnFacts DEF Shapely, Wrote, Nodes
<1>2. \A h, v : h # g =>
        ((\E j \in 1 .. Len(old) : old[j].hash = h /\ old[j].val = v)
         <=> (\E j \in 1 .. Len(ks) : ks[j].hash = h /\ ks[j].val = v))
  BY <1>u DEF SameBut
<1>3. ASSUME NEW q, NEW h, NEW v, ~(q = o /\ h = g) \/ hi[w] = g
      PROVE  Has(home, hi, q, h, v) <=> Has(hm, hi, q, h, v)'
  <2>1. \A n, j : n \in Nodes \ {w} =>
          (HeldAt(home, hi, q, h, v, n, j) <=> HeldAt(hm, hi, q, h, v, n, j)')
    BY <1>1 DEF HeldAt
  <2>2. \A n, j : HeldAt(home, hi, q, h, v, n, j)
                  \/ HeldAt(hm, hi, q, h, v, n, j)' => n \in Nodes
    BY <1>1 DEF HeldAt
  <2>3. (\E j : HeldAt(home, hi, q, h, v, w, j))
        <=> (\E j : HeldAt(hm, hi, q, h, v, w, j)')
    <3>1. \A j : HeldAt(home, hi, q, h, v, w, j)
                 <=> /\ o = q /\ hi[w] # h
                     /\ j \in 1 .. Len(old) /\ old[j].hash = h /\ old[j].val = v
      BY <1>1, <1>u DEF HeldAt
    <3>2. \A j : HeldAt(hm, hi, q, h, v, w, j)'
                 <=> /\ o = q /\ hi[w] # h
                     /\ j \in 1 .. Len(ks) /\ ks[j].hash = h /\ ks[j].val = v
      BY <1>1 DEF HeldAt
    <3>3. o = q /\ hi[w] # h => h # g
      BY <1>3
    <3>4. CASE o = q /\ hi[w] # h
      <4>1. (\E j \in 1 .. Len(old) : old[j].hash = h /\ old[j].val = v)
            <=> (\E j \in 1 .. Len(ks) : ks[j].hash = h /\ ks[j].val = v)
        BY <3>3, <3>4, <1>2, Zenon
      <4> DEFINE A(j) == j \in 1 .. Len(old) /\ old[j].hash = h /\ old[j].val = v
                 B(j) == j \in 1 .. Len(ks) /\ ks[j].hash = h /\ ks[j].val = v
      <4>2. (\E j : A(j)) <=> (\E j : B(j))
        BY <4>1
      <4>3. /\ \A j : HeldAt(home, hi, q, h, v, w, j) <=> A(j)
            /\ \A j : HeldAt(hm, hi, q, h, v, w, j)' <=> B(j)
        BY <3>1, <3>2, <3>4
      <4> HIDE DEF A, B
      <4> QED
        BY <4>2, <4>3
    <3>5. CASE ~(o = q /\ hi[w] # h)
      BY <3>1, <3>2, <3>5
    <3> QED
      BY <3>4, <3>5
  <2> QED
    BY <2>1, <2>2, <2>3 DEF Has
<1>4. ASSUME hi[w] # g, NEW v, v = req.val
      PROVE  Has(hm, hi, o, g, v)'
  <2>1. HeldAt(hm, hi, o, g, v, w, k)'
    BY <1>1, <1>4, <1>u DEF HeldAt
  <2> QED
    BY <2>1 DEF Has
<1>5. \A q, h : ~(q = o /\ h = g) => Stays(home, hi, hm, hi, q, h)
  BY <1>3 DEF Stays
<1>6. CASE hi[w] = g
  <2>1. \A q, h : Stays(home, hi, hm, hi, q, h)
    BY <1>3, <1>6 DEF Stays
  <2> QED
    BY <2>1, <1>6, <1>u DEF Stored
<1>7. CASE hi[w] # g
  <2>1. \A q, h, v : q = o /\ h = g /\ v = req.val => Has(hm, hi, q, h, v)'
    BY <1>4, <1>7
  <2> QED
    BY <2>1, <1>5, <1>7, <1>u DEF Stored
<1> QED
  BY <1>6, <1>7

LEMMA OverwriteHeld ==
  ASSUME HashInjective, Shapely, Overwrite, NEW lev, NEW home, NEW H,
         NEW lo, NEW hi, Arranged(lev, home, H, lo, hi), NEW hm,
         \A n \in Nodes : hm[n] = home[n]
  PROVE  Stored(home, hi, hm)
<1>u. PICK w, i, old, g : /\ w = node_ofs /\ old = node[w].keys
                          /\ i = Position(old, req) /\ g = req.hash
  OBVIOUS
<1>1. /\ Sound /\ pc = "loop" /\ w \in Nodes /\ Found(old, req)
      /\ Typed(home) /\ Trees(home) /\ WalkRank(lev, home) /\ Order(lo, hi)
  BY <1>u, TurnFacts DEF Shapely, Overwrite, Arranged, Ranking
<1>2. i + 1 \in 1 .. Len(old)
  BY <1>1, <1>u, OverwriteKeys
<1>3. PICK ks \in Seq(Entry) :
        /\ Wrote(ks) /\ Len(ks) = Len(old)
        /\ ks[i + 1] = [old[i + 1] EXCEPT !.val = req.val]
        /\ \A j \in 1 .. Len(ks) : j # i + 1 => ks[j] = old[j]
  BY <1>1, <1>u, OverwriteKeys
<1>4. old[i + 1].hash = g /\ \A j \in 1 .. Len(old) : old[j] \in Entry
  BY <1>1, <1>u, WalkNode
<1>5. ks[i + 1].hash = g /\ ks[i + 1].val = req.val
  <2>1. PICK e : e = old[i + 1]
    OBVIOUS
  <2>2. e \in Entry
    BY <2>1, <1>2, <1>4
  <2> QED
    BY <2>1, <2>2, <1>3, <1>4 DEF Entry
<1>6. SameBut(old, ks, g)
  <2>1. \A j \in 1 .. Len(old) : \A h, v : h # g =>
          (old[j].hash = h /\ old[j].val = v <=> ks[j].hash = h /\ ks[j].val = v)
    BY <1>3, <1>4, <1>5
  <2>2. ASSUME NEW h, NEW v, h # g
        PROVE  (\E j \in 1 .. Len(old) : old[j].hash = h /\ old[j].val = v)
               <=> (\E j \in 1 .. Len(ks) : ks[j].hash = h /\ ks[j].val = v)
    <3>1. ASSUME NEW j \in 1 .. Len(old), old[j].hash = h, old[j].val = v
          PROVE  \E k \in 1 .. Len(ks) : ks[k].hash = h /\ ks[k].val = v
      <4>1. j \in 1 .. Len(ks) /\ ks[j].hash = h /\ ks[j].val = v
        BY <3>1, <2>1, <2>2, <1>3, ZenonT(60)
      <4> QED
        BY <4>1
    <3>2. ASSUME NEW j \in 1 .. Len(ks), ks[j].hash = h, ks[j].val = v
          PROVE  \E k \in 1 .. Len(old) : old[k].hash = h /\ old[k].val = v
      <4>1. j \in 1 .. Len(old) /\ old[j].hash = h /\ old[j].val = v
        <5>1. j \in 1 .. Len(old)
          BY <3>2, <1>3
        <5> QED
          BY <3>2, <5>1, <2>1, <2>2, Zenon
      <4> QED
        BY <4>1
    <3> QED
      BY <3>1, <3>2
  <2> QED
    BY <2>2, Zenon DEF SameBut
<1>7. home[w] = req.ofs
  BY <1>1, <1>u DEF WalkRank
<1> QED
  BY <1>1, <1>2, <1>3, <1>5, <1>6, <1>7, <1>u, WroteHeld

LEMMA InsertLeafHeld ==
  ASSUME HashInjective, Shapely, InsertLeaf, NEW lev, NEW home, NEW H,
         NEW lo, NEW hi, Arranged(lev, home, H, lo, hi), NEW hm,
         \A n \in Nodes : hm[n] = home[n]
  PROVE  Stored(home, hi, hm)
<1>u. PICK w, i, old, g : /\ w = node_ofs /\ old = node[w].keys
                          /\ i = Position(old, req) /\ g = req.hash
  OBVIOUS
<1>1. /\ Sound /\ pc = "loop" /\ w \in Nodes
      /\ Typed(home) /\ Trees(home) /\ WalkRank(lev, home) /\ Order(lo, hi)
  BY <1>u, TurnFacts DEF Shapely, InsertLeaf, Arranged, Ranking
<1>2. i \in 0 .. Len(old) /\ Len(old) \in Nat
  BY <1>1, <1>u, InsertLeafKeys, WalkNode
<1>3. PICK ks \in Seq(Entry) :
        /\ Wrote(ks) /\ Len(ks) = Len(old) + 1
        /\ \A j \in 1 .. i : ks[j] = old[j]
        /\ ks[i + 1] = [hash |-> req.hash, key |-> req.key, val |-> req.val]
        /\ \A j \in i + 1 .. Len(old) : ks[j + 1] = old[j]
  BY <1>1, <1>u, InsertLeafKeys
<1>4. ks[i + 1].hash = g /\ ks[i + 1].val = req.val /\ i + 1 \in 1 .. Len(ks)
  BY <1>2, <1>3, <1>u
<1>5. SameBut(old, ks, g)
  <2>1. ASSUME NEW h, NEW v, h # g
        PROVE  (\E j \in 1 .. Len(old) : old[j].hash = h /\ old[j].val = v)
               <=> (\E j \in 1 .. Len(ks) : ks[j].hash = h /\ ks[j].val = v)
    <3>1. ASSUME NEW j \in 1 .. Len(old), old[j].hash = h, old[j].val = v
          PROVE  \E k \in 1 .. Len(ks) : ks[k].hash = h /\ ks[k].val = v
      <4>1. PICK k : k = IF j <= i THEN j ELSE j + 1
        OBVIOUS
      <4>2. k \in 1 .. Len(ks) /\ ks[k] = old[j]
        BY <4>1, <1>2, <1>3
      <4> QED
        BY <4>2, <3>1
    <3>2. ASSUME NEW k \in 1 .. Len(ks), ks[k].hash = h, ks[k].val = v
          PROVE  \E j \in 1 .. Len(old) : old[j].hash = h /\ old[j].val = v
      <4>1. k # i + 1
        BY <2>1, <3>2, <1>4
      <4>2. PICK j : j = IF k <= i THEN k ELSE k - 1
        OBVIOUS
      <4>3. /\ j \in 1 .. Len(old)
            /\ (j \in 1 .. i /\ k = j) \/ (j \in i + 1 .. Len(old) /\ k = j + 1)
        BY <4>1, <4>2, <1>2, <1>3
      <4>4. ks[k] = old[j]
        BY <4>3, <1>3
      <4> QED
        BY <4>3, <4>4, <3>2
    <3> QED
      BY <3>1, <3>2
  <2> QED
    BY <2>1, Zenon DEF SameBut
<1>6. home[w] = req.ofs
  BY <1>1, <1>u DEF WalkRank
<1> QED
  BY <1>1, <1>3, <1>4, <1>5, <1>6, <1>u, WroteHeld

-----------------------------------------------------------------------------
(***************************************************************************)
(* Arrays hold no index twice                                              *)
(***************************************************************************)

\* Only a node's upper bound could be an index that stands in the tree twice.
Distinct(hi) ==
  \A n \in Nodes : node[n].type = "Array" =>
    \A j \in 1 .. Len(node[n].keys) : node[n].keys[j].hash # hi[n]
Fresh(hi) ==
  pc = "loop" /\ node[node_ofs].type = "Array" => hi[node_ofs] # req.hash

LEMMA DistinctStays ==
  ASSUME Nodes' = Nodes, NEW hi, Distinct(hi),
         \A n \in Nodes : /\ node'[n].keys = node[n].keys
                          /\ node'[n].type = node[n].type
  PROVE  Distinct(hi)'
BY DEF Distinct

LEMMA CreateDistinct ==
  ASSUME Shapely, NEW type \in Types, InitStructure(type), NEW hi, NEW h2,
         Extended(hi, used, None, h2), Distinct(hi)
  PROVE  Distinct(h2)'
<1>1. PICK u : u = used
  OBVIOUS
<1>2. /\ u \in Nat /\ Nodes' = Nodes \cup {u} /\ u \notin Nodes
      /\ node'[u].keys = <<>>
      /\ \A n \in Nodes : node'[n] = node[n] /\ h2[n] = hi[n]
  <2>1. /\ u \in Nat /\ used' = u + 1
        /\ node' = [n \in 0 .. u |-> IF n = u THEN EmptyNode(1, type) ELSE node[n]]
    BY <1>1, SoundNodes DEF InitStructure, Shapely
  <2>2. Nodes' = Nodes \cup {u} /\ u \notin Nodes /\ Nodes \subseteq 0 .. u
        /\ u \in 0 .. u
    BY <2>1, <1>1 DEF Nodes
  <2>3. \A n \in Nodes : node'[n] = node[n] /\ h2[n] = hi[n]
    BY <2>1, <2>2, <1>1 DEF Extended
  <2>4. node'[u].keys = <<>>
    BY <2>1, <2>2 DEF EmptyNode
  <2> QED
    BY <2>1, <2>2, <2>3, <2>4
<1>3. Len(node'[u].keys) = 0
  BY <1>2
<1> QED
  BY <1>2, <1>3 DEF Distinct

LEMMA SplitRootDistinct ==
  ASSUME Shapely, Shapely', SplitRoot, NEW hi, NEW h2,
         Extended(hi, used, None, h2), Distinct(hi)
  PROVE  Distinct(h2)'
<1>1. PICK u, w : u = used /\ w = node_ofs
  OBVIOUS
<1>2. /\ u \in Nat /\ Nodes' = Nodes \cup {u} /\ u \notin Nodes
      /\ Len(node'[w].keys) = 0 /\ w \in Nodes
      /\ \A n \in Nodes \ {w} : node'[n] = node[n]
      /\ \A n \in Nodes : h2[n] = hi[n]
      /\ h2[u] = None
  <2>1. /\ u \in Nat /\ used' = u + 1 /\ pc = "loop"
    BY <1>1, SoundNodes DEF SplitRoot, Shapely
  <2>2. Nodes' = Nodes \cup {u} /\ u \notin Nodes
    BY <2>1, <1>1 DEF Nodes
  <2>3. /\ Len(node'[w].keys) = 0 /\ w \in Nodes
        /\ \A n \in Nodes \ {w} : node'[n] = node[n]
    BY <2>1, <1>1, SplitRootNodes, TurnFacts DEF Shapely
  <2> QED
    BY <2>1, <2>2, <2>3, <1>1 DEF Extended
<1>3. \A j \in 1 .. Len(node'[u].keys) : node'[u].keys[j].hash # None
  <2>1. node'[u].keys \in Seq(Entry)
    <3>1. Sound' /\ u \in Nodes'
      BY <1>2 DEF Shapely
    <3>2. node'[u] \in Node
      BY <3>1 DEF Sound, TypeOK
    <3> QED
      BY <3>2 DEF Node
  <2>2. PICK ks : ks = node'[u].keys
    OBVIOUS
  <2>3. \A j \in 1 .. Len(ks) : ks[j] \in Entry
    BY <2>1, <2>2, ElementOfSeq
  <2> QED
    BY <2>2, <2>3 DEF Entry, None
<1> QED
  BY <1>2, <1>3 DEF Distinct

LEMMA SplitChildDistinct ==
  ASSUME Shapely, Shapely', SplitChild, NEW lo, NEW hi, Order(lo, hi),
         NEW l2, NEW h2, Order(l2, h2)',
         h2 = [n \in Nodes' |->
                 CASE n = used -> hi[node_ofs]
                   [] n = node_ofs -> node[node_ofs].keys[Mid + 1].hash
                   [] OTHER -> hi[n]],
         Distinct(hi)
  PROVE  Distinct(h2)'
<1>1. PICK u, w, p : u = used /\ w = node_ofs /\ p = parent_ofs
  OBVIOUS
<1>2. PICK i : SplitAt(p, w, u, i)
  BY <1>1, SplitChildKeys DEF Shapely
<1>3. /\ pc = "loop" /\ used' = u + 1 /\ u \in Nat
      /\ w \in Nodes /\ p \in Nodes /\ p # w
      /\ Len(node[w].keys) = MaxKeys /\ Len(node'[u].keys) = Mid
      /\ Len(node'[w].keys) = Mid
      /\ Len(node'[p].keys) = Len(node[p].keys) + 1 /\ Len(node[p].keys) \in Nat
      /\ \A n \in Nodes \ {w, p} : node'[n] = node[n]
  <2>1. pc = "loop" /\ Sound
    BY DEF SplitChild, Shapely
  <2> QED
    BY <2>1, <1>1, SplitChildNodes, TurnFacts, SoundNodes
<1>4. Nodes' = Nodes \cup {u} /\ u \notin Nodes
  BY <1>1, <1>3 DEF Nodes
<1>5. PICK m : m = node[w].keys[Mid + 1].hash
  OBVIOUS
<1>6. /\ h2[u] = hi[w] /\ h2[w] = m
      /\ \A n \in Nodes \ {w} : h2[n] = hi[n]
  BY <1>1, <1>3, <1>4, <1>5
<1>7. ASSUME NEW j \in 1 .. Mid
      PROVE  /\ node'[w].keys[j].hash # m
             /\ node[w].type = "Array" => node'[u].keys[j].hash # hi[w]
  <2>1. PICK ks : ks = node[w].keys
    OBVIOUS
  <2>2. /\ node'[w].keys[j] = ks[j] /\ node'[u].keys[j] = ks[Mid + 1 + j]
    BY <2>1, <1>2 DEF SplitAt
  <2>3. /\ j \in 1 .. Len(ks) /\ Mid + 1 \in 1 .. Len(ks) /\ j < Mid + 1
        /\ Mid + 1 + j \in 1 .. Len(ks)
    <3>1. Len(ks) = MaxKeys /\ Mid \in Nat /\ MaxKeys = 2 * Mid + 1
      BY <2>1, <1>3, MidInside
    <3> QED
      BY <3>1, <1>7
  <2>4. ks[j].hash < m
    BY <2>1, <2>3, <1>3, <1>5 DEF Order, InBounds, Rising
  <2>5. ks[j].hash \in Nat /\ m \in Nat
    <3>1. ks \in Seq(Entry)
      BY <2>1, <1>3, SoundNodes DEF Shapely, WellFormed, Node
    <3>2. ks[j] \in Entry /\ ks[Mid + 1] \in Entry
      BY <3>1, <2>3, ElementOfSeq
    <3> QED
      BY <3>2, <2>1, <1>5 DEF Entry
  <2>6. node[w].type = "Array" => ks[Mid + 1 + j].hash # hi[w]
    BY <2>1, <2>3, <1>3 DEF Distinct
  <2> QED
    BY <2>2, <2>4, <2>5, <2>6
<1>8. ASSUME NEW j \in 1 .. Len(node'[p].keys)
      PROVE  node'[p].keys[j].hash # h2[p]
  <2>1. p \in Nodes' /\ i + 1 \in Slots /\ node'[p].child[i + 1] = u /\ u # 0
    <3>1. /\ i \in 0 .. Len(node[p].keys) /\ u # 0
          /\ node'[p].child = [s \in Slots |->
               CASE s = i + 1 -> u
                 [] s > i + 1 /\ s <= Len(node[p].keys) + 1 -> node[p].child[s - 1]
                 [] OTHER -> node[p].child[s]]
      BY <1>1, <1>2, <1>3 DEF SplitAt, Nodes
    <3>2. i + 1 \in Slots
      <4>1. Len(node[p].keys) < MaxKeys
        BY <1>1, SplitChildNodes DEF Shapely
      <4> QED
        BY <3>1, <4>1, <1>3, MaxKeysAssumption, SMTT(30) DEF Slots
    <3> QED
      BY <3>1, <3>2, <1>3, <1>4
  <2>2. ~IsLeaf(p)'
    BY <2>1 DEF IsLeaf
  <2>3. PICK ks : ks = node'[p].keys
    OBVIOUS
  <2>4. PICK leaf : leaf = IsLeaf(p)'
    OBVIOUS
  <2>5. Below(ks[j].hash, h2[p])
    <3>1. Between(ks, l2[p], h2[p], leaf)
      BY <2>1, <2>3, <2>4 DEF Order, InBounds
    <3>2. ~leaf
      BY <2>2, <2>4
    <3> QED
      BY <3>1, <3>2, <2>3, <1>8 DEF Between
  <2>6. ks[j].hash \in Nat
    <3>1. node'[p] \in Node
      BY <2>1 DEF Shapely, Sound, TypeOK
    <3>2. ks \in Seq(Entry)
      BY <3>1, <2>3 DEF Node
    <3>3. ks[j] \in Entry
      BY <3>2, <2>3, <1>8, ElementOfSeq
    <3> QED
      BY <3>3 DEF Entry
  <2>7. h2[p] = hi[p] /\ hi[p] \in Nat \cup {None}
    BY <1>3, <1>6 DEF Order, BoundsLinked
  <2> QED
    BY <2>3, <2>5, <2>6, <2>7 DEF Below, None
<1> SUFFICES ASSUME NEW n \in Nodes', node'[n].type = "Array",
                    NEW j \in 1 .. Len(node'[n].keys)
             PROVE  node'[n].keys[j].hash # h2[n]
  BY DEF Distinct
<1>9. CASE n = p
  BY <1>8, <1>9
<1>10. CASE n = w
  BY <1>3, <1>6, <1>7, <1>10
<1>11. CASE n = u
  <2>1. node[w].type = "Array"
    BY <1>2, <1>11 DEF SplitAt
  <2> QED
    BY <2>1, <1>3, <1>6, <1>7, <1>11
<1>12. CASE n \notin {p, w, u}
  BY <1>3, <1>4, <1>6, <1>12, SMTT(30) DEF Distinct
<1> QED
  BY <1>9, <1>10, <1>11, <1>12

LEMMA WroteDistinct ==
  ASSUME Shapely, pc = "loop", Overwrite \/ InsertLeaf, NEW hi,
         Distinct(hi), Fresh(hi)
  PROVE  Distinct(hi)'
<1>1. Sound /\ node_ofs \in Nodes
  BY TurnFacts DEF Shapely
<1>2. PICK ks : /\ Wrote(ks)
                /\ \A j \in 1 .. Len(ks) :
                     \/ ks[j].hash = req.hash
                     \/ \E k \in 1 .. Len(node[node_ofs].keys) :
                          ks[j].hash = node[node_ofs].keys[k].hash
  <2>1. CASE Overwrite
    <3>1. PICK i : i = Position(node[node_ofs].keys, req)
      OBVIOUS
    <3>2. /\ i + 1 \in 1 .. Len(node[node_ofs].keys)
          /\ Matches(node[node_ofs].keys[i + 1], req)
          /\ \E ks \in Seq(Entry) :
               /\ Wrote(ks) /\ Len(ks) = Len(node[node_ofs].keys)
               /\ ks[i + 1] = [node[node_ofs].keys[i + 1] EXCEPT !.val = req.val]
               /\ \A j \in 1 .. Len(ks) :
                    j # i + 1 => ks[j] = node[node_ofs].keys[j]
      BY <3>1, <2>1, <1>1, OverwriteKeys
    <3>3. PICK ks \in Seq(Entry) :
            /\ Wrote(ks) /\ Len(ks) = Len(node[node_ofs].keys)
            /\ ks[i + 1] = [node[node_ofs].keys[i + 1] EXCEPT !.val = req.val]
            /\ \A j \in 1 .. Len(ks) : j # i + 1 => ks[j] = node[node_ofs].keys[j]
      BY <3>2
    <3>4. node[node_ofs].keys[i + 1] \in Entry
      <4>1. node[node_ofs].keys \in Seq(Entry)
        BY <1>1, SoundNodes DEF WellFormed, Node
      <4> QED
        BY <4>1, <3>2, ElementOfSeq
    <3>5. ks[i + 1].hash = req.hash
      <4>1. node[node_ofs].keys[i + 1].hash = req.hash
        BY <3>2 DEF Matches
      <4> QED
        BY <4>1, <3>3, <3>4 DEF Entry
    <3>6. \A j \in 1 .. Len(ks) :
            \/ ks[j].hash = req.hash
            \/ \E k \in 1 .. Len(node[node_ofs].keys) :
                 ks[j].hash = node[node_ofs].keys[k].hash
      BY <3>3, <3>5
    <3> QED
      BY <3>3, <3>6
  <2>2. CASE InsertLeaf
    <3>1. PICK i : i = Position(node[node_ofs].keys, req)
      OBVIOUS
    <3>2. /\ i \in 0 .. Len(node[node_ofs].keys)
          /\ \E ks \in Seq(Entry) :
               /\ Wrote(ks) /\ Len(ks) = Len(node[node_ofs].keys) + 1
               /\ \A j \in 1 .. i : ks[j] = node[node_ofs].keys[j]
               /\ ks[i + 1] = [hash |-> req.hash, key |-> req.key, val |-> req.val]
               /\ \A j \in i + 1 .. Len(node[node_ofs].keys) :
                    ks[j + 1] = node[node_ofs].keys[j]
      BY <3>1, <2>2, <1>1, InsertLeafKeys
    <3>3. PICK ks \in Seq(Entry) :
            /\ Wrote(ks) /\ Len(ks) = Len(node[node_ofs].keys) + 1
            /\ \A j \in 1 .. i : ks[j] = node[node_ofs].keys[j]
            /\ ks[i + 1] = [hash |-> req.hash, key |-> req.key, val |-> req.val]
            /\ \A j \in i + 1 .. Len(node[node_ofs].keys) :
                 ks[j + 1] = node[node_ofs].keys[j]
      BY <3>2
    <3>4. Len(node[node_ofs].keys) \in Nat
      BY <1>1, SoundNodes
    <3>5. ASSUME NEW j \in 1 .. Len(ks)
          PROVE  \/ ks[j].hash = req.hash
                 \/ \E k \in 1 .. Len(node[node_ofs].keys) :
                      ks[j].hash = node[node_ofs].keys[k].hash
      <4>1. CASE j <= i
        <5>1. j \in 1 .. i /\ j \in 1 .. Len(node[node_ofs].keys)
          BY <4>1, <3>2, <3>4, <3>5
        <5> QED
          BY <5>1, <3>3
      <4>2. CASE j = i + 1
        BY <4>2, <3>3
      <4>3. CASE j > i + 1
        <5>1. PICK k : k = j - 1
          OBVIOUS
        <5>2. k \in i + 1 .. Len(node[node_ofs].keys) /\ k + 1 = j
              /\ k \in 1 .. Len(node[node_ofs].keys)
          BY <5>1, <4>3, <3>2, <3>3, <3>4
        <5> QED
          BY <5>2, <3>3
      <4> QED
        BY <4>1, <4>2, <4>3, <3>2, <3>3, <3>4, SMTT(30)
    <3> QED
      BY <3>3, <3>5
  <2> QED
    BY <2>1, <2>2
<1>3. /\ Nodes' = Nodes
      /\ \A n \in Nodes :
           /\ node'[n].keys = IF n = node_ofs THEN ks ELSE node[n].keys
           /\ node'[n].type = node[n].type
  BY <1>2 DEF Wrote, Nodes
<1> SUFFICES ASSUME NEW n \in Nodes, node[n].type = "Array",
                    NEW j \in 1 .. Len(node'[n].keys)
             PROVE  node'[n].keys[j].hash # hi[n]
  BY <1>3 DEF Distinct
<1>4. CASE n = node_ofs
  <2>1. node'[n].keys = ks /\ hi[n] # req.hash
    BY <1>3, <1>4 DEF Fresh
  <2>2. CASE ks[j].hash = req.hash
    BY <2>1, <2>2
  <2>3. CASE \E k \in 1 .. Len(node[n].keys) : ks[j].hash = node[n].keys[k].hash
    BY <2>1, <2>3 DEF Distinct
  <2> QED
    BY <2>1, <2>2, <2>3, <1>2, <1>4
<1>5. CASE n # node_ofs
  BY <1>3, <1>5 DEF Distinct
<1> QED
  BY <1>4, <1>5

-----------------------------------------------------------------------------
(***************************************************************************)
(* What every step leaves of what the trees hold                           *)
(***************************************************************************)

\* The call returns.
Ends == pc = "loop" /\ pc' = "idle"

\* What a step makes of the trees that were there, and of one it makes.
Effect(home, hi, hm, h2) ==
  /\ ~Ends => \A r \in roots : \A h : Stays(home, hi, hm, h2, r, h)
  /\ Ends => h2 = hi /\ Stored(home, hi, hm)
  /\ \A r \in roots' \ roots : \A h, v : ~Has(hm, h2, r, h, v)'
  /\ \A r \in roots : r \in roots' /\ node'[r].type = node[r].type
  /\ Distinct(hi) /\ Fresh(hi) => Distinct(h2)'

\* The arrangement after a step whose bounds are known.
LEMMA Follows ==
  ASSUME HashInjective, Shapely, [Next]_vars, NEW lev, NEW home, NEW H,
         NEW lo, NEW hi, Arranged(lev, home, H, lo, hi)
  PROVE  \E hm : /\ \A n \in Nodes : hm[n] = home[n]
                 /\ Trees(hm)' /\ Shapely'
                 /\ \E lv, h : \A l2, h2 :
                      Order(l2, h2)' => Arranged(lv, hm, h, l2, h2)'
<1>1. Ranking(lev, home, H) /\ Typed(home) /\ Order(lo, hi)
  BY DEF Arranged
<1>2. Onward(home)
  BY <1>1, NextOnward
<1>3. PICK lv, hm, h : Ranking(lv, hm, h)' /\ \A n \in Nodes : hm[n] = home[n]
  BY <1>2 DEF Onward
<1>4. Shapely' /\ Trees(hm)' /\ Hung'
  BY <1>2, <1>3 DEF Arranged, Onward, Ranking
<1>5. Typed(hm)'
  BY <1>1, <1>3, <1>4, NextTyped
<1>6. \A l2, h2 : Order(l2, h2)' => Arranged(lv, hm, h, l2, h2)'
  BY <1>3, <1>4, <1>5 DEF Arranged
<1> QED
  BY <1>3, <1>4, <1>6

LEMMA NextHeld ==
  ASSUME HashInjective, Shapely, [Next]_vars, NEW lev, NEW home, NEW H,
         NEW lo, NEW hi, Arranged(lev, home, H, lo, hi)
  PROVE  \E lv, hm, h, l2, h2 :
           Arranged(lv, hm, h, l2, h2)' /\ Effect(home, hi, hm, h2)
<1>1. /\ Ranking(lev, home, H) /\ Typed(home) /\ Order(lo, hi)
      /\ Trees(home) /\ WalkRank(lev, home) /\ Sound
      /\ roots \subseteq Nodes
  BY DEF Arranged, Ranking, Shapely, Sound, TypeOK
<1>2. PICK hm : /\ \A n \in Nodes : hm[n] = home[n]
                /\ Trees(hm)' /\ Shapely'
                /\ \E lv, h : \A l2, h2 :
                     Order(l2, h2)' => Arranged(lv, hm, h, l2, h2)'
  BY Follows
<1>3. PICK lv, h : \A l2, h2 : Order(l2, h2)' => Arranged(lv, hm, h, l2, h2)'
  BY <1>2
<1> SUFFICES \E l2, h2 : Order(l2, h2)' /\ Effect(home, hi, hm, h2)
  BY <1>3
<1>4. ASSUME NEW t \in Types, InitStructure(t)
      PROVE  \E l2, h2 : Order(l2, h2)' /\ Effect(home, hi, hm, h2)
  <2>1. PICK l2, h2 : Extended(lo, used, None, l2) /\ Extended(hi, used, None, h2)
    BY DEF Extended
  <2>2. Order(l2, h2)'
    BY <2>1, <1>1, <1>4, CreateOrder
  <2>3. /\ \A r \in roots : \A g : Stays(home, hi, hm, h2, r, g)
        /\ \A u : u = used => \A g, v : ~Has(hm, h2, u, g, v)'
    BY <2>1, <1>1, <1>2, <1>4, CreateHeld
  <2>4. /\ pc = "idle" /\ roots' = roots \cup {used}
        /\ \A r \in roots : node'[r].type = node[r].type
    <3>1. /\ pc = "idle" /\ roots' = roots \cup {used} /\ used \in Nat
          /\ node' = [n \in 0 .. used |->
                       IF n = used THEN EmptyNode(1, t) ELSE node[n]]
      BY <1>1, <1>4, SoundNodes DEF InitStructure
    <3>2. \A r \in roots : r \in 0 .. used /\ r # used
      BY <3>1, <1>1 DEF Nodes
    <3> QED
      BY <3>1, <3>2
  <2>5. Distinct(hi) => Distinct(h2)'
    BY <2>1, <1>4, CreateDistinct
  <2>6. Effect(home, hi, hm, h2)
    BY <2>3, <2>4, <2>5 DEF Effect, Ends
  <2> QED
    BY <2>2, <2>6
<1>5. ASSUME NEW request, Start(request)
      PROVE  \E l2, h2 : Order(l2, h2)' /\ Effect(home, hi, hm, h2)
  <2>1. Order(lo, hi)'
    BY <1>1, <1>2, <1>5, StartOrder DEF Shapely
  <2>2. node' = node /\ roots' = roots /\ pc = "idle" /\ Nodes' = Nodes
    BY <1>5 DEF Start, Nodes
  <2>3. \A r, g : Stays(home, hi, hm, hi, r, g)
    BY <2>2, <1>2, AllStay
  <2>4. Distinct(hi) => Distinct(hi)'
    BY <2>2, DistinctStays
  <2> QED
    BY <2>1, <2>2, <2>3, <2>4 DEF Effect, Ends
<1>6. ASSUME SplitRoot
      PROVE  \E l2, h2 : Order(l2, h2)' /\ Effect(home, hi, hm, h2)
  <2>1. PICK l2, h2 : Extended(lo, used, None, l2) /\ Extended(hi, used, None, h2)
    BY DEF Extended
  <2>2. Order(l2, h2)'
    BY <2>1, <1>1, <1>6, SplitRootOrder
  <2>3. \A r, g : Stays(home, hi, hm, h2, r, g)
    BY <2>1, <1>1, <1>2, <1>6, SplitRootHeld
  <2>4. /\ pc' = pc /\ pc = "loop" /\ roots' = roots
        /\ \A r \in roots : node'[r].type = node[r].type
    <3>1. /\ pc' = pc /\ pc = "loop" /\ roots' = roots
          /\ \A n \in Nodes \ {node_ofs} : node'[n] = node[n]
          /\ node'[node_ofs].type = node[node_ofs].type
      BY <1>1, <1>6, SplitRootNodes DEF SplitRoot
    <3> QED
      BY <3>1, <1>1
  <2>5. Distinct(hi) => Distinct(h2)'
    BY <2>1, <1>2, <1>6, SplitRootDistinct
  <2>6. Effect(home, hi, hm, h2)
    BY <2>3, <2>4, <2>5 DEF Effect, Ends
  <2> QED
    BY <2>2, <2>6
<1>7. ASSUME SplitChild
      PROVE  \E l2, h2 : Order(l2, h2)' /\ Effect(home, hi, hm, h2)
  <2>1. PICK l2 : Extended(lo, used, node[node_ofs].keys[Mid + 1].hash, l2)
    BY DEF Extended
  <2>2. PICK h2 : h2 = [n \in Nodes' |->
                  CASE n = used -> hi[node_ofs]
                    [] n = node_ofs -> node[node_ofs].keys[Mid + 1].hash
                    [] OTHER -> hi[n]]
    OBVIOUS
  <2>3. Order(l2, h2)'
    BY <2>1, <2>2, <1>1, <1>7, SplitChildOrder
  <2>4. \A r, g : Stays(home, hi, hm, h2, r, g)
    BY <2>2, <1>1, <1>2, <1>7, SplitChildHeld
  <2>5. /\ pc' = pc /\ pc = "loop" /\ roots' = roots
        /\ \A r \in roots : node'[r].type = node[r].type
    <3>1. PICK w, p : w = node_ofs /\ p = parent_ofs
      OBVIOUS
    <3>2. /\ pc' = pc /\ pc = "loop" /\ roots' = roots
          /\ \A n \in Nodes \ {w, p} : node'[n] = node[n]
      BY <3>1, <1>1, <1>7, SplitChildNodes DEF SplitChild
    <3>3. \E i : SplitAt(p, w, used, i)
      BY <3>1, <1>1, <1>7, SplitChildKeys
    <3>4. node'[w].type = node[w].type /\ node'[p].type = node[p].type
      BY <3>3 DEF SplitAt
    <3> QED
      BY <3>2, <3>4, <1>1
  <2>6. Distinct(hi) => Distinct(h2)'
    BY <2>2, <2>3, <1>1, <1>2, <1>7, SplitChildDistinct
  <2>7. Effect(home, hi, hm, h2)
    BY <2>4, <2>5, <2>6 DEF Effect, Ends
  <2> QED
    BY <2>3, <2>7
<1>8. ASSUME Descend
      PROVE  \E l2, h2 : Order(l2, h2)' /\ Effect(home, hi, hm, h2)
  <2>1. Order(lo, hi)'
    BY <1>1, <1>8, DescendOrder
  <2>2. /\ roots' = roots /\ pc' = "loop" /\ Nodes' = Nodes
        /\ \A n \in Nodes : node'[n].keys = node[n].keys /\ node'[n].type = node[n].type
    BY <1>1, <1>8, DescendKeys DEF Nodes
  <2>3. \A r, g : Stays(home, hi, hm, hi, r, g)
    BY <2>2, <1>2, AllStay
  <2>4. Distinct(hi) => Distinct(hi)'
    BY <2>2, DistinctStays
  <2> QED
    BY <2>1, <2>2, <2>3, <2>4, <1>1 DEF Effect, Ends
<1>9. ASSUME Overwrite \/ InsertLeaf
      PROVE  \E l2, h2 : Order(l2, h2)' /\ Effect(home, hi, hm, h2)
  <2>1. Order(lo, hi)'
    BY <1>1, <1>9, OverwriteOrder, InsertLeafOrder
  <2>2. Stored(home, hi, hm)
    BY <1>2, <1>9, OverwriteHeld, InsertLeafHeld
  <2>3. \E ks : Wrote(ks)
    BY <1>1, <1>9, OverwriteKeys, InsertLeafKeys
  <2>4. /\ roots' = roots /\ pc' = "idle" /\ pc = "loop"
        /\ \A n \in Nodes : node'[n].type = node[n].type
    BY <2>3, <1>9 DEF Wrote, Overwrite, InsertLeaf
  <2>5. Distinct(hi) /\ Fresh(hi) => Distinct(hi)'
    BY <2>4, <1>9, WroteDistinct
  <2> QED
    BY <2>1, <2>2, <2>4, <2>5, <1>1 DEF Effect, Ends
<1>10. ASSUME UNCHANGED vars
       PROVE  \E l2, h2 : Order(l2, h2)' /\ Effect(home, hi, hm, h2)
  <2>1. /\ Nodes' = Nodes /\ roots' = roots /\ node' = node /\ pc' = pc
        /\ req' = req /\ node_ofs' = node_ofs
    BY <1>10 DEF vars, Nodes
  <2>2. BoundsLinked(lo, hi)' /\ InBounds(lo, hi)'
    BY <1>1, <2>1, BoundsStay DEF Order
  <2>3. Order(lo, hi)'
    BY <1>1, <2>1, <2>2 DEF Order, WalkBound
  <2>4. \A r, g : Stays(home, hi, hm, hi, r, g)
    BY <2>1, <1>2, AllStay
  <2>5. Distinct(hi) => Distinct(hi)'
    BY <2>1, DistinctStays
  <2> QED
    BY <2>1, <2>3, <2>4, <2>5 DEF Effect, Ends
<1> QED
  BY <1>4, <1>5, <1>6, <1>7, <1>8, <1>9, <1>10, Zenon
     DEF Next, Turn, SetBegin, AppendBegin

-----------------------------------------------------------------------------
(***************************************************************************)
(* What callers are told                                                   *)
(***************************************************************************)

\* Searches find what the trees hold, however these are arranged.
AllRead ==
  \A lev, home, H, lo, hi :
    Shapely /\ Arranged(lev, home, H, lo, hi) => Reads(home, hi)

LEMMA AllReadHolds ==
  ASSUME HashInjective
  PROVE  AllRead
BY ReadsHeld DEF AllRead

\* q is a search for what a structure of type t holds.
Asks(t, q) == Seeks(t, q) /\ q.hash \in Nat

\* A step changes what one search finds, if any: that for the request of a
\* call that returns.  It then finds the call's value, or an old value still.
Told ==
  /\ \A r \in roots : \A q : Asks(node[r].type, q) =>
       \/ Lookup(r, q)' = Lookup(r, q)
          /\ (Ends /\ r = req.ofs /\ q.hash = req.hash => Lookup(r, q) # NoValue)
       \/ /\ Ends /\ r = req.ofs /\ q.hash = req.hash
          /\ Lookup(r, q)' = req.val
  /\ \A r \in roots' \ roots : \A q : Asks(node'[r].type, q) =>
       Lookup(r, q)' = NoValue
  /\ \A r \in roots : r \in roots' /\ node'[r].type = node[r].type

LEMMA NextTold ==
  ASSUME HashInjective, Ordered, [Next]_vars, Ordered', AllRead, AllRead'
  PROVE  Told
<1>1. Shapely /\ Shapely' /\ Sound
  BY DEF Ordered, Shapely
<1>2. PICK lev, home, H, lo, hi : Arranged(lev, home, H, lo, hi)
  BY DEF Ordered
<1>3. PICK lv, hm, h, l2, h2 :
        Arranged(lv, hm, h, l2, h2)' /\ Effect(home, hi, hm, h2)
  BY <1>1, <1>2, NextHeld
<1>4. Reads(home, hi) /\ Reads(hm, h2)'
  BY <1>1, <1>2, <1>3 DEF AllRead
<1>5. \A r \in roots : r \in roots' /\ node'[r].type = node[r].type
  BY <1>3 DEF Effect
<1>6. ASSUME NEW r \in roots, NEW q, Asks(node[r].type, q)
      PROVE  /\ Lookup(r, q) \in Results /\ Lookup(r, q)' \in Results
             /\ \A v \in Values : Lookup(r, q) = v <=> Has(home, hi, r, q.hash, v)
             /\ \A v \in Values : Lookup(r, q)' = v
                                  <=> Has(hm, h2, r, q.hash, v)'
  BY <1>4, <1>5, <1>6 DEF Reads, Asks
<1>7. ASSUME NEW r \in roots, NEW q, Asks(node[r].type, q),
             Stays(home, hi, hm, h2, r, q.hash)
      PROVE  Lookup(r, q)' = Lookup(r, q)
  <2>1. PICK a, b : a = Lookup(r, q) /\ b = Lookup(r, q)'
    OBVIOUS
  <2>2. a \in Results /\ b \in Results /\ \A v \in Values : a = v <=> b = v
    BY <1>6, <1>7, <2>1 DEF Stays
  <2> QED
    BY <2>1, <2>2 DEF Results
<1>8. ASSUME NEW r \in roots, NEW q, Asks(node[r].type, q)
      PROVE  \/ Lookup(r, q)' = Lookup(r, q)
                /\ (Ends /\ r = req.ofs /\ q.hash = req.hash
                    => Lookup(r, q) # NoValue)
             \/ /\ Ends /\ r = req.ofs /\ q.hash = req.hash
                /\ Lookup(r, q)' = req.val
  <2>1. CASE ~(Ends /\ r = req.ofs /\ q.hash = req.hash)
    <3>1. Stays(home, hi, hm, h2, r, q.hash)
      BY <2>1, <1>3 DEF Effect, Stored
    <3> QED
      BY <3>1, <2>1, <1>7, <1>8
  <2>2. CASE Ends /\ r = req.ofs /\ q.hash = req.hash
    <3>1. /\ h2 = hi /\ Stored(home, hi, hm)
          /\ node_ofs \in Nodes /\ req.val \in Values
      BY <2>2, <1>1, <1>3, TurnFacts DEF Effect, Ends
    <3>2. CASE hi[node_ofs] = req.hash
      <4>1. Stays(home, hi, hm, h2, r, q.hash)
        BY <3>1, <3>2 DEF Stored
      <4>2. home[node_ofs] = r
        BY <2>2, <1>2 DEF Ends, Arranged, Ranking, WalkRank
      <4>3. hi[node_ofs] # None
        BY <2>2, <3>2, <1>8 DEF None, Asks
      <4>4. PICK v \in Values : Has(home, hi, home[node_ofs], hi[node_ofs], v)
        BY <4>3, <3>1, <1>1, <1>2, BoundIsHeld
      <4>5. Has(home, hi, r, q.hash, v)
        BY <4>2, <4>4, <3>2, <2>2
      <4>6. Lookup(r, q) = v
        BY <4>5, <1>6, <1>8
      <4> QED
        BY <4>1, <4>6, <1>7, <1>8, ValuesAssumption
    <3>3. CASE hi[node_ofs] # req.hash
      <4>1. PICK g, v : g = q.hash /\ v = req.val
        OBVIOUS
      <4>2. Has(hm, h2, r, g, v)'
        BY <4>1, <3>1, <3>3, <2>2 DEF Stored
      <4>3. Lookup(r, q)' = v
        BY <4>1, <4>2, <3>1, <1>6, <1>8
      <4> QED
        BY <4>1, <4>3, <2>2
    <3> QED
      BY <3>2, <3>3
  <2> QED
    BY <2>1, <2>2
<1>9. ASSUME NEW r \in roots' \ roots, NEW q, Asks(node'[r].type, q)
      PROVE  Lookup(r, q)' = NoValue
  <2>1. PICK b, g : b = Lookup(r, q)' /\ g = q.hash
    OBVIOUS
  <2>2. b \in Results /\ \A v \in Values : b = v => Has(hm, h2, r, g, v)'
    BY <2>1, <1>4, <1>9 DEF Reads, Asks
  <2>3. \A v : ~Has(hm, h2, r, g, v)'
    BY <1>3 DEF Effect
  <2> QED
    BY <2>1, <2>2, <2>3 DEF Results
<1> QED
  BY <1>5, <1>8, <1>9 DEF Told

Query(k) == [key |-> k, hash |-> Hash[k], append |-> FALSE]

\* What callers are told of the keys of an object.
LEMMA GetTold ==
  ASSUME Told, NEW r \in RootsOf("Object"), NEW k \in Keys
  PROVE  \/ Get(r, k)' = Get(r, k)
            /\ (Ends /\ r = req.ofs /\ Hash[k] = req.hash => Get(r, k) # NoValue)
         \/ /\ Ends /\ r = req.ofs /\ Hash[k] = req.hash
            /\ Get(r, k)' = req.val
<1>1. PICK q : q = Query(k)
  OBVIOUS
<1>2. q.hash = Hash[k] /\ Asks("Object", q)
  BY <1>1, KeysAssumption DEF Query, Asks, Seeks, EntryFits
<1>3. r \in roots /\ node[r].type = "Object"
  BY DEF RootsOf
<1>4. \/ Lookup(r, q)' = Lookup(r, q)
         /\ (Ends /\ r = req.ofs /\ q.hash = req.hash => Lookup(r, q) # NoValue)
      \/ /\ Ends /\ r = req.ofs /\ q.hash = req.hash
         /\ Lookup(r, q)' = req.val
  BY <1>2, <1>3 DEF Told
<1>5. Get(r, k) = Lookup(r, q) /\ Get(r, k)' = Lookup(r, q)'
  BY <1>1 DEF Get, Query
<1> QED
  BY <1>2, <1>4, <1>5

\* The objects stay as they are unless a call of one of them returns.
LEMMA ContentsStay ==
  ASSUME Told, RootsOf("Object")' = RootsOf("Object"),
         Ends => req.ofs \notin RootsOf("Object")
  PROVE  Contents' = Contents
<1>1. \A r \in RootsOf("Object"), k \in Keys : Get(r, k)' = Get(r, k)
  BY GetTold
<1>2. \A r \in RootsOf("Object") :
        [k \in Keys |-> Get(r, k)]' = [k \in Keys |-> Get(r, k)]
  BY <1>1
<1> QED
  BY <1>2 DEF Contents

LEMMA ObjectsStay ==
  ASSUME Told, roots' = roots
  PROVE  \A t : RootsOf(t)' = RootsOf(t)
BY DEF Told, RootsOf

LEMMA RequestFits ==
  ASSUME Ordered, pc = "loop"
  PROVE  /\ req.ofs \in roots /\ node[req.ofs].type \in Types
         /\ Seeks(node[req.ofs].type, req) /\ req \in Request
         /\ req.append => req.hash = node[req.ofs].size
         /\ req.val \in Values
<1>1. Sound
  BY DEF Ordered, Shapely
<1>2. PICK lev, home, H, lo, hi : Arranged(lev, home, H, lo, hi)
  BY DEF Ordered
<1>3. Typed(home)
  BY <1>2 DEF Arranged
<1>4. node[req.ofs] \in Node
  BY <1>1, TurnFacts, SoundNodes DEF WellFormed
<1> QED
  BY <1>1, <1>3, <1>4, TurnFacts DEF Typed, Node

\* Making an object makes an empty map; making an array changes no map.
LEMMA CreateMaps ==
  ASSUME Ordered, Told, NEW t \in Types, InitStructure(t)
  PROVE  [Maps!Next \/ Maps!Drop]_(Maps!vars)
<1>1. /\ pc = "idle" /\ pc' = "idle" /\ roots' = roots \cup {used} /\ used \in Nat
      /\ node' = [n \in 0 .. used |->
                   IF n = used THEN EmptyNode(1, t) ELSE node[n]]
      /\ roots \subseteq Nodes /\ used < MaxNodes /\ req' = req
  BY SoundNodes DEF InitStructure, Ordered, Shapely, Sound, TypeOK
<1>2. used \notin roots /\ node'[used].type = t
  BY <1>1 DEF Nodes, EmptyNode
<1>3. ObjectCall = Maps!Nothing /\ ObjectCall' = ObjectCall
  BY <1>1 DEF ObjectCall, Maps!Nothing
<1>4. \A r \in roots : r \in roots' /\ node'[r].type = node[r].type
  BY DEF Told
<1>5. CASE t = "Array"
  <2>1. RootsOf("Object")' = RootsOf("Object")
    BY <1>1, <1>2, <1>4, <1>5 DEF RootsOf
  <2>2. Contents' = Contents
    BY <2>1, <1>1, ContentsStay DEF Ends
  <2> QED
    BY <2>2, <1>3 DEF Maps!vars
<1>6. CASE t = "Object"
  <2>1. PICK u : u = used
    OBVIOUS
  <2>2. RootsOf("Object")' = RootsOf("Object") \cup {u} /\ u \notin RootsOf("Object")
    BY <2>1, <1>1, <1>2, <1>4, <1>6 DEF RootsOf
  <2>3. \A r \in RootsOf("Object"), k \in Keys : Get(r, k)' = Get(r, k)
    BY <1>1, GetTold DEF Ends
  <2>4. \A k \in Keys : Get(u, k)' = NoValue
    <3> TAKE k \in Keys
    <3>1. PICK q : q = Query(k)
      OBVIOUS
    <3>2. Asks("Object", q)
      BY <3>1, KeysAssumption DEF Query, Asks, Seeks, EntryFits
    <3>3. Lookup(u, q)' = NoValue
      BY <3>2, <2>1, <1>1, <1>2, <1>6 DEF Told
    <3> QED
      BY <3>1, <3>3 DEF Get, Query
  <2>5. DOMAIN Contents = RootsOf("Object")
    BY DEF Contents
  <2>6. Contents' = [g \in DOMAIN Contents \cup {u} |->
                       IF g = u THEN Maps!EmptyMap ELSE Contents[g]]
    <3>1. Contents' = [r \in RootsOf("Object") \cup {u} |->
                         [k \in Keys |-> Get(r, k)']]
      BY <2>2 DEF Contents
    <3>2. \A r \in RootsOf("Object") :
            [k \in Keys |-> Get(r, k)'] = Contents[r]
      BY <2>3 DEF Contents
    <3>3. [k \in Keys |-> Get(u, k)'] = Maps!EmptyMap
      BY <2>4 DEF Maps!EmptyMap
    <3> QED
      BY <3>1, <3>2, <3>3, <2>2, <2>5
  <2>7. u \in 0 .. MaxNodes
    BY <2>1, <1>1, BoundAssumption
  <2>8. Maps!Create(u)
    BY <2>2, <2>5, <2>6, <1>3 DEF Maps!Create
  <2> QED
    BY <2>7, <2>8 DEF Maps!Next, Maps!Begin
<1> QED
  BY <1>5, <1>6 DEF Types

\* A call of an object begins; one of an array is none to the maps.
LEMMA StartMaps ==
  ASSUME Ordered, Told, NEW request, Start(request),
         \/ \E r \in RootsOf("Object"), k \in Keys, v \in Values :
              request = [ofs |-> r, key |-> k, hash |-> Hash[k], val |-> v,
                         append |-> FALSE]
         \/ request.append
  PROVE  [Maps!Next \/ Maps!Drop]_(Maps!vars)
<1>1. /\ pc = "idle" /\ pc' = "loop" /\ req' = request /\ roots' = roots
      /\ used < MaxNodes /\ used \in Nat /\ roots \subseteq Nodes
  BY SoundNodes DEF Start, Ordered, Shapely, Sound, TypeOK
<1>2. Contents' = Contents
  BY <1>1, ObjectsStay, ContentsStay DEF Ends
<1>3. ObjectCall = Maps!Nothing
  BY <1>1 DEF ObjectCall, Maps!Nothing
<1>4. CASE request.append
  <2>1. ObjectCall' = ObjectCall
    BY <1>1, <1>3, <1>4 DEF ObjectCall, Maps!Nothing
  <2> QED
    BY <2>1, <1>2 DEF Maps!vars
<1>5. ASSUME NEW r \in RootsOf("Object"), NEW k \in Keys, NEW v \in Values,
             request = [ofs |-> r, key |-> k, hash |-> Hash[k], val |-> v,
                        append |-> FALSE]
      PROVE  Maps!Next
  <2>1. ObjectCall' = [ofs |-> r, key |-> k, val |-> v]
    BY <1>1, <1>5 DEF ObjectCall
  <2>2. r \in DOMAIN Contents
    BY DEF Contents
  <2>3. r \in 0 .. MaxNodes
    BY <1>1, BoundAssumption DEF RootsOf, Nodes
  <2>4. Maps!Call(r, k, v)
    BY <2>1, <2>2, <1>2, <1>3 DEF Maps!Call
  <2> QED
    BY <2>3, <2>4 DEF Maps!Next, Maps!Begin
<1> QED
  BY <1>4, <1>5

\* A call that returns stores its value or leaves the old one.
LEMMA ReturnMaps ==
  ASSUME HashInjective, Ordered, Told, Ends, roots' = roots
  PROVE  [Maps!Next \/ Maps!Drop]_(Maps!vars)
<1>1. /\ pc = "loop" /\ pc' = "idle" /\ Seeks(node[req.ofs].type, req)
      /\ req.ofs \in roots /\ node[req.ofs].type \in Types /\ req \in Request
  BY RequestFits DEF Ends
<1>2. RootsOf("Object")' = RootsOf("Object")
  BY ObjectsStay
<1>3. ObjectCall' = Maps!Nothing
  BY <1>1 DEF ObjectCall, Maps!Nothing
<1>4. CASE req.append
  <2>1. req.ofs \notin RootsOf("Object")
    BY <1>1, <1>4 DEF Seeks, RootsOf
  <2>2. Contents' = Contents
    BY <2>1, <1>2, ContentsStay
  <2>3. ObjectCall = Maps!Nothing
    BY <1>4 DEF ObjectCall, Maps!Nothing
  <2> QED
    BY <2>2, <2>3, <1>3 DEF Maps!vars
<1>5. CASE ~req.append
  <2>1. PICK o, k, v : o = req.ofs /\ k = req.key /\ v = req.val
    OBVIOUS
  <2>2. o \in RootsOf("Object") /\ k \in Keys /\ req.hash = Hash[k]
    BY <2>1, <1>1, <1>5 DEF Seeks, EntryFits, RootsOf, Types
  <2>3. ObjectCall = [ofs |-> o, key |-> k, val |-> v]
    BY <2>1, <1>1, <1>5 DEF ObjectCall
  <2>4. ObjectCall # Maps!Nothing
    <3>1. DOMAIN ObjectCall = {"ofs", "key", "val"} /\ DOMAIN Maps!Nothing = {"ofs"}
      BY <2>3 DEF Maps!Nothing
    <3> QED
      BY <3>1
  <2>5. \A r \in RootsOf("Object"), j \in Keys :
          ~(r = o /\ j = k) => Get(r, j)' = Get(r, j)
    <3> TAKE r \in RootsOf("Object"), j \in Keys
    <3>1. r = o /\ j # k => Hash[j] # req.hash
      BY <2>2 DEF HashInjective
    <3> QED
      BY <3>1, <2>1, GetTold
  <2>6. \/ Get(o, k)' = Get(o, k) /\ Get(o, k) # NoValue
        \/ Get(o, k)' = v
    BY <2>1, <2>2, GetTold
  <2>7. ObjectCall.ofs = o /\ ObjectCall.key = k /\ ObjectCall.val = v
    BY <2>3
  <2>8. DOMAIN Contents = RootsOf("Object")
        /\ \A r \in RootsOf("Object") : Contents[r] = [j \in Keys |-> Get(r, j)]
    BY DEF Contents
  <2>9. Contents' = [r \in RootsOf("Object") |-> [j \in Keys |-> Get(r, j)']]
    BY <1>2 DEF Contents
  <2>10. CASE Get(o, k)' = Get(o, k) /\ Get(o, k) # NoValue
    <3>1. \A r \in RootsOf("Object"), j \in Keys : Get(r, j)' = Get(r, j)
      BY <2>5, <2>10
    <3>2. Contents' = Contents
      BY <3>1, <2>9 DEF Contents
    <3>3. Contents[o][k] # NoValue
      BY <2>2, <2>8, <2>10
    <3> QED
      BY <3>2, <3>3, <2>4, <2>7, <1>3 DEF Maps!Drop
  <2>11. CASE Get(o, k)' = v
    <3> DEFINE Now(r) == [j \in Keys |-> Get(r, j)']
               S == RootsOf("Object")
    <3>1. /\ \A r \in S : Now(r) = IF r = o THEN [Contents[r] EXCEPT ![k] = v]
                                   ELSE Contents[r]
          /\ Contents' = [r \in S |-> Now(r)] /\ DOMAIN Contents = S /\ o \in S
      BY <2>2, <2>5, <2>8, <2>9, <2>11
    <3>2. Contents' = [Contents EXCEPT ![o] = [@ EXCEPT ![k] = v]]
      <4> HIDE DEF Now, S
      <4> QED
        BY <3>1
    <3>3. Maps!Store
      BY <3>2, <2>4, <2>7, <1>3 DEF Maps!Store
    <3> QED
      BY <3>3 DEF Maps!Next
  <2> QED
    BY <2>6, <2>10, <2>11
<1> QED
  BY <1>4, <1>5

LEMMA NextMaps ==
  ASSUME HashInjective, Ordered, [Next]_vars, Ordered', AllRead, AllRead'
  PROVE  [Maps!Next \/ Maps!Drop]_(Maps!vars)
<1>1. Told
  BY NextTold
<1>2. ASSUME NEW t \in Types, InitStructure(t)
      PROVE  [Maps!Next \/ Maps!Drop]_(Maps!vars)
  BY <1>1, <1>2, CreateMaps
<1>3. ASSUME NEW r \in RootsOf("Object"), NEW k \in Keys, NEW v \in Values,
             SetBegin(r, k, v)
      PROVE  [Maps!Next \/ Maps!Drop]_(Maps!vars)
  <2>1. PICK request : request = [ofs |-> r, key |-> k, hash |-> Hash[k],
                                  val |-> v, append |-> FALSE]
    OBVIOUS
  <2>2. Start(request)
    BY <2>1, <1>3 DEF SetBegin
  <2> QED
    BY <2>1, <2>2, <1>1, StartMaps
<1>4. ASSUME NEW r \in RootsOf("Array"), NEW v \in Values, AppendBegin(r, v)
      PROVE  [Maps!Next \/ Maps!Drop]_(Maps!vars)
  <2>1. PICK request : request = [ofs |-> r, key |-> EmptyKey,
                                  hash |-> node[r].size, val |-> v,
                                  append |-> TRUE]
    OBVIOUS
  <2>2. Start(request) /\ request.append
    BY <2>1, <1>4 DEF AppendBegin
  <2> QED
    BY <2>2, <1>1, StartMaps
<1>5. ASSUME \/ SplitRoot \/ SplitChild \/ Descend \/ UNCHANGED vars
      PROVE  [Maps!Next \/ Maps!Drop]_(Maps!vars)
  <2>1. pc' = pc /\ roots' = roots /\ req' = req
    BY <1>5 DEF SplitRoot, SplitChild, Descend, vars
  <2>2. Contents' = Contents /\ ObjectCall' = ObjectCall
    BY <2>1, <1>1, ObjectsStay, ContentsStay DEF Ends, ObjectCall
  <2> QED
    BY <2>2 DEF Maps!vars
<1>6. ASSUME Overwrite \/ InsertLeaf
      PROVE  [Maps!Next \/ Maps!Drop]_(Maps!vars)
  <2>1. Ends /\ roots' = roots
    <3>1. Sound /\ pc = "loop"
      BY <1>6 DEF Ordered, Shapely, Overwrite, InsertLeaf
    <3>2. \E ks : Wrote(ks)
      BY <3>1, <1>6, OverwriteKeys, InsertLeafKeys
    <3> QED
      BY <3>1, <3>2 DEF Wrote, Ends
  <2> QED
    BY <2>1, <1>1, ReturnMaps
<1> QED
  BY <1>2, <1>3, <1>4, <1>5, <1>6, Zenon DEF Next, Turn

LEMMA InitMaps == Init => Maps!Init
<1> SUFFICES ASSUME Init
             PROVE  Maps!Init
  OBVIOUS
<1>1. RootsOf("Object") = {} /\ pc = "idle"
  BY DEF Init, RootsOf
<1>2. ObjectCall = Maps!Nothing
  BY <1>1 DEF ObjectCall, Maps!Nothing
<1>3. Contents = [h \in {} |-> Maps!EmptyMap]
  BY <1>1 DEF Contents
<1> QED
  BY <1>2, <1>3 DEF Maps!Init

\* The objects of a buffer are maps for their callers, for every number of
\* keys, values, structures and nodes, as long as no two keys have one hash:
\* whatever set_impl splits and moves, a reader sees a call change nothing but
\* its own key, at one turn, and an overwrite is the only call to be lost.
THEOREM ObjectsAreMapsAlways ==
  ASSUME HashInjective
  PROVE  Spec => ObjectsAreMaps
<1>1. AllRead
  BY AllReadHolds
<1>2. Ordered /\ [Next]_vars /\ Ordered' /\ AllRead /\ AllRead'
      => [Maps!Next \/ Maps!Drop]_(Maps!vars)
  BY NextMaps
<1>3. Spec => []Ordered
  BY OrderedAlways
<1> QED
  BY <1>1, <1>2, <1>3, InitMaps, PTL DEF Spec, ObjectsAreMaps, Maps!LossySpec

\* A key that an object does not hold is retrievable once a call has set it:
\* colliding hashes are the only way to lose one (BTree_collide).
THEOREM InsertedRetrievable ==
  ASSUME HashInjective
  PROVE  Spec => InsertedKeysRetrievable
<1>1. AllRead
  BY AllReadHolds
<1>2. ASSUME Ordered, [Next]_vars, Ordered', AllRead, AllRead'
      PROVE  [\A r \in roots, k \in Keys :
                Returns(r, k) /\ Get(r, k) = NoValue => Get(r, k)' # NoValue]_vars
  <2> SUFFICES ASSUME NEW r \in roots, NEW k \in Keys, Returns(r, k),
                      Get(r, k) = NoValue
               PROVE  Get(r, k)' # NoValue
    OBVIOUS
  <2>1. Told
    BY <1>2, NextTold
  <2>2. /\ pc = "loop" /\ Ends /\ ~req.append /\ req.ofs = r /\ req.key = k
    BY DEF Returns, Ends
  <2>3. /\ Seeks(node[r].type, req) /\ node[r].type \in Types /\ req.val \in Values
    BY <1>2, <2>2, RequestFits
  <2>4. r \in RootsOf("Object") /\ req.hash = Hash[k]
    BY <2>2, <2>3 DEF Seeks, EntryFits, RootsOf, Types
  <2>5. Get(r, k)' = req.val
    BY <2>1, <2>2, <2>4, GetTold
  <2> QED
    BY <2>3, <2>5, ValuesAssumption
<1>3. Spec => []Ordered
  BY OrderedAlways
<1> QED
  BY <1>1, <1>2, <1>3, PTL DEF Spec, InsertedKeysRetrievable

-----------------------------------------------------------------------------
(***************************************************************************)
(* What callers are told of arrays                                         *)
(***************************************************************************)

\* No array has grown to where its size starts again at 0: the code adds to
\* the 26 bits of it without looking.
SizesFit == \A r \in RootsOf("Array") : node[r].size + 1 < SizeMod

\* A step changes the size of the array it has appended to, and no other.
Sized ==
  /\ \A r \in roots : node'[r].size = IF Ends /\ req.append /\ r = req.ofs
                                      THEN (req.hash + 1) % SizeMod
                                      ELSE node[r].size
  /\ \A r \in roots' \ roots : node'[r].size = 0

LEMMA NextSized ==
  ASSUME Ordered, [Next]_vars
  PROVE  Sized
<1>1. Sound /\ roots \subseteq Nodes
  BY DEF Ordered, Shapely, Sound, TypeOK
<1>2. ASSUME NEW t \in Types, InitStructure(t)
      PROVE  Sized
  <2>1. /\ pc = "idle" /\ roots' = roots \cup {used} /\ used \in Nat
        /\ node' = [n \in 0 .. used |->
                     IF n = used THEN EmptyNode(1, t) ELSE node[n]]
    BY <1>1, <1>2, SoundNodes DEF InitStructure
  <2>2. \A r \in roots : r \in 0 .. used /\ r # used
    BY <2>1, <1>1 DEF Nodes
  <2>3. node'[used].size = 0
    BY <2>1 DEF EmptyNode
  <2> QED
    BY <2>1, <2>2, <2>3 DEF Sized, Ends
<1>3. ASSUME NEW request, Start(request)
      PROVE  Sized
  BY <1>3 DEF Start, Sized, Ends
<1>4. ASSUME SplitRoot
      PROVE  Sized
  <2>1. /\ pc' = pc /\ roots' = roots
        /\ \A n \in Nodes \ {node_ofs} : node'[n] = node[n]
        /\ node'[node_ofs].size = node[node_ofs].size
    BY <1>1, <1>4, SplitRootNodes DEF SplitRoot
  <2> QED
    BY <2>1, <1>1 DEF Sized, Ends
<1>5. ASSUME SplitChild
      PROVE  Sized
  <2>1. PICK w, p : w = node_ofs /\ p = parent_ofs
    OBVIOUS
  <2>2. /\ pc' = pc /\ roots' = roots
        /\ \A n \in Nodes \ {w, p} : node'[n] = node[n]
    BY <2>1, <1>1, <1>5, SplitChildNodes DEF SplitChild
  <2>3. \E i : SplitAt(p, w, used, i)
    BY <2>1, <1>1, <1>5, SplitChildKeys
  <2>4. node'[w].size = node[w].size /\ node'[p].size = node[p].size
    BY <2>3 DEF SplitAt
  <2> QED
    BY <2>2, <2>4, <1>1 DEF Sized, Ends
<1>6. ASSUME Descend
      PROVE  Sized
  <2>1. /\ pc' = "loop" /\ roots' = roots
        /\ \A n \in Nodes : node'[n].size = node[n].size
    BY <1>1, <1>6, DescendKeys
  <2> QED
    BY <2>1, <1>1 DEF Sized, Ends
<1>7. ASSUME Overwrite \/ InsertLeaf
      PROVE  Sized
  <2>1. pc = "loop" /\ \E ks : Wrote(ks)
    BY <1>1, <1>7, OverwriteKeys, InsertLeafKeys DEF Overwrite, InsertLeaf
  <2>2. /\ roots' = roots /\ pc' = "idle"
        /\ \A n \in Nodes : node'[n].size = IF req.append /\ n = req.ofs
                                            THEN (req.hash + 1) % SizeMod
                                            ELSE node[n].size
    BY <2>1 DEF Wrote
  <2> QED
    BY <2>1, <2>2, <1>1 DEF Sized, Ends
<1>8. ASSUME UNCHANGED vars
      PROVE  Sized
  BY <1>8 DEF vars, Sized, Ends
<1> QED
  BY <1>2, <1>3, <1>4, <1>5, <1>6, <1>7, <1>8, Zenon
     DEF Next, Turn, SetBegin, AppendBegin

\* An array has the elements that its size counts, and no others.
Counted ==
  \A r \in RootsOf("Array") : \A i \in Nat :
    ArrGet(r, i) # NoValue <=> i < node[r].size

\* What callers are told of an array: an append adds its element at the end,
\* when it returns, and no other step changes any element.
Appended(r) ==
  IF Ends /\ r = req.ofs
  THEN /\ req.append
       /\ node'[r].size = node[r].size + 1
       /\ \A i \in Nat : ArrGet(r, i)' = IF i = node[r].size THEN req.val
                                         ELSE ArrGet(r, i)
  ELSE /\ node'[r].size = node[r].size
       /\ \A i \in Nat : ArrGet(r, i)' = ArrGet(r, i)

LEMMA ArrayTold ==
  ASSUME Ordered, Told, Sized, Counted, SizesFit, NEW r \in RootsOf("Array")
  PROVE  node[r].size \in Nat /\ Appended(r)
<1>1. r \in roots /\ node[r].type = "Array"
  BY DEF RootsOf
<1>2. node[r].size \in Nat /\ SizeMod \in Nat /\ node[r].size + 1 < SizeMod
  <2>1. node[r] \in Node
    BY <1>1, SoundNodes DEF Ordered, Shapely, Sound, TypeOK, WellFormed
  <2> QED
    BY <2>1, WidthAssumption DEF Node, SizesFit
<1>3. ASSUME NEW i \in Nat
      PROVE  \/ /\ ArrGet(r, i)' = ArrGet(r, i)
                /\ Ends /\ r = req.ofs /\ i = req.hash => i < node[r].size
             \/ /\ Ends /\ r = req.ofs /\ i = req.hash
                /\ ArrGet(r, i)' = req.val
  <2>1. PICK q : q = [key |-> EmptyKey, hash |-> i, append |-> TRUE]
    OBVIOUS
  <2>2. q.hash = i /\ Asks("Array", q)
    BY <2>1 DEF Asks, Seeks, EntryFits
  <2>3. \/ /\ Lookup(r, q)' = Lookup(r, q)
           /\ Ends /\ r = req.ofs /\ i = req.hash => Lookup(r, q) # NoValue
        \/ /\ Ends /\ r = req.ofs /\ i = req.hash
           /\ Lookup(r, q)' = req.val
    BY <2>2, <1>1 DEF Told
  <2>4. ArrGet(r, i) = Lookup(r, q) /\ ArrGet(r, i)' = Lookup(r, q)'
    BY <2>1 DEF ArrGet
  <2> QED
    BY <2>3, <2>4 DEF Counted
<1>4. CASE Ends /\ r = req.ofs
  <2>1. req.append /\ req.hash = node[r].size
    BY <1>1, <1>4, RequestFits DEF Ends, Seeks
  <2>2. node'[r].size = node[r].size + 1
    BY <2>1, <1>1, <1>2, <1>4 DEF Sized
  <2>3. \A i \in Nat : ArrGet(r, i)' = IF i = node[r].size THEN req.val
                                       ELSE ArrGet(r, i)
    <3> TAKE i \in Nat
    <3>1. CASE i = node[r].size
      <4>1. ~(i < node[r].size)
        BY <3>1, <1>2
      <4> QED
        BY <3>1, <4>1, <2>1, <1>3, <1>4
    <3>2. CASE i # node[r].size
      BY <3>2, <2>1, <1>3, <1>4
    <3> QED
      BY <3>1, <3>2
  <2> QED
    BY <2>1, <2>2, <2>3, <1>2, <1>4 DEF Appended
<1>5. CASE ~(Ends /\ r = req.ofs)
  <2>1. node'[r].size = node[r].size
    BY <1>1, <1>5 DEF Sized
  <2>2. \A i \in Nat : ArrGet(r, i)' = ArrGet(r, i)
    BY <1>3, <1>5
  <2> QED
    BY <2>1, <2>2, <1>2, <1>5 DEF Appended
<1> QED
  BY <1>4, <1>5

\* A new array is empty.
LEMMA NewArrayTold ==
  ASSUME Told, Sized, NEW r \in roots' \ roots, node'[r].type = "Array"
  PROVE  node'[r].size = 0 /\ \A i \in Nat : ArrGet(r, i)' = NoValue
<1>1. ASSUME NEW i \in Nat
      PROVE  ArrGet(r, i)' = NoValue
  <2>1. PICK q : q = [key |-> EmptyKey, hash |-> i, append |-> TRUE]
    OBVIOUS
  <2>2. Asks("Array", q)
    BY <2>1 DEF Asks, Seeks, EntryFits
  <2>3. Lookup(r, q)' = NoValue
    BY <2>2 DEF Told
  <2> QED
    BY <2>1, <2>3 DEF ArrGet
<1> QED
  BY <1>1 DEF Sized

LEMMA NextCounted ==
  ASSUME Ordered, Told, Sized, Counted, SizesFit
  PROVE  Counted'
<1> SUFFICES ASSUME NEW r \in RootsOf("Array")', NEW i \in Nat
             PROVE  ArrGet(r, i)' # NoValue <=> i < node'[r].size
  BY DEF Counted
<1>1. r \in roots' /\ node'[r].type = "Array"
  BY DEF RootsOf
<1>2. CASE r \in roots
  <2>1. r \in RootsOf("Array")
    BY <1>1, <1>2 DEF Told, RootsOf
  <2>2. node[r].size \in Nat /\ Appended(r)
    BY <2>1, ArrayTold
  <2>3. ArrGet(r, i) # NoValue <=> i < node[r].size
    BY <2>1 DEF Counted
  <2>4. CASE Ends /\ r = req.ofs
    <3>1. req.val \in Values
      BY <2>4, RequestFits DEF Ends
    <3> QED
      BY <2>2, <2>3, <2>4, <3>1, ValuesAssumption DEF Appended
  <2>5. CASE ~(Ends /\ r = req.ofs)
    BY <2>2, <2>3, <2>5 DEF Appended
  <2> QED
    BY <2>4, <2>5
<1>3. CASE r \notin roots
  BY <1>1, <1>3, NewArrayTold
<1> QED
  BY <1>2, <1>3

\* What an append leaves, element by element.
LEMMA AppendedElements ==
  ASSUME NEW n \in Nat, NEW s, s = [i \in 1 .. n |-> s[i]], NEW v
  PROVE  Append(s, v) = [i \in 1 .. n + 1 |-> IF i = n + 1 THEN v ELSE s[i]]
<1> DEFINE S == {s[i] : i \in 1 .. n}
<1>1. s \in Seq(S) /\ Len(s) = n
  <2>1. s \in [1 .. n -> S]
    <3>1. \A i \in 1 .. n : s[i] \in S
      OBVIOUS
    <3> HIDE DEF S
    <3> QED
      BY <3>1
  <2> HIDE DEF S
  <2> QED
    BY <2>1
<1> HIDE DEF S
<1>2. s \in Seq(S \cup {v}) /\ v \in S \cup {v}
  BY <1>1
<1>3. /\ Append(s, v) \in Seq(S \cup {v}) /\ Len(Append(s, v)) = n + 1
      /\ \A i \in 1 .. n : Append(s, v)[i] = s[i]
      /\ Append(s, v)[n + 1] = v
  BY <1>1, <1>2, AppendProperties
<1>4. PICK z : z = Append(s, v)
  OBVIOUS
<1>5. /\ z = [i \in 1 .. n + 1 |-> z[i]]
      /\ \A i \in 1 .. n : z[i] = s[i]
      /\ z[n + 1] = v
  BY <1>3, <1>4
<1>6. \A i \in 1 .. n + 1 : z[i] = IF i = n + 1 THEN v ELSE s[i]
  BY <1>5, SMTT(30)
<1> QED
  BY <1>4, <1>5, <1>6

LEMMA LogsAre ==
  /\ DOMAIN Elements = RootsOf("Array")
  /\ \A r \in RootsOf("Array") :
       Elements[r] = [i \in 1 .. node[r].size |-> ArrGet(r, i - 1)]
BY DEF Elements

\* The arrays stay as they are unless a call of one of them returns.
LEMMA ElementsStay ==
  ASSUME Ordered, Told, Sized, Counted, SizesFit,
         RootsOf("Array")' = RootsOf("Array"),
         Ends => req.ofs \notin RootsOf("Array")
  PROVE  Elements' = Elements
<1>1. \A r \in RootsOf("Array") :
        /\ node'[r].size = node[r].size /\ node[r].size \in Nat
        /\ \A i \in Nat : ArrGet(r, i)' = ArrGet(r, i)
  BY ArrayTold DEF Appended
<1>2. \A r \in RootsOf("Array") :
        [i \in 1 .. node'[r].size |-> ArrGet(r, i - 1)']
          = [i \in 1 .. node[r].size |-> ArrGet(r, i - 1)]
  <2> TAKE r \in RootsOf("Array")
  <2>1. PICK n \in Nat : n = node[r].size
    BY <1>1
  <2>2. \A i \in 1 .. n : ArrGet(r, i - 1)' = ArrGet(r, i - 1)
    BY <1>1
  <2> QED
    BY <1>1, <2>1, <2>2
<1>3. Elements' = [r \in RootsOf("Array") |->
                     [i \in 1 .. node'[r].size |-> ArrGet(r, i - 1)']]
  BY DEF Elements
<1> QED
  BY <1>2, <1>3 DEF Elements

\* Making an array makes an empty sequence; making an object changes none.
LEMMA CreateLogs ==
  ASSUME Ordered, Told, Sized, Counted, SizesFit,
         NEW t \in Types, InitStructure(t)
  PROVE  [Logs!Next]_(Logs!vars)
<1>1. /\ pc = "idle" /\ pc' = "idle" /\ roots' = roots \cup {used} /\ used \in Nat
      /\ node' = [n \in 0 .. used |->
                   IF n = used THEN EmptyNode(1, t) ELSE node[n]]
      /\ roots \subseteq Nodes /\ used < MaxNodes /\ req' = req
  BY SoundNodes DEF InitStructure, Ordered, Shapely, Sound, TypeOK
<1>2. used \notin roots /\ node'[used].type = t
  BY <1>1 DEF Nodes, EmptyNode
<1>3. ArrayCall = Logs!Nothing /\ ArrayCall' = ArrayCall
  BY <1>1 DEF ArrayCall, Logs!Nothing
<1>4. \A r \in roots : r \in roots' /\ node'[r].type = node[r].type
  BY DEF Told
<1>5. CASE t = "Object"
  <2>1. RootsOf("Array")' = RootsOf("Array")
    BY <1>1, <1>2, <1>4, <1>5 DEF RootsOf
  <2>2. Elements' = Elements
    BY <2>1, <1>1, ElementsStay DEF Ends
  <2> QED
    BY <2>2, <1>3 DEF Logs!vars
<1>6. CASE t = "Array"
  <2>1. PICK u : u = used
    OBVIOUS
  <2>2. RootsOf("Array")' = RootsOf("Array") \cup {u} /\ u \notin RootsOf("Array")
    BY <2>1, <1>1, <1>2, <1>4, <1>6 DEF RootsOf
  <2>3. \A r \in RootsOf("Array") :
          /\ node'[r].size = node[r].size /\ node[r].size \in Nat
          /\ \A i \in Nat : ArrGet(r, i)' = ArrGet(r, i)
    BY <1>1, ArrayTold DEF Appended, Ends
  <2>4. node'[u].size = 0
    BY <2>1, <1>1, <1>2, <1>6, NewArrayTold
  <2> DEFINE Now(r) == [i \in 1 .. node'[r].size |-> ArrGet(r, i - 1)']
  <2>5. \A r \in RootsOf("Array") : Now(r) = Elements[r]
    <3> TAKE r \in RootsOf("Array")
    <3>1. PICK n \in Nat : n = node[r].size
      BY <2>3
    <3>2. \A i \in 1 .. n : ArrGet(r, i - 1)' = ArrGet(r, i - 1)
      BY <2>3
    <3>3. Elements[r] = [i \in 1 .. n |-> ArrGet(r, i - 1)]
      BY <3>1, LogsAre
    <3> QED
      BY <2>3, <3>1, <3>2, <3>3
  <2>6. Now(u) = <<>>
    BY <2>4
  <2>7. Elements' = [r \in RootsOf("Array") \cup {u} |-> Now(r)]
    BY <2>2 DEF Elements
  <2>8. DOMAIN Elements = RootsOf("Array")
    BY LogsAre
  <2>9. Elements' = [g \in DOMAIN Elements \cup {u} |->
                       IF g = u THEN <<>> ELSE Elements[g]]
    <3> HIDE DEF Now
    <3> QED
      BY <2>2, <2>5, <2>6, <2>7, <2>8
  <2>10. u \in 0 .. MaxNodes
    BY <2>1, <1>1, BoundAssumption
  <2>11. Logs!Create(u)
    BY <2>2, <2>8, <2>9, <1>3 DEF Logs!Create
  <2> QED
    BY <2>10, <2>11 DEF Logs!Next
<1> QED
  BY <1>5, <1>6 DEF Types

\* An append begins; a call of an object is none to the arrays.
LEMMA StartLogs ==
  ASSUME Ordered, Told, Sized, Counted, SizesFit, NEW request, Start(request),
         \/ \E r \in RootsOf("Array"), v \in Values :
              request = [ofs |-> r, key |-> EmptyKey, hash |-> node[r].size,
                         val |-> v, append |-> TRUE]
         \/ ~request.append
  PROVE  [Logs!Next]_(Logs!vars)
<1>1. /\ pc = "idle" /\ pc' = "loop" /\ req' = request /\ roots' = roots
      /\ used < MaxNodes /\ used \in Nat /\ roots \subseteq Nodes
  BY SoundNodes DEF Start, Ordered, Shapely, Sound, TypeOK
<1>2. Elements' = Elements
  BY <1>1, ObjectsStay, ElementsStay DEF Ends
<1>3. ArrayCall = Logs!Nothing
  BY <1>1 DEF ArrayCall, Logs!Nothing
<1>4. CASE ~request.append
  <2>1. ArrayCall' = ArrayCall
    BY <1>1, <1>3, <1>4 DEF ArrayCall, Logs!Nothing
  <2> QED
    BY <2>1, <1>2 DEF Logs!vars
<1>5. ASSUME NEW r \in RootsOf("Array"), NEW v \in Values,
             request = [ofs |-> r, key |-> EmptyKey, hash |-> node[r].size,
                        val |-> v, append |-> TRUE]
      PROVE  Logs!Next
  <2>1. ArrayCall' = [ofs |-> r, val |-> v]
    BY <1>1, <1>5 DEF ArrayCall
  <2>2. r \in DOMAIN Elements
    BY LogsAre
  <2>3. r \in 0 .. MaxNodes
    BY <1>1, BoundAssumption DEF RootsOf, Nodes
  <2>4. Logs!Call(r, v)
    BY <2>1, <2>2, <1>2, <1>3 DEF Logs!Call
  <2> QED
    BY <2>3, <2>4 DEF Logs!Next
<1> QED
  BY <1>4, <1>5

\* An append that returns has added its element.
LEMMA ReturnLogs ==
  ASSUME Ordered, Told, Sized, Counted, SizesFit, Ends, roots' = roots
  PROVE  [Logs!Next]_(Logs!vars)
<1>1. /\ pc = "loop" /\ pc' = "idle" /\ Seeks(node[req.ofs].type, req)
      /\ req.ofs \in roots /\ node[req.ofs].type \in Types /\ req \in Request
  BY RequestFits DEF Ends
<1>2. RootsOf("Array")' = RootsOf("Array")
  BY ObjectsStay
<1>3. ArrayCall' = Logs!Nothing
  BY <1>1 DEF ArrayCall, Logs!Nothing
<1>4. CASE ~req.append
  <2>1. req.ofs \notin RootsOf("Array")
    BY <1>1, <1>4 DEF Seeks, RootsOf
  <2>2. Elements' = Elements
    BY <2>1, <1>2, ElementsStay
  <2>3. ArrayCall = Logs!Nothing
    BY <1>4 DEF ArrayCall, Logs!Nothing
  <2> QED
    BY <2>2, <2>3, <1>3 DEF Logs!vars
<1>5. CASE req.append
  <2>1. PICK o, v, n : o = req.ofs /\ v = req.val /\ n = node[o].size
    OBVIOUS
  <2>2. o \in RootsOf("Array")
    BY <2>1, <1>1, <1>5 DEF Seeks, RootsOf
  <2>3. ArrayCall = [ofs |-> o, val |-> v]
    BY <2>1, <1>1, <1>5 DEF ArrayCall
  <2>4. ArrayCall # Logs!Nothing
    <3>1. DOMAIN ArrayCall = {"ofs", "val"} /\ DOMAIN Logs!Nothing = {"ofs"}
      BY <2>3 DEF Logs!Nothing
    <3> QED
      BY <3>1
  <2>5. ArrayCall.ofs = o /\ ArrayCall.val = v
    BY <2>3
  <2>6. /\ n \in Nat /\ node'[o].size = n + 1
        /\ \A i \in Nat : ArrGet(o, i)' = IF i = n THEN v ELSE ArrGet(o, i)
    BY <2>1, <2>2, ArrayTold DEF Appended
  <2>7. \A r \in RootsOf("Array") : r # o =>
          /\ node'[r].size = node[r].size /\ node[r].size \in Nat
          /\ \A i \in Nat : ArrGet(r, i)' = ArrGet(r, i)
    BY <2>1, ArrayTold DEF Appended
  <2> DEFINE Now(r) == [i \in 1 .. node'[r].size |-> ArrGet(r, i - 1)']
  <2>8. \A r \in RootsOf("Array") : r # o => Now(r) = Elements[r]
    <3> SUFFICES ASSUME NEW r \in RootsOf("Array"), r # o
                 PROVE  Now(r) = Elements[r]
      OBVIOUS
    <3>1. PICK m \in Nat : m = node[r].size
      BY <2>7
    <3>2. \A i \in 1 .. m : ArrGet(r, i - 1)' = ArrGet(r, i - 1)
      BY <2>7
    <3>3. Elements[r] = [i \in 1 .. m |-> ArrGet(r, i - 1)]
      BY <3>1, LogsAre
    <3> QED
      BY <2>7, <3>1, <3>2, <3>3
  <2>9. Now(o) = Append(Elements[o], v)
    <3>1. PICK s : s = Elements[o]
      OBVIOUS
    <3>2. s = [i \in 1 .. n |-> ArrGet(o, i - 1)]
      BY <3>1, <2>1, <2>2, LogsAre
    <3>3. s = [i \in 1 .. n |-> s[i]]
      BY <3>2
    <3>4. Append(s, v) = [i \in 1 .. n + 1 |-> IF i = n + 1 THEN v ELSE s[i]]
      BY <3>3, <2>6, AppendedElements
    <3>5. \A i \in 1 .. n + 1 : ArrGet(o, i - 1)' = IF i = n + 1 THEN v ELSE s[i]
      <4> TAKE i \in 1 .. n + 1
      <4>1. i - 1 \in Nat /\ (i - 1 = n <=> i = n + 1) /\ (i # n + 1 => i \in 1 .. n)
        BY <2>6
      <4>2. i # n + 1 => s[i] = ArrGet(o, i - 1)
        BY <3>2, <4>1
      <4> QED
        BY <4>1, <4>2, <2>6
    <3> QED
      BY <3>1, <3>4, <3>5, <2>6
  <2>10. /\ DOMAIN Elements = RootsOf("Array")
         /\ Elements' = [r \in RootsOf("Array") |-> Now(r)]
    BY <1>2 DEF Elements
  <2>11. Elements' = [Elements EXCEPT ![o] = Append(@, v)]
    <3> HIDE DEF Now
    <3> QED
      BY <2>2, <2>8, <2>9, <2>10
  <2>12. Logs!Store
    BY <2>11, <2>4, <2>5, <1>3 DEF Logs!Store
  <2> QED
    BY <2>12 DEF Logs!Next
<1> QED
  BY <1>4, <1>5

LEMMA NextLogs ==
  ASSUME Ordered, Told, Sized, Counted, SizesFit, [Next]_vars
  PROVE  [Logs!Next]_(Logs!vars)
<1>1. ASSUME NEW t \in Types, InitStructure(t)
      PROVE  [Logs!Next]_(Logs!vars)
  BY <1>1, CreateLogs
<1>2. ASSUME NEW r \in RootsOf("Object"), NEW k \in Keys, NEW v \in Values,
             SetBegin(r, k, v)
      PROVE  [Logs!Next]_(Logs!vars)
  <2>1. PICK request : request = [ofs |-> r, key |-> k, hash |-> Hash[k],
                                  val |-> v, append |-> FALSE]
    OBVIOUS
  <2>2. Start(request) /\ ~request.append
    BY <2>1, <1>2 DEF SetBegin
  <2> QED
    BY <2>2, StartLogs
<1>3. ASSUME NEW r \in RootsOf("Array"), NEW v \in Values, AppendBegin(r, v)
      PROVE  [Logs!Next]_(Logs!vars)
  <2>1. PICK request : request = [ofs |-> r, key |-> EmptyKey,
                                  hash |-> node[r].size, val |-> v,
                                  append |-> TRUE]
    OBVIOUS
  <2>2. Start(request)
    BY <2>1, <1>3 DEF AppendBegin
  <2> QED
    BY <2>1, <2>2, StartLogs
<1>4. ASSUME \/ SplitRoot \/ SplitChild \/ Descend \/ UNCHANGED vars
      PROVE  [Logs!Next]_(Logs!vars)
  <2>1. pc' = pc /\ roots' = roots /\ req' = req
    BY <1>4 DEF SplitRoot, SplitChild, Descend, vars
  <2>2. Elements' = Elements /\ ArrayCall' = ArrayCall
    BY <2>1, ObjectsStay, ElementsStay DEF Ends, ArrayCall
  <2> QED
    BY <2>2 DEF Logs!vars
<1>5. ASSUME Overwrite \/ InsertLeaf
      PROVE  [Logs!Next]_(Logs!vars)
  <2>1. Ends /\ roots' = roots
    <3>1. Sound /\ pc = "loop"
      BY <1>5 DEF Ordered, Shapely, Overwrite, InsertLeaf
    <3>2. \E ks : Wrote(ks)
      BY <3>1, <1>5, OverwriteKeys, InsertLeafKeys
    <3> QED
      BY <3>1, <3>2 DEF Wrote, Ends
  <2> QED
    BY <2>1, ReturnLogs
<1> QED
  BY <1>1, <1>2, <1>3, <1>4, <1>5, Zenon DEF Next, Turn

LEMMA InitLogs == Init => Logs!Init /\ Counted
<1> SUFFICES ASSUME Init
             PROVE  Logs!Init /\ Counted
  OBVIOUS
<1>1. RootsOf("Array") = {} /\ pc = "idle"
  BY DEF Init, RootsOf
<1>2. ArrayCall = Logs!Nothing
  BY <1>1 DEF ArrayCall, Logs!Nothing
<1>3. Elements = [h \in {} |-> <<>>]
  BY <1>1 DEF Elements
<1> QED
  BY <1>1, <1>2, <1>3 DEF Logs!Init, Counted

\* While no array's size reaches the width of its field, each array has the
\* elements 0, 1, ... that its size counts, whatever its appends have split.
THEOREM CountedAlways ==
  ASSUME HashInjective
  PROVE  Spec /\ []SizesFit => []Counted
<1>1. AllRead
  BY AllReadHolds
<1>2. Ordered /\ [Next]_vars /\ Ordered' /\ AllRead /\ AllRead'
      /\ Counted /\ SizesFit => Counted'
  BY NextTold, NextSized, NextCounted
<1>3. Spec => []Ordered
  BY OrderedAlways
<1> QED
  BY <1>1, <1>2, <1>3, InitLogs, PTL DEF Spec

\* And its callers see a sequence to which each append adds its element at the
\* end, at its last turn, and that no other call changes.
THEOREM ArraysAreLogsAlways ==
  ASSUME HashInjective
  PROVE  Spec /\ []SizesFit => ArraysAreLogs
<1>1. AllRead
  BY AllReadHolds
<1>2. Ordered /\ [Next]_vars /\ Ordered' /\ AllRead /\ AllRead'
      /\ Counted /\ SizesFit => [Logs!Next]_(Logs!vars)
  BY NextTold, NextSized, NextLogs
<1>3. Spec => []Ordered
  BY OrderedAlways
<1>4. Spec /\ []SizesFit => []Counted
  BY CountedAlways
<1> QED
  BY <1>1, <1>2, <1>3, <1>4, InitLogs, PTL DEF Spec, ArraysAreLogs, Logs!Spec

-----------------------------------------------------------------------------
(***************************************************************************)
(* Arrays have no gaps                                                     *)
(***************************************************************************)

\* The indices in the tree of an array are those that its size counts.
LEMMA HeldCounted ==
  ASSUME Shapely, AllRead, Counted, NEW lev, NEW home, NEW H, NEW lo, NEW hi,
         Arranged(lev, home, H, lo, hi), NEW r \in RootsOf("Array"), NEW h \in Nat
  PROVE  (\E v \in Values : Has(home, hi, r, h, v)) <=> h < node[r].size
<1>1. r \in roots /\ node[r].type = "Array" /\ Reads(home, hi)
  BY DEF RootsOf, AllRead
<1>2. PICK q : q = [key |-> EmptyKey, hash |-> h, append |-> TRUE]
  OBVIOUS
<1>3. q.hash = h /\ Seeks("Array", q)
  BY <1>2 DEF Seeks, EntryFits
<1>4. /\ Lookup(r, q) \in Results
      /\ \A v \in Values : Lookup(r, q) = v <=> Has(home, hi, r, h, v)
  BY <1>1, <1>3 DEF Reads
<1>5. ArrGet(r, h) = Lookup(r, q)
  BY <1>2 DEF ArrGet
<1>6. (\E v \in Values : Has(home, hi, r, h, v)) <=> Lookup(r, q) # NoValue
  <2>1. PICK x : x = Lookup(r, q)
    OBVIOUS
  <2> QED
    BY <2>1, <1>4, ValuesAssumption DEF Results
<1> QED
  BY <1>5, <1>6 DEF Counted

\* An append never meets its own index as the bound of a node.
LEMMA AppendFresh ==
  ASSUME Shapely, AllRead, Counted, NEW lev, NEW home, NEW H, NEW lo, NEW hi,
         Arranged(lev, home, H, lo, hi)
  PROVE  Fresh(hi)
<1> SUFFICES ASSUME pc = "loop", node[node_ofs].type = "Array",
                    hi[node_ofs] = req.hash
             PROVE  FALSE
  BY DEF Fresh
<1>1. PICK r, h : r = req.ofs /\ h = req.hash
  OBVIOUS
<1>2. /\ node_ofs \in Nodes /\ h \in Nat /\ r \in roots
  BY <1>1, TurnFacts DEF Shapely, Request
<1>3. home[node_ofs] = r /\ node[r].type = "Array"
  BY <1>1, <1>2 DEF Arranged, Ranking, WalkRank, Typed
<1>4. h = node[r].size /\ r \in RootsOf("Array")
  BY <1>1, <1>2, <1>3 DEF Arranged, Typed, Seeks, RootsOf
<1>5. \E v \in Values : Has(home, hi, r, h, v)
  BY <1>1, <1>2, <1>3, BoundIsHeld DEF None
<1> QED
  BY <1>2, <1>4, <1>5, HeldCounted

\* The inductive invariant for the arrays.
Numbered ==
  /\ Shapely /\ Counted
  /\ \E lev, home, H, lo, hi : Arranged(lev, home, H, lo, hi) /\ Distinct(hi)

LEMMA NextNumbered ==
  ASSUME HashInjective, AllRead, Numbered, [Next]_vars, Ordered', Counted'
  PROVE  Numbered'
<1>1. PICK lev, home, H, lo, hi : Arranged(lev, home, H, lo, hi) /\ Distinct(hi)
  BY DEF Numbered
<1>2. Shapely /\ Fresh(hi)
  BY <1>1, AppendFresh DEF Numbered
<1>3. PICK lv, hm, h, l2, h2 :
        Arranged(lv, hm, h, l2, h2)' /\ Effect(home, hi, hm, h2)
  BY <1>1, <1>2, NextHeld
<1>4. Distinct(h2)'
  BY <1>1, <1>2, <1>3 DEF Effect
<1> QED
  BY <1>3, <1>4 DEF Numbered, Ordered

\* es has an entry for every index between l and t.
Dense(es, l, t) ==
  /\ es \in Seq(Entry) /\ Len(es) = t - l - 1
  /\ \A j \in 1 .. Len(es) : es[j].hash = l + j

LEMMA DenseJoin ==
  ASSUME NEW l \in Int, NEW t \in Int, NEW e \in Entry, NEW a, NEW c,
         Dense(a, l, e.hash), Dense(c, e.hash, t)
  PROVE  Dense(a \o <<e>> \o c, l, t)
<1>1. a \in Seq(Entry) /\ c \in Seq(Entry) /\ e.hash \in Nat
  BY DEF Dense, Entry
<1>2. PICK z, A, C, g : z = a \o <<e>> \o c /\ A = Len(a) /\ C = Len(c) /\ g = e.hash
  OBVIOUS
<1>3. /\ z \in Seq(Entry) /\ A \in Nat /\ C \in Nat /\ Len(z) = A + 1 + C
      /\ \A j \in 1 .. A + 1 + C : z[j] = IF j <= A THEN a[j]
                                          ELSE IF j = A + 1 THEN e ELSE c[j - (A + 1)]
  BY <1>1, <1>2, Joined
<1>4. /\ A = g - l - 1 /\ C = t - g - 1 /\ g \in Nat
      /\ \A j \in 1 .. A : a[j].hash = l + j
      /\ \A j \in 1 .. C : c[j].hash = g + j
  BY <1>1, <1>2 DEF Dense
<1>5. A + 1 + C = t - l - 1
  BY <1>3, <1>4
<1>6. ASSUME NEW j \in 1 .. A + 1 + C
      PROVE  z[j].hash = l + j
  <2>1. CASE j <= A
    <3>1. j \in 1 .. A /\ z[j] = a[j]
      BY <2>1, <1>3
    <3>2. a[j].hash = l + j
      BY <3>1, <1>4
    <3> QED
      BY <3>1, <3>2, Zenon
  <2>2. CASE j = A + 1
    <3>1. z[j] = e
      BY <2>2, <1>3
    <3>2. z[j].hash = g
      BY <3>1, <1>2, Zenon
    <3>3. g = l + j
      BY <2>2, <1>3, <1>4
    <3> QED
      BY <3>2, <3>3, Zenon
  <2>3. CASE j > A + 1
    <3>1. PICK k : k = j - (A + 1)
      OBVIOUS
    <3>2. k \in 1 .. C /\ z[j] = c[k] /\ g + k = l + j
      BY <3>1, <2>3, <1>3, <1>4
    <3>3. c[k].hash = g + k
      BY <3>2, <1>4
    <3> QED
      BY <3>2, <3>3, Zenon
  <2> QED
    BY <2>1, <2>2, <2>3, <1>3
<1> QED
  BY <1>2, <1>3, <1>5, <1>6 DEF Dense

\* The bound x of a tree of S elements.
Top(S, x) == IF x = None THEN S ELSE x

\* A leaf of an array has no room for another index but at the end.
LEMMA NoGap ==
  ASSUME HashInjective, Shapely, AllRead, Counted,
         NEW lev, NEW home, NEW H, NEW lo, NEW hi,
         Arranged(lev, home, H, lo, hi), Distinct(hi),
         NEW r \in RootsOf("Array"), NEW m \in Nodes, NEW s \in Live(m),
         home[m] = r, IsLeaf(m)
  PROVE  /\ LoOf(lo, m, s) \in Int /\ HiOf(hi, m, s) \in Int
         /\ Top(node[r].size, HiOf(hi, m, s)) = LoOf(lo, m, s) + 1
<1>1. PICK ks, L, S, l, t, T :
        /\ ks = node[m].keys /\ L = Len(ks) /\ S = node[r].size
        /\ l = LoOf(lo, m, s) /\ t = HiOf(hi, m, s) /\ T = Top(S, t)
  OBVIOUS
<1>2. /\ L \in Nat /\ \A j \in 1 .. L : ks[j].hash \in Nat /\ ks[j].val \in Values
      /\ lo[m] \in Nat \cup {None} /\ hi[m] \in Nat \cup {None}
      /\ Rising(ks) /\ Between(ks, lo[m], hi[m], TRUE)
  <2>1. /\ L \in Nat /\ \A j \in 1 .. L : ks[j] \in Entry
        /\ lo[m] \in Nat \cup {None} /\ hi[m] \in Nat \cup {None}
        /\ Rising(ks) /\ Between(ks, lo[m], hi[m], IsLeaf(m))
    BY <1>1, NodeBounds
  <2>2. Between(ks, lo[m], hi[m], TRUE)
    BY <2>1 DEF Between
  <2> QED
    BY <2>1, <2>2 DEF Entry
<1>3. /\ r \in roots /\ node[r].type = "Array" /\ S \in Nat
      /\ node[m].type = "Array" /\ s \in 0 .. L
  <2>1. r \in roots /\ node[r].type = "Array" /\ r \in Nodes
    BY DEF RootsOf, Shapely, Sound, TypeOK
  <2>2. node[m].type = "Array"
    BY <2>1 DEF Arranged, Typed
  <2>3. S \in Nat
    BY <2>1, <1>1, SoundNodes, WidthAssumption DEF Shapely, WellFormed, Node
  <2>4. s \in 0 .. L
    BY <1>1 DEF Live
  <2> QED
    BY <2>1, <2>2, <2>3, <2>4
<1>4. ASSUME NEW j \in 1 .. L
      PROVE  /\ ks[j].hash < S /\ lo[m] < ks[j].hash
             /\ hi[m] = None \/ ks[j].hash < hi[m]
  <2>1. ks[j].hash # hi[m]
    BY <1>1, <1>3 DEF Distinct
  <2>2. PICK g, v : g = ks[j].hash /\ v = ks[j].val
    OBVIOUS
  <2>3. /\ lo[m] < g
        /\ hi[m] = None \/ g < hi[m]
    <3>1. j \in 1 .. Len(ks)
      BY <1>1
    <3>2. lo[m] < ks[j].hash /\ (Below(ks[j].hash, hi[m]) \/ ks[j].hash = hi[m])
      BY <3>1, <1>2, Zenon DEF Between
    <3> QED
      BY <3>2, <2>1, <2>2 DEF Below
  <2>4. HeldAt(home, hi, r, g, v, m, j)
    BY <2>1, <2>2, <1>1 DEF HeldAt
  <2>5. v \in Values /\ g \in Nat /\ Has(home, hi, r, g, v)
    BY <2>2, <2>4, <1>2 DEF Has
  <2>6. g < S
    BY <2>5, <1>1, HeldCounted
  <2> QED
    BY <2>2, <2>3, <2>6
<1>5. hi[m] # None => hi[m] < S
  <2>1. ASSUME hi[m] # None
        PROVE  hi[m] < S
    <3>1. \E v \in Values : Has(home, hi, r, hi[m], v)
      BY <2>1, BoundIsHeld
    <3>2. hi[m] \in Nat
      BY <2>1, <1>2
    <3> QED
      BY <3>1, <3>2, <1>1, HeldCounted
  <2> QED
    BY <2>1
<1>6. s # 0 => l = ks[s].hash /\ s \in 1 .. L
  BY <1>1, <1>2, <1>3 DEF LoOf
<1>7. s = 0 => l = lo[m]
  BY <1>1 DEF LoOf
<1>8. s # L => t = ks[s + 1].hash /\ s + 1 \in 1 .. L
  BY <1>1, <1>2, <1>3 DEF HiOf
<1>9. s = L => t = hi[m]
  BY <1>1 DEF HiOf
<1>10. /\ l \in Nat \cup {None} /\ t \in Nat \cup {None}
       /\ lo[m] <= l /\ T \in Nat /\ T <= S
  <2>1. l \in Nat \cup {None} /\ lo[m] <= l
    <3>1. CASE s = 0
      BY <3>1, <1>2, <1>7 DEF None
    <3>2. CASE s # 0
      <4>1. lo[m] < ks[s].hash /\ ks[s].hash \in Nat
        BY <3>2, <1>2, <1>4, <1>6
      <4> QED
        BY <4>1, <3>2, <1>2, <1>6 DEF None
    <3> QED
      BY <3>1, <3>2
  <2>2. t \in Nat \cup {None} /\ (t # None => t < S)
    BY <1>2, <1>4, <1>5, <1>8, <1>9
  <2>3. T \in Nat /\ T <= S
    BY <2>2, <1>1, <1>3 DEF Top
  <2> QED
    BY <2>1, <2>2, <2>3
<1>11. l < T
  <2>1. CASE s # L
    <3>1. t = ks[s + 1].hash /\ s + 1 \in 1 .. L /\ t \in Nat /\ T = t
      BY <2>1, <1>1, <1>2, <1>8 DEF Top, None
    <3>2. CASE s = 0
      <4>1. lo[m] < ks[s + 1].hash
        BY <3>1, <1>4
      <4> QED
        BY <4>1, <3>1, <3>2, <1>7
    <3>3. CASE s # 0
      <4>1. ks[s].hash < ks[s + 1].hash
        BY <3>1, <3>3, <1>1, <1>2, <1>6 DEF Rising
      <4> QED
        BY <4>1, <3>1, <3>3, <1>6
    <3> QED
      BY <3>2, <3>3
  <2>2. CASE s = L /\ s # 0
    <3>1. l = ks[s].hash /\ s \in 1 .. L /\ t = hi[m]
      BY <2>2, <1>6, <1>9
    <3>2. ks[s].hash < S
      BY <3>1, <1>4
    <3>3. hi[m] = None \/ ks[s].hash < hi[m]
      BY <3>1, <1>4
    <3>4. l < S /\ (t = None \/ l < t)
      BY <3>1, <3>2, <3>3
    <3> QED
      BY <3>4, <1>1 DEF Top
  <2>3. CASE s = L /\ s = 0
    <3>1. m \in roots
      <4>1. m \notin roots => L >= Mid
        BY <1>1 DEF Shapely, HalfFull
      <4> QED
        BY <4>1, <2>3, MidInside
    <3>2. l = None /\ t = None
      BY <3>1, <2>3, <1>7, <1>9 DEF Arranged, Order, BoundsLinked
    <3> QED
      BY <3>2, <1>1, <1>3 DEF Top, None
  <2> QED
    BY <2>1, <2>2, <2>3
<1>12. ~(l + 1 < T)
  <2>1. SUFFICES ASSUME l + 1 < T
                 PROVE  FALSE
    OBVIOUS
  <2>2. PICK h : h = l + 1
    OBVIOUS
  <2>3. h \in Nat /\ l < h /\ h < S /\ lo[m] < h /\ (t = None \/ h < t)
    BY <2>1, <2>2, <1>1, <1>2, <1>3, <1>10 DEF Top, None
  <2>4. hi[m] = None \/ h < hi[m]
    <3>1. CASE s = L
      BY <3>1, <2>3, <1>9
    <3>2. CASE s # L
      <4>1. h < ks[s + 1].hash /\ ks[s + 1].hash \in Nat /\ s + 1 \in 1 .. L
        BY <3>2, <2>3, <1>2, <1>8 DEF None
      <4> QED
        BY <4>1, <2>3, <1>2, <1>4 DEF None
    <3> QED
      BY <3>1, <3>2
  <2>5. PICK v \in Values : Has(home, hi, r, h, v)
    BY <2>3, <1>1, HeldCounted
  <2>6. PICK q : q = [key |-> EmptyKey, hash |-> h, append |-> TRUE]
    OBVIOUS
  <2>7. q.hash = h /\ Seeks("Array", q)
    BY <2>6 DEF Seeks, EntryFits
  <2>8. PICK f : Searches(f, q) /\ \A n : Lookup(n, q) = f[n]
    BY LookupSearches DEF Arranged, Ranking
  <2>9. f[r] = v
    <3>1. Reads(home, hi)
      BY DEF AllRead
    <3>2. Lookup(r, q) = v
      BY <3>1, <2>3, <2>5, <2>7, <1>3 DEF Reads
    <3> QED
      BY <3>2, <2>8
  <2>10. Strict(lo, hi, m, q.hash)
    BY <2>3, <2>4, <2>7 DEF Strict, Below
  <2>11. f[m] = f[r]
    BY <2>3, <2>7, <2>8, <2>10, <1>3, FoundFromRoot
  <2>12. PICK i : i = Position(ks, q)
    OBVIOUS
  <2>13. i \in Live(m) /\ ~Found(ks, q)
    <3>1. LoOf(lo, m, s) < q.hash /\ Below(q.hash, HiOf(hi, m, s))
      BY <2>3, <2>7, <1>1 DEF Below
    <3> QED
      BY <3>1, <2>3, <2>7, <2>10, <2>12, <1>1, <1>3, SearchTurns
  <2>14. node[m].child[i] = 0
    BY <2>13, NodeBounds
  <2>15. f[m] = NoValue
    BY <2>8, <2>12, <2>13, <2>14, <1>1 DEF Searches, Child
  <2> QED
    BY <2>9, <2>11, <2>15, ValuesAssumption
<1>13. T = l + 1
  BY <1>10, <1>11, <1>12 DEF None
<1> QED
  BY <1>1, <1>10, <1>13 DEF None

\* The entries of an array are those of the indices that its size counts.
LEMMA DenseArray ==
  ASSUME HashInjective, AllRead, Numbered, NEW r \in RootsOf("Array")
  PROVE  Dense(InOrder(r), None, node[r].size)
<1>1. PICK lev, home, H, lo, hi : Arranged(lev, home, H, lo, hi) /\ Distinct(hi)
  BY DEF Numbered
<1>2. /\ Shapely /\ Counted /\ r \in roots /\ r \in Nodes /\ node[r].size \in Int
      /\ home[r] = r /\ lo[r] = None /\ hi[r] = None
  <2>1. Shapely /\ Counted /\ r \in roots
    BY DEF Numbered, RootsOf
  <2>2. r \in Nodes
    BY <2>1 DEF Shapely, Sound, TypeOK
  <2>3. node[r].size \in Int
    BY <2>1, <2>2, SoundNodes, WidthAssumption DEF Shapely, WellFormed, Node
  <2> QED
    BY <2>1, <2>2, <2>3, <1>1 DEF Arranged, Ranking, Trees, Order, BoundsLinked
<1>3. PICK S \in Int : S = node[r].size
  BY <1>2
<1> DEFINE R == {x \in Seq(Entry) \X Int \X Int : Dense(x[1], x[2], Top(S, x[3]))}
<1>4. ASSUME NEW m \in Nodes, NEW s \in Live(m), home[m] = r, IsLeaf(m)
      PROVE  <<<<>>, LoOf(lo, m, s), HiOf(hi, m, s)>> \in R
  <2>1. PICK a, l, t : a = <<>> /\ l = LoOf(lo, m, s) /\ t = HiOf(hi, m, s)
    OBVIOUS
  <2>2. l \in Int /\ t \in Int /\ Top(S, t) = l + 1
    BY <2>1, <1>1, <1>2, <1>3, <1>4, NoGap
  <2>3. a \in Seq(Entry) /\ Len(a) = 0
    BY <2>1
  <2>4. Dense(a, l, Top(S, t))
    BY <2>2, <2>3 DEF Dense
  <2>5. <<a, l, t>> \in R
    BY <2>2, <2>3, <2>4
  <2> HIDE DEF R
  <2> QED
    BY <2>1, <2>5
<1>5. ASSUME NEW m \in Nodes, NEW i \in 1 .. Len(node[m].keys),
             NEW a \in Seq(Entry), NEW c \in Seq(Entry), home[m] = r,
             <<a, lo[m], node[m].keys[i].hash>> \in R,
             <<c, node[m].keys[i].hash, HiOf(hi, m, i)>> \in R
      PROVE  <<a \o <<node[m].keys[i]>> \o c, lo[m], HiOf(hi, m, i)>> \in R
  <2>1. PICK e, l, g, t, z : /\ e = node[m].keys[i] /\ l = lo[m] /\ g = e.hash
                             /\ t = HiOf(hi, m, i) /\ z = a \o <<e>> \o c
    OBVIOUS
  <2>2. e \in Entry /\ g \in Nat
    BY <2>1, <1>1, <1>2, <1>5, NodeBounds DEF Entry
  <2>3. <<a, l, g>> \in R /\ <<c, g, t>> \in R
    <3> HIDE DEF R
    <3> QED
      BY <2>1, <1>5
  <2>4. /\ l \in Int /\ t \in Int /\ Dense(a, l, Top(S, g)) /\ Dense(c, g, Top(S, t))
    BY <2>3
  <2>5. Top(S, g) = g /\ Top(S, t) \in Int
    BY <2>2, <2>4 DEF Top, None
  <2>6. Dense(z, l, Top(S, t))
    BY <2>1, <2>2, <2>4, <2>5, DenseJoin
  <2>7. z \in Seq(Entry)
    BY <2>6 DEF Dense
  <2>8. <<z, l, t>> \in R
    BY <2>4, <2>6, <2>7
  <2> HIDE DEF R
  <2> QED
    BY <2>1, <2>8
<1>6. Weaves(home, lo, hi, r, R)
  <2> HIDE DEF R
  <2> QED
    BY <1>4, <1>5 DEF Weaves
<1>7. <<InOrder(r), lo[r], hi[r]>> \in R
  <2> HIDE DEF R
  <2> QED
    BY <1>1, <1>2, <1>6, WovenBelow
<1>8. Dense(InOrder(r), lo[r], Top(S, hi[r]))
  BY <1>7
<1> QED
  BY <1>2, <1>3, <1>8 DEF Top

\* While no array's size reaches the width of its field, the elements of an
\* array are numbered 0, 1, ... without gaps up to its size, whichever splits
\* the appends have caused.
THEOREM ArrayDenseAlways ==
  ASSUME HashInjective
  PROVE  Spec /\ []SizesFit => []ArrayDense
<1>1. AllRead
  BY AllReadHolds
<1>2. AllRead /\ Numbered /\ [Next]_vars /\ Ordered' /\ Counted' => Numbered'
  BY NextNumbered
<1>3. Init => Numbered
  <2> SUFFICES ASSUME Init
               PROVE  Numbered
    OBVIOUS
  <2>1. PICK lev, home, H, lo, hi : Arranged(lev, home, H, lo, hi)
    BY InitOrdered DEF Ordered
  <2>2. Shapely /\ Counted
    BY InitOrdered, InitLogs DEF Ordered
  <2>3. Nodes = {}
    BY DEF Init, Nodes
  <2>4. Distinct(hi)
    BY <2>3 DEF Distinct
  <2> QED
    BY <2>1, <2>2, <2>4 DEF Numbered
<1>4. AllRead /\ Numbered => ArrayDense
  <2> SUFFICES ASSUME AllRead, Numbered, NEW r \in roots, node[r].type = "Array"
               PROVE  /\ Len(InOrder(r)) = node[r].size
                      /\ \A i \in 1 .. Len(InOrder(r)) : InOrder(r)[i].hash = i - 1
    BY DEF ArrayDense
  <2>1. r \in RootsOf("Array") /\ node[r].size \in Int
    <3>1. r \in Nodes /\ Sound
      BY DEF Numbered, Shapely, Sound, TypeOK
    <3> QED
      BY <3>1, SoundNodes, WidthAssumption DEF RootsOf, WellFormed, Node
  <2>2. PICK es : es = InOrder(r)
    OBVIOUS
  <2>3. Dense(es, None, node[r].size)
    BY <2>1, <2>2, DenseArray
  <2>4. Len(es) \in Nat
    BY <2>3 DEF Dense
  <2> QED
    BY <2>1, <2>2, <2>3, <2>4 DEF Dense, None
<1>5. Spec => []Ordered
  BY OrderedAlways
<1>6. Spec /\ []SizesFit => []Counted
  BY CountedAlways
<1> QED
  BY <1>1, <1>2, <1>3, <1>4, <1>5, <1>6, PTL DEF Spec
=============================================================================
