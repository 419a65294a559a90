----------------------------- MODULE RingProofs -----------------------------
(***************************************************************************)
(* Proofs about the hash ring, for any nodes, any number of replicas and   *)
(* any hash, colliding or not: who holds a point, and that a change of the *)
(* ring moves no key it need not move.                                     *)
(***************************************************************************)
EXTENDS Ring, TLAPS, WellFoundedInduction

-----------------------------------------------------------------------------

LEMMA MinIsLeast ==
  ASSUME NEW S \in SUBSET Nat, S # {}
  PROVE  Min(S) \in S /\ \A q \in S : Min(S) <= q
<1>1. PICK n \in S : \A q \in S : ~(<<q, n>> \in OpToRel(<, Nat))
  BY NatLessThanWellFounded, WFMin, Zenon
<1>2. \A q \in S : q < n => <<q, n>> \in OpToRel(<, Nat)
  BY Zenon DEF OpToRel
<1>3. \A q \in S : ~(q < n)
  BY <1>1, <1>2, Zenon
<1>4. \A q \in S : n <= q
  BY <1>3, SMT
<1> QED
  BY <1>4, Zenon DEF Min

\* NextPoint, of any set of points.
After(D, h) == {p \in D : p >= h}
FirstFrom(D, h) == IF After(D, h) # {} THEN Min(After(D, h)) ELSE Min(D)

LEMMA NextPointIsFirst ==
  ASSUME NEW h
  PROVE  /\ NextPoint(h) = FirstFrom(Taken, h)
         /\ NextPoint(h)' = FirstFrom(Taken', h)
BY DEF NextPoint, FirstFrom, After

LEMMA FirstIsPoint ==
  ASSUME NEW D \in SUBSET Nat, D # {}, NEW h
  PROVE  FirstFrom(D, h) \in D
BY MinIsLeast DEF FirstFrom, After

\* The least element of a set is that of each subset that has it.
LEMMA MinOfSubset ==
  ASSUME NEW T \in SUBSET Nat, NEW S \in SUBSET T, Min(T) \in S
  PROVE  Min(S) = Min(T)
<1>1. Min(S) \in S /\ Min(S) <= Min(T)
  BY MinIsLeast
<1>2. Min(T) <= Min(S)
  BY <1>1, MinIsLeast
<1>3. Min(S) \in Nat /\ Min(T) \in Nat
  BY <1>1
<1> QED
  BY <1>1, <1>2, <1>3

\* Taking points away moves no hash to another point unless it stood on one
\* of those.
LEMMA FirstOfSubset ==
  ASSUME NEW E \in SUBSET Nat, NEW D \in SUBSET E, NEW h \in Nat,
         FirstFrom(E, h) \in D
  PROVE  FirstFrom(D, h) = FirstFrom(E, h)
<1>1. After(D, h) \in SUBSET After(E, h) /\ After(E, h) \in SUBSET Nat
  BY DEF After
<1>2. CASE After(E, h) = {}
  <2>1. After(D, h) = {}
    BY <1>1, <1>2
  <2> QED
    BY <1>2, <2>1, MinOfSubset DEF FirstFrom
<1>3. CASE After(E, h) # {}
  <2>1. FirstFrom(E, h) = Min(After(E, h))
    BY <1>3 DEF FirstFrom
  <2>2. Min(After(E, h)) \in After(E, h)
    BY <1>1, <1>3, MinIsLeast
  <2>3. Min(After(E, h)) \in After(D, h)
    BY <2>1, <2>2 DEF After
  <2>4. Min(After(D, h)) = Min(After(E, h))
    BY <1>1, <2>3, MinOfSubset
  <2> QED
    BY <2>1, <2>3, <2>4 DEF FirstFrom
<1> QED
  BY <1>2, <1>3

-----------------------------------------------------------------------------

LEMMA PointsAreNats ==
  ASSUME NEW n \in NodeIds
  PROVE  Points(n) \subseteq Nat
<1> SUFFICES ASSUME NEW i \in 0 .. Replicas - 1 PROVE Point[n][i] \in Nat
  BY DEF Points
<1>1. Point[n] \in [0 .. Replicas - 1 -> Nat]
  BY PointAssumption
<1> QED
  BY <1>1

\* The ring after an addition and after a removal.
LEMMA RingAfterAdd ==
  ASSUME NEW n \in NodeIds, add_node(n)
  PROVE  /\ Taken' = Taken \cup Points(n)
         /\ \A p \in Taken' : ring'[p] = IF p \in Points(n) THEN n ELSE ring[p]
         /\ members' = members \cup {n}
BY DEF add_node, Assign, Taken

LEMMA RingAfterRemove ==
  ASSUME NEW n \in NodeIds, remove_node(n)
  PROVE  /\ Taken' = {q \in Taken : ring[q] # n}
         /\ \A p \in Taken' : ring'[p] = ring[p]
         /\ members' = members \ {n}
BY DEF remove_node, Erase, Taken

\* The type invariant is inductive by itself.
THEOREM TypeCorrect == Spec => []TypeOK
<1>1. Init => TypeOK
  BY DEF Init, TypeOK, Taken
<1>2. ASSUME TypeOK, [Next]_vars
      PROVE  TypeOK'
  <2>1. ASSUME NEW n \in NodeIds, add_node(n)
        PROVE  TypeOK'
    BY <1>2, <2>1, RingAfterAdd, PointsAreNats DEF TypeOK
  <2>2. ASSUME NEW n \in NodeIds, remove_node(n)
        PROVE  TypeOK'
    BY <1>2, <2>2, RingAfterRemove DEF TypeOK
  <2>3. CASE UNCHANGED vars
    BY <1>2, <2>3 DEF TypeOK, vars, Taken
  <2> QED
    BY <1>2, <2>1, <2>2, <2>3 DEF Next
<1> QED
  BY <1>1, <1>2, PTL DEF Spec

\* In whatever order nodes come and go, each point is held by a member it
\* belongs to, and a member holds every point it shares with no other node:
\* rings that saw the same changes in another order agree on those points.
THEOREM RingOfMembersAlways == Spec => []RingOfMembers
<1>1. Init => RingOfMembers
  BY DEF Init, RingOfMembers, Taken
<1>2. ASSUME TypeOK, RingOfMembers, [Next]_vars
      PROVE  RingOfMembers'
  <2>1. ASSUME NEW n \in NodeIds, add_node(n)
        PROVE  RingOfMembers'
    <3>1. \A p \in Taken' : ring'[p] \in members' /\ p \in Points(ring'[p])
      BY <1>2, <2>1, RingAfterAdd DEF RingOfMembers
    <3>2. ASSUME NEW m \in members', NEW p \in Points(m),
                 \A o \in NodeIds \ {m} : p \notin Points(o)
          PROVE  p \in Taken' /\ ring'[p] = m
      BY <1>2, <2>1, <3>2, RingAfterAdd DEF RingOfMembers, TypeOK
    <3> QED
      BY <3>1, <3>2 DEF RingOfMembers, Points
  <2>2. ASSUME NEW n \in NodeIds, remove_node(n)
        PROVE  RingOfMembers'
    <3>1. \A p \in Taken' : ring'[p] \in members' /\ p \in Points(ring'[p])
      BY <1>2, <2>2, RingAfterRemove DEF RingOfMembers
    <3>2. ASSUME NEW m \in members', NEW p \in Points(m),
                 \A o \in NodeIds \ {m} : p \notin Points(o)
          PROVE  p \in Taken' /\ ring'[p] = m
      BY <1>2, <2>2, <3>2, RingAfterRemove DEF RingOfMembers, TypeOK
    <3> QED
      BY <3>1, <3>2 DEF RingOfMembers, Points
  <2>3. CASE UNCHANGED vars
    BY <1>2, <2>3 DEF RingOfMembers, vars, Taken, Points
  <2> QED
    BY <1>2, <2>1, <2>2, <2>3 DEF Next
<1> QED
  BY <1>1, <1>2, TypeCorrect, PTL DEF Spec

-----------------------------------------------------------------------------

LEMMA AddMovesToNode ==
  ASSUME TypeOK, NEW n \in NodeIds, add_node(n), NEW h \in Nat,
         get_node(h)' # get_node(h)
  PROVE  is_owner(h, n)'
<1> DEFINE p == FirstFrom(Taken', h)
<1>1. Taken' \subseteq Nat /\ Taken \subseteq Taken'
  BY RingAfterAdd, PointsAreNats DEF TypeOK
<1>2. Taken' # {}
  BY <1>1 DEF get_node
<1>3. p \in Taken' /\ get_node(h)' = ring'[p]
  BY <1>1, <1>2, FirstIsPoint, NextPointIsFirst DEF get_node
<1>4. CASE p \in Points(n)
  BY <1>3, <1>4, RingAfterAdd DEF is_owner
<1>5. CASE p \notin Points(n)
  <2>1. p \in Taken /\ ring'[p] = ring[p]
    BY <1>3, <1>5, RingAfterAdd
  <2>2. FirstFrom(Taken, h) = p
    BY <1>1, <2>1, FirstOfSubset
  <2>3. get_node(h) = ring[p]
    BY <2>1, <2>2, NextPointIsFirst DEF get_node
  <2> QED
    BY <1>3, <2>1, <2>3
<1> QED
  BY <1>4, <1>5

LEMMA RemoveMovesFromNode ==
  ASSUME TypeOK, NEW n \in NodeIds, remove_node(n), NEW h \in Nat,
         get_node(h)' # get_node(h)
  PROVE  is_owner(h, n)
<1> DEFINE p == FirstFrom(Taken, h)
<1>1. Taken \subseteq Nat /\ Taken' \subseteq Taken
  BY RingAfterRemove DEF TypeOK
<1>2. Taken # {}
  BY <1>1 DEF get_node
<1>3. p \in Taken /\ get_node(h) = ring[p]
  BY <1>1, <1>2, FirstIsPoint, NextPointIsFirst DEF get_node
<1>4. CASE ring[p] = n
  BY <1>3, <1>4 DEF is_owner
<1>5. CASE ring[p] # n
  <2>1. p \in Taken' /\ ring'[p] = ring[p]
    BY <1>3, <1>5, RingAfterRemove
  <2>2. FirstFrom(Taken', h) = p
    BY <1>1, <2>1, FirstOfSubset
  <2>3. get_node(h)' = ring'[p]
    BY <2>1, <2>2, NextPointIsFirst DEF get_node
  <2> QED
    BY <1>3, <2>1, <2>3
<1> QED
  BY <1>4, <1>5

\* Consistent hashing, whatever the hash function does: an addition moves keys
\* to the new node only, and a removal moves the removed node's keys only.
THEOREM MovesAreMinimal == Spec => MinimalMoves
<1>1. ASSUME TypeOK, [Next]_vars
      PROVE  [\A n \in NodeIds, h \in KeyHashes :
               /\ add_node(n) /\ get_node(h)' # get_node(h)
                    => is_owner(h, n)'
               /\ remove_node(n) /\ get_node(h)' # get_node(h)
                    => is_owner(h, n)]_vars
  BY <1>1, AddMovesToNode, RemoveMovesFromNode, KeyHashesAssumption
<1> QED
  BY <1>1, TypeCorrect, PTL DEF Spec, MinimalMoves

-----------------------------------------------------------------------------

\* The circle has no seam: hashes between which no point lies, on either side,
\* belong to one node, those beyond the last point to the first one's.
THEOREM CircleAgreesAlways == Spec => []CircleAgrees
<1>1. ASSUME TypeOK PROVE CircleAgrees
  <2> SUFFICES ASSUME NEW g \in KeyHashes, NEW h \in KeyHashes, g <= h,
                      \/ \A p \in Taken : p < g \/ p >= h
                      \/ \A p \in Taken : p >= g /\ p < h
               PROVE  get_node(g) = get_node(h)
    BY DEF CircleAgrees
  <2>1. g \in Nat /\ h \in Nat /\ Taken \subseteq Nat
    BY <1>1, KeyHashesAssumption DEF TypeOK
  <2>2. CASE \A p \in Taken : p < g \/ p >= h
    <3>1. ASSUME NEW p \in Taken PROVE p >= g <=> p >= h
      <4>1. p \in Nat /\ (p < g \/ p >= h)
        BY <2>1, <2>2
      <4> QED
        BY <2>1, <4>1
    <3>2. After(Taken, g) = After(Taken, h)
      BY <3>1 DEF After
    <3> QED
      BY <3>2, NextPointIsFirst DEF FirstFrom, get_node
  <2>3. CASE \A p \in Taken : p >= g /\ p < h
    <3>1. ASSUME NEW p \in Taken PROVE p >= g /\ ~(p >= h)
      <4>1. p \in Nat /\ p >= g /\ p < h
        BY <2>1, <2>3
      <4> QED
        BY <2>1, <4>1
    <3>2. After(Taken, g) = Taken /\ After(Taken, h) = {}
      BY <3>1 DEF After
    <3> QED
      BY <3>2, NextPointIsFirst DEF FirstFrom, get_node
  <2> QED
    BY <2>2, <2>3
<1> QED
  BY <1>1, TypeCorrect, PTL
=============================================================================
