-------------------------------- MODULE Ring --------------------------------
(***************************************************************************)
(* lite3::ConsistentHash (src/include/lite3/ring.hpp): a map from points   *)
(* of the hash circle to the nodes that own them.  A node is added at one  *)
(* point per replica, and a key belongs to the node at the first point at  *)
(* or after its hash, or at the first point of all when there is none.     *)
(*                                                                         *)
(* Point is fnv1a_64 on the names "<id>:<replica>"; nothing is assumed of  *)
(* it, so two names may meet in one point.  A key is looked up by its      *)
(* hash, so KeyHashes stands for the keys.                                 *)
(***************************************************************************)
EXTENDS Integers, FiniteSetsExt

CONSTANTS
  NodeIds,    \* the ids of nodes
  Replicas,   \* replicas_, 100 by default
  Point,      \* the point of each replica of each node
  KeyHashes   \* the hashes of the keys looked up

ASSUME NodeIdsAssumption == NodeIds \subseteq Nat
ASSUME ReplicasAssumption == Replicas \in Nat
ASSUME PointAssumption ==
  Point \in [NodeIds -> [0 .. Replicas - 1 -> Nat]]
ASSUME KeyHashesAssumption == KeyHashes \subseteq Nat

VARIABLES
  ring,       \* ring_: the node at every point taken
  members     \* history: the nodes added and not removed since

vars == <<ring, members>>

Points(n) == {Point[n][i] : i \in 0 .. Replicas - 1}
Taken == DOMAIN ring

Init ==
  /\ ring = [p \in {} |-> 0]
  /\ members = {}

-----------------------------------------------------------------------------

\* Mutant: new points are made, and no node is stored at them.
Default(n) ==
  [p \in Taken \cup Points(n) |-> IF p \in Taken THEN ring[p] ELSE 0]

\* ring_[hash] = node_id for every replica: a point that is taken changes hands.
Assign(n) ==
  [p \in Taken \cup Points(n) |-> IF p \in Points(n) THEN n ELSE ring[p]]

add_node(n) ==
  /\ ring' = Assign(n)
  /\ members' = members \cup {n}

\* Mutants: the points are erased by their hashes, whoever has them by now; only
\* the first point of the node is erased.
EraseByPoint(n) == [p \in Taken \ Points(n) |-> ring[p]]
EraseOne(n) ==
  LET own == {q \in Taken : ring[q] = n}
  IN  [p \in {q \in Taken : own # {} => q # Min(own)} |-> ring[p]]

\* Every point that the node has, and no other, is erased.
Erase(n) == [p \in {q \in Taken : ring[q] # n} |-> ring[p]]

remove_node(n) ==
  /\ ring' = Erase(n)
  /\ members' = members \ {n}

\* Mutant: without a point at or after the hash, the last one is taken.
NextPointNoWrap(h) ==
  LET after == {p \in Taken : p >= h}
  IN  IF after # {} THEN Min(after) ELSE Max(Taken)

\* lower_bound(h), or begin() where that is end().
NextPoint(h) ==
  LET after == {p \in Taken : p >= h}
  IN  IF after # {} THEN Min(after) ELSE Min(Taken)

get_node(h) == IF Taken = {} THEN 0 ELSE ring[NextPoint(h)]

is_owner(h, n) == get_node(h) = n

Next == \E n \in NodeIds : add_node(n) \/ remove_node(n)

Spec == Init /\ [][Next]_vars

-----------------------------------------------------------------------------

\* The ring names points and nodes, and remembers who was added.
TypeOK ==
  /\ Taken \subseteq Nat
  /\ \A p \in Taken : ring[p] \in NodeIds
  /\ members \subseteq NodeIds

\* The order in which nodes came and went leaves no trace, as far as points
\* are not shared: a member has each point that is its alone, and a point is
\* only ever held by a member it belongs to.
RingOfMembers ==
  /\ \A p \in Taken : ring[p] \in members /\ p \in Points(ring[p])
  /\ \A n \in members : \A p \in Points(n) :
       (\A m \in NodeIds \ {n} : p \notin Points(m)) =>
         p \in Taken /\ ring[p] = n

\* Consistent hashing: a node that is added only takes keys for itself, and a
\* node that is removed only gives up its own, collisions or not.
MinimalMoves ==
  [][\A n \in NodeIds, h \in KeyHashes :
       /\ add_node(n) /\ get_node(h)' # get_node(h) => is_owner(h, n)'
       /\ remove_node(n) /\ get_node(h)' # get_node(h) => is_owner(h, n)]_vars

\* The hashes form a circle: two keys on an arc without points, whichever of
\* the two arcs between them it is, belong to the same node.
CircleAgrees ==
  \A g, h \in KeyHashes :
    /\ g <= h
    /\ (\A p \in Taken : p < g \/ p >= h) \/ (\A p \in Taken : p >= g /\ p < h)
    => get_node(g) = get_node(h)
=============================================================================
