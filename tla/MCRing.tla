------------------------------- MODULE MCRing -------------------------------
(***************************************************************************)
(* An instance of the hash ring for TLC: seven nodes of two replicas, some *)
(* of which meet in one point, and a key at every hash between the points. *)
(***************************************************************************)
EXTENDS Ring

MCNodeIds == 1 .. 7
MCReplicas == 2
MCPoint ==
  [n \in MCNodeIds |-> [i \in 0 .. 1 |-> IF i = 0 THEN 2 * n
                                         ELSE ((5 * n) % 16) + 1]]
MCKeyHashes == 0 .. 17
=============================================================================
