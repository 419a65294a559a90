-------------------------- MODULE MCObservability --------------------------
(***************************************************************************)
(* Instances of the observability hooks for TLC.                           *)
(***************************************************************************)
EXTENDS Observability, TLC

CONSTANTS t1, t2, l1, c1   \* two threads, and a hook of either kind to destroy

\* No thread is special, and only invariants are checked.
Interchangeable == Permutations(Threads)
=============================================================================
