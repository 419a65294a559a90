----------------------------- MODULE MCIterator -----------------------------
(***************************************************************************)
(* Instances of the iterator for TLC: narrow nodes, so that five keys make *)
(* a tree of two levels, and generations wide enough not to wrap.          *)
(***************************************************************************)
EXTENDS Iterator

CONSTANT v1   \* the value written: walks tell keys apart, not values

MCKeys == 1 .. 5
MCHash == [k \in MCKeys |-> (2 * k) % 7]
=============================================================================
