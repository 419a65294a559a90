------------------------------ MODULE MCBTree -------------------------------
(***************************************************************************)
(* Instances of the search trees for TLC.  Hashes are injective unless a   *)
(* configuration asks for collisions.                                      *)
(***************************************************************************)
EXTENDS BTreeObjects

CONSTANTS v1, v2   \* two values that can be told apart

ManyKeys == 1 .. 8

\* The hash order differs from the string order.
ManyHash == [k \in ManyKeys |-> (5 * k) % 9]

SevenKeys == 1 .. 9
SevenHash == [k \in SevenKeys |-> 3 * k % 11]

\* Keys 3 and 4 collide, as "ab" and "bA" do under djb2, and so do 1 and 2.
CollidingHash == [k \in SevenKeys |-> (k + 1) \div 2]
=============================================================================
