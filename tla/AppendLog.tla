----------------------------- MODULE AppendLog ------------------------------
(***************************************************************************)
(* What a lite3-cpp array promises its caller: each array handed out by a  *)
(* Buffer is a sequence, and an append adds one element at its end and     *)
(* leaves every element before it alone.                                   *)
(***************************************************************************)
EXTENDS Sequences

CONSTANTS
  Handles,   \* the array handles a buffer may give out
  Values     \* the values callers append

VARIABLES
  log,       \* the contents of every array that exists
  pending    \* the append being carried out, or Nothing

vars == <<log, pending>>

Nothing == [ofs |-> "none"]

Init ==
  /\ log = [h \in {} |-> <<>>]
  /\ pending = Nothing

\* A new, empty array appears; the others keep their contents.
Create(h) ==
  /\ pending = Nothing
  /\ h \notin DOMAIN log
  /\ log' = [g \in DOMAIN log \cup {h} |-> IF g = h THEN <<>> ELSE log[g]]
  /\ UNCHANGED pending

Call(h, v) ==
  /\ pending = Nothing
  /\ h \in DOMAIN log
  /\ pending' = [ofs |-> h, val |-> v]
  /\ UNCHANGED log

\* The pending append takes effect.
Store ==
  /\ pending # Nothing
  /\ log' = [log EXCEPT ![pending.ofs] = Append(@, pending.val)]
  /\ pending' = Nothing

Next ==
  \/ \E h \in Handles : Create(h)
  \/ \E h \in Handles, v \in Values : Call(h, v)
  \/ Store

Spec == Init /\ [][Next]_vars
=============================================================================
