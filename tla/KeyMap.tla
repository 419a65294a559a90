------------------------------- MODULE KeyMap -------------------------------
(***************************************************************************)
(* What a lite3-cpp object promises its caller: each object handed out by  *)
(* a Buffer is a map from keys to values, and one call at a time changes   *)
(* one key of one object.  Two promises are stated.  In Spec every call    *)
(* takes effect.  LossySpec is the weaker promise that a call naming a key *)
(* the object already holds may leave the whole map as it was.             *)
(***************************************************************************)
CONSTANTS
  Handles,   \* the object handles a buffer may give out
  Keys,      \* the keys callers use
  Values,    \* the values callers store
  NoValue    \* what a lookup of an absent key finds

VARIABLES
  obj,       \* the map of every object that exists
  pending    \* the call being carried out, or Nothing

vars == <<obj, pending>>

Nothing == [ofs |-> "none"]

EmptyMap == [k \in Keys |-> NoValue]

Init ==
  /\ obj = [h \in {} |-> EmptyMap]
  /\ pending = Nothing

\* A new, empty object appears; the others keep their contents.
Create(h) ==
  /\ pending = Nothing
  /\ h \notin DOMAIN obj
  /\ obj' = [g \in DOMAIN obj \cup {h} |-> IF g = h THEN EmptyMap ELSE obj[g]]
  /\ UNCHANGED pending

Call(h, k, v) ==
  /\ pending = Nothing
  /\ h \in DOMAIN obj
  /\ pending' = [ofs |-> h, key |-> k, val |-> v]
  /\ UNCHANGED obj

\* The pending call takes effect: its key, and no other, gets the new value.
Store ==
  /\ pending # Nothing
  /\ obj' = [obj EXCEPT ![pending.ofs][pending.key] = pending.val]
  /\ pending' = Nothing

\* The pending overwrite is dropped: its key keeps the value it had.
Drop ==
  /\ pending # Nothing
  /\ obj[pending.ofs][pending.key] # NoValue
  /\ pending' = Nothing
  /\ UNCHANGED obj

Begin ==
  \/ \E h \in Handles : Create(h)
  \/ \E h \in Handles, k \in Keys, v \in Values : Call(h, k, v)

Next == Begin \/ Store

Spec == Init /\ [][Next]_vars

LossySpec == Init /\ [][Next \/ Drop]_vars
=============================================================================
