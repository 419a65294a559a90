---------------------------- MODULE BTreeObjects ----------------------------
(***************************************************************************)
(* What callers see of the search trees: a Buffer's objects behave as maps *)
(* (KeyMap) and its arrays as append-only sequences (AppendLog).  Every    *)
(* turn of set_impl's loop but the last, and every split, must leave what  *)
(* all the structures of the buffer hold exactly as it was.                *)
(***************************************************************************)
EXTENDS BTree

Contents == [r \in RootsOf("Object") |-> [k \in Keys |-> Get(r, k)]]
Elements ==
  [r \in RootsOf("Array") |->
     [i \in 1 .. node[r].size |-> ArrGet(r, i - 1)]]

ObjectCall ==
  IF pc = "loop" /\ ~req.append
  THEN [ofs |-> req.ofs, key |-> req.key, val |-> req.val]
  ELSE [ofs |-> "none"]
ArrayCall ==
  IF pc = "loop" /\ req.append
  THEN [ofs |-> req.ofs, val |-> req.val]
  ELSE [ofs |-> "none"]

Maps == INSTANCE KeyMap
          WITH Handles <- 0 .. MaxNodes, obj <- Contents, pending <- ObjectCall
Logs == INSTANCE AppendLog
          WITH Handles <- 0 .. MaxNodes, log <- Elements, pending <- ArrayCall

\* A buffer's objects are maps: a call changes its own key of its own object,
\* at one turn, and an overwrite is the only call that may be without effect.
ObjectsAreMaps == Maps!LossySpec

\* A buffer's arrays are sequences: an append adds its element at the end, at
\* its last turn, and no other call changes any of them.
ArraysAreLogs == Logs!Spec

\* A set_* call is read back: when it returns, its key has its value.  This is
\* what the repository's update tests expect of every overwrite.
Returns(r, k) ==
  pc = "loop" /\ pc' = "idle" /\ ~req.append /\ req.ofs = r /\ req.key = k
ReadYourWrite ==
  [][\A r \in roots, k \in Keys : Returns(r, k) => Get(r, k)' = req.val]_vars

\* A set_* call of a key the object did not hold makes it retrievable.
InsertedKeysRetrievable ==
  [][\A r \in roots, k \in Keys :
       Returns(r, k) /\ Get(r, k) = NoValue => Get(r, k)' # NoValue]_vars
=============================================================================
