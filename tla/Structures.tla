----------------------------- MODULE Structures -----------------------------
(***************************************************************************)
(* The structures of a Buffer as its callers see them: an object maps keys *)
(* to cells and an array numbers them (that the trees keep this promise is *)
(* BTreeObjects), and a cell is a scalar or names another structure.  The  *)
(* operators are the setters and getters of src/src/buffer.cpp; each takes *)
(* the structures and returns them changed.                                *)
(*                                                                         *)
(* A structure is named by its number in the order of creation, in place   *)
(* of its offset: the one at offset 0 is Root.  What a setter does to the  *)
(* bytes decides one thing here: an object or array put where one was is   *)
(* laid out over it (Heap), so both have one name.  Since no setter looks  *)
(* at the type of the structure it is given, a structure has a map and     *)
(* elements whatever its type.                                             *)
(***************************************************************************)
EXTENDS Naturals, Sequences, FiniteSets, TLC

Root == 1
Absent == <<"Absent", 0>>             \* get_impl returns nullptr
Nested == {"Object", "Array"}
TypeOf(c) == c[1]
Names(c) == TypeOf(c) \in Nested      \* the cell holds the structure c[2]

Empty(type) == [type |-> type, map |-> <<>>, elems |-> <<>>]

-----------------------------------------------------------------------------
(***************************************************************************)
(* Getters                                                                 *)
(***************************************************************************)

\* get_impl and arr_get_impl.
Read(st, h, k) == IF k \in DOMAIN st[h].map THEN st[h].map[k] ELSE Absent
ReadAt(st, h, i) == IF i < Len(st[h].elems) THEN st[h].elems[i + 1] ELSE Absent

\* Mutant: the type is not looked at.
HoldsAny(c, type) == Names(c)

\* get_obj, get_arr, arr_get_obj and arr_get_arr return: the others throw.
Holds(c, type) == TypeOf(c) = type

\* The structures that can be come to from the one at offset 0.
CellsOf(s) == {s.map[k] : k \in DOMAIN s.map} \cup
              {s.elems[i] : i \in DOMAIN s.elems}
Attached(st) ==
  LET within[n \in 0 .. Len(st)] ==
        IF n = 0 THEN {Root} \cap DOMAIN st
        ELSE within[n - 1] \cup
             {c[2] : c \in {x \in UNION {CellsOf(st[h]) : h \in within[n - 1]} :
                              Names(x)}}
  IN  within[Len(st)]

-----------------------------------------------------------------------------
(***************************************************************************)
(* Setters                                                                 *)
(***************************************************************************)

\* set_null, set_bool, set_i64, set_f64, set_str and set_bytes.
SetCell(st, h, k, c) == [st EXCEPT ![h].map = (k :> c) @@ @]

\* Mutant: the element takes the place of the last one.
AddCellOver(st, h, c) ==
  [st EXCEPT ![h].elems = SubSeq(@, 1, Len(@) - 1) \o <<c>>]

\* arr_append_*.
AddCell(st, h, c) == [st EXCEPT ![h].elems = Append(@, c)]

\* Mutants: the offset returned is not the node's; room is not taken for the
\* node, which is laid over the last one.
NewBeyond(st, type) ==
  [st |-> Append(st, Empty(type)), at |-> Len(st) + 2]
NewOver(st, type) ==
  [st |-> [st EXCEPT ![Len(st)] = Empty(type)], at |-> Len(st)]

\* An empty structure is laid out at the end.
New(st, type) == [st |-> Append(st, Empty(type)), at |-> Len(st) + 1]

\* set_obj and set_arr: where a structure is already, the new one is laid out
\* over it.  A null has the same encoded length, but its bytes are followed by
\* other entries: callers must not ask for that (Heap!AlwaysApart).
OverNull(st, h, k) == TypeOf(Read(st, h, k)) = "Null"
SetNested(st, h, k, type) ==
  LET old == Read(st, h, k)
      new == IF Names(old)
             THEN [st |-> [st EXCEPT ![old[2]] = Empty(type)], at |-> old[2]]
             ELSE New(st, type)
  IN  [new EXCEPT !.st = SetCell(@, h, k, <<type, new.at>>)]

\* arr_append_obj and arr_append_arr.
AddNested(st, h, type) ==
  LET new == New(st, type)
  IN  [new EXCEPT !.st = AddCell(@, h, <<type, new.at>>)]
=============================================================================
