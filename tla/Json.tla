-------------------------------- MODULE Json --------------------------------
(***************************************************************************)
(* src/src/json.cpp: from_json_string fills a buffer from the values that  *)
(* yyjson parsed, to_json_string builds the values that yyjson writes.     *)
(* Syntax is yyjson's and left out: a text is its value, a pair of a kind  *)
(* and what is in it.  The members of a parsed object are a sequence, as a *)
(* name may come twice; those of a printed one are a function.             *)
(***************************************************************************)
EXTENDS Structures, Integers, SequencesExt

CONSTANTS
  IntMod,     \* the values of C's int, 2^32 in the code
  Cut,        \* strings up to their first NUL, as in a C string
  Decode,     \* utils::hex_decode, on the strings it decodes
  Encode,     \* bytes in lower-case hex
  Unwritable  \* scalars that yyjson refuses to write, such as NaN

ASSUME IntAssumption == IntMod \in Nat \ {0} /\ IntMod % 2 = 0
ASSUME CutAssumption == \A s \in DOMAIN Cut : Cut[Cut[s]] = Cut[s]
ASSUME HexAssumption ==
  \A s \in DOMAIN Decode : Decode[Encode[Decode[s]]] = Decode[s]

\* yyjson_get_int: the value as an int.
Int32(n) == ((n + IntMod \div 2) % IntMod) - IntMod \div 2

-----------------------------------------------------------------------------
(***************************************************************************)
(* from_json_string                                                        *)
(***************************************************************************)

IsNested(j) == j[1] \in {"object", "array"}
TypeFor(j) == IF j[1] = "object" THEN "Object" ELSE "Array"

\* A string that is hex, the empty one too, is stored as bytes.
ScalarFor(j) ==
  CASE j[1] = "null" -> <<"Null", 0>>
    [] j[1] = "bool" -> <<"Bool", j[2]>>
    [] j[1] = "int"  -> <<"Int64", Int32(j[2])>>
    [] j[1] = "real" -> <<"Float64", j[2]>>
    [] j[1] = "string" ->
         LET s == Cut[j[2]]
         IN  IF s \in DOMAIN Decode THEN <<"Bytes", Decode[s]>>
             ELSE <<"String", s>>

RECURSIVE Fill(_, _, _)

\* Mutant: the members of a nested value go into the structure that has it.
SetMemberFlat(st, h, k, j) ==
  IF IsNested(j)
  THEN Fill(SetNested(st, h, Cut[k], TypeFor(j)).st, h, j)
  ELSE SetCell(st, h, Cut[k], ScalarFor(j))

\* from_yyjson_val with a key: one member of an object.
SetMember(st, h, k, j) ==
  IF IsNested(j)
  THEN LET new == SetNested(st, h, Cut[k], TypeFor(j))
       IN  Fill(new.st, new.at, j)
  ELSE SetCell(st, h, Cut[k], ScalarFor(j))

AddElement(st, h, j) ==
  IF IsNested(j)
  THEN LET new == AddNested(st, h, TypeFor(j)) IN Fill(new.st, new.at, j)
  ELSE AddCell(st, h, ScalarFor(j))

\* from_yyjson_val: all members or elements of j go into structure h.
Fill(st, h, j) ==
  IF j[1] = "object"
  THEN FoldLeft(LAMBDA s, m : SetMember(s, h, m[1], m[2]), st, j[2])
  ELSE FoldLeft(LAMBDA s, e : AddElement(s, h, e), st, j[2])

\* A text that is a scalar leaves the buffer empty.
FromJson(j) == IF IsNested(j) THEN Fill(<<Empty(TypeFor(j))>>, Root, j) ELSE <<>>

-----------------------------------------------------------------------------
(***************************************************************************)
(* to_json_string                                                          *)
(***************************************************************************)

Thrown == <<"thrown", 0>>      \* the getters' "Type mismatch"
Undefined == <<"undefined", 0>>

\* Objects are printed by iterating over them.  An element comes before every
\* key and has none; where its key would be, the iterator reads its type, and
\* gives up when that is the type of a scalar of fixed length.
FixedLength == {"Null", "Bool", "Int64", "Float64"}
NoKey == "garbage"
Iterated(s) ==
  IF s.elems = <<>> THEN DOMAIN s.map
  ELSE IF TypeOf(s.elems[1]) \in FixedLength THEN {} ELSE {NoKey}

Failed(j) == j \in {Thrown, Undefined}

RECURSIVE Show(_, _)

\* Mutant: what cannot be printed is left out.
MembersCaught(st, s) ==
  LET ks == {k \in Iterated(s) \ {NoKey} : ~Failed(Show(st, s.map[k]))}
  IN  <<"object", [k \in ks |-> Show(st, s.map[k])]>>

\* What an object's entries are printed as.
Members(st, s) ==
  LET shown == [k \in Iterated(s) |->
                  IF k = NoKey THEN Undefined ELSE Show(st, s.map[k])]
  IN  IF \E k \in DOMAIN shown : Failed(shown[k])
      THEN shown[CHOOSE k \in DOMAIN shown : Failed(shown[k])]
      ELSE <<"object", shown>>

\* to_yyjson_val.  The elements of a nested array are asked for at the offset
\* of its type byte instead of its node's, one byte off: what is read there
\* has no keys, so any element but a null, which is not asked for, throws.
Show(st, c) ==
  CASE TypeOf(c) = "Null"    -> <<"null", 0>>
    [] TypeOf(c) = "Bool"    -> <<"bool", c[2]>>
    [] TypeOf(c) = "Int64"   -> <<"int", c[2]>>
    [] TypeOf(c) = "Float64" -> <<"real", c[2]>>
    [] TypeOf(c) = "String"  -> <<"string", c[2]>>
    [] TypeOf(c) = "Bytes"   -> <<"string", Encode[c[2]]>>
    [] TypeOf(c) = "Object"  -> Members(st, st[c[2]])
    [] TypeOf(c) = "Array"   ->
         LET es == st[c[2]].elems
         IN  IF \A i \in DOMAIN es : TypeOf(es[i]) = "Null"
             THEN <<"array", [i \in DOMAIN es |-> <<"null", 0>>]>>
             ELSE Thrown

\* yyjson_mut_write fails on the whole text when it fails on one value.
RECURSIVE Refused(_)
Refused(j) ==
  \/ j \in Unwritable
  \/ IsNested(j) /\ \E i \in DOMAIN j[2] : Refused(j[2][i])

\* to_json_string at offset 0.  An array there is printed without elements, an
\* empty buffer is read past its end, and a failed write gives "{}".
ToJson(st) ==
  CASE st = <<>> -> Undefined
    [] st # <<>> /\ st[Root].type = "Array" -> <<"array", <<>>>>
    [] OTHER ->
         LET j == Members(st, st[Root])
         IN  IF ~Failed(j) /\ Refused(j) THEN <<"object", <<>>>> ELSE j

\* A printed value as a text that can be parsed again.
RECURSIVE AsText(_)
AsText(j) ==
  CASE j[1] = "object" ->
         <<"object", LET ks == SetToSeq(DOMAIN j[2])
                     IN  [i \in DOMAIN ks |-> <<ks[i], AsText(j[2][ks[i]])>>]>>
    [] j[1] = "array" -> <<"array", [i \in DOMAIN j[2] |-> AsText(j[2][i])]>>
    [] OTHER -> j
=============================================================================
