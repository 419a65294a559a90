------------------------------ MODULE Document ------------------------------
(***************************************************************************)
(* Document and its proxies (src/src/document.cpp, value.cpp, object.cpp,  *)
(* array.cpp) on the structures of one buffer, and the buffer's way from   *)
(* and to JSON text.  A Value keeps no value: it remembers the structure   *)
(* it was asked of and a key or an index, and looks again at every use.    *)
(* Several live at a time, so that one may stand on a structure that was   *)
(* replaced through another.                                               *)
(***************************************************************************)
EXTENDS Json

CONSTANTS
  Proxies,      \* the proxies the caller has
  Keys,         \* the keys the caller uses, the empty one may be among them
  Indices,      \* the indices the caller uses
  Scalars,      \* the values the caller assigns
  Texts,        \* the JSON texts the caller parses
  MaxSteps,     \* bound: operations in all
  MaxStructures \* bound: structures in the buffer

ASSUME BoundAssumption == MaxSteps \in Nat /\ MaxStructures \in Nat

VARIABLES
  store,    \* the structures of m_buffer, by number
  proxy,    \* m_parent_ofs and m_key or m_index of every proxy
  retyped,  \* history: structures replaced under a proxy that stands on them
  steps     \* history: the operations so far

dvars == <<store, proxy, retyped, steps>>

NoIndex == -1
EmptyKey == ""

\* A proxy of the root has neither key nor index; the empty key is no key.
RootProxy == [of |-> Root, key |-> EmptyKey, idx |-> NoIndex]
ByKey(h, k) == [of |-> h, key |-> k, idx |-> NoIndex]
ByIndex(h, i) == [of |-> h, key |-> EmptyKey, idx |-> i]
HasKey(p) == p.key # EmptyKey
HasIndex(p) == p.key = EmptyKey /\ p.idx # NoIndex

\* Mutant: the structure is always set anew.
ResolveAnew(st, p, type) ==
  CASE HasKey(p)   -> SetNested(st, p.of, p.key, type)
    [] HasIndex(p) -> AddNested(st, p.of, type)
    [] OTHER       -> [st |-> st, at |-> Root]

\* The first half of operator[]: the structure a proxy stands for, made when
\* there is none of that type.  One made for an index goes to the array's end.
Resolve(st, p, type) ==
  LET c == IF HasKey(p) THEN Read(st, p.of, p.key) ELSE ReadAt(st, p.of, p.idx)
  IN  CASE HasKey(p) /\ ~Holds(c, type)   -> SetNested(st, p.of, p.key, type)
        [] HasIndex(p) /\ ~Holds(c, type) -> AddNested(st, p.of, type)
        [] HasKey(p) \/ HasIndex(p)       -> [st |-> st, at |-> c[2]]
        [] OTHER                          -> [st |-> st, at |-> Root]

\* operator=: an element is appended whatever the index.
Put(st, p, c) ==
  CASE HasKey(p)   -> SetCell(st, p.of, p.key, c)
    [] HasIndex(p) -> AddCell(st, p.of, c)
    [] OTHER       -> st

\* The conversion to a type: what the proxy's getter returns, or a default when
\* it throws.
Default == [t \in {"Bool"} |-> <<t, FALSE>>] @@ [t \in {"Int64"} |-> <<t, 0>>]
           @@ [t \in {"String", "Bytes", "Float64"} |-> <<t, "">>]
Convert(st, p, type) ==
  LET c == IF HasIndex(p) THEN ReadAt(st, p.of, p.idx) ELSE Read(st, p.of, p.key)
  IN  IF (HasIndex(p) \/ HasKey(p)) /\ Holds(c, type) THEN c ELSE Default[type]

-----------------------------------------------------------------------------

Init ==
  /\ store = <<>>
  /\ proxy = [x \in Proxies |-> RootProxy]
  /\ retyped = {}
  /\ steps = 0

Count == steps < MaxSteps /\ steps' = steps + 1

\* Document::Document: the buffer is given an object.
NewDocument ==
  /\ store = <<>>
  /\ store' = <<Empty("Object")>>
  /\ Count
  /\ UNCHANGED <<proxy, retyped>>

\* Document::Document(Buffer) with what from_json_string returns.
Load(j) ==
  /\ store = <<>>
  /\ IsNested(j)
  /\ store' = FromJson(j)
  /\ Count
  /\ UNCHANGED <<proxy, retyped>>

\* root_obj and root_arr give the same, whatever the type of the root.
TakeRoot(x) ==
  /\ store # <<>>
  /\ proxy' = [proxy EXCEPT ![x] = RootProxy]
  /\ Count
  /\ UNCHANGED <<store, retyped>>

\* The structures that st replaces by one of another type, while some proxy
\* remembers their offset.
Retypes(st) ==
  {h \in DOMAIN store : st[h].type # store[h].type
                         /\ \E x \in Proxies : proxy[x].of = h}

\* A structure put over a null spoils the bytes behind it: not followed here.
Clobbers(p) == HasKey(p) /\ OverNull(store, p.of, p.key)

\* y becomes the proxy p of the structure that x stands for.
Subscript(x, y, new, p) ==
  /\ store # <<>>
  /\ ~Clobbers(proxy[x])
  /\ Len(new.st) <= MaxStructures
  /\ store' = new.st
  /\ proxy' = [proxy EXCEPT ![y] = p]
  /\ retyped' = retyped \cup Retypes(new.st)
  /\ Count

\* operator[] with a key and with an index.
AtKey(x, y, k) ==
  LET new == Resolve(store, proxy[x], "Object")
  IN  Subscript(x, y, new, ByKey(new.at, k))
AtIndex(x, y, i) ==
  LET new == Resolve(store, proxy[x], "Array")
  IN  Subscript(x, y, new, ByIndex(new.at, i))

Assign(x, c) ==
  /\ store # <<>>
  /\ store' = Put(store, proxy[x], c)
  /\ Count
  /\ UNCHANGED <<proxy, retyped>>

\* Array::push_back: m_offset is 0 in every Array.
PushBack(c) ==
  /\ store # <<>>
  /\ store' = AddCell(store, Root, c)
  /\ Count
  /\ UNCHANGED <<proxy, retyped>>

Next ==
  \/ NewDocument
  \/ \E j \in Texts : Load(j)
  \/ \E x \in Proxies : TakeRoot(x)
  \/ \E x, y \in Proxies, k \in Keys : AtKey(x, y, k)
  \/ \E x, y \in Proxies, i \in Indices : AtIndex(x, y, i)
  \/ \E x \in Proxies, c \in Scalars : Assign(x, c)
  \/ \E c \in Scalars : PushBack(c)

Spec == Init /\ [][Next]_dvars

-----------------------------------------------------------------------------
(***************************************************************************)
(* What a document is worth                                                *)
(***************************************************************************)

\* Every structure named by a cell or by a proxy exists, and has the type that
\* the cell says.
DTypeOK ==
  /\ \A h \in DOMAIN store :
       /\ store[h].type \in Nested
       /\ \A c \in CellsOf(store[h]) : Names(c) =>
            c[2] \in DOMAIN store /\ store[c[2]].type = TypeOf(c)
  /\ store # <<>> => \A x \in Proxies : proxy[x].of \in DOMAIN store
  /\ retyped \subseteq DOMAIN store

\* The places at which structure g names structure h.
NamedBy(g, h) ==
  {<<g, "key", k>> : k \in {k \in DOMAIN store[g].map :
                              Names(store[g].map[k]) /\ store[g].map[k][2] = h}}
  \cup {<<g, "idx", i>> : i \in {i \in DOMAIN store[g].elems :
                                  Names(store[g].elems[i]) /\ store[g].elems[i][2] = h}}

\* However structures are replaced, no two cells name the same one and none
\* names the root: a change shows at one place, and printing ends.
OneOwner ==
  \A h \in DOMAIN store :
    Cardinality(UNION {NamedBy(g, h) : g \in DOMAIN store})
      <= (IF h = Root THEN 0 ELSE 1)

\* Keys are found in objects and elements in arrays, but for the root, which
\* root_obj and root_arr take for either, and for a structure replaced by one
\* of the other type under a proxy that goes on using it.
KindsKept ==
  \A h \in DOMAIN store \ (retyped \cup {Root}) :
    IF store[h].type = "Object" THEN store[h].elems = <<>>
                                ELSE store[h].map = <<>>

\* An expression root[s1][s2], from the root's proxy on.
Chain(st, path) ==
  FoldLeft(LAMBDA a, s :
             IF s[1] = "key"
             THEN LET new == Resolve(a.st, a.p, "Object")
                  IN  [st |-> new.st, p |-> ByKey(new.at, s[2])]
             ELSE LET new == Resolve(a.st, a.p, "Array")
                  IN  [st |-> new.st, p |-> ByIndex(new.at, s[2])],
           [st |-> st, p |-> RootProxy], path)
Steps == {<<"key", k>> : k \in Keys \ {EmptyKey}} \cup {<<"idx", i>> : i \in Indices}
Paths == {<<s>> : s \in Steps} \cup {<<<<"key", k>>, s>> : k \in Keys \ {EmptyKey}, s \in Steps}
OverNulls(path) == Len(path) = 2 /\ OverNull(store, Root, path[1][2])

\* root[a][b] = v is read back by the same expression, which then changes
\* nothing, whatever the document held before; root[a][i] = v is only when i is
\* the size of the array, and otherwise leaves what root[a][i] reads as it was.
ExpressionsLand ==
  store # <<>> => \A path \in Paths, c \in Scalars : ~OverNulls(path) =>
    LET there == Chain(store, path)
        after == Put(there.st, there.p, c)
        again == Chain(after, path)
    IN  /\ again.st = after
        /\ Convert(after, again.p, TypeOf(c)) =
             IF HasKey(there.p) \/ there.p.idx = Len(there.st[there.p.of].elems)
             THEN c ELSE Convert(there.st, there.p, TypeOf(c))

\* The elements of an array stay what they are, however it is used, until the
\* array is replaced: an assignment to an index never changes one.
ElementsStay ==
  [][\A h \in DOMAIN store :
       \/ IsPrefix(store[h].elems, store'[h].elems)
       \/ store'[h] = Empty(store'[h].type) /\ store[h].type # store'[h].type]_dvars

\* The root is an object, and no structure below it mixes keys and elements.
Unmixed ==
  /\ store # <<>>
  /\ store[Root].type = "Object"
  /\ \A h \in Attached(store) :
       IF store[h].type = "Object" THEN store[h].elems = <<>> ELSE store[h].map = <<>>

\* Some nested array has an element that is not null; some value is refused.
Filled == \E h \in Attached(store) :
  store[h].type = "Array" /\ \E c \in CellsOf(store[h]) : TypeOf(c) # "Null"
Refusing == \E h \in Attached(store) : \E c \in CellsOf(store[h]) :
  ~Names(c) /\ Show(store, c) \in Unwritable

\* What keys and indices lead to from the root, in the document and in a text.
Places ==
  LET S == {<<"key", k>> : k \in Keys} \cup {<<"idx", i>> : i \in Indices}
  IN  {<<<<"key", k>>>> \o path : k \in Keys, path \in UNION {[1 .. n -> S] : n \in 0 .. 2}}
Follow(path) ==
  FoldLeft(LAMBDA c, s :
             CASE s[1] = "key" /\ TypeOf(c) = "Object" -> Read(store, c[2], s[2])
               [] s[1] = "idx" /\ TypeOf(c) = "Array"  -> ReadAt(store, c[2], s[2])
               [] OTHER -> Absent,
           <<"Object", Root>>, path)
InText(j, path) ==
  FoldLeft(LAMBDA v, s :
             CASE s[1] = "key" /\ v[1] = "object" /\ s[2] \in DOMAIN v[2] -> v[2][s[2]]
               [] s[1] = "idx" /\ v[1] = "array" /\ s[2] < Len(v[2]) -> v[2][s[2] + 1]
               [] OTHER -> Absent,
           j, path)

\* v says in a text what c holds: bytes as hex that decodes to them.
Written(v, c) ==
  CASE TypeOf(c) = "Bytes" -> v[1] = "string" /\ Decode[v[2]] = c[2]
    [] OTHER -> v = <<CASE TypeOf(c) = "Null"    -> "null"
                        [] TypeOf(c) = "Bool"    -> "bool"
                        [] TypeOf(c) = "Int64"   -> "int"
                        [] TypeOf(c) = "Float64" -> "real"
                        [] TypeOf(c) = "String"  -> "string", c[2]>>

\* Printing is all or nothing.  A value that yyjson refuses, wherever it is,
\* leaves "{}", an element of a nested array throws, whatever else is to be
\* printed, and otherwise the text has each object, array of that length and
\* scalar at its place, and nothing where the document has nothing.
PrintComplete ==
  Unmixed => LET text == ToJson(store) IN
    CASE Filled               -> text = Thrown
      [] ~Filled /\ Refusing  -> text = <<"object", <<>>>>
      [] ~Filled /\ ~Refusing -> text[1] = "object" /\ \A path \in Places :
           LET c == Follow(path)
               v == InText(text, path)
           IN  CASE TypeOf(c) = "Object" -> v[1] = "object"
                 [] TypeOf(c) = "Array"  ->
                      v[1] = "array" /\ Len(v[2]) = Len(store[c[2]].elems)
                 [] c = Absent -> v = Absent
                 [] OTHER      -> Written(v, c)

\* A printed value that parsing and printing gives back: no int of more than 32
\* bits, no string that holds a NUL or is hex in upper case.
Survives(v) ==
  CASE v[1] = "int"    -> Int32(v[2]) = v[2]
    [] v[1] = "string" -> Cut[v[2]] = v[2] /\
                          (v[2] \in DOMAIN Decode => Encode[Decode[v[2]]] = v[2])
    [] OTHER -> TRUE

\* A text parsed and printed again has the same objects and arrays, and other
\* scalars exactly where one does not survive; a second time changes nothing.
PrintStable ==
  Unmixed /\ ~Filled /\ ~Refusing =>
    LET once == ToJson(store)
        twice == ToJson(FromJson(AsText(once)))
    IN  /\ ToJson(FromJson(AsText(twice))) = twice
        /\ \A path \in Places :
             LET v == InText(once, path)
                 w == InText(twice, path)
             IN  /\ w[1] = v[1]
                 /\ v[1] = "array" => Len(w[2]) = Len(v[2])
                 /\ ~IsNested(v) => (w = v <=> Survives(v))
=============================================================================
