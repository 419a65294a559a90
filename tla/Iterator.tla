------------------------------ MODULE Iterator ------------------------------
(***************************************************************************)
(* lite3cpp::Iterator (src/src/iterator.cpp) walking an object of a Buffer *)
(* while the same caller also writes to the buffer.  The iterator keeps    *)
(* node offsets, so every step compares the generation of the node at      *)
(* offset 0 with the one it was made under (Buffer::begin), and refuses to *)
(* go on when they differ.                                                 *)
(*                                                                         *)
(* One iterator lives at a time.  Its steps run between calls of set_impl, *)
(* because Buffer and Iterator belong to one thread.  The reads of tag,    *)
(* key and type at kv_ofs are abstracted to reading the entry, so only     *)
(* objects are walked.                                                     *)
(***************************************************************************)
EXTENDS BTree, FiniteSetsExt

CONSTANTS
  HeightMax,  \* config::tree_height_max, 9 in the code
  MaxCalls    \* bound: calls of set_* and arr_append_*

ASSUME HeightAssumption == HeightMax \in Nat /\ MaxCalls \in Nat

VARIABLES
  live,       \* m_buffer # nullptr
  it_gen,     \* m_initial_buffer_generation
  stack,      \* m_stack[0 .. m_depth], the innermost frame last
  current,    \* the key of m_current_value while m_buffer is set, or NoKey
  origin,     \* history: the root it was made for, or NoOrigin
  seen,       \* history: the keys yielded so far
  split,      \* history: the node at offset 0 was split since it was made
  wrote,      \* history: the structures written to since it was made
  calls       \* history: calls begun in all

itvars == <<live, it_gen, stack, current, origin, seen, split, wrote, calls>>
allvars == <<vars, itvars>>

NoKey == -1
NoOrigin == -1
Frame(n, i) == [ofs |-> n, idx |-> i]

ItInit ==
  /\ Init
  /\ live = FALSE
  /\ it_gen = 0
  /\ stack = <<>>
  /\ current = NoKey
  /\ origin = NoOrigin
  /\ seen = <<>>
  /\ split = FALSE
  /\ wrote = {}
  /\ calls = 0

-----------------------------------------------------------------------------
(***************************************************************************)
(* Steps of the iterator                                                   *)
(***************************************************************************)

\* find_first: the frames from node n, at stack index d, down its leftmost
\* children, as far as the stack has room for more.
Leftmost(n, d) ==
  LET spine[room \in 0 .. HeightMax] ==
        [m \in Nodes |->
           LET c == node[m].child[0]
           IN  IF c = 0 \/ room = 0 THEN <<Frame(m, 0)>>
               ELSE <<Frame(m, 0)>> \o spine[room - 1][c]]
  IN  spine[HeightMax - d][n]

\* Mutant: the last key of a node is passed over.
HasMoreShort(f) == f.idx < Len(node[f.ofs].keys) - 1
HasMore(f) == f.idx < Len(node[f.ofs].keys)

\* Mutants: two keys are counted as one; the child before the key is entered
\* instead of the one after it.
AdvanceByTwo(st) ==
  LET d == Max({0} \cup {i \in DOMAIN st : HasMore(st[i])})
  IN  IF d = 0
      THEN live' = FALSE /\ stack' = <<>> /\ current' = NoKey
      ELSE LET f == st[d]
               c == node[f.ofs].child[f.idx + 1]
           IN  /\ live' = TRUE
               /\ current' = node[f.ofs].keys[f.idx + 1].key
               /\ stack' = SubSeq(st, 1, d - 1) \o <<Frame(f.ofs, f.idx + 2)>>
                           \o (IF c # 0 /\ d - 1 < HeightMax
                               THEN Leftmost(c, d) ELSE <<>>)
AdvanceBefore(st) ==
  LET d == Max({0} \cup {i \in DOMAIN st : HasMore(st[i])})
  IN  IF d = 0
      THEN live' = FALSE /\ stack' = <<>> /\ current' = NoKey
      ELSE LET f == st[d]
               c == node[f.ofs].child[f.idx]
           IN  /\ live' = TRUE
               /\ current' = node[f.ofs].keys[f.idx + 1].key
               /\ stack' = SubSeq(st, 1, d - 1) \o <<Frame(f.ofs, f.idx + 1)>>
                           \o (IF c # 0 /\ d - 1 < HeightMax
                               THEN Leftmost(c, d) ELSE <<>>)

\* find_next from stack st: frames whose keys are used up are dropped, the
\* innermost other one yields its key, and the child after that key is next.
Advance(st) ==
  LET d == Max({0} \cup {i \in DOMAIN st : HasMore(st[i])})
  IN  IF d = 0
      THEN /\ live' = FALSE
           /\ stack' = <<>>
           /\ current' = NoKey
      ELSE LET f == st[d]
               c == node[f.ofs].child[f.idx + 1]
               k == node[f.ofs].keys[f.idx + 1].key
           IN  /\ live' = TRUE
               /\ current' = k
               /\ stack' = SubSeq(st, 1, d - 1) \o <<Frame(f.ofs, f.idx + 1)>>
                           \o (IF c # 0 /\ d - 1 < HeightMax
                               THEN Leftmost(c, d) ELSE <<>>)

Yielded == IF live' THEN <<current'>> ELSE <<>>

\* Buffer::begin and the constructor: the walk stands on its first key.
BeginWalk(r) ==
  /\ pc = "idle"
  /\ ~live
  /\ it_gen' = node[0].gen
  /\ Advance(Leftmost(r, 0))
  /\ origin' = r
  /\ seen' = Yielded
  /\ split' = FALSE
  /\ wrote' = {}
  /\ UNCHANGED <<vars, calls>>

\* Mutant: an invalidated iterator is not ended.
IncrementIfValid ==
  /\ pc = "idle"
  /\ live
  /\ node[0].gen = it_gen
  /\ Advance(stack)
  /\ seen' = seen \o Yielded
  /\ UNCHANGED <<vars, it_gen, origin, split, wrote, calls>>

\* operator++: the walk ends, silently, when the generations differ.
Increment ==
  /\ pc = "idle"
  /\ live
  /\ IF node[0].gen # it_gen
     THEN live' = FALSE /\ current' = NoKey /\ UNCHANGED <<stack, seen>>
     ELSE Advance(stack) /\ seen' = seen \o Yielded
  /\ UNCHANGED <<vars, it_gen, origin, split, wrote, calls>>

\* operator* and operator-> return a value instead of throwing.
Readable == pc = "idle" /\ live /\ node[0].gen = it_gen

Write ==
  /\ calls < MaxCalls
  /\ \E r \in roots, v \in Values :
       /\ \/ r \in RootsOf("Array") /\ AppendBegin(r, v)
          \/ r \in RootsOf("Object") /\ \E k \in Keys : SetBegin(r, k, v)
       /\ wrote' = wrote \cup {r}
  /\ calls' = calls + 1
  /\ UNCHANGED <<live, it_gen, stack, current, origin, seen, split>>

TurnUnderIterator ==
  /\ Turn
  /\ split' = (split \/ (node_ofs = 0 /\ Full(0)))
  /\ UNCHANGED <<live, it_gen, stack, current, origin, seen, wrote, calls>>

Create ==
  /\ \E t \in Types : InitStructure(t)
  /\ UNCHANGED itvars

ItNext ==
  \/ Create
  \/ Write
  \/ TurnUnderIterator
  \/ \E r \in RootsOf("Object") : BeginWalk(r)
  \/ Increment

ItSpec == ItInit /\ [][ItNext]_allvars

\* A loop over the object keeps incrementing, and calls keep returning.
FairItSpec ==
  ItSpec /\ WF_allvars(Increment) /\ WF_allvars(TurnUnderIterator)

-----------------------------------------------------------------------------
(***************************************************************************)
(* What an iteration is worth                                              *)
(***************************************************************************)

\* What an iteration of structure r should yield.
KeysOf(r) == [i \in DOMAIN InOrder(r) |-> InOrder(r)[i].key]

\* The stack never outgrows m_stack and its offsets stay nodes, even of an
\* iterator that outlived splits of the nodes it stands on.
ItTypeOK ==
  /\ live \in BOOLEAN
  /\ it_gen \in 0 .. GenMod - 1
  /\ stack \in Seq([ofs : Nodes, idx : 0 .. MaxKeys])
  /\ Len(stack) <= HeightMax + 1
  /\ live => stack # <<>>
  /\ current \in Keys \cup {NoKey}
  /\ seen \in Seq(Keys)
  /\ split \in BOOLEAN
  /\ wrote \subseteq roots
  /\ calls \in 0 .. MaxCalls

\* A readable iterator over an unchanged object has yielded the first keys of
\* the object, in order, and stands on the last of them, unless the tree is
\* deeper than the stack.
YieldsInOrder ==
  Readable /\ origin \notin wrote /\ Height(origin) <= HeightMax =>
    /\ seen = SubSeq(KeysOf(origin), 1, Len(seen))
    /\ current = seen[Len(seen)]

\* The walk of an object ends only when all its keys were yielded, unless the
\* buffer was written to or the tree is deeper than the stack.
EndsComplete ==
  ~live /\ origin # NoOrigin /\ wrote = {} /\ Height(origin) <= HeightMax =>
    seen = KeysOf(origin)

\* A write to the structure at offset 0 is noticed by the next dereference as
\* long as that structure's root has not been split since.
WritesNoticed == Readable /\ 0 \in wrote => split

\* An iterator that can still be dereferenced has outlived no write: otherwise
\* operator* throws "Buffer modified during iteration".
StaleReadsThrow == Readable => wrote = {}

\* In particular an object that was written to throws, wherever it lies.
OwnWritesThrow == Readable => origin \notin wrote

\* Every loop over an object comes to its end, whatever is written meanwhile.
IterationEnds == live ~> ~live
=============================================================================
