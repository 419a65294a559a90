# A TLA+ model of lite3-cpp

lite3-cpp keeps JSON-like documents in one growing array of bytes. An object or
an array is a B-tree of 96-byte nodes in that array; nodes name each other, and
entries, by byte offset. Around this `Buffer` there are an iterator, proxies for
a convenient syntax, a JSON conversion, observability hooks, and, unrelated to
all of it, a consistent-hash ring.

This directory holds TLA+ modules translated from the source, configurations
that model-check them with TLC, and proofs checked by TLAPS. Source files are
named without their directory; they are under `src/src` and `src/include`.

## 1. Inventory

| component | state | operations | interacts with |
| --- | --- | --- | --- |
| Search trees (`buffer.cpp`: `init_structure`, `set_impl`, `get_impl`, `arr_append_impl`) | nodes: generation, type, size, hashes, entries, children | create a structure; set a key; append; read | the byte layout below it; the hooks (metrics of each call, a log line per split) |
| Byte layout (`ensure_capacity`, entries in `set_impl`, `set_obj`, `set_arr`, `arr_append_obj`, `arr_append_arr`) | `m_data`, `m_used_size` | grow; write an entry; overwrite in place; lay a node out inside a value | the trees, whose offsets point into it |
| Node layout (`node.hpp`, `config.hpp`) | five packed arrays of `uint32_t` | getters and setters with bit masks | the trees, the iterator |
| Iterator (`iterator.cpp`) | buffer pointer, generation, stack of (node, index) | begin, `++`, `*`, `==` | reads nodes of the buffer between its owner's writes |
| Observability (`observability.cpp`, `observability.hpp`, `ScopedMetric` in `buffer.cpp` and `json.cpp`) | three global atomics | install a logger, a collector, a threshold; log; report | every operation of the library, on every thread |
| Hash ring (`lite3/ring.hpp`) | ordered map from hash to node id | add and remove a node, look a key up | nothing |
| Proxies (`value.cpp`, `document.cpp`, `object.cpp`, `array.cpp`) | buffer pointer, parent offset, key or index | index, convert, assign, `push_back` | create nested structures on first use |
| JSON (`json.cpp`) | none of its own | parse, print | fills and walks the structures of a buffer; the hooks; yyjson |
| Utilities (`utils/hash`, `utils/hex`) | none | `djb2_hash`, `hex_decode` | called by the above |

What is hard here:

- **Splits.** `set_impl` splits full nodes on its way down, one turn of a
  `while (true)` loop at a time, with the indices of keys and children moved by
  hand. A mistake shows only in trees of two or three levels.
- **Equal hashes.** Entries are ordered by hash, then by key, except at the one
  comparison that chooses a half after a split.
- **Several structures in one buffer.** They grow at one end of one array, and
  only the structure at offset 0 has the generation that iterators compare.
- **Bytes.** Entries are overwritten in place when lengths agree, nodes are laid
  out inside values, room is asked for in three different ways, and a one-byte
  tag holds the length of a key.
- **Iterators that outlive writes.** They keep offsets of nodes that may have
  been split and refilled, and rely on the generation alone.
- **Proxies that outlive structures.** A `Value` keeps the offset of its parent,
  which another `Value` may replace; and reading through `operator[]` writes.
- **Hooks replaced while in use.** Loads of the global pointers and calls through
  them are separate steps, on many threads, and the library owns neither hook.

What makes each component correct:

- trees: links never dangle, nodes never overflow, no subtree is shared, leaves
  are equally deep, entries are in search order, calls return; to a caller an
  object is a map and an array an append-only sequence;
- byte layout: nothing is written over bytes in use or past the array, readers
  find every value where it was put, and what is done to one structure shows in
  no other;
- iterator: yields every key once and in order, ends, stays in its stack, and
  cannot be read after a write;
- proxies: the document stays a tree, an expression reads back what it wrote,
  an element keeps its value;
- JSON: a document is printed whole, with everything at its place, or not at
  all, and parsing and printing a text again changes only what it must;
- hooks: never called after their owner destroyed them, messages filtered by a
  threshold that was in force, both reports of an operation to one collector;
- ring: exactly the points of its members, and only the keys of the node that
  comes or goes move.

The hazards, with the line where each bites and the properties that cover it,
are listed in `PROJECT.json`.

## 2. Modules

| module | models | built on |
| --- | --- | --- |
| `BTree` | `Buffer::init_structure`, `set_impl`, `get_impl`, `arr_append_impl` | |
| `KeyMap`, `AppendLog` | what an object and an array promise: abstract specifications | |
| `BTreeObjects` | the mapping from trees to `KeyMap` and `AppendLog` | `BTree` |
| `Heap` | addresses, entries, growth, in-place overwrites, `set_obj`, `set_arr`, `arr_append_obj`, `arr_append_arr` | `BTree`, whose turns are its steps |
| `Iterator` | `Iterator` and `Buffer::begin`, interleaved with writes | `BTree` |
| `Structures` | setters and getters as callers see them, nested structures included | what `BTreeObjects` and `Heap` show |
| `Json` | `from_json_string`, `to_json_string` | `Structures` |
| `Document` | `Document`, `Value`, `Object`, `Array`: several proxies over one document | `Json` |
| `Ring` | `ConsistentHash` | |
| `Observability` | the hooks and all users of them, on several threads | |
| `MCBTree`, `MCHeap`, `MCIterator`, `MCDocument`, `MCRing`, `MCObservability` | instances for TLC | |
| `BTreeProofs`, `BTreeShapeProofs`, `BTreeOrderProofs`, `BTreeMapProofs` | theorems about the trees, each module built on the one before it: types and walks; shape; order; maps and sequences | `BTreeObjects` |
| `HeapProofs` | theorems about the layout | `Heap`, `BTreeOrderProofs` |
| `IteratorProofs` | theorems about iterations | `Iterator`, `BTreeOrderProofs` |
| `RingProofs`, `ObservabilityProofs` | theorems | the module each is named after |

There are two views of a buffer. `BTree` and `Heap` have nodes, links and
addresses. `Structures` has only what a caller can tell: maps, sequences and
which structure a cell names. The step from one to the other is what the
refinements of `BTreeObjects` (an object is a map, an array a sequence) and
`ValuesFound` and `OthersUntouched` of `Heap` (nested nodes are found, other
structures are left alone) check.

### BTree

`node` maps an offset to a node; an offset is the node's position in allocation
order, so offset 0 is still the first root and still the value that means "no
child". Entries are records of hash, key and value in place of a `kv_ofs`. A call
is `SetBegin` or `AppendBegin` followed by turns of the loop, each of which is one
action:

| action | code in `set_impl` |
| --- | --- |
| `SplitRoot` | the node is full and has no parent: its contents move to a new node, and the root becomes the parent of that node, at generation 1 |
| `SplitChild` | the node is full: a sibling gets what is right of the median, the parent gets the median and the sibling, and the walk chooses a half |
| `Descend` | the scan stops at a child |
| `Overwrite` | the key is in the node |
| `InsertLeaf` | there is no child where the scan stops |

Every turn bumps the generation of the node it stands on first (`Bumped`).
`Overwrite` and `InsertLeaf` end the call; if it is an append, `Return` also
stores the new size in the array's root, as `arr_append_impl` does. Reads
(`Get`, `ArrGet`) are the operator `Lookup`, `get_impl`'s loop. The variables
`parent_ofs`, `node_ofs` and `path_depth` are `set_impl`'s locals.

A callers' rule stands in `Next`, not in the operations: keys are set in objects
and elements appended to arrays. The code does not check that. (The test
`ModernAPITest.ArrayWorkload` breaks it: `doc.buffer().init_array()` makes a
second structure and `root_arr()` still names the object at offset 0. `Structures`
and `Document` do without the rule.)

### Heap

`Heap` adds to each turn of `BTree` what it does to the bytes: `SplitAndPlace`
puts the new node at the next multiple of `node_alignment`, `Write` appends an
entry, `OverwriteInPlace` replaces the value of one whose encoded length agrees.
`BTree`'s `Values` are ids of entries. A call that stores a structure is two
steps. The walk stores a value of one byte, its type, and leaves in `spot` where
that is; `LayOut` is the rest of `set_obj`, `set_arr`, `arr_append_obj` and
`arr_append_arr`, which lays a node out right behind that byte. If a node is there
already, it is reset in place, and its last eight bytes (the last two child
slots) keep what they had: `ChildrenAt`. Nodes inside values are not aligned
(buffer.cpp:546), so splits after them pad.

Bytes have no contents. Two extents that are reachable and overlap stand for
data that was destroyed; what a later call would do depends on that data, so
calls start on buffers that are `Intact` only. Within a call, and up to the end of it,
everything is followed, and `risk` remembers what a node was laid out over.

Keys have at most 62 bytes (`KeyLenAssumption`). `set_impl` writes one byte
`(size + 1) << 2` as the tag of a key, reserves room for a tag of up to three, and
readers pass over `1 + tag / 4` bytes. `TagHolds` proves that the two agree for keys
of up to 62 bytes and for no others: with a longer key, the reader's key and value
are not what was written. What a comparison with such bytes yields is not
modelled.

### Iterator

The frames of `m_stack` are a sequence. `Advance` is `find_next` with the recursion
that drops used-up frames, `Leftmost` is `find_first`, `BeginWalk` is
`Buffer::begin` with the constructor, `Increment` is `operator++` with the check of
the generation, and `Readable` says that `operator*` returns. The steps of an
iterator fall between calls of `set_impl`: neither class may be shared by
threads. `origin`, `seen`, `split`, `wrote` and `calls` are history: no guard
of a modelled operation reads them, but for the bound on calls.

Abstracted: the checks that an entry lies inside `m_data`, which hold for every
entry `set_impl` writes; `operator==` between two live iterators; iteration of
arrays, whose entries have no key (what it does when an object has elements is in
`Json!Iterated`).

### Structures, Json, Document

A structure is a record of its type, a map and elements, because no setter looks
at the type it is given. Setters return the structures changed. `SetNested` over a
structure lays the new one out over the old one, so both have one name, as
`Heap!LayOut` has it.

`Json!Fill` is `from_yyjson_val`; `Members` and `Show` are `to_yyjson_val`. A text
is the value yyjson parses it to. Modelled as the code does it: integers are cut
to C's `int`, strings end at a NUL, a string that is hex is stored as bytes, the root array is printed
without its elements, a nested array with an element other than null makes the
getters throw (they are asked at `ofs` while the types are read at `ofs + 1`),
an object that also has elements gives up at the first of them, and one value
that yyjson refuses makes the whole text `{}`.

`Document` has the proxies. `Resolve` is the first half of `Value::operator[]`,
which turns a proxy into a structure and makes one where there is none of the
right type; `Put` is `operator=`; `Convert` the conversions. Proxies are chosen
freely, so that one may stand on a structure that was replaced through another.
A structure over a null is not followed here: what that does is `Heap_null`.

Facts that this reading turned up, and that are in the model: assignment to an
index always appends; `operator[]` on an index that is absent, or not an object,
appends a new structure; the conversions of a proxy of the root, or of a missing
value, give a default; `Array` and `Object` of a document always mean offset 0.

### Ring

`Point` gives each replica its hash and is a constant function of which nothing is
assumed, so points may be shared: `add_node` then takes a shared point over, and
`remove_node` erases what the node has now, not what it was given. `members` is
history.

### Observability

A thread may be in several operations inside each other (an iteration of
`to_json_string` calls getters): `depth` counts open `ScopedMetric`s. Each
atomic load and each call of a hook is a step. `log_if_enabled` takes three
(threshold, logger, call); the log line of a split takes two, because `set_impl` loads
`g_logger` itself; closing a metric takes four (leave the scope, load, latency, count). `CatchAll` is the
`catch (...)` of `~ScopedMetric`. A collector is what it was told:
latencies less operations (`owed`).

`Destroy` is the application's side of the contract in `observability.hpp`
("remains valid for the entire duration it is set and used by the library"): a hook
may be destroyed when another one was installed since and every operation that
began before that has ended. `installed` and `held` record just that.
Installing a hook and destroying it never wait for each other in the code, so the contract is all
there is. A logger's exception leaves the operation early, which is a `Close` after
`CallLog`. Only the hooks' atomics are shared; the model has them
sequentially consistent, and acquire/release order on three independent variables
that each carry one pointer or number gives no more to these properties.

## 3. Runs

Bounds are named constants: `MaxNodes` (no call starts once that many nodes
exist), `MaxRoots`, `MaxCalls`, `MaxSteps`, `MaxStructures`, `MaxDepth`,
`MaxFailures`. Calls that have started always
run to their end. `GenMod` is 1 where generations do not matter, so that they do not
multiply states.

| run | checks | instance, and why it is enough |
| --- | --- | --- |
| `BTree_deep` | type, links, walk, no sharing, fill, balance, path stack, order, dense arrays, the two abstract specifications, termination | nodes of 3 keys, 8 keys in any order, or an array, up to 6 nodes and the splits of one more call: trees reach three levels, so inner nodes split, with their children, under a root that splits. That 3 keys a node stand for the code's 7 is what the theorems about the trees show, for every odd width from 3 on |
| `Heap_layout` | types, bounds, values found, no overwriting, clean nodes, other structures untouched | an object with two keys, of 40 and 62 bytes (the longest that readers can pass over), and an array; scalars, nulls and nested structures; three calls on objects and six on arrays, so that the array splits twice while nested structures are made, replaced and moved in between; two roots at most |
| `Iterator_walk` | type, order, completeness, invalidation, termination | up to two structures, 5 keys, 5 calls: trees of two levels, written to at every point of the walk; a stack of `HeightMax` + 1 = 2 frames, which such trees fill |
| `Document_shared` | types, one owner, kinds, expressions, elements, printing | two proxies in any order of five operations over up to four structures, a new document or one of six texts (nested twice, a name twice, hex, a NUL, ints beyond the range, nulls in an array, a nested array that cannot be printed); among the values assigned an int beyond the range, hex, a NUL and a NaN, so that each way in which printing fails or changes a value comes up; the two proxies are symmetric |
| `Ring_collide` | type, members, circle, moves | 7 nodes of 2 points with several collisions, a key at every hash |
| `Obs_hooks` | type, lifetime, filter, paired reports | two threads, operations two deep, one logger and one collector to swap and destroy, two levels, one exception; thread symmetry, as only invariants are checked |

Some properties of these runs allow for what the code is known to do:

- `SparesNeighbours` excepts a structure put over a null, and `ValuesFound` and
  `OthersUntouched` end where something was laid out over what it does not fit.
- `StartsClean` excepts a structure put over one whose root holds at least
  `node_key_count - 1` keys over children (`Tall`): the slots that are not
  cleared then lie within the new node's reach once it has as many keys.
- `YieldsInOrder` and `EndsComplete` are about trees no higher than
  `HeightMax`: `find_first` stops pushing when `m_stack` is full, and the walk of a
  higher tree then yields keys of inner nodes before those of the subtrees to their left.
- `ExpressionsLand` says that `root[a][i] = v` is read back only when `i` is the
  size of the array; `KindsKept` excepts the root and structures in `retyped`.
- `PrintComplete` and `PrintStable` are about objects in which no structure mixes keys and
  elements (`Unmixed`). Of those, `PrintComplete` says when printing throws, when it gives
  `{}`, and that the text is otherwise whole; `PrintStable`, that a text parsed and printed again
  differs exactly in the scalars that do not survive it (`Survives`), and a third one not at all.

Six runs show a disagreement between the code and what its tests, comments or
documentation say:

| run | property | what happens |
| --- | --- | --- |
| `BTree_update` | `ReadYourWrite` | After a split, `set_impl` goes right only for a hash *greater* than the promoted median's (`buffer.cpp:238`). Overwriting the median of a full node goes left and inserts a second entry for it; reads find the old one in the parent. With the code's 7 keys a node: put seven keys in, overwrite the fourth in hash order, read it. |
| `BTree_collide` | `InsertedKeysRetrievable` | The same comparison ignores the key: a new key that collides with the median and sorts after it goes left and is not found again. |
| `Heap_null` | `AlwaysApart` | The encoded lengths of a null and of a structure's type byte agree, so `set_obj` over a null writes in place (`buffer.cpp:298`) and lays 96 bytes of node out over the entries behind the null (`buffer.cpp:543`). |
| `Iterator_split` | `StaleReadsThrow` | A root split sets the generation back to 1 (`buffer.cpp:172`); an older iterator becomes readable again once writes bring it back to the value it remembers. |
| `Iterator_nested` | `OwnWritesThrow` | Iterators compare the generation of the node at offset 0 (`buffer.cpp:774`), and a write bumps that of the structure it is given: an iterator over a nested structure stays readable while that structure is written to. Two structures, and too few calls for a split. |
| `Obs_filter` | `AllFiltered` | The log line of a split ignores the threshold (`buffer.cpp:141`). |

`KeyMap!LossySpec`, which the passing runs check, allows one deviation and
no more: a call that names a key the object *holds* may be without effect. It
still forbids that such a call changes anything else, that a new key is lost, and
that any earlier turn changes what a reader sees. The runs that check it use hashes without
collisions, since a collision breaks even that (`BTree_collide`). `SearchOrder`
allows an entry twice for the same reason.

**Fairness.** `FairSpec` has weak fairness of `Turn`: a call runs on its caller's
thread, takes no lock and waits for nobody. `FairItSpec` adds weak fairness of
`Increment`: `IterationEnds` is about a loop `for (it = begin; it != end; ++it)`,
whose body may write but which keeps coming round. Nothing is assumed of when calls
are made, and the other modules need no fairness.

**Deadlock** is checked for the ring and the hooks. The other instances stop
when their bounds are reached (`CHECK_DEADLOCK FALSE`); that no call is stuck half-way is what
`SetReturns` says.

## 4. Proofs

All are checked by `tlapm` for arbitrary constants under the named assumptions of
the modules.

| theorem | says | argument |
| --- | --- | --- |
| `BTreeProofs!TypeCorrect`, `ShapeSafe`, `WalkSafe` | `TypeOK`, `NodeShape`, `WalkOK` always hold | from `SoundAlways`: the invariant `Sound`, their conjunction, is inductive, and none of the three is on its own. `SplitChild` keeps nodes within their arrays only because the parent had room, which is `WalkOK`, and finds the node's index only because the parent links to it; that holds after a `Descend` only because the parent was not full, and after a `SplitRoot` because the new root has one child; and all of it needs that live children are nodes (`NodeShape`) |
| `BTreeShapeProofs!OneParentAlways`, `HalfFullAlways` | no two live links name one node or a root; only roots are less than half full | inductive together with `Sound`. Turns that move no link are `Calm`. For a split, each live link of the new tree is traced to the link of the old one it was (`WereLinks`), and no two to the same (`WereApart`): the halves' links come from either side of the median, the parent's later ones from one slot to the left |
| `BTreeShapeProofs!BalancedAlways`, `PathFitsAlways` | all leaves below a root are equally deep; the path stack holds at most two entries a level | there is a level for each node, one above its children's, 0 at leaves and the same for all children (`Levels`, existentially quantified in the invariant: a split gives the new sibling its twin's level, a root split the new root one more). That `Depth` *is* the level is then shown by a smallest counterexample |
| `BTreeOrderProofs!SearchOrderAlways` | without collisions, iteration meets entries in the order in which `compare_node_key` searches | each node has bounds `lo` and `hi`, which its keys lie between and its children's bounds divide (`Order`); `WalkBound` says that the hash a call looks for lies within the bounds of the node it stands on. `Overwrite` may leave the median twice (`BTree_update`), so the upper bound of a leaf may be met. `WovenBelow` puts the runs of the children between the keys, by a smallest counterexample in the level |
| `BTreeMapProofs!ObjectsAreMapsAlways` | without collisions, objects implement `KeyMap!LossySpec`: the refinement, step by step | below |
| `BTreeMapProofs!InsertedRetrievable` | without collisions, a new key is retrievable when the call that sets it returns | so what `BTree_collide` shows has no other cause |
| `BTreeMapProofs!CountedAlways`, `ArraysAreLogsAlways`, `ArrayDenseAlways` | without collisions and while no array's size reaches its width, arrays implement `AppendLog`; an array has an entry for each index below its size, once and in order | below |
| `HeapProofs!HTypeCorrect`, `InBufferAlways` | `HTypeOK`, `InBuffer` always hold | the invariant `HSound` has a part for the trees (`HTrees`) and one for the places (`HPlaces`). Where a nested structure goes is where the walk of `set_impl` ended, so its place lies in the buffer only if that walk ran on sound trees: `Called` keeps `Sound` while a call runs, and it holds when a call starts because calls start on `Intact` buffers. Between calls only `Loose` is kept, as a node laid out over other bytes may have any children. `Known` (entries in nodes were written) and `Agreed` (readers and writers agree on keys, from `TagHolds`) place the overwritten value |
| `HeapProofs!SparesNeighboursAlways`, `ValuesFoundAlways` | nodes and entries that can be reached share no byte; readers find the value behind each key and the root behind each structure's type byte | below |
| `HeapProofs!StartsCleanAlways` | a structure laid out where one was starts without the old one's children | below |
| `HeapProofs!OthersUntouchedAlways` | a call shows in its own structure only, and a structure laid out in the one whose place it takes | below |
| `HeapProofs!TagHolds` | readers pass over exactly what a key was given if and only if it has at most 62 bytes | arithmetic of `Tag` and `TagSize` |
| `IteratorProofs!ItTypeOKAlways` | `ItTypeOK` always holds: the stack stays within `m_stack` | frames of inner nodes of a tree, as deep as the stack is long |
| `IteratorProofs!YieldsInOrderAlways`, `EndsCompleteAlways` | an iteration yields the keys of its object in order, and ends with all of them, while other structures are written to | below |
| `IteratorProofs!NoticedAlways` | `WritesNoticed` always holds if `MaxCalls` < `GenMod` | `WritesNoticed` does not say how often the generation was bumped. `Counting` does: it is `it_gen + c`, or that less `GenMod`, after `c` bumps; a call about structure 0 bumps node 0 once, in its first turn, as a walk that has left its root never stands on offset 0 again (`WalkOK`). With fewer calls than generations, `c` > 0 makes the two differ |
| `RingProofs!TypeCorrect`, `RingOfMembersAlways`, `CircleAgreesAlways`, `MovesAreMinimal` | the ring's invariants, and that keys move only to an added or from a removed node | the first point at or after a hash stays first when points that are not it go (`FirstOfSubset`); two hashes with no point between them have the same points after them, or none; nothing is assumed of the hash function |
| `ObservabilityProofs!TypeCorrect`, `NeverUsedAfterFree` | hooks are never null and never called when dead | `Safe`: `NoUseAfterFree` is strengthened by `Covered` (a thread's history has every pointer it may hold), `Current` (the globals hold what was installed last) and `Opened` (a reporting operation is open) |
| `ObservabilityProofs!HelperAlwaysFilters` | `HelperFilters` always holds | `Filtering`: a thread before its check has the present threshold in its `floor`, and one past it has one that its level reached |
| `ObservabilityProofs!ReportsPaired` | `MetricsPaired` always holds | `Balance`: a collector is owed at least as many counts as threads stand between the two reports to it, and exactly as many without failures |

Assumptions used: keys are numbers and `Hash` maps them to numbers
(`KeysAssumption`), `MaxKeys` is odd and at least 3 (7 in the code), widths are
positive, keys have at most 62 bytes and values are records of a type and a size,
of which nulls and structures alone have nothing behind their type byte (`Heap`), there are
finitely many threads, hooks of the application are not the library's null hooks. The bounds on nodes,
roots, calls, depth and failures are arbitrary numbers.

`HashInjective`, a hypothesis of the theorems of `BTreeOrderProofs` and
`BTreeMapProofs` that name it, says that no two keys have one hash. It cannot go:
`BTree_collide` shows a lost key without it. The hashes of an array are its indices and never
collide, but the theorems about arrays have the hypothesis too: they rest on the order of all trees of a
buffer (`Ordered`), of its objects as well. `SizesFit`, a
hypothesis `[]SizesFit` of those about arrays, says that no array is so long that one more append
makes the 26 bits of its size 0, which `arr_append_impl` does not look at. The
instances of the `BTree` runs, but that of `BTree_collide`, meet both.

The structure of `BTreeProofs`: what `Position` and `IndexInParent` choose (by
`LeastNatural`), what insertion does to a sequence (`InsertedSeq`), that the halves
of a split, the parent with the median and the new root are well-formed
(`RightHalfOK`, `LeftHalfOK`, `WithMedianOK`, `NewRootOK`), what each split makes of
the nodes (`SplitRootNodes`, `SplitChildNodes`), then one lemma an action. The
other proofs about the trees build on those lemmas.

*Objects are maps.* `Lookup` is a recursive function, of which nothing can be
shown by induction here; `FixedPoint` shows that the equations of `Lookup` (and of
`InOrder`) have a solution on trees with levels, so that the function chosen satisfies them, and what it
finds is shown from the smallest level at which it would fail. A lookup from a
root finds a value exactly when some node of that root's tree `Has` it: an entry that is
strictly below the node's upper bound. An entry *equal* to the
bound is the second copy that an overwrite of a promoted median leaves, which no search
reaches; that is the one way to lose a call. Each
turn is then a statement about `Has` alone. A split moves entries but changes nothing that any root `Has`
(`Stays`), and the last turn of a call gives the root the called key's value or
nothing (`Effect`). `ReadsHeld` ties the two together as one closed formula about states (`AllRead`),
and `NextTold` gives what callers are told of a step, from which the
steps of `KeyMap` follow.

*Arrays are sequences.* An append asks for a hash that its array does not have yet
(`Counted`: the array has just the indices below its size; `AppendFresh`), so it is never lost.
`Distinct` (no node of an array has an entry equal to its upper bound) excludes second copies, and `NoGap` finds an
entry between any two bounds that leave room for one. Then between two bounds lies
a run of all the numbers between them, which `DenseArray` joins up to the root.

*Nothing is written over anything.* What can be reached changes with every link, so
the invariant does not speak of it: nothing in a buffer is freed, and `Spread` says
that everything ever laid out, dead or alive, is disjoint. New nodes and entries go
to the end of the buffer, which is all there is to show but for two steps. An entry
overwritten in place keeps its length, as the encoded lengths agree. And `LayOut` puts a
node right behind a type byte that the walk wrote, in a new entry at the end or over
an old value. In the second case the old value has one byte too (`SizesAssumption`), so it was a
structure or a null, and if it was a structure, its root is what lies there: `Backed` says so
of every type byte in the buffer, and `Spotted` of the one just written. A null is the one
exception, and `risk` records it for good. `InUse` is recursive again, and `FixedPoint` gives it
values; that they are nodes is all that is needed of them.

*Structures start clean.* The eight bytes that `LayOut` leaves alone are the last two child slots. At
the end of the buffer they were never written. In an old root they are 0 unless they are
live (`Clear`), which holds because a split of a root hands all links to a new node, and a root
that gains a child has one more live slot for it; a node below the root does not satisfy
it, as the left half of a split keeps stale links. For this the links of the old tree must be what
`Shapely` of `BTreeShapeProofs` says, so `Clean` carries that along.

*A call shows in its own structure only.* Two things could carry a write over: a node that two structures
reach, and an entry that two structures name, whose value is overwritten in place. `Homed` excludes both:
each node has a level and a home (`Ranking`), and no entry is named from nodes of two homes
(`Owned`). Every turn hands names on within a home, but for the entry it writes, which is
new (`Handed`). So a step on another structure leaves the nodes of this one alone
(`TurnElsewhere`, `AsideUntouched`), hence its `InOrder` (`SameBelow`), and what `InOrder` lists
is named in this home (`ListedNames`), where no overwrite on another one reaches (`AsideEntries`). The
attempt to take the levels over from `BTreeShapeProofs` as they were failed: they asked that each
node other than a root hangs in a tree, and laying a structure out over an old root leaves the
old one's nodes hanging nowhere. `Hung` is now a clause of its own, which depths need and
`Heap` does not keep; the rest survives a `LayOut` (`LayOutRanks`).

*An iteration meets all keys in order.* `InOrder` says what the order is, and needs no
bounds and no hypothesis about hashes. The invariant is that the stack is a walk from
the root to a leaf (`Placed`): frame *j* stands on a node *j* - 1 levels below the root, and its index cuts
the entries below that node in two (`CutAt`: the entries up to child *s*, then key *s*, and so on). The
entries of each child lie without gaps in those of its parent (`Sits`), so the frames add
up to one number, the entries of the object that were passed (`Path`). `find_next` drops
frames whose node is used up, yields the key at the index of the innermost that is not
(`Innermost`), moves it on, and goes down to the first leaf of the next child, which
makes that number one more (`AdvancePath`). A write to another structure
changes nodes with another root only (`TurnElsewhere`), after which `InOrder` and the levels
below this root are what they were (`SameBelow`, by a smallest counterexample). A first
version of `YieldsInOrder` did not mention the height of the tree; its proof failed at `Leftmost`, on
trees that no instance in reach of TLC has.

Only model-checked:

- everything about `Document`, `Json` and `Structures`: `Json` has recursive
  operators;
- the liveness properties.

## 5. Plan

Done: all components that keep state, and the theorems above. Left:

1. the packing of node fields into words (`PackedNodeLayout`), against `Node`;
2. iteration over arrays and objects of more than seven entries in `Json`, which
   now takes the order and completeness of an iteration from `Iterator`.

## 6. Not modelled

- Bit masks of nodes: `Node` has the fields with their widths. Overflow of the
  24-bit generation and the 26-bit size is in the model (`% GenMod`,
  `% SizeMod`), but the runs keep both out of reach; the theorems cover them.
- The contents of bytes, and so what happens after bytes in use were overwritten, or after a
  key of 63 bytes or more was stored. Offsets are unbounded; in the code they have 32 bits.
  `Buffer(std::vector<uint8_t>)`, which adopts bytes from elsewhere.
- The lifetime of the views that getters return, and views into `m_data` passed
  back as keys or values: the caller's contract, tracked by nothing.
- A point of the ring that two nodes share is the last one's, and gone with it: the model
  has it, and `RingOfMembers` allows it, as nothing promises a node all its points.
- `djb2_hash` and `fnv1a_64` are constants. Whether `char` is signed changes
  their values for bytes above 127, and so the order of keys in a stored buffer. In
  `Json`, hashes of keys are taken to be greater than the indices of elements.
- `hex_decode` and the printing of bytes are constants that are each other's
  inverse on what they decode; yyjson is not in the repository.
- `to_json_string` at offsets other than 0; its text for structures of more
  than seven entries.
- Operations that change nothing and say nothing: `Object::contains` is always
  true, `Array::size` always 0, `Value::type` and `Iterator::operator==` read
  only. `Value::operator=` of bytes is declared and never defined. `get_type`
  of an absent key returns an uninitialised value (`buffer.cpp:725`);
  `get_node` of an empty ring returns 0, which is also a node id (`ring.hpp:48`);
  printing an empty buffer reads past its end (`json.cpp:80`, `Undefined` in `Json`).
- Sources that nothing uses: `Buffer::split_child`, `node.cpp`,
  `packed_node_layout.hpp`.
- Build files, tests, benchmark, examples and scripts.
