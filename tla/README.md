# Verification of lemon-cmake

lemon-cmake is a set of CMake helpers (`Lemon*.cmake`), two code generators
written in Lua (`extension/`) and the Lua 5.1 interpreter that runs them
(`sources/lua/`), which `LemonLua.cmake` compiles before anything else. Nearly
all the program logic, and all of it that is hard to test, is in the
interpreter: an incremental garbage collector interleaved with the program it
serves, hash tables that move their elements around, coroutines, protected
calls and errors that share one C stack, and a one-pass compiler whose code a
virtual machine runs. This directory holds TLA+ models of those parts and of the
libraries that keep state or backtrack, the TLC runs that check them, and proofs
checked by TLAPS.

## 1. Inventory

| component | state | operations | what makes it correct |
|---|---|---|---|
| collector (`lgc.c`, `lfunc.c`, the stores of `lvm.c`, `lapi.c`) | colours, gray lists, sweep positions, finalizer list | mark and sweep steps, barriers, weak tables, `__gc`, full collection | nothing in use is freed, garbage is freed, finalizers run once |
| tables (`ltable.c`) | array part, node vector, `lastfree` | get, set, rehash, resize, next, length | a map; next visits every key once; length is a border |
| calls (`ldo.c`, part of `lvm.c`, `ldebug.c`, `lapi.c`) | CallInfos, `nCcalls`, longjmp chain, handler, hook flag, per thread | call, return, tail call, pcall, error, hook | the bookkeeping agrees with the C stack after every error |
| coroutines (`ldo.c`, `lbaselib.c`) | `status`, `baseCcalls` | create, resume, yield, status | one runs, its resumers wait in order, the dead stay dead |
| strings (`lstring.c`) | string table | intern, resize, sweep by bucket | one object per string; no resize during the sweep |
| compiler (`llex.c`, `lparser.c`, `lcode.c`) | function states, blocks, register and jump lists | one pass over the source | the code computes what the source says |
| chunks (`lzio.c`, `ldump.c`, `lundump.c`) | reader buffer | dump, undump | undump inverts dump |
| virtual machine (`lvm.c`, `ltm.c`) | stack, open upvalues, pc | one case per instruction, metamethods | an instruction does what the compiler meant by it |
| references, buffers (`lauxlib.c`) | a list of free slots in the table itself; pieces on the caller's stack | ref, unref; add, push result | no slot has two owners; the text is what was added |
| `require` (`loadlib.c`) | `package.loaded`, searches and bodies under way | require, module | a body runs again only when its entry was cleared or two searches for it overlapped |
| `sort` (`ltablib.c`) | array, ranges still to sort | one comparison at a time | sorted; nothing lost, whatever the order function does |
| patterns (`lstrlib.c`) | captures | match, find, gmatch, gsub | the first way to match, with its captures alone |
| other libraries (`lbaselib.c`, `liolib.c`, ...) | file handles | API functions | per function |
| interpreter (`lua.c`) | hook set by a signal | read, compile, run | an interrupt ends the chunk, not the process |
| CMake helpers, generators | CMake variables, files | bootstrap, projects, packages, templates | order of the steps |

**Interaction.** Everything runs in one operating system thread. The collector
runs inside allocating operations of the program (`luaC_checkGC`), in small
steps, so the program changes the heap between any two of them. Coroutines are
threads of Lua only: all share one C stack, on which `lua_resume` of one lies
above the C function of another that called it; errors are `longjmp`s across
it. Calls back into Lua come from metamethods, hooks, finalizers, message
handlers and the reader that feeds the parser, that is, from almost anywhere.
The collector shrinks the CallInfo arrays and clears the table entries of a
program that is in the middle of using them.

**What is hard.** The interleaving of stores and collector steps; registers captured by
upvalues of another thread and closed in the middle of a mark phase; weak entries and
finalizers, which look at an object the marker did not reach; long histories of
insertions and removals in a table; allocations that fail half way; jump lists threaded
through instructions that are rewritten later; captures undone when a match backtracks;
errors raised while an error is handled and at the very limits of the stacks; yields
with C functions in between. `PROJECT.json` lists each such hazard at its line, with the
property that would catch it.

## 2. Modules

* **`LuaGC`**: `lgc.c` with every operation of the program that stores a
  pointer. Heap objects belong to kind sets (`Tables`, `Udatas`, ...); `color`
  is the mark, `fld` the pointers each holds, `stk` the registers of each
  thread, `uvth`/`uvslot` where an open upvalue points. One action per case of
  `singlestep` (`markroot`, `propagatemark`, the stages of `atomic`,
  `sweepstring`, `sweeplist`, `GCTM`, `endcollection`) and one per storing
  operation, named after the instruction or function. The lists linked through
  `gclist`/`next` are sets: the visiting order is left open. The program may
  use what it can read from its registers, and nothing else.
* **`LuaGCUnbarriered`**: `LuaGC` with two more stores, `lua_setupvalue` and
  the constants of a precompiled chunk, whose barriers are wrong or missing.
* **`LuaGC_proof`**: theorems about `LuaGC`, see section 4.
* **`LuaMap`**: what a table promises, a finite map with a traversal during
  which fields may be cleared.
* **`LuaTable`**: `ltable.c`. Array part, nodes with `next` links, `lastfree`;
  `newkey` moves a colliding node that is not in its main position (Brent's
  variation), `rehash` counts the integer keys by powers of two and picks the
  array size, `resize` reinserts. The resize can fail between its two
  allocations; the collector kills the keys of empty nodes (`removeentries`)
  at any time, and `next` is given such dead keys. `LuaTable` implements `LuaMap`.
  What the code does in a loop (a walk along a chain, the reinsertion of
  `resize`, the searches for the length) is a recursive function.
* **`LuaTable_proof`**: theorems about `LuaTable`.
* **`LuaCoroutines`**: what coroutines promise, as statuses and a chain.
* **`LuaDo`**: `ldo.c` with the calling instructions, `luaG_errormsg`, GCTM,
  the parser's levels and the coroutine library. `L[t]` is the `lua_State` of a
  thread, `cstack` the C functions active on the C stack, `ctl` what the
  topmost one is doing: running its own code, about to call
  (`luaD_precall`), having its callee return or yield, or raising an error. An
  action named `f_end` is the part of `f` after its call. A longjmp is a cut of
  `cstack` at the index in `errorJmp`. `LuaDo` implements `LuaCoroutines`.
* **`LuaDo_proof`**, **`LuaDo_refinement`**: theorems about `LuaDo`.
* **`LuaDoResults`**: `LuaDo` with results too many for the resumer's stack.
* **`LuaCode`** (`lcode.c`): the functions of the code generator as operators
  over a record with the `FuncState` and the `expdesc`. Jump lists are threaded
  through the operands of the jumps, registers are a counter, a failed
  `lua_assert` clears `ok`, a limit passed sets `err`.
* **`LuaExpr`**, **`LuaParser`** (`lparser.c`): the parser. Expressions are read
  from tokens by recursive descent; statements come in pieces (the head, the
  `else`, the end of a construct), with the C stack of the parser as an explicit
  sequence, so that a program can be written one piece at a step.
* **`LuaSyntax`**, **`LuaRef`**: the abstract syntax of programs and what they
  mean: an evaluator with an environment of cells, which has no registers, no
  jumps and no upvalue lists. It follows the language, not the compiler.
* **`LuaVM`** (`lvm.c`, `ltm.c`, part of `ldo.c`, `lfunc.c`): `luaV_execute` over
  the code `LuaParser` builds, with open and closed upvalues, varargs, `L->top`
  between open calls, and metamethods.
* **`LuaVerify`** (`ldebug.c`): the bytecode verifier. **`LuaDump`** (`ldump.c`,
  `lundump.c`): precompiled chunks as sequences of blocks, with a writer that
  fails and chunks that end early.
* **`LuaCompiler`**: composes these. A behaviour writes one program; the step
  that completes it compiles it, and the properties compare.
* **`LuaStringTable`** (`lstring.c`, the string sweep of `lgc.c`): chains of
  interned strings that grow, shrink and are swept one chain at a step, with
  allocations that fail.
* **`LuaSort`** (`ltablib.c`), **`LuaReferences`**, **`LuaBuffer`**
  (`lauxlib.c`), **`LuaRequire`** (`loadlib.c`): state machines of the library
  functions they are named after. The order function of a sort may answer
  anything or fail; a call of
  `require` is a search and then a body, and in both, other code may require the same
  or other modules, return or fail.
* **`LuaPattern`** (`lstrlib.c`): the backtracking matcher with its mutable
  record of captures, `find`, `match`, `gmatch` and `gsub`, against a definition
  of all the ways to match, in order.
* **`LuaStrings_proof`**: theorems about the string table. **`LuaSort_proof`**:
  theorems about `table.sort`. **`LuaLibs_proof`**: theorems about the other
  library modules. **`LuaInduction`**:
  lemmas on natural numbers and recursive functions that all the proofs use.
* **`MC*`**: the instances for TLC.

Definitions that begin a comment with "Mutant" are faulty variants used to see
that each property can fail; no specification uses them.

## 3. Runs

| run | instance | shows |
|---|---|---|
| `gc_heap` | registry (weak, with `__gc`), a userdata, a string, one register; full collections | `NoDangling`, `GrayLists`, `SweepPending`, `FinalizeOnce`, `NoSilentFree`, the inductive invariant `IInv` |
| `gc_code` | two closures, an upvalue, two threads, a reserved word | open and closed upvalues across coroutines: `RootsAlive`, `OpenUpvals`, `IInv` (of which `NoDangling` is a part) |
| `gc_protos` | two tables, two prototypes, a closure, two registers; metatables of types, environments | the parser building code during a collection: `Tricolor`, `IInv` |
| `gc_live` | userdata with finalizer, C closure, under fairness | `GarbageFreed` |
| `calls` | main and two coroutines, 3 C calls (+2), 4 CallInfos | `CCallsExact`, `CallInfoMatches`, `CallInfosFit`, `ErrorHandlers`, `HookFlag`, and `CoroutineSpec`: `LuaDo` implements `LuaCoroutines` |
| `compiler` | about 19,000 programs in nine themes (`MCLuaCompiler`) | `Computes`: compiled code does what `LuaRef` says; `Verified`; `AssertsHold`; `RoundTrip` through dump and undump |
| `libs` | tables with integer keys 1..3, a string key that collides, two values, at most 4 nodes; four strings in up to four chains; all arrays of three numbers up to length 6 and some of 12; five references; buffers of 4 characters; two modules, three calls of `require` at once; all patterns of up to three pieces on eleven subjects | `BrentChains`, `RoomAfterRehash`, `Border`, `ArrayOptimal`, and `MapSpec`: the table implements `LuaMap`; `Interned`, `SweepComplete`, `SortSafe`, `SortsByLess`, `SortEnds`, `RefsKept`, `BufferContents`, `RequireOnce`, `MatchesFirstWay`, `GsubFollowsGmatch` |
| `setupvalue`, `undump`, `restart`, `constant_operand`, `half_full` | | violations, see section 6 |

**Bounds.** `LuaGC`: an object of each kind that a question involves is enough
for a barrier to be missing, since the bad state is one edge from a black to a
white object; two are taken where sharing matters (two closures of an upvalue,
two threads, a table and its metatable, a prototype and its child), and `Ops`
limits each instance to the operations on its kinds. There is no bound on the
number of steps or of collections. Two questions need more objects than a run has and
are settled by the theorems: a userdata that becomes garbage while an earlier one still
waits for its finalizer (`NeverSilentlyFreed`), and two open upvalues at one place of a
stack (`OpenUpvalues`). `LuaTable`: three integer keys and a string
with the hash of one of them give every chain shape of a vector of four nodes,
both parts filled, the move of a colliding node and all rehash decisions;
`MaxInt` keeps the doubling search of the length at the limit that
`MAX_INT` is in the code. `LuaDo`: the limits `LUAI_MAXCCALLS` (200),
its margin (25) and `LUAI_MAXCALLS` (20000) are 3, 2 and 4, so that each
is reached in every way: by Lua code, in a handler, in a finalizer inside a
hook, in the parser. `Bounded` does not go on from states where a thread has four
CallInfos or more and a thread is three or more C calls deep: the two limits are reached one
at a time. The array of CallInfos starts with one entry instead of 8 so
that it grows and shrinks within those limits; the state space is finite because
the limits work.

`LuaCompiler`: the limits on registers (250), constant operands (255), local variables,
upvalues, nesting and constructor batches (50) are a few each, so that short programs
pass them: constants that do not fit an operand, constructors of several batches,
functions one register over the limit. The programs of a theme are all combinations of
its menu; a run has at most `Instructions` instructions, and of a program that uses them
up `Computes` asks only that by the definition of the language it does not end either.
`StackSize`, `MAXTAGLOOP` and `MaxBlocks` bound the machine, chains of `__index`, and
chunks (none is that long). `libs`: the string table starts with one chain
(`MINSTRTABSIZE`) and grows to four (it may grow while it has at most `MaxStrtSize`)
instead of 32 and more, so that it becomes crowded in the middle of a sweep. With four
strings it is shrunk only when it is empty; what a shrinking does to chains with strings
is covered by `StringsInterned` and `SweepIsComplete`, for any sizes. sort needs four
elements to partition and twelve to recurse twice; `LIMIT` and `LUAL_BUFFERSIZE` are 4
with 14 characters, enough for pieces to be joined over several levels; `MaxRunning`
bounds how many calls of `require` lie below each other, `MaxAgain` how often an entry
is cleared and how often searches for one module overlap, `MaxStarts` the starts of a
body (one more than the property allows with these), `MaxRef` the slots of the reference
table; a pattern of three pieces reaches a nested capture, a back reference and a
repetition that has to give back.

Only `libs` has `CHECK_DEADLOCK FALSE`: its sorts and its attempts at a match
end. In the other runs a process that ends stutters. The parts of `libs` share no state
and are checked in one run, each behaviour being about one of them.

**Fairness.** `gc_live` assumes weak fairness of `singlestep`: `luaC_checkGC`
is called by every allocating operation and always finds the threshold passed
again after enough allocation, so a program that keeps allocating keeps the
collector going. Nothing is assumed of the program. `libs` assumes weak fairness
of the steps of a sort, for `SortEnds`: it is one C function that waits for
nothing but the comparison, and the property is about `<`, which returns.

**Symmetry** is used in `calls` (the two coroutines are interchangeable; its
temporal property is a step simulation, for which that is sound) and in
`gc_protos` (two prototypes, invariants only).

**Comparison with the compiled interpreter.** The two models with the most detail were
also run against the C code, to find mistakes of the models. The instructions
`LuaParser` emits and those in `string.dump` of the interpreter were compared for 17,083
of the programs: they agree except for 65 in which the source printed for the
interpreter lacked an empty `else`. `LuaPattern` was compared on 51,051 pairs of subject
and pattern, with `find`, anchored `match`, `gmatch` and five `gsub`s: no difference.

## 4. Proofs

Every theorem is for all values of the constants, from the assumptions named in the
modules (`KindsDisjoint` and `ConstantsOK` for the collector, `TableConstants` for
tables, `ConstantsAssumption` for calls, `StrtConstants` for strings, `RefConstants`,
`RequireConstants`, `BufferConstants` and `SortConstants` for the libraries). All say
`Spec => []P`, `Spec => [][A]_vars` or `Spec => AbstractSpec`.

**The collector** (`LuaGC_proof`). `TypeCorrect` says more than that variables
keep their types: every pointer stored leads to an object of a kind that the C
declaration of the field allows. `TypeOK` is inductive by itself.

`FinalizedOnce` and `NeverSilentlyFreed` are about steps.
The invariant that carries them is `Finalization`: a userdata that is dead, that
waits for its finalizer or whose finalizer ran has `FINALIZEDBIT`; so has every
white one once `luaC_separateudata` has run and until the white flips; and the
sweep in progress never meets `tmudata`.

`SafetyInvariant` proves `IInv`, and with it `NeverDangling`,
`RootsStayAlive`, `TricolorHolds`, `GrayIsListed`, `SweepMissesNothing` and
`OpenUpvalues`. None of these is inductive alone. `NoDangling` at the flip of the
white needs `Tricolor`, which `propagatemark` and the barriers keep, but for what
the atomic stage looks at again: `GrayLists` and `MarkStages` say what that is,
stage by stage, down to the threads and open upvalues, which are never black.
The sweep needs `SweepPending` (everything dead is ahead of it) and `SweepLists`;
a program that wakes a coroutine needs `ResumeChain` for that thread to be marked.
The program's half comes first. A step of the program is `Mutates`: it
stores references to objects that are not dead, and each either is not white or
comes with its barrier (`Barriered`), or it creates an object. That the program
can only name such objects (`FieldAlive`) follows from `NoDangling`. Then comes
the collector's half: a marking step is `MarkStep` (the heap stands still and
marks get darker), followed by the stages of `atomic`, the flip, and the sweep, where
freeing a thread or an upvalue closes or unlinks upvalues.

**Tables** (`LuaTable_proof`), for any keys, hash function and sizes.
`TypeCorrect`, `ChainsHold`, `RoomIsEnough`, `ArrayIsBest` and `LengthIsBorder`
are the invariants about tables of the run `libs`, `TableIsMap` the refinement. The
invariant `IInv` is `Good`, about the table, and `Tracked`, about a traversal.

`BrentChains` is about elements; what is inductive is about every node with a
key, because one without a value stays in its chain until an insertion reuses
it. `Chained` says that chains end (`Ranked`: along each a number decreases), that
no two nodes have one successor (`Single`), that nodes without key are outside
(`Blank`), that only a key at home keeps another from its main position
(`Homes`), and that each key is in the chain from its main position, where the live
node of a key comes before its dead ones (`Reached`: `luaH_get` and `next` find the
same one). A key is inserted in one of three ways, each with a lemma: into the
node of a removed element (`ReuseChained`), behind its main position (`InsertChained`), or
where a node is that first moves away (`MoveChained`).

`resize` is a loop over the old elements. Its invariant is `Fits`: the nodes hold
only keys of the set to be moved, none of them dead. Were there no free node for one
more, they would be more than the set has (`KeysInjective`). That the new vector has a
node for each of the set is `NewsizesFacts`, from what the slices of `numusearray` and
`numusehash` add up to (`NumsFacts`). The same counts give
`ArrayIsBest`: each size that the keys would fill to more than half passes the tests of
`computesizes`, which stops early and skips empty slices. `LengthIsBorder` follows
the three searches of `luaH_getn`, each with what it keeps at both ends (`Bounds`); it needs
no assumption on the traversal and holds after a failed rehash too.

`Tracked` is what `TableIsMap` needs besides: `seen` is the set of keys at the
positions that `next` has passed (`Passed`), `next` finds the key that it is given,
dead or alive, and no node is hidden by a slot of the array part. The exception is a
table in which a resize has failed half way (`hurt`): there the map is not promised, and
`LuaMap` lets it change, but `Good` still holds. An assignment to a present key moves no position
(`PutKeeps`); a rehash ends the traversal.

**Calls, errors and coroutines.** `RecordsFollowStack` (`LuaDo_proof`): the record
of every thread is a function of the C stack. `Stack` says in which order C
functions can call each other (`below`), and what each `pcall`, `resume`, hook and
`GCTM` has saved: exactly what the stack beneath it says. `Accounts`: `nCcalls` of
a thread is the sum of the C calls below its last frame, its CallInfos are those
of its frames one after the other, its longjmp buffer and handler are those of
its topmost protected call, its hook flag says whether a hook or finalizer of it is
on the stack. `Bases`, `Limits`, `Active` and `Control` say where coroutines may
yield, how far the counters go, which thread runs and what may come next. An
error, which cuts the stack at the topmost buffer, then restores by `Saved` what
the shorter stack says (`Throw`); a call adds one frame (`Push`), a return drops one
(`PopStep`), and no other thread's account changes (`Change`). `Typed`,
`CountsExact`, `CallInfosMatch`, `CallInfosAlwaysFit`, `HookFlagExact` and
`ErrorsCaught` are what the runs check of it.

`CoroutinesRefined` (`LuaDo_refinement`): `LuaDo` implements `LuaCoroutines`. The
abstract status of a thread is what `costatus` computes from its record alone;
the chain is read off the C stack. The invariant needed besides is `Bodies`: the
body of a coroutine is on its stack only until `lua_resume` has called it, for
otherwise a thread that ended could look like one not started. Steps of one
thread (`LocalStep`) are stutters; a stack cut below its `resume` (`DropStep`), by
an error, a yield or the end of the coroutine, is `Leave`; the rest are `Create`,
`Resume`, `Refuse` and `Exit`.

**Strings.** `StringsInterned` and `SweepIsComplete` (`LuaStrings_proof`): the
invariant is `Contents`, what the chains hold, with `Colours`: outside of the
sweep of strings nothing is dead; during it the chains behind `sweepstrgc` have
the current white, and ahead of it a string in use is marked or white. `nuse` is
the number of texts, which equals the number of entries because no text is
there twice (`Once`). What `luaS_resize` and the sweep do to a chain is proved from
their recursion (`Met`, `Front`, `Swept`), for any hash function and sizes.

**Libraries.** `BufferKept`: from what `concat` does with the parts of a sequence
(`JoinedParts`). `ReferencesKept`: that the free list of `luaL_ref` has no cycle and
that no link leads into it from outside (`FreeList`, with a depth for each slot).
`RequiredOnce`: what is inductive counts the searches that are under way together with
the starts (`StartsOwed`): each search will be one more start, an entry that is empty
with no search for it owes none, and every search but the first of those that overlap
was counted when it began. `Marked` says which entries hold the mark.

**Sorting.** `SortKeepsElements` and `SortSorts` (`LuaSort_proof`), for any array.
The first says what holds whatever the order function answers. Its invariant is
`Permuted` (an exchange is a bijection of the places) and `Bounds`: every range that waits
is short enough for the number of calls that wait below it (`AllFit`), which the
parts of a range keep because the recursive call gets the smaller one (`PartsFit`).
The second is about "<". `SortedBut` says that the ranges still to be sorted
are disjoint and that any two places that no one of them has both of are in order;
an exchange inside a range keeps that (`Inside`), a pivot in its place lets the
range be split (`Parted`), and when no range is left the array is sorted. `Partitioning`
is the comment in `auxsort`, `a[l..i] <= P <= a[j..u]`, with what makes the scans stop:
the pivot at `u - 1` and the element at `l`, put there by the median of three.

**Recursion.** `Ccalls`, `callinfos` and `resumed` are recursive functions over
sequences, `twoto` is one over numbers, `walk`, `binsearch` and `unbound_search`
go on until they come to an end. That such functions exist, that two with one recursion agree and
what a loop keeps its result has (`TailInduction`) is
proved once in `LuaInduction`, by the least counterexample, as the induction
theorems of the library take an operator for a parameter. It is why these
properties are in reach although what a recursive *operator* computes is not.

## 5. Only model-checked, or not modelled

Only model-checked: every property of section 3 that section 4 does not name.

* `GarbageFreed` and `SortEnds` are liveness, and `ENABLED` is out of this prover's reach;
* `Computes`, `Verified`, `AssertsHold`, `RoundTrip`, `MatchesFirstWay` and
  `GsubFollowsGmatch` are about recursive operators, in modules the prover has no
  arithmetic for.

Abstracted in the models: the order of the collector's lists; sizes in bytes,
and with them the pacing of `luaC_step` (any number of program steps may lie
between two collector steps); the value stack of a thread in `LuaDo`; call and
return hooks (line and count hooks are there); the collection at the very end
of `luaD_call`; allocation failures on a thread that is not running.

In the compiler and the machine: operands have no width, so `Verified` and `Computes`
see a function with too many registers, but would not see a constant or upvalue operand
that is cut off; the limits "constant table overflow" and "control structure too long"
are left out; a function expression is the value of a `local`, of a `return` or of a
function statement, and never inside a larger expression (it counts the levels that
`subexpr` and `chunk` count). Line numbers and error messages are left out; numbers are
integers, so constant folding is modelled with its refusal to divide by zero but not
with floating point; strings are sequences of tokens; the memory of the machine is not
collected (that is `LuaGC`). In the libraries: the hash of a string is an arbitrary
function; the order function of a sort leaves the table alone, and no assignment of a
sort fails for lack of memory (with an inconsistent order function `auxsort` may write
one place past the end); a module is found or not, without paths; a character class is
the set of its characters.

Not modelled, and why:

* the lexer, number conversions, `string.format`, `math`, `os`: functions of their
  arguments at the level of characters, which tests reach;
* `liolib.c`: wrappers of stdio. One hazard there is left without a model: `read_line`
  holds a `FILE` pointer while `luaL_prepbuffer` may run the collector, and with it a
  finalizer that closes that file;
* the pacing of the collector (`gcdept`) is about sizes in bytes, from which `LuaGC`
  abstracts; `lua_close` is one loop over finalizers;
* the signal handler of `lua.c`: where it interrupts is a matter of the C memory model;
  that a hook may run at any instruction is in `LuaDo`;
* which of two messages a stack overflow gets after an earlier overflow left the
  CallInfo array oversized (`ldo.c:75`): no document says which it should be;
* the CMake helpers and the code generators: declarations evaluated once, from top to
  bottom, by a program that is not part of this repository. Read but not checked:
  `lemon_project` passes the value of `PROJECT_BOOTSTRAP1` to `lemon_rc` where it looks
  for a keyword, and `lemon_find_package` tests `$ENV{LEMON_PACKAGE_ROOT}`, not the
  variable that `LEMON_PACKAGE_ROOT` names.

## 6. Findings

* `setupvalue`: `lua_setupvalue` stores into an upvalue but runs the barrier on the
  closure; when the upvalue is shared, black and closed, the value is freed while in
  use.
* `undump`: the loader of precompiled chunks has no barriers, and its reader may call
  Lua, hence the collector.
* `restart`: a coroutine whose results do not fit ("too many results to resume") is
  finished but reported as suspended, and can be resumed.
* `constant_operand`: `((nil and nil) or false) and true` gives `nil` instead of
  `false`. For a constant operand `luaK_goiftrue` and `luaK_goiffalse` call `luaK_jump`,
  which chains the jumps pending at that place to the new jump; they become exits of the
  whole expression, with the value of an operand that had already been decided against.
  The compiled interpreter gives the same answer. The theme `Logic` of the run
  `compiler` has such constants only where no jumps are pending.
* `half_full`: the comment at the top of `ltable.c` says that the array part has the
  largest size of which "at least half the slots" are in use; the code, and the comment
  inside `computesizes`, ask for more than half. A table with the key 1 alone gets one
  slot, not two. `ArrayOptimal` and its theorem are about what the code does.
* Met while modelling, without a run: `ll_require` looks at the entry of a module before
  its search and marks it after. A searcher in `package.loaders`, or a finalizer, that
  requires the same module in between runs its body, whose result the outer call
  overwrites with the mark before it runs the body again. No text or test of the
  repository says that a body runs once, so this is no finding; `RequireOnce` counts
  such searches.
* Met while modelling, without a run (it needs a constructor of more than 25,600 items):
  when the batches of a constructor no longer fit an operand, `OP_SETLIST` keeps the
  count in the next instruction word. `getjumpcontrol` looks one instruction back from a
  jump and can take that word for a test; a table of 26,950 items followed by `if false
  then else return #t end` has a length of 26,900.

## 7. Plan

Done: the collector, tables, calls and coroutines; then strings, the compiler with
its machine and verifier, precompiled chunks, and the library algorithms.

1. Proofs: what the code generator does to a jump list, once it is written as a
   recursive function.
2. Models: call and return hooks, `lua_close`, the value stack in `LuaDo`, file
   handles with finalizers (`liolib.c`), `lzio.c` under the reader of `load`.
