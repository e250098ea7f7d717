# Verification of the Jeff VM

This directory holds TLA+ models of the virtual machine, compiler and run-time
library of "Jeff's language" (`src/JL`: C for Windows, about 16 000 lines, and
1 700 lines of Jeff library code), the TLC runs that check them and the TLAPS
proofs about them. Paths below are relative to `src/JL`.

`tlc -workers 2 -config X.cfg M` runs a model and `tlapm M.tla` checks the
proofs of a module; `PROJECT.json` lists the runs, which definition models
which lines, the mutants that show that each property can fail, the hazards of
the code, and the theorems.

## 1. The system

A source file is tokenized, parsed against syntax tables, turned into a *tape*
of instructions by the code generator, optimised, and either written to a file
as text or binary, or loaded as a module. The VM runs modules in threads. All run-time
values live in one memory graph whose nodes come from arenas; threads are
system threads and synchronise through mutexes, semaphores and a
readers/writer lock that the library code in `lib/sync.jl` builds on.

| component | where | state | operations | modelled in |
|---|---|---|---|---|
| Readers/writer lock | `threads/thread_internal.c`, `rwlock.c` | `reader` mutex, `global` semaphore, `blocking_readers_count` | begin/end read, begin/end write | `RWLock` |
| Semaphore, mutex | `threads/semaphore.c`, `mutex.c` | kernel object, its maximum | lock with a time limit, unlock | inside `RWLock`, `ThreadPool`, `ModuleInit` |
| Thread pool and futures | `lib/sync.jl` | task list, token semaphore, per future: result, listeners, read semaphore | execute, then_do, get, is_complete; workers | `ThreadPool` |
| Work graph, atomics | `lib/sync.jl:240-300`, `9-36` | dependencies of a node | add_node, exec | not modelled (section 7) |
| Module initialisation | `vm/vm.c:1477-1510` | INITIALIZED marks, recursive mutex, nested loops of `execute` | first use of a module | `ModuleInit` |
| Thread life cycle | `threads/thread.c:40-214` | base block, result, handle | constructor, start, wait, end | `ModuleInit` |
| Memory graph, collector | `memory/memory_graph.c` | nodes, edges with counts on both sides, roots | new node, set field/variable, array and tuple calls, collection | `MemoryGraph` |
| Arena | `arena/arena.c` | subarenas, free list, mutex | alloc, dealloc | `Arena` |
| Interned strings | `arena/strings.c` | chunks, a set of strings | intern | not modelled |
| Allocation tracker | `memory/memory.c` | set of live allocations (debug build) | alloc, realloc, free | not modelled |
| VM loop: blocks, calls, errors | `vm/vm.c`, `threads/thread.c` | per thread: block, saved blocks, operand stack | one step per instruction | `VmControl` |
| VM values, variables, operators | `vm/vm.c`, `program/ops.c`, `element.c` | result register, operand stack, variables of blocks, objects | one step per instruction | `Values`, `Evaluator` |
| Hash map, set | `datastructure/map2.c`, `set2.c` | open table, entry list, count | insert, lookup, remove, growth | `HashMap` |
| Queue, expando, tuple | `datastructure/` | | | sequences, where they are used |
| Classes, key cache | `class.c`, `ltable/ltable.c` | method resolution order, key table | | planned |
| Tokenizer | `codegen/tokenizer.c` | queue of tokens, line number | one line at a time | `Tokenizer` |
| Parser | `codegen/parse.c`, `syntax.c` | trees, the queue | match with back-tracking, put back | `Grammar`, `Parser` |
| Syntax trees | `codegen/expressions/*.c` (`populate_`) | | one function per rule | `Populate` |
| Code generator | `codegen/expressions/*.c` (`produce_`) | tape under construction | one function per construct | `Codegen` (statements), `Expressions` |
| Optimizer | `optimize/*.c` | tape, table of jump targets | 17 passes over a tape | `Optimizer` |
| Tape | `program/tape.c`, `instruction.c` | instructions, labels, classes | write, append | `Tape` |
| Text and binary files of tapes | `program/tape.c`, `serialization/` | string table | write, read | `TapeFiles` |
| Loading of a program | `file_load.c` | | text, `.jl`, `.jm`, `.jb` | `FrontEnd` |
| Command line, file lookup, interactive loop | `main.c`, `command/`, `interpreter/` | | | not modelled: I/O and argument parsing |
| Sockets, TLS, files, time | `external/` | | | not modelled: I/O |
| Old code generator | `codegen/codegen.c` | | | not modelled: unused |

**How they interact.** A text goes through tokenizer, parser, populate functions,
code generator, optimizer and tape writer, each of which hands the next a structure
it must not have lost anything of; `FrontEnd` composes them with the machine. The
code generator and the VM share the instruction
layouts: a statement is right only if what the generator lays out and what
the interpreter does with blocks, jumps and handlers agree, so `VmControl`
runs what `Codegen` produces. Every VM step that stores a reference calls the
memory graph, which takes nodes and edges from arenas and gives them back
when it collects. Library threads enter the same graph, arenas, maps and string
table; each of these has a lock of its own. A call into a module that has not run
yet runs its body first, inside the call. `sync.jl` runs as Jeff code: its
critical sections are calls of the semaphores and mutexes of `threads/`.

**What is hard.** Interleavings of the lock's and the pool's small steps, and
semaphores that saturate silently (`ReleaseSemaphore` fails at the maximum and
nobody looks); waits with time limits whose outcome is ignored; a mutex held while
the code of any module runs; edges counted
twice, on both sides, by twenty operations; memory slots that come back with old
contents; jump distances that are sums of the lengths of four pieces of code,
patched later by whoever is around; errors that unwind blocks of several calls,
and not the C functions that are nested in them; a parser that gives tokens back;
positions of functions and classes that move with the code;
probing loops that end only if the table is laid out as hoped. PROJECT.json
lists these with their lines.

**What makes each component correct.** Lock: a writer is alone, no signal is
lost, the lock is served. Pool: a submitted task runs once and its readers get
its result. Module initialisation: a module's body runs once and undisturbed, the
call gets its argument, nobody waits for ever. Memory graph: counts are the
references, nothing dangles, the
collector removes exactly what is unreachable. Arena: a slot has one owner and
none is lost. VM and code generator: open blocks, handlers and operands are
those of the source text at every step. Map: it is a dictionary and its calls
end. Front end: no token is lost, the tree is the one the text was written from, a
program does what its tree says, optimized or not, and what is read from a file
is what was written. String table: one address for one string.

## 2. The plan

Done, in this order: `RWLock` with `ReadersWriters`; `ThreadPool`; `MemoryGraph`
with `ObjectStore`; `Arena` with `Allocator`; `Codegen` and `VmControl`;
`HashMap` with `Dictionary`; proofs of `RWLock` and `Arena`; `Expressions`,
`Optimizer` and `Evaluator` with `Meaning`; `Tokenizer`, `Grammar`, `Parser`,
`Populate`, `Tape`, `TapeFiles` and `FrontEnd`, with classes and modules in the
code generator and the optimizer; `ModuleInit` and its proofs; proofs of `ThreadPool`,
`MemoryGraph`, `HashMap` and `VmControl`.

Next:

1. `MemoryGraphLocks`: the order in which two or three nodes' locks are
   taken, and the collector against a thread with an unattached node. Two
   threads and three nodes, two of them with one id.
2. Classes at run time: constructors, fields, method resolution (`class.c`) in
   `Values` and `Evaluator`, so that texts with classes are run as well.
3. `Strings` (chunks of four bytes) beside `HashMap`.

Proofs next: that a statement's layout is structured and balanced when its parts are, which would
leave out the hypotheses of the theorems about `VmControl`; `OperandsBalanced` of `Evaluator`.

## 3. Modules and code

### ReadersWriters, RWLock, RWLockProofs
`RWLock` has the three shared variables of `struct RWLock_` under their names and
a `pc` per thread. One action per call of a kernel object in `begin_read`,
`end_read`, `begin_write`, `end_write`; the statements between two such calls that
only one thread can execute (the count under the `reader` mutex) go with the
call before them. `SemaphoreUnlock` keeps the count at 1 when it is 1, as
`ReleaseSemaphore` does. Callers pair their calls, as the code in the repository
does (`Call`). `ReadersWriters` is the promise: sets of readers and writers.

### ThreadPool, ThreadPoolProofs
`ThreadPool` and `Future` of `lib/sync.jl`, with the fields' names. A section of
the pool's mutex is one step. `pc` gives the place in `_execute_task` and
`Future.exec` (`wait`, `take`, `run`, ... `notify`) for a worker and in `then_do`,
`get`, `is_complete` for a client. `WaitRunsOut` is the wait of `INFINITE` =
2147483647 ms that ends without a token. `lost` counts unlocks that found the
semaphore at its maximum. `got` holds, for every `get` that returned, the future it was called on and the
value. `RunFails` is an error in a task's function: nothing catches it,
the worker's thread ends. Followers are the futures that `then_do` makes.

### ModuleInit, ModuleInitProofs
`vm_maybe_initialize_and_execute` with the parts of the interpreter and of
`thread.c` that decide when it is called and when it ends. A thread has its
interpreter frames (`frames`: `current_block` and `saved_blocks`, with the base block of the
`Thread` object first) and the calls of `execute` nested on its C stack (`loops`,
each with the register that it saved, `OLD_RESVALS`). `owner` and `count` are
`module_init_mutex`, a Windows mutex, hence recursive. A program is, for the body and
the function of every module, a sequence of calls (in a `try` or not), starts of
Threads, waits and raises. The value of `resval` is the place where it was made, so
that an argument can be told from every other value. `Enter` is the early return,
`BeginBody` and `EndLoop` are the two halves of the rest; `Exits` is `EXIT`, which
ends the innermost loop, whatever frame it is in; `Raise` is `catch_error`, which
drops frames and leaves the loops. What a thread waits for is written out: the mutex
(`WaitsForMutex`), a thread that has not ended (`WaitsForThread`), both together `Blocked`.
`AtRest` lets the behaviour end where every thread has ended or waits; TLC's deadlock check then says that
in every other state some thread has a next step. Methods of `Thread` are external functions of
module `sync` and go through the mutex too (`InMethod`). `Abort` is the `ASSERT` in
`memory_graph_array_pop`.

### Reachability, ObjectStore, MemoryGraph, MemoryGraphProofs
`children` and `parents` are the two maps of `NodeEdge`s of each node as functions
on pairs; `Adjust` is `inc_edge`/`dec_edge` with the count's unsigned arithmetic.
One action per function of `memory_graph.c` that changes the graph and that something calls, and per array
function of `external.c`. Two have no caller at this commit and no action: `memory_graph_array_join`, which counts
edges for fields too when it copies them, and `memory_graph_set_field_ptr_value`, which leaves the old value's edge. Nodes are arena slots: `NewNode` may find, in a
surviving child, the edge of the node that was in the slot before (the map finds
it or not depending on where it lies: both happen). The program is any program
that uses objects it reaches or has in hand. `ObjectStore` has objects and
references only: the implementation must not lose, keep or change anything else.
Both take what is reachable from `Reachability`: the least set that has the roots and
what its members lead to, which is what `traverse_subtree` collects.

### Allocator, Arena, ArenaProofs
Slots are pairs (subarena, position); `prev_freed` is the descriptor in front of
each. One action per access under the mutex. `rank` is a history variable: the
place of a slot in the free list. `Allocator` has the slots that callers
have and the slot in each thread's hand; a slot may be taken only when it is with nobody.

### Codegen, VmControl, VmControlProofs, VmStackProofs
`Codegen` has one operator per statement: the sequence of instructions that the
`produce` function of the statement appends, with the same jump distances
(`PatchJumps` is the loop that fills in break and continue). Instructions
whose effect is on the result register only are `OP`. A token names the
statement an instruction comes from; the properties use it. `VmControl` runs a
program: `t.block`, `t.saved` and `t.stack` are `current_block`, `saved_blocks` and
`stack` of a `Thread`; there is one action per instruction (`execute` with its
three kinds of argument, and the tail common to all of them, `Finish`).
A conditional jump goes either way, and a field access (`GET`) may fail.
`Scopes(code, ip)` is what the text says of a position: the loops and tries around it, and of each
whether its try is in force. Code is `Structured` when every instruction leads to the scopes it should: a
jump to the same ones, `NBLK` into one more, `BBLK` out of one, `CTCH` and the assignment of
`$try_goto` into and out of a try, and the handler of a `CTCH` is in that try.
`Fewest` and `Most` say between which numbers of operands a block may have at a place: both count, from
instruction to instruction, what each leaves (`Effect`), and go on after a `BBLK` with
what there was at its `NBLK`; in a handler there may be one more. Code is `Balanced` when every way
to a place stays between them, and `Most` is at most one wherever a block can be left.

### Tokenizer, Grammar, Parser, Populate
`Tokenizer` reads one line (a string, which TLC takes apart by `SubSeq`) and appends
its tokens to a queue, as `tokenize_line` does: type, line, column and text, with the
escapes of strings. `Grammar` holds the rules of `syntax.c` as data, each an
expression of the combinators that the macros there expand to. `Parser.Match`
interprets them: it reads lines when the queue is empty, builds trees by the rules of
`match_merge`, and puts the tokens of a tree back when the rest of an alternative
fails. `Populate` has one operator per `populate_` function: parser's trees become
records of kind, name, number and parts, the trees that `Expressions` compiles.

### Expressions, Optimizer, Values, Meaning, Evaluator
`Expressions` has one operator per `produce` function of `expression.c`,
`assignment.c`, `classes.c` and `files.c`; it takes
the layouts of statements from `Codegen`. `Compile` is `produce_module_def`:
a tape with the labels of functions, methods and classes. `Optimizer` has one operator per
pass, which returns the
adjustments (`i_to_adj`), and `Resolve`, which is `oh_resolve`; the passes work on
any tape. `Values` has the values and what an instruction does to variables,
objects, arrays and tuples; `Evaluator` has one action per instruction on top of it,
for every kind of argument that the generator and the optimizer give the
instruction, and `Optimize`, one pass. `Meaning` does not model code: it evaluates the
tree directly, with the order of evaluation that the language has, and is what
`ComputesMeaning` compares with. Calls out of the program are recorded with their
arguments and answered with a number of their own, so a call that is lost, doubled or
moved shows. An object of the heap is an array or not: `AIDX` and `ASET` read and write the elements of
arrays and call `__index__` and `__set__`, methods from outside, of other objects; a negative index is an error where it is read
and the end of the process where it is stored. Left out of what is run: classes, const, `is`, the width of integers,
strings' contents.

### Tape, TapeFiles, FrontEnd
A tape is written as its text goes: code, labels, beginnings and ends of classes
(`Write`); the code generator, the optimizer (`Resolve` writes the tape of the next
pass) and the reader of a file all write it so, and `Pieces` and `Marks` take it apart.
`TapeFiles` has the two forms of a file with their inverses: text through
`string_escaped` and, back, the tokenizer; binary through the table of strings with
references of one or two bytes and the counts in front of strings and code. The reader goes by the counts. The name of the
module is written again at every use and counted once; a file with more strings than its count
is not `Readable`, and `LoadFails` stands for what becomes of it. `FrontEnd` is `load_fn_jl`, `load_fn_jm` and
`load_fn_jb`: one action parses one statement (`Parse`; at the end it populates and
compiles), one does a pass (`OptimizePass`), others write and load the file, and
`Run` is a step of the machine on what was made or loaded.

36 of the 39 texts of `MCTexts` (all but those of `OwnName`) were given to a build of the sources (`-m=true`, `-opt=true`
and `false`): the files it writes are, line for line, those of `tape_write` of the
modelled front end, unoptimized (more than 4 400 lines) and optimized (more than 3 100), and so are
those of `lib/error.jl` and `lib/io.jl`. This is how the grammar, the layouts and the passes were
compared with the code before anything was concluded from them.

### Dictionary, HashMap, HashMapProofs
`map.table` and `map.list` are the table and the chain of entries; `op` is the
call in progress. One action per round of a probing loop and per outcome. The
table grows inside the insertion that `CallInsert` begins: `new` is `new_table` with its chain, `NoMap`
when there is none, and `InsertNext` takes the next entry of the old chain (`op.rest`) or, after the last,
puts the new table in place of the old. `Unlinked` is the chain without the slot that `map_remove`
takes out of it. A search has no bound: its positions repeat after as many rounds as there are
slots, and its `n` is taken modulo that, so one that goes on for ever is a cycle. `WayOut` says that a vacant slot or the key is on the
way. `Dictionary` says
what a caller may see: the answer and the content change at one moment.

## 4. Runs

| run | instance and bounds | what it checks |
|---|---|---|
| `RWLock` | 3 threads, no bound on calls | `Exclusion`, `NoLostUnlock`, `ImplementsReadersWriters`, `ReadersServed`, `WritersServedWhenReadersStop`, no deadlock |
| `ThreadPool` (`MCThreadPool.cfg`) | 2 workers, 2 clients, 2 root futures, 2 followers, 2 calls per client, 1 wait that runs out, 1 task that fails | `RunOnce`, `TokensExact`, `NoListenerMissed`, `ArgsReady`, `GetReturnsResult` |
| `ThreadPoolLive` | 2 workers, 2 clients, 2 futures, 1 task that fails | `TasksRun`, `GetReturns` |
| `ModuleInit` | 3 threads, 3 modules, 241 programs | `HeldByLoops`, `Prepared`, `ArgumentKept`, `StuckOnlyBehindABody`, `Finishes`, no deadlock but `AtRest` |
| `MemoryGraph` | two parts: root and 2 slots, arrays of length 1; one array or tuple of up to 4 elements | `TypeOK`, `CountsExact`, `ParentsCover`, `ImplementsObjectStore` |
| `MemoryGraphSparse` | stores one past the end of an array | violates `CollectsExactly` |
| `Arena` | 2 threads, 2 subarenas of 2 slots | `NoDoubleAllocation`, `NothingLost`, `ImplementsAllocator`, `CallsReturn` |
| `VmControl` | about 1500 programs | `TypeOK`, `BlocksAreLexical`, `HandlersAreLexical`, `StackRestored`, `NearestHandler` |
| `VmCatch` | an error that is caught | violates `HandlerEntered` |
| `FrontEnd` | about 1370 programs as trees, run unoptimized and optimized; 39 texts, 15 of them run, every one written and read as text and binary | `TokensKept`, `ParsesBack`, `FunctionsKept`, `ComputesMeaning`, `OperandsBalanced`, `LoadsBack` |
| `HashMap` | 5 keys; maps of 5 and 11 slots with colliding hash values, one of them that of `HashMapCrowded` | `ListExact`, `Findable`, `ImplementsDictionary`, `CallsReturn` |
| `HashMapCrowded` | 5 slots, 3 taken | violates `SearchEnds` |

**Why the bounds are enough.** Three threads let a reader enter, a second overlap
it and a writer wait; the lock distinguishes only 0, 1 and more readers. Two
workers and two clients reach every pair of racing sections of the pool (two
submitters of one future, a submitter and an executor, two readers), and a
third of either kind meets the same sections; two roots and two followers are enough to drop a token (three tasks
before the first is taken), two workers for one to be left when a task's error has ended the other. Three modules make a body that imports a
module that imports the first; three threads are one in a body, one that waits for the
mutex and one that is waited for; the programs have every kind of step in a body and in
a function, tried or not, and a Thread that is started when three run already is left out. In the graph, two slots besides
the root make cycles, shared children, freed parents of surviving children and
re-used slots; the part with lists has every shift of up to four elements. Counts are taken
modulo 16 there, more than fields and elements together, as 2^32 is in the code. Two slots
in two subarenas cover the first, the last and the next slot of a subarena with
a free list of up to four. The programs of `VmControl` are every pair of nested
loops or tries with every leaf (a jump, a failure, a call) in each place that the
language lets it be in, inside a function and a loop.

The trees of `FrontEnd` put every expression of one operator,
over a variable, a number, None, a field and calls with and without a result, in each of
eight places (stored, passed, tested, indexed, repeated, assigned to several targets);
longer programs have loops in loops, closures over loops, all kinds of parameters
and of arguments. Its texts have every pair of operators of different strength, both as
precedence reads it and with parentheses, and every other construct of the grammar that
compiles, in three layouts: with no blank that is not needed, with blanks, comments and
empty lines, and with lines continued behind operators. What has no defined value or
needs classes at run time is compiled, optimized, written and read but not run.
`ByteMax` is 8 instead of 255, so that tables of strings on both sides of the limit between
references of one byte and of two occur. Thirteen of the 17 passes change some of these programs. `JmpRes` (4)
finds nothing because `SetRes`, which runs before it, has removed the load it looks for;
11, 13 and 16 look for a `PUSH` without operand before a `RES` or for a `None` by name,
which the code generator does not leave; they are modelled and applied, but no run
shows what they would do to a tape they change. No program is cut short: the loops end. The insertions of `HashMap`
probe for at most 12 rounds, more than the positions a table of 11 can have; searches are not bounded.

**Fairness.** `RWLock`, `Arena`: a thread inside a function is scheduled (weak
fairness) and Windows serves the waiters of an object in turn, so one that is
signalled over and over serves each of them (strong fairness of the waiting
steps). Nothing obliges an idle thread to call. A thread that is inside the lock
calls the matching end function: the callers in the repository do so. `ThreadPool`:
the same for workers, readers and submitters; the worker's fairness is for the
steps in which no wait runs out. `ModuleInit`: each thread that can go on does (weak fairness).
The mutex needs no more: a program asks for it a bounded number of times.
`HashMap`: a call that has begun goes on.

**Where deadlock is not an error.** Programs end (`VmControl`, `VmCatch`, `FrontEnd`), and clients of
the pool stop calling (`ThreadPool`, `ThreadPoolLive`). In `ModuleInit` a state at rest has the step `AtRest`; whether the
program has ended there or is stuck is what `StuckOnlyBehindABody` and `Finishes` are about.

**Where a run looks away.** The passing run of `VmControl` leaves out the programs
for which the code, as it is, does not keep its properties: a try that is left by
break or continue, an error with two or more operands on the stack, a `continue`
in a while or at the very end of a body. The programs of `FrontEnd` do not begin with
a loop, assign to two or three targets only, call a function whose one parameter
has a default without arguments only, end no function right before an empty
one or one that only returns, have no empty `else` in a loop and no empty class, compare with `==` only
numbers where they are run, and start a `for`'s test with a load and end its increment
with a store; a module that is written as binary has a name. `LoadsBack` says which binary files cannot be read: those of modules
in which the module's name is used, of which the run has one (`OwnName`). `HashMap` leaves out hash values for which
a removed slot is taken again by an entry that lies behind it. `MemoryGraph` stores
at most at the end of an array. `CallsReturn` excepts calls whose key has no way out, which
`HashMapCrowded` is about. In `MemoryGraph` only elements that exist are removed.
`TokensExact` counts the posts that were dropped (`lost`) and the waits that ran out (`timeouts`): it says that
nothing else is missing or too much, not that these two do no harm. `TasksRun` is for behaviours in which no token was
dropped and a worker is left, and its run has no wait that runs out: with one (`MaxTimeouts` = 1; 275 558 states, five minutes) TLC finds
both properties of `ThreadPoolLive` true as well. `Finishes` is for programs whose module bodies neither wait nor raise. Section 6 says what happens in those cases.

## 5. Proofs

`RWLockProofs`, for every finite set of threads: `Inductive` (`Spec => []IInv`),
`MutualExclusion`, `ReadersCounted`, `UnlocksNotLost`, `Implements`. Exclusion alone is
not inductive. `IInv` adds who owns the `reader` mutex, that
`blocking_readers_count` is the number of threads between `++` and `--` (so its
tests against 1 and 0 mean "first" and "last"), that the first reader is alone
while it waits and the last while it unlocks, and that a free semaphore means that
neither a writer nor a group of readers is inside. Cardinality facts come from
`FiniteSetTheorems`; the only assumptions are that `Threads` is finite and
`NoThread` is none of them.

`ArenaProofs`, for every set of threads, every number of subarenas and slots:
`Inductive`, `NeverTwice`, `NeverLost`, `FreeListSound`, `Implements`. The induction needs
that the thread between await and release is the owner of the mutex
(`OneInside`), that what it tested under the mutex still holds (`StillInside`), and
that the links of the freed slots are one list, which `rank` expresses without
recursion: a link leads one rank down.

`ModuleInitProofs`, for every set of threads and modules and all programs:
`Invariance`, `TypeCorrect`, `MutexHeldByLoops`, `BodiesUndisturbed`, `ArgumentsKept`. The assumption
(`ModuleInitAssumption`) is that programs are well typed and names are different. That the mutex is
held once per nested loop is inductive with the types. That no other thread is in a module
whose body runs is not: an error may drop the frame of a body while its loop goes on, and the
loop, when it ends, pops whatever frame is on top. `Ordered` is what makes up for it: every body
that is left on a thread's stack still has its loop, and the bodies stand in the order of
their loops, so that the frame that a loop pops is never the body of an
outer loop. Hence a thread with a body owns the mutex, two threads cannot both have one, and a
thread that calls into the module has to wait. The facts about sequences (a frame
pushed, popped, a prefix of the frames) are lemmas on `Within` and `Shrunk`.
`ArgumentsKept` needs `Waiting`: the block below a body stands at the call that made the body run, and every loop of
the body's module has saved the argument of that call. When a loop ends it enters its function on the block below the
one it popped; if that block stands at a call of this function, the popped body was of the same module, and the
saved argument is the right one. The induction fails for calls in a base block, which below is not one: an
error left a loop behind, and the loop ran on into the base (section 6). TLC then found the program (`RunsOn`) in
which such a call gets an old argument; `ArgumentKept` excepts it.
`NoDeadlockElsewhere` states `StuckOnlyBehindABody`: when all threads that run wait, the mutex has an
owner and the owner waits for a Thread. The argument: a thread with a nested loop has not come to its end, so an owner
runs; it cannot wait for the mutex, which is recursive, so it waits for a Thread. If the mutex
has no owner nobody waits for it, and every thread that runs waits for one that runs; but
who waits for a thread has started it, and of any set of threads one started its last
Thread outside of the set, or none (`Acyclic`). `Settled` has what else the induction needs: a thread that
has not been started has started none, and a Thread has been started.

`ThreadPoolProofs`, for every finite set of workers and clients, any number of futures and
any bounds: `Invariance`, `EachRunsOnce`, `TokensBalance`, `ListenersSubmitted`,
`FollowersSupplied`, `GetIsRight`, which state the five invariants of the run. None of them is inductive.
`Standing` says which futures a thread has at each place of its code, and `Locked` that it owns the
listeners' mutex of one of them exactly between the lock and the unlock. So a result, which is set
before that mutex is given up, stays (`Resulted`); a follower has its argument before it
is marked (`Supplied`); and a future that is marked and has not run is in the list once or with
one worker, never both (`Queued`). For `NoListenerMissed`, a listener that is not submitted yet although its future is
complete has to be in front of the worker that walks over the list with the mutex held (`Walked`).
For `TokensExact`, which counts workers and clients by where they stand, a step of one thread
changes the cardinalities by at most one each (lemmas on counting). `TokensExact` says of an unlock that
finds the semaphore full that its token is lost; that it is never lost is false (section 6).

`MemoryGraphProofs`, for any sets of nodes and fields, any length of arrays: `Invariance`,
`TypeCorrect`, `CountsAreExact`, `ParentsAreCovered`, `Implements`, `Collects`. Two assumptions. That a count does not
wrap: fields, elements and what a dead parent may have left are fewer than `Modulus`, which is
2^32 in the code (`ref_count` is a `uint32_t`, `memory_graph.h:37`). And `Dense`, a hypothesis of each theorem: the program
writes at most the slot after the last element of an array. It is what `MemoryGraph`'s run has and
`MemoryGraphSparse`'s has not, and without it `Collects` is false.
`CountsExact` speaks of nodes that exist; what is inductive is that the
parent's count is exact for every pair of slots (`Exact`: a slot that is free names nothing and
counts nothing), that what an existing node names exists (`Living`), and that the child's count is
between the parent's and `StaleBound` more (`Covered`): a node in a slot that was used before may
find the edge of its predecessor. Each of the fourteen calls changes one node; `Changes` is what they have in
common, and the lemmas on `Items` say of each way to move
elements (write, remove, push, swap, shift by any distance) how often the array then names every object. Then the
closure along edges that count something is the closure along references, the collector
removes what `ObjectStore` says is unreachable, and every other call is a step of
`ObjectStore` on one object. `Closure` is defined as a least set, so these proofs need no recursion.

`HashMapProofs`, for any hash function, any size of the table, any keys and any bound of the probing:
`LaidInvariant`, `EntriesFindable` and `ChainVisitsEntries` of every map, `TidyInvariant`, `ListIsExact` and `Implements` of
a map from which nothing is removed. `Laid` says of the entry in hand what `Findable` says of those in the table: no slot
on its way is vacant, so it may be put down where it is; and `first_empty`, when it is set, is a slot with a mark on that way.
`Tidy` adds what makes robbing right. At each slot that a key went past, the entry that lies there has no
fewer probes than the key had (`AllAhead`); robbing and taking vacant slots only raise them (`AheadKept`). So when an insertion meets an entry with
fewer probes than its own, its key cannot lie further on (`AbsentAtPoorer`), and what it robs or puts down is new; and
the robbed key, which is in nobody's slot now, is not found a second time. While the table is rebuilt every key
of the old one is in the new one, in the hand or among those left, in one of these only (`Moving`). The step at which the
dictionary changes is the first robbing, or the vacant slot, or the key found. The hypothesis
`NothingRemoved` is about the map at hand and is false of two maps in the code, `graph->nodes` (`memory_graph.c:134`) and, in
a debug build, the tracker's `in_mem` (`memory.c:105`); nothing else calls `map_remove` or `set_remove`. It cannot be
dropped: a removal leaves a slot with mark -1, which `AllAhead` does not allow, and with it the map may hold a key twice (section 6).

`VmControlProofs`, for any programs that are `Structured` and any roots: `Invariance`, `TypeCorrect`,
`BlocksLexical`, `HandlersLexical`, `NearestCatches`. The invariant is local. Of each block and the one below it
`Above` says either that the upper was opened there by `NBLK` (`Inside`: its scopes are those of the
lower and its own, and so are those of its handler), or that it is the first of a call, in no
scope, and the lower is at an instruction that may go on. An instruction changes the top, so a step is proved from the top and
the block below; only an error and `RET` go further down, and for them it matters that `t_back` leaves the
lower blocks as they are (`UnwoundBlocks`), that the block where an error is caught is one whose handler
is set (`CatchIsLocal`) and that the call's own block is below its loops (`RetIsLocal`). `BlocksAreLexical`, which
speaks of any number of blocks, follows by induction over the stack (`Nested`). The hypothesis is about
one program, and it is where the code generator comes in: TLC shows `Structured` of all programs of both runs
(`AllStructured`). A break or continue out of a try and a `continue` as the last statement of an inner loop
(section 6) give code that is not, and those programs do break the properties: which programs are
right is decided by the layouts, and the interpreter adds no fault of its own. The other assumption,
`VmControlAssumption`, is that instructions have arguments of their types, that `Error` and `raise_error` are there, and
that a function of the system is not nil.

`VmStackProofs`, for the programs that are also `Balanced`: `Accounted` and `OperandsRestored`, which
states `StackRestored`. `t_back` counts operands down while it removes them, so it takes half of what a
block has left, rounded up: it is right for no operand and for one, and wrong for more. So a
block must have at most one whenever it is left, and that is a matter of where in the code it is. The invariant `Fit` says
of the current block that it has as many as its place expects (between `Fewest` and `Most`), and of every block below
(`Resumes`) that what it had when it was left, at most one, is what the place where it will go on expects:
behind the `BBLK` of the `NBLK` where it stands for a loop, behind the `CALL` for a caller. `Catches` says of every
handler that it may be entered with no operand or with one: an error may leave the operand of the block where it is caught.
`UnwoundPiled` then gives that any number of blocks is closed exactly, which `BBLK`, `RET` and errors
use; an error may be caught in the block that failed, where nothing is closed. `Balanced`
is a hypothesis about one program, as `Structured` is, and TLC shows it of all programs of `VmControl` and
`VmCatch` (`AllBalanced`). It is false of programs that fail with two operands or more in a block: where a field
fails in an argument of a call that stands directly in a foreach (the iterator and the function), or in
an argument of a call that is itself an argument (two functions). The last is `Leftover` in
`MCVmControl`: TLC shows that it is structured and not balanced, and, with it for `Programs`, that `StackRestored` is violated.

In all eight, each action has a lemma with one step for every part of the invariant
the action can disturb, and the temporal step combines them with PTL. TLC checked the
inductive invariants on the runs' instances first.

Only model-checked: `Finishes` of `ModuleInit`, and that a thread of it that does not wait has a next step (which is
about ENABLED); that the
code generator's code is structured and balanced; everything about
`FrontEnd` (whose tokenizer, parser and compiler are recursive); maps from which something is removed, beyond `Laid`;
and all liveness. Temporal reasoning with fairness and ENABLED is out of
the prover's reach, and so is induction for a predicate on recursive data; induction over numbers is done with sets
(`Induction` in `VmControlProofs`).

## 6. What the models showed about the code

With a run of their own (PROJECT.json, findings):

- `statements.c:106` (`VmCatch`): the handler of a try is named one instruction
  early; the body of `catch` is never run.
- `arraylike.h:186` (`MemoryGraphSparse`): storing beyond the end of an array
  shows elements that no edge counts; a collection then frees an object in use.
- `map2.c:167` (`HashMapCrowded`): a lookup of an absent key may never end.

Seen while modelling and, from here to `vm.c:1493`, reproduced with a build of the sources:

- `optimizers.c:154`: `RetRet` asks whether a jump goes to the second of two `RET`s, not whether a
  function begins there. Behind a function that ends in `return`, a function that is empty or only
  returns loses its code, and its name leads into the next function or behind the tape.
- `statements.c:207`: `break` is a `JMP` of 0 until its loop patches it ("Signals a break"),
  and so is the jump over an empty `else`: the loop around it turns that into a break.
- `optimize.c:75`, `classes.c:184` ("Empty body"): of a class without instructions the optimizer writes the end before
  the beginning, and the class takes in the functions behind it; of two classes at one position
  one is lost.
- `tape.c:508`: a class that ends with the tape gets no end from `oh_resolve`. Nothing reads it.
- `tape.c:743`: in the binary form, index 0 of the table of strings means "absent": a name of the
  module that is also used in it is written again at every use and counted once. The reader stops at the
  count and takes the rest of the strings for the tables behind them: the built program writes such a file and dies when it
  loads it (`LoadsBack` says that loading fails of these files). A module without a name, not optimized, has no first string at all, and writing it crashes.
- `tape.c:358`: `string_escaped` writes a form feed as `\014`, which the tokenizer does not read back.
- `optimizer.c:14`: `add_adjustment` keeps pointers into an array that moves when a pass makes more
  adjustments than it has room for (1024).
- `file_load.c:29`: an existing `.jb`, then `.jm`, is taken before the `.jl`, however old it is.
- `tape.c:239`: anonymous functions are named for line and column; lines that are continued keep one number,
  so two functions can have one name.
- Of texts: `break` in a loop inside the body of an anonymous function, `return (a) - b`, `return (a).b`,
  `{ break }` on one line, `x = y = 1` and `def f() return 1` are not read as they are meant; `a<-1` has an arrow in it; a file of a
  single statement crashes; `b in b in b` and `|x|` are parsed but not compiled; the line of "Cannot parse" counts from 0.
- `expression.c:322`: postfix `++` and `--` compile to nothing (a TODO says so).
- `vm.c:1493`: an error that leaves the body of a module does not leave the loop of `execute` that
  `vm_maybe_initialize_and_execute` nested for it. The handler and all that follows run in
  that loop, under `module_init_mutex`; when it comes to an `EXIT`, the loop ends and the function whose module failed is called after all.
  Uncaught: after `raise_error` has printed the error, the function still runs. In a Thread whose
  function catches the error, the loop runs on into the base block and executes the main
  module's body a second time ("Set to true so we don't double-run it", `vm.c:1505`), or fails the `ASSERT`
  in `memory_graph_array_pop`. A function that this second run calls while another such loop is open may begin with
  the argument of an older call, when that loop ends in its place.
- `vm.c:1480`: a body that waits for a thread, when that thread calls into any module, is a deadlock; modules that
  import each other see one another unfinished.
- `thread.c`: `Thread.wait()` without argument raises "requires type Int"; `start` twice, and
  `THREAD_COUNT++`, are not guarded.

Seen in a model:

- `thread.c:328`: the loop that removes accumulated operands stops half way,
  because its bound shrinks with every pop; after an error below a call with two
  operands pushed one stays, and a foreach around the try takes it for its iterator (`Leftover` in `MCVmControl`).

Read in the code:

- `files.c:183`: a function with one parameter that has a default never takes an
  argument that is not a tuple: `TGTE 1` is false for it, so the default is used; of
  a tuple it takes the first element.
- `assignment.c:182`: `i < len - i` keeps the tuple for the first half of the targets
  only: an assignment to four takes the wrong values, one to a single target
  leaves an operand behind.
- `optimizers.c:97`: a program that begins with a `while` whose body ends in an
  assignment makes the pass read the tape at -1.
- `optimizers.c:319`: `a == x` of objects becomes an `EQ` with an argument, which
  compares numbers only: the optimized program fails.
- `vm.c:646`: calling an object that is neither function nor class does nothing.
- `loops.c:72`: a `continue` that is the last statement of an inner loop is patched
  to `JMP 0`, which the outer loop takes for its own break.
- `loops.c:143`: `for` jumps back to the second instruction of its condition.
- `loops.c:177`: `continue` in a `while` jumps to the body and skips the test.
- `vm.c:628`, `1472`: an uncaught `raise` starts `raise_error` at its second
  instruction.
- `statements.c:129`: break or continue out of a try leaves its block and its
  handler in force.
- `sync.jl:105`: an error in a task's function ends the worker's thread; readers of the future wait for ever, and a
  pool of one thread runs nothing more (a build of the sources does so).
- `builtin.jl:198`: `Array.copy` says `len = 1` for `len - 1`: the copy has the first element and None. A task graph
  of two roots loses the second.
- `external.c:185`: `array_remove_at` admits the index after the last; the built program dies of it, in
  `memmove` of -1 elements, or, when the array was empty, of a size of 2^32-1.
- `vm.c:666`, `683`: a store at a negative index is not refused (a load is), and the built program dies of it; of what is no object, `is_const` is
  read before the type is tested.
- `map2.c:88`: a removed slot that is taken again can put a key in the map twice.
- `thread_internal.c:50`: the pool's semaphore saturates; with more tasks waiting than
  threads a task may stay in the list until another is submitted.

## 7. Not modelled

The components marked so in section 1: I/O (sockets, TLS, files, console), start-up
and argument parsing, the unused code generator and old containers, the wrappers with a lock
around map and set, and formatting.
Floating-point numbers and the width of integers are left out of
every model; the contents of strings matter in `Tokenizer` and `TapeFiles` only. Classes are parsed, compiled,
optimized and stored but have no run-time behaviour yet. `TaskGraph` is left out because it does not work at this commit (`Array.copy`, and a build of
the sources does not run the nodes of a graph given to a pool), so that a model of it would be of another program.
Which file a module is read from, memory of the C
code (tables that move, uninitialised fields) and out of memory
(`malloc` is not tested, `arena.c:55`) have no state in the models.
