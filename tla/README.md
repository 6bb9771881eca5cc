# StrictPy in TLA+

StrictPy is a statically typed, Python-like language: a compiler (`compiler/`)
turns `.spy` files into one bytecode module, and a virtual machine (`vm/`)
interprets it or compiles hot functions to native code. This directory models
the parts of that program that are hard to get right and hard to test: the
garbage collector under the interpreter's moving roots, exceptions through a
re-entrant interpreter, the blocking natives that OS threads share, the compile
cache over a graph of imports, the way of a program from its text to what it
prints, and the data frames of the `tabular` package. Paths below are relative to the
repository; `TLC` and `tlapm` are run in this directory, for example

    tlc -config channel.cfg MCChannel
    tlapm ChannelProofs.tla

## 1. The system

| Component | State it keeps | Operations | Modules here |
|---|---|---|---|
| Heap (`vm/src/gc.rs`, `object.rs`) | list of objects, mark bits, bytes since the last collection | `alloc`, `collect` (mark, trace, sweep) | `Heap`, `HeapProofs` |
| Interpreter: exceptions (`vm/src/interp.rs`) | call frames, `handler_frames`, `pending_exception`, the thrown object, nested `run_until` calls | enter/leave try, throw, search, rethrow, call, return, generator resume and yield | `Handlers`, `HandlersProofs` |
| Lowering of `try` (`compiler/src/ir.rs`) | blocks of the function being lowered | `lower_try`, `break`, `continue`, `return` | `TryRegions`, `TryStatements`, `Handlers` |
| Channels (`vm/src/builtins.rs`) | per channel a sender that close drops, a receiver behind a mutex, the library's queue | new, send, recv, try_recv, close | `Channel`, `ChannelFifo`, `ChannelProofs` |
| Locks, semaphores (`vm/src/builtins.rs`) | owner or permits behind a mutex and a condition variable | acquire, try_acquire, release | `Sync`, `SyncProofs` |
| Threads, futures (`vm/src/builtins.rs`, `vm/src/lib.rs`) | `ThreadSlot`, `FutureSlot`, the started and finished flags on the heap | Thread new/start/join, asyncio spawn/await/gather | `Tasks`, `TasksProofs` |
| Command line and cache (`vm/src/main.rs`), imports (`compiler/src/modules.rs`) | the `.spyc` beside a script; the loader's `in_progress` and `loaded` | `needs_recompile`, `collect_import_deps`, `resolve_and_merge`, write, load | `CompileCache`, `CompileCacheProofs` |
| Generators (`interp.rs`) | state, saved registers | resume, yield | in `Handlers`, as far as handlers see them |
| Higher-order natives (`builtins.rs`) | parked temporary roots | map, filter, reduce, sort_by | roots in `Heap`, boundaries in `Handlers` |
| Dict and set tables (`strdict.rs`, `interp.rs`) | a side table of values, the `mt` flag | get, set, remove | values as roots in `Heap` |
| Lexer, parser, printer (`lexer.rs`, `parser.rs`, `pretty.rs`) | indentation stack, bracket depth, f-string depth; a position in the tokens | `tokenize`, one method per production, `print_*` | `Syntax`, `Printer`, `Lexer`, `Parser`, `FrontEnd` |
| Types and type checker (`types.rs`, `argbind.rs`, `typecheck.rs`, `resolver.rs`) | environments of names, narrowings, generic bounds | synthesize, check, narrow, bind arguments | `Types`, `Typing` |
| Lowering (`ir.rs`) | a function's blocks, slots, captures | one method per statement and expression | `Lowering` |
| Optimizer (`optimize.rs`, `opts/`) | a function's blocks | fold, propagate, eliminate, scalarise tuples | `Optimizer` |
| Code generation (`codegen.rs`, `bytecode.rs`) | registers of values and slots, jumps to patch, vtables | `emit_value`, `emit_terminator` | `Codegen` |
| Interpreter dispatch (`interp.rs`) | registers, call frames, heap objects | one opcode at a time | `Machine` |
| Data frames (`tabular` in `builtins.rs`) | typed columns with null masks and categories, frames with an index or several levels, group tables | filter, slice, sort, locate, concatenate, merge, group, pivot, melt, stack, resample, roll, read and write CSV | `Columns`, `Frames`, `Grouping`, `Joins`, `Reshape`, `Buckets`, `Windows`, `Loading`, `Notebook`, `FrameProofs`, `NotebookProofs` |
| JIT, shadow stack (`jit.rs`, `jit_runtime.rs`, `stackmap_registry.rs`) | native frames and their root windows | compile, helpers | a boundary in `Handlers` |
| Bytecode loader | module tables | one pass | not modelled |
| Other natives (files, sockets, sqlite, json, dates, ndarray ...) | handle tables | wrappers | not modelled |

How they interact. All interpreters of a process share one `SharedVm`: the
heap behind a mutex, and a table per kind of slot. A worker is a fresh
`Interpreter::from_shared`, with frames, handlers and temporary roots of its
own; it meets the others only through heap objects, which no lock protects, and
through slots. Natives call closures by starting a nested `run_until` on the
same interpreter; so do generators and compiled callers. Native code reports a
pointer to the collector only by parking it as a temporary root. The compiler
and the virtual machine meet in the `.spyc` file. Inside the compiler each stage
hands a tree or a function to the next: the type checker leaves a type on every
expression, the lowering keeps it on every value, and code generation is the
last to see it: an opcode has only its width, and the interpreter believes it.

What is hard. Collections begin at any safepoint, in the middle of natives.
Exceptions cross interpreter re-entries, with one pending slot for the whole
interpreter. Blocking calls hold some locks and drop others; wakeups are sent
before or after a mutex is released; a closure may be started by two threads.
The cache is shared by processes that may be killed, and depends on files it
finds by walking the very graph that was edited. The stages of the compiler must
agree on what none of them states: which operands have which width, which value
is still read, where a line ends. And a null cell is an ordinary value under a
mask that every one of a hundred operations on frames has to look at.

What makes each part correct.

* Heap: nothing the program can still use is freed; garbage is, unless an integer
  looks like a pointer to it; no mark is left over for the next collection.
* Exceptions: one handler frame for each open try body and no other; the
  pending slot holds what the innermost cleaning-up `finally` must re-raise;
  no `finally` is skipped; a search does not jump over a native driver; no
  handler binds another exception's object.
* Channels: first in, first out, nothing lost or invented; "closed and empty"
  is said only when no message can come; close frees the receivers.
* Locks and semaphores: no wakeup lost, no permit idle beside a sleeper,
  nothing taken that is not there.
* Threads and futures: a closure runs once, a join or an await returns the
  outcome of the run it asked for, gather answers in order, no sleeper stays
  behind, every wait ends.
* Cache: what is loaded is what the files on disk make, errors are real, and
  every run ends, circular imports included.
* Front end: printing and parsing are inverse, whatever the layout.
* Compiler and interpreter: every opcode reads what it is meant to, and what a
  program prints and how it ends is what its tree says, in both builds.
* Data frames: nulls are opaque, rows stay together, joins, groups, buckets and
  windows are what their definitions say, reshaping and CSV can be undone.

## 2. Modules and how they match the code

`Heap`. Data is words that equal an address: `slots`, `frames` and so on hold the
pointers among them, `ints` the integers that only look like one, at whichever
register, payload or dict they are (the collector scans every 8-byte slot and
cannot tell, `gc.rs:308-331`). An object is an address with a kind, which is what
the header tells the collector: scanned slot by slot (`refs`), not scanned (`leaf`),
or allocated by a native without a vtable (`untyped`: the collector returns from it
at once). The root windows of `Interpreter::maybe_collect` are `frames`, `temp_roots`,
`throw_obj`, `pending_exc_obj`, `gen_stack` and `dicts`; `queued` is what lies in
channels, futures and priority queues and is in none of them, and `has_queued` says
that there ever was something. `natives` are the higher-order natives that wait for
a callback: each has its list in a local variable, which the collector does not
see, and the mark to which it truncates `temp_roots` when it ends (`Park`, `Unpark`).
The mutator's actions are the interpreter operations that move a word, one each;
an exception goes from `throw_obj` into a register (`Catch`), into `pending_exc_obj` and
back (`ToFinally`, `EndFinally`) or is given up (`Escape`), a generator's registers from
its payload to a frame and back (`GenNext`, `Yield`, `GenEnd`). `BeginCollect`,
`TraceObject` and `Sweep` are the phases of `Heap::collect`, on a thread that holds the
heap mutex: nobody allocates meanwhile, everybody else may run. A sweep forgets
the payload of what it frees, so that a reused address is a new object.
What the program can use (`Held`, and the pointers in any payload) is said without
the collector's windows and kinds: `SweepSound` follows pointers from there, out of
objects of every kind, and `SweepComplete` follows words.

`TryRegions` says what a program position is: the try statements around it,
innermost last, each with the block that runs (body, handler, else, finally)
and, for a finally block, the exception that started it. It also holds where
`lower_try` lets each block continue. `TryStatements` is the abstract
specification, with positions and the exception in flight only: an exception
goes to the innermost region that takes it. `Handlers` is the interpreter:
`EnterTry`, `LeaveTry`, `LeaveBlock`, `EndFinally` (RethrowIfPending), `Raise`, `Call`,
`Ret`, `Invoke` (a native or compiled caller that re-enters), `GenNext`, `Yield`,
and `propagate_exception` taken one handler frame at a time (`Catch`, `ToFinally`,
`DropHandler`, `Escape`). The constant `Uses` says which troublesome features the
enumerated programs have.

`Channel`. One action per step between two locks: `TakeSender` clones the sender
under the table lock, `Offer` is the moment at which the library's send is there for
a receiver to find (a receiver that does not wait may look between the two, and
answers none of a rendezvous), `Enqueue` and `SendReturns` are the rest of it,
`CloneReceiver`, `LockReceiver`, `Dequeue`/`Receive`/`NoMessage`/`RecvFails` the two
receives, `Close` takes the slot's sender. The queue of `std::sync::mpsc` is
modelled from its use: bounded, rendezvous, or with the unbounded capacity that
a negative argument stands for. `ChannelFifo` is the promise: a bounded FIFO whose
operations are a call, one effect and an answer.

`Sync`. The mutex of a slot is never held across a call, so what a native does
from locking to waiting or unlocking is one step. `lock_release` notifies after
unlocking, in a step of its own; `semaphore_release` before. The permit count
wraps at `MaxI32` as an `i32` does. Wakeups may be spurious.

`Tasks`. A task is a row of the thread table or of the future table. `start()` is
four steps (read the flag, spawn, store the handle, set the flag), `join()` two,
an await sleeps and wakes; a worker ends by returning, raising or panicking; the
system refuses a spawn after `MaxWorkers`. An interpreter knows the tasks it
created and those its closure captured, nothing else.

`CompileCache`. `disk` is the text of each file, `newer` the files written after
the cache. `NeedsRecompile` reads the dependency scan as reachability in the
graph on disk (a broken file has no imports). The merge is the depth-first walk
of `Loader`: `Enter` (parse, push), `Leave` (pop, record), `Fail` (circular, syntax,
or anything the resolver and the type checker refuse, of which an import that
nothing answers stands for all), `Finish`. `Truncate` and `Fill` are the two file
operations inside `fs::write`; `Load` is `fs::read`. `Kill` may strike anywhere.

`Syntax` has a constructor per node of `ast.rs`. `Printer` prints a tree as lines of
lexemes, with the parentheses that `pretty.rs` decides on; `Lexer` turns lines into
tokens, with the state of `lexer.rs` (indentation stack, depth of brackets, braces
of an f-string) and its rules for blank lines, comments, backslashes and lines
that an operator continues; `Parser` is the recursive descent, one operator per
production, from a position to a tree and the next position, or to an error.
`FrontEnd` prints a program, lays its text out anew one edit at a time (`BreakInBrackets`,
`BreakWithBackslash`, ...) and parses it.

`Types` is the type language with subtyping, unification and the binding of
arguments, and the wrapping of integers at a width; `Typing` annotates a tree with
types or rejects it; `Lowering` makes functions of blocks of it, as scripts for the
builder of `ir.rs`; `Optimizer` has the four passes and their fixed point; `Codegen`
chooses opcodes, widths and registers; `Machine` is the interpreter, one opcode per
step, over registers that remember what kind of thing was put in them. An opcode
that would read another kind has no step. `Reference` is what the tree means, by
recursion over it, and the specification of all the others.

`Columns` to `Loading` have one operator per operation of `tabular`, and `...OK` for
when it does not raise. `Notebook` is a program that calls them, twice over: the
second copy starts with other values under its nulls and makes the same calls.
`origin` holds the rows of the first frame, as sets of cells, `whole` says that the
calls so far have only moved cells, and `counted` that none of them concatenated
frames that have no columns (`concat_rows` counts the rows of its first column).
The shape of a column includes that a `DateTime` has numbers in its buffer, nulls
or not (`Times`): a resample computes with them. Sorting, filtering and searching
are folds over positions and the least of a set, so that they can be proved about.
A merge in which a left column and the right key of its name differ in class
(`SameKeyClasses`) is not called: what the code reads then is not defined.

The map in PROJECT.json names the definitions that stand for code. It leaves out
one-line notation whose source lines another definition of the module names too.

The `MC...` modules hold constant values for TLC only. Operators marked "a mutant
of" are wrong variants of the operator after them; no specification uses them.

## 3. Runs

| Run | Question | Bounds, and why they are enough |
|---|---|---|
| `heap` | one interpreter, all objects with a vtable: `NoDangling`, `SweepSound`, `SweepComplete` | 3 addresses, 1 thread, kinds `refs` and `leaf`: a chain of two beside a third object, a cycle that nothing holds, an address reused; `RoomCap = 4` objects and words outside of registers and payloads together (parked, pending, queued, in dicts, integers): a native inside a native, an exception pending while another is thrown |
| `heap_untyped` | expected violation, section 6 | 2 addresses: one object that holds another |
| `unwind` | structured exceptions: `HandlersMatch`, `PendingMatches`, `FinallyRuns`, `BoundaryRestored`, and `Unwinds` (implements `TryStatements`) | 3 frames (a caller, a native, its closure), 2 nested tries, 2 exception types, a generator |
| `handlers_any` | every feature on: `ObjectNeverWrong`, `DriverNotSkipped` | same depth, one try per frame, so that left-over handlers still meet other frames |
| `channel` | `EndIsFinal`, `CloseEndsRecv`, `NobodyStranded`, `Implements` (ChannelFifo) | 3 threads, 2 calls each; capacities rendezvous, 1 and unbounded: two can meet behind the third, and a close can fall anywhere between |
| `sync` | `LockWakeup`, `SemWakeups`, `NoStealing`, `NobodyForgotten` | 4 threads on one lock and one semaphore: two sleepers, a releaser and a barger; `MaxI32 = 2` reaches the wrap |
| `tasks` | `SleepersWait`, `ReadyIsEnded`, `GatherInOrder`, `RunsOnce`, `JoinedIsEnded`, `WaitsEnd` | 3 tasks, 2 workers: workers that create and await, a refused spawn, a gather of two |
| `compile_cache` | `RunsCurrent`, `ErrorsAreReal`, `RunsEnd` | 2 processes; a script and two modules, each importing any of the others or itself, or broken, or absent, one of them with a standard module's name; edits unbounded |
| `syntax` | `SameTree`, `OverIndentRejected` | 12 programs with every kind of node between them, one edit anywhere in each and two in the shortest: two edits can meet in one line |
| `pipeline` | `OperandsFit`, `SameOutcome` | 114 programs that use each construct of the lowering with operands on both sides of every boundary, in a debug and a release build, and ill-typed ones that must be refused; `i32` has 4 bits and `i64` 8, so that every wrap, trap and truncation happens; floats are quarters |
| `frames` | `WellFormed`, `NullsOpaque`, `RowsKeepTogether`, `MergeIsJoin`, `RowsPartition`, `SumsConserve`, `RoundTrips`, `WindowsAgree` | 4 frames of three rows (no index, one, two levels, categories), 2 second frames, 2 calls, 6 rows: duplicates, nulls in keys, labels and values, months of different lengths |
| `handlers_break` | expected violation, section 6 | the smallest instance that shows it |

Bounds that are part of the models: `RoomCap` (objects, and words kept outside of
registers and payloads), `MaxDepth`, `MaxNest`, `MaxHandlers`, `MaxCalls`, `MaxTasks`,
`MaxWorkers`, `MaxEdits`, `MaxRows`, `MaxFrames` (deep enough for every program but the
one that recurses for ever, which meets the interpreter's own limit).
Addresses are symmetric; no run with a liveness property uses symmetry.

Deadlock is checked where it means something. The heap, handlers, channel, sync
and tasks runs turn it off: a program may end (an uncaught exception empties
`runs`), use up its calls, or block for good on its own account (a lock nobody
releases); that waiting threads are served when they can be is stated by the
liveness properties. `syntax` and `frames` stop when their edits or calls are used
up. `compile_cache` and `pipeline` have it on: a program that is neither over nor
able to take a step has found in a register what its opcode cannot read.

## 4. Fairness

* `Channel`: weak fairness of each thread's own steps inside an operation. No
  thread has to begin one. Mutexes are not assumed fair: a receiver's mutex is
  released by steps of threads that are fair themselves, and calls are bounded.
* `Sync`: weak fairness of the steps inside a native. Nobody has to release, and
  spurious wakeups are possible but never owed.
* `Tasks`: weak fairness of an interpreter's steps inside a call, and strong
  fairness of the end of a closure, which can be interrupted by calls of its own:
  a closure that is not kept waiting ends, by returning, raising or panicking.
* `CompileCache`: weak fairness of a process's steps unless it is killed.

The operating system's scheduler gives all of these; `Heap`, `Handlers`, `FrontEnd`,
`Machine` and `Notebook` have safety properties only.

## 5. Proofs

All proofs are checked with TLAPS for every value of the constants that the
named `ASSUME`s admit: any number of threads, addresses, tasks, files and so on.

| Module | Theorems | Argument |
|---|---|---|
| `HeapProofs` | `TypeCorrect`, `NativesSafe`, `MarkingSafe`, `TypedSafe`, `SweepIsSound`, `SweepIsComplete`, `NoDanglingPointers` | `MarkingInv`: the collecting thread's roots are marked throughout, and a marked object that is off the worklist has no unmarked child (tri-colour). At a sweep the worklist is empty, so the marked set is closed, and reachability, the least closed set, is inside it; and nothing is marked but from a word of the roots, with no mark left from the collection before, which makes a sweep complete. `NativesRooted`: marks lie one above the other and the list of each native is parked from its mark up, so that what is held is in a root window. Under one interpreter (`SingleThread`); for `SweepSound` and `NoDangling` also no untyped objects (`Typed`, whence `TypedInv`: what is not scanned holds nothing), and for `NoDangling` nothing queued, each of which section 6 shows to be needed |
| `ChannelProofs` | `TypeCorrect`, `EndSafe`, `FifoImplemented` | each concrete step is a `ChannelFifo` step or a stutter under the mapping in `Channel`; a library queue is disconnected only when the slot's sender and every clone is gone |
| `SyncProofs` | `TypeCorrect`, `LockWakeupSafe`, `SemWakeupsSafe`, `NoStealingSafe` | `LockWakeup` is inductive as it stands; the semaphore's needs cardinalities of the awake and sleeping sets, whence `Thread` finite |
| `TasksProofs` | `TypeCorrect`, `RunsOnceSafe`, `JoinedIsEndedSafe`, `SleepersWaitSafe`, `ReadyIsEndedSafe`, `GatherInOrderSafe` | invariant `OneRun` ties a task's flag, handle and worker to the place its owner is at in `start` or `join`; needs `OwnersStart` (a Thread is started by the interpreter that made it). The futures need no such assumption: a future has one worker, what it says is final, and a gather under way has passed over values only |
| `HandlersProofs` | `TypeCorrect`, `ObjectNeverWrongSafe`, `DriverNotSkippedSafe`, `BoundaryRestoredSafe` | `StateInv`: the shapes, the bottoms of nested runs rise strictly and lie below the top frame, the depths of handler frames do not fall. Whatever the program does; `BoundaryRestored` without compiled callers, which go on with frames of a failed callee on the stack |
| `HandlersProofs`, the match of handlers | `HandlersMatchSafe` | every step keeps the try bodies that enclose one place of the call stack, and the handler frames of these, and nothing else (`Pruned`). Needs that the program does not break out of a try, yield inside one or run a compiled caller, which is what `handlers_break` and section 6 show to be needed |
| `HandlersProofs`, the unwinding | `PendingMatchesSafe`, `FinallyRunsSafe`, `UnwindsSafe` | on top of `MatchInv`: a block that cleans up is the innermost region of the whole stack and the pending slot is its exception; the handler frames a search has dropped are those of bodies that do not stop it; only the main run starts from no frame. Each step is then a step of `TryStatements` or a stutter. For `Structured` programs: except and finally in statements of their own, a finally block that cleans up runs no try statement, and no break, yield, return or compiled call out of a try. Each clause is needed (section 6) |
| `CompileCacheProofs` | `TypeCorrect`, `MergeSafe`, `ErrorsReal`, `CacheSafe`, `RunsCurrentSafe` | `MergeInv`: `in_progress` is a path in the import graph from the script, what is loaded is closed, acyclic and below the script; a finished merge is then exactly `Linked`. `CacheInv`: an intact cache was compiled from some disk on which the files not edited since are the same; `AgreeingDisks` shows that two disks that agree on what one of them links make one program. Needs that no import is deleted |
| `FrameProofs` | lemmas, one or more for each call of `tabular` | two frames are twins (`Twin`) if they have the same names, rows and null masks, and the same values but under nulls. Every call answers twins of twins, which also says that what it returns is well formed |
| `NotebookProofs` | `TwinsSafe`, `WellFormedSafe`, `NullsOpaqueSafe` | `TwinsInv`: the frames at hand of the two copies are twins, and so are those kept aside, and while `counted` their columns have the length of the frame. Neither property is inductive by itself: that a frame shows the same says nothing of the rows that a sort of it takes, and that it is well formed nothing of the classes its calls depend on; `TwinsInv` has what a call reads |
| `NotebookProofs`, rows | `RowsSafe`, `RowsKeepTogetherSafe` | `RowsInv`: `TwinsInv`, and a frame that is `whole` is `counted` and each of its rows is made of cells of one row of the first frame, in columns and levels alike. For every call that moves cells, `Draws`: each row of its result is made of cells of one row of its argument; a cell is followed through the forms a categorical takes (`Faces`) |
| `NotebookProofs`, windows | `WindowsAgreeSafe` | on any column of numbers, of any length. The three implementations and the running aggregates find the rows of a window by a bound, by counting and by a search through all rows; all three lists ascend, and a set has one ascending list (`AscendingOne`) |
| `NotebookProofs`, groups | `GroupsPartitionSafe` | from the shape `TwinsInv` gives. The first rows of the keys ascend and each key has one (`FirstsOrder`), so the groups share out the rows (`GroupsOrder`); an intact categorical has one code for what it shows (`CodesTell`), so that codes group as texts do |
| `NotebookProofs`, joins | `MergeIsJoinSafe` | two rows match exactly when they show one key without a null (`MatchesSay`); what is emitted is in an order in which nothing precedes itself, so each pair comes once (`EmitIsJoin`); names that occur on both sides are followed to their column (`MergeCells`). Insertion keeps a list in order (`SortedInOrder`), so the walk of `asof_merge` through both sorted sides stops at the nearest row (`AsofNearest`); that part is about frames that are `counted` |
| `NotebookProofs`, buckets | `BucketsPartitionSafe` | for all times, before and after 1970. `CivilParts`: the date the code computes of a day is a day of that month of that year, leap years and centuries included (`EraYears`, `YearMonths`), and `DayOf` takes it back; months follow one another without a gap (`MonthOrder`). So the bucket of a time never falls as times rise, starts rise, and what is in a bucket comes before the next one starts and is of the month the bucket starts in, or of its week |

`RowsPartition` is `GroupsPartition` and `BucketsPartition`, and `RowsPartitionSafe`
follows from the theorems about the two; `SumsConserve` is `GroupsConserve` and
`BucketsConserve`.

`GroupsPartitionSafe` and `MergeIsJoinSafe` say `KeysTell => ...`: a key is made by
turning cells into text and joining the texts with a separator, and whether two keys
then have one text is a fact about strings and numerals that TLAPS cannot reason
about, and that is false of texts which hold the separator. `KeysTell` states it of
the frame at hand (with what it needs of nulls and times); the run `frames` checks it
as the first conjunct of `RoundTrips`, and the theorems take the rest from there for
frames of any size. `BucketsPartitionSafe` has no such hypothesis.

The theorems about frames hold for any frames to start from that are well formed
and even (`NotebookAssumption`), with any number of columns, levels, rows and
calls. Calls whose arguments `Notebook` fixes (a rule of weeks, the sum of `x`) are
proved for these arguments in the session, and mostly for all in the lemma. The
library's induction takes an operator as a parameter, which the provers cannot
instantiate; what the lemmas need of folds and lists they get from the least
position at which a set of positions fails (`LeastNatural`, `UpTo`).

Model-checked only:

* liveness (`CloseEndsRecv`, `NobodyStranded`, `NobodyForgotten`, `WaitsEnd`,
  `RunsEnd`), which is out of the prover's reach;
* `SameTree`, `OverIndentRejected`, `OperandsFit` and `SameOutcome`: the front end and
  the compiler are recursive operators over trees;
* `SumsConserve` and `RoundTrips`, of which `KeysTell` is a part: they say that
  joined texts are keys (which holds only of texts without the separator), that
  sums of fractions come to the same in another order and that a text parses to
  what was written, each of them a fact about a recursive function of data. What
  that about sums rests on, that groups and buckets lose and repeat no row, is
  proved.

All other safety properties of the runs and both refinements are proved.

## 6. Where the code and its documents disagree

Shown by a run:

* `heap_untyped`: the collector does not look into objects with a null vtable
  (`gc.rs:291`), so what only a native's tuple or exception holds is freed while the
  program can read it; the comment at `interp.rs:3129` says that it is scanned.
* `handlers_break`: `break` and `continue` leave a try body without `TryLeave`
  (`ir.rs:2759`), so its handler catches later exceptions.

Found with these models, by changing a constant of a run:

* `channel` without the exception for receivers: `try_recv` waits for the mutex of a
  blocked `recv` (`builtins.rs:753`); LANGUAGE_GUIDE.md:2587 says it answers none.
* `frames` with `"mean"` among the corners of `SumsConserve`: a margin's corner
  aggregates the aggregated cells (`builtins.rs:22643`), where a comment
  (`builtins.rs:22514`) and the guide have it aggregate the rows.
* `unwind` with `"try_in_cleanup"` in `Uses` breaks `PendingMatches`: an exception
  raised and caught while a finally block is cleaning up clears the pending slot
  (`interp.rs:1158`), and the exception being cleaned up after is lost.
* `handlers_any`'s try statements in `unwind`: an exception in an `except` arm
  skips the same statement's `finally`, whose handler frame is popped already
  (`interp.rs:1132`, against STRICTPY_SPEC.md:1117); and with `"yield_in_try"` the
  generator's handlers are dropped (`interp.rs:2557`, against
  LANGUAGE_GUIDE.md:359).
* `heap` without the exception of `NoDangling` for queued pointers: a payload whose
  only copy is queued in a channel is freed (`interp.rs:3326`). With two threads, a
  store during a collection hides an object from the marker (`interp.rs:3289`;
  STRICTPY_SPEC.md 15.7 says the world is stopped), and only the collecting thread's
  frames are roots (`interp.rs:3336`; 15.4 lists the stacks of all).
* `heap` with the pointers of `Held` in place of the words of `Resembling` and `Words`
  breaks `SweepComplete`: garbage outlives a collection for an integer that equals its
  address, as the comment at `gc.rs:314-316` says. So no precise form of it holds.
* `frames` with `starts[k] <= ValueAt(t, i)` demanded of months too breaks
  `PartitionsTimes`: a row lies in the bucket that starts in its month, be it before
  the start. LANGUAGE_GUIDE.md:3371 and `builtins.rs:19677` say that a bucket from
  Jan 31 ends on Feb 28 and the next begins there; Feb 9 is counted in that one
  (`builtins.rs:19749`). `PartitionsTimes` says what the code does.
* `pipeline` with a remainder whose operands differ in sign (`-8 % 7`) breaks
  `SameOutcome`: integer `%` has the sign of the dividend (`interp.rs:1353`, `1366`), where
  STRICTPY_SPEC.md:977 has that of the divisor. `Reference` has the divisor's, and the
  programs leave such operands out unless the remainder is zero.
* `compile_cache` with `Removable = {"a"}`: when an imported file is deleted the
  cache stays fresh and the old program runs (`modules.rs:146`). Without the
  exception for a torn file `RunsCurrent` fails too: a process killed between the
  truncation and the write leaves a short file newer than its sources, which
  every later run loads and refuses (`compiler/src/lib.rs:46`;
  STRICTPY_SPEC.md:4895 calls the rewrite "atomic-ish").
* `tasks` with `OwnersStart = FALSE`, `MaxTasks = 2` and `MaxWorkers = 3` breaks
  `RunsOnce`: two interpreters that start one Thread both pass the flag.

Seen while reading, not modelled: JIT helpers drop an error that a callee raised
(`jit_runtime.rs:212`); a `with` statement closes only on the normal way out
(`ir.rs:2681`); resuming a generator from inside itself is not refused; a comment
on `ChannelNew` calls capacity 0 unbounded where it is a rendezvous
(`builtins.rs:677`); a sender blocked on a full channel is not woken by `close`;
a worker that panics never fills its future; map, filter, reduce and sort_by use
a list's old length or buffer after their callbacks (`builtins.rs:1030`, `11836`);
a sqlite connection closed during a statement comes back when the statement puts
it back (`builtins.rs:10117`).

Left out of the programs of `syntax`, because they do not come back as they were
(`compiler/tests/roundtrip.rs:44-60` asserts that printing is idempotent):

* `(a + b) ?? c`, `(-a) ?? b`, `(not a) == b`, `a + (not b)`, `-(not a)`, `(-a) ** b`,
  `(a < b) == c`, the type `(T,)`, `(fn(a) -> b)?`, `(t.0).1`, a ternary or a lambda in
  parentheses as what a comprehension ranges over, and a triple-quoted string
  that ends in a quote.
* A class or protocol without members is printed with a `pass` that the parser
  refuses (`parser.rs:475`; LANGUAGE_GUIDE.md:443, 2790). An inferred type prints
  as `_`.
* A line break inside an f-string's interpolation outside of brackets, and a blank
  line after a backslash, are not neutral.

Left out of the programs of `pipeline`, because their outcome is not that of their
tree. Each was found by a program that TLC ran, or met while writing one:

* `continue` in a loop over a list skips the step of the index (`ir.rs:2560`;
  LANGUAGE_GUIDE.md:221-226 has such a loop).
* A ternary evaluates both branches and yields the first (`codegen.rs:564`;
  BUGS_KNOWN.md:829 and STRICTPY_SPEC.md:337). An assertion never fails. `match`
  ignores guards and nested patterns. A slice of step 0 never ends. `else` of a
  loop is parsed and dropped.
* `s = s + "x"` appends to the object that other names hold (`ir.rs:1309-1313`; the
  comment at 1545 excludes parameters, the code does not).
* Slots are found by name, so a name used again in a sibling block keeps the type
  of the first (`ir.rs:1784`); `let x: T` in a generic function has no width.
* `raise 42` and `for a: str in range(3)` are accepted (against the comment at
  `typecheck.rs:793`); star destructuring of a list that is too short does not
  trap (comment at `ir.rs:2003`).
* Fields of narrow types lie close together and are stored with 8 bytes.
* `none` is the least `i64`, so that value compares equal to it, and `i32? == none`
  compares the low 32 bits; `==` on lists and `x in list` compare pointers;
  `isinstance` of `none` reads through it.
* `let x: f64 = 1` keeps the integer's bits, `const X: f64 = 1 / 2` folds as integers,
  `%` and `//` of floats are the integers', `**` of `i32` is not truncated, unsigned
  `%` is signed, `i8` and `i16` never wrap, a range's last step may overflow.
* Constant folding wraps where a debug build traps (STRICTPY_SPEC.md 7.2), and an
  unused operation that would trap is dropped. A tuple's allocation is never
  removed, against the comment at `tuple_scalar.rs:13`.
* `+=` on an object with `__add__` adds pointers; a base's `__init__` is not called
  when a class has none; class-level defaults of fields are dropped; default
  arguments see the caller's locals; a function may fall off its end.
* The checker gives a mixed list the type of its first element, drops the result
  of checking a dict literal, a signed literal or a call's argument, compares
  types of `+=` for equality only, takes the right-hand type of `??`, does not
  check an index, the signatures of overrides or the narrowing of `elif`.

Left out of `frames`, or excepted by its properties:

* Keys are joined with `\x01`, nulls marked `\x02null` (`builtins.rs:16567`): texts
  that hold these collide, as does `"null"` in a pivot and `"<null>"` in `unstack`;
  `unstack` overwrites duplicates; `write_csv` writes `""` and `"null"` so that they
  are read back as nulls; the least `i64` is `none` in band (`builtins.rs:10710`).
* An outer `merge` of two frames with as many levels joins the levels
  (`builtins.rs:22842`), and so does the model; LANGUAGE_GUIDE.md:3327 and 3342 and the
  comments at `builtins.rs:18297` and 18404 still have it answer no index.
* `asof_merge` of a frame that counts more rows than its key has panics
  (`builtins.rs:20121`): it is not called so.
* A categorical loses its categories or its codes when rows are taken, cloned,
  plucked or concatenated (LANGUAGE_GUIDE.md:3360 says it is preserved).
* `concat_rows` of frames without columns counts no rows (`builtins.rs:17680`), also
  when they have an index, as what `keys()` returns does (`counted` excepts what
  comes after such a call from the lengths in `WellFormed` and from the `asof_merge`
  part of `MergeIsJoin`); `rename` may give two
  columns one name, and a `merge` on it reads the right key through the class of
  each (`builtins.rs:18269`); a descending `sort_index`
  reverses equal rows (the comment at `builtins.rs:20553` and the guide call it
  stable); `resample_index` takes a calendar rule for a negative number of
  milliseconds and panics on the number of buckets, unless the times are about
  equal (`builtins.rs:20928`): it is not called so; the mean of integers is
  truncated by resampling and not by grouping; group tables are never freed.

## 7. What the models leave out

* Bytes: object sizes and the adaptive threshold (a collection may begin at any
  safepoint once `Threshold` objects were allocated), element buffers, strings.
* The JIT. `Handlers` knows a compiled caller as a boundary only, `Heap` not at
  all.
* What natives compute, apart from the ones above, and the file format of a module:
  wrappers over libraries and one pass over bytes, which unit tests reach.
* In the front end, the characters of a lexeme (digits, escapes, operators) and
  spans.
* In the compiler, `try`, `with`, `yield`, sets, generic classes, protocols, `f32`,
  unsigned types, the inlining of callbacks, and names that the resolver refuses
  before the checker sees them. `Handlers` and `TryRegions` have `try` and generators.
* Floats have no rounding, infinity or NaN: values are quarters in `Machine`,
  fractions in `Columns`. Characters are not ordered. `Machine` reclaims no memory.
* Of `tabular`: `describe`, `std`, `var`, `median`, `quantile`, `show`, comparisons by
  affix, `from_sql`, the explorer's server, the typed `get_column` calls.
* The memory order of the flags on unlocked heap objects: `Tasks` interleaves
  their reads and writes as if each took effect at once.
* In `CompileCache`: an edit while a compilation is under way, or with a time not
  later than the cache's, is excluded; the rule of `needs_recompile` cannot see
  it. Programs that use no cache (`-c`, `.spyc`) and directories are left out.

## 8. What could come next

* The elements of a list under the callbacks of `map`, `filter`, `reduce` and
  `sort_by`, which `Heap` reduces to the roots they park.
* The shadow stack of compiled frames, as windows of roots in `Heap` and as frames
  that an error crosses in `Handlers`.
* Handles: the sqlite connection slot (taken, used, put back, closed), a listener
  closed under an accept, files.
* `try`, generators and sets in `Lowering` and `Machine`, so that `SameOutcome` covers
  what `Handlers` models by itself.
* The theorems on unwinding for programs with `except` and `finally` in one
  statement, once the interpreter keeps the frame of such a try for its arms.
