------------------------------- MODULE Tasks -------------------------------
(***************************************************************************)
(* The two ways a StrictPy program runs a closure on another OS thread:    *)
(* Thread(c).start()/join() and asyncio.spawn_*(c) with Future.await and   *)
(* asyncio.gather_* (vm/src/builtins.rs over ThreadSlot of vm/src/interp.rs*)
(* and FutureSlot of vm/src/lib.rs).  A worker is a fresh interpreter on   *)
(* the shared VM, and may itself create tasks and wait for them.           *)
(*                                                                         *)
(* A task is an entry of the thread table or of the future table; entries  *)
(* are pushed and never removed, so a handle is the number of the task.    *)
(* An interpreter knows the handles it was given at its start (what its    *)
(* closure captured) and those of the tasks it created.                    *)
(*                                                                         *)
(* A FutureSlot is a state behind a mutex, with a condition variable.  The *)
(* worker fills it and notifies all under the mutex, in one step; await    *)
(* checks and goes to sleep in one step.  start() is four: it reads the    *)
(* started flag of the heap object under no lock at all, spawns, stores    *)
(* the JoinHandle under the table lock, and sets the flag.                 *)
(***************************************************************************)
EXTENDS Integers, Sequences, FiniteSets

CONSTANTS
  MaxTasks,      \* bound: Thread objects and futures created
  MaxWorkers,    \* OS threads the system grants before a spawn fails
  OwnersStart    \* does only the creator of a Thread call its start()?

ASSUME MaxTasksAssumption == MaxTasks \in Nat
ASSUME MaxWorkersAssumption == MaxWorkers \in Nat
ASSUME OwnersStartAssumption == OwnersStart \in BOOLEAN

Task == 1 .. MaxTasks
Main == 0
NoWorker == 0                      \* an empty Option<JoinHandle>
Interp == 0 .. MaxWorkers
Worker == 1 .. MaxWorkers

VARIABLES
  kind,      \* kind[n]: which table task n is in, "none" before it is created
  creator,   \* the interpreter that created the task
  caps,      \* the handles the task's closure captured
  state,     \* FutureState: "unset", or ready with a "value" or an "error"
  started,   \* ThreadRepr.started
  handle,    \* ThreadSlot.join_handle
  finished,  \* ThreadSlot.finished and ThreadRepr.finished
  job,       \* the task each worker runs
  life,      \* of each interpreter, "unborn" before its spawn
  pc,        \* where each interpreter is in a start, join or await
  mine,      \* the JoinHandle in a start or join
  arg,       \* the tasks a start, join, await or gather was called with
  pos,       \* how many of them an await or gather is done with
  answer,    \* what the last await or gather returned or raised
  known      \* the handles each interpreter has

taskVars == <<kind, creator, caps>>
slotVars == <<state, started, handle, finished>>
workerVars == <<job, life, known>>
callVars == <<pc, mine, arg, pos, answer>>
vars == <<taskVars, slotVars, workerVars, callVars>>

Kinds == {"none", "thread", "future"}
Ends == {"returned", "raised", "panicked"}
Places == {"run", "start", "store", "flag", "join", "await", "asleep"}

Init ==
  /\ kind = [n \in Task |-> "none"]
  /\ creator = [n \in Task |-> Main]
  /\ caps = [n \in Task |-> {}]
  /\ state = [n \in Task |-> "unset"]
  /\ started = [n \in Task |-> FALSE]
  /\ handle = [n \in Task |-> NoWorker]
  /\ finished = [n \in Task |-> FALSE]
  /\ job = [w \in Worker |-> 0]
  /\ life = [i \in Interp |-> IF i = Main THEN "running" ELSE "unborn"]
  /\ known = [i \in Interp |-> {}]
  /\ pc = [i \in Interp |-> "run"]
  /\ mine = [i \in Interp |-> NoWorker]
  /\ arg = [i \in Interp |-> <<>>]
  /\ pos = [i \in Interp |-> 0]
  /\ answer = [i \in Interp |-> "none"]

Running(i) == life[i] = "running" /\ pc[i] = "run"
Goto(i, place) == pc' = [pc EXCEPT ![i] = place]

\* A native that goes to a place with its arguments.
Call(i, place, s) ==
  /\ Running(i)
  /\ \A k \in 1 .. Len(s) : s[k] \in known[i]
  /\ Goto(i, place)
  /\ arg' = [arg EXCEPT ![i] = s]
  /\ pos' = [pos EXCEPT ![i] = 0]
  /\ answer' = [answer EXCEPT ![i] = "none"]

\* The next free entry of the table, and the next OS thread.
NewTask(n) == kind[n] = "none" /\ \A m \in Task : m < n => kind[m] # "none"
NewWorker(w) == life[w] = "unborn" /\ \A v \in Worker : v < w => life[v] # "unborn"

\* A closure captures every handle its creator has: one it does not need is
\* one it does not use.
Create(i, n, k) ==
  /\ Running(i)
  /\ NewTask(n)
  /\ kind' = [kind EXCEPT ![n] = k]
  /\ creator' = [creator EXCEPT ![n] = i]
  /\ caps' = [caps EXCEPT ![n] = known[i]]

----------------------------------------------------------------------------
(* Thread: alloc_thread, start_thread, join_thread *)

ThreadNew(i, n) ==
  /\ Create(i, n, "thread")
  /\ known' = [known EXCEPT ![i] = @ \cup {n}]
  /\ UNCHANGED <<slotVars, job, life, callVars>>

\* The flag is read; a second start() raises ValueError and changes nothing.
StartCheck(i, n) ==
  /\ Call(i, "start", <<n>>)
  /\ kind[n] = "thread"
  /\ OwnersStart => creator[n] = i
  /\ ~started[n]
  /\ UNCHANGED <<taskVars, slotVars, workerVars, mine>>

Spawn(w, n) ==
  /\ NewWorker(w)
  /\ job' = [job EXCEPT ![w] = n]
  /\ life' = [life EXCEPT ![w] = "running"]

StartSpawn(i, w) ==
  /\ pc[i] = "start"
  /\ Spawn(w, arg[i][1])
  /\ known' = [known EXCEPT ![w] = caps[arg[i][1]]]
  /\ mine' = [mine EXCEPT ![i] = w]
  /\ Goto(i, "store")
  /\ UNCHANGED <<taskVars, slotVars, arg, pos, answer>>

NoWorkerLeft == \A w \in Worker : life[w] # "unborn"

\* The system refuses a thread: start() is a Trap, and the Thread not started.
StartRefused(i) ==
  /\ pc[i] = "start"
  /\ NoWorkerLeft
  /\ arg' = [arg EXCEPT ![i] = <<>>]
  /\ Goto(i, "run")
  /\ UNCHANGED <<taskVars, slotVars, workerVars, mine, pos, answer>>

\* A handle that is already there is dropped, and its thread detached.
StartStore(i) ==
  /\ pc[i] = "store"
  /\ handle' = [handle EXCEPT ![arg[i][1]] = mine[i]]
  /\ Goto(i, "flag")
  /\ UNCHANGED <<taskVars, state, started, finished, workerVars, mine, arg,
                 pos, answer>>

\* A mutant of StartFlag: the flag of the heap object is never set.
StartFlagForgotten(i) ==
  /\ pc[i] = "flag"
  /\ Goto(i, "run")
  /\ mine' = [mine EXCEPT ![i] = NoWorker]
  /\ arg' = [arg EXCEPT ![i] = <<>>]
  /\ UNCHANGED <<taskVars, slotVars, workerVars, pos, answer>>

StartFlag(i) ==
  /\ pc[i] = "flag"
  /\ started' = [started EXCEPT ![arg[i][1]] = TRUE]
  /\ Goto(i, "run")
  /\ mine' = [mine EXCEPT ![i] = NoWorker]
  /\ arg' = [arg EXCEPT ![i] = <<>>]
  /\ UNCHANGED <<taskVars, state, handle, finished, workerVars, pos,
                 answer>>

\* The handle is taken; without one join() raises ValueError.
Join(i, n) ==
  /\ Call(i, "join", <<n>>)
  /\ kind[n] = "thread"
  /\ handle[n] # NoWorker
  /\ mine' = [mine EXCEPT ![i] = handle[n]]
  /\ handle' = [handle EXCEPT ![n] = NoWorker]
  /\ UNCHANGED <<taskVars, state, started, finished, workerVars>>

\* A mutant of JoinReturns: it does not wait for the worker.
JoinReturnsAtOnce(i) ==
  /\ pc[i] = "join"
  /\ finished' = [finished EXCEPT ![arg[i][1]] =
                    @ \/ life[mine[i]] # "panicked"]
  /\ Goto(i, "run")
  /\ mine' = [mine EXCEPT ![i] = NoWorker]
  /\ arg' = [arg EXCEPT ![i] = <<>>]
  /\ UNCHANGED <<taskVars, state, started, handle, workerVars, pos,
                 answer>>

\* JoinHandle::join returns, and a worker that raised raises here; one that
\* panicked is a Trap, before finished is set.
JoinReturns(i) ==
  /\ pc[i] = "join"
  /\ life[mine[i]] \in Ends
  /\ finished' = [finished EXCEPT ![arg[i][1]] =
                    @ \/ life[mine[i]] # "panicked"]
  /\ Goto(i, "run")
  /\ mine' = [mine EXCEPT ![i] = NoWorker]
  /\ arg' = [arg EXCEPT ![i] = <<>>]
  /\ UNCHANGED <<taskVars, state, started, handle, workerVars, pos,
                 answer>>

----------------------------------------------------------------------------
(* asyncio: m32_asyncio_spawn, m32_asyncio_future_await, m32_asyncio_gather *)

\* Nobody has the handle before spawn_* returns it, so the entry, the worker
\* and the answer are one step.
FutureSpawn(i, n, w) ==
  /\ Create(i, n, "future")
  /\ Spawn(w, n)
  /\ known' = [known EXCEPT ![i] = @ \cup {n}, ![w] = caps'[n]]
  /\ UNCHANGED <<slotVars, callVars>>

\* The system refuses a thread: the entry stays, unset, and nobody knows it.
FutureRefused(i, n) ==
  /\ Create(i, n, "future")
  /\ NoWorkerLeft
  /\ UNCHANGED <<slotVars, workerVars, callVars>>

\* await is a gather of one future, as far as waiting goes.
Await(i, s) ==
  /\ Call(i, "await", s)
  /\ \A k \in 1 .. Len(s) : kind[s[k]] = "future"
  /\ UNCHANGED <<taskVars, slotVars, workerVars, mine>>

Awaited(i) == arg[i][pos[i] + 1]

\* Not ready: Condvar::wait.
AwaitSleeps(i) ==
  /\ pc[i] = "await"
  /\ state[Awaited(i)] = "unset"
  /\ Goto(i, "asleep")
  /\ UNCHANGED <<taskVars, slotVars, workerVars, mine, arg, pos, answer>>

\* A mutant of AwaitValue: what a future failed with is not looked at.
AwaitAnything(i) ==
  /\ pc[i] = "await"
  /\ state[Awaited(i)] # "unset"
  /\ pos' = [pos EXCEPT ![i] = @ + 1]
  /\ IF pos[i] + 1 < Len(arg[i])
     THEN UNCHANGED <<pc, answer>>
     ELSE Goto(i, "run") /\ answer' = [answer EXCEPT ![i] = "value"]
  /\ UNCHANGED <<taskVars, slotVars, workerVars, mine, arg>>

\* Ready with a value: gather goes on with the next future.
AwaitValue(i) ==
  /\ pc[i] = "await"
  /\ state[Awaited(i)] = "value"
  /\ pos' = [pos EXCEPT ![i] = @ + 1]
  /\ IF pos[i] + 1 < Len(arg[i])
     THEN UNCHANGED <<pc, answer>>
     ELSE Goto(i, "run") /\ answer' = [answer EXCEPT ![i] = "value"]
  /\ UNCHANGED <<taskVars, slotVars, workerVars, mine, arg>>

\* Ready with an error: IOError, and gather asks no other future.
AwaitError(i) ==
  /\ pc[i] = "await"
  /\ state[Awaited(i)] = "error"
  /\ answer' = [answer EXCEPT ![i] = "error"]
  /\ Goto(i, "run")
  /\ UNCHANGED <<taskVars, slotVars, workerVars, mine, arg, pos>>

Sleepers(n) == {i \in Interp : pc[i] = "asleep" /\ Awaited(i) = n}

\* A wakeup nobody asked for, as a condition variable may have.
SpuriousWakeup(i) ==
  /\ pc[i] = "asleep"
  /\ Goto(i, "await")
  /\ UNCHANGED <<taskVars, slotVars, workerVars, mine, arg, pos, answer>>

----------------------------------------------------------------------------
(* The end of a worker's closure *)

\* A mutant of Fill: an exception is stored as a value.
FillValue(w, end) == state' = [state EXCEPT ![job[w]] = "value"]

\* What fills the slot of a future's worker, and the wakeup of its waiters.
Fill(w, end) == state' = [state EXCEPT ![job[w]] =
                            IF end = "returned" THEN "value" ELSE "error"]
NotifyAll(n) == pc' = [i \in Interp |->
                         IF i \in Sleepers(n) THEN "await" ELSE pc[i]]

\* A worker that panics leaves the slot as it is.
Fills(w, end) == kind[job[w]] = "future" /\ end # "panicked"

\* A mutant of WorkerEnds: one waiter is notified.
WorkerEndsNotifyOne(w, end) ==
  /\ Running(w)
  /\ life' = [life EXCEPT ![w] = end]
  /\ IF Fills(w, end)
     THEN /\ Fill(w, end)
          /\ IF Sleepers(job[w]) = {} THEN UNCHANGED pc
             ELSE \E i \in Sleepers(job[w]) : Goto(i, "await")
     ELSE UNCHANGED <<state, pc>>
  /\ UNCHANGED <<taskVars, started, handle, finished, job, known, mine, arg,
                 pos, answer>>

\* A mutant of WorkerEnds: an exception is not told to those who wait.
WorkerRaisesSilently(w, end) ==
  /\ Running(w)
  /\ life' = [life EXCEPT ![w] = end]
  /\ IF Fills(w, end) /\ end = "returned"
     THEN Fill(w, end) /\ NotifyAll(job[w])
     ELSE UNCHANGED <<state, pc>>
  /\ UNCHANGED <<taskVars, started, handle, finished, job, known, mine, arg,
                 pos, answer>>

\* The closure returns or raises; a future's worker then fills the slot and
\* notifies every waiter.
WorkerEnds(w, end) ==
  /\ Running(w)
  /\ life' = [life EXCEPT ![w] = end]
  /\ IF Fills(w, end)
     THEN Fill(w, end) /\ NotifyAll(job[w])
     ELSE UNCHANGED <<state, pc>>
  /\ UNCHANGED <<taskVars, started, handle, finished, job, known, mine, arg,
                 pos, answer>>

----------------------------------------------------------------------------

\* The tasks an await (one) or gather (two, one per field of its tuple) asks.
Requests == {<<n>> : n \in Task} \cup (Task \X Task)

Step(i) ==
  \/ \E w \in Worker : StartSpawn(i, w)
  \/ StartRefused(i) \/ StartStore(i) \/ StartFlag(i) \/ JoinReturns(i)
  \/ AwaitSleeps(i) \/ AwaitValue(i) \/ AwaitError(i)

Next ==
  \/ \E i \in Interp, n \in Task :
       \/ ThreadNew(i, n)
       \/ \E w \in Worker : FutureSpawn(i, n, w)
       \/ FutureRefused(i, n)
       \/ StartCheck(i, n)
       \/ Join(i, n)
  \/ \E i \in Interp : \/ \E s \in Requests : Await(i, s)
                       \/ Step(i)
                       \/ SpuriousWakeup(i)
  \/ \E w \in Worker, end \in Ends : WorkerEnds(w, end)

Spec == Init /\ [][Next]_vars

\* A running interpreter is scheduled, and a closure that is not kept waiting
\* comes to an end sooner or later, one way or the other.
Fairness ==
  /\ \A i \in Interp : WF_vars(Step(i))
  /\ \A w \in Worker : SF_vars(\E end \in Ends : WorkerEnds(w, end))

FairSpec == Spec /\ Fairness

----------------------------------------------------------------------------

\* The state's shape, and what each place of a call needs of its arguments.
TypeOK ==
  /\ kind \in [Task -> Kinds]
  /\ creator \in [Task -> Interp]
  /\ caps \in [Task -> SUBSET Task]
  /\ state \in [Task -> {"unset", "value", "error"}]
  /\ started \in [Task -> BOOLEAN]
  /\ handle \in [Task -> Interp]
  /\ finished \in [Task -> BOOLEAN]
  /\ job \in [Worker -> Task \cup {0}]
  /\ life \in [Interp -> {"unborn", "running"} \cup Ends]
  /\ known \in [Interp -> SUBSET Task]
  /\ pc \in [Interp -> Places]
  /\ mine \in [Interp -> Interp]
  /\ arg \in [Interp -> Requests \cup {<<>>}]
  /\ pos \in [Interp -> 0 .. 2]
  /\ answer \in [Interp -> {"none", "value", "error"}]
  /\ \A i \in Interp :
       /\ pc[i] # "run" => arg[i] # <<>> /\ life[i] = "running"
       /\ pc[i] \in {"await", "asleep"} => pos[i] < Len(arg[i])

\* Nobody sleeps on a future that is ready.
SleepersWait ==
  \A i \in Interp : pc[i] = "asleep" => state[Awaited(i)] = "unset"

\* A future is ready exactly when its worker has come to its end: what await
\* returns is final.
ReadyIsEnded ==
  \A w \in Worker :
    job[w] # 0 /\ kind[job[w]] = "future" =>
      /\ state[job[w]] = "value" <=> life[w] = "returned"
      /\ state[job[w]] = "error" <=> life[w] = "raised"

\* A gather that returns has a value from every future it asked, and one that
\* raises was stopped by the first of them, in order, that failed.
GatherInOrder ==
  \A i \in Interp :
    answer[i] # "none" =>
      /\ \A k \in 1 .. pos[i] : state[arg[i][k]] = "value"
      /\ answer[i] = "error" => state[arg[i][pos[i] + 1]] = "error"

\* A Thread's closure runs once, and join() returns after that run.
RunsOnce ==
  \A v, w \in Worker : job[v] = job[w] /\ job[v] # 0 => v = w

JoinedIsEnded ==
  \A w \in Worker : job[w] # 0 /\ finished[job[w]] => life[w] \in Ends

\* Tasks that know of each other only through captures never wait in a
\* circle: every await, gather and join comes to an end unless a worker
\* panicked, which leaves its future unset for ever.
WaitsEnd ==
  \A i \in Interp :
    (pc[i] \in {"await", "asleep", "join"}) ~>
      (pc[i] = "run" \/ \E w \in Worker : life[w] = "panicked")

=============================================================================
