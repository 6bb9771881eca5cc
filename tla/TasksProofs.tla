---------------------------- MODULE TasksProofs ----------------------------
(***************************************************************************)
(* Proofs about threads and futures (module Tasks), for any number of      *)
(* tasks and workers.                                                      *)
(***************************************************************************)
EXTENDS Tasks, TLAPS

USE MaxTasksAssumption, MaxWorkersAssumption, OwnersStartAssumption

\* A request names one or two tasks.
LEMMA RequestShape ==
  ASSUME NEW s \in Requests
  PROVE  /\ Len(s) \in {1, 2} /\ s # <<>>
         /\ s[1] \in Task
         /\ \A k \in 1 .. Len(s) : s[k] \in Task
<1>1. CASE \E n \in Task : s = <<n>>
  BY <1>1
<1>2. CASE \E m, n \in Task : s = <<m, n>>
  BY <1>2
<1> QED BY <1>1, <1>2 DEF Requests

\* The next future's place in a request.
LEMMA NextPlace ==
  ASSUME NEW p \in 0 .. 2, NEW len \in {1, 2}, p < len
  PROVE  p + 1 \in 0 .. 2
  OBVIOUS

\* A thread's start and join name one task.
LEMMA OneRequest == \A n \in Task : <<n>> \in Requests
  BY DEF Requests

\* Every step keeps the state's shape; in particular a thread never leaves a
\* start, join or await except through its end.
THEOREM TypeCorrect == Spec => []TypeOK
<1> USE DEF taskVars, slotVars, workerVars, callVars
<1>1. Init => TypeOK
  BY DEF Init, TypeOK, Kinds, Places, Ends, Task, Worker, Interp, Main, NoWorker
<1>2. TypeOK /\ [Next]_vars => TypeOK'
  <2> SUFFICES ASSUME TypeOK, [Next]_vars PROVE TypeOK'
    OBVIOUS
  <2>0. Worker \subseteq Interp /\ NoWorker \in Interp /\ Main \in Interp
    BY DEF Worker, Interp, NoWorker, Main
  <2> USE <2>0, RequestShape, OneRequest DEF TypeOK, Goto
  <2>1. CASE UNCHANGED vars
    BY <2>1 DEF vars
  <2>2. ASSUME NEW i \in Interp, NEW n \in Task, ThreadNew(i, n) PROVE TypeOK'
    BY <2>2 DEF ThreadNew, Create, Kinds
  <2>3. ASSUME NEW i \in Interp, NEW n \in Task, NEW w \in Worker,
               FutureSpawn(i, n, w)
        PROVE  TypeOK'
    <3>1. /\ kind' \in [Task -> Kinds] /\ creator' \in [Task -> Interp]
          /\ caps' \in [Task -> SUBSET Task]
      BY <2>3 DEF FutureSpawn, Create, Kinds
    <3>2. known' \in [Interp -> SUBSET Task]
      BY <2>3, <3>1 DEF FutureSpawn
    <3>3. /\ job' \in [Worker -> Task \cup {0}]
          /\ life' \in [Interp -> {"unborn", "running"} \cup Ends]
          /\ \A j \in Interp : pc[j] # "run" => life'[j] = "running"
      BY <2>3 DEF FutureSpawn, Spawn
    <3> QED BY <2>3, <3>1, <3>2, <3>3 DEF FutureSpawn
  <2>4. ASSUME NEW i \in Interp, NEW n \in Task, FutureRefused(i, n)
        PROVE  TypeOK'
    BY <2>4 DEF FutureRefused, Create, Kinds
  <2>5. ASSUME NEW i \in Interp, NEW n \in Task, StartCheck(i, n)
        PROVE  TypeOK'
    BY <2>5 DEF StartCheck, Call, Running, Places
  <2>6. ASSUME NEW i \in Interp, NEW n \in Task, Join(i, n) PROVE TypeOK'
    BY <2>6 DEF Join, Call, Running, Places
  <2>7. ASSUME NEW i \in Interp, NEW s \in Requests, Await(i, s)
        PROVE  TypeOK'
    BY <2>7 DEF Await, Call, Running, Places
  <2>8. ASSUME NEW i \in Interp, NEW w \in Worker, StartSpawn(i, w)
        PROVE  TypeOK'
    <3>1. arg[i][1] \in Task
      BY <2>8 DEF StartSpawn
    <3> QED BY <2>8, <3>1 DEF StartSpawn, Spawn, Places
  <2>9. ASSUME NEW i \in Interp, StartRefused(i) PROVE TypeOK'
    BY <2>9 DEF StartRefused, Places
  <2>10. ASSUME NEW i \in Interp, StartStore(i) PROVE TypeOK'
    BY <2>10 DEF StartStore, Places
  <2>11. ASSUME NEW i \in Interp, StartFlag(i) PROVE TypeOK'
    BY <2>11 DEF StartFlag, Places
  <2>12. ASSUME NEW i \in Interp, JoinReturns(i) PROVE TypeOK'
    <3>1. finished' \in [Task -> BOOLEAN]
      BY <2>12 DEF JoinReturns
    <3> QED BY <2>12, <3>1 DEF JoinReturns, Places
  <2>13. ASSUME NEW i \in Interp, AwaitSleeps(i) PROVE TypeOK'
    BY <2>13 DEF AwaitSleeps, Places
  <2>14. ASSUME NEW i \in Interp, AwaitValue(i) PROVE TypeOK'
    <3>0. /\ arg[i] \in Requests /\ pos[i] < Len(arg[i])
          /\ pos[i] \in 0 .. 2
      BY <2>14 DEF AwaitValue
    <3>1. pos' \in [Interp -> 0 .. 2]
      <4>1. Len(arg[i]) \in {1, 2}
        BY <3>0
      <4>2. pos[i] + 1 \in 0 .. 2
        BY <3>0, <4>1, NextPlace
      <4> QED BY <2>14, <4>2 DEF AwaitValue
    <3>2. CASE pos[i] + 1 < Len(arg[i])
      BY <2>14, <3>1, <3>2 DEF AwaitValue
    <3>3. CASE ~(pos[i] + 1 < Len(arg[i]))
      <4>1. pc' \in [Interp -> Places]
        BY <2>14, <3>3 DEF AwaitValue, Places
      <4>2. answer' \in [Interp -> {"none", "value", "error"}]
        BY <2>14, <3>3 DEF AwaitValue
      <4>3. \A j \in Interp : pc'[j] \in {pc[j], "run"} /\ pos'[j] \in {pos[j], pos[j] + 1}
        BY <2>14, <3>3 DEF AwaitValue
      <4> QED BY <2>14, <3>1, <3>3, <4>1, <4>2, <4>3 DEF AwaitValue
    <3> QED BY <3>2, <3>3
  <2>15. ASSUME NEW i \in Interp, AwaitError(i) PROVE TypeOK'
    BY <2>15 DEF AwaitError, Places
  <2>16. ASSUME NEW i \in Interp, SpuriousWakeup(i) PROVE TypeOK'
    BY <2>16 DEF SpuriousWakeup, Places
  <2>17. ASSUME NEW w \in Worker, NEW end \in Ends, WorkerEnds(w, end)
         PROVE  TypeOK'
    <3>1. /\ life' \in [Interp -> {"unborn", "running"} \cup Ends]
          /\ \A j \in Interp : pc[j] # "run" => life'[j] = "running"
      BY <2>17 DEF WorkerEnds, Running
    <3>2. CASE Fills(w, end)
      <4>1. state' \in [Task -> {"unset", "value", "error"}]
        BY <2>17, <3>2 DEF WorkerEnds, Fill
      <4>2. /\ pc' \in [Interp -> Places]
            /\ \A j \in Interp : \/ pc'[j] = pc[j]
                                 \/ pc[j] = "asleep" /\ pc'[j] = "await"
        BY <2>17, <3>2 DEF WorkerEnds, NotifyAll, Sleepers, Places
      <4> QED BY <2>17, <3>1, <4>1, <4>2 DEF WorkerEnds
    <3>3. CASE ~Fills(w, end)
      BY <2>17, <3>1, <3>3 DEF WorkerEnds
    <3> QED BY <3>2, <3>3
  <2> QED
    BY <2>1, <2>2, <2>3, <2>4, <2>5, <2>6, <2>7, <2>8, <2>9, <2>10, <2>11,
       <2>12, <2>13, <2>14, <2>15, <2>16, <2>17 DEF Next, Step
<1> QED BY <1>1, <1>2, PTL DEF Spec

----------------------------------------------------------------------------
(* One run of each closure *)

\* A worker's job is a task that was created, and an unborn worker has none.
JobsExist ==
  \A w \in Worker : /\ life[w] = "unborn" => job[w] = 0
                    /\ job[w] # 0 => kind[job[w]] # "none"

\* A start is of the interpreter's own Thread, whose flag is not set.
StartsAreOwn ==
  \A i \in Interp :
    pc[i] \in {"start", "store", "flag"} =>
      /\ creator[arg[i][1]] = i /\ ~started[arg[i][1]]
      /\ kind[arg[i][1]] = "thread"

\* Before its spawn a Thread has no worker.
SpawnIsFirst ==
  \A i \in Interp, w \in Worker : pc[i] = "start" => job[w] # arg[i][1]

\* A Thread with a worker has its flag set, or is being started still.
WorkerIsKnown ==
  \A w \in Worker :
    job[w] # 0 /\ kind[job[w]] = "thread" =>
      \/ started[job[w]]
      \/ /\ pc[creator[job[w]]] \in {"store", "flag"}
         /\ arg[creator[job[w]]][1] = job[w]

\* A JoinHandle is that of the Thread's worker, in its slot and in a start or
\* join.
HandlesMatch ==
  /\ \A n \in Task : handle[n] # NoWorker => job[handle[n]] = n
  /\ \A i \in Interp :
       pc[i] \in {"store", "flag", "join"} =>
         mine[i] # NoWorker /\ job[mine[i]] = arg[i][1]

\* A Thread that is finished had a worker.
FinishedRan == \A n \in Task : finished[n] => \E w \in Worker : job[w] = n

\* The invariant: the last two are what it is for.
OneRun ==
  /\ JobsExist /\ StartsAreOwn /\ SpawnIsFirst /\ WorkerIsKnown
  /\ HandlesMatch /\ FinishedRan /\ RunsOnce /\ JoinedIsEnded

\* What the invariant says survives every step, when a Thread is started by
\* the interpreter that created it.
LEMMA OneRunKept ==
  ASSUME OwnersStart, TypeOK, TypeOK', OneRun, [Next]_vars
  PROVE  OneRun'
<1> USE DEF taskVars, slotVars, workerVars, callVars, Goto, Task, Worker,
            NoWorker
<1>a. Worker \subseteq Interp /\ NoWorker \in Interp /\ NoWorker \notin Worker
      /\ Interp = Worker \cup {NoWorker} /\ 0 \notin Task
  BY DEF Interp
<1>b. \A n \in Task : <<n>>[1] = n /\ <<n>> \in Requests
  BY OneRequest
<1>c. /\ kind \in [Task -> Kinds] /\ creator \in [Task -> Interp]
      /\ started \in [Task -> BOOLEAN] /\ handle \in [Task -> Interp]
      /\ finished \in [Task -> BOOLEAN] /\ job \in [Worker -> Task \cup {0}]
      /\ life \in [Interp -> {"unborn", "running"} \cup Ends]
      /\ pc \in [Interp -> Places] /\ mine \in [Interp -> Interp]
      /\ arg \in [Interp -> Requests \cup {<<>>}]
      /\ \A i \in Interp : pc[i] # "run" =>
           arg[i][1] \in Task /\ life[i] = "running"
  BY RequestShape DEF TypeOK
<1> USE <1>a, <1>b, <1>c DEF OneRun
<1>1. CASE UNCHANGED vars
  BY <1>1 DEF vars, JobsExist, StartsAreOwn, SpawnIsFirst, WorkerIsKnown,
              HandlesMatch, FinishedRan, RunsOnce, JoinedIsEnded
<1>2. ASSUME NEW i \in Interp, NEW n \in Task, ThreadNew(i, n) PROVE OneRun'
  <2>1. kind[n] = "none" /\ \A w \in Worker : job[w] # n
    BY <1>2 DEF ThreadNew, Create, NewTask, JobsExist
  <2>2. JobsExist' /\ SpawnIsFirst' /\ RunsOnce' /\ JoinedIsEnded'
        /\ HandlesMatch' /\ FinishedRan'
    BY <1>2, <2>1 DEF ThreadNew, Create, JobsExist, SpawnIsFirst, RunsOnce,
                      JoinedIsEnded, HandlesMatch, FinishedRan
  <2>3. StartsAreOwn' /\ WorkerIsKnown'
    BY <1>2, <2>1 DEF ThreadNew, Create, StartsAreOwn, WorkerIsKnown
  <2> QED BY <2>2, <2>3
<1>3. ASSUME NEW i \in Interp, NEW n \in Task, NEW w \in Worker,
             FutureSpawn(i, n, w)
      PROVE  OneRun'
  <2>1. /\ kind[n] = "none" /\ \A v \in Worker : job[v] # n
        /\ job[w] = 0 /\ life[w] = "unborn"
    BY <1>3 DEF FutureSpawn, Create, Spawn, NewTask, NewWorker, JobsExist
  <2>2. JobsExist' /\ SpawnIsFirst' /\ RunsOnce' /\ StartsAreOwn'
    BY <1>3, <2>1 DEF FutureSpawn, Create, Spawn, JobsExist, SpawnIsFirst,
                      RunsOnce, StartsAreOwn
  <2>3. WorkerIsKnown'
    BY <1>3, <2>1 DEF FutureSpawn, Create, Spawn, WorkerIsKnown
  <2>4. HandlesMatch' /\ FinishedRan'
    BY <1>3, <2>1 DEF FutureSpawn, Create, Spawn, HandlesMatch, FinishedRan
  <2>5. ~finished[n]
    BY <2>1 DEF FinishedRan
  <2>6. JoinedIsEnded'
    BY <1>3, <2>1, <2>5 DEF FutureSpawn, Create, Spawn, JoinedIsEnded
  <2> QED BY <2>2, <2>3, <2>4, <2>6
<1>4. ASSUME NEW i \in Interp, NEW n \in Task, FutureRefused(i, n)
      PROVE  OneRun'
  <2>1. kind[n] = "none" /\ \A w \in Worker : job[w] # n
    BY <1>4 DEF FutureRefused, Create, NewTask, JobsExist
  <2>2. JobsExist' /\ SpawnIsFirst' /\ RunsOnce' /\ JoinedIsEnded'
        /\ HandlesMatch' /\ FinishedRan'
    BY <1>4, <2>1 DEF FutureRefused, Create, JobsExist, SpawnIsFirst,
                      RunsOnce, JoinedIsEnded, HandlesMatch, FinishedRan
  <2>3. StartsAreOwn' /\ WorkerIsKnown'
    BY <1>4, <2>1 DEF FutureRefused, Create, StartsAreOwn, WorkerIsKnown
  <2> QED BY <2>2, <2>3
<1>5. ASSUME NEW i \in Interp, NEW n \in Task, StartCheck(i, n) PROVE OneRun'
  <2>1. /\ pc[i] = "run" /\ kind[n] = "thread" /\ creator[n] = i
        /\ ~started[n]
    BY <1>5 DEF StartCheck, Call, Running
  <2>2. \A w \in Worker : job[w] # n
    BY <2>1 DEF WorkerIsKnown
  <2>3. StartsAreOwn' /\ SpawnIsFirst' /\ WorkerIsKnown'
    BY <1>5, <2>1, <2>2 DEF StartCheck, Call, StartsAreOwn, SpawnIsFirst,
                            WorkerIsKnown
  <2>4. JobsExist' /\ RunsOnce' /\ JoinedIsEnded' /\ HandlesMatch'
        /\ FinishedRan'
    BY <1>5 DEF StartCheck, Call, JobsExist, RunsOnce, JoinedIsEnded,
                HandlesMatch, FinishedRan
  <2> QED BY <2>3, <2>4
<1>6. ASSUME NEW i \in Interp, NEW n \in Task, Join(i, n) PROVE OneRun'
  <2>1. pc[i] = "run" /\ handle[n] # NoWorker /\ job[handle[n]] = n
    BY <1>6 DEF Join, Call, Running, HandlesMatch
  <2>2. HandlesMatch'
    BY <1>6, <2>1 DEF Join, Call, HandlesMatch
  <2>3. StartsAreOwn' /\ SpawnIsFirst' /\ WorkerIsKnown'
    BY <1>6, <2>1 DEF Join, Call, StartsAreOwn, SpawnIsFirst, WorkerIsKnown
  <2>4. JobsExist' /\ RunsOnce' /\ JoinedIsEnded' /\ FinishedRan'
    BY <1>6 DEF Join, Call, JobsExist, RunsOnce, JoinedIsEnded, FinishedRan
  <2> QED BY <2>2, <2>3, <2>4
<1>7. ASSUME NEW i \in Interp, NEW s \in Requests, Await(i, s) PROVE OneRun'
  <2>1. pc[i] = "run"
    BY <1>7 DEF Await, Call, Running
  <2>2. StartsAreOwn' /\ SpawnIsFirst' /\ WorkerIsKnown' /\ HandlesMatch'
    BY <1>7, <2>1 DEF Await, Call, StartsAreOwn, SpawnIsFirst,
                      WorkerIsKnown, HandlesMatch
  <2>3. JobsExist' /\ RunsOnce' /\ JoinedIsEnded' /\ FinishedRan'
    BY <1>7 DEF Await, Call, JobsExist, RunsOnce, JoinedIsEnded, FinishedRan
  <2> QED BY <2>2, <2>3
<1>8. ASSUME NEW i \in Interp, NEW w \in Worker, StartSpawn(i, w)
      PROVE  OneRun'
  <2> DEFINE n == arg[i][1]
  <2>1. /\ pc[i] = "start" /\ n \in Task
        /\ life[w] = "unborn" /\ job[w] = 0
        /\ creator[n] = i /\ ~started[n] /\ kind[n] = "thread"
        /\ \A v \in Worker : job[v] # n
    BY <1>8 DEF StartSpawn, Spawn, NewWorker, JobsExist, StartsAreOwn,
                SpawnIsFirst
  <2>2. /\ job' = [job EXCEPT ![w] = n] /\ life' = [life EXCEPT ![w] = "running"]
        /\ mine' = [mine EXCEPT ![i] = w] /\ pc' = [pc EXCEPT ![i] = "store"]
        /\ UNCHANGED <<kind, creator, started, handle, finished, arg>>
    BY <1>8 DEF StartSpawn, Spawn
  <2> HIDE DEF n
  <2>3. JobsExist' /\ RunsOnce'
    BY <2>1, <2>2 DEF JobsExist, RunsOnce, Kinds
  <2>4. StartsAreOwn'
    BY <2>1, <2>2 DEF StartsAreOwn
  <2>5. SpawnIsFirst'
    <3> SUFFICES ASSUME NEW j \in Interp, NEW v \in Worker, pc'[j] = "start"
                 PROVE  job'[v] # arg'[j][1]
      BY DEF SpawnIsFirst
    <3>1. j # i /\ pc[j] = "start"
      BY <2>1, <2>2
    <3>2. arg[j][1] # n
      BY <2>1, <3>1 DEF StartsAreOwn
    <3> QED BY <2>2, <3>1, <3>2 DEF SpawnIsFirst
  <2>6. WorkerIsKnown'
    BY <2>1, <2>2 DEF WorkerIsKnown, n
  <2>7. HandlesMatch' /\ FinishedRan'
    <3>1. \A v \in Worker : job[v] # 0 => job'[v] = job[v]
      BY <2>1, <2>2
    <3>2. job'[w] = n
      BY <2>2
    <3>3. \A m \in Task : handle'[m] # NoWorker => job'[handle'[m]] = m
      BY <2>2, <3>1 DEF HandlesMatch
    <3>4. ASSUME NEW j \in Interp, pc'[j] \in {"store", "flag", "join"}
          PROVE  mine'[j] # NoWorker /\ job'[mine'[j]] = arg'[j][1]
      <4>1. CASE j = i
        BY <2>2, <3>2, <4>1 DEF n
      <4>2. CASE j # i
        <5>1. pc[j] = pc'[j] /\ mine'[j] = mine[j] /\ arg'[j] = arg[j]
          BY <2>2, <4>2
        <5>2. mine[j] \in Worker /\ job[mine[j]] = arg[j][1]
              /\ arg[j][1] \in Task
          BY <3>4, <5>1 DEF HandlesMatch
        <5> QED BY <3>1, <5>1, <5>2
      <4> QED BY <4>1, <4>2
    <3>5. HandlesMatch'
      BY <3>3, <3>4 DEF HandlesMatch
    <3>6. FinishedRan'
      BY <2>2, <3>1 DEF FinishedRan
    <3> QED BY <3>5, <3>6
  <2>8. JoinedIsEnded'
    BY <2>1, <2>2 DEF JoinedIsEnded, FinishedRan
  <2> QED BY <2>3, <2>4, <2>5, <2>6, <2>7, <2>8
<1>9. ASSUME NEW i \in Interp, StartRefused(i) PROVE OneRun'
  <2>1. StartsAreOwn' /\ SpawnIsFirst' /\ WorkerIsKnown' /\ HandlesMatch'
    BY <1>9 DEF StartRefused, StartsAreOwn, SpawnIsFirst, WorkerIsKnown,
                HandlesMatch
  <2>2. JobsExist' /\ RunsOnce' /\ JoinedIsEnded' /\ FinishedRan'
    BY <1>9 DEF StartRefused, JobsExist, RunsOnce, JoinedIsEnded, FinishedRan
  <2> QED BY <2>1, <2>2
<1>10. ASSUME NEW i \in Interp, StartStore(i) PROVE OneRun'
  <2>1. StartsAreOwn' /\ SpawnIsFirst' /\ WorkerIsKnown' /\ HandlesMatch'
    BY <1>10 DEF StartStore, StartsAreOwn, SpawnIsFirst, WorkerIsKnown,
                 HandlesMatch
  <2>2. JobsExist' /\ RunsOnce' /\ JoinedIsEnded' /\ FinishedRan'
    BY <1>10 DEF StartStore, JobsExist, RunsOnce, JoinedIsEnded, FinishedRan
  <2> QED BY <2>1, <2>2
<1>11. ASSUME NEW i \in Interp, StartFlag(i) PROVE OneRun'
  <2>1. StartsAreOwn'
    BY <1>11 DEF StartFlag, StartsAreOwn
  <2>2. SpawnIsFirst' /\ WorkerIsKnown' /\ HandlesMatch'
    BY <1>11 DEF StartFlag, SpawnIsFirst, WorkerIsKnown, HandlesMatch
  <2>3. JobsExist' /\ RunsOnce' /\ JoinedIsEnded' /\ FinishedRan'
    BY <1>11 DEF StartFlag, JobsExist, RunsOnce, JoinedIsEnded, FinishedRan
  <2> QED BY <2>1, <2>2, <2>3
<1>12. ASSUME NEW i \in Interp, JoinReturns(i) PROVE OneRun'
  <2> DEFINE n == arg[i][1]
  <2>1. /\ pc[i] = "join" /\ n \in Task
        /\ mine[i] \in Worker /\ job[mine[i]] = n /\ life[mine[i]] \in Ends
    BY <1>12 DEF JoinReturns, HandlesMatch
  <2>2. StartsAreOwn' /\ SpawnIsFirst' /\ WorkerIsKnown' /\ HandlesMatch'
    BY <1>12 DEF JoinReturns, StartsAreOwn, SpawnIsFirst, WorkerIsKnown,
                 HandlesMatch
  <2>3. JobsExist' /\ RunsOnce'
    BY <1>12 DEF JoinReturns, JobsExist, RunsOnce
  <2>4. \A m \in Task : finished'[m] => finished[m] \/ m = n
    BY <1>12 DEF JoinReturns
  <2>5. JoinedIsEnded'
    BY <1>12, <2>1, <2>4 DEF JoinReturns, JoinedIsEnded, RunsOnce
  <2>6. FinishedRan'
    BY <1>12, <2>1, <2>4 DEF JoinReturns, FinishedRan
  <2> QED BY <2>2, <2>3, <2>5, <2>6
<1>13. ASSUME NEW i \in Interp,
              \/ AwaitSleeps(i) \/ AwaitValue(i) \/ AwaitError(i)
              \/ SpuriousWakeup(i)
       PROVE  OneRun'
  <2>1. /\ UNCHANGED <<kind, creator, started, handle, finished, job, life,
                       mine, arg>>
        /\ pc[i] \in {"await", "asleep"} /\ pc'[i] \in {"await", "asleep", "run"}
        /\ \A j \in Interp : j # i => pc'[j] = pc[j]
    BY <1>13 DEF AwaitSleeps, AwaitValue, AwaitError, SpuriousWakeup
  <2>2. \A j \in Interp :
          /\ pc'[j] \in {"start", "store", "flag", "join"} => pc[j] = pc'[j]
          /\ pc[j] \in {"start", "store", "flag", "join"} => pc[j] = pc'[j]
    BY <2>1
  <2>4. StartsAreOwn' /\ SpawnIsFirst'
    BY <2>1, <2>2 DEF StartsAreOwn, SpawnIsFirst
  <2>5. WorkerIsKnown'
    BY <2>1, <2>2 DEF WorkerIsKnown
  <2>6. HandlesMatch'
    BY <2>1, <2>2 DEF HandlesMatch
  <2>3. JobsExist' /\ RunsOnce' /\ JoinedIsEnded' /\ FinishedRan'
    BY <2>1 DEF JobsExist, RunsOnce, JoinedIsEnded, FinishedRan
  <2> QED BY <2>3, <2>4, <2>5, <2>6
<1>14. ASSUME NEW w \in Worker, NEW end \in Ends, WorkerEnds(w, end)
       PROVE  OneRun'
  <2>1. /\ UNCHANGED <<kind, creator, started, handle, finished, job, mine,
                       arg>>
        /\ life' = [life EXCEPT ![w] = end] /\ life[w] = "running"
    BY <1>14 DEF WorkerEnds, Running
  <2>2. \A j \in Interp :
          /\ pc'[j] \in {"start", "store", "flag", "join"} => pc[j] = pc'[j]
          /\ pc[j] \in {"start", "store", "flag", "join"} => pc[j] = pc'[j]
    <3>1. CASE Fills(w, end)
      BY <1>14, <3>1 DEF WorkerEnds, NotifyAll, Sleepers
    <3>2. CASE ~Fills(w, end)
      BY <1>14, <3>2 DEF WorkerEnds
    <3> QED BY <3>1, <3>2
  <2>3. StartsAreOwn' /\ SpawnIsFirst'
    BY <2>1, <2>2 DEF StartsAreOwn, SpawnIsFirst
  <2>5. WorkerIsKnown'
    BY <2>1, <2>2 DEF WorkerIsKnown
  <2>6. HandlesMatch'
    BY <2>1, <2>2 DEF HandlesMatch
  <2>4. JobsExist' /\ RunsOnce' /\ JoinedIsEnded' /\ FinishedRan'
    BY <2>1 DEF JobsExist, RunsOnce, JoinedIsEnded, FinishedRan, Ends
  <2> QED BY <2>3, <2>4, <2>5, <2>6
<1> QED
  BY <1>1, <1>2, <1>3, <1>4, <1>5, <1>6, <1>7, <1>8, <1>9, <1>10, <1>11,
     <1>12, <1>13, <1>14 DEF Next, Step

LEMMA OneRunHolds == ASSUME OwnersStart PROVE Spec => []OneRun
<1>1. Init => OneRun
  BY DEF Init, OneRun, JobsExist, StartsAreOwn, SpawnIsFirst, WorkerIsKnown,
         HandlesMatch, FinishedRan, RunsOnce, JoinedIsEnded, Task, Worker,
         Interp, NoWorker, Main
<1>2. OneRun /\ TypeOK /\ TypeOK' /\ [Next]_vars => OneRun'
  BY OneRunKept
<1> QED BY <1>1, <1>2, TypeCorrect, PTL DEF Spec

\* If the program starts each Thread from the interpreter that created it,
\* no closure runs twice: the flag that Thread.start reads and sets without
\* a lock is then enough.
THEOREM RunsOnceSafe == ASSUME OwnersStart PROVE Spec => []RunsOnce
<1>1. OneRun => RunsOnce
  BY DEF OneRun
<1>2. Spec => []OneRun
  BY OneRunHolds
<1> QED BY <1>1, <1>2, PTL

\* Under the same assumption a Thread is finished only when its one worker
\* has come to its end.
THEOREM JoinedIsEndedSafe == ASSUME OwnersStart PROVE Spec => []JoinedIsEnded
<1>1. OneRun => JoinedIsEnded
  BY DEF OneRun
<1>2. Spec => []OneRun
  BY OneRunHolds
<1> QED BY <1>1, <1>2, PTL

----------------------------------------------------------------------------
(* No lost wakeup *)

\* Whoever sleeps on a future is woken by the step that fills it: nobody goes
\* to sleep after the look at the state that would have told of it.
THEOREM SleepersWaitSafe == Spec => []SleepersWait
<1> USE DEF taskVars, slotVars, workerVars, callVars, Goto, Awaited
<1>1. Init => SleepersWait
  BY DEF Init, SleepersWait
<1>2. SleepersWait /\ TypeOK /\ [Next]_vars => SleepersWait'
  <2> SUFFICES ASSUME SleepersWait, TypeOK, [Next]_vars,
                      NEW j \in Interp, pc'[j] = "asleep"
               PROVE  state'[arg'[j][pos'[j] + 1]] = "unset"
    BY DEF SleepersWait
  <2> USE DEF SleepersWait
  <2>1. CASE UNCHANGED vars
    BY <2>1 DEF vars
  <2>2. ASSUME NEW i \in Interp, NEW n \in Task,
               \/ ThreadNew(i, n) \/ FutureRefused(i, n)
               \/ \E w \in Worker : FutureSpawn(i, n, w)
        PROVE  state'[arg'[j][pos'[j] + 1]] = "unset"
    BY <2>2 DEF ThreadNew, FutureRefused, FutureSpawn
  <2>3. ASSUME NEW i \in Interp, NEW s, NEW place \in {"start", "join", "await"},
               Call(i, place, s), state' = state
        PROVE  state'[arg'[j][pos'[j] + 1]] = "unset"
    BY <2>3 DEF Call, TypeOK
  <2>4. ASSUME NEW i \in Interp, NEW n \in Task,
               StartCheck(i, n) \/ Join(i, n)
        PROVE  state'[arg'[j][pos'[j] + 1]] = "unset"
    BY <2>3, <2>4 DEF StartCheck, Join
  <2>5. ASSUME NEW i \in Interp, NEW s \in Requests, Await(i, s)
        PROVE  state'[arg'[j][pos'[j] + 1]] = "unset"
    BY <2>3, <2>5 DEF Await
  <2>6. ASSUME NEW i \in Interp,
               \/ \E w \in Worker : StartSpawn(i, w)
               \/ StartRefused(i) \/ StartStore(i) \/ StartFlag(i)
               \/ JoinReturns(i)
        PROVE  state'[arg'[j][pos'[j] + 1]] = "unset"
    BY <2>6 DEF StartSpawn, StartRefused, StartStore, StartFlag, JoinReturns,
                TypeOK
  <2>7. ASSUME NEW i \in Interp,
               \/ AwaitSleeps(i) \/ AwaitValue(i) \/ AwaitError(i)
               \/ SpuriousWakeup(i)
        PROVE  state'[arg'[j][pos'[j] + 1]] = "unset"
    BY <2>7 DEF AwaitSleeps, AwaitValue, AwaitError, SpuriousWakeup, TypeOK
  <2>8. ASSUME NEW w \in Worker, NEW end \in Ends, WorkerEnds(w, end)
        PROVE  state'[arg'[j][pos'[j] + 1]] = "unset"
    <3>1. arg' = arg /\ pos' = pos
      BY <2>8 DEF WorkerEnds
    <3>2. CASE Fills(w, end)
      <4>1. /\ pc'[j] = IF j \in Sleepers(job[w]) THEN "await" ELSE pc[j]
            /\ state' = [state EXCEPT ![job[w]] =
                            IF end = "returned" THEN "value" ELSE "error"]
        BY <2>8, <3>2 DEF WorkerEnds, NotifyAll, Fill
      <4>2. pc[j] = "asleep" /\ j \notin Sleepers(job[w])
        BY <4>1
      <4>3. arg[j][pos[j] + 1] # job[w]
        BY <4>2 DEF Sleepers
      <4>4. state[arg[j][pos[j] + 1]] = "unset"
        BY <4>2
      <4>5. arg[j][pos[j] + 1] \in Task
        <5>1. arg[j] \in Requests /\ pos[j] \in 0 .. 2 /\ pos[j] < Len(arg[j])
          BY <4>2 DEF TypeOK
        <5>2. pos[j] + 1 \in 1 .. Len(arg[j])
          BY <5>1, RequestShape
        <5> QED BY <5>1, <5>2, RequestShape
      <4> QED BY <3>1, <4>1, <4>3, <4>4, <4>5 DEF TypeOK
    <3>3. CASE ~Fills(w, end)
      BY <2>8, <3>1, <3>3 DEF WorkerEnds
    <3> QED BY <3>2, <3>3
  <2> QED
    BY <2>1, <2>2, <2>4, <2>5, <2>6, <2>7, <2>8 DEF Next, Step
<1> QED BY <1>1, <1>2, TypeCorrect, PTL DEF Spec

----------------------------------------------------------------------------
(* What a future says is final *)

\* A start is of a Thread, whoever began it.
StartsAreThreads ==
  \A i \in Interp : pc[i] = "start" => kind[arg[i][1]] = "thread"

\* A future has at most one worker, and one that is ready has one.
FuturesRunOnce ==
  \A v, w \in Worker :
    job[v] = job[w] /\ job[v] # 0 /\ kind[job[v]] = "future" => v = w
ReadyHasRun ==
  \A n \in Task : state[n] # "unset" => \E w \in Worker : job[w] = n

FutureInv ==
  JobsExist /\ StartsAreThreads /\ FuturesRunOnce /\ ReadyHasRun /\ ReadyIsEnded

\* No step takes back what a future says, and every step keeps the invariant.
LEMMA FutureInvKept ==
  ASSUME TypeOK, TypeOK', FutureInv, [Next]_vars
  PROVE  /\ FutureInv'
         /\ \A n \in Task : state[n] # "unset" => state'[n] = state[n]
<1> USE DEF taskVars, slotVars, workerVars, callVars, Goto, Task, Worker,
            NoWorker
<1>a. Worker \subseteq Interp /\ 0 \notin Task
  BY DEF Interp
<1>b. \A n \in Task : <<n>>[1] = n /\ <<n>> \in Requests
  BY OneRequest
<1>c. /\ kind \in [Task -> Kinds] /\ job \in [Worker -> Task \cup {0}]
      /\ state \in [Task -> {"unset", "value", "error"}]
      /\ life \in [Interp -> {"unborn", "running"} \cup Ends]
      /\ pc \in [Interp -> Places]
      /\ arg \in [Interp -> Requests \cup {<<>>}]
      /\ \A i \in Interp : pc[i] # "run" =>
           arg[i][1] \in Task /\ life[i] = "running"
  BY RequestShape DEF TypeOK
<1> DEFINE Final == \A n \in Task : state[n] # "unset" => state'[n] = state[n]
<1> SUFFICES FutureInv' /\ Final
  OBVIOUS
<1> USE <1>a, <1>b, <1>c DEF FutureInv
\* A step that creates a task, none of whose workers or answers exist yet.
<1>1. ASSUME NEW i \in Interp, NEW n \in Task, Create(i, n, "thread") \/ Create(i, n, "future")
      PROVE  /\ kind[n] = "none" /\ \A w \in Worker : job[w] # n
             /\ state[n] = "unset"
             /\ \A j \in Interp : pc[j] = "start" => arg[j][1] # n
             /\ \A m \in Task : m # n => kind'[m] = kind[m]
  <2>1. kind[n] = "none" /\ \A m \in Task : m # n => kind'[m] = kind[m]
    BY <1>1 DEF Create, NewTask
  <2>2. \A w \in Worker : job[w] # n
    BY <2>1 DEF JobsExist
  <2> QED BY <2>1, <2>2 DEF ReadyHasRun, StartsAreThreads
<1>2. ASSUME NEW i \in Interp, NEW n \in Task, ThreadNew(i, n) \/ FutureRefused(i, n)
      PROVE  FutureInv' /\ Final
  <2>1. UNCHANGED <<state, job, life, pc, arg>>
        /\ (Create(i, n, "thread") \/ Create(i, n, "future"))
        /\ kind'[n] # "none"
    BY <1>2 DEF ThreadNew, FutureRefused, Create
  <2>2. \A w \in Worker : job[w] # 0 => kind'[job[w]] = kind[job[w]]
    BY <2>1, <1>1
  <2>3. JobsExist' /\ FuturesRunOnce' /\ ReadyHasRun' /\ ReadyIsEnded'
    BY <2>1, <2>2 DEF JobsExist, FuturesRunOnce, ReadyHasRun, ReadyIsEnded
  <2>4. StartsAreThreads'
    BY <2>1, <1>1 DEF StartsAreThreads
  <2> QED BY <2>1, <2>3, <2>4
<1>3. ASSUME NEW i \in Interp, NEW n \in Task, NEW w \in Worker,
             FutureSpawn(i, n, w)
      PROVE  FutureInv' /\ Final
  <2>1. /\ UNCHANGED <<state, pc, arg>> /\ Create(i, n, "future")
        /\ job' = [job EXCEPT ![w] = n]
        /\ life' = [life EXCEPT ![w] = "running"] /\ life[w] = "unborn"
        /\ kind'[n] = "future" /\ job[w] = 0
    BY <1>3 DEF FutureSpawn, Create, Spawn, NewWorker, JobsExist
  <2>2. \A v \in Worker : v # w /\ job[v] # 0 => kind'[job[v]] = kind[job[v]]
    BY <2>1, <1>1
  <2>3. JobsExist' /\ FuturesRunOnce' /\ ReadyHasRun'
    BY <2>1, <2>2, <1>1 DEF JobsExist, FuturesRunOnce, ReadyHasRun
  <2>4. ReadyIsEnded'
    BY <2>1, <2>2, <1>1 DEF ReadyIsEnded, Ends
  <2>5. ASSUME NEW j \in Interp, pc'[j] = "start" PROVE kind'[arg'[j][1]] = "thread"
    <3>1. pc[j] = "start" /\ arg'[j] = arg[j]
      BY <2>1, <2>5
    <3>2. arg[j][1] # n /\ kind[arg[j][1]] = "thread"
      BY <2>1, <1>1, <3>1 DEF StartsAreThreads
    <3>3. arg[j][1] \in Task
      BY <3>1
    <3>4. kind'[arg[j][1]] = kind[arg[j][1]]
      BY <2>1, <1>1, <3>2, <3>3
    <3> QED BY <3>1, <3>2, <3>4
  <2> QED BY <2>1, <2>3, <2>4, <2>5 DEF StartsAreThreads
<1>4. ASSUME NEW i \in Interp, NEW w \in Worker, StartSpawn(i, w)
      PROVE  FutureInv' /\ Final
  <2> DEFINE n == arg[i][1]
  <2>1. /\ UNCHANGED <<state, kind, arg>> /\ pc' = [pc EXCEPT ![i] = "store"]
        /\ job' = [job EXCEPT ![w] = n]
        /\ life' = [life EXCEPT ![w] = "running"] /\ life[w] = "unborn"
        /\ kind[n] = "thread" /\ job[w] = 0 /\ n \in Task
    BY <1>4 DEF StartSpawn, Spawn, NewWorker, JobsExist, StartsAreThreads
  <2> HIDE DEF n
  <2>2. JobsExist' /\ FuturesRunOnce' /\ ReadyIsEnded'
    BY <2>1 DEF JobsExist, FuturesRunOnce, ReadyIsEnded
  <2>3. ReadyHasRun'
    BY <2>1 DEF ReadyHasRun
  <2>4. StartsAreThreads'
    BY <2>1 DEF StartsAreThreads
  <2> QED BY <2>1, <2>2, <2>3, <2>4
<1>5. ASSUME UNCHANGED <<state, kind, job, life>>, StartsAreThreads'
      PROVE  FutureInv' /\ Final
  BY <1>5 DEF JobsExist, FuturesRunOnce, ReadyHasRun, ReadyIsEnded
<1>6. ASSUME NEW i \in Interp, NEW n \in Task, StartCheck(i, n) \/ Join(i, n)
      PROVE  FutureInv' /\ Final
  <2>1. UNCHANGED <<state, kind, job, life>> /\ StartsAreThreads'
    BY <1>6 DEF StartCheck, Join, Call, StartsAreThreads
  <2> QED BY <2>1, <1>5
<1>7. ASSUME NEW i \in Interp, NEW s \in Requests, Await(i, s)
      PROVE  FutureInv' /\ Final
  <2>1. UNCHANGED <<state, kind, job, life>> /\ StartsAreThreads'
    BY <1>7 DEF Await, Call, StartsAreThreads
  <2> QED BY <2>1, <1>5
<1>8. ASSUME NEW i \in Interp,
             \/ StartRefused(i) \/ StartStore(i) \/ StartFlag(i)
             \/ JoinReturns(i)
      PROVE  FutureInv' /\ Final
  <2>1. UNCHANGED <<state, kind, job, life>> /\ StartsAreThreads'
    BY <1>8 DEF StartRefused, StartStore, StartFlag, JoinReturns,
                StartsAreThreads
  <2> QED BY <2>1, <1>5
<1>9. ASSUME NEW i \in Interp,
             \/ AwaitSleeps(i) \/ AwaitValue(i) \/ AwaitError(i)
             \/ SpuriousWakeup(i)
      PROVE  FutureInv' /\ Final
  <2>1. UNCHANGED <<state, kind, job, life>> /\ StartsAreThreads'
    BY <1>9 DEF AwaitSleeps, AwaitValue, AwaitError, SpuriousWakeup,
                StartsAreThreads
  <2> QED BY <2>1, <1>5
<1>10. ASSUME NEW w \in Worker, NEW end \in Ends, WorkerEnds(w, end)
       PROVE  FutureInv' /\ Final
  <2>1. /\ UNCHANGED <<kind, job, arg>> /\ life[w] = "running"
        /\ life' = [life EXCEPT ![w] = end]
    BY <1>10 DEF WorkerEnds, Running
  <2>2. JobsExist' /\ FuturesRunOnce'
    BY <2>1 DEF JobsExist, FuturesRunOnce, Ends
  <2>3. CASE Fills(w, end)
    <3>1. /\ state' = [state EXCEPT ![job[w]] =
                          IF end = "returned" THEN "value" ELSE "error"]
          /\ \A j \in Interp : pc'[j] = "start" => pc[j] = "start"
      BY <1>10, <2>3 DEF WorkerEnds, Fill, NotifyAll
    <3>2. kind[job[w]] = "future" /\ end \in {"returned", "raised"}
      BY <2>3 DEF Fills, Ends
    <3> DEFINE n == job[w]
    <3>3. CASE n = 0
      <4>1. state' = state
        BY <3>1, <3>3
      <4>2. ReadyHasRun' /\ ReadyIsEnded'
        BY <2>1, <3>3, <4>1 DEF ReadyHasRun, ReadyIsEnded
      <4> QED BY <2>1, <2>2, <3>1, <4>1, <4>2 DEF StartsAreThreads
    <3>4. CASE n # 0
      <4>1. n \in Task /\ state[n] = "unset"
        <5>1. n \in Task
          BY <3>4
        <5>2. state[n] # "value" /\ state[n] # "error"
          BY <2>1, <3>2, <3>4 DEF ReadyIsEnded
        <5> QED BY <5>1, <5>2
      <4>2. \A v \in Worker : job[v] = n => v = w
        BY <3>2, <3>4 DEF FuturesRunOnce
      <4>3. /\ state'[n] = IF end = "returned" THEN "value" ELSE "error"
            /\ \A m \in Task : m # n => state'[m] = state[m]
        BY <3>1, <4>1
      <4>4. ReadyHasRun' /\ Final /\ StartsAreThreads'
        BY <2>1, <3>1, <4>1, <4>3 DEF ReadyHasRun, StartsAreThreads
      <4>5. ReadyIsEnded'
        <5> SUFFICES ASSUME NEW v \in Worker, job[v] # 0,
                            kind[job[v]] = "future"
                     PROVE  /\ state'[job[v]] = "value" <=> life'[v] = "returned"
                            /\ state'[job[v]] = "error" <=> life'[v] = "raised"
          BY <2>1 DEF ReadyIsEnded
        <5>1. CASE v = w
          BY <5>1, <2>1, <3>2, <4>3
        <5>2. CASE v # w
          BY <5>2, <2>1, <4>2, <4>3 DEF ReadyIsEnded
        <5> QED BY <5>1, <5>2
      <4> QED BY <2>2, <4>4, <4>5
    <3> QED BY <3>3, <3>4
  <2>4. CASE ~Fills(w, end)
    <3>1. state' = state /\ pc' = pc
      BY <1>10, <2>4 DEF WorkerEnds
    <3>2. job[w] # 0 => kind[job[w]] # "future" \/ end = "panicked"
      BY <2>4 DEF Fills
    <3>3. ReadyIsEnded'
      BY <2>1, <3>1, <3>2 DEF ReadyIsEnded, Ends
    <3> QED BY <2>1, <2>2, <3>1, <3>3 DEF ReadyHasRun, StartsAreThreads
  <2> QED BY <2>3, <2>4
<1>11. CASE UNCHANGED vars
  BY <1>11 DEF vars, JobsExist, StartsAreThreads, FuturesRunOnce, ReadyHasRun,
               ReadyIsEnded
<1> QED
  BY <1>2, <1>3, <1>4, <1>6, <1>7, <1>8, <1>9, <1>10, <1>11 DEF Next, Step

\* A future is ready exactly when its one worker has returned or raised, and
\* stays as it is.
THEOREM ReadyIsEndedSafe == Spec => []ReadyIsEnded
<1>1. Init => FutureInv
  BY DEF Init, FutureInv, JobsExist, StartsAreThreads, FuturesRunOnce,
         ReadyHasRun, ReadyIsEnded, Task, Worker, Interp
<1>2. FutureInv /\ TypeOK /\ TypeOK' /\ [Next]_vars => FutureInv'
  BY FutureInvKept
<1>3. FutureInv => ReadyIsEnded
  BY DEF FutureInv
<1> QED BY <1>1, <1>2, <1>3, TypeCorrect, PTL DEF Spec

----------------------------------------------------------------------------
(* Gather *)

\* An answer is there only after the call, which named a future for every
\* place; a call that is under way has passed over values only.
AnswersFit ==
  \A i \in Interp : answer[i] # "none" =>
    /\ pc[i] = "run" /\ arg[i] # <<>> /\ pos[i] <= Len(arg[i])
    /\ answer[i] = "error" => pos[i] < Len(arg[i])
PassedValues ==
  \A i \in Interp : pc[i] \in {"await", "asleep"} =>
    \A k \in 1 .. pos[i] : state[arg[i][k]] = "value"

GatherInv == AnswersFit /\ PassedValues /\ GatherInOrder

\* A gather that is under way, and one that answered, stay right as long as no
\* future takes back what it says.
LEMMA GatherInvKept ==
  ASSUME TypeOK, TypeOK', GatherInv, [Next]_vars,
         \A n \in Task : state[n] # "unset" => state'[n] = state[n]
  PROVE  GatherInv'
<1> USE DEF taskVars, slotVars, workerVars, callVars, Goto, Awaited
<1>a. /\ pc \in [Interp -> Places] /\ pos \in [Interp -> 0 .. 2]
      /\ arg \in [Interp -> Requests \cup {<<>>}]
      /\ answer \in [Interp -> {"none", "value", "error"}]
      /\ \A i \in Interp : pc[i] # "run" => arg[i] # <<>>
      /\ \A i \in Interp : pc[i] \in {"await", "asleep"} => pos[i] < Len(arg[i])
  BY DEF TypeOK
<1>b. ASSUME NEW s \in Requests \cup {<<>>}, s # <<>>
      PROVE  Len(s) \in {1, 2} /\ \A k \in 1 .. Len(s) : s[k] \in Task
  BY <1>b, RequestShape
<1> DEFINE Seen(i) == \A k \in 1 .. pos[i] : state[arg[i][k]] = "value"
           Right(i) == /\ answer[i] # "none" =>
                            /\ pc[i] = "run" /\ arg[i] # <<>>
                            /\ pos[i] <= Len(arg[i])
                            /\ answer[i] = "error" => pos[i] < Len(arg[i])
                            /\ Seen(i)
                            /\ answer[i] = "error" =>
                                 state[arg[i][pos[i] + 1]] = "error"
                       /\ pc[i] \in {"await", "asleep"} => Seen(i)
<1>c. \A i \in Interp : Right(i)
  BY DEF GatherInv, AnswersFit, PassedValues, GatherInOrder
<1> SUFFICES ASSUME NEW j \in Interp PROVE Right(j)'
  BY DEF GatherInv, AnswersFit, PassedValues, GatherInOrder
<1> USE <1>a
\* What has been seen is seen still.
<1>d. ASSUME arg[j] # <<>>, pos[j] <= Len(arg[j]), arg'[j] = arg[j],
             pos'[j] = pos[j]
      PROVE  /\ Seen(j) => Seen(j)'
             /\ pos[j] < Len(arg[j]) /\ state[arg[j][pos[j] + 1]] = "error" =>
                  state'[arg'[j][pos'[j] + 1]] = "error"
  <2>1. Len(arg[j]) \in {1, 2} /\ \A k \in 1 .. Len(arg[j]) : arg[j][k] \in Task
    BY <1>b, <1>d
  <2>2. \A k \in 1 .. pos[j] : k \in 1 .. Len(arg[j])
    BY <2>1, <1>d
  <2>3. pos[j] < Len(arg[j]) => pos[j] + 1 \in 1 .. Len(arg[j])
    BY <2>1, <1>d
  <2> QED BY <2>1, <2>2, <2>3, <1>d
\* A step that leaves j's call alone, or only sends it to sleep or wakes it.
<1>1. ASSUME arg'[j] = arg[j], pos'[j] = pos[j], answer'[j] = answer[j],
             \/ pc'[j] = pc[j]
             \/ pc[j] \in {"await", "asleep"} /\ pc'[j] \in {"await", "asleep"}
      PROVE  Right(j)'
  <2>1. CASE answer[j] = "none" /\ pc[j] \notin {"await", "asleep"}
    BY <1>1, <2>1
  <2>2. CASE answer[j] # "none"
    <3>1. /\ pc[j] = "run" /\ arg[j] # <<>> /\ pos[j] <= Len(arg[j]) /\ Seen(j)
          /\ answer[j] = "error" => /\ pos[j] < Len(arg[j])
                                    /\ state[arg[j][pos[j] + 1]] = "error"
      BY <1>c, <2>2
    <3>2. pc'[j] = "run"
      BY <1>1, <3>1
    <3> QED BY <1>1, <1>d, <3>1, <3>2
  <2>3. CASE pc[j] \in {"await", "asleep"}
    <3>1. /\ answer[j] = "none" /\ arg[j] # <<>> /\ pos[j] < Len(arg[j])
          /\ Seen(j)
      BY <1>c, <2>3
    <3>2. pos[j] <= Len(arg[j])
      BY <3>1, <1>b
    <3> QED BY <1>1, <1>d, <3>1, <3>2
  <2> QED BY <2>1, <2>2, <2>3
\* A step of j's own that leaves a call without an answer.
<1>2. ASSUME answer'[j] = "none", pc'[j] \notin {"await", "asleep"}
      PROVE  Right(j)'
  BY <1>2
<1>3. ASSUME NEW i \in Interp, NEW s, NEW place \in {"start", "join", "await"},
             Call(i, place, s)
      PROVE  Right(j)'
  <2>1. CASE i = j
    <3>1. answer'[j] = "none" /\ pos'[j] = 0
      BY <1>3, <2>1 DEF Call
    <3> QED BY <3>1
  <2>2. CASE i # j
    BY <1>1, <1>3, <2>2 DEF Call
  <2> QED BY <2>1, <2>2
<1>4. ASSUME NEW i \in Interp, NEW n \in Task,
             \/ ThreadNew(i, n) \/ FutureRefused(i, n)
             \/ \E w \in Worker : FutureSpawn(i, n, w)
      PROVE  Right(j)'
  BY <1>1, <1>4 DEF ThreadNew, FutureRefused, FutureSpawn
<1>5. ASSUME NEW i \in Interp, NEW n \in Task, StartCheck(i, n) \/ Join(i, n)
      PROVE  Right(j)'
  BY <1>3, <1>5 DEF StartCheck, Join
<1>6. ASSUME NEW i \in Interp, NEW s \in Requests, Await(i, s)
      PROVE  Right(j)'
  BY <1>3, <1>6 DEF Await
<1>7. ASSUME NEW i \in Interp,
             \/ \E w \in Worker : StartSpawn(i, w)
             \/ StartRefused(i) \/ StartStore(i) \/ StartFlag(i)
             \/ JoinReturns(i)
      PROVE  Right(j)'
  <2>1. /\ pc[i] \in {"start", "store", "flag", "join"}
        /\ pc'[i] \in {"store", "flag", "run"} /\ answer' = answer
        /\ i # j => pc'[j] = pc[j] /\ arg'[j] = arg[j] /\ pos'[j] = pos[j]
    BY <1>7 DEF StartSpawn, StartRefused, StartStore, StartFlag, JoinReturns
  <2>2. answer[i] = "none"
    BY <1>c, <2>1
  <2> QED BY <1>1, <1>2, <2>1, <2>2
<1>8. ASSUME NEW i \in Interp, AwaitSleeps(i) \/ SpuriousWakeup(i)
      PROVE  Right(j)'
  BY <1>1, <1>8 DEF AwaitSleeps, SpuriousWakeup
<1>9. ASSUME NEW i \in Interp, AwaitValue(i) PROVE Right(j)'
  <2>1. CASE i # j
    BY <1>1, <1>9, <2>1 DEF AwaitValue
  <2>2. CASE i = j
    <3>1. /\ pc[j] = "await" /\ arg[j] # <<>> /\ pos[j] < Len(arg[j])
          /\ Seen(j) /\ answer[j] = "none"
          /\ arg'[j] = arg[j] /\ pos'[j] = pos[j] + 1 /\ state' = state
          /\ state[arg[j][pos[j] + 1]] = "value"
      BY <1>9, <2>2, <1>c DEF AwaitValue
    <3>2. Len(arg[j]) \in {1, 2} /\ pos'[j] <= Len(arg[j])
      BY <3>1, <1>b
    <3>3. Seen(j)'
      <4>1. \A k \in 1 .. pos'[j] : k \in 1 .. pos[j] \/ k = pos[j] + 1
        BY <3>1
      <4> QED BY <3>1, <4>1
    <3>4. \/ answer'[j] = "none"
          \/ answer'[j] = "value" /\ pc'[j] = "run"
      BY <1>9, <2>2, <3>1 DEF AwaitValue
    <3> QED BY <3>1, <3>2, <3>3, <3>4
  <2> QED BY <2>1, <2>2
<1>10. ASSUME NEW i \in Interp, AwaitError(i) PROVE Right(j)'
  <2>1. CASE i # j
    BY <1>1, <1>10, <2>1 DEF AwaitError
  <2>2. CASE i = j
    <3>1. /\ pc[j] = "await" /\ arg[j] # <<>> /\ pos[j] < Len(arg[j])
          /\ Seen(j) /\ arg'[j] = arg[j] /\ pos'[j] = pos[j]
          /\ state[arg[j][pos[j] + 1]] = "error"
          /\ answer'[j] = "error" /\ pc'[j] = "run"
      BY <1>10, <2>2, <1>c DEF AwaitError
    <3>2. pos[j] <= Len(arg[j])
      BY <3>1, <1>b
    <3> QED BY <1>d, <3>1, <3>2
  <2> QED BY <2>1, <2>2
<1>11. ASSUME NEW w \in Worker, NEW end \in Ends, WorkerEnds(w, end)
       PROVE  Right(j)'
  <2>1. arg' = arg /\ pos' = pos /\ answer' = answer
    BY <1>11 DEF WorkerEnds
  <2>2. \/ pc'[j] = pc[j]
        \/ pc[j] = "asleep" /\ pc'[j] = "await"
    <3>1. CASE Fills(w, end)
      BY <1>11, <3>1 DEF WorkerEnds, NotifyAll, Sleepers
    <3>2. CASE ~Fills(w, end)
      BY <1>11, <3>2 DEF WorkerEnds
    <3> QED BY <3>1, <3>2
  <2> QED BY <1>1, <2>1, <2>2
<1>12. CASE UNCHANGED vars
  BY <1>1, <1>12 DEF vars
<1> QED
  BY <1>4, <1>5, <1>6, <1>7, <1>8, <1>9, <1>10, <1>11, <1>12 DEF Next, Step

\* A gather answers with values from all of its futures, or with the first
\* error in their order, and what it found is still so at any later time.
THEOREM GatherInOrderSafe == Spec => []GatherInOrder
<1>1. Init => FutureInv /\ GatherInv
  BY DEF Init, FutureInv, JobsExist, StartsAreThreads, FuturesRunOnce,
         ReadyHasRun, ReadyIsEnded, GatherInv, AnswersFit, PassedValues,
         GatherInOrder, Task, Worker, Interp
<1>2. FutureInv /\ GatherInv /\ TypeOK /\ TypeOK' /\ [Next]_vars =>
        FutureInv' /\ GatherInv'
  BY FutureInvKept, GatherInvKept
<1>3. GatherInv => GatherInOrder
  BY DEF GatherInv
<1> QED BY <1>1, <1>2, <1>3, TypeCorrect, PTL DEF Spec

=============================================================================
