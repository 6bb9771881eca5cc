-------------------------------- MODULE Sync --------------------------------
(***************************************************************************)
(* The locks and semaphores of module threading (vm/src/builtins.rs, over  *)
(* LockSlot and SemaphoreSlot of vm/src/interp.rs).                        *)
(*                                                                         *)
(* A slot is a value behind a mutex and a condition variable.  The mutex   *)
(* is never held across a call, so what a native does between locking it   *)
(* and waiting, or unlocking it, is one step.  Waiting on the condition    *)
(* variable unlocks the mutex in the same step; a wakeup may also be       *)
(* spurious.  lock_release unlocks the mutex before it notifies;           *)
(* semaphore_release notifies first.                                       *)
(*                                                                         *)
(* The handle of a lock or a semaphore is a number any thread can use:     *)
(* nothing keeps a thread from releasing what another one acquired.        *)
(* Natives that find an unknown handle, a lock that is not held            *)
(* (lock_release) or nothing to acquire (the try_ natives) change nothing. *)
(***************************************************************************)
EXTENDS Integers, FiniteSets

CONSTANTS
  Thread,          \* interpreters
  NoThread,        \* an empty Option<ThreadId>
  Lock,            \* handles of locks
  Sem,             \* handles of semaphores
  InitialPermits,  \* the arguments the program passes to semaphore_new
  MaxI32           \* the largest i32

ASSUME ThreadAssumption == IsFiniteSet(Thread) /\ NoThread \notin Thread
ASSUME HandleAssumption == Lock \cap Sem = {}
ASSUME MaxI32Assumption == MaxI32 \in Nat \ {0}

I32 == -MaxI32 - 1 .. MaxI32

ASSUME PermitsAssumption == InitialPermits \subseteq I32

VARIABLES
  owner,    \* owner[l]: LockSlot.owner
  permits,  \* permits[s]: SemaphoreSlot.permits
  pc,       \* where each thread is in a lock or semaphore native
  at        \* the handle it was called with last

vars == <<owner, permits, pc, at>>

LockPlaces == {"lock_check", "lock_wait", "lock_notify"}
SemPlaces == {"sem_check", "sem_wait"}

Init ==
  /\ owner = [l \in Lock |-> NoThread]
  /\ permits \in [Sem -> InitialPermits]
  /\ pc = [t \in Thread |-> "idle"]
  /\ at \in [Thread -> Lock]

Goto(t, place) == pc' = [pc EXCEPT ![t] = place]

\* The threads at a place of a native called with handle h.
In(place, h) == {t \in Thread : pc[t] = place /\ at[t] = h}

\* Condvar::notify_one, from thread t going to "idle": a waiter, any of them,
\* goes back to the top of its loop.
NotifyOne(t, wait, check, h) ==
  IF In(wait, h) = {}
  THEN pc' = [pc EXCEPT ![t] = "idle"]
  ELSE \E w \in In(wait, h) : pc' = [pc EXCEPT ![t] = "idle", ![w] = check]

----------------------------------------------------------------------------
(* lock_acquire, lock_try_acquire, lock_release *)

LockAcquire(t, l) ==
  /\ pc[t] = "idle"
  /\ Goto(t, "lock_check")
  /\ at' = [at EXCEPT ![t] = l]
  /\ UNCHANGED <<owner, permits>>

\* A mutant of LockTake: what was notified is not checked again.
LockTakeUnchecked(t) ==
  /\ pc[t] = "lock_check"
  /\ owner' = [owner EXCEPT ![at[t]] = t]
  /\ Goto(t, "idle")
  /\ UNCHANGED <<permits, at>>

\* The loop finds the lock free...
LockTake(t) ==
  /\ pc[t] = "lock_check"
  /\ owner[at[t]] = NoThread
  /\ owner' = [owner EXCEPT ![at[t]] = t]
  /\ Goto(t, "idle")
  /\ UNCHANGED <<permits, at>>

\* ... or held, perhaps by this very thread.
LockWait(t) ==
  /\ pc[t] = "lock_check"
  /\ owner[at[t]] # NoThread
  /\ Goto(t, "lock_wait")
  /\ UNCHANGED <<owner, permits, at>>

LockTryAcquire(t, l) ==
  /\ pc[t] = "idle"
  /\ owner[l] = NoThread
  /\ owner' = [owner EXCEPT ![l] = t]
  /\ UNCHANGED <<permits, pc, at>>

\* A mutant of LockRelease: the lock is freed and nobody is notified.
LockReleaseSilently(t, l) ==
  /\ pc[t] = "idle"
  /\ owner[l] # NoThread
  /\ owner' = [owner EXCEPT ![l] = NoThread]
  /\ UNCHANGED <<permits, pc, at>>

\* Any thread may release; owner is not compared with the caller.
LockRelease(t, l) ==
  /\ pc[t] = "idle"
  /\ owner[l] # NoThread
  /\ owner' = [owner EXCEPT ![l] = NoThread]
  /\ Goto(t, "lock_notify")
  /\ at' = [at EXCEPT ![t] = l]
  /\ UNCHANGED permits

LockNotify(t) ==
  /\ pc[t] = "lock_notify"
  /\ NotifyOne(t, "lock_wait", "lock_check", at[t])
  /\ UNCHANGED <<owner, permits, at>>

----------------------------------------------------------------------------
(* semaphore_acquire, semaphore_try_acquire, semaphore_release *)

SemAcquire(t, s) ==
  /\ pc[t] = "idle"
  /\ Goto(t, "sem_check")
  /\ at' = [at EXCEPT ![t] = s]
  /\ UNCHANGED <<owner, permits>>

SemTake(t) ==
  /\ pc[t] = "sem_check"
  /\ permits[at[t]] > 0
  /\ permits' = [permits EXCEPT ![at[t]] = @ - 1]
  /\ Goto(t, "idle")
  /\ UNCHANGED <<owner, at>>

\* A mutant of SemWait: the test is for zero, and a permit is missed.
SemWaitAtOne(t) ==
  /\ pc[t] = "sem_check"
  /\ permits[at[t]] <= 1
  /\ Goto(t, "sem_wait")
  /\ UNCHANGED <<owner, permits, at>>

SemWait(t) ==
  /\ pc[t] = "sem_check"
  /\ permits[at[t]] <= 0
  /\ Goto(t, "sem_wait")
  /\ UNCHANGED <<owner, permits, at>>

SemTryAcquire(t, s) ==
  /\ pc[t] = "idle"
  /\ permits[s] > 0
  /\ permits' = [permits EXCEPT ![s] = @ - 1]
  /\ UNCHANGED <<owner, pc, at>>

\* A mutant of SemRelease: only the release that makes the count positive
\* notifies.
SemReleaseAtZero(t, s) ==
  /\ pc[t] = "idle"
  /\ permits' = [permits EXCEPT ![s] =
                   IF @ = MaxI32 THEN -MaxI32 - 1 ELSE @ + 1]
  /\ IF permits[s] = 0 THEN NotifyOne(t, "sem_wait", "sem_check", s)
                       ELSE UNCHANGED pc
  /\ UNCHANGED <<owner, at>>

\* A mutant of SemRelease: the count is a wider integer than its type.
SemReleaseWide(t, s) ==
  /\ pc[t] = "idle"
  /\ permits' = [permits EXCEPT ![s] = IF @ > MaxI32 THEN @ ELSE @ + 1]
  /\ NotifyOne(t, "sem_wait", "sem_check", s)
  /\ UNCHANGED <<owner, at>>

\* The addition is an i32's, which wraps in a release build, and the count
\* has no other limit than that.
SemRelease(t, s) ==
  /\ pc[t] = "idle"
  /\ permits' = [permits EXCEPT ![s] =
                   IF @ = MaxI32 THEN -MaxI32 - 1 ELSE @ + 1]
  /\ NotifyOne(t, "sem_wait", "sem_check", s)
  /\ UNCHANGED <<owner, at>>

----------------------------------------------------------------------------

SpuriousWakeup(t) ==
  /\ \/ pc[t] = "lock_wait" /\ Goto(t, "lock_check")
     \/ pc[t] = "sem_wait" /\ Goto(t, "sem_check")
  /\ UNCHANGED <<owner, permits, at>>

\* What a thread does by itself inside a native.
Step(t) ==
  \/ LockTake(t) \/ LockWait(t) \/ LockNotify(t)
  \/ SemTake(t) \/ SemWait(t)

Next == \E t \in Thread :
  \/ \E l \in Lock : LockAcquire(t, l) \/ LockTryAcquire(t, l)
                       \/ LockRelease(t, l)
  \/ \E s \in Sem : SemAcquire(t, s) \/ SemTryAcquire(t, s)
                      \/ SemRelease(t, s)
  \/ Step(t)
  \/ SpuriousWakeup(t)

Spec == Init /\ [][Next]_vars

\* A thread that runs is scheduled.  Nobody has to call or release anything,
\* and a waiter is woken by a notify alone.
FairSpec == Spec /\ \A t \in Thread : WF_vars(Step(t))

----------------------------------------------------------------------------

\* The state's shape: a thread inside a native has a handle of that kind.
TypeOK ==
  /\ owner \in [Lock -> Thread \cup {NoThread}]
  /\ permits \in [Sem -> I32]
  /\ pc \in [Thread -> {"idle"} \cup LockPlaces \cup SemPlaces]
  /\ at \in [Thread -> Lock \cup Sem]
  /\ \A t \in Thread : /\ pc[t] \in LockPlaces => at[t] \in Lock
                       /\ pc[t] \in SemPlaces => at[t] \in Sem

\* No wakeup is lost between a release and its notify, or between a check and
\* the wait: while threads sleep on a free lock, one is awake that will take
\* it, or is about to wake a sleeper.
LockWakeup ==
  \A l \in Lock :
    owner[l] = NoThread /\ In("lock_wait", l) # {} =>
      In("lock_check", l) \cup In("lock_notify", l) # {}

\* A burst of releases wakes as many waiters as it brings permits: while
\* threads sleep on a semaphore, every permit it has is about to be taken by
\* a thread that is awake.
SemWakeups ==
  \A s \in Sem :
    In("sem_wait", s) # {} => Cardinality(In("sem_check", s)) >= permits[s]

\* A lock changes hands only through being free, and a permit is only taken
\* from a semaphore that has one, however many threads were woken for it.
NoStealing ==
  [][/\ \A l \in Lock : owner[l] # NoThread =>
                          owner'[l] \in {owner[l], NoThread}
     /\ \A s \in Sem : permits'[s] = permits[s] - 1 => permits[s] > 0]_vars

\* Nobody sleeps for ever on a lock that stays free or on a semaphore that
\* keeps a permit.
NobodyForgotten ==
  \A t \in Thread :
    /\ \A l \in Lock : ~ <>[](t \in In("lock_wait", l) /\ owner[l] = NoThread)
    /\ \A s \in Sem : ~ <>[](t \in In("sem_wait", s) /\ permits[s] > 0)

=============================================================================
