----------------------------- MODULE SyncProofs -----------------------------
(***************************************************************************)
(* Proofs about locks and semaphores (module Sync), for any finite set of  *)
(* threads, any locks and semaphores and any width of the permit count.    *)
(***************************************************************************)
EXTENDS Sync, FiniteSetTheorems, TLAPS

USE ThreadAssumption, HandleAssumption, MaxI32Assumption, PermitsAssumption

\* The initial handles are locks.
LEMMA InitTyped == Init => TypeOK
  BY DEF Init, TypeOK, LockPlaces, SemPlaces, I32

\* A notify changes the places of the notifying thread and of one waiter, if
\* there is one; it is then back at its check.
LEMMA NotifyEffect ==
  ASSUME TypeOK, NEW t \in Thread, pc[t] \in {"idle", "lock_notify"},
         NEW h \in Lock \cup Sem, NEW wait, NEW check,
         \/ h \in Lock /\ wait = "lock_wait" /\ check = "lock_check"
         \/ h \in Sem /\ wait = "sem_wait" /\ check = "sem_check",
         NotifyOne(t, wait, check, h)
  PROVE  /\ pc' \in [Thread -> {"idle"} \cup LockPlaces \cup SemPlaces]
         /\ pc'[t] = "idle"
         /\ \/ /\ In(wait, h) = {}
               /\ \A u \in Thread \ {t} : pc'[u] = pc[u]
            \/ \E w \in In(wait, h) :
                 /\ w # t
                 /\ pc'[w] = check
                 /\ \A u \in Thread \ {t, w} : pc'[u] = pc[u]
<1>1. CASE In(wait, h) = {}
  BY <1>1 DEF NotifyOne, TypeOK
<1>2. CASE In(wait, h) # {}
  <2>1. PICK w \in In(wait, h) :
          pc' = [pc EXCEPT ![t] = "idle", ![w] = check]
    BY <1>2 DEF NotifyOne
  <2>2. w \in Thread /\ w # t
    BY <2>1 DEF In
  <2> QED BY <2>1, <2>2 DEF TypeOK, LockPlaces, SemPlaces
<1> QED BY <1>1, <1>2

\* Every step keeps the state's shape: a thread waits on a handle of the kind
\* its native is for, and a permit count is an i32 whatever is released.
THEOREM TypeCorrect == Spec => []TypeOK
<1>1. TypeOK /\ [Next]_vars => TypeOK'
  <2> SUFFICES ASSUME TypeOK, [Next]_vars PROVE TypeOK'
    OBVIOUS
  <2> USE DEF LockPlaces, SemPlaces, Goto
  <2>1. CASE UNCHANGED vars
    BY <2>1 DEF vars, TypeOK
  <2>2. ASSUME NEW t \in Thread, NEW l \in Lock, LockAcquire(t, l)
        PROVE  TypeOK'
    BY <2>2 DEF LockAcquire, TypeOK
  <2>3. ASSUME NEW t \in Thread, NEW l \in Lock, LockTryAcquire(t, l)
        PROVE  TypeOK'
    BY <2>3 DEF LockTryAcquire, TypeOK
  <2>4. ASSUME NEW t \in Thread, NEW l \in Lock, LockRelease(t, l)
        PROVE  TypeOK'
    BY <2>4 DEF LockRelease, TypeOK
  <2>5. ASSUME NEW t \in Thread, NEW s \in Sem, SemAcquire(t, s)
        PROVE  TypeOK'
    BY <2>5 DEF SemAcquire, TypeOK
  <2>6. ASSUME NEW t \in Thread, NEW s \in Sem, SemTryAcquire(t, s)
        PROVE  TypeOK'
    BY <2>6 DEF SemTryAcquire, TypeOK, I32
  <2>7. ASSUME NEW t \in Thread, NEW s \in Sem, SemRelease(t, s)
        PROVE  TypeOK'
    <3>1. permits' \in [Sem -> I32]
      BY <2>7 DEF SemRelease, TypeOK, I32
    <3>2. /\ pc' \in [Thread -> {"idle"} \cup LockPlaces \cup SemPlaces]
          /\ pc'[t] = "idle"
          /\ \/ \A u \in Thread \ {t} : pc'[u] = pc[u]
             \/ \E w \in In("sem_wait", s) :
                  /\ pc'[w] = "sem_check"
                  /\ \A u \in Thread \ {t, w} : pc'[u] = pc[u]
      BY <2>7, NotifyEffect DEF SemRelease
    <3> QED BY <2>7, <3>1, <3>2 DEF SemRelease, TypeOK, In
  <2>8. ASSUME NEW t \in Thread, LockTake(t) PROVE TypeOK'
    BY <2>8 DEF LockTake, TypeOK
  <2>9. ASSUME NEW t \in Thread, LockWait(t) PROVE TypeOK'
    BY <2>9 DEF LockWait, TypeOK
  <2>10. ASSUME NEW t \in Thread, LockNotify(t) PROVE TypeOK'
    <3>1. at[t] \in Lock
      BY <2>10 DEF LockNotify, TypeOK
    <3>2. /\ pc' \in [Thread -> {"idle"} \cup LockPlaces \cup SemPlaces]
          /\ pc'[t] = "idle"
          /\ \/ \A u \in Thread \ {t} : pc'[u] = pc[u]
             \/ \E w \in In("lock_wait", at[t]) :
                  /\ pc'[w] = "lock_check"
                  /\ \A u \in Thread \ {t, w} : pc'[u] = pc[u]
      BY <2>10, <3>1, NotifyEffect DEF LockNotify
    <3> QED BY <2>10, <3>2 DEF LockNotify, TypeOK, In
  <2>11. ASSUME NEW t \in Thread, SemTake(t) PROVE TypeOK'
    <3>1. at[t] \in Sem
      BY <2>11 DEF SemTake, TypeOK
    <3>2. permits' \in [Sem -> I32]
      BY <2>11, <3>1 DEF SemTake, TypeOK, I32
    <3> QED BY <2>11, <3>2 DEF SemTake, TypeOK
  <2>12. ASSUME NEW t \in Thread, SemWait(t) PROVE TypeOK'
    BY <2>12 DEF SemWait, TypeOK
  <2>13. ASSUME NEW t \in Thread, SpuriousWakeup(t) PROVE TypeOK'
    BY <2>13 DEF SpuriousWakeup, TypeOK
  <2> QED
    BY <2>1, <2>2, <2>3, <2>4, <2>5, <2>6, <2>7, <2>8, <2>9, <2>10, <2>11,
       <2>12, <2>13 DEF Next, Step
<1> QED BY <1>1, InitTyped, PTL DEF Spec

\* While threads sleep on a free lock, another is awake for it.  The claim is
\* inductive: the step that frees the lock leaves its thread at the notify,
\* the notify leaves a waiter at its check, and the check either takes the
\* lock or finds it held.
THEOREM LockWakeupSafe == Spec => []LockWakeup
<1>1. Init => LockWakeup
  BY DEF Init, LockWakeup, In
<1>2. TypeOK /\ LockWakeup /\ [Next]_vars => LockWakeup'
  <2> SUFFICES ASSUME TypeOK, LockWakeup, [Next]_vars,
                      NEW l \in Lock, owner'[l] = NoThread,
                      NEW w \in Thread, pc'[w] = "lock_wait", at'[w] = l
               PROVE  \E u \in Thread :
                        pc'[u] \in {"lock_check", "lock_notify"} /\ at'[u] = l
    BY DEF LockWakeup, In
  <2> DEFINE Awake == \E u \in Thread :
        pc'[u] \in {"lock_check", "lock_notify"} /\ at'[u] = l
  <2>0. owner[l] = NoThread /\ pc[w] = "lock_wait" /\ at[w] = l =>
          \E u \in Thread :
            pc[u] \in {"lock_check", "lock_notify"} /\ at[u] = l
    BY DEF LockWakeup, In
  <2> USE DEF TypeOK, Goto, LockPlaces, SemPlaces
  <2>1. CASE UNCHANGED vars
    BY <2>0, <2>1 DEF vars
  <2>2. ASSUME NEW t \in Thread, NEW m \in Lock, LockAcquire(t, m)
        PROVE  Awake
    BY <2>0, <2>2 DEF LockAcquire
  <2>3. ASSUME NEW t \in Thread, NEW m \in Lock, LockTryAcquire(t, m)
        PROVE  Awake
    BY <2>0, <2>3 DEF LockTryAcquire
  <2>4. ASSUME NEW t \in Thread, NEW m \in Lock, LockRelease(t, m)
        PROVE  Awake
    BY <2>0, <2>4 DEF LockRelease
  <2>5. ASSUME NEW t \in Thread, NEW s \in Sem, SemAcquire(t, s)
        PROVE  Awake
    BY <2>0, <2>5 DEF SemAcquire
  <2>6. ASSUME NEW t \in Thread, NEW s \in Sem, SemTryAcquire(t, s)
        PROVE  Awake
    BY <2>0, <2>6 DEF SemTryAcquire
  <2>7. ASSUME NEW t \in Thread, NEW s \in Sem, SemRelease(t, s)
        PROVE  Awake
    <3>1. /\ pc'[t] = "idle"
          /\ \/ \A u \in Thread \ {t} : pc'[u] = pc[u]
             \/ \E v \in In("sem_wait", s) :
                  /\ pc'[v] = "sem_check"
                  /\ \A u \in Thread \ {t, v} : pc'[u] = pc[u]
      BY <2>7, NotifyEffect DEF SemRelease
    <3> QED BY <2>0, <2>7, <3>1 DEF SemRelease, In
  <2>8. ASSUME NEW t \in Thread, LockTake(t) PROVE Awake
    BY <2>0, <2>8 DEF LockTake
  <2>9. ASSUME NEW t \in Thread, LockWait(t) PROVE Awake
    BY <2>0, <2>9 DEF LockWait
  <2>10. ASSUME NEW t \in Thread, LockNotify(t) PROVE Awake
    <3>1. at[t] \in Lock
      BY <2>10 DEF LockNotify
    <3>2. /\ pc'[t] = "idle"
          /\ \/ /\ In("lock_wait", at[t]) = {}
                /\ \A u \in Thread \ {t} : pc'[u] = pc[u]
             \/ \E v \in In("lock_wait", at[t]) :
                  /\ pc'[v] = "lock_check"
                  /\ \A u \in Thread \ {t, v} : pc'[u] = pc[u]
      BY <2>10, <3>1, NotifyEffect DEF LockNotify
    <3> QED BY <2>0, <2>10, <3>2 DEF LockNotify, In
  <2>11. ASSUME NEW t \in Thread, SemTake(t) PROVE Awake
    BY <2>0, <2>11 DEF SemTake
  <2>12. ASSUME NEW t \in Thread, SemWait(t) PROVE Awake
    BY <2>0, <2>12 DEF SemWait
  <2>13. ASSUME NEW t \in Thread, SpuriousWakeup(t) PROVE Awake
    BY <2>0, <2>13 DEF SpuriousWakeup
  <2> QED
    BY <2>1, <2>2, <2>3, <2>4, <2>5, <2>6, <2>7, <2>8, <2>9, <2>10, <2>11,
       <2>12, <2>13 DEF Next, Step
<1> QED BY <1>1, <1>2, TypeCorrect, PTL DEF Spec

\* The threads at a place of a native form a finite set.
LEMMA InFinite ==
  ASSUME NEW place, NEW h
  PROVE  IsFiniteSet(In(place, h)) /\ Cardinality(In(place, h)) \in Nat
  BY FS_Subset, FS_CardinalityType DEF In

\* A step that wakes no fewer threads and adds no permit keeps a semaphore's
\* count within the threads awake.
LEMMA CountKept ==
  ASSUME NEW s \in Sem, TypeOK, SemWakeups,
         In("sem_wait", s) # {},
         In("sem_check", s) \subseteq In("sem_check", s)',
         permits'[s] \in Int, permits'[s] <= permits[s]
  PROVE  Cardinality(In("sem_check", s)') >= permits'[s]
<1>1. IsFiniteSet(In("sem_check", s)')
  BY FS_Subset DEF In
<1>2. /\ Cardinality(In("sem_check", s)) \in Nat
      /\ Cardinality(In("sem_check", s)') \in Nat
  BY <1>1, InFinite, FS_CardinalityType
<1>3. Cardinality(In("sem_check", s)) <= Cardinality(In("sem_check", s)')
  BY <1>1, FS_Subset
<1>4. permits[s] \in Int /\ Cardinality(In("sem_check", s)) >= permits[s]
  BY DEF SemWakeups, TypeOK, I32
<1> QED BY <1>2, <1>3, <1>4

\* While threads sleep on a semaphore, as many others are awake for it as it
\* has permits.  A release adds one to both sides when there is a sleeper, a
\* successful check takes one from both, and a thread only falls asleep when
\* the count is not positive.
THEOREM SemWakeupsSafe == Spec => []SemWakeups
<1>1. Init => SemWakeups
  BY DEF Init, SemWakeups, In
<1>2. TypeOK /\ TypeOK' /\ SemWakeups /\ [Next]_vars => SemWakeups'
  <2> SUFFICES ASSUME TypeOK, TypeOK', SemWakeups, [Next]_vars,
                      NEW s \in Sem, In("sem_wait", s)' # {}
               PROVE  Cardinality(In("sem_check", s)') >= permits'[s]
    BY DEF SemWakeups
  <2> DEFINE C == In("sem_check", s)
             W == In("sem_wait", s)
             Goal == Cardinality(C') >= permits'[s]
  <2>a. permits[s] \in Int /\ permits'[s] \in Int /\ s \notin Lock
    BY DEF TypeOK, I32
  <2>b. /\ IsFiniteSet(C) /\ Cardinality(C) \in Nat
        /\ IsFiniteSet(C') /\ Cardinality(C') \in Nat
    <3>1. IsFiniteSet(C')
      BY FS_Subset DEF In
    <3> QED BY <3>1, InFinite, FS_CardinalityType
  <2>c. ASSUME C \subseteq C', W # {}, permits'[s] <= permits[s]
        PROVE  Goal
    BY <2>a, <2>c, CountKept
  <2> HIDE DEF Goal
  <2> USE DEF Goto, LockPlaces, SemPlaces
  <2>1. ASSUME UNCHANGED vars PROVE Goal
    BY <2>1, <2>a, <2>c DEF vars, In
  <2>2. ASSUME NEW t \in Thread, NEW l \in Lock, LockAcquire(t, l)
        PROVE  Goal
    BY <2>2, <2>a, <2>c DEF LockAcquire, In, TypeOK
  <2>3. ASSUME NEW t \in Thread, NEW l \in Lock, LockTryAcquire(t, l)
        PROVE  Goal
    BY <2>3, <2>a, <2>c DEF LockTryAcquire, In, TypeOK
  <2>4. ASSUME NEW t \in Thread, NEW l \in Lock, LockRelease(t, l)
        PROVE  Goal
    BY <2>4, <2>a, <2>c DEF LockRelease, In, TypeOK
  <2>5. ASSUME NEW t \in Thread, NEW r \in Sem, SemAcquire(t, r) PROVE Goal
    BY <2>5, <2>a, <2>c DEF SemAcquire, In, TypeOK
  <2>6. ASSUME NEW t \in Thread, NEW r \in Sem, SemTryAcquire(t, r)
        PROVE  Goal
    <3>1. permits'[s] <= permits[s]
      BY <2>6, <2>a DEF SemTryAcquire, TypeOK, I32
    <3> QED BY <2>6, <3>1, <2>c DEF SemTryAcquire, In, TypeOK
  <2>7. ASSUME NEW t \in Thread, NEW r \in Sem, SemRelease(t, r) PROVE Goal
    <3>1. /\ pc'[t] = "idle"
          /\ \/ /\ In("sem_wait", r) = {}
                /\ \A u \in Thread \ {t} : pc'[u] = pc[u]
             \/ \E v \in In("sem_wait", r) :
                  /\ pc'[v] = "sem_check"
                  /\ \A u \in Thread \ {t, v} : pc'[u] = pc[u]
      BY <2>7, NotifyEffect DEF SemRelease
    <3>2. at' = at /\ pc[t] = "idle"
      BY <2>7 DEF SemRelease
    <3>3. CASE r # s
      <4>1. permits'[s] = permits[s]
        BY <2>7, <3>3 DEF SemRelease, TypeOK
      <4>2. C \subseteq C' /\ W # {}
        BY <3>1, <3>2, <3>3 DEF In
      <4> QED BY <4>1, <4>2, <2>a, <2>c
    <3>4. CASE r = s
      <4>1. PICK v \in W : /\ pc'[t] = "idle" /\ pc'[v] = "sem_check"
                           /\ \A u \in Thread \ {t, v} : pc'[u] = pc[u]
        BY <3>1, <3>2, <3>4 DEF In
      <4>2. C' = C \cup {v} /\ v \notin C
        BY <3>2, <4>1 DEF In
      <4>3. Cardinality(C') = Cardinality(C) + 1
        BY <2>b, <4>2, FS_AddElement
      <4>4. permits'[s] <= permits[s] + 1
        BY <2>7, <3>4, <2>a DEF SemRelease, TypeOK, I32
      <4>5. Cardinality(C) >= permits[s]
        BY <4>1 DEF SemWakeups
      <4> QED BY <4>3, <4>4, <4>5, <2>a, <2>b DEF Goal
    <3> QED BY <3>3, <3>4
  <2>8. ASSUME NEW t \in Thread, LockTake(t) PROVE Goal
    BY <2>8, <2>a, <2>c DEF LockTake, In, TypeOK
  <2>9. ASSUME NEW t \in Thread, LockWait(t) PROVE Goal
    BY <2>9, <2>a, <2>c DEF LockWait, In, TypeOK
  <2>10. ASSUME NEW t \in Thread, LockNotify(t) PROVE Goal
    <3>1. at[t] \in Lock
      BY <2>10 DEF LockNotify, TypeOK
    <3>2. /\ pc'[t] = "idle"
          /\ \/ \A u \in Thread \ {t} : pc'[u] = pc[u]
             \/ \E v \in In("lock_wait", at[t]) :
                  /\ pc'[v] = "lock_check"
                  /\ \A u \in Thread \ {t, v} : pc'[u] = pc[u]
      BY <2>10, <3>1, NotifyEffect DEF LockNotify
    <3>3. C \subseteq C' /\ W # {} /\ permits' = permits
      BY <2>10, <3>2 DEF LockNotify, In
    <3> QED BY <3>3, <2>a, <2>c
  <2>11. ASSUME NEW t \in Thread, SemTake(t) PROVE Goal
    <3>1. CASE at[t] # s
      BY <2>11, <3>1, <2>a, <2>c DEF SemTake, In, TypeOK
    <3>2. CASE at[t] = s
      <4>1. C' = C \ {t} /\ t \in C /\ W # {}
        BY <2>11, <3>2 DEF SemTake, In, TypeOK
      <4>2. Cardinality(C') = Cardinality(C) - 1
        BY <2>b, <4>1, FS_RemoveElement
      <4>3. permits'[s] = permits[s] - 1
        BY <2>11, <3>2 DEF SemTake, TypeOK
      <4>4. Cardinality(C) >= permits[s]
        BY <4>1 DEF SemWakeups
      <4> QED BY <4>2, <4>3, <4>4, <2>a, <2>b DEF Goal
    <3> QED BY <3>1, <3>2
  <2>12. ASSUME NEW t \in Thread, SemWait(t) PROVE Goal
    <3>1. CASE at[t] # s
      BY <2>12, <3>1, <2>a, <2>c DEF SemWait, In, TypeOK
    <3>2. CASE at[t] = s
      <4>1. permits'[s] <= 0
        BY <2>12, <3>2 DEF SemWait
      <4> QED BY <4>1, <2>a, <2>b DEF Goal
    <3> QED BY <3>1, <3>2
  <2>13. ASSUME NEW t \in Thread, SpuriousWakeup(t) PROVE Goal
    BY <2>13, <2>a, <2>c DEF SpuriousWakeup, In, TypeOK
  <2>14. Goal
    BY <2>1, <2>2, <2>3, <2>4, <2>5, <2>6, <2>7, <2>8, <2>9, <2>10, <2>11,
       <2>12, <2>13 DEF Next, Step
  <2> QED BY <2>14 DEF Goal
<1> QED BY <1>1, <1>2, TypeCorrect, PTL DEF Spec

\* A lock that is held is not taken and a permit that is not there is not
\* given, whoever was woken for it.
THEOREM NoStealingSafe == Spec => NoStealing
<1>1. TypeOK /\ [Next]_vars =>
        [/\ \A l \in Lock : owner[l] # NoThread =>
                             owner'[l] \in {owner[l], NoThread}
         /\ \A s \in Sem : permits'[s] = permits[s] - 1 => permits[s] > 0]_vars
  <2> SUFFICES ASSUME TypeOK, [Next]_vars
               PROVE  /\ \A l \in Lock : owner[l] # NoThread =>
                                          owner'[l] \in {owner[l], NoThread}
                      /\ \A s \in Sem : permits'[s] = permits[s] - 1 =>
                                         permits[s] > 0
    OBVIOUS
  <2>1. \/ permits' = permits
        \/ \E s \in Sem : /\ permits[s] > 0
                          /\ permits' = [permits EXCEPT ![s] = @ - 1]
        \/ \E s \in Sem : permits' = [permits EXCEPT ![s] =
                             IF @ = MaxI32 THEN -MaxI32 - 1 ELSE @ + 1]
    BY DEF Next, Step, vars, TypeOK, LockAcquire, LockTryAcquire, LockRelease,
       SemAcquire, SemTryAcquire, SemRelease, LockTake, LockWait, LockNotify,
       SemTake, SemWait, SpuriousWakeup, SemPlaces
  <2>2. \/ owner' = owner
        \/ \E l \in Lock : owner' = [owner EXCEPT ![l] = NoThread]
        \/ \E l \in Lock, t \in Thread :
             owner[l] = NoThread /\ owner' = [owner EXCEPT ![l] = t]
    BY DEF Next, Step, vars, TypeOK, LockAcquire, LockTryAcquire, LockRelease,
       SemAcquire, SemTryAcquire, SemRelease, LockTake, LockWait, LockNotify,
       SemTake, SemWait, SpuriousWakeup, LockPlaces
  <2>3. \A s \in Sem : permits'[s] = permits[s] - 1 => permits[s] > 0
    BY <2>1 DEF TypeOK, I32
  <2>4. \A l \in Lock : owner[l] # NoThread =>
                        owner'[l] \in {owner[l], NoThread}
    BY <2>2 DEF TypeOK
  <2> QED BY <2>3, <2>4
<1> QED BY <1>1, TypeCorrect, PTL DEF Spec, NoStealing

=============================================================================
