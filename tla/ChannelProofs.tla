--------------------------- MODULE ChannelProofs ---------------------------
(***************************************************************************)
(* Proofs about channels (module Channel), for any threads, capacities and *)
(* number of operations.                                                   *)
(***************************************************************************)
EXTENDS Channel, TLAPS

USE NoThreadAssumption, CapacitiesAssumption, MaxCallsAssumption

\* Every step keeps the state's shape, and no step fills the library's queue
\* beyond the capacity the program asked for.
THEOREM TypeCorrect == Spec => []TypeOK
<1>1. Init => TypeOK
  BY DEF Init, TypeOK, Answers, Places, Messages
<1>2. TypeOK /\ [Next]_vars => TypeOK'
  <2> SUFFICES ASSUME TypeOK, [Next]_vars PROVE TypeOK'
    OBVIOUS
  <2> USE DEF TypeOK, Answers, Places
  <2>1. CASE UNCHANGED vars
    BY <2>1 DEF vars
  <2>2. ASSUME NEW t \in Thread, TakeSender(t) PROVE TypeOK'
    BY <2>2 DEF TakeSender, Begin, Messages
  <2>3. ASSUME NEW t \in Thread, SendRefused(t) PROVE TypeOK'
    BY <2>3 DEF SendRefused, Begin, Return
  <2>4. ASSUME NEW t \in Thread, Enqueue(t) PROVE TypeOK'
    <3>1. queue' \in Seq(Messages) /\ Len(queue') = Len(queue) + 1
      BY <2>4 DEF Enqueue
    <3>2. cap' >= 0 => Len(queue') <= cap'
      BY <2>4, <3>1 DEF Enqueue, HasRoom
    <3> QED BY <2>4, <3>1, <3>2 DEF Enqueue
  <2>5. ASSUME NEW t \in Thread, SendReturns(t) PROVE TypeOK'
    BY <2>5 DEF SendReturns, Return
  <2>6. ASSUME NEW t \in Thread, CloneReceiver(t) PROVE TypeOK'
    BY <2>6 DEF CloneReceiver, Begin
  <2>7. ASSUME NEW t \in Thread, LockReceiver(t) PROVE TypeOK'
    BY <2>7 DEF LockReceiver
  <2>8. ASSUME NEW t \in Thread, Dequeue(t) PROVE TypeOK'
    <3>1. /\ Head(queue) \in Messages
          /\ queue' \in Seq(Messages)
          /\ Len(queue') = Len(queue) - 1
      BY <2>8 DEF Dequeue
    <3>2. cap' >= 0 => Len(queue') <= cap'
      BY <2>8, <3>1 DEF Dequeue
    <3> QED BY <2>8, <3>1, <3>2 DEF Dequeue, Return
  <2>9. ASSUME NEW t \in Thread, NEW s \in Thread, Receive(t, s) PROVE TypeOK'
    BY <2>9 DEF Receive
  <2>10. ASSUME NEW t \in Thread, NoMessage(t) PROVE TypeOK'
    BY <2>10 DEF NoMessage, Return
  <2>11. ASSUME NEW t \in Thread, RecvFails(t) PROVE TypeOK'
    BY <2>11 DEF RecvFails, Return
  <2>12. ASSUME NEW t \in Thread, Offer(t) PROVE TypeOK'
    BY <2>12 DEF Offer
  <2>13. ASSUME NEW t \in Thread, Close(t) PROVE TypeOK'
    <3>1. calls' \in [Thread -> 0 .. MaxCalls]
      BY <2>13 DEF Close, Begin
    <3>2. tx' \in BOOLEAN
      BY <2>13 DEF Close
    <3> QED BY <2>13, <3>1, <3>2 DEF Close
  <2> QED
    BY <2>1, <2>2, <2>3, <2>4, <2>5, <2>6, <2>7, <2>8, <2>9, <2>10, <2>11,
       <2>12, <2>13 DEF Next, Step
<1> QED BY <1>1, <1>2, PTL DEF Spec

\* Once a recv has been told that the channel is closed and empty, every
\* clone of the sender is gone and no later step brings a message.
THEOREM EndSafe == Spec => []EndIsFinal
<1>1. Init => EndIsFinal
  BY AnswersAssumption DEF Init, EndIsFinal
<1>2. TypeOK /\ EndIsFinal /\ [Next]_vars => EndIsFinal'
  <2> SUFFICES ASSUME TypeOK, EndIsFinal, [Next]_vars,
                      NEW u \in Thread, ret'[u] = End
               PROVE  queue' = <<>> /\ ~tx' /\ Clones' = {}
    BY DEF EndIsFinal
  <2> USE AnswersAssumption DEF TypeOK, EndIsFinal, Clones, Answers, Places
  <2>1. CASE UNCHANGED vars
    BY <2>1 DEF vars
  <2>2. ASSUME NEW t \in Thread, TakeSender(t) PROVE FALSE
    BY <2>2 DEF TakeSender
  <2>3. ASSUME NEW t \in Thread, SendRefused(t)
        PROVE  queue' = <<>> /\ ~tx' /\ Clones' = {}
    BY <2>3 DEF SendRefused, Return
  <2>4. ASSUME NEW t \in Thread, Enqueue(t) PROVE FALSE
    BY <2>4 DEF Enqueue
  <2>5. ASSUME NEW t \in Thread, SendReturns(t) PROVE FALSE
    BY <2>5 DEF SendReturns, Return
  <2>6. ASSUME NEW t \in Thread, CloneReceiver(t)
        PROVE  queue' = <<>> /\ ~tx' /\ Clones' = {}
    BY <2>6 DEF CloneReceiver
  <2>7. ASSUME NEW t \in Thread, LockReceiver(t)
        PROVE  queue' = <<>> /\ ~tx' /\ Clones' = {}
    BY <2>7 DEF LockReceiver
  <2>8. ASSUME NEW t \in Thread, Dequeue(t) PROVE FALSE
    <3>1. Head(queue) \in Messages
      BY <2>8 DEF Dequeue
    <3>2. \E w \in Thread : ret[w] = End
      BY <2>8, <3>1 DEF Dequeue, Return
    <3> QED BY <2>8, <3>2 DEF Dequeue
  <2>9. ASSUME NEW t \in Thread, NEW s \in Thread, Receive(t, s) PROVE FALSE
    <3>1. \E w \in Thread : ret[w] = End
      BY <2>9 DEF Receive
    <3> QED BY <2>9, <3>1 DEF Receive
  <2>10. ASSUME NEW t \in Thread, NoMessage(t)
         PROVE  queue' = <<>> /\ ~tx' /\ Clones' = {}
    BY <2>10 DEF NoMessage, Return
  <2>11. ASSUME NEW t \in Thread, RecvFails(t)
         PROVE  queue' = <<>> /\ ~tx' /\ Clones' = {}
    BY <2>11 DEF RecvFails, Disconnected, Return
  <2>12. ASSUME NEW t \in Thread, Offer(t) PROVE FALSE
    BY <2>12 DEF Offer
  <2>13. ASSUME NEW t \in Thread, Close(t)
         PROVE  queue' = <<>> /\ ~tx' /\ Clones' = {}
    BY <2>13 DEF Close, Begin
  <2> QED
    BY <2>1, <2>2, <2>3, <2>4, <2>5, <2>6, <2>7, <2>8, <2>9, <2>10, <2>11,
       <2>12, <2>13 DEF Next, Step
<1> QED BY <1>1, <1>2, TypeCorrect, PTL DEF Spec

\* The natives implement ChannelFifo: each step is a step of it or changes
\* nothing it can see.
THEOREM FifoImplemented == Spec => Implements
<1> DEFINE Call == [t \in Thread |-> CallAt[pc[t]]]
<1> USE DEF Fifo!absVars
<1>1. Init => Fifo!AbsInit
  BY DEF Init, Fifo!AbsInit, CallAt, Places, Messages
<1>2. TypeOK /\ [Next]_vars => [Fifo!AbsNext]_Fifo!absVars
  <2> SUFFICES ASSUME TypeOK, [Next]_vars
               PROVE  Fifo!AbsNext \/ UNCHANGED Fifo!absVars
    OBVIOUS
  <2>0. ASSUME NEW t \in Thread, NEW p \in Places, pc' = [pc EXCEPT ![t] = p]
        PROVE  Call' = [Call EXCEPT ![t] = CallAt[p]]
    BY <2>0 DEF TypeOK
  <2> USE DEF CallAt, Places
  <2>1. CASE UNCHANGED vars
    BY <2>1 DEF vars
  <2>2. ASSUME NEW t \in Thread, TakeSender(t) PROVE Fifo!AbsNext
    <3>1. <<t, calls'[t]>> \in Messages
      BY <2>2 DEF TakeSender, Begin, TypeOK, Messages
    <3>2. Call[t] = "idle" /\ Call' = [Call EXCEPT ![t] = "send"]
      BY <2>0, <2>2 DEF TakeSender, Begin
    <3>3. \E m \in Messages : Fifo!CallSend(t, m)
      BY <2>2, <3>1, <3>2 DEF TakeSender, Fifo!CallSend
    <3> QED BY <3>3 DEF Fifo!AbsNext
  <2>3. ASSUME NEW t \in Thread, SendRefused(t) PROVE Fifo!AbsNext
    <3>1. Fifo!CallRefused(t)
      BY <2>0, <2>3
      DEF SendRefused, Begin, Return, Fifo!CallRefused, Fifo!Return
    <3> QED BY <3>1 DEF Fifo!AbsNext
  <2>4. ASSUME NEW t \in Thread, Enqueue(t) PROVE Fifo!AbsNext
    <3>1. Fifo!Accept(t)
      BY <2>0, <2>4 DEF Enqueue, HasRoom, Fifo!Accept
    <3> QED BY <3>1 DEF Fifo!AbsNext
  <2>5. ASSUME NEW t \in Thread, SendReturns(t) PROVE Fifo!AbsNext
    <3>1. Fifo!Answer(t)
      BY <2>0, <2>5 DEF SendReturns, Return, Fifo!Answer, Fifo!Return
    <3> QED BY <3>1 DEF Fifo!AbsNext
  <2>6. ASSUME NEW t \in Thread, CloneReceiver(t) PROVE Fifo!AbsNext
    <3>1. Fifo!CallRecv(t)
      BY <2>0, <2>6 DEF CloneReceiver, Begin, Fifo!CallRecv
    <3> QED BY <3>1 DEF Fifo!AbsNext
  <2>7. ASSUME NEW t \in Thread, LockReceiver(t)
        PROVE  UNCHANGED Fifo!absVars
    BY <2>0, <2>7 DEF LockReceiver, TypeOK
  <2>8. ASSUME NEW t \in Thread, Dequeue(t) PROVE Fifo!AbsNext
    <3>1. Fifo!Take(t)
      BY <2>0, <2>8 DEF Dequeue, Return, Fifo!Take, Fifo!Return
    <3> QED BY <3>1 DEF Fifo!AbsNext
  <2>9. ASSUME NEW t \in Thread, NEW s \in Thread, Receive(t, s)
        PROVE  Fifo!AbsNext
    <3>1. Call' = [Call EXCEPT ![t] = "idle", ![s] = "accepted"]
      BY <2>9 DEF Receive, TypeOK
    <3>2. Fifo!Meet(t, s)
      BY <2>9, <3>1 DEF Receive, Fifo!Meet
    <3> QED BY <3>2 DEF Fifo!AbsNext
  <2>10. ASSUME NEW t \in Thread, NoMessage(t) PROVE Fifo!AbsNext
    <3>1. Fifo!NoMessage(t)
      BY <2>0, <2>10 DEF NoMessage, Nothing, Return, TypeOK,
         Fifo!NoMessage, Fifo!Nothing, Fifo!Return
    <3> QED BY <3>1 DEF Fifo!AbsNext
  <2>11. ASSUME NEW t \in Thread, RecvFails(t) PROVE Fifo!AbsNext
    <3>1. Fifo!RecvEnd(t)
      BY <2>0, <2>11 DEF RecvFails, Disconnected, Clones, Return, TypeOK,
         Fifo!RecvEnd, Fifo!Return
    <3> QED BY <3>1 DEF Fifo!AbsNext
  <2>12. ASSUME NEW t \in Thread, Offer(t) PROVE Fifo!AbsNext
    <3>1. Fifo!Wait(t)
      BY <2>0, <2>12 DEF Offer, Fifo!Wait
    <3> QED BY <3>1 DEF Fifo!AbsNext
  <2>13. ASSUME NEW t \in Thread, Close(t) PROVE Fifo!AbsNext
    <3>1. Fifo!AbsClose(t)
      BY <2>13 DEF Close, Begin, Fifo!AbsClose
    <3> QED BY <3>1 DEF Fifo!AbsNext
  <2> QED
    BY <2>1, <2>2, <2>3, <2>4, <2>5, <2>6, <2>7, <2>8, <2>9, <2>10, <2>11,
       <2>12, <2>13 DEF Next, Step
<1> QED BY <1>1, <1>2, TypeCorrect, PTL DEF Spec, Implements, Fifo!AbsSpec

=============================================================================
