------------------------------ MODULE Channel ------------------------------
(***************************************************************************)
(* Channel[T] in the StrictPy VM: the Channel* natives (vm/src/builtins.rs)*)
(* over one ChannelSlot (vm/src/interp.rs), which holds the sender half of *)
(* a std::sync::mpsc::sync_channel until the channel is closed, and the    *)
(* receiver half, behind a mutex, for ever.                                *)
(*                                                                         *)
(* A send clones the sender under the channel-table lock and then blocks,  *)
(* outside every lock, in SyncSender::send.  A recv clones the Arc of the  *)
(* receiver, locks its mutex and keeps it while it blocks in               *)
(* Receiver::recv; a try_recv takes the same mutex first.  A close drops   *)
(* the slot's sender: the library reports the end of the channel when the  *)
(* queue is empty and every clone of the sender is dropped too.            *)
(***************************************************************************)
EXTENDS Integers, Sequences

CONSTANTS
  Thread,       \* interpreters that hold the channel
  NoThread,     \* "nobody has locked the receiver"
  Capacities,   \* the capacities the program passes to Channel(...)
  MaxCalls,     \* bound: channel operations of each thread
  None,         \* the answer of try_recv, NONE_SENTINEL
  Sent,         \* a send that has returned
  Refused,      \* ChannelClosedError "send on closed channel"
  End           \* ChannelClosedError "recv on closed empty channel"

ASSUME NoThreadAssumption == NoThread \notin Thread
ASSUME CapacitiesAssumption == Capacities \subseteq Int
ASSUME MaxCallsAssumption == MaxCalls \in Nat

VARIABLES
  cap,      \* the bound of the library's queue; a negative one stands for
            \* usize::MAX / 2, which no program fills
  tx,       \* is the slot's sender still there?
  queue,    \* the messages in the library's queue
  rx,       \* the thread that has locked the receiver, or NoThread
  pc,       \* where each thread is in its channel operation
  val,      \* the argument of each thread's last send
  ret,      \* what each thread's last operation returned or raised
  calls     \* how many operations each thread has begun

vars == <<cap, tx, queue, rx, pc, val, ret, calls>>

\* A payload is known by its sender and the number of the sender's call.
Messages == Thread \X (0 .. MaxCalls)

Answers == {None, Sent, Refused, End}

ASSUME AnswersAssumption ==
  /\ Answers \cap Messages = {}
  /\ End \notin {None, Sent, Refused}

Places == {"idle", "sending", "offering", "sent",
           "lock_recv", "recv", "lock_try", "try"}

Init ==
  /\ cap \in Capacities
  /\ tx = TRUE
  /\ queue = <<>>
  /\ rx = NoThread
  /\ pc = [t \in Thread |-> "idle"]
  /\ val = [t \in Thread |-> <<t, 0>>]
  /\ ret = [t \in Thread |-> None]
  /\ calls = [t \in Thread |-> 0]

Begin(t) ==
  /\ pc[t] = "idle"
  /\ calls[t] < MaxCalls
  /\ calls' = [calls EXCEPT ![t] = @ + 1]

Return(t, v) ==
  /\ pc' = [pc EXCEPT ![t] = "idle"]
  /\ ret' = [ret EXCEPT ![t] = v]

\* The threads that hold a clone of the sender.
Clones == {t \in Thread : pc[t] \in {"sending", "offering", "sent"}}

\* A mutant of Disconnected: the end of the channel is its close.
DisconnectedAtClose == ~tx

\* What Receiver::recv waits for, besides a message.
Disconnected == ~tx /\ Clones = {}

----------------------------------------------------------------------------
(* ChannelSend *)

\* channel_take_sender, on an open and on a closed channel.
TakeSender(t) ==
  /\ Begin(t)
  /\ tx
  /\ pc' = [pc EXCEPT ![t] = "sending"]
  /\ val' = [val EXCEPT ![t] = <<t, calls'[t]>>]
  /\ UNCHANGED <<cap, tx, queue, rx, ret>>

SendRefused(t) ==
  /\ Begin(t)
  /\ ~tx
  /\ Return(t, Refused)
  /\ UNCHANGED <<cap, tx, queue, rx, val>>

\* The library's queue is not full.
HasRoom == cap < 0 \/ Len(queue) < cap

\* SyncSender::send puts the message in the queue ...
Enqueue(t) ==
  /\ pc[t] = "sending"
  /\ HasRoom
  /\ queue' = Append(queue, val[t])
  /\ pc' = [pc EXCEPT ![t] = "sent"]
  /\ UNCHANGED <<cap, tx, rx, val, ret, calls>>

\* ... or, with a capacity of 0, lets the receivers know that it waits for one
\* of them to Receive.  Until then it is not there for a try_recv.
Offer(t) ==
  /\ pc[t] = "sending"
  /\ cap = 0
  /\ pc' = [pc EXCEPT ![t] = "offering"]
  /\ UNCHANGED <<cap, tx, queue, rx, val, ret, calls>>

\* send returns and the clone is dropped.
SendReturns(t) ==
  /\ pc[t] = "sent"
  /\ Return(t, Sent)
  /\ UNCHANGED <<cap, tx, queue, rx, val, calls>>

----------------------------------------------------------------------------
(* ChannelRecv and ChannelTryRecv *)

\* channel_clone_receiver.
CloneReceiver(t) ==
  /\ Begin(t)
  /\ \E c \in {"lock_recv", "lock_try"} : pc' = [pc EXCEPT ![t] = c]
  /\ UNCHANGED <<cap, tx, queue, rx, val, ret>>

\* rx_arc.lock()
LockReceiver(t) ==
  /\ pc[t] \in {"lock_recv", "lock_try"}
  /\ rx = NoThread
  /\ rx' = t
  /\ pc' = [pc EXCEPT ![t] = IF @ = "lock_recv" THEN "recv" ELSE "try"]
  /\ UNCHANGED <<cap, tx, queue, val, ret, calls>>

\* A message of the queue is returned, and the mutex released.
Dequeue(t) ==
  /\ pc[t] \in {"recv", "try"}
  /\ queue # <<>>
  /\ Return(t, Head(queue))
  /\ queue' = Tail(queue)
  /\ rx' = NoThread
  /\ UNCHANGED <<cap, tx, val, calls>>

\* A mutant of Receive: a blocked recv does not look for waiting senders.
ReceiveInTry(t, s) ==
  /\ pc[t] = "try"
  /\ pc[s] = "offering"
  /\ pc' = [pc EXCEPT ![t] = "idle", ![s] = "sent"]
  /\ ret' = [ret EXCEPT ![t] = val[s]]
  /\ rx' = NoThread
  /\ UNCHANGED <<cap, tx, queue, val, calls>>

\* With a capacity of 0 the message goes from hand to hand.
Receive(t, s) ==
  /\ pc[t] \in {"recv", "try"}
  /\ pc[s] = "offering"
  /\ pc' = [pc EXCEPT ![t] = "idle", ![s] = "sent"]
  /\ ret' = [ret EXCEPT ![t] = val[s]]
  /\ rx' = NoThread
  /\ UNCHANGED <<cap, tx, queue, val, calls>>

Nothing ==
  /\ queue = <<>>
  /\ \A s \in Thread : pc[s] # "offering"

\* TryRecvError::Empty and TryRecvError::Disconnected: the same sentinel.
NoMessage(t) ==
  /\ pc[t] = "try"
  /\ Nothing
  /\ Return(t, None)
  /\ rx' = NoThread
  /\ UNCHANGED <<cap, tx, queue, val, calls>>

\* A mutant of RecvFails: the error path keeps the mutex.
RecvFailsLocked(t) ==
  /\ pc[t] = "recv"
  /\ queue = <<>>
  /\ Disconnected
  /\ Return(t, End)
  /\ UNCHANGED <<cap, tx, queue, rx, val, calls>>

\* recv fails: the queue is empty and no sender is left.
RecvFails(t) ==
  /\ pc[t] = "recv"
  /\ queue = <<>>
  /\ Disconnected
  /\ Return(t, End)
  /\ rx' = NoThread
  /\ UNCHANGED <<cap, tx, queue, val, calls>>

----------------------------------------------------------------------------
(* ChannelClose: slot.tx.take(), which a second close does again *)

\* A mutant of Close: it also throws away what was not received yet.
CloseDropsQueue(t) ==
  /\ Begin(t)
  /\ tx' = FALSE
  /\ queue' = <<>>
  /\ UNCHANGED <<cap, rx, pc, val, ret>>

Close(t) ==
  /\ Begin(t)
  /\ tx' = FALSE
  /\ UNCHANGED <<cap, queue, rx, pc, val, ret>>

----------------------------------------------------------------------------

\* The steps a thread takes by itself once it has begun an operation.
Step(t) ==
  \/ Enqueue(t) \/ Offer(t) \/ SendReturns(t)
  \/ LockReceiver(t) \/ Dequeue(t) \/ NoMessage(t) \/ RecvFails(t)
  \/ \E s \in Thread : Receive(t, s)

Next == \E t \in Thread :
  \/ TakeSender(t) \/ SendRefused(t) \/ CloneReceiver(t) \/ Close(t)
  \/ Step(t)

Spec == Init /\ [][Next]_vars

\* A running thread is scheduled, and a mutex that stays free is taken by a
\* thread that waits for it.  Nothing makes a program begin an operation,
\* and no mutex is assumed to be fair among its waiters.
Fairness == \A t \in Thread : WF_vars(Step(t))

FairSpec == Spec /\ Fairness

----------------------------------------------------------------------------

\* The state's shape.  The queue is never longer than its capacity.
TypeOK ==
  /\ cap \in Capacities
  /\ tx \in BOOLEAN
  /\ queue \in Seq(Messages)
  /\ rx \in Thread \cup {NoThread}
  /\ pc \in [Thread -> Places]
  /\ val \in [Thread -> Messages]
  /\ ret \in [Thread -> Messages \cup Answers]
  /\ calls \in [Thread -> 0 .. MaxCalls]
  /\ cap >= 0 => Len(queue) <= cap

\* "recv on closed empty channel" is said once and for all: after some recv
\* has raised it no message is queued or on its way, and none can be sent.
EndIsFinal ==
  (\E t \in Thread : ret[t] = End) => queue = <<>> /\ ~tx /\ Clones = {}

\* A thread that closed the channel is not needed any more: whoever waits in
\* a recv of a closed channel gets a message or the exception.
CloseEndsRecv ==
  \A t \in Thread :
    (~tx /\ pc[t] \in {"lock_recv", "recv"}) ~> (pc[t] = "idle")

\* A thread in send and a thread in recv never wait for ever side by side.
NobodyStranded ==
  \A t, u \in Thread :
    ~ <>[](/\ pc[t] \in {"sending", "offering"}
           /\ pc[u] \in {"lock_recv", "recv"})

\* What a thread at each place is doing, as ChannelFifo tells it: it does not
\* know of the receiver's mutex.
CallAt == [p \in Places |->
             IF p = "sending" THEN "send"
             ELSE IF p = "offering" THEN "waiting"
             ELSE IF p = "sent" THEN "accepted"
             ELSE IF p \in {"lock_recv", "recv"} THEN "recv"
             ELSE IF p \in {"lock_try", "try"} THEN "try"
             ELSE "idle"]

Fifo == INSTANCE ChannelFifo WITH
  Threads <- Thread, open <- tx, buffer <- queue, offer <- val,
  call <- [t \in Thread |-> CallAt[pc[t]]], answer <- ret

\* The natives keep the promise of ChannelFifo: no message is lost, received
\* twice or overtaken, nothing is sent after a close, and what was sent before
\* it is received before recv says that the channel has ended.
Implements == Fifo!AbsSpec

=============================================================================
