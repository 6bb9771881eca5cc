---------------------------- MODULE ChannelFifo ----------------------------
(***************************************************************************)
(* What a Channel[T] promises to the threads that share it                 *)
(* (LANGUAGE_GUIDE.md, "Channel methods"; STRICTPY_SPEC.md, 16.3): a FIFO  *)
(* buffer of bounded length.  send puts one message in, recv takes the     *)
(* oldest one out and waits while there is none, try_recv takes one or     *)
(* answers none, and after close no new send begins.  A recv is refused    *)
(* only when the channel is closed, empty, and no send begun before the    *)
(* close is still on its way.  A capacity of 0 is a meeting of one sender  *)
(* and one receiver, for which a sender is there once it waits, not when   *)
(* its send begins; a negative one is no bound at all.                     *)
(*                                                                         *)
(* An operation is a call, one step that takes effect, and an answer; the  *)
(* threads' calls interleave freely.                                       *)
(***************************************************************************)
EXTENDS Integers, Sequences

CONSTANTS
    Threads, Messages, Capacities,
    None, Sent, Refused, End    \* the answers that are not messages

VARIABLES
    cap,        \* the capacity the channel was made with
    open,       \* no thread has closed it
    buffer,     \* the messages accepted and not yet received
    call,       \* what each thread is doing with the channel
    offer,      \* the message each thread last wanted to send
    answer      \* what each thread was last answered

absVars == <<cap, open, buffer, call, offer, answer>>

AbsInit ==
    /\ cap \in Capacities
    /\ open = TRUE
    /\ buffer = <<>>
    /\ call = [t \in Threads |-> "idle"]
    /\ offer \in [Threads -> Messages]
    /\ answer = [t \in Threads |-> None]

Return(t, a) ==
    /\ call' = [call EXCEPT ![t] = "idle"]
    /\ answer' = [answer EXCEPT ![t] = a]

CallSend(t, m) ==
    /\ call[t] = "idle" /\ open
    /\ call' = [call EXCEPT ![t] = "send"]
    /\ offer' = [offer EXCEPT ![t] = m]
    /\ UNCHANGED <<cap, open, buffer, answer>>

CallRefused(t) ==
    /\ call[t] = "idle" /\ ~open
    /\ Return(t, Refused)
    /\ UNCHANGED <<cap, open, buffer, offer>>

Accept(t) ==
    /\ call[t] = "send"
    /\ cap < 0 \/ Len(buffer) < cap
    /\ buffer' = Append(buffer, offer[t])
    /\ call' = [call EXCEPT ![t] = "accepted"]
    /\ UNCHANGED <<cap, open, offer, answer>>

Wait(t) ==
    /\ call[t] = "send" /\ cap = 0
    /\ call' = [call EXCEPT ![t] = "waiting"]
    /\ UNCHANGED <<cap, open, buffer, offer, answer>>

Answer(t) ==
    /\ call[t] = "accepted"
    /\ Return(t, Sent)
    /\ UNCHANGED <<cap, open, buffer, offer>>

CallRecv(t) ==
    /\ call[t] = "idle"
    /\ \E c \in {"recv", "try"} : call' = [call EXCEPT ![t] = c]
    /\ UNCHANGED <<cap, open, buffer, offer, answer>>

Take(t) ==
    /\ call[t] \in {"recv", "try"}
    /\ buffer # <<>>
    /\ Return(t, Head(buffer))
    /\ buffer' = Tail(buffer)
    /\ UNCHANGED <<cap, open, offer>>

Meet(t, s) ==
    /\ call[t] \in {"recv", "try"} /\ call[s] = "waiting"
    /\ call' = [call EXCEPT ![t] = "idle", ![s] = "accepted"]
    /\ answer' = [answer EXCEPT ![t] = offer[s]]
    /\ UNCHANGED <<cap, open, buffer, offer>>

Nothing ==
    /\ buffer = <<>>
    /\ \A s \in Threads : call[s] # "waiting"

NoMessage(t) ==
    /\ call[t] = "try"
    /\ Nothing
    /\ Return(t, None)
    /\ UNCHANGED <<cap, open, buffer, offer>>

RecvEnd(t) ==
    /\ call[t] = "recv"
    /\ ~open /\ buffer = <<>>
    /\ \A s \in Threads : call[s] \notin {"send", "waiting"}
    /\ Return(t, End)
    /\ UNCHANGED <<cap, open, buffer, offer>>

AbsClose(t) ==
    /\ call[t] = "idle"
    /\ open' = FALSE
    /\ UNCHANGED <<cap, buffer, call, offer, answer>>

AbsNext == \E t \in Threads :
    \/ \E m \in Messages : CallSend(t, m)
    \/ CallRefused(t) \/ Accept(t) \/ Wait(t) \/ Answer(t)
    \/ CallRecv(t) \/ Take(t) \/ NoMessage(t) \/ RecvEnd(t)
    \/ \E s \in Threads : Meet(t, s)
    \/ AbsClose(t)

AbsSpec == AbsInit /\ [][AbsNext]_absVars

=============================================================================
