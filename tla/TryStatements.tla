---------------------------- MODULE TryStatements ----------------------------
(***************************************************************************)
(* What try statements promise (STRICTPY_SPEC.md, section 7.5), without    *)
(* handler frames or a pending exception: an exception goes to the         *)
(* innermost try statement around it, in any live call, that handles it or *)
(* has cleanup to run, and a finally block ends by re-raising exactly the  *)
(* exception that started it.                                              *)
(***************************************************************************)
EXTENDS Naturals, TryRegions

VARIABLES
  stack,   \* the position of every live call, outermost first
  err      \* the exception looking for its handler, or None

absVars == <<stack, err>>

AbsInit == stack = << <<>> >> /\ err = None

Top == Last(stack)
GotoPos(pc) == stack' = Append(Front(stack), pc)

Enter(s) ==
  /\ err = None
  /\ GotoPos(Append(Top, Region(s, "body", None)))
  /\ UNCHANGED err

\* A block completes normally; a finally block only if nothing is pending.
Complete ==
  /\ err = None
  /\ Top # <<>>
  /\ Last(Top).why = None
  /\ GotoPos(Following(Top))
  /\ UNCHANGED err

Reraise ==
  /\ err = None
  /\ Top # <<>>
  /\ Last(Top).why # None
  /\ err' = Last(Top).why
  /\ UNCHANGED stack

RaiseExc ==
  /\ err = None
  /\ err' \in Exc \cup {Trap}
  /\ UNCHANGED stack

CallFun ==
  /\ err = None
  /\ stack' = Append(stack, <<>>)
  /\ UNCHANGED err

\* Leaving a call from inside a try that has a finally block is undefined.
Leave ==
  /\ err = None
  /\ \A i \in DOMAIN Top : ~Top[i].try.finally
  /\ stack' = Front(stack)
  /\ UNCHANGED err

\* Does region r stop exception e?
Takes(r, e) ==
  /\ e # Trap
  /\ \/ r.phase = "body" /\ (Matches(r.try, e) \/ r.try.finally)
     \/ r.phase \in {"handler", "orelse"} /\ r.try.finally

\* The depths of the calls, and the regions of call i, that stop err.
TakingCalls == {i \in DOMAIN stack : \E j \in DOMAIN stack[i] : Takes(stack[i][j], err)}
TakingRegions(i) == {j \in DOMAIN stack[i] : Takes(stack[i][j], err)}

\* err reaches the innermost region that stops it.
Deliver ==
  /\ err # None
  /\ \E i \in TakingCalls : \E j \in TakingRegions(i) :
       LET r == stack[i][j]
           caught == r.phase = "body" /\ Matches(r.try, err)
           next == IF caught THEN Region(r.try, "handler", None)
                             ELSE Region(r.try, "finally", err)
       IN /\ \A k \in TakingCalls : k <= i
          /\ \A k \in TakingRegions(i) : k <= j
          /\ stack' = Append(SubSeq(stack, 1, i - 1),
                             Append(SubSeq(stack[i], 1, j - 1), next))
  /\ err' = None

\* Calls that do not stop err may be given up before its handler is found.
Abandon ==
  /\ err # None
  /\ \E n \in DOMAIN stack :
       /\ \A i \in TakingCalls : i <= n
       /\ stack' = SubSeq(stack, 1, n)
  /\ UNCHANGED err

AbsNext ==
  \/ \E s \in Try : Enter(s)
  \/ Complete \/ Reraise \/ RaiseExc \/ CallFun \/ Leave \/ Deliver \/ Abandon

AbsSpec == AbsInit /\ [][AbsNext]_absVars
=============================================================================
