------------------------------ MODULE Handlers ------------------------------
(***************************************************************************)
(* Exceptions in the StrictPy interpreter (vm/src/interp.rs): the stack of *)
(* handler frames, the one pending exception of finally blocks, and the    *)
(* search of propagate_exception through the call frames of one            *)
(* interpreter.  The interpreter re-enters itself: a native that calls a   *)
(* closure, the resumption of a generator and a JIT-compiled caller each   *)
(* start a run_until of their own, and a search stops at its bottom frame. *)
(***************************************************************************)
EXTENDS Naturals, TryRegions

CONSTANTS
  Gen,         \* generator objects
  MAX_FRAMES,  \* frames that op_call accepts
  MaxDepth,    \* bound: frames, invoke included (it does not check)
  MaxNest,     \* bound: try statements open in one frame
  MaxHandlers, \* bound: handler frames (break leaves some behind)
  Uses         \* what the program does besides try, raise, call and return

\* "callbacks": natives that call closures, "generators", "jit": compiled
\* callers, "break": break or continue out of a try, "try_in_cleanup": try
\* statements run by a finally block that is cleaning up after an exception,
\* "yield_in_try", "return_in_finally_try": return past a finally block.
AllUses == {"callbacks", "generators", "jit", "break", "try_in_cleanup",
            "yield_in_try", "return_in_finally_try"}

ASSUME NoneAssumption == None \notin Exc \cup {Trap}
ASSUME UsesAssumption == Uses \subseteq AllUses
ASSUME DepthAssumption ==
  MAX_FRAMES \in Nat \ {0} /\ MaxDepth \in Nat /\ MaxDepth >= MAX_FRAMES
ASSUME NestAssumption == MaxNest \in Nat \ {0} /\ MaxHandlers \in Nat

VARIABLES
  frames,             \* the code position in every call frame
  handler_frames,     \* Interpreter.handler_frames
  pending_exception,  \* Interpreter.pending_exception
  pending_exc_obj,    \* the type of the object in pending_exc_obj, or None
  runs,               \* the run_until calls in progress and who made them
  gens,               \* generator objects: state and saved position
  err,                \* the exception being propagated, or None
  throw_obj           \* the type of the object thrown, or None

vars == <<frames, handler_frames, pending_exception, pending_exc_obj, runs,
          gens, err, throw_obj>>
errVars == <<err, throw_obj>>
pendingVars == <<pending_exception, pending_exc_obj>>

Init ==
  /\ frames = << <<>> >>
  /\ handler_frames = <<>>
  /\ pending_exception = None
  /\ pending_exc_obj = None
  /\ runs = << [kind |-> "main", target |-> 0, gen |-> None] >>
  /\ gens = [g \in Gen |-> [state |-> 0, saved |-> <<>>]]
  /\ err = None
  /\ throw_obj = None

\* The interpreter executes an instruction, or looks for a handler.
Stepping == runs # <<>> /\ err = None
Searching == runs # <<>> /\ err # None

Here == Last(frames)
At(phase) == Here # <<>> /\ Last(Here).phase = phase
Goto(pc) == frames' = Append(Front(frames), pc)

\* Is a finally block running with an exception to re-raise?
CleaningUp ==
  \E i \in DOMAIN frames : \E j \in DOMAIN frames[i] : frames[i][j].why # None

-----------------------------------------------------------------------------
(* Try statements.                                                         *)

EnterTry(s) ==
  /\ Stepping
  /\ Len(Here) < MaxNest /\ Len(handler_frames) < MaxHandlers
  /\ CleaningUp => "try_in_cleanup" \in Uses
  /\ handler_frames' = Append(handler_frames,
       [frame_depth |-> Len(frames), try |-> s, pos |-> Here])
  /\ Goto(Append(Here, Region(s, "body", None)))
  /\ UNCHANGED <<pendingVars, runs, gens, errVars>>

LeaveTry ==
  /\ Stepping
  /\ At("body")
  /\ handler_frames' =
       IF handler_frames # <<>> /\ Last(handler_frames).frame_depth = Len(frames)
         THEN Front(handler_frames) ELSE handler_frames
  /\ Goto(Following(Here))
  /\ UNCHANGED <<pendingVars, runs, gens, errVars>>

\* The else block or a handler completes: a plain branch.
LeaveBlock ==
  /\ Stepping
  /\ At("orelse") \/ At("handler")
  /\ Goto(Following(Here))
  /\ UNCHANGED <<handler_frames, pendingVars, runs, gens, errVars>>

\* A mutant of EndFinally: the block just ends, nothing is re-raised.
EndFinallyWithoutReraise ==
  /\ Stepping
  /\ At("finally")
  /\ pending_exception' = None
  /\ pending_exc_obj' = None
  /\ Goto(Following(Here))
  /\ UNCHANGED <<handler_frames, runs, gens, errVars>>

EndFinally ==
  /\ Stepping
  /\ At("finally")
  /\ pending_exception' = None
  /\ IF pending_exception # None
       THEN /\ err' = pending_exception
            /\ throw_obj' = pending_exc_obj
            /\ pending_exc_obj' = None
            /\ UNCHANGED frames
       ELSE Goto(Following(Here)) /\ UNCHANGED <<errVars, pending_exc_obj>>
  /\ UNCHANGED <<handler_frames, runs, gens>>

\* break and continue are plain branches out of any number of blocks.
Break ==
  /\ Stepping
  /\ "break" \in Uses
  /\ \E n \in 1 .. Len(Here) : Goto(SubSeq(Here, 1, n - 1))
  /\ UNCHANGED <<handler_frames, pendingVars, runs, gens, errVars>>

\* A raise statement, or an instruction or native that fails.
Raise(e) ==
  /\ Stepping
  /\ err' = e
  /\ throw_obj' = (IF e.thrown THEN e.type ELSE throw_obj)
  /\ UNCHANGED <<frames, handler_frames, pendingVars, runs, gens>>

-----------------------------------------------------------------------------
(* Calls, returns and generators.                                          *)

\* Handler frames are popped from the top, down to the last one that stays.
PoppedTo(stay) == SubSeq(handler_frames, 1, Max({0} \cup stay))

\* A mutant of HandlersUpTo: a return drops the caller's handlers as well.
HandlersBelow(n) ==
  PoppedTo({k \in DOMAIN handler_frames : handler_frames[k].frame_depth < n})

\* The handler frames left when n call frames are.
HandlersUpTo(n) ==
  PoppedTo({k \in DOMAIN handler_frames : handler_frames[k].frame_depth <= n})

Call ==
  /\ Stepping
  /\ Len(frames) < MAX_FRAMES
  /\ frames' = Append(frames, <<>>)
  /\ UNCHANGED <<handler_frames, pendingVars, runs, gens, errVars>>

StackOverflow ==
  /\ Stepping
  /\ Len(frames) >= MAX_FRAMES
  /\ err' = Trap
  /\ UNCHANGED <<frames, handler_frames, pendingVars, runs, gens, throw_obj>>

\* The innermost run ends once its first frame is gone; a generator that
\* returns is exhausted.
Ret ==
  /\ Stepping
  /\ (\E i \in DOMAIN Here : Here[i].try.finally) => "return_in_finally_try" \in Uses
  /\ frames' = Front(frames)
  /\ handler_frames' = HandlersUpTo(Len(frames) - 1)
  /\ LET run == Last(runs)
     IN IF Len(frames) - 1 <= run.target
          THEN /\ runs' = Front(runs)
               /\ gens' = IF run.kind = "gen" THEN [gens EXCEPT ![run.gen].state = 2]
                                              ELSE gens
          ELSE UNCHANGED <<runs, gens>>
  /\ UNCHANGED <<pendingVars, errVars>>

\* Interpreter::invoke, from a native or from compiled code.
Invoke(kind) ==
  /\ Stepping
  /\ kind = "native" => "callbacks" \in Uses
  /\ kind = "jit" => "jit" \in Uses
  /\ Len(frames) < MaxDepth
  /\ runs' = Append(runs, [kind |-> kind, target |-> Len(frames), gen |-> None])
  /\ frames' = Append(frames, <<>>)
  /\ UNCHANGED <<handler_frames, pendingVars, gens, errVars>>

GenNext(g) ==
  /\ Stepping
  /\ "generators" \in Uses
  /\ gens[g].state # 2
  /\ Len(frames) < MAX_FRAMES
  /\ runs' = Append(runs, [kind |-> "gen", target |-> Len(frames), gen |-> g])
  /\ frames' = Append(frames, gens[g].saved)
  /\ UNCHANGED <<handler_frames, pendingVars, gens, errVars>>

\* A mutant of Yield: the suspended frame stays on the call stack.
YieldKeepingFrame ==
  /\ Stepping
  /\ LET run == Last(runs)
     IN /\ run.kind = "gen"
        /\ Len(frames) = run.target + 1
        /\ gens' = [gens EXCEPT ![run.gen] = [state |-> 1, saved |-> Here]]
  /\ runs' = Front(runs)
  /\ UNCHANGED <<frames, handler_frames, pendingVars, errVars>>

\* op_yield, and the end of the op_gen_next that it returns to.
Yield ==
  /\ Stepping
  /\ Here # <<>> => "yield_in_try" \in Uses
  /\ LET run == Last(runs)
     IN /\ run.kind = "gen"
        /\ Len(frames) = run.target + 1
        /\ gens' = [gens EXCEPT ![run.gen] = [state |-> 1, saved |-> Here]]
  /\ runs' = Front(runs)
  /\ frames' = Front(frames)
  /\ handler_frames' = HandlersUpTo(Len(frames) - 1)
  /\ UNCHANGED <<pendingVars, errVars>>

-----------------------------------------------------------------------------
(* propagate_exception, one iteration of its loop at a time.               *)

\* A mutant of HandlerInRun: the search does not stop at the run's bottom.
AnyHandler == handler_frames # <<>>

\* A mutant of Taken: the object is read, not taken.
ObjectLeft == throw_obj

\* What is left in throw_obj once propagate_exception has claimed the object.
Taken == None

\* The handler frame to try next belongs to the innermost run_until.
HandlerInRun ==
  /\ handler_frames # <<>>
  /\ Last(handler_frames).frame_depth > Last(runs).target

\* Frames above the handler's are popped, its own continues at pc.
Unwind(h, region) ==
  frames' = Append(SubSeq(frames, 1, h.frame_depth - 1), Append(h.pos, region))

\* A mutant of Catch: the pending exception is not reset.
CatchKeepingPending ==
  /\ Searching
  /\ err # Trap
  /\ HandlerInRun
  /\ Matches(Last(handler_frames).try, err)
  /\ Unwind(Last(handler_frames), Region(Last(handler_frames).try, "handler", None))
  /\ handler_frames' = Front(handler_frames)
  /\ err' = None
  /\ throw_obj' = Taken
  /\ UNCHANGED <<pendingVars, runs, gens>>

Catch ==
  /\ Searching
  /\ err # Trap
  /\ HandlerInRun
  /\ Matches(Last(handler_frames).try, err)
  /\ Unwind(Last(handler_frames), Region(Last(handler_frames).try, "handler", None))
  /\ handler_frames' = Front(handler_frames)
  /\ pending_exception' = None
  /\ pending_exc_obj' = None
  /\ err' = None
  /\ throw_obj' = Taken
  /\ UNCHANGED <<runs, gens>>

\* A mutant of GoesToFinally: a finally without a matching arm is passed by.
GoesNowhere(s) == FALSE

GoesToFinally(s) == ~Matches(s, err) /\ s.finally

ToFinally ==
  /\ Searching
  /\ err # Trap
  /\ HandlerInRun
  /\ GoesToFinally(Last(handler_frames).try)
  /\ Unwind(Last(handler_frames), Region(Last(handler_frames).try, "finally", err))
  /\ handler_frames' = Front(handler_frames)
  /\ pending_exception' = err
  /\ pending_exc_obj' = throw_obj
  /\ err' = None
  /\ throw_obj' = Taken
  /\ UNCHANGED <<runs, gens>>

DropHandler ==
  /\ Searching
  /\ err # Trap
  /\ HandlerInRun
  /\ ~Matches(Last(handler_frames).try, err)
  /\ ~GoesToFinally(Last(handler_frames).try)
  /\ handler_frames' = Front(handler_frames)
  /\ UNCHANGED <<frames, pendingVars, runs, gens, errVars>>

\* run_until returns Err.  The step that started it fails with the same
\* error, except that compiled code turns it into the value 0 and goes on;
\* only op_gen_next truncates the call stack.  The object is not passed on.
Escape ==
  /\ Searching
  /\ err = Trap \/ ~HandlerInRun
  /\ LET run == Last(runs)
     IN /\ runs' = Front(runs)
        /\ err' = IF run.kind = "jit" THEN None ELSE err
        /\ IF run.kind = "gen"
             THEN /\ frames' = SubSeq(frames, 1, run.target)
                  /\ handler_frames' = HandlersUpTo(run.target)
                  /\ gens' = [gens EXCEPT ![run.gen].state = 2]
             ELSE UNCHANGED <<frames, handler_frames, gens>>
  /\ throw_obj' = Taken
  /\ UNCHANGED pendingVars

Propagate == Catch \/ ToFinally \/ DropHandler \/ Escape

Next ==
  \/ \E s \in Try : EnterTry(s)
  \/ LeaveTry \/ LeaveBlock \/ EndFinally \/ Break
  \/ \E e \in Exc : Raise(e)
  \/ Call \/ StackOverflow \/ Ret
  \/ \E kind \in {"native", "jit"} : Invoke(kind)
  \/ \E g \in Gen : GenNext(g)
  \/ Yield
  \/ Propagate

Spec == Init /\ [][Next]_vars

-----------------------------------------------------------------------------
(* Properties.                                                             *)

Depths == 1 .. MaxDepth

\* Regions and handler frames are well formed, and no handler frame outlives
\* the call frame it belongs to.
TypeOK ==
  /\ \A i \in DOMAIN frames : \A j \in DOMAIN frames[i] :
       /\ frames[i][j].try \in Try
       /\ frames[i][j].phase \in Phases
       /\ frames[i][j].why \in Exc \cup {None}
  /\ Len(frames) <= MaxDepth
  /\ \A k \in DOMAIN handler_frames :
       /\ handler_frames[k].frame_depth \in DOMAIN frames
       /\ handler_frames[k].try \in Try
  /\ pending_exception \in Exc \cup {None}
  /\ pending_exc_obj \in ExcType \cup {None}
  /\ throw_obj \in ExcType \cup {None}
  /\ err \in Exc \cup {Trap, None}
  /\ \A k \in DOMAIN runs : runs[k].target \in 0 .. Len(frames)
  /\ \A g \in Gen : gens[g].state \in 0 .. 2

\* Region j of call i is a try body.
IsBody(i, j) ==
  i \in DOMAIN frames /\ j \in DOMAIN frames[i] /\ frames[i][j].phase = "body"

\* The region that pushed handler frame h, and the nesting order of regions.
Place(h) == <<h.frame_depth, Len(h.pos) + 1>>
Encloses(p, q) == p[1] < q[1] \/ (p[1] = q[1] /\ p[2] < q[2])

\* Every handler frame is that of a try body being executed, and it returns
\* to where that body is.
HandlerIsOpen ==
  \A k \in DOMAIN handler_frames :
    LET h == handler_frames[k]
        i == h.frame_depth
        j == Len(h.pos) + 1
    IN IsBody(i, j) /\ frames[i][j].try = h.try /\ SubSeq(frames[i], 1, j - 1) = h.pos

HandlersNest ==
  \A k, l \in DOMAIN handler_frames :
    k < l => Encloses(Place(handler_frames[k]), Place(handler_frames[l]))

\* Only a search that has passed a body drops its handler frame.
OpenHasHandler ==
  \A i \in DOMAIN frames : \A j \in DOMAIN frames[i] :
    IsBody(i, j) =>
      \/ \E k \in DOMAIN handler_frames : Place(handler_frames[k]) = <<i, j>>
      \/ /\ err # None
         /\ \A k \in DOMAIN handler_frames : Encloses(Place(handler_frames[k]), <<i, j>>)

\* There is a handler frame for every try body being executed, of every live
\* call, in nesting order, and there is no other: an exception goes to the
\* innermost try around it and never to one that was left.  While a search
\* is on, the handler frames it has passed are gone.
HandlersMatch == HandlerIsOpen /\ HandlersNest /\ OpenHasHandler

\* Region j of call i is a finally block with an exception to re-raise.
IsCleanup(i, j) ==
  i \in DOMAIN frames /\ j \in DOMAIN frames[i] /\ frames[i][j].why # None

\* The one pending slot of the interpreter always holds the exception that
\* the innermost cleaning-up finally block has to re-raise, and nothing when
\* there is none: no exception is lost, and none comes back from the dead.
PendingMatches ==
  Stepping =>
    /\ pending_exception # None <=> CleaningUp
    /\ \A i \in DOMAIN frames : \A j \in DOMAIN frames[i] :
         IsCleanup(i, j) =>
           \/ pending_exception = frames[i][j].why
           \/ \E k \in DOMAIN frames : \E l \in DOMAIN frames[k] :
                IsCleanup(k, l) /\ Encloses(<<i, j>>, <<k, l>>)

\* A handler never binds the object of an exception other than the one it
\* catches: one thrown earlier, or one that a native failure has replaced.
ObjectNeverWrong ==
  Searching => throw_obj \in {None} \cup (IF err.thrown THEN {err.type} ELSE {})

\* The try statements that still owe their cleanup.
Owed ==
  {o \in (1 .. MaxDepth) \X (1 .. MaxNest) :
     LET i == o[1]
         j == o[2]
     IN /\ i \in DOMAIN frames /\ j \in DOMAIN frames[i]
        /\ frames[i][j].try.finally /\ frames[i][j].phase # "finally"}

\* A try statement with a finally block is not left without running it, on
\* no path out of its body, its handlers or its else block.
FinallyRuns ==
  [][err # Trap => \A o \in Owed :
       LET i == o[1]
           j == o[2]
       IN /\ i \in DOMAIN frames' /\ j \in DOMAIN frames'[i]
          /\ frames'[i][j].try = frames[i][j].try
          /\ runs' # <<>>]_vars

\* When a nested run_until is over and no exception goes on, the interpreter
\* continues in the very frame that had started it.
BoundaryRestored ==
  [][Len(runs') < Len(runs) /\ err' = None => Len(frames') = Last(runs).target]_vars

\* An exception is never delivered below the native, the generator driver or
\* the compiled code that made the innermost run_until: their Rust frames are
\* still on the machine stack and must see the error themselves.
DriverNotSkipped ==
  [][Searching /\ err' = None /\ runs' = runs => Len(frames') > Last(runs).target]_vars

\* The interpreter implements the try statements of the language: its
\* handler frames and its pending slot deliver every exception where the
\* structure of the program says.
Abs == INSTANCE TryStatements WITH stack <- frames
Unwinds == Abs!AbsSpec
=============================================================================
