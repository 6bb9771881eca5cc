--------------------------- MODULE HandlersProofs ---------------------------
(***************************************************************************)
(* Proofs about exception handling (module Handlers), for any program, any *)
(* number of frames and any nesting of calls, natives and generators.      *)
(* Three parts: the state invariant and the handler of an exception; the   *)
(* match of handler frames and try bodies (HandlersMatch); the             *)
(* implementation of the try statements of the language (TryStatements).   *)
(***************************************************************************)
EXTENDS Handlers, FiniteSetTheorems, TLAPS

USE NoneAssumption, DepthAssumption, NestAssumption

-----------------------------------------------------------------------------
(* Sequences.                                                              *)

LEMMA Prefix ==
  ASSUME NEW S, NEW s \in Seq(S), NEW n \in 0 .. Len(s)
  PROVE  /\ SubSeq(s, 1, n) \in Seq(S) /\ Len(SubSeq(s, 1, n)) = n
         /\ \A i \in 1 .. n : SubSeq(s, 1, n)[i] = s[i]
  OBVIOUS

LEMMA FrontAndLast ==
  ASSUME NEW S, NEW s \in Seq(S), s # <<>>
  PROVE  /\ Front(s) \in Seq(S) /\ Len(Front(s)) = Len(s) - 1
         /\ \A i \in 1 .. Len(s) - 1 : Front(s)[i] = s[i]
         /\ Last(s) = s[Len(s)] /\ Last(s) \in S /\ Len(s) \in Nat \ {0}
<1>1. Len(s) \in Nat \ {0} /\ s[Len(s)] \in S
  OBVIOUS
<1> DEFINE n == Len(s) - 1
<1>2. n \in 0 .. Len(s)
  BY <1>1
<1>3. /\ SubSeq(s, 1, n) \in Seq(S) /\ Len(SubSeq(s, 1, n)) = n
      /\ \A i \in 1 .. n : SubSeq(s, 1, n)[i] = s[i]
  <2> HIDE DEF n
  <2> QED BY <1>2, Prefix
<1> QED BY <1>1, <1>3 DEF Front, Last

\* A bounded set of numbers has a greatest element: of the intervals that
\* start in the set and end at the bound, one contains no other.
LEMMA Greatest ==
  ASSUME NEW n \in Nat, NEW S \in SUBSET (0 .. n), S # {}
  PROVE  Max(S) \in S /\ \A k \in S : k <= Max(S)
<1> DEFINE I == 0 .. n
           T == {i .. n : i \in S}
<1>1. IsWellFoundedOn(StrictSubsetOrdering(I), FiniteSubsetsOf(I))
  BY FS_StrictSubsetOrderingWellFounded
<1>2. T \subseteq FiniteSubsetsOf(I) /\ T # {}
  <2>1. \A i \in S : i .. n \in SUBSET I
    OBVIOUS
  <2>2. \A i \in S : IsFiniteSet(i .. n)
    BY FS_Interval
  <2> QED BY <2>1, <2>2 DEF FiniteSubsetsOf
<1> HIDE DEF I
<1>3. PICK x \in T : \A y \in T : <<y, x>> \notin StrictSubsetOrdering(I)
  <2> HIDE DEF T
  <2> QED BY <1>1, <1>2, WFMin
<1>4. PICK m \in S : x = m .. n
  OBVIOUS
<1>5. \A k \in S : k <= m
  <2> SUFFICES ASSUME NEW k \in S, k > m PROVE FALSE
    OBVIOUS
  <2>1. k .. n \subseteq m .. n /\ k .. n # m .. n
    OBVIOUS
  <2>2. <<k .. n, x>> \in StrictSubsetOrdering(I)
    BY <2>1, <1>4 DEF StrictSubsetOrdering, I
  <2> QED BY <2>2, <1>3
<1>6. \E y \in S : \A z \in S : y >= z
  BY <1>5
<1> QED BY <1>6 DEF Max

\* What replaces the last element of a sequence.
LEMMA Replaced ==
  ASSUME NEW S, NEW s \in Seq(S), s # <<>>, NEW x \in S
  PROVE  LET t == Append(Front(s), x)
         IN /\ t \in Seq(S) /\ Len(t) = Len(s)
            /\ t[Len(s)] = x /\ \A i \in 1 .. Len(s) - 1 : t[i] = s[i]
<1> DEFINE f == Front(s)
           t == Append(f, x)
<1>1. /\ f \in Seq(S) /\ Len(f) = Len(s) - 1 /\ Len(s) \in Nat \ {0}
      /\ \A i \in 1 .. Len(s) - 1 : f[i] = s[i]
  BY FrontAndLast
<1> HIDE DEF f
<1>2. t \in Seq(S) /\ Len(t) = Len(f) + 1
  BY <1>1
<1>3. t[Len(f) + 1] = x /\ \A i \in 1 .. Len(f) : t[i] = f[i]
  BY <1>1
<1>4. /\ t \in Seq(S) /\ Len(t) = Len(s)
      /\ t[Len(s)] = x /\ \A i \in 1 .. Len(s) - 1 : t[i] = s[i]
  BY <1>1, <1>2, <1>3
<1> QED BY <1>4 DEF f

-----------------------------------------------------------------------------
(* The state's shape.                                                      *)

RegionSet == [try : Try, phase : Phases, why : Exc \cup {None}]
Position == Seq(RegionSet)
HandlerSet == [frame_depth : Nat, try : Try, pos : Position]
RunSet == [kind : {"main", "native", "jit"}, target : Nat, gen : {None}]
            \cup [kind : {"gen"}, target : Nat, gen : Gen]

Shape ==
  /\ frames \in Seq(Position)
  /\ handler_frames \in Seq(HandlerSet)
  /\ runs \in Seq(RunSet)
  /\ gens \in [Gen -> [state : 0 .. 2, saved : Position]]
  /\ pending_exception \in Exc \cup {None}
  /\ pending_exc_obj \in ExcType \cup {None}
  /\ err \in Exc \cup {Trap, None}
  /\ throw_obj \in ExcType \cup {None}

\* The run_until calls in progress were made from ever deeper frames, all of
\* them live.
RunsNest ==
  /\ \A k \in DOMAIN runs : runs[k].target < Len(frames)
  /\ \A k, l \in DOMAIN runs : k < l => runs[k].target < runs[l].target

\* Handler frames belong to live calls, the later ones to deeper calls.
DepthsNest ==
  /\ \A k \in DOMAIN handler_frames : handler_frames[k].frame_depth \in 1 .. Len(frames)
  /\ \A k, l \in DOMAIN handler_frames :
       k < l => handler_frames[k].frame_depth <= handler_frames[l].frame_depth

LEMMA Elements ==
  ASSUME Shape
  PROVE  /\ Len(frames) \in Nat /\ DOMAIN frames = 1 .. Len(frames)
         /\ \A i \in DOMAIN frames : frames[i] \in Position
         /\ Len(handler_frames) \in Nat
         /\ DOMAIN handler_frames = 1 .. Len(handler_frames)
         /\ \A k \in DOMAIN handler_frames :
              /\ handler_frames[k].frame_depth \in Nat
              /\ handler_frames[k].try \in Try
              /\ handler_frames[k].pos \in Position
         /\ Len(runs) \in Nat /\ DOMAIN runs = 1 .. Len(runs)
         /\ \A k \in DOMAIN runs : runs[k] \in RunSet /\ runs[k].target \in Nat
<1>1. \A k \in DOMAIN handler_frames : handler_frames[k] \in HandlerSet
  BY DEF Shape
<1>2. \A h \in HandlerSet : h.frame_depth \in Nat /\ h.try \in Try /\ h.pos \in Position
  BY DEF HandlerSet
<1>3. \A k \in DOMAIN runs : runs[k] \in RunSet
  BY DEF Shape
<1>4. \A r \in RunSet : r.target \in Nat
  BY DEF RunSet
<1>5. \A i \in DOMAIN frames : frames[i] \in Position
  BY DEF Shape
<1>6. /\ Len(frames) \in Nat /\ DOMAIN frames = 1 .. Len(frames)
      /\ Len(handler_frames) \in Nat
      /\ DOMAIN handler_frames = 1 .. Len(handler_frames)
      /\ Len(runs) \in Nat /\ DOMAIN runs = 1 .. Len(runs)
  BY DEF Shape
<1> QED BY <1>1, <1>2, <1>3, <1>4, <1>5, <1>6

\* Popping from the top keeps the first m handler frames.
LEMMA Popping ==
  ASSUME Shape, NEW stay \in SUBSET DOMAIN handler_frames
  PROVE  \E m \in 0 .. Len(handler_frames) :
           /\ PoppedTo(stay) = SubSeq(handler_frames, 1, m)
           /\ m = 0 \/ m \in stay
           /\ \A k \in stay : k <= m
<1> DEFINE S == {0} \cup stay
<1>1. Len(handler_frames) \in Nat /\ DOMAIN handler_frames = 1 .. Len(handler_frames)
  BY DEF Shape
<1>2. S \in SUBSET (0 .. Len(handler_frames)) /\ S # {}
  BY <1>1
<1>3. Max(S) \in S /\ \A k \in S : k <= Max(S)
  <2> HIDE DEF S
  <2> QED BY <1>1, <1>2, Greatest
<1>4. Max(S) \in 0 .. Len(handler_frames)
  BY <1>2, <1>3
<1>5. PoppedTo(stay) = SubSeq(handler_frames, 1, Max(S))
  BY DEF PoppedTo
<1>6. Max(S) = 0 \/ Max(S) \in stay
  BY <1>3
<1>7. \A k \in stay : k <= Max(S)
  BY <1>3
<1> HIDE DEF S
<1> QED BY <1>4, <1>5, <1>6, <1>7

\* A return drops exactly the handler frames of the calls that are gone.
LEMMA UpTo ==
  ASSUME Shape, DepthsNest, NEW n \in Nat
  PROVE  \E m \in 0 .. Len(handler_frames) :
           /\ HandlersUpTo(n) = SubSeq(handler_frames, 1, m)
           /\ \A k \in 1 .. m : handler_frames[k].frame_depth <= n
           /\ \A k \in m + 1 .. Len(handler_frames) : handler_frames[k].frame_depth > n
<1> DEFINE stay == {k \in DOMAIN handler_frames : handler_frames[k].frame_depth <= n}
<1>1. PICK m \in 0 .. Len(handler_frames) :
           /\ PoppedTo(stay) = SubSeq(handler_frames, 1, m)
           /\ m = 0 \/ m \in stay
           /\ \A k \in stay : k <= m
  BY Popping
<1>2. DOMAIN handler_frames = 1 .. Len(handler_frames) /\ Len(handler_frames) \in Nat
  BY DEF Shape
<1>3. \A k \in DOMAIN handler_frames : handler_frames[k].frame_depth \in Nat
  BY Elements
<1>4. \A k \in 1 .. m : handler_frames[k].frame_depth <= n
  BY <1>1, <1>2, <1>3 DEF DepthsNest
<1>5. \A k \in m + 1 .. Len(handler_frames) : handler_frames[k].frame_depth > n
  BY <1>1, <1>2, <1>3
<1>6. HandlersUpTo(n) = PoppedTo(stay)
  BY Zenon DEF HandlersUpTo
<1> HIDE DEF stay
<1> QED BY <1>1, <1>4, <1>5, <1>6

\* While the interpreter runs, the innermost run_until has a frame of its own.
LEMMA Current ==
  ASSUME Shape, RunsNest, runs # <<>>
  PROVE  /\ frames # <<>> /\ Len(frames) \in Nat \ {0}
         /\ Here = frames[Len(frames)] /\ Here \in Position
         /\ Len(runs) \in Nat \ {0}
         /\ Last(runs) = runs[Len(runs)] /\ Last(runs) \in RunSet
         /\ Last(runs).target \in 0 .. Len(frames) - 1
<1>1. Last(runs) = runs[Len(runs)] /\ Last(runs) \in RunSet /\ Len(runs) \in Nat \ {0}
  BY FrontAndLast DEF Shape
<1>2. Last(runs).target \in Nat /\ Last(runs).target < Len(frames)
  BY <1>1, Elements DEF RunsNest
<1>3. Len(frames) \in Nat \ {0} /\ frames # <<>>
  BY <1>2, Elements
<1>4. Here = frames[Len(frames)] /\ Here \in Position
  BY <1>3, FrontAndLast DEF Shape, Here
<1> QED BY <1>1, <1>2, <1>3, <1>4

LEMMA TargetsBelow ==
  ASSUME Shape, RunsNest, runs # <<>>
  PROVE  \A k \in DOMAIN runs : runs[k].target \in Nat /\ runs[k].target <= Last(runs).target
<1>1. \A k \in DOMAIN runs : runs[k].target \in Nat
  BY Elements
<1>2. Len(runs) \in DOMAIN runs /\ Last(runs).target = runs[Len(runs)].target
  BY Current, Elements
<1>3. ASSUME NEW k \in DOMAIN runs PROVE runs[k].target <= Last(runs).target
  <2>1. k = Len(runs) \/ k < Len(runs)
    BY Elements
  <2> QED BY <1>1, <1>2, <2>1 DEF RunsNest
<1> QED BY <1>1, <1>3

LEMMA FollowingShape ==
  ASSUME NEW pc \in Position, pc # <<>>
  PROVE  Following(pc) \in Position
<1>1. Front(pc) \in Position /\ Last(pc) \in RegionSet
  BY FrontAndLast DEF Position
<1>2. \A phase \in Phases : Region(Last(pc).try, phase, None) \in RegionSet
  BY <1>1 DEF Region, RegionSet
<1>3. \A phase \in Phases :
        Append(Front(pc), Region(Last(pc).try, phase, None)) \in Position
  BY <1>1, <1>2 DEF Position
<1> QED BY <1>1, <1>3 DEF Following, Phases

\* The ways a step changes the call stack.
LEMMA GotoShape ==
  ASSUME Shape, RunsNest, runs # <<>>, NEW pc \in Position, Goto(pc)
  PROVE  /\ frames' \in Seq(Position) /\ Len(frames') = Len(frames)
         /\ frames'[Len(frames)] = pc
         /\ \A i \in 1 .. Len(frames) - 1 : frames'[i] = frames[i]
<1>1. frames \in Seq(Position) /\ frames # <<>>
  BY Current DEF Shape
<1>2. frames' = Append(Front(frames), pc)
  BY DEF Goto
<1> QED BY <1>1, <1>2, Replaced

LEMMA UnwindShape ==
  ASSUME Shape, RunsNest, DepthsNest, NEW k \in DOMAIN handler_frames,
         NEW region \in RegionSet, Unwind(handler_frames[k], region)
  PROVE  /\ frames' \in Seq(Position)
         /\ Len(frames') = handler_frames[k].frame_depth
         /\ frames'[Len(frames')] = Append(handler_frames[k].pos, region)
         /\ \A i \in 1 .. Len(frames') - 1 : frames'[i] = frames[i]
<1> DEFINE h == handler_frames[k]
           n == h.frame_depth - 1
           rest == SubSeq(frames, 1, n)
<1>1. h.frame_depth \in 1 .. Len(frames) /\ h.pos \in Position
  BY Elements DEF DepthsNest
<1>2. n \in 0 .. Len(frames) /\ h.frame_depth = n + 1
  BY <1>1, Elements
<1>3. /\ rest \in Seq(Position) /\ Len(rest) = n
      /\ \A i \in 1 .. n : rest[i] = frames[i]
  <2> HIDE DEF n
  <2> QED BY <1>2, Prefix DEF Shape
<1>4. Append(h.pos, region) \in Position
  BY <1>1 DEF Position
<1>5. frames' = Append(rest, Append(h.pos, region))
  BY DEF Unwind
<1> HIDE DEF rest, n
<1>6. /\ frames' \in Seq(Position) /\ Len(frames') = n + 1
      /\ frames'[n + 1] = Append(h.pos, region)
      /\ \A i \in 1 .. n : frames'[i] = rest[i]
  BY <1>2, <1>3, <1>4, <1>5
<1> QED BY <1>2, <1>3, <1>6

LEMMA PushShape ==
  ASSUME Shape, NEW pc \in Position, frames' = Append(frames, pc)
  PROVE  /\ frames' \in Seq(Position) /\ Len(frames') = Len(frames) + 1
         /\ frames'[Len(frames) + 1] = pc
         /\ \A i \in 1 .. Len(frames) : frames'[i] = frames[i]
  BY DEF Shape

LEMMA CutShape ==
  ASSUME Shape, NEW n \in 0 .. Len(frames), frames' = SubSeq(frames, 1, n)
  PROVE  /\ frames' \in Seq(Position) /\ Len(frames') = n
         /\ \A i \in 1 .. n : frames'[i] = frames[i]
  BY Prefix DEF Shape

LEMMA PopShape ==
  ASSUME Shape, RunsNest, runs # <<>>, frames' = Front(frames)
  PROVE  /\ frames' \in Seq(Position) /\ Len(frames') = Len(frames) - 1
         /\ \A i \in 1 .. Len(frames) - 1 : frames'[i] = frames[i]
<1>1. frames \in Seq(Position) /\ frames # <<>>
  BY Current DEF Shape
<1> QED BY <1>1, FrontAndLast

\* The handler frames that a step keeps.
LEMMA KeptHandlers ==
  ASSUME Shape, DepthsNest, NEW n \in Nat, handler_frames' = HandlersUpTo(n)
  PROVE  \E m \in 0 .. Len(handler_frames) :
           /\ handler_frames' \in Seq(HandlerSet) /\ Len(handler_frames') = m
           /\ \A k \in 1 .. m : /\ handler_frames'[k] = handler_frames[k]
                                 /\ handler_frames[k].frame_depth <= n
           /\ \A k \in m + 1 .. Len(handler_frames) : handler_frames[k].frame_depth > n
<1>1. PICK m \in 0 .. Len(handler_frames) :
           /\ HandlersUpTo(n) = SubSeq(handler_frames, 1, m)
           /\ \A k \in 1 .. m : handler_frames[k].frame_depth <= n
           /\ \A k \in m + 1 .. Len(handler_frames) : handler_frames[k].frame_depth > n
  BY UpTo
<1>2. /\ handler_frames' \in Seq(HandlerSet) /\ Len(handler_frames') = m
      /\ \A k \in 1 .. m : handler_frames'[k] = handler_frames[k]
  BY <1>1, Prefix DEF Shape
<1> QED BY <1>1, <1>2

LEMMA PoppedHandler ==
  ASSUME Shape, handler_frames # <<>>, handler_frames' = Front(handler_frames)
  PROVE  /\ handler_frames' \in Seq(HandlerSet)
         /\ Len(handler_frames') = Len(handler_frames) - 1
         /\ \A k \in 1 .. Len(handler_frames) - 1 : handler_frames'[k] = handler_frames[k]
         /\ Len(handler_frames) \in DOMAIN handler_frames
         /\ Last(handler_frames) = handler_frames[Len(handler_frames)]
<1>1. handler_frames \in Seq(HandlerSet)
  BY DEF Shape
<1> QED BY <1>1, FrontAndLast

\* A call, a callback or a generator is resumed: a run_until begins.
LEMMA BegunRun ==
  ASSUME Shape, RunsNest, NEW r \in RunSet, r.target = Len(frames),
         runs' = Append(runs, r), Len(frames') = Len(frames) + 1
  PROVE  runs' \in Seq(RunSet) /\ RunsNest'
<1>1. /\ runs' \in Seq(RunSet) /\ Len(runs') = Len(runs) + 1
      /\ runs'[Len(runs) + 1] = r
      /\ \A k \in 1 .. Len(runs) : runs'[k] = runs[k]
  BY DEF Shape
<1>2. DOMAIN runs' = 1 .. Len(runs) + 1
  BY <1>1
<1> QED BY <1>1, <1>2, Elements DEF RunsNest

\* One ends, with the frames above its target gone or with the stack as it is.
LEMMA EndedRun ==
  ASSUME Shape, RunsNest, runs # <<>>, runs' = Front(runs),
         Len(frames') \in {Last(runs).target, Len(frames)}
  PROVE  runs' \in Seq(RunSet) /\ RunsNest'
<1>1. /\ runs' \in Seq(RunSet) /\ Len(runs') = Len(runs) - 1
      /\ \A k \in 1 .. Len(runs) - 1 : runs'[k] = runs[k]
  BY FrontAndLast DEF Shape
<1>2. DOMAIN runs' = 1 .. Len(runs) - 1 /\ Len(runs) \in DOMAIN runs
  BY <1>1, Elements, Current
<1>3. Last(runs).target = runs[Len(runs)].target
  BY Current
<1>4. \A k \in 1 .. Len(runs) - 1 : /\ k \in DOMAIN runs /\ k < Len(runs)
                                    /\ runs[k].target \in Nat
  BY <1>2, Elements
<1>5. \A k \in 1 .. Len(runs) - 1 : /\ runs[k].target < Last(runs).target
                                    /\ runs[k].target < Len(frames)
  BY <1>2, <1>3, <1>4 DEF RunsNest
<1>6. \A k \in DOMAIN runs' : runs'[k].target < Len(frames')
  BY <1>1, <1>2, <1>5
<1>7. \A k, l \in DOMAIN runs' : k < l => runs'[k].target < runs'[l].target
  <2> SUFFICES ASSUME NEW k \in DOMAIN runs', NEW l \in DOMAIN runs', k < l
               PROVE  runs'[k].target < runs'[l].target
    OBVIOUS
  <2>1. k \in DOMAIN runs /\ l \in DOMAIN runs
    BY <1>2, <1>4
  <2>2. runs'[k] = runs[k] /\ runs'[l] = runs[l]
    BY <1>1, <1>2
  <2> QED BY <2>1, <2>2 DEF RunsNest
<1> QED BY <1>1, <1>6, <1>7 DEF RunsNest

-----------------------------------------------------------------------------
(* The order of the handler frames.                                        *)

LEMMA SameHandlers ==
  ASSUME Shape, DepthsNest, handler_frames' = handler_frames,
         Len(frames') \in Nat, Len(frames') >= Len(frames)
  PROVE  DepthsNest'
<1>1. \A k \in DOMAIN handler_frames : handler_frames[k].frame_depth \in 1 .. Len(frames')
  BY Elements DEF DepthsNest
<1> QED BY <1>1 DEF DepthsNest

LEMMA PushedHandler ==
  ASSUME Shape, DepthsNest, Len(frames) \in Nat \ {0}, Len(frames') = Len(frames),
         NEW h \in HandlerSet, h.frame_depth = Len(frames),
         handler_frames' = Append(handler_frames, h)
  PROVE  handler_frames' \in Seq(HandlerSet) /\ DepthsNest'
<1>1. /\ handler_frames' \in Seq(HandlerSet)
      /\ Len(handler_frames') = Len(handler_frames) + 1
      /\ handler_frames'[Len(handler_frames) + 1] = h
      /\ \A k \in 1 .. Len(handler_frames) : handler_frames'[k] = handler_frames[k]
  BY DEF Shape
<1>2. DOMAIN handler_frames' = 1 .. Len(handler_frames) + 1
  BY <1>1
<1>3. \A k \in 1 .. Len(handler_frames) :
        k \in DOMAIN handler_frames /\ handler_frames[k].frame_depth \in 1 .. Len(frames)
  BY Elements DEF DepthsNest
<1>4. \A k \in DOMAIN handler_frames' : handler_frames'[k].frame_depth \in 1 .. Len(frames')
  BY <1>1, <1>2, <1>3, Elements
<1>5. ASSUME NEW k \in DOMAIN handler_frames', NEW l \in DOMAIN handler_frames', k < l
      PROVE  handler_frames'[k].frame_depth <= handler_frames'[l].frame_depth
  <2>1. CASE l = Len(handler_frames) + 1
    BY <2>1, <1>1, <1>4
  <2>2. CASE l \in 1 .. Len(handler_frames)
    BY <2>2, <1>1, <1>2, <1>3, <1>5 DEF DepthsNest
  <2> QED BY <2>1, <2>2, <1>2, Elements
<1> QED BY <1>1, <1>4, <1>5 DEF DepthsNest

\* The first m handler frames, on a stack that still holds their calls.
LEMMA FewerHandlers ==
  ASSUME Shape, DepthsNest, NEW m \in 0 .. Len(handler_frames),
         DOMAIN handler_frames' = 1 .. m,
         \A k \in 1 .. m : /\ handler_frames'[k] = handler_frames[k]
                           /\ handler_frames[k].frame_depth <= Len(frames'),
         Len(frames') \in Nat
  PROVE  DepthsNest'
<1>1. \A k \in 1 .. m : k \in DOMAIN handler_frames
  BY Elements
<1>2. \A k \in 1 .. m : handler_frames[k].frame_depth \in 1 .. Len(frames')
  BY <1>1, Elements DEF DepthsNest
<1> QED BY <1>1, <1>2 DEF DepthsNest

LEMMA KeptNest ==
  ASSUME Shape, DepthsNest, NEW n \in Nat, handler_frames' = HandlersUpTo(n),
         Len(frames') = n
  PROVE  handler_frames' \in Seq(HandlerSet) /\ DepthsNest'
<1>1. PICK m \in 0 .. Len(handler_frames) :
           /\ handler_frames' \in Seq(HandlerSet) /\ Len(handler_frames') = m
           /\ \A k \in 1 .. m : /\ handler_frames'[k] = handler_frames[k]
                                 /\ handler_frames[k].frame_depth <= n
  BY KeptHandlers
<1>2. DOMAIN handler_frames' = 1 .. m
  BY <1>1
<1> QED BY <1>1, <1>2, FewerHandlers

\* The last handler frame is used or given up.
LEMMA PoppedNest ==
  ASSUME Shape, DepthsNest, handler_frames # <<>>,
         handler_frames' = Front(handler_frames),
         Len(frames') \in {Last(handler_frames).frame_depth, Len(frames)}
  PROVE  handler_frames' \in Seq(HandlerSet) /\ DepthsNest'
<1> DEFINE n == Len(handler_frames)
<1>1. /\ handler_frames' \in Seq(HandlerSet) /\ Len(handler_frames') = n - 1
      /\ \A k \in 1 .. n - 1 : handler_frames'[k] = handler_frames[k]
      /\ n \in DOMAIN handler_frames /\ Last(handler_frames) = handler_frames[n]
  BY PoppedHandler
<1>2. n \in Nat \ {0} /\ DOMAIN handler_frames' = 1 .. n - 1
  BY <1>1, Elements
<1>3. handler_frames[n].frame_depth \in 1 .. Len(frames) /\ Len(frames) \in Nat
  BY <1>1, Elements DEF DepthsNest
<1>4. \A k \in 1 .. n - 1 : k \in DOMAIN handler_frames /\ k < n
  BY <1>2, Elements
<1>a. \A k \in 1 .. n - 1 : handler_frames[k].frame_depth <= handler_frames[n].frame_depth
  BY <1>1, <1>4 DEF DepthsNest
<1>b. \A k \in 1 .. n - 1 : handler_frames[k].frame_depth \in 1 .. Len(frames)
  BY <1>4 DEF DepthsNest
<1>5. \A k \in 1 .. n - 1 : /\ handler_frames[k].frame_depth <= handler_frames[n].frame_depth
                            /\ handler_frames[k].frame_depth <= Len(frames)
  BY <1>3, <1>a, <1>b
<1>6. Len(frames') \in Nat /\ n - 1 \in 0 .. n
  BY <1>1, <1>2, <1>3
<1> HIDE DEF n
<1>7. \A k \in 1 .. n - 1 : handler_frames[k].frame_depth <= Len(frames')
  BY <1>1, <1>5
<1> QED BY <1>1, <1>2, <1>6, <1>7, FewerHandlers DEF n

-----------------------------------------------------------------------------
(* Every step keeps the shape and the order.                               *)

StateInv == Shape /\ RunsNest /\ DepthsNest /\ Len(frames) <= MaxDepth

\* Steps that leave the calls alone: the top frame moves or nothing does.
LEMMA MovedShape ==
  ASSUME StateInv, runs' = runs, gens' = gens,
         \/ frames' = frames
         \/ runs # <<>> /\ \E pc \in Position : Goto(pc),
         \/ handler_frames' = handler_frames
         \/ /\ handler_frames # <<>>
            /\ handler_frames' = Front(handler_frames)
         \/ \E h \in HandlerSet : /\ runs # <<>>
                                  /\ h.frame_depth = Len(frames)
                                  /\ handler_frames' = Append(handler_frames, h),
         pending_exception' \in Exc \cup {None}, pending_exc_obj' \in ExcType \cup {None},
         err' \in Exc \cup {Trap, None}, throw_obj' \in ExcType \cup {None}
  PROVE  StateInv'
<1> USE DEF StateInv
<1>1. frames' \in Seq(Position) /\ Len(frames') = Len(frames) /\ Len(frames) \in Nat
  BY GotoShape, Elements DEF Shape
<1>2. handler_frames' \in Seq(HandlerSet) /\ DepthsNest'
  <2>1. CASE handler_frames' = handler_frames
    BY <1>1, <2>1, SameHandlers DEF Shape
  <2>2. CASE handler_frames # <<>> /\ handler_frames' = Front(handler_frames)
    BY <1>1, <2>2, PoppedNest
  <2>3. ASSUME NEW h \in HandlerSet, runs # <<>>, h.frame_depth = Len(frames),
               handler_frames' = Append(handler_frames, h)
        PROVE  handler_frames' \in Seq(HandlerSet) /\ DepthsNest'
    BY <1>1, <2>3, PushedHandler, Current
  <2> QED BY <2>1, <2>2, <2>3
<1>3. Shape'
  BY <1>1, <1>2 DEF Shape
<1>4. RunsNest'
  BY <1>1 DEF RunsNest
<1> QED BY <1>1, <1>2, <1>3, <1>4

\* The handler frame that a search looks at.
LEMMA TopHandler ==
  ASSUME StateInv, HandlerInRun
  PROVE  /\ handler_frames # <<>> /\ Last(handler_frames).try \in Try
         /\ Len(handler_frames) \in DOMAIN handler_frames
         /\ Last(handler_frames) = handler_frames[Len(handler_frames)]
<1>1. handler_frames # <<>> /\ handler_frames \in Seq(HandlerSet)
  BY DEF HandlerInRun, StateInv, Shape
<1>2. Last(handler_frames) \in HandlerSet
  BY <1>1, FrontAndLast
<1>3. Len(handler_frames) \in DOMAIN handler_frames
  BY <1>1
<1> QED BY <1>1, <1>2, <1>3, FrontAndLast DEF HandlerSet

\* Unwinding to a handler frame of the innermost run stays above that run.
LEMMA UnwoundAbove ==
  ASSUME StateInv, HandlerInRun, NEW region \in RegionSet,
         Unwind(Last(handler_frames), region)
  PROVE  Len(frames') > Last(runs).target
<1> DEFINE n == Len(handler_frames)
<1>1. n \in DOMAIN handler_frames /\ Last(handler_frames) = handler_frames[n]
  BY TopHandler
<1> HIDE DEF n
<1>2. Len(frames') = Last(handler_frames).frame_depth
  BY <1>1, UnwindShape DEF StateInv
<1> QED BY <1>2 DEF HandlerInRun

\* A handler or a finally block takes over.
LEMMA UnwoundShape ==
  ASSUME StateInv, runs # <<>>, HandlerInRun, runs' = runs, gens' = gens,
         NEW region \in RegionSet, Unwind(Last(handler_frames), region),
         handler_frames' = Front(handler_frames),
         pending_exception' \in Exc \cup {None}, pending_exc_obj' \in ExcType \cup {None},
         err' \in Exc \cup {Trap, None}, throw_obj' \in ExcType \cup {None}
  PROVE  StateInv' /\ Len(frames') > Last(runs).target
<1> USE DEF StateInv
<1> DEFINE n == Len(handler_frames)
<1>0. handler_frames # <<>>
  BY DEF HandlerInRun
<1>1. n \in DOMAIN handler_frames /\ Last(handler_frames) = handler_frames[n]
  BY <1>0, PoppedHandler
<1>2. /\ frames' \in Seq(Position)
      /\ Len(frames') = Last(handler_frames).frame_depth
  <2> HIDE DEF n
  <2> QED BY <1>1, UnwindShape
<1>3. Last(handler_frames).frame_depth \in 1 .. Len(frames) /\ Len(frames) \in Nat
  BY <1>1, Elements DEF DepthsNest
<1>4. Len(frames') > Last(runs).target
  BY <1>2 DEF HandlerInRun
<1>5. handler_frames' \in Seq(HandlerSet) /\ DepthsNest'
  BY <1>0, <1>2, PoppedNest
<1>6. RunsNest'
  <2>1. \A k \in DOMAIN runs : runs[k].target \in Nat /\ runs[k].target <= Last(runs).target
    BY TargetsBelow
  <2>2. Last(runs).target \in Nat /\ Len(frames') \in Nat
    BY <1>2, <1>3, Current
  <2> QED BY <1>4, <2>1, <2>2 DEF RunsNest
<1>7. Len(frames') <= MaxDepth
  BY <1>2, <1>3
<1>8. Shape'
  BY <1>2, <1>5 DEF Shape
<1> QED BY <1>4, <1>5, <1>6, <1>7, <1>8

\* A function is called, a callback invoked or a generator resumed.
LEMMA DeeperShape ==
  ASSUME StateInv, runs # <<>>, handler_frames' = handler_frames, gens' = gens,
         NEW pc \in Position, frames' = Append(frames, pc), Len(frames) < MaxDepth,
         \/ runs' = runs
         \/ \E r \in RunSet : r.target = Len(frames) /\ runs' = Append(runs, r),
         UNCHANGED pendingVars, UNCHANGED errVars
  PROVE  StateInv'
<1> USE DEF StateInv
<1>1. frames' \in Seq(Position) /\ Len(frames') = Len(frames) + 1 /\ Len(frames) \in Nat
  BY PushShape, Elements
<1>2. runs' \in Seq(RunSet) /\ RunsNest'
  <2>1. CASE runs' = runs
    <3>1. \A k \in DOMAIN runs : runs[k].target < Len(frames')
      BY <1>1, Elements DEF RunsNest
    <3> QED BY <2>1, <3>1 DEF RunsNest, Shape
  <2>2. ASSUME NEW r \in RunSet, r.target = Len(frames), runs' = Append(runs, r)
        PROVE  runs' \in Seq(RunSet) /\ RunsNest'
    BY <1>1, <2>2, BegunRun
  <2> QED BY <2>1, <2>2
<1>3. DepthsNest'
  BY <1>1, SameHandlers
<1>4. Len(frames') <= MaxDepth
  BY <1>1
<1>5. Shape'
  BY <1>1, <1>2 DEF Shape, pendingVars, errVars
<1> QED BY <1>2, <1>3, <1>4, <1>5

\* The stack is cut to n frames, with the handler frames of the rest.
LEMMA ShallowerShape ==
  ASSUME StateInv, runs # <<>>, NEW n \in Nat, n < Len(frames),
         \/ frames' = Front(frames) /\ n = Len(frames) - 1
         \/ frames' = SubSeq(frames, 1, n),
         handler_frames' = HandlersUpTo(n),
         \/ runs' = runs /\ n > Last(runs).target
         \/ runs' = Front(runs) /\ n = Last(runs).target,
         gens' \in [Gen -> [state : 0 .. 2, saved : Position]],
         UNCHANGED pendingVars,
         err' \in Exc \cup {Trap, None}, throw_obj' \in ExcType \cup {None}
  PROVE  StateInv' /\ Len(frames') = n
<1> USE DEF StateInv
<1>1. frames' \in Seq(Position) /\ Len(frames') = n /\ Len(frames) \in Nat
  <2>a. Len(frames) \in Nat
    BY Elements
  <2>1. Len(frames) \in Nat /\ n \in 0 .. Len(frames)
    BY <2>a
  <2>2. CASE frames' = Front(frames) /\ n = Len(frames) - 1
    BY <2>1, <2>2, PopShape
  <2>3. CASE frames' = SubSeq(frames, 1, n)
    BY <2>1, <2>3, CutShape
  <2> QED BY <2>1, <2>2, <2>3
<1>2. handler_frames' \in Seq(HandlerSet) /\ DepthsNest'
  BY <1>1, KeptNest
<1>3. runs' \in Seq(RunSet) /\ RunsNest'
  <2>1. CASE runs' = runs /\ n > Last(runs).target
    <3>1. \A k \in DOMAIN runs : runs[k].target \in Nat /\ runs[k].target <= Last(runs).target
      BY TargetsBelow
    <3>2. Last(runs).target \in Nat
      BY Current
    <3>3. \A k \in DOMAIN runs : runs[k].target < Len(frames')
      BY <1>1, <2>1, <3>1, <3>2
    <3> QED BY <2>1, <3>3 DEF RunsNest, Shape
  <2>2. CASE runs' = Front(runs) /\ n = Last(runs).target
    BY <1>1, <2>2, EndedRun
  <2> QED BY <2>1, <2>2
<1>4. Len(frames') <= MaxDepth
  BY <1>1
<1>5. Shape'
  BY <1>1, <1>2, <1>3 DEF Shape, pendingVars
<1> QED BY <1>1, <1>2, <1>3, <1>4, <1>5

LEMMA Regions ==
  ASSUME NEW s \in Try, NEW phase \in Phases, NEW why \in Exc \cup {None}
  PROVE  Region(s, phase, why) \in RegionSet
  BY DEF Region, RegionSet

\* What a step of the program does to the state.
LEMMA StateInvKept == StateInv /\ [Next]_vars => StateInv'
<1> SUFFICES ASSUME StateInv, [Next]_vars PROVE StateInv'
  OBVIOUS
<1> USE DEF StateInv
<1>0. /\ pending_exception \in Exc \cup {None} /\ pending_exc_obj \in ExcType \cup {None}
      /\ err \in Exc \cup {Trap, None} /\ throw_obj \in ExcType \cup {None}
      /\ gens \in [Gen -> [state : 0 .. 2, saved : Position]]
  BY DEF Shape
<1>1. CASE UNCHANGED vars
  BY <1>1 DEF vars, pendingVars, errVars, Shape, RunsNest, DepthsNest
<1>2. ASSUME NEW s \in Try, EnterTry(s) PROVE StateInv'
  <2> DEFINE h == [frame_depth |-> Len(frames), try |-> s, pos |-> Here]
             pc == Append(Here, Region(s, "body", None))
  <2>1. runs # <<>> /\ Here \in Position /\ Len(frames) \in Nat
    BY <1>2, Current DEF EnterTry, Stepping
  <2>2. h \in HandlerSet /\ h.frame_depth = Len(frames)
    BY <2>1 DEF HandlerSet
  <2>3. pc \in Position
    BY <2>1, Regions DEF Phases, Position
  <2>4. Goto(pc) /\ handler_frames' = Append(handler_frames, h)
    BY <1>2 DEF EnterTry
  <2>5. runs' = runs /\ gens' = gens /\ UNCHANGED <<pendingVars, errVars>>
    BY <1>2 DEF EnterTry
  <2> HIDE DEF h, pc
  <2> QED BY <1>0, <2>1, <2>2, <2>3, <2>4, <2>5, MovedShape DEF pendingVars, errVars
<1>3. ASSUME LeaveTry PROVE StateInv'
  <2>1. runs # <<>> /\ Here \in Position /\ Here # <<>>
    BY <1>3, Current DEF LeaveTry, Stepping, At
  <2>2. Following(Here) \in Position
    BY <2>1, FollowingShape
  <2>3. runs' = runs /\ gens' = gens /\ Goto(Following(Here))
        /\ UNCHANGED <<pendingVars, errVars>>
    BY <1>3 DEF LeaveTry
  <2>4. \/ handler_frames' = handler_frames
        \/ handler_frames # <<>> /\ handler_frames' = Front(handler_frames)
    BY <1>3 DEF LeaveTry
  <2> QED BY <1>0, <2>1, <2>2, <2>3, <2>4, MovedShape DEF pendingVars, errVars
<1>4. ASSUME LeaveBlock PROVE StateInv'
  <2>1. runs # <<>> /\ Here \in Position /\ Here # <<>>
    BY <1>4, Current DEF LeaveBlock, Stepping, At
  <2>2. Following(Here) \in Position
    BY <2>1, FollowingShape
  <2> QED BY <1>0, <1>4, <2>1, <2>2, MovedShape DEF LeaveBlock, pendingVars, errVars
<1>5. ASSUME EndFinally PROVE StateInv'
  <2>1. runs # <<>> /\ Here \in Position /\ Here # <<>>
    BY <1>5, Current DEF EndFinally, Stepping, At
  <2>2. Following(Here) \in Position
    BY <2>1, FollowingShape
  <2>3. frames' = frames \/ Goto(Following(Here))
    BY <1>5 DEF EndFinally
  <2>4. /\ pending_exception' \in Exc \cup {None} /\ pending_exc_obj' \in ExcType \cup {None}
        /\ err' \in Exc \cup {Trap, None} /\ throw_obj' \in ExcType \cup {None}
    BY <1>0, <1>5 DEF EndFinally, errVars
  <2>5. runs' = runs /\ gens' = gens /\ handler_frames' = handler_frames
    BY <1>5 DEF EndFinally
  <2> QED BY <2>1, <2>2, <2>3, <2>4, <2>5, MovedShape
<1>6. ASSUME Break PROVE StateInv'
  <2>1. runs # <<>> /\ Here \in Position
    BY <1>6, Current DEF Break, Stepping
  <2>2. PICK n \in 1 .. Len(Here) : Goto(SubSeq(Here, 1, n - 1))
    BY <1>6 DEF Break
  <2> DEFINE k == n - 1
  <2>3. k \in 0 .. Len(Here)
    BY <2>1 DEF Position
  <2>4. SubSeq(Here, 1, k) \in Position
    <3> HIDE DEF k
    <3> QED BY <2>1, <2>3, Prefix DEF Position
  <2> QED BY <1>0, <1>6, <2>1, <2>2, <2>4, MovedShape DEF Break, pendingVars, errVars
<1>7. ASSUME NEW e \in Exc, Raise(e) PROVE StateInv'
  <2>1. throw_obj' \in ExcType \cup {None} /\ err' \in Exc
    BY <1>0, <1>7 DEF Raise, Exc
  <2> QED BY <1>0, <1>7, <2>1, MovedShape DEF Raise, pendingVars
<1>8. ASSUME Call PROVE StateInv'
  <2>1. << >> \in Position
    BY DEF Position
  <2>2. Len(frames) < MaxDepth
    BY <1>8, Elements DEF Call
  <2> QED BY <1>8, <2>1, <2>2, DeeperShape DEF Call, Stepping
<1>9. ASSUME StackOverflow PROVE StateInv'
  BY <1>0, <1>9, MovedShape DEF StackOverflow, pendingVars
<1>10. ASSUME Ret PROVE StateInv'
  <2> DEFINE n == Len(frames) - 1
  <2>1. runs # <<>> /\ n \in Nat /\ n < Len(frames) /\ Last(runs).target \in 0 .. n
        /\ Last(runs) \in RunSet
    BY <1>10, Current DEF Ret, Stepping
  <2>2. gens' \in [Gen -> [state : 0 .. 2, saved : Position]]
    BY <1>0, <1>10 DEF Ret
  <2>3. \/ runs' = runs /\ n > Last(runs).target
        \/ runs' = Front(runs) /\ n = Last(runs).target
    BY <1>10, <2>1 DEF Ret
  <2>4. /\ frames' = Front(frames) /\ handler_frames' = HandlersUpTo(n)
        /\ UNCHANGED <<pendingVars, errVars>>
    BY <1>10 DEF Ret
  <2>5. err' \in Exc \cup {Trap, None} /\ throw_obj' \in ExcType \cup {None}
    BY <1>0, <2>4 DEF errVars
  <2>6. n = Len(frames) - 1
    OBVIOUS
  <2> HIDE DEF n
  <2> QED BY <2>1, <2>2, <2>3, <2>4, <2>5, <2>6, ShallowerShape
<1>11. ASSUME NEW kind \in {"native", "jit"}, Invoke(kind) PROVE StateInv'
  <2> DEFINE r == [kind |-> kind, target |-> Len(frames), gen |-> None]
  <2>1. r \in RunSet /\ r.target = Len(frames)
    BY Elements DEF RunSet
  <2>2. << >> \in Position
    BY DEF Position
  <2>3. runs' = Append(runs, r)
    BY <1>11 DEF Invoke
  <2> HIDE DEF r
  <2> QED BY <1>11, <2>1, <2>2, <2>3, DeeperShape DEF Invoke, Stepping
<1>12. ASSUME NEW g \in Gen, GenNext(g) PROVE StateInv'
  <2> DEFINE r == [kind |-> "gen", target |-> Len(frames), gen |-> g]
  <2>1. r \in RunSet /\ r.target = Len(frames)
    BY Elements DEF RunSet
  <2>2. gens[g].saved \in Position
    BY <1>0
  <2>3. runs' = Append(runs, r)
    BY <1>12 DEF GenNext
  <2>4. Len(frames) < MaxDepth
    BY <1>12, Elements DEF GenNext
  <2> HIDE DEF r
  <2> QED BY <1>12, <2>1, <2>2, <2>3, <2>4, DeeperShape DEF GenNext, Stepping
<1>13. ASSUME Yield PROVE StateInv'
  <2> DEFINE n == Len(frames) - 1
  <2>1. runs # <<>> /\ n \in Nat /\ n < Len(frames) /\ Here \in Position
        /\ Last(runs) \in RunSet /\ Last(runs).target \in 0 .. n
    BY <1>13, Current DEF Yield, Stepping
  <2>a. Last(runs).kind = "gen"
        /\ gens' = [gens EXCEPT ![Last(runs).gen] = [state |-> 1, saved |-> Here]]
    BY <1>13 DEF Yield
  <2>b. Last(runs).gen \in Gen
    BY <2>1, <2>a DEF RunSet
  <2>2. gens' \in [Gen -> [state : 0 .. 2, saved : Position]]
    BY <1>0, <2>1, <2>a, <2>b
  <2>3. runs' = Front(runs) /\ n = Last(runs).target
    BY <1>13, <2>1 DEF Yield
  <2>4. /\ frames' = Front(frames) /\ handler_frames' = HandlersUpTo(n)
        /\ UNCHANGED <<pendingVars, errVars>>
    BY <1>13 DEF Yield
  <2>5. err' \in Exc \cup {Trap, None} /\ throw_obj' \in ExcType \cup {None}
    BY <1>0, <2>4 DEF errVars
  <2>6. n = Len(frames) - 1
    OBVIOUS
  <2> HIDE DEF n
  <2> QED BY <2>1, <2>2, <2>3, <2>4, <2>5, <2>6, ShallowerShape
<1>14. ASSUME Propagate PROVE StateInv'
  <2>0. CASE DropHandler
    BY <1>0, <2>0, MovedShape DEF DropHandler, HandlerInRun, pendingVars, errVars
  <2>1. HandlerInRun => Last(handler_frames).try \in Try
    BY TopHandler
  <2>2. CASE Catch
    <3>1. Region(Last(handler_frames).try, "handler", None) \in RegionSet
      BY <2>1, <2>2, Regions DEF Catch, Phases
    <3> QED BY <2>2, <3>1, UnwoundShape DEF Catch, Searching, Taken
  <2>3. CASE ToFinally
    <3>1. err \in Exc
      BY <1>0, <2>3 DEF ToFinally, Searching
    <3>2. Region(Last(handler_frames).try, "finally", err) \in RegionSet
      BY <2>1, <2>3, <3>1, Regions DEF ToFinally, Phases
    <3> QED BY <1>0, <2>3, <3>1, <3>2, UnwoundShape DEF ToFinally, Searching, Taken
  <2>4. CASE Escape
    <3>1. runs # <<>> /\ Last(runs) \in RunSet /\ Last(runs).target \in Nat
          /\ Last(runs).target < Len(frames)
      BY <2>4, Current DEF Escape, Searching
    <3>2. err' \in Exc \cup {Trap, None} /\ throw_obj' \in ExcType \cup {None}
      BY <1>0, <2>4 DEF Escape, Taken
    <3>3. CASE Last(runs).kind = "gen"
      <4>1. gens' \in [Gen -> [state : 0 .. 2, saved : Position]]
        BY <1>0, <2>4, <3>3 DEF Escape
      <4>2. /\ frames' = SubSeq(frames, 1, Last(runs).target)
            /\ handler_frames' = HandlersUpTo(Last(runs).target)
            /\ runs' = Front(runs) /\ UNCHANGED pendingVars
        BY <2>4, <3>3 DEF Escape
      <4> QED BY <3>1, <3>2, <4>1, <4>2, ShallowerShape
    <3>4. CASE Last(runs).kind # "gen"
      <4>1. /\ UNCHANGED <<frames, handler_frames, gens, pendingVars>>
            /\ runs' = Front(runs)
        BY <2>4, <3>4 DEF Escape
      <4>2. runs' \in Seq(RunSet) /\ RunsNest'
        BY <3>1, <4>1, EndedRun
      <4>3. Shape' /\ DepthsNest'
        BY <3>2, <4>1, <4>2 DEF Shape, DepthsNest, pendingVars
      <4> QED BY <4>1, <4>2, <4>3
    <3> QED BY <3>3, <3>4
  <2> QED BY <1>14, <2>0, <2>2, <2>3, <2>4 DEF Propagate
<1> QED
  BY <1>1, <1>2, <1>3, <1>4, <1>5, <1>6, <1>7, <1>8, <1>9, <1>10, <1>11, <1>12,
     <1>13, <1>14 DEF Next

LEMMA InitInv == Init => StateInv
<1> SUFFICES ASSUME Init PROVE StateInv
  OBVIOUS
<1>1. /\ frames = << <<>> >> /\ handler_frames = <<>>
      /\ runs = << [kind |-> "main", target |-> 0, gen |-> None] >>
      /\ gens = [g \in Gen |-> [state |-> 0, saved |-> <<>>]]
      /\ pending_exception = None /\ pending_exc_obj = None
      /\ err = None /\ throw_obj = None
  BY DEF Init
<1>2. <<>> \in Position
  BY DEF Position
<1>3. Shape
  BY <1>1, <1>2 DEF Shape, RunSet
<1>4. RunsNest /\ DepthsNest
  BY <1>1 DEF RunsNest, DepthsNest
<1>5. Len(frames) <= MaxDepth
  BY <1>1
<1> QED BY <1>3, <1>4, <1>5 DEF StateInv

THEOREM StateInvariant == Spec => []StateInv
  BY InitInv, StateInvKept, PTL DEF Spec

\* The state keeps its shape; in particular no handler frame outlives the
\* call frame it belongs to, whatever the program does.
THEOREM TypeCorrect == Spec => []TypeOK
<1>1. StateInv => TypeOK
  <2> SUFFICES ASSUME StateInv PROVE TypeOK
    OBVIOUS
  <2> USE DEF StateInv
  <2>1. ASSUME NEW i \in DOMAIN frames, NEW j \in DOMAIN frames[i]
        PROVE  frames[i][j] \in RegionSet
    BY DEF Shape, Position
  <2>2. \A r \in RegionSet : r.try \in Try /\ r.phase \in Phases /\ r.why \in Exc \cup {None}
    BY DEF RegionSet
  <2>3. \A k \in DOMAIN handler_frames : /\ handler_frames[k].frame_depth \in DOMAIN frames
                                        /\ handler_frames[k].try \in Try
    BY Elements DEF DepthsNest
  <2>4. \A k \in DOMAIN runs : runs[k].target \in 0 .. Len(frames)
    BY Elements DEF RunsNest
  <2>5. \A g \in Gen : gens[g].state \in 0 .. 2
    BY DEF Shape
  <2> QED BY <2>1, <2>2, <2>3, <2>4, <2>5 DEF TypeOK, Shape
<1> QED BY <1>1, StateInvariant, PTL

-----------------------------------------------------------------------------
(* The object that travels with an exception.                              *)

Carried(e) == {None} \cup (IF e.thrown THEN {e.type} ELSE {})

ObjectInv ==
  /\ err = None => throw_obj = None
  /\ err # None => throw_obj \in Carried(err)
  /\ pending_exception # None => pending_exc_obj \in Carried(pending_exception)

\* ObjectNeverWrong, whatever the program does: the object travels from the
\* raise statement to the handler with its own exception, through the pending
\* slot if need be, and is gone when a native or a compiled caller passes the
\* exception on.
THEOREM ObjectNeverWrongSafe == Spec => []ObjectNeverWrong
<1>1. Init => ObjectInv
  BY DEF Init, ObjectInv
<1>2. ObjectInv /\ [Next]_vars => ObjectInv'
  <2> SUFFICES ASSUME ObjectInv, [Next]_vars PROVE ObjectInv'
    OBVIOUS
  <2> USE DEF ObjectInv, pendingVars, errVars
  <2>1. CASE UNCHANGED vars
    BY <2>1 DEF vars
  <2>2. ASSUME NEW s \in Try, EnterTry(s) PROVE ObjectInv'
    BY <2>2 DEF EnterTry
  <2>3. CASE LeaveTry \/ LeaveBlock \/ Break
    BY <2>3 DEF LeaveTry, LeaveBlock, Break
  <2>4. CASE EndFinally
    BY <2>4 DEF EndFinally, Stepping
  <2>5. ASSUME NEW e \in Exc, Raise(e) PROVE ObjectInv'
    BY <2>5 DEF Raise, Stepping, Carried
  <2>6. CASE Call \/ Ret \/ Yield
    BY <2>6 DEF Call, Ret, Yield
  <2>7. CASE StackOverflow
    BY <2>7 DEF StackOverflow, Stepping, Carried
  <2>8. ASSUME NEW kind \in {"native", "jit"}, Invoke(kind) PROVE ObjectInv'
    BY <2>8 DEF Invoke
  <2>9. ASSUME NEW g \in Gen, GenNext(g) PROVE ObjectInv'
    BY <2>9 DEF GenNext
  <2>10. CASE Catch \/ DropHandler
    BY <2>10 DEF Catch, DropHandler, Taken
  <2>11. CASE ToFinally
    BY <2>11 DEF ToFinally, Searching, Taken
  <2>12. CASE Escape
    BY <2>12 DEF Escape, Taken, Carried
  <2> QED BY <2>1, <2>2, <2>3, <2>4, <2>5, <2>6, <2>7, <2>8, <2>9, <2>10, <2>11, <2>12
          DEF Next, Propagate
<1>3. ObjectInv => ObjectNeverWrong
  BY DEF ObjectInv, ObjectNeverWrong, Searching, Carried
<1> QED BY <1>1, <1>2, <1>3, PTL DEF Spec

-----------------------------------------------------------------------------
(* The frames that a nested run_until returns to.                          *)

\* A handler or a finally block that takes over is above the innermost run.
LEMMA DeliveredAbove ==
  ASSUME StateInv, Next, Searching, err' = None, runs' = runs
  PROVE  Len(frames') > Last(runs).target
<1>1. err # None /\ runs # <<>>
  BY DEF Searching
<1>2. Catch \/ ToFinally \/ DropHandler \/ Escape
  BY <1>1 DEF Next, Propagate, EnterTry, LeaveTry, LeaveBlock, EndFinally, Break,
     Raise, Call, StackOverflow, Ret, Invoke, GenNext, Yield, Stepping
<1>3. ~DropHandler
  BY <1>1 DEF DropHandler, errVars
<1>4. ~Escape
  <2> SUFFICES ASSUME Escape PROVE FALSE
    OBVIOUS
  <2>1. runs \in Seq(RunSet) /\ runs' = Front(runs)
    BY DEF Escape, StateInv, Shape
  <2>2. Len(runs') = Len(runs) - 1 /\ Len(runs) \in Nat
    BY <1>1, <2>1, FrontAndLast
  <2> QED BY <2>2
<1>5. CASE Catch
  <2>1. Region(Last(handler_frames).try, "handler", None) \in RegionSet
    BY <1>5, TopHandler, Regions DEF Catch, Phases
  <2> QED BY <1>5, <2>1, UnwoundAbove DEF Catch
<1>6. CASE ToFinally
  <2>1. err \in Exc
    BY <1>1, <1>6 DEF ToFinally, StateInv, Shape
  <2>2. Region(Last(handler_frames).try, "finally", err) \in RegionSet
    BY <1>6, <2>1, TopHandler, Regions DEF ToFinally, Phases
  <2> QED BY <1>6, <2>2, UnwoundAbove DEF ToFinally
<1> QED BY <1>2, <1>3, <1>4, <1>5, <1>6

\* DriverNotSkipped, whatever the program does: while a native, a generator
\* driver or compiled code waits for the run_until it started, no exception
\* unwinds the frames below it.
THEOREM DriverNotSkippedSafe == Spec => DriverNotSkipped
<1>1. StateInv /\ [Next]_vars =>
        (Searching /\ err' = None /\ runs' = runs => Len(frames') > Last(runs).target)
  BY DeliveredAbove DEF Searching, vars
<1> QED BY <1>1, StateInvariant, PTL DEF Spec, DriverNotSkipped

NoJit == \A k \in DOMAIN runs : runs[k].kind # "jit"

LEMMA NoJitKept ==
  ASSUME "jit" \notin Uses
  PROVE  /\ Init => NoJit
         /\ StateInv /\ NoJit /\ [Next]_vars => NoJit'
<1> USE DEF NoJit
<1>1. Init => NoJit
  BY DEF Init
<1>2. StateInv /\ NoJit /\ [Next]_vars => NoJit'
  <2> SUFFICES ASSUME StateInv, NoJit, [Next]_vars PROVE NoJit'
    OBVIOUS
  <2>1. CASE runs' = runs
    BY <2>1
  <2>2. ASSUME runs # <<>>, runs' = Front(runs) PROVE NoJit'
    <3>1. /\ runs' \in Seq(RunSet) /\ Len(runs') = Len(runs) - 1 /\ Len(runs) \in Nat
          /\ \A k \in 1 .. Len(runs) - 1 : runs'[k] = runs[k]
      BY <2>2, FrontAndLast DEF StateInv, Shape
    <3> QED BY <3>1, Elements DEF StateInv
  <2>3. ASSUME NEW kind \in {"native", "gen"}, NEW target, NEW gen,
               runs' = Append(runs, [kind |-> kind, target |-> target, gen |-> gen])
        PROVE  NoJit'
    <3>1. runs \in Seq(RunSet)
      BY DEF StateInv, Shape
    <3>2. DOMAIN runs' = 1 .. Len(runs) + 1
      BY <2>3, <3>1
    <3>3. /\ runs'[Len(runs) + 1].kind # "jit"
          /\ \A k \in 1 .. Len(runs) : runs'[k] = runs[k] /\ k \in DOMAIN runs
      BY <2>3, <3>1
    <3>4. \A k \in 1 .. Len(runs) + 1 : k \in 1 .. Len(runs) \/ k = Len(runs) + 1
      BY <3>1
    <3> QED BY <3>2, <3>3, <3>4
  <2>4. ASSUME NEW kind \in {"native", "jit"}, Invoke(kind) PROVE NoJit'
    BY <2>3, <2>4 DEF Invoke
  <2>5. ASSUME NEW g \in Gen, GenNext(g) PROVE NoJit'
    BY <2>3, <2>5 DEF GenNext
  <2>6. CASE Ret
    BY <2>1, <2>2, <2>6 DEF Ret, Stepping
  <2>7. CASE Yield
    BY <2>2, <2>7 DEF Yield, Stepping
  <2>8. CASE Escape
    BY <2>2, <2>8 DEF Escape, Searching
  <2> HIDE DEF NoJit
  <2> QED BY <2>1, <2>4, <2>5, <2>6, <2>7, <2>8 DEF Next, Propagate, EnterTry,
     LeaveTry, LeaveBlock, EndFinally, Break, Raise, Call, StackOverflow, Catch,
     ToFinally, DropHandler, vars
<1> QED BY <1>1, <1>2

\* BoundaryRestored, for a program without compiled callers: a run_until that
\* ends without an exception leaves the stack as it was when it began.
THEOREM BoundaryRestoredSafe ==
  ASSUME "jit" \notin Uses PROVE Spec => BoundaryRestored
<1>1. ASSUME StateInv, NoJit, [Next]_vars, Len(runs') < Len(runs), err' = None
      PROVE  Len(frames') = Last(runs).target
  <2>1. runs' # runs
    BY <1>1, Elements DEF StateInv
  <2>2. Ret \/ Yield \/ Escape \/ (\E kind \in {"native", "jit"} : Invoke(kind))
          \/ (\E g \in Gen : GenNext(g))
    BY <1>1, <2>1 DEF Next, Propagate, EnterTry, LeaveTry, LeaveBlock, EndFinally,
       Break, Raise, Call, StackOverflow, Catch, ToFinally, DropHandler, vars
  <2>3. runs # <<>> => Len(frames') = Len(frames) - 1 \/ ~(frames' = Front(frames))
    BY <1>1, PopShape DEF StateInv
  <2>4. runs # <<>> => Last(runs).target \in 0 .. Len(frames) - 1 /\ Len(frames) \in Nat
    BY <1>1, Current DEF StateInv
  <2>5. CASE Ret
    BY <2>1, <2>3, <2>4, <2>5 DEF Ret, Stepping
  <2>6. CASE Yield
    BY <2>3, <2>4, <2>6 DEF Yield, Stepping
  <2>7. ~Escape
    <3> SUFFICES ASSUME Escape PROVE FALSE
      OBVIOUS
    <3>1. runs # <<>> /\ err # None
      BY DEF Escape, Searching
    <3>2. Last(runs).kind # "jit"
      BY <1>1, <3>1, Current, Elements DEF StateInv, NoJit
    <3> QED BY <1>1, <3>1, <3>2 DEF Escape
  <2>8. ~(\E r : runs' = Append(runs, r))
    <3> SUFFICES ASSUME NEW r, runs' = Append(runs, r) PROVE FALSE
      OBVIOUS
    <3>1. runs \in Seq(RunSet)
      BY <1>1 DEF StateInv, Shape
    <3>2. Len(runs') = Len(runs) + 1 /\ Len(runs) \in Nat
      BY <3>1
    <3> QED BY <1>1, <3>2
  <2> QED BY <2>2, <2>5, <2>6, <2>7, <2>8 DEF Invoke, GenNext
<1>2. StateInv /\ NoJit /\ [Next]_vars =>
        (Len(runs') < Len(runs) /\ err' = None => Len(frames') = Last(runs).target)
  BY <1>1
<1> QED BY <1>2, NoJitKept, StateInvariant, PTL DEF Spec, BoundaryRestored

-----------------------------------------------------------------------------
(***************************************************************************)
(* The handler frames of the interpreter are those of the try bodies being *)
(* executed (HandlersMatch), for any program that does not break out of a  *)
(* try, yield inside one or run a compiled caller: the three ways in which *)
(* a body is left without its handler frame, or the other way round.       *)
(***************************************************************************)

\* Call i is the same up to its region j, before and after a step.
Same(i, j) ==
  /\ i \in DOMAIN frames /\ i \in DOMAIN frames'
  /\ j \in DOMAIN frames[i] /\ j \in DOMAIN frames'[i]
  /\ \A l \in 1 .. j : frames'[i][l] = frames[i][l]

LEMMA SamePlace ==
  ASSUME Shape, Shape', NEW i, NEW j, Same(i, j)
  PROVE  /\ j \in Nat \ {0}
         /\ IsBody(i, j)' <=> IsBody(i, j)
         /\ frames'[i][j].try = frames[i][j].try
         /\ SubSeq(frames'[i], 1, j - 1) = SubSeq(frames[i], 1, j - 1)
<1>1. frames[i] \in Position /\ frames'[i] \in Position
  BY DEF Same, Shape
<1>2. /\ j \in Nat \ {0} /\ Len(frames[i]) \in Nat /\ Len(frames'[i]) \in Nat
      /\ j <= Len(frames[i]) /\ j <= Len(frames'[i])
  BY <1>1 DEF Same, Position
<1>3. frames'[i][j] = frames[i][j]
  BY <1>2 DEF Same
<1> DEFINE n == j - 1
           s == frames[i]
           t == frames'[i]
<1>4. s \in Seq(RegionSet) /\ t \in Seq(RegionSet) /\ n \in 0 .. Len(s) /\ n \in 0 .. Len(t)
  BY <1>1, <1>2 DEF Position
<1>5. \A l \in 1 .. n : t[l] = s[l]
  BY <1>2 DEF Same
<1>6. SubSeq(t, 1, n) = SubSeq(s, 1, n)
  <2> HIDE DEF n, s, t
  <2> QED BY <1>4, <1>5
<1>7. IsBody(i, j)' <=> IsBody(i, j)
  BY <1>3 DEF IsBody, Same
<1> QED BY <1>2, <1>3, <1>6, <1>7

\* Places of handler frames, as numbers.
LEMMA Places ==
  ASSUME Shape, HandlerIsOpen, NEW k \in DOMAIN handler_frames
  PROVE  LET h == handler_frames[k]
         IN /\ Place(h) = <<h.frame_depth, Len(h.pos) + 1>>
            /\ h.frame_depth \in Nat /\ Len(h.pos) \in Nat
            /\ IsBody(h.frame_depth, Len(h.pos) + 1)
<1>1. handler_frames[k].frame_depth \in Nat /\ handler_frames[k].pos \in Position
  BY Elements
<1>2. Len(handler_frames[k].pos) \in Nat
  BY <1>1 DEF Position
<1>3. IsBody(handler_frames[k].frame_depth, Len(handler_frames[k].pos) + 1)
  BY DEF HandlerIsOpen
<1> QED BY <1>1, <1>2, <1>3 DEF Place

LEMMA BodyPlace ==
  ASSUME Shape, NEW i, NEW j, IsBody(i, j)
  PROVE  /\ i \in 1 .. Len(frames) /\ frames[i] \in Position
         /\ Len(frames[i]) \in Nat /\ j \in 1 .. Len(frames[i])
<1>1. i \in 1 .. Len(frames) /\ frames[i] \in Position
  BY Elements DEF IsBody
<1>2. Len(frames[i]) \in Nat /\ DOMAIN frames[i] = 1 .. Len(frames[i])
  BY <1>1 DEF Position
<1> QED BY <1>1, <1>2 DEF IsBody

\* A step keeps the bodies that enclose a place, and the handler frames of
\* these, and nothing else.
LEMMA Pruned ==
  ASSUME Shape, Shape', HandlersMatch,
         NEW d \in Nat, NEW c \in Nat, NEW m \in 0 .. Len(handler_frames),
         DOMAIN handler_frames' = 1 .. m,
         \A k \in 1 .. m : /\ handler_frames'[k] = handler_frames[k]
                           /\ Encloses(Place(handler_frames[k]), <<d, c>>),
         \A k \in m + 1 .. Len(handler_frames) :
           ~Encloses(Place(handler_frames[k]), <<d, c>>),
         \A i, j : IsBody(i, j) /\ Encloses(<<i, j>>, <<d, c>>) => Same(i, j),
         \A i, j : IsBody(i, j)' => Encloses(<<i, j>>, <<d, c>>) /\ Same(i, j),
         \/ err' # None
         \/ \A i, j : IsBody(i, j) /\ Encloses(<<i, j>>, <<d, c>>) =>
              \E k \in DOMAIN handler_frames : Place(handler_frames[k]) = <<i, j>>
  PROVE  HandlersMatch'
<1> USE DEF HandlersMatch
<1>0. Len(handler_frames) \in Nat /\ DOMAIN handler_frames = 1 .. Len(handler_frames)
  BY Elements
<1>1. \A k \in DOMAIN handler_frames' : k \in DOMAIN handler_frames
  BY <1>0
<1>2. HandlerIsOpen'
  <2> SUFFICES ASSUME NEW k \in DOMAIN handler_frames'
               PROVE  LET h == handler_frames[k]
                          i == h.frame_depth
                          j == Len(h.pos) + 1
                      IN /\ i \in DOMAIN frames' /\ j \in DOMAIN frames'[i]
                         /\ frames'[i][j].phase = "body" /\ frames'[i][j].try = h.try
                         /\ SubSeq(frames'[i], 1, j - 1) = h.pos
    BY DEF HandlerIsOpen, IsBody
  <2> DEFINE h == handler_frames[k]
  <2>1. k \in DOMAIN handler_frames /\ k \in 1 .. m
    BY <1>1
  <2>2. PICK i, j : i = h.frame_depth /\ j = Len(h.pos) + 1
    OBVIOUS
  <2>3. IsBody(i, j) /\ frames[i][j].try = h.try /\ SubSeq(frames[i], 1, j - 1) = h.pos
    BY <2>1, <2>2 DEF HandlerIsOpen
  <2>4. Encloses(<<i, j>>, <<d, c>>)
    BY <2>1, <2>2 DEF Place
  <2>5. Same(i, j)
    BY <2>3, <2>4
  <2>6. IsBody(i, j)' /\ frames'[i][j].try = h.try /\ SubSeq(frames'[i], 1, j - 1) = h.pos
    BY <2>3, <2>5, SamePlace
  <2> QED BY <2>2, <2>6 DEF IsBody
<1>3. HandlersNest'
  BY <1>1 DEF HandlersNest, Place, Encloses
<1>4. OpenHasHandler'
  <2> SUFFICES ASSUME NEW i \in DOMAIN frames', NEW j \in DOMAIN frames'[i], IsBody(i, j)'
               PROVE  \/ \E k \in DOMAIN handler_frames' : Place(handler_frames'[k]) = <<i, j>>
                      \/ /\ err' # None
                         /\ \A k \in DOMAIN handler_frames' : Encloses(Place(handler_frames'[k]), <<i, j>>)
    BY Zenon DEF OpenHasHandler, IsBody, Place, Encloses
  <2> SUFFICES \/ \E k \in 1 .. m : Place(handler_frames[k]) = <<i, j>>
               \/ /\ err' # None
                  /\ \A k \in 1 .. m : Encloses(Place(handler_frames[k]), <<i, j>>)
    BY DEF Place
  <2>1. Encloses(<<i, j>>, <<d, c>>) /\ Same(i, j)
    OBVIOUS
  <2>2. IsBody(i, j)
    BY <2>1, SamePlace
  <2>3. ASSUME NEW k \in DOMAIN handler_frames, Place(handler_frames[k]) = <<i, j>>
        PROVE  k \in 1 .. m
    BY <2>1, <2>3, <1>0
  <2>4. \/ \E k \in DOMAIN handler_frames : Place(handler_frames[k]) = <<i, j>>
        \/ \A k \in DOMAIN handler_frames : Encloses(Place(handler_frames[k]), <<i, j>>)
    BY <2>2 DEF OpenHasHandler, IsBody
  <2>5. CASE err' # None
    <3>1. CASE \E k \in DOMAIN handler_frames : Place(handler_frames[k]) = <<i, j>>
      BY <2>3, <3>1
    <3>2. CASE \A k \in DOMAIN handler_frames : Encloses(Place(handler_frames[k]), <<i, j>>)
      BY <2>5, <3>2, <1>0
    <3> QED BY <2>4, <3>1, <3>2
  <2>6. CASE err' = None
    BY <2>1, <2>2, <2>3, <2>6
  <2> QED BY <2>5, <2>6
<1> QED BY <1>2, <1>3, <1>4

-----------------------------------------------------------------------------
(* The ways a step changes what is open.                                   *)

\* No body is entered or left.
LEMMA NothingMoved ==
  ASSUME Shape, Shape', HandlersMatch, handler_frames' = handler_frames,
         err # None => err' # None,
         \A i, j : IsBody(i, j) => Same(i, j),
         \A i, j : IsBody(i, j)' => Same(i, j)
  PROVE  HandlersMatch'
<1> DEFINE d == Len(frames) + 1
           m == Len(handler_frames)
<1>1. d \in Nat /\ m \in Nat /\ Len(frames) \in Nat /\ d = Len(frames) + 1
      /\ DOMAIN handler_frames = 1 .. m
  BY Elements
<1> HIDE DEF d
<1>2. ASSUME NEW i, NEW j, IsBody(i, j) PROVE Encloses(<<i, j>>, <<d, 0>>)
  BY <1>1, <1>2, BodyPlace DEF Encloses
<1>3. \A k \in 1 .. m : Encloses(Place(handler_frames[k]), <<d, 0>>)
  BY <1>1, <1>2, Places DEF HandlersMatch
<1>4. ASSUME NEW i, NEW j, IsBody(i, j)'
      PROVE  Encloses(<<i, j>>, <<d, 0>>) /\ Same(i, j)
  BY <1>2, <1>4, SamePlace
<1>5. ASSUME err' = None
      PROVE  \A i, j : IsBody(i, j) =>
               \E k \in DOMAIN handler_frames : Place(handler_frames[k]) = <<i, j>>
  BY <1>5 DEF HandlersMatch, OpenHasHandler, IsBody
<1>6. m \in 0 .. Len(handler_frames) /\ \A k \in m + 1 .. Len(handler_frames) : FALSE
  BY <1>1
<1>7. DOMAIN handler_frames' = 1 .. m
  BY <1>1
<1> HIDE DEF m
<1> QED BY <1>1, <1>3, <1>4, <1>5, <1>6, <1>7, Pruned

\* The calls above n are gone.
LEMMA StackCut ==
  ASSUME Shape, Shape', DepthsNest, HandlersMatch, NEW n \in 0 .. Len(frames),
         Len(frames') = n, \A i \in 1 .. n : frames'[i] = frames[i],
         handler_frames' = HandlersUpTo(n), err # None => err' # None
  PROVE  HandlersMatch'
<1>0. Len(frames) \in Nat /\ n \in Nat
  BY Elements
<1>1. PICK m \in 0 .. Len(handler_frames) :
           /\ handler_frames' \in Seq(HandlerSet) /\ Len(handler_frames') = m
           /\ \A k \in 1 .. m : /\ handler_frames'[k] = handler_frames[k]
                                 /\ handler_frames[k].frame_depth <= n
           /\ \A k \in m + 1 .. Len(handler_frames) : handler_frames[k].frame_depth > n
  BY <1>0, KeptHandlers
<1>2. /\ DOMAIN handler_frames' = 1 .. m /\ Len(handler_frames) \in Nat
      /\ DOMAIN handler_frames = 1 .. Len(handler_frames)
  BY <1>1, Elements
<1> DEFINE d == n + 1
<1>3. d \in Nat /\ d = n + 1
  BY <1>0
<1> HIDE DEF d
<1>4. \A k \in 1 .. m : Encloses(Place(handler_frames[k]), <<d, 0>>)
  BY <1>0, <1>1, <1>2, <1>3, Places DEF Encloses, HandlersMatch
<1>5. \A k \in m + 1 .. Len(handler_frames) :
        ~Encloses(Place(handler_frames[k]), <<d, 0>>)
  <2> SUFFICES ASSUME NEW k \in m + 1 .. Len(handler_frames)
               PROVE  ~Encloses(Place(handler_frames[k]), <<d, 0>>)
    OBVIOUS
  <2>1. k \in DOMAIN handler_frames
    BY <1>2
  <2>2. /\ Place(handler_frames[k]) =
              <<handler_frames[k].frame_depth, Len(handler_frames[k].pos) + 1>>
        /\ handler_frames[k].frame_depth \in Nat /\ Len(handler_frames[k].pos) \in Nat
    BY <2>1, Places DEF HandlersMatch
  <2> QED BY <1>0, <1>1, <1>3, <2>2 DEF Encloses
<1>6. DOMAIN frames' = 1 .. n /\ DOMAIN frames = 1 .. Len(frames)
  BY Elements DEF Shape
<1>7. ASSUME NEW i, NEW j, IsBody(i, j), Encloses(<<i, j>>, <<d, 0>>) PROVE Same(i, j)
  <2>1. i \in 1 .. n /\ j \in DOMAIN frames[i]
    BY <1>0, <1>3, <1>7, BodyPlace DEF Encloses
  <2> QED BY <1>0, <1>6, <2>1 DEF Same
<1>8. ASSUME NEW i, NEW j, IsBody(i, j)'
      PROVE  Encloses(<<i, j>>, <<d, 0>>) /\ Same(i, j)
  <2>1. i \in 1 .. n /\ j \in DOMAIN frames'[i]
    BY <1>6, <1>8 DEF IsBody
  <2>2. i \in DOMAIN frames /\ frames'[i] = frames[i]
    BY <1>0, <1>6, <2>1
  <2> QED BY <1>0, <1>3, <1>6, <2>1, <2>2 DEF Same, Encloses
<1>9. ASSUME err' = None
      PROVE  \A i, j : IsBody(i, j) =>
               \E k \in DOMAIN handler_frames : Place(handler_frames[k]) = <<i, j>>
  BY <1>9 DEF HandlersMatch, OpenHasHandler, IsBody
<1>10. \/ err' # None
       \/ \A i, j : IsBody(i, j) /\ Encloses(<<i, j>>, <<d, 0>>) =>
            \E k \in DOMAIN handler_frames : Place(handler_frames[k]) = <<i, j>>
  BY <1>9
<1>11. \A k \in 1 .. m : /\ handler_frames'[k] = handler_frames[k]
                         /\ Encloses(Place(handler_frames[k]), <<d, 0>>)
  BY <1>1, <1>4
<1>12. \A i, j : IsBody(i, j) /\ Encloses(<<i, j>>, <<d, 0>>) => Same(i, j)
  BY <1>7
<1>13. \A i, j : IsBody(i, j)' => Encloses(<<i, j>>, <<d, 0>>) /\ Same(i, j)
  BY <1>8
<1>14. 0 \in Nat
  OBVIOUS
<1> QED BY <1>2, <1>3, <1>5, <1>10, <1>11, <1>12, <1>13, <1>14, Pruned

\* The top frame changes from region c on, to where no body is open.
LEMMA TopMoved ==
  ASSUME StateInv, Shape', HandlersMatch, Stepping,
         NEW pc \in Position, Goto(pc), NEW c \in Nat,
         \A l \in DOMAIN Here : l < c => l \in DOMAIN pc /\ pc[l] = Here[l],
         \A l \in DOMAIN pc : pc[l].phase = "body" => l < c /\ l \in DOMAIN Here,
         NEW m \in 0 .. Len(handler_frames), DOMAIN handler_frames' = 1 .. m,
         \A k \in 1 .. m : /\ handler_frames'[k] = handler_frames[k]
                           /\ Encloses(Place(handler_frames[k]), <<Len(frames), c>>),
         \A k \in m + 1 .. Len(handler_frames) :
           ~Encloses(Place(handler_frames[k]), <<Len(frames), c>>)
  PROVE  HandlersMatch'
<1> DEFINE d == Len(frames)
<1>0. /\ d \in Nat \ {0} /\ Here = frames[d] /\ Here \in Position
      /\ DOMAIN frames = 1 .. d /\ Shape
  BY Current, Elements DEF StateInv, Stepping
<1>1. /\ frames' \in Seq(Position) /\ Len(frames') = d /\ frames'[d] = pc
      /\ \A i \in 1 .. d - 1 : frames'[i] = frames[i]
  BY GotoShape DEF StateInv, Stepping
<1>2. DOMAIN frames' = 1 .. d
  BY <1>1
<1> HIDE DEF d
<1>3. ASSUME NEW i \in 1 .. d - 1, NEW j \in DOMAIN frames[i]
      PROVE  Same(i, j) /\ Encloses(<<i, j>>, <<d, c>>)
  BY <1>0, <1>1, <1>2 DEF Same, Encloses
<1>4. ASSUME NEW j \in DOMAIN Here, j < c PROVE Same(d, j) /\ Encloses(<<d, j>>, <<d, c>>)
  <2>1. j \in DOMAIN pc /\ DOMAIN Here = 1 .. Len(Here) /\ Len(Here) \in Nat
    BY <1>0, <1>4 DEF Position
  <2>2. \A l \in 1 .. j : l \in DOMAIN Here /\ l < c
    BY <1>4, <2>1
  <2> QED BY <1>0, <1>1, <1>2, <1>4, <2>1, <2>2 DEF Same, Encloses
<1>5. ASSUME NEW i, NEW j, IsBody(i, j), Encloses(<<i, j>>, <<d, c>>) PROVE Same(i, j)
  <2>1. i \in 1 .. d /\ j \in DOMAIN frames[i]
    BY <1>0, <1>5 DEF IsBody
  <2>2. i \in 1 .. d - 1 \/ (i = d /\ j < c)
    BY <1>0, <1>5, <2>1 DEF Encloses
  <2> QED BY <1>0, <1>3, <1>4, <2>1, <2>2
<1>6. ASSUME NEW i, NEW j, IsBody(i, j)'
      PROVE  Encloses(<<i, j>>, <<d, c>>) /\ Same(i, j)
  <2>1. i \in 1 .. d /\ j \in DOMAIN frames'[i] /\ frames'[i][j].phase = "body"
    BY <1>2, <1>6 DEF IsBody
  <2>2. CASE i \in 1 .. d - 1
    BY <1>1, <1>3, <2>1, <2>2
  <2>3. CASE i = d
    BY <1>1, <1>4, <2>1, <2>3
  <2> QED BY <1>0, <2>1, <2>2, <2>3
<1>7. \A i, j : IsBody(i, j) =>
        \E k \in DOMAIN handler_frames : Place(handler_frames[k]) = <<i, j>>
  BY DEF HandlersMatch, OpenHasHandler, IsBody, Stepping
<1>8. \A k \in 1 .. m : /\ handler_frames'[k] = handler_frames[k]
                        /\ Encloses(Place(handler_frames[k]), <<d, c>>)
  BY DEF d
<1>9. \A k \in m + 1 .. Len(handler_frames) :
        ~Encloses(Place(handler_frames[k]), <<d, c>>)
  BY DEF d
<1>10. \/ err' # None
       \/ \A i, j : IsBody(i, j) /\ Encloses(<<i, j>>, <<d, c>>) =>
            \E k \in DOMAIN handler_frames : Place(handler_frames[k]) = <<i, j>>
  BY <1>7
<1>11. \A i, j : IsBody(i, j) /\ Encloses(<<i, j>>, <<d, c>>) => Same(i, j)
  BY <1>5
<1>12. \A i, j : IsBody(i, j)' => Encloses(<<i, j>>, <<d, c>>) /\ Same(i, j)
  BY <1>6
<1>13. d \in Nat
  BY <1>0
<1> QED BY <1>0, <1>8, <1>9, <1>10, <1>11, <1>12, <1>13, Pruned

\* A block that ends keeps the regions around it and is no longer a body.
LEMMA FollowingParts ==
  ASSUME NEW pc \in Position, pc # <<>>
  PROVE  /\ Len(pc) \in Nat \ {0}
         /\ \A l \in 1 .. Len(pc) - 1 : l \in DOMAIN Following(pc) /\ Following(pc)[l] = pc[l]
         /\ DOMAIN Following(pc) \subseteq 1 .. Len(pc)
         /\ Len(pc) \in DOMAIN Following(pc) => Following(pc)[Len(pc)].phase # "body"
<1> DEFINE n == Len(pc)
           f == Front(pc)
<1>1. /\ f \in Seq(RegionSet) /\ Len(f) = n - 1 /\ n \in Nat \ {0}
      /\ \A l \in 1 .. n - 1 : f[l] = pc[l]
  BY FrontAndLast DEF Position
<1>2. PICK r : /\ Following(pc) = f \/ Following(pc) = Append(f, r)
               /\ r \in RegionSet /\ r.phase # "body"
  <2>1. Last(pc) \in RegionSet
    BY FrontAndLast DEF Position
  <2>2. \A phase \in Phases : Region(Last(pc).try, phase, None) \in RegionSet
    BY <2>1 DEF Region, RegionSet
  <2>3. \A phase \in Phases : Region(Last(pc).try, phase, None).phase = phase
    BY DEF Region
  <2>4. {"orelse", "finally"} \subseteq Phases /\ "orelse" # "body" /\ "finally" # "body"
    BY DEF Phases
  <2>5. \E phase \in {"orelse", "finally"} :
          \/ Following(pc) = f
          \/ Following(pc) = Append(f, Region(Last(pc).try, phase, None))
    BY DEF Following
  <2> QED BY <2>2, <2>3, <2>4, <2>5
<1> HIDE DEF f, n
<1>3. CASE Following(pc) = f
  BY <1>1, <1>3 DEF n
<1>4. CASE Following(pc) = Append(f, r)
  <2>1. /\ DOMAIN Append(f, r) = 1 .. n
        /\ \A l \in 1 .. n - 1 : Append(f, r)[l] = f[l]
        /\ Append(f, r)[n] = r
    BY <1>1, <1>2
  <2> QED BY <1>1, <1>2, <1>4, <2>1 DEF n
<1> QED BY <1>2, <1>3, <1>4

\* The place where a handler frame of the top call can be: inside its regions.
LEMMA TopPlace ==
  ASSUME StateInv, HandlersMatch, runs # <<>>, NEW k \in DOMAIN handler_frames
  PROVE  LET p == Place(handler_frames[k])
         IN \/ Encloses(p, <<Len(frames), Len(Here)>>)
            \/ p = <<Len(frames), Len(Here)>> /\ Here # <<>> /\ Last(Here).phase = "body"
<1> DEFINE i == handler_frames[k].frame_depth
           j == Len(handler_frames[k].pos) + 1
<1>1. /\ Len(frames) \in Nat \ {0} /\ Here = frames[Len(frames)] /\ Here \in Position
      /\ Shape
  BY Current DEF StateInv
<1>2. Place(handler_frames[k]) = <<i, j>> /\ IsBody(i, j) /\ i \in Nat /\ j \in Nat
  BY <1>1, Places DEF HandlersMatch
<1> HIDE DEF i, j
<1>3. /\ i \in 1 .. Len(frames) /\ frames[i] \in Position
      /\ Len(frames[i]) \in Nat /\ j \in 1 .. Len(frames[i])
  BY <1>1, <1>2, BodyPlace
<1>4. CASE i < Len(frames)
  BY <1>1, <1>2, <1>4 DEF Encloses
<1>5. CASE i = Len(frames) /\ j < Len(Here)
  BY <1>1, <1>2, <1>5 DEF Encloses
<1>6. CASE i = Len(frames) /\ j = Len(Here)
  <2>1. Here \in Seq(RegionSet) /\ Len(Here) # 0
    BY <1>1, <1>3, <1>6 DEF Position
  <2>2. Here # <<>>
    BY <2>1
  <2>3. Last(Here) = Here[Len(Here)]
    BY <2>1, <2>2, FrontAndLast
  <2> QED BY <1>1, <1>2, <1>6, <2>2, <2>3 DEF IsBody
<1> QED BY <1>1, <1>2, <1>3, <1>4, <1>5, <1>6

LEMMA BlockLeft ==
  ASSUME StateInv, Shape', HandlersMatch, Stepping, Here # <<>>, Last(Here).phase # "body",
         Goto(Following(Here)), handler_frames' = handler_frames
  PROVE  HandlersMatch'
<1> DEFINE c == Len(Here)
           m == Len(handler_frames)
           pc == Following(Here)
<1>1. runs # <<>> /\ Here \in Position
  BY Current DEF StateInv, Stepping
<1>2. pc \in Position
  BY <1>1, FollowingShape
<1>3. /\ c \in Nat \ {0}
      /\ \A l \in 1 .. c - 1 : l \in DOMAIN pc /\ pc[l] = Here[l]
      /\ DOMAIN pc \subseteq 1 .. c
      /\ c \in DOMAIN pc => pc[c].phase # "body"
      /\ DOMAIN Here = 1 .. c
  BY <1>1, FollowingParts DEF Position
<1>4. Goto(pc)
  OBVIOUS
<1>5. \A k \in DOMAIN handler_frames : Encloses(Place(handler_frames[k]), <<Len(frames), c>>)
  BY <1>1, TopPlace
<1>6. m \in Nat /\ m \in 0 .. Len(handler_frames) /\ DOMAIN handler_frames' = 1 .. m
      /\ DOMAIN handler_frames = 1 .. m /\ \A k \in m + 1 .. Len(handler_frames) : FALSE
  BY Elements DEF StateInv
<1> HIDE DEF c, m, pc
<1>7. \A l \in DOMAIN Here : l < c => l \in DOMAIN pc /\ pc[l] = Here[l]
  BY <1>3
<1>8. \A l \in DOMAIN pc : pc[l].phase = "body" => l < c /\ l \in DOMAIN Here
  BY <1>3
<1>9. c \in Nat
  BY <1>3
<1>10. \A k \in 1 .. m : /\ handler_frames'[k] = handler_frames[k]
                         /\ Encloses(Place(handler_frames[k]), <<Len(frames), c>>)
  BY <1>5, <1>6
<1>11. \A k \in m + 1 .. Len(handler_frames) :
         ~Encloses(Place(handler_frames[k]), <<Len(frames), c>>)
  BY <1>6
<1> QED BY <1>2, <1>4, <1>6, <1>7, <1>8, <1>9, <1>10, <1>11, TopMoved

LEMMA LeaveTryMatches ==
  ASSUME StateInv, Shape', HandlersMatch, LeaveTry
  PROVE  HandlersMatch'
<1> DEFINE c == Len(Here)
           d == Len(frames)
           n == Len(handler_frames)
           pc == Following(Here)
<1>0. Stepping /\ Here # <<>> /\ Last(Here).phase = "body" /\ Goto(pc)
  BY DEF LeaveTry, At
<1>1. /\ runs # <<>> /\ Here \in Position /\ d \in Nat \ {0} /\ Here = frames[d]
      /\ DOMAIN frames = 1 .. d /\ Shape
  BY <1>0, Current, Elements DEF StateInv, Stepping
<1>2. pc \in Position
  BY <1>0, <1>1, FollowingShape
<1>3. /\ c \in Nat \ {0}
      /\ \A l \in 1 .. c - 1 : l \in DOMAIN pc /\ pc[l] = Here[l]
      /\ DOMAIN pc \subseteq 1 .. c
      /\ c \in DOMAIN pc => pc[c].phase # "body"
      /\ DOMAIN Here = 1 .. c
  BY <1>0, <1>1, FollowingParts DEF Position
<1>4. IsBody(d, c)
  <2>1. Last(Here) = Here[c]
    BY <1>0, <1>1, FrontAndLast DEF Position
  <2> QED BY <1>0, <1>1, <1>3, <2>1 DEF IsBody
<1>5. PICK q \in DOMAIN handler_frames : Place(handler_frames[q]) = <<d, c>>
  BY <1>0, <1>4 DEF HandlersMatch, OpenHasHandler, IsBody, Stepping
<1>6. n \in Nat /\ DOMAIN handler_frames = 1 .. n
  BY <1>1, Elements
<1>7. \A k \in DOMAIN handler_frames :
        \/ Encloses(Place(handler_frames[k]), <<d, c>>)
        \/ Place(handler_frames[k]) = <<d, c>>
  BY <1>1, TopPlace
<1>8. q = n
  <2> SUFFICES ASSUME q < n PROVE FALSE
    BY <1>5, <1>6
  <2>1. n \in DOMAIN handler_frames
    BY <1>5, <1>6
  <2>2. Encloses(<<d, c>>, Place(handler_frames[n]))
    BY <1>5, <2>1 DEF HandlersMatch, HandlersNest
  <2>3. /\ Place(handler_frames[n]) =
              <<handler_frames[n].frame_depth, Len(handler_frames[n].pos) + 1>>
        /\ handler_frames[n].frame_depth \in Nat /\ Len(handler_frames[n].pos) \in Nat
    BY <1>1, <2>1, Places DEF HandlersMatch
  <2> HIDE DEF n, d, c
  <2> QED BY <1>1, <1>3, <1>7, <2>1, <2>2, <2>3 DEF Encloses
<1>9. Last(handler_frames).frame_depth = d /\ handler_frames # <<>>
  <2>1. handler_frames[n].frame_depth = d
    BY <1>5, <1>8 DEF Place
  <2>2. handler_frames \in Seq(HandlerSet) /\ handler_frames # <<>>
    BY <1>1, <1>5 DEF Shape
  <2>3. Last(handler_frames) = handler_frames[n]
    BY <2>2, FrontAndLast
  <2> QED BY <2>1, <2>2, <2>3
<1>10. handler_frames' = Front(handler_frames)
  BY <1>9 DEF LeaveTry
<1> DEFINE m == n - 1
<1>11. /\ m \in 0 .. n /\ DOMAIN handler_frames' = 1 .. m
       /\ \A k \in 1 .. m : handler_frames'[k] = handler_frames[k]
  BY <1>1, <1>5, <1>6, <1>9, <1>10, PoppedHandler
<1>12. \A k \in 1 .. m : Encloses(Place(handler_frames[k]), <<d, c>>)
  <2> SUFFICES ASSUME NEW k \in 1 .. m PROVE Encloses(Place(handler_frames[k]), <<d, c>>)
    OBVIOUS
  <2>1. k \in DOMAIN handler_frames /\ k < q
    BY <1>6, <1>8
  <2> QED BY <1>5, <2>1 DEF HandlersMatch, HandlersNest
<1>13. \A k \in m + 1 .. n : ~Encloses(Place(handler_frames[k]), <<d, c>>)
  <2>1. \A k \in m + 1 .. n : k = q
    <3> HIDE DEF n
    <3> QED BY <1>6, <1>8
  <2>2. ~Encloses(<<d, c>>, <<d, c>>)
    BY <1>1, <1>3 DEF Encloses
  <2> QED BY <1>5, <2>1, <2>2
<1>14. \A l \in DOMAIN Here : l < c => l \in DOMAIN pc /\ pc[l] = Here[l]
  BY <1>3
<1>15. \A l \in DOMAIN pc : pc[l].phase = "body" => l < c /\ l \in DOMAIN Here
  BY <1>3
<1>16. c \in Nat
  BY <1>3
<1> HIDE DEF m, c, pc
<1>17. \A k \in 1 .. m : /\ handler_frames'[k] = handler_frames[k]
                         /\ Encloses(Place(handler_frames[k]), <<Len(frames), c>>)
  BY <1>11, <1>12
<1> QED BY <1>0, <1>2, <1>11, <1>13, <1>14, <1>15, <1>16, <1>17, TopMoved

LEMMA EnterTryMatches ==
  ASSUME StateInv, Shape', HandlersMatch, NEW s \in Try, EnterTry(s)
  PROVE  HandlersMatch'
<1> DEFINE d == Len(frames)
           n == Len(handler_frames)
           c == Len(Here) + 1
           h == [frame_depth |-> Len(frames), try |-> s, pos |-> Here]
           region == Region(s, "body", None)
           pc == Append(Here, region)
<1>0. Stepping /\ Goto(pc) /\ handler_frames' = Append(handler_frames, h)
      /\ err' = err /\ err = None
  BY DEF EnterTry, Stepping, errVars
<1>1. /\ runs # <<>> /\ Here \in Position /\ d \in Nat \ {0} /\ Here = frames[d]
      /\ DOMAIN frames = 1 .. d /\ Shape
  BY <1>0, Current, Elements DEF StateInv, Stepping
<1>2. region \in RegionSet /\ region.phase = "body" /\ region.try = s
  BY Regions DEF Phases, Region
<1>3. /\ pc \in Position /\ c \in Nat \ {0} /\ DOMAIN pc = 1 .. c
      /\ DOMAIN Here = 1 .. c - 1
      /\ pc[c] = region /\ \A l \in 1 .. c - 1 : pc[l] = Here[l]
  <2> HIDE DEF region
  <2> QED BY <1>1, <1>2 DEF Position
<1>4. SubSeq(pc, 1, c - 1) = Here
  <2> HIDE DEF region
  <2>1. Here \in Seq(RegionSet) /\ c - 1 = Len(Here)
    BY <1>1 DEF Position
  <2> QED BY <1>2, <2>1
<1> HIDE DEF region, pc
<1>5. /\ frames' \in Seq(Position) /\ Len(frames') = d /\ frames'[d] = pc
      /\ \A i \in 1 .. d - 1 : frames'[i] = frames[i]
  BY <1>0, <1>1, <1>3, GotoShape DEF StateInv, Stepping
<1>6. DOMAIN frames' = 1 .. d
  BY <1>5
<1>7. /\ n \in Nat /\ DOMAIN handler_frames = 1 .. n
      /\ handler_frames \in Seq(HandlerSet) /\ h \in HandlerSet
  BY <1>1, Elements DEF Shape, HandlerSet
<1>8. /\ DOMAIN handler_frames' = 1 .. n + 1 /\ handler_frames'[n + 1] = h
      /\ \A k \in 1 .. n : handler_frames'[k] = handler_frames[k]
  <2> HIDE DEF h
  <2> QED BY <1>0, <1>7
<1>9. h.frame_depth = d /\ h.try = s /\ h.pos = Here /\ Place(h) = <<d, c>>
  BY DEF Place
<1> HIDE DEF h, d, n, c
<1>10. ASSUME NEW i, NEW j, IsBody(i, j)
       PROVE  Same(i, j) /\ Encloses(<<i, j>>, <<d, c>>)
  <2>1. i \in 1 .. d /\ j \in DOMAIN frames[i] /\ frames[i] \in Position
    BY <1>1, <1>10, Elements DEF IsBody
  <2>2. DOMAIN frames[i] = 1 .. Len(frames[i]) /\ Len(frames[i]) \in Nat
    BY <2>1 DEF Position
  <2>3. CASE i \in 1 .. d - 1
    BY <1>1, <1>5, <1>6, <2>1, <2>2, <2>3 DEF Same, Encloses
  <2>4. CASE i = d
    <3>1. j \in 1 .. c - 1 /\ j \in 1 .. c
      BY <1>1, <1>3, <2>1, <2>4
    <3>2. \A l \in 1 .. j : l \in 1 .. c - 1
      BY <1>3, <3>1
    <3>3. Same(i, j)
      BY <1>1, <1>3, <1>5, <1>6, <2>1, <2>4, <3>1, <3>2 DEF Same
    <3> QED BY <1>1, <1>3, <2>4, <3>1, <3>3 DEF Encloses
  <2> QED BY <1>1, <2>1, <2>3, <2>4
<1>11. ASSUME NEW i, NEW j, IsBody(i, j)'
       PROVE  IsBody(i, j) \/ (i = d /\ j = c)
  <2>1. i \in 1 .. d /\ j \in DOMAIN frames'[i] /\ frames'[i][j].phase = "body"
    BY <1>6, <1>11 DEF IsBody
  <2>2. CASE i \in 1 .. d - 1
    BY <1>1, <1>5, <2>1, <2>2 DEF IsBody
  <2>3. CASE i = d
    BY <1>1, <1>3, <1>5, <2>1, <2>3 DEF IsBody
  <2> QED BY <1>1, <2>1, <2>2, <2>3
<1>12. ASSUME NEW k \in 1 .. n
       PROVE  /\ Encloses(Place(handler_frames[k]), <<d, c>>)
              /\ LET g == handler_frames[k]
                     i == g.frame_depth
                     j == Len(g.pos) + 1
                 IN /\ i \in DOMAIN frames' /\ j \in DOMAIN frames'[i]
                    /\ frames'[i][j].phase = "body" /\ frames'[i][j].try = g.try
                    /\ SubSeq(frames'[i], 1, j - 1) = g.pos
  <2> DEFINE g == handler_frames[k]
  <2>1. k \in DOMAIN handler_frames
    BY <1>7
  <2>2. PICK i, j : i = g.frame_depth /\ j = Len(g.pos) + 1
    OBVIOUS
  <2>3. IsBody(i, j) /\ frames[i][j].try = g.try /\ SubSeq(frames[i], 1, j - 1) = g.pos
    BY <2>1, <2>2 DEF HandlersMatch, HandlerIsOpen
  <2>4. Same(i, j) /\ Encloses(Place(g), <<d, c>>)
    BY <1>10, <2>2, <2>3 DEF Place
  <2>5. IsBody(i, j)' /\ frames'[i][j].try = g.try /\ SubSeq(frames'[i], 1, j - 1) = g.pos
    BY <1>1, <2>3, <2>4, SamePlace
  <2> QED BY <2>2, <2>4, <2>5 DEF IsBody
<1>13. HandlerIsOpen'
  <2> SUFFICES ASSUME NEW k \in 1 .. n + 1
               PROVE  LET g == handler_frames'[k]
                          i == g.frame_depth
                          j == Len(g.pos) + 1
                      IN /\ i \in DOMAIN frames' /\ j \in DOMAIN frames'[i]
                         /\ frames'[i][j].phase = "body" /\ frames'[i][j].try = g.try
                         /\ SubSeq(frames'[i], 1, j - 1) = g.pos
    BY <1>8 DEF HandlerIsOpen, IsBody
  <2>1. CASE k \in 1 .. n
    BY <1>8, <1>12, <2>1
  <2>2. CASE k = n + 1
    <3>1. Len(h.pos) + 1 = c
      BY <1>9 DEF c
    <3> QED BY <1>1, <1>2, <1>3, <1>4, <1>5, <1>6, <1>8, <1>9, <2>2, <3>1
  <2> QED BY <1>7, <2>1, <2>2
<1>14. HandlersNest'
  <2> SUFFICES ASSUME NEW k \in 1 .. n + 1, NEW l \in 1 .. n + 1, k < l
               PROVE  Encloses(Place(handler_frames'[k]), Place(handler_frames'[l]))
    BY <1>8 DEF HandlersNest, Place, Encloses
  <2>1. k \in 1 .. n /\ handler_frames'[k] = handler_frames[k]
    BY <1>7, <1>8
  <2>2. CASE l \in 1 .. n
    BY <1>7, <1>8, <2>1, <2>2 DEF HandlersMatch, HandlersNest
  <2>3. CASE l = n + 1
    BY <1>8, <1>9, <1>12, <2>1, <2>3
  <2> QED BY <1>7, <2>2, <2>3
<1>15. OpenHasHandler'
  <2> SUFFICES ASSUME NEW i, NEW j, IsBody(i, j)'
               PROVE  \E k \in 1 .. n + 1 : Place(handler_frames'[k]) = <<i, j>>
    BY <1>8 DEF OpenHasHandler, IsBody, Place, Encloses
  <2>1. CASE IsBody(i, j)
    <3>1. PICK k \in 1 .. n : Place(handler_frames[k]) = <<i, j>>
      BY <1>0, <1>7, <2>1 DEF HandlersMatch, OpenHasHandler, IsBody
    <3> QED BY <1>7, <1>8, <3>1
  <2>2. CASE i = d /\ j = c
    BY <1>7, <1>8, <1>9, <2>2
  <2> QED BY <1>11, <2>1, <2>2
<1> QED BY <1>13, <1>14, <1>15 DEF HandlersMatch

\* A search passes a body: its handler frame goes, the body stays.
LEMMA DropHandlerMatches ==
  ASSUME StateInv, HandlersMatch, DropHandler
  PROVE  HandlersMatch'
<1> DEFINE n == Len(handler_frames)
<1>0. /\ handler_frames # <<>> /\ handler_frames' = Front(handler_frames)
      /\ frames' = frames /\ err' = err /\ err # None
  BY DEF DropHandler, HandlerInRun, Searching, errVars
<1>1. /\ Len(handler_frames') = n - 1 /\ handler_frames' \in Seq(HandlerSet)
      /\ \A k \in 1 .. n - 1 : handler_frames'[k] = handler_frames[k]
      /\ n \in DOMAIN handler_frames
  BY <1>0, PoppedHandler DEF StateInv
<1>2. n \in Nat \ {0} /\ DOMAIN handler_frames = 1 .. n /\ DOMAIN handler_frames' = 1 .. n - 1
  BY <1>1, Elements DEF StateInv
<1> HIDE DEF n
<1>3. \A k \in 1 .. n - 1 : k \in DOMAIN handler_frames /\ k < n
  BY <1>2
<1>4. HandlerIsOpen'
  BY <1>0, <1>1, <1>2, <1>3 DEF HandlersMatch, HandlerIsOpen, IsBody
<1>5. HandlersNest'
  BY <1>0, <1>1, <1>2, <1>3 DEF HandlersMatch, HandlersNest, Place, Encloses
<1>6. OpenHasHandler'
  <2> SUFFICES ASSUME NEW i \in DOMAIN frames, NEW j \in DOMAIN frames[i], IsBody(i, j)
               PROVE  \/ \E k \in 1 .. n - 1 : Place(handler_frames[k]) = <<i, j>>
                      \/ \A k \in 1 .. n - 1 : Encloses(Place(handler_frames[k]), <<i, j>>)
    BY <1>0, <1>1, <1>2 DEF OpenHasHandler, IsBody, Place, Encloses
  <2>1. CASE \A k \in DOMAIN handler_frames : Encloses(Place(handler_frames[k]), <<i, j>>)
    BY <1>3, <2>1
  <2>2. ASSUME NEW k \in DOMAIN handler_frames, Place(handler_frames[k]) = <<i, j>>
        PROVE  \/ k \in 1 .. n - 1
               \/ \A l \in 1 .. n - 1 : Encloses(Place(handler_frames[l]), <<i, j>>)
    <3>1. k \in 1 .. n - 1 \/ k = n
      BY <1>2
    <3>2. CASE k = n
      BY <1>1, <1>3, <2>2, <3>2 DEF HandlersMatch, HandlersNest
    <3> QED BY <3>1, <3>2
  <2> QED BY <2>1, <2>2 DEF HandlersMatch, OpenHasHandler
<1> QED BY <1>4, <1>5, <1>6 DEF HandlersMatch

\* The search ends in a handler or a finally block of the last handler frame.
LEMMA CaughtMatches ==
  ASSUME StateInv, Shape', HandlersMatch, HandlerInRun,
         NEW region \in RegionSet, region.phase # "body",
         Unwind(Last(handler_frames), region),
         handler_frames' = Front(handler_frames)
  PROVE  HandlersMatch'
<1> DEFINE n == Len(handler_frames)
           h == handler_frames[n]
           d == h.frame_depth
           c == Len(h.pos) + 1
           m == n - 1
<1>0. /\ handler_frames # <<>> /\ n \in DOMAIN handler_frames /\ Last(handler_frames) = h
      /\ Shape /\ DepthsNest
  BY TopHandler DEF StateInv
<1>1. n \in Nat \ {0} /\ DOMAIN handler_frames = 1 .. n
  BY <1>0, Elements
<1>2. /\ DOMAIN handler_frames' = 1 .. m /\ m \in 0 .. n
      /\ \A k \in 1 .. m : handler_frames'[k] = handler_frames[k]
  BY <1>0, <1>1, PoppedHandler
<1>3. /\ Place(h) = <<d, c>> /\ d \in Nat /\ Len(h.pos) \in Nat /\ c \in Nat
      /\ IsBody(d, c)
  BY <1>0, Places DEF HandlersMatch
<1>4. SubSeq(frames[d], 1, c - 1) = h.pos
  BY <1>0 DEF HandlersMatch, HandlerIsOpen
<1>5. h.pos \in Position
  BY <1>0, Elements
<1>6. /\ Len(frames') = d /\ frames'[d] = Append(h.pos, region)
      /\ frames' \in Seq(Position)
      /\ \A i \in 1 .. d - 1 : frames'[i] = frames[i]
  <2>1. Unwind(handler_frames[n], region)
    BY <1>0
  <2>2. /\ frames' \in Seq(Position)
        /\ Len(frames') = handler_frames[n].frame_depth
        /\ frames'[Len(frames')] = Append(handler_frames[n].pos, region)
        /\ \A i \in 1 .. Len(frames') - 1 : frames'[i] = frames[i]
    <3> HIDE DEF n
    <3> QED BY <1>0, <2>1, UnwindShape DEF StateInv
  <2> QED BY <2>2
<1>c. c = Len(h.pos) + 1
  OBVIOUS
<1> HIDE DEF n, h, d, c
<1>7. /\ d \in 1 .. Len(frames) /\ frames[d] \in Position
      /\ Len(frames[d]) \in Nat /\ c \in 1 .. Len(frames[d])
      /\ DOMAIN frames = 1 .. Len(frames) /\ Len(frames) \in Nat
      /\ DOMAIN frames[d] = 1 .. Len(frames[d])
  BY <1>0, <1>3, BodyPlace, Elements DEF Position
<1>8. DOMAIN frames' = 1 .. d
  BY <1>6
<1>9. \A l \in 1 .. c - 1 : h.pos[l] = frames[d][l]
  <2> DEFINE b == c - 1
             s == frames[d]
  <2>1. s \in Seq(RegionSet) /\ b \in 0 .. Len(s) /\ SubSeq(s, 1, b) = h.pos
    BY <1>4, <1>7 DEF Position
  <2>2. \A l \in 1 .. b : SubSeq(s, 1, b)[l] = s[l]
    <3> HIDE DEF b, s
    <3> QED BY <2>1, Prefix
  <2> QED BY <2>1, <2>2
<1>10. /\ DOMAIN frames'[d] = 1 .. c /\ frames'[d][c] = region
       /\ \A l \in 1 .. c - 1 : frames'[d][l] = frames[d][l]
  <2>1. h.pos \in Seq(RegionSet)
    BY <1>5 DEF Position
  <2>2. /\ DOMAIN Append(h.pos, region) = 1 .. c /\ Append(h.pos, region)[c] = region
        /\ \A l \in 1 .. c - 1 : Append(h.pos, region)[l] = h.pos[l]
    BY <2>1, <1>c
  <2> QED BY <1>6, <1>9, <2>2
<1>11. ASSUME NEW i \in 1 .. d - 1, NEW j \in DOMAIN frames[i]
       PROVE  Same(i, j) /\ Encloses(<<i, j>>, <<d, c>>)
  BY <1>3, <1>6, <1>7, <1>8 DEF Same, Encloses
<1>12. ASSUME NEW j \in 1 .. c - 1 PROVE Same(d, j) /\ Encloses(<<d, j>>, <<d, c>>)
  <2>1. \A l \in 1 .. j : l \in 1 .. c - 1
    BY <1>3
  <2>2. j \in DOMAIN frames[d] /\ j \in DOMAIN frames'[d]
    BY <1>3, <1>7, <1>10
  <2>3. d \in DOMAIN frames /\ d \in DOMAIN frames'
    BY <1>3, <1>7, <1>8
  <2> QED BY <1>3, <1>10, <2>1, <2>2, <2>3 DEF Same, Encloses
<1>13. ASSUME NEW i, NEW j, IsBody(i, j), Encloses(<<i, j>>, <<d, c>>) PROVE Same(i, j)
  <2>1. i \in 1 .. Len(frames) /\ j \in DOMAIN frames[i]
    BY <1>7, <1>13 DEF IsBody
  <2>2. i < d \/ (i = d /\ j < c)
    BY <1>13 DEF Encloses
  <2>3. CASE i < d
    <3>1. i \in 1 .. d - 1
      BY <1>3, <1>7, <2>1, <2>3
    <3> QED BY <1>11, <2>1, <3>1
  <2>4. CASE i = d /\ j < c
    <3>1. j \in 1 .. c - 1
      BY <1>3, <1>7, <2>1, <2>4
    <3>2. Same(d, j)
      BY <1>12, <3>1
    <3> QED BY <2>4, <3>2
  <2> QED BY <2>2, <2>3, <2>4
<1>14. ASSUME NEW i, NEW j, IsBody(i, j)'
       PROVE  Encloses(<<i, j>>, <<d, c>>) /\ Same(i, j)
  <2>1. i \in 1 .. d /\ j \in DOMAIN frames'[i] /\ frames'[i][j].phase = "body"
    BY <1>8, <1>14 DEF IsBody
  <2>2. CASE i \in 1 .. d - 1
    BY <1>6, <1>11, <2>1, <2>2
  <2>3. CASE i = d
    <3>1. j \in 1 .. c /\ j # c
      BY <1>10, <2>1, <2>3
    <3>2. j \in 1 .. c - 1
      BY <1>3, <3>1
    <3> QED BY <1>12, <2>3, <3>2
  <2> QED BY <1>3, <2>1, <2>2, <2>3
<1>15. ASSUME NEW i, NEW j, IsBody(i, j), Encloses(<<i, j>>, <<d, c>>)
       PROVE  \E k \in DOMAIN handler_frames : Place(handler_frames[k]) = <<i, j>>
  <2>1. i \in 1 .. Len(frames) /\ j \in Nat
    BY <1>0, <1>15, BodyPlace
  <2>2. ~Encloses(<<d, c>>, <<i, j>>)
    BY <1>3, <1>7, <1>15, <2>1 DEF Encloses
  <2>3. ~(\A k \in DOMAIN handler_frames : Encloses(Place(handler_frames[k]), <<i, j>>))
    BY <1>0, <1>3, <2>2 DEF h
  <2> QED BY <1>15, <2>3 DEF HandlersMatch, OpenHasHandler, IsBody
<1>16. \A k \in 1 .. m : /\ handler_frames'[k] = handler_frames[k]
                         /\ Encloses(Place(handler_frames[k]), <<d, c>>)
  <2> SUFFICES ASSUME NEW k \in 1 .. m PROVE Encloses(Place(handler_frames[k]), <<d, c>>)
    BY <1>2
  <2>1. k \in DOMAIN handler_frames /\ k < n /\ n \in DOMAIN handler_frames
    BY <1>1
  <2> QED BY <1>3, <2>1 DEF HandlersMatch, HandlersNest, h
<1>17. \A k \in m + 1 .. n : ~Encloses(Place(handler_frames[k]), <<d, c>>)
  <2>1. \A k \in m + 1 .. n : k = n
    BY <1>1
  <2>2. ~Encloses(<<d, c>>, <<d, c>>)
    BY <1>3 DEF Encloses
  <2> QED BY <1>3, <2>1, <2>2 DEF h
<1>18. m \in 0 .. Len(handler_frames)
       /\ \A k \in m + 1 .. Len(handler_frames) : ~Encloses(Place(handler_frames[k]), <<d, c>>)
  BY <1>2, <1>17 DEF n
<1>19. DOMAIN handler_frames' = 1 .. m
  BY <1>2
<1> HIDE DEF m
<1> QED BY <1>0, <1>3, <1>13, <1>14, <1>15, <1>16, <1>18, <1>19, Pruned

-----------------------------------------------------------------------------
(* Every step.                                                             *)

MatchInv ==
  /\ StateInv /\ HandlersMatch /\ NoJit
  /\ \A g \in Gen : gens[g].saved = <<>>

\* A frame is put on top that is inside no try statement.
LEMMA PushedMatches ==
  ASSUME Shape, Shape', HandlersMatch, handler_frames' = handler_frames,
         err' = err, frames' = Append(frames, <<>>)
  PROVE  HandlersMatch'
<1>1. <<>> \in Position
  BY DEF Position
<1>2. /\ Len(frames) \in Nat /\ Len(frames') = Len(frames) + 1
      /\ frames'[Len(frames) + 1] = <<>>
      /\ \A i \in 1 .. Len(frames) : frames'[i] = frames[i]
      /\ DOMAIN frames = 1 .. Len(frames) /\ DOMAIN frames' = 1 .. Len(frames) + 1
  BY <1>1, PushShape, Elements DEF Shape
<1>3. ASSUME NEW i, NEW j, i \in 1 .. Len(frames), j \in DOMAIN frames[i] PROVE Same(i, j)
  BY <1>2, <1>3 DEF Same
<1>4. ASSUME NEW i, NEW j, IsBody(i, j) PROVE Same(i, j)
  BY <1>2, <1>3, <1>4 DEF IsBody
<1>5. ASSUME NEW i, NEW j, IsBody(i, j)' PROVE Same(i, j)
  <2>1. i \in 1 .. Len(frames) + 1 /\ j \in DOMAIN frames'[i]
    BY <1>2, <1>5 DEF IsBody
  <2>2. CASE i \in 1 .. Len(frames)
    BY <1>2, <1>3, <2>1, <2>2
  <2>3. CASE i = Len(frames) + 1
    BY <1>2, <2>1, <2>3
  <2> QED BY <1>2, <2>1, <2>2, <2>3
<1> QED BY <1>4, <1>5, NothingMoved

LEMMA StillMatches ==
  ASSUME Shape, Shape', HandlersMatch, handler_frames' = handler_frames,
         frames' = frames, err # None => err' # None
  PROVE  HandlersMatch'
<1>1. ASSUME NEW i, NEW j, IsBody(i, j) PROVE Same(i, j)
  BY <1>1 DEF IsBody, Same
<1>2. ASSUME NEW i, NEW j, IsBody(i, j)' PROVE Same(i, j)
  BY <1>2 DEF IsBody, Same
<1> QED BY <1>1, <1>2, NothingMoved

LEMMA MatchKept ==
  ASSUME {"break", "jit", "yield_in_try"} \cap Uses = {}
  PROVE  MatchInv /\ [Next]_vars => MatchInv'
<1> SUFFICES ASSUME MatchInv, [Next]_vars PROVE MatchInv'
  OBVIOUS
<1> USE DEF MatchInv
<1>a. StateInv' /\ NoJit' /\ Shape' /\ Shape /\ RunsNest /\ DepthsNest
  <2>1. "jit" \notin Uses
    OBVIOUS
  <2>2. StateInv' /\ NoJit'
    BY <2>1, StateInvKept, NoJitKept
  <2> QED BY <2>2 DEF StateInv
<1>b. gens \in [Gen -> [state : 0 .. 2, saved : Position]]
  BY <1>a DEF Shape
<1>c. /\ runs # <<>> => /\ Len(frames) \in Nat \ {0} /\ Here \in Position
                       /\ Last(runs) \in RunSet /\ Len(runs) \in DOMAIN runs
                       /\ Last(runs) = runs[Len(runs)]
                       /\ Last(runs).target \in 0 .. Len(frames) - 1
  BY <1>a, Current, Elements
<1> SUFFICES HandlersMatch' /\ \A g \in Gen : gens'[g].saved = <<>>
  BY <1>a
<1>1. CASE UNCHANGED vars
  BY <1>1, <1>a, StillMatches DEF vars
<1>2. ASSUME NEW s \in Try, EnterTry(s)
      PROVE  HandlersMatch' /\ \A g \in Gen : gens'[g].saved = <<>>
  BY <1>2, <1>a, EnterTryMatches DEF EnterTry
<1>3. CASE LeaveTry
  BY <1>3, <1>a, LeaveTryMatches DEF LeaveTry
<1>4. CASE LeaveBlock
  BY <1>4, <1>a, BlockLeft DEF LeaveBlock, At
<1>5. CASE EndFinally
  <2>1. CASE pending_exception # None
    <3>1. frames' = frames /\ err' # None /\ handler_frames' = handler_frames /\ gens' = gens
      BY <1>5, <2>1 DEF EndFinally
    <3> QED BY <1>a, <3>1, StillMatches
  <2>2. CASE pending_exception = None
    BY <1>5, <1>a, <2>2, BlockLeft DEF EndFinally, At
  <2> QED BY <2>1, <2>2
<1>6. CASE Break
  BY <1>6 DEF Break
<1>7. ASSUME NEW e \in Exc, Raise(e)
      PROVE  HandlersMatch' /\ \A g \in Gen : gens'[g].saved = <<>>
  BY <1>7, <1>a, StillMatches DEF Raise, Stepping
<1>8. CASE Call
  BY <1>8, <1>a, PushedMatches DEF Call, errVars
<1>9. CASE StackOverflow
  BY <1>9, <1>a, StillMatches DEF StackOverflow, Stepping
<1>10. ASSUME Ret \/ Yield
       PROVE  HandlersMatch' /\ \A g \in Gen : gens'[g].saved = <<>>
  <2> DEFINE n == Len(frames) - 1
  <2>1. /\ runs # <<>> /\ frames' = Front(frames) /\ handler_frames' = HandlersUpTo(n)
        /\ err' = err
    BY <1>10 DEF Ret, Yield, Stepping, errVars
  <2>2. /\ n \in 0 .. Len(frames) /\ Len(frames') = n
        /\ \A i \in 1 .. n : frames'[i] = frames[i]
    BY <1>a, <1>c, <2>1, PopShape
  <2> HIDE DEF n
  <2>3. HandlersMatch'
    BY <1>a, <2>1, <2>2, StackCut
  <2>4. ASSUME NEW g \in Gen PROVE gens'[g].saved = <<>>
    <3>1. CASE Ret
      BY <1>b, <3>1 DEF Ret
    <3>2. CASE Yield
      <4>1. /\ gens' = [gens EXCEPT ![Last(runs).gen] = [state |-> 1, saved |-> Here]]
            /\ Here = <<>>
        BY <3>2 DEF Yield
      <4> QED BY <1>b, <4>1
    <3> QED BY <1>10, <3>1, <3>2
  <2> QED BY <2>3, <2>4
<1>11. ASSUME NEW kind \in {"native", "jit"}, Invoke(kind)
       PROVE  HandlersMatch' /\ \A g \in Gen : gens'[g].saved = <<>>
  BY <1>11, <1>a, PushedMatches DEF Invoke, errVars
<1>12. ASSUME NEW g \in Gen, GenNext(g)
       PROVE  HandlersMatch' /\ \A f \in Gen : gens'[f].saved = <<>>
  BY <1>12, <1>a, PushedMatches DEF GenNext, errVars
<1>13. CASE Catch
  <2>1. /\ Region(Last(handler_frames).try, "handler", None) \in RegionSet
        /\ Region(Last(handler_frames).try, "handler", None).phase # "body"
    BY <1>13, <1>a, TopHandler, Regions DEF Catch, Phases, Region
  <2> QED BY <1>13, <1>a, <2>1, CaughtMatches DEF Catch
<1>14. CASE ToFinally
  <2>1. err \in Exc
    BY <1>14, <1>a DEF ToFinally, Searching, Shape
  <2>2. /\ Region(Last(handler_frames).try, "finally", err) \in RegionSet
        /\ Region(Last(handler_frames).try, "finally", err).phase # "body"
    BY <1>14, <1>a, <2>1, TopHandler, Regions DEF ToFinally, Phases, Region
  <2> QED BY <1>14, <1>a, <2>2, CaughtMatches DEF ToFinally
<1>15. CASE DropHandler
  BY <1>15, <1>a, DropHandlerMatches DEF DropHandler
<1>16. CASE Escape
  <2>1. runs # <<>> /\ err # None
    BY <1>16 DEF Escape, Searching
  <2>2. Last(runs).kind # "jit"
    BY <1>c, <2>1 DEF NoJit
  <2>3. err' = err
    BY <1>16, <2>2 DEF Escape
  <2>4. CASE Last(runs).kind = "gen"
    <3> DEFINE n == Last(runs).target
    <3>1. /\ frames' = SubSeq(frames, 1, n) /\ handler_frames' = HandlersUpTo(n)
          /\ gens' = [gens EXCEPT ![Last(runs).gen].state = 2]
      BY <1>16, <2>4 DEF Escape
    <3>2. n \in 0 .. Len(frames)
      BY <1>c, <2>1
    <3>3. Len(frames') = n /\ \A i \in 1 .. n : frames'[i] = frames[i]
      BY <1>a, <3>1, <3>2, CutShape
    <3> HIDE DEF n
    <3>4. HandlersMatch'
      BY <1>a, <2>3, <3>1, <3>2, <3>3, StackCut
    <3>5. \A g \in Gen : gens'[g].saved = <<>>
      BY <1>b, <3>1
    <3> QED BY <3>4, <3>5
  <2>5. CASE Last(runs).kind # "gen"
    <3>1. UNCHANGED <<frames, handler_frames, gens>>
      BY <1>16, <2>5 DEF Escape
    <3> QED BY <1>a, <2>3, <3>1, StillMatches
  <2> QED BY <2>4, <2>5
<1> QED
  BY <1>1, <1>2, <1>3, <1>4, <1>5, <1>6, <1>7, <1>8, <1>9, <1>10, <1>11, <1>12,
     <1>13, <1>14, <1>15, <1>16 DEF Next, Propagate

\* HandlersMatch: an exception can only go to the innermost try around it,
\* for every program that does not break out of a try, yield inside one or
\* call the interpreter from compiled code.
THEOREM HandlersMatchSafe ==
  ASSUME {"break", "jit", "yield_in_try"} \cap Uses = {}
  PROVE  Spec => []HandlersMatch
<1>1. Init => MatchInv
  <2> SUFFICES ASSUME Init PROVE MatchInv
    OBVIOUS
  <2>1. StateInv /\ NoJit
    BY InitInv, NoJitKept
  <2>2. frames = << <<>> >> /\ handler_frames = <<>> /\ \A g \in Gen : gens[g].saved = <<>>
    BY DEF Init
  <2>3. HandlersMatch
    BY <2>2 DEF HandlersMatch, HandlerIsOpen, HandlersNest, OpenHasHandler, IsBody
  <2> QED BY <2>1, <2>2, <2>3 DEF MatchInv
<1>2. MatchInv /\ [Next]_vars => MatchInv'
  BY MatchKept
<1>3. MatchInv => HandlersMatch
  BY DEF MatchInv
<1> QED BY <1>1, <1>2, <1>3, PTL DEF Spec

-----------------------------------------------------------------------------
(***************************************************************************)
(* The interpreter implements the try statements of the language (module   *)
(* TryStatements), for any program that keeps except and finally clauses   *)
(* in statements of their own and leaves a try statement by its end, by an *)
(* exception or by a return that passes no finally block.                  *)
(***************************************************************************)

Structured ==
  /\ {"break", "jit", "yield_in_try", "try_in_cleanup", "return_in_finally_try"}
       \cap Uses = {}
  /\ \A s \in Try : s.finally => s.arms = {} /\ ~s.orelse

-----------------------------------------------------------------------------
(* What a step does to the regions of the call stack: those that enclose a *)
(* place stay, those beyond it go, and there may be a new one at it.       *)

IsRegion(i, j) == i \in DOMAIN frames /\ j \in DOMAIN frames[i]

Kept(i, j) ==
  /\ i \in DOMAIN frames /\ j \in DOMAIN frames[i]
  /\ i \in DOMAIN frames' /\ j \in DOMAIN frames'[i]
  /\ frames'[i][j] = frames[i][j]

Becomes(d, c, R) ==
  /\ \A i, j : IsRegion(i, j) /\ Encloses(<<i, j>>, <<d, c>>) => Kept(i, j)
  /\ \A i, j : IsRegion(i, j)' => \/ Encloses(<<i, j>>, <<d, c>>) /\ Kept(i, j)
                                  \/ i = d /\ j = c /\ frames'[i][j] \in R
  /\ R # {} => d \in DOMAIN frames' /\ c \in DOMAIN frames'[d]

LEMMA RegionPlace ==
  ASSUME Shape, NEW i, NEW j, IsRegion(i, j)
  PROVE  /\ i \in 1 .. Len(frames) /\ frames[i] \in Position /\ Len(frames[i]) \in Nat
         /\ j \in 1 .. Len(frames[i]) /\ frames[i][j] \in RegionSet
<1>1. i \in 1 .. Len(frames) /\ frames[i] \in Position
  BY Elements DEF IsRegion
<1>2. Len(frames[i]) \in Nat /\ DOMAIN frames[i] = 1 .. Len(frames[i])
  BY <1>1 DEF Position
<1>3. frames[i][j] \in RegionSet
  BY <1>1 DEF IsRegion, Position
<1> QED BY <1>1, <1>2, <1>3 DEF IsRegion

\* The stack is cut to n calls; with n all of them, nothing changes.
LEMMA CutBecomes ==
  ASSUME Shape, Shape', NEW n \in 0 .. Len(frames), Len(frames') = n,
         \A i \in 1 .. n : frames'[i] = frames[i]
  PROVE  Becomes(n + 1, 0, {})
<1>0. Len(frames) \in Nat /\ DOMAIN frames = 1 .. Len(frames) /\ DOMAIN frames' = 1 .. n
  BY Elements DEF Shape
<1>1. ASSUME NEW i, NEW j, IsRegion(i, j), Encloses(<<i, j>>, <<n + 1, 0>>)
      PROVE  Kept(i, j)
  <2>1. i \in 1 .. Len(frames) /\ j \in Nat /\ j # 0
    BY <1>0, <1>1, RegionPlace
  <2>2. i \in 1 .. n
    BY <1>0, <1>1, <2>1 DEF Encloses
  <2> QED BY <1>0, <1>1, <2>2 DEF Kept, IsRegion
<1>2. ASSUME NEW i, NEW j, IsRegion(i, j)'
      PROVE  Encloses(<<i, j>>, <<n + 1, 0>>) /\ Kept(i, j)
  <2>1. i \in 1 .. n /\ i \in 1 .. Len(frames)
    BY <1>0, <1>2 DEF IsRegion
  <2> QED BY <1>0, <1>2, <2>1 DEF Kept, IsRegion, Encloses
<1> QED BY <1>1, <1>2 DEF Becomes

LEMMA SameBecomes ==
  ASSUME Shape, Shape', frames' = frames
  PROVE  Becomes(Len(frames) + 1, 0, {})
<1> DEFINE n == Len(frames)
<1>1. n \in 0 .. Len(frames) /\ Len(frames') = n /\ \A i \in 1 .. n : frames'[i] = frames[i]
  BY Elements
<1>2. Becomes(n + 1, 0, {})
  <2> HIDE DEF n
  <2> QED BY <1>1, CutBecomes
<1> QED BY <1>2

LEMMA PushBecomes ==
  ASSUME Shape, Shape', frames' = Append(frames, <<>>)
  PROVE  Becomes(Len(frames) + 1, 0, {})
<1>1. <<>> \in Position
  BY DEF Position
<1>2. /\ Len(frames) \in Nat /\ Len(frames') = Len(frames) + 1
      /\ frames'[Len(frames) + 1] = <<>>
      /\ \A i \in 1 .. Len(frames) : frames'[i] = frames[i]
      /\ DOMAIN frames = 1 .. Len(frames) /\ DOMAIN frames' = 1 .. Len(frames) + 1
  BY <1>1, PushShape, Elements DEF Shape
<1>3. ASSUME NEW i, NEW j, IsRegion(i, j) PROVE Kept(i, j)
  BY <1>2, <1>3 DEF Kept, IsRegion
<1>4. ASSUME NEW i, NEW j, IsRegion(i, j)'
      PROVE  Encloses(<<i, j>>, <<Len(frames) + 1, 0>>) /\ Kept(i, j)
  <2>1. i \in 1 .. Len(frames) + 1 /\ j \in DOMAIN frames'[i]
    BY <1>2, <1>4 DEF IsRegion
  <2>2. i # Len(frames) + 1
    BY <1>2, <2>1
  <2>3. i \in 1 .. Len(frames)
    BY <1>2, <2>1, <2>2
  <2> QED BY <1>2, <2>1, <2>3 DEF Kept, Encloses
<1> QED BY <1>3, <1>4 DEF Becomes

\* The top call changes from region c on.
LEMMA GotoBecomes ==
  ASSUME StateInv, Shape', runs # <<>>, NEW pc \in Position, Goto(pc),
         NEW c \in Nat \ {0}, NEW R,
         \A l \in 1 .. c - 1 : l \in DOMAIN Here /\ l \in DOMAIN pc /\ pc[l] = Here[l],
         DOMAIN pc \subseteq 1 .. c,
         c \in DOMAIN pc => pc[c] \in R,
         R # {} => c \in DOMAIN pc
  PROVE  Becomes(Len(frames), c, R)
<1> DEFINE d == Len(frames)
<1>0. /\ d \in Nat \ {0} /\ Here = frames[d] /\ Here \in Position
      /\ DOMAIN frames = 1 .. d /\ Shape
  BY Current, Elements DEF StateInv
<1>1. /\ frames' \in Seq(Position) /\ Len(frames') = d /\ frames'[d] = pc
      /\ \A i \in 1 .. d - 1 : frames'[i] = frames[i]
  BY GotoShape DEF StateInv
<1>2. DOMAIN frames' = 1 .. d
  BY <1>1
<1> HIDE DEF d
<1>3. ASSUME NEW i \in 1 .. d - 1, NEW j \in DOMAIN frames[i]
      PROVE  Kept(i, j) /\ Encloses(<<i, j>>, <<d, c>>)
  BY <1>0, <1>1, <1>2 DEF Kept, Encloses
<1>4. ASSUME NEW j \in 1 .. c - 1
      PROVE  Kept(d, j) /\ Encloses(<<d, j>>, <<d, c>>)
  BY <1>0, <1>1, <1>2 DEF Kept, Encloses
<1>5. ASSUME NEW i, NEW j, IsRegion(i, j), Encloses(<<i, j>>, <<d, c>>)
      PROVE  Kept(i, j)
  <2>1. i \in 1 .. d /\ j \in DOMAIN frames[i] /\ j \in Nat \ {0}
    BY <1>0, <1>5, RegionPlace DEF IsRegion
  <2>2. i < d \/ (i = d /\ j < c)
    BY <1>5 DEF Encloses
  <2>3. CASE i < d
    <3>1. i \in 1 .. d - 1
      BY <1>0, <2>1, <2>3
    <3> QED BY <1>3, <2>1, <3>1
  <2>4. CASE i = d /\ j < c
    <3>1. j \in 1 .. c - 1
      BY <2>1, <2>4
    <3>2. Kept(d, j)
      BY <1>4, <3>1
    <3> QED BY <2>4, <3>2
  <2> QED BY <2>2, <2>3, <2>4
<1>6. ASSUME NEW i, NEW j, IsRegion(i, j)'
      PROVE  \/ Encloses(<<i, j>>, <<d, c>>) /\ Kept(i, j)
             \/ i = d /\ j = c /\ frames'[i][j] \in R
  <2>1. i \in 1 .. d /\ j \in DOMAIN frames'[i]
    BY <1>2, <1>6 DEF IsRegion
  <2>2. CASE i \in 1 .. d - 1
    BY <1>1, <1>3, <2>1, <2>2
  <2>3. CASE i = d /\ j \in 1 .. c - 1
    <3>1. Kept(d, j) /\ Encloses(<<d, j>>, <<d, c>>)
      BY <1>4, <2>3
    <3> QED BY <2>3, <3>1
  <2>4. CASE i = d /\ j \notin 1 .. c - 1
    <3>1. j \in 1 .. c /\ j \in DOMAIN pc
      BY <1>1, <2>1, <2>4
    <3>2. j = c
      BY <2>4, <3>1
    <3> QED BY <1>1, <2>4, <3>1, <3>2
  <2> QED BY <1>0, <2>1, <2>2, <2>3, <2>4
<1>7. R # {} => d \in DOMAIN frames' /\ c \in DOMAIN frames'[d]
  BY <1>0, <1>1, <1>2
<1>8. Becomes(d, c, R)
  BY <1>5, <1>6, <1>7 DEF Becomes
<1> QED BY <1>8 DEF d

\* The search ends at the place of the last handler frame.
LEMMA UnwindBecomes ==
  ASSUME StateInv, Shape', HandlersMatch, handler_frames # <<>>,
         NEW region \in RegionSet, Unwind(Last(handler_frames), region),
         NEW d, NEW c, Place(Last(handler_frames)) = <<d, c>>
  PROVE  /\ d \in Nat /\ c \in Nat /\ IsBody(d, c)
         /\ frames[d][c].try = Last(handler_frames).try
         /\ Becomes(d, c, {region})
<1> DEFINE n == Len(handler_frames)
           h == handler_frames[n]
<1>0. n \in DOMAIN handler_frames /\ Last(handler_frames) = h /\ Shape /\ DepthsNest /\ RunsNest
  <2>1. Shape /\ DepthsNest /\ RunsNest
    BY DEF StateInv
  <2>2. handler_frames \in Seq(HandlerSet)
    BY <2>1 DEF Shape
  <2>3. Last(handler_frames) = handler_frames[Len(handler_frames)]
    BY <2>2, FrontAndLast
  <2>4. Len(handler_frames) \in DOMAIN handler_frames
    BY <2>2
  <2> QED BY <2>1, <2>3, <2>4
<1>1. /\ d = h.frame_depth /\ c = Len(h.pos) + 1 /\ d \in Nat /\ c \in Nat \ {0}
      /\ IsBody(d, c) /\ frames[d][c].try = h.try /\ SubSeq(frames[d], 1, c - 1) = h.pos
      /\ h.pos \in Position
  <2>1. /\ Place(h) = <<h.frame_depth, Len(h.pos) + 1>>
        /\ h.frame_depth \in Nat /\ Len(h.pos) \in Nat
        /\ IsBody(h.frame_depth, Len(h.pos) + 1)
    BY <1>0, Places DEF HandlersMatch
  <2>2. d = h.frame_depth /\ c = Len(h.pos) + 1
    BY <1>0, <2>1
  <2>3. /\ frames[h.frame_depth][Len(h.pos) + 1].try = h.try
        /\ SubSeq(frames[h.frame_depth], 1, Len(h.pos) + 1 - 1) = h.pos
    BY <1>0 DEF HandlersMatch, HandlerIsOpen
  <2>4. h.pos \in Position
    BY <1>0, Elements
  <2> QED BY <2>1, <2>2, <2>3, <2>4
<1>2. /\ Len(frames') = d /\ frames'[d] = Append(h.pos, region) /\ frames' \in Seq(Position)
      /\ \A i \in 1 .. d - 1 : frames'[i] = frames[i]
  <2>1. Unwind(handler_frames[n], region)
    BY <1>0
  <2>2. /\ frames' \in Seq(Position)
        /\ Len(frames') = handler_frames[n].frame_depth
        /\ frames'[Len(frames')] = Append(handler_frames[n].pos, region)
        /\ \A i \in 1 .. Len(frames') - 1 : frames'[i] = frames[i]
    <3> HIDE DEF n
    <3> QED BY <1>0, <2>1, UnwindShape
  <2> QED BY <1>1, <2>2
<1> HIDE DEF h, n
<1>3. /\ d \in 1 .. Len(frames) /\ frames[d] \in Position
      /\ Len(frames[d]) \in Nat /\ c \in 1 .. Len(frames[d])
      /\ DOMAIN frames = 1 .. Len(frames) /\ Len(frames) \in Nat
      /\ DOMAIN frames[d] = 1 .. Len(frames[d]) /\ DOMAIN frames' = 1 .. d
  BY <1>0, <1>1, <1>2, BodyPlace, Elements DEF Position
<1>4. \A l \in 1 .. c - 1 : h.pos[l] = frames[d][l]
  <2> DEFINE b == c - 1
             s == frames[d]
  <2>1. s \in Seq(RegionSet) /\ b \in 0 .. Len(s) /\ SubSeq(s, 1, b) = h.pos
    BY <1>1, <1>3 DEF Position
  <2>2. \A l \in 1 .. b : SubSeq(s, 1, b)[l] = s[l]
    <3> HIDE DEF b, s
    <3> QED BY <2>1, Prefix
  <2> QED BY <2>1, <2>2
<1>5. /\ DOMAIN frames'[d] = 1 .. c /\ frames'[d][c] = region
      /\ \A l \in 1 .. c - 1 : frames'[d][l] = frames[d][l]
  <2>1. h.pos \in Seq(RegionSet)
    BY <1>1 DEF Position
  <2>2. /\ DOMAIN Append(h.pos, region) = 1 .. c /\ Append(h.pos, region)[c] = region
        /\ \A l \in 1 .. c - 1 : Append(h.pos, region)[l] = h.pos[l]
    BY <1>1, <2>1
  <2> QED BY <1>2, <1>4, <2>2
<1>6. ASSUME NEW i \in 1 .. d - 1, NEW j \in DOMAIN frames[i]
      PROVE  Kept(i, j) /\ Encloses(<<i, j>>, <<d, c>>)
  BY <1>1, <1>2, <1>3 DEF Kept, Encloses
<1>7. ASSUME NEW j \in 1 .. c - 1 PROVE Kept(d, j) /\ Encloses(<<d, j>>, <<d, c>>)
  <2>1. j \in DOMAIN frames[d] /\ j \in DOMAIN frames'[d]
    BY <1>1, <1>3, <1>5
  <2>2. d \in DOMAIN frames /\ d \in DOMAIN frames' /\ j < c
    BY <1>1, <1>3
  <2> QED BY <1>5, <2>1, <2>2 DEF Kept, Encloses
<1>8. ASSUME NEW i, NEW j, IsRegion(i, j), Encloses(<<i, j>>, <<d, c>>) PROVE Kept(i, j)
  <2>1. i \in 1 .. Len(frames) /\ j \in DOMAIN frames[i] /\ j \in Nat \ {0}
    BY <1>0, <1>3, <1>8, RegionPlace DEF IsRegion
  <2>2. i < d \/ (i = d /\ j < c)
    BY <1>8 DEF Encloses
  <2>3. CASE i < d
    <3>1. i \in 1 .. d - 1
      BY <1>1, <1>3, <2>1, <2>3
    <3> QED BY <1>6, <2>1, <3>1
  <2>4. CASE i = d /\ j < c
    <3>1. j \in 1 .. c - 1
      BY <1>1, <2>1, <2>4
    <3>2. Kept(d, j)
      BY <1>7, <3>1
    <3> QED BY <2>4, <3>2
  <2> QED BY <2>2, <2>3, <2>4
<1>9. ASSUME NEW i, NEW j, IsRegion(i, j)'
      PROVE  \/ Encloses(<<i, j>>, <<d, c>>) /\ Kept(i, j)
             \/ i = d /\ j = c /\ frames'[i][j] \in {region}
  <2>1. i \in 1 .. d /\ j \in DOMAIN frames'[i]
    BY <1>3, <1>9 DEF IsRegion
  <2>2. CASE i \in 1 .. d - 1
    BY <1>2, <1>6, <2>1, <2>2
  <2>3. CASE i = d /\ j \in 1 .. c - 1
    <3>1. Kept(d, j) /\ Encloses(<<d, j>>, <<d, c>>)
      BY <1>7, <2>3
    <3> QED BY <2>3, <3>1
  <2>4. CASE i = d /\ j \notin 1 .. c - 1
    <3>1. j \in 1 .. c
      BY <1>5, <2>1, <2>4
    <3>2. j = c
      BY <1>1, <2>4, <3>1
    <3> QED BY <1>5, <2>4, <3>2
  <2>5. i \in 1 .. d - 1 \/ i = d
    BY <1>1, <2>1
  <2> QED BY <2>2, <2>3, <2>4, <2>5
<1>10. Becomes(d, c, {region})
  <2>1. d \in DOMAIN frames' /\ c \in DOMAIN frames'[d]
    BY <1>1, <1>3, <1>5
  <2> QED BY <1>8, <1>9, <2>1 DEF Becomes
<1> QED BY <1>0, <1>1, <1>10

\* A try statement is entered.
LEMMA EnterBecomes ==
  ASSUME StateInv, Shape', NEW s \in Try, EnterTry(s)
  PROVE  /\ Len(frames) \in Nat /\ Len(Here) + 1 \in Nat
         /\ Becomes(Len(frames), Len(Here) + 1, {Region(s, "body", None)})
<1> DEFINE c == Len(Here) + 1
           region == Region(s, "body", None)
           pc == Append(Here, region)
<1>1. runs # <<>> /\ Here \in Position /\ Len(frames) \in Nat /\ Goto(pc)
  BY Current DEF EnterTry, Stepping, StateInv
<1>2. region \in RegionSet
  BY Regions DEF Phases
<1> HIDE DEF region
<1>3. /\ pc \in Position /\ c \in Nat \ {0} /\ DOMAIN pc = 1 .. c /\ DOMAIN Here = 1 .. c - 1
      /\ pc[c] = region /\ \A l \in 1 .. c - 1 : pc[l] = Here[l]
  BY <1>1, <1>2 DEF Position
<1> HIDE DEF pc, c
<1>4. \A l \in 1 .. c - 1 : l \in DOMAIN Here /\ l \in DOMAIN pc /\ pc[l] = Here[l]
  BY <1>3
<1>5. Becomes(Len(frames), c, {region})
  BY <1>1, <1>3, <1>4, GotoBecomes
<1> QED BY <1>1, <1>3, <1>5 DEF c, region

\* The blocks that a block may be followed by, in the same try statement.
Successors(r) ==
  {Region(r.try, phase, None) : phase \in
     {q \in {"orelse", "finally"} : /\ q = "orelse" => r.phase = "body" /\ r.try.orelse
                                    /\ q = "finally" => r.phase # "finally" /\ r.try.finally}}

\* A block ends.
LEMMA BlockBecomes ==
  ASSUME StateInv, Shape', Stepping, Here # <<>>, Goto(Following(Here))
  PROVE  /\ Len(frames) \in Nat /\ Len(Here) \in Nat /\ IsRegion(Len(frames), Len(Here))
         /\ Last(Here) = frames[Len(frames)][Len(Here)]
         /\ \E R \in SUBSET Successors(Last(Here)) :
              /\ Becomes(Len(frames), Len(Here), R)
              /\ R = {} => \/ Last(Here).phase = "finally"
                           \/ ~Last(Here).try.finally
<1> DEFINE c == Len(Here)
           f == Front(Here)
           pc == Following(Here)
<1>1. /\ runs # <<>> /\ Here \in Position /\ Len(frames) \in Nat \ {0}
      /\ Here = frames[Len(frames)] /\ DOMAIN frames = 1 .. Len(frames)
  BY Current, Elements DEF Stepping, StateInv
<1>2. /\ f \in Seq(RegionSet) /\ Len(f) = c - 1 /\ c \in Nat \ {0}
      /\ \A l \in 1 .. c - 1 : f[l] = Here[l]
      /\ Last(Here) = Here[c] /\ Last(Here) \in RegionSet
  BY <1>1, FrontAndLast DEF Position
<1>3. pc \in Position /\ Goto(pc) /\ DOMAIN Here = 1 .. c
  BY <1>1, FollowingShape DEF Position
<1>4. IsRegion(Len(frames), c)
  BY <1>1, <1>2, <1>3 DEF IsRegion
<1> HIDE DEF f
<1>5. CASE pc = f
  <2>1. Last(Here).phase = "finally" \/ ~Last(Here).try.finally
    <3> SUFFICES ASSUME Last(Here).phase # "finally", Last(Here).try.finally
                 PROVE  FALSE
      OBVIOUS
    <3>1. PICK r : Following(Here) = Append(f, r)
      BY DEF Following, f
    <3>2. Len(Append(f, r)) # Len(f)
      BY <1>2
    <3> QED BY <1>5, <3>1, <3>2
  <2>2. \A l \in 1 .. c - 1 : l \in DOMAIN Here /\ l \in DOMAIN pc /\ pc[l] = Here[l]
    BY <1>2, <1>3, <1>5
  <2>3. DOMAIN pc \subseteq 1 .. c /\ c \notin DOMAIN pc
    BY <1>2, <1>5
  <2> HIDE DEF pc, c
  <2>4. Becomes(Len(frames), c, {})
    BY <1>1, <1>2, <1>3, <2>2, <2>3, GotoBecomes
  <2> QED BY <1>1, <1>2, <1>4, <2>1, <2>4 DEF c
<1>6. CASE pc # f
  <2>1. PICK r \in Successors(Last(Here)) : pc = Append(f, r)
    <3>1. \E phase \in {"orelse", "finally"} :
            /\ pc = Append(f, Region(Last(Here).try, phase, None))
            /\ phase = "orelse" => Last(Here).phase = "body" /\ Last(Here).try.orelse
            /\ phase = "finally" => Last(Here).phase # "finally" /\ Last(Here).try.finally
      BY <1>6 DEF Following, f
    <3> QED BY <3>1 DEF Successors
  <2>2. r \in RegionSet
    <3>1. PICK phase \in {"orelse", "finally"} : r = Region(Last(Here).try, phase, None)
      BY DEF Successors
    <3> QED BY <1>2, <3>1 DEF Region, RegionSet, Phases
  <2>3. /\ DOMAIN Append(f, r) = 1 .. c /\ Append(f, r)[c] = r
        /\ \A l \in 1 .. c - 1 : Append(f, r)[l] = f[l]
    BY <1>2, <2>2
  <2>4. \A l \in 1 .. c - 1 : l \in DOMAIN Here /\ l \in DOMAIN pc /\ pc[l] = Here[l]
    BY <1>2, <1>3, <2>1, <2>3
  <2>5. DOMAIN pc = 1 .. c /\ c \in DOMAIN pc /\ pc[c] = r
    BY <1>2, <2>1, <2>3
  <2> HIDE DEF pc, c
  <2>6. Becomes(Len(frames), c, {r})
    BY <1>1, <1>2, <1>3, <2>4, <2>5, GotoBecomes
  <2>7. {r} \in SUBSET Successors(Last(Here)) /\ {r} # {}
    OBVIOUS
  <2> QED BY <1>1, <1>2, <1>4, <2>6, <2>7 DEF c
<1> QED BY <1>5, <1>6

-----------------------------------------------------------------------------
(* The invariant.                                                          *)

RegionOk(r) ==
  /\ r.why # None => r.phase = "finally"
  /\ r.phase = "finally" => r.try.finally
  /\ r.try.finally => r.phase \in {"body", "finally"}

RegionsOk == \A i, j : IsRegion(i, j) => RegionOk(frames[i][j])

\* A finally block that is cleaning up is the innermost region there is: it
\* runs no try statement of its own.
CleanupInnermost ==
  \A i, j, k, l : IsRegion(i, j) /\ IsCleanup(k, l) =>
    Encloses(<<i, j>>, <<k, l>>) \/ (i = k /\ j = l)

\* The pending slot holds what the block cleaning up has to re-raise.
PendingIsWhy ==
  Stepping =>
    /\ \A i, j : IsCleanup(i, j) => frames[i][j].why = pending_exception
    /\ pending_exception # None => \E i, j : IsCleanup(i, j)

\* Would body r stop exception e?
Stops(r, e) == e # Trap /\ (Matches(r.try, e) \/ r.try.finally)

\* The handler frames that a search has dropped are those of bodies that do
\* not stop its exception.
PassedBodies ==
  err # None =>
    \A i, j : IsBody(i, j) /\ Stops(frames[i][j], err) =>
      \E k \in DOMAIN handler_frames : Place(handler_frames[k]) = <<i, j>>

\* Only the first run_until has no frame below it.
RunsFirst ==
  /\ runs # <<>> => runs[1].target = 0
  /\ \A k \in DOMAIN runs : runs[k].kind = "gen" => runs[k].target # 0

UnwindInv ==
  MatchInv /\ RegionsOk /\ CleanupInnermost /\ PendingIsWhy /\ PassedBodies /\ RunsFirst

\* Places are pairs of numbers.
LEMMA PlaceOrder ==
  ASSUME Shape, NEW i, NEW j, IsRegion(i, j), NEW k, NEW l, IsRegion(k, l)
  PROVE  /\ i \in Nat /\ j \in Nat /\ k \in Nat /\ l \in Nat
         /\ ~(Encloses(<<i, j>>, <<k, l>>) /\ Encloses(<<k, l>>, <<i, j>>))
         /\ ~Encloses(<<i, j>>, <<i, j>>)
<1>1. i \in Nat /\ j \in Nat /\ k \in Nat /\ l \in Nat
  BY RegionPlace, Elements
<1> QED BY <1>1 DEF Encloses

LEMMA CleanupIsRegion ==
  ASSUME NEW i, NEW j, IsCleanup(i, j)
  PROVE  IsRegion(i, j)
  BY DEF IsCleanup, IsRegion

LEMMA TopRegion ==
  ASSUME StateInv, runs # <<>>, Here # <<>>
  PROVE  /\ Shape /\ Len(frames) \in Nat \ {0} /\ Len(Here) \in Nat \ {0}
         /\ Here = frames[Len(frames)] /\ DOMAIN Here = 1 .. Len(Here)
         /\ Last(Here) = frames[Len(frames)][Len(Here)]
         /\ IsRegion(Len(frames), Len(Here))
<1>1. /\ Here \in Seq(RegionSet) /\ Len(frames) \in Nat \ {0} /\ Here = frames[Len(frames)]
      /\ DOMAIN frames = 1 .. Len(frames) /\ Shape
  BY Current, Elements DEF StateInv, Position
<1>2. Last(Here) = Here[Len(Here)] /\ Len(Here) \in Nat \ {0}
  BY <1>1, FrontAndLast
<1>3. DOMAIN Here = 1 .. Len(Here)
  BY <1>1
<1>4. Len(frames) \in DOMAIN frames /\ Len(Here) \in DOMAIN Here
  BY <1>1, <1>2, <1>3
<1> QED BY <1>1, <1>2, <1>3, <1>4 DEF IsRegion

\* A cleanup can only be the block that the interpreter is in.
LEMMA TopCleanup ==
  ASSUME StateInv, CleanupInnermost, runs # <<>>, Here # <<>>,
         NEW k, NEW l, IsCleanup(k, l)
  PROVE  k = Len(frames) /\ l = Len(Here) /\ frames[k][l] = Last(Here)
<1> DEFINE d == Len(frames)
           c == Len(Here)
<1>1. /\ Shape /\ d \in Nat \ {0} /\ c \in Nat \ {0} /\ Here = frames[d]
      /\ Last(Here) = frames[d][c] /\ IsRegion(d, c)
  BY TopRegion
<1>2. Encloses(<<d, c>>, <<k, l>>) \/ (k = d /\ l = c)
  BY <1>1 DEF CleanupInnermost
<1>3. k \in 1 .. d /\ Len(frames[k]) \in Nat /\ l \in 1 .. Len(frames[k])
  BY <1>1, CleanupIsRegion, RegionPlace
<1>4. k = d => l <= c
  BY <1>1, <1>3
<1> HIDE DEF d, c
<1>5. ~Encloses(<<d, c>>, <<k, l>>)
  BY <1>1, <1>3, <1>4 DEF Encloses
<1> QED BY <1>1, <1>2, <1>5 DEF d, c

\* The block being executed has exactly what is pending to re-raise.
LEMMA TopWhy ==
  ASSUME StateInv, CleanupInnermost, PendingIsWhy, Stepping, Here # <<>>
  PROVE  /\ Last(Here).why = pending_exception
         /\ pending_exception = None => \A k, l : ~IsCleanup(k, l)
<1>1. /\ runs # <<>> /\ Last(Here) = frames[Len(frames)][Len(Here)]
      /\ IsRegion(Len(frames), Len(Here))
  BY TopRegion DEF Stepping
<1>2. ASSUME pending_exception # None PROVE Last(Here).why = pending_exception
  <2>1. PICK k, l : IsCleanup(k, l)
    BY <1>2 DEF PendingIsWhy
  <2>2. frames[k][l] = Last(Here)
    BY <1>1, <2>1, TopCleanup
  <2> QED BY <2>1, <2>2 DEF PendingIsWhy
<1>3. ASSUME pending_exception = None PROVE \A k, l : ~IsCleanup(k, l)
  BY <1>3 DEF PendingIsWhy, IsCleanup
<1>4. ASSUME pending_exception = None PROVE Last(Here).why = None
  BY <1>1, <1>3, <1>4 DEF IsCleanup, IsRegion
<1> QED BY <1>2, <1>3, <1>4

\* What a step does to cleanups.
LEMMA InnermostKept ==
  ASSUME Shape, RegionsOk, CleanupInnermost, NEW d \in Nat, NEW c \in Nat, NEW R,
         Becomes(d, c, R), \A r \in R : RegionOk(r),
         R # {} => IsRegion(d, c) \/ \A k, l : ~IsCleanup(k, l)
  PROVE  RegionsOk' /\ CleanupInnermost'
<1>1. ASSUME NEW i, NEW j, IsRegion(i, j)' PROVE RegionOk(frames'[i][j])
  BY <1>1 DEF Becomes, Kept, IsRegion, RegionsOk
<1>2. ASSUME NEW i, NEW j, NEW k, NEW l, IsRegion(i, j)', IsCleanup(k, l)'
      PROVE  Encloses(<<i, j>>, <<k, l>>) \/ (i = k /\ j = l)
  <2>1. IsRegion(k, l)'
    BY <1>2 DEF IsCleanup, IsRegion
  <2>2. CASE Kept(i, j) /\ Kept(k, l)
    <3>1. IsRegion(i, j) /\ IsCleanup(k, l)
      BY <1>2, <2>2 DEF Kept, IsRegion, IsCleanup
    <3> QED BY <3>1 DEF CleanupInnermost
  <2>3. CASE i = d /\ j = c /\ R # {} /\ Kept(k, l) /\ Encloses(<<k, l>>, <<d, c>>)
    <3>1. IsCleanup(k, l) /\ IsRegion(k, l)
      BY <1>2, <2>3 DEF Kept, IsCleanup, IsRegion
    <3>2. IsRegion(d, c)
      BY <2>3, <3>1
    <3>3. Encloses(<<d, c>>, <<k, l>>) \/ (d = k /\ c = l)
      BY <3>1, <3>2 DEF CleanupInnermost
    <3> QED BY <2>3, <3>1, <3>2, <3>3, PlaceOrder
  <2> QED BY <1>2, <2>1, <2>2, <2>3 DEF Becomes
<1>3. RegionsOk'
  BY <1>1 DEF RegionsOk, IsRegion
<1>4. CleanupInnermost'
  BY <1>2 DEF CleanupInnermost, IsRegion, IsCleanup
<1> QED BY <1>3, <1>4

\* Where a region was, no cleanup is left but a new one.
LEMMA CleanupLeft ==
  ASSUME Shape, CleanupInnermost, NEW d, NEW c, NEW R, Becomes(d, c, R),
         IsRegion(d, c) \/ \A k, l : ~IsCleanup(k, l)
  PROVE  \A k, l : IsCleanup(k, l)' => k = d /\ l = c /\ frames'[d][c] \in R
<1> SUFFICES ASSUME NEW k, NEW l, IsCleanup(k, l)', ~(k = d /\ l = c /\ frames'[d][c] \in R)
             PROVE  FALSE
  OBVIOUS
<1>1. IsRegion(k, l)'
  BY DEF IsCleanup, IsRegion
<1>2. Encloses(<<k, l>>, <<d, c>>) /\ Kept(k, l)
  BY <1>1 DEF Becomes
<1>3. IsCleanup(k, l) /\ IsRegion(k, l)
  BY <1>2 DEF Kept, IsCleanup, IsRegion
<1>4. IsRegion(d, c)
  BY <1>3
<1>5. Encloses(<<d, c>>, <<k, l>>) \/ (d = k /\ c = l)
  BY <1>3, <1>4 DEF CleanupInnermost
<1> QED BY <1>2, <1>3, <1>4, <1>5, PlaceOrder

LEMMA CleanupsKept ==
  ASSUME NEW d, NEW c, Becomes(d, c, {}),
         \A k, l : IsCleanup(k, l) => Encloses(<<k, l>>, <<d, c>>)
  PROVE  /\ \A k, l : IsCleanup(k, l)' <=> IsCleanup(k, l)
         /\ \A k, l : IsCleanup(k, l) => frames'[k][l] = frames[k][l]
<1>1. ASSUME NEW k, NEW l, IsCleanup(k, l)
      PROVE  IsCleanup(k, l)' /\ frames'[k][l] = frames[k][l]
  <2>1. Kept(k, l)
    BY <1>1, CleanupIsRegion DEF Becomes
  <2> QED BY <1>1, <2>1 DEF Kept, IsCleanup
<1>2. ASSUME NEW k, NEW l, IsCleanup(k, l)' PROVE IsCleanup(k, l)
  <2>1. Kept(k, l)
    BY <1>2 DEF Becomes, IsCleanup, IsRegion
  <2> QED BY <1>2, <2>1 DEF Kept, IsCleanup
<1> QED BY <1>1, <1>2

LEMMA PendingKept ==
  ASSUME PendingIsWhy, NEW d, NEW c, Becomes(d, c, {}),
         \A k, l : IsCleanup(k, l) => Encloses(<<k, l>>, <<d, c>>),
         Stepping' => Stepping, pending_exception' = pending_exception
  PROVE  PendingIsWhy'
<1>1. /\ \A k, l : IsCleanup(k, l)' <=> IsCleanup(k, l)
      /\ \A k, l : IsCleanup(k, l) => frames'[k][l] = frames[k][l]
  BY CleanupsKept
<1> SUFFICES ASSUME Stepping'
             PROVE  /\ \A i, j : IsCleanup(i, j)' => frames'[i][j].why = pending_exception'
                    /\ pending_exception' # None => \E i, j : IsCleanup(i, j)'
  BY DEF PendingIsWhy, IsCleanup
<1> QED BY <1>1 DEF PendingIsWhy

LEMMA NothingPending ==
  ASSUME pending_exception' = None, \A k, l : ~IsCleanup(k, l)'
  PROVE  PendingIsWhy'
  BY DEF PendingIsWhy, IsCleanup

LEMMA NotStepping ==
  ASSUME err' # None
  PROVE  PendingIsWhy'
  BY DEF PendingIsWhy, Stepping

\* Every region encloses the place of the next call, and a cleanup in a call
\* below the top one the place of that.
LEMMA AllBelow ==
  ASSUME Shape, NEW i, NEW j, IsRegion(i, j)
  PROVE  /\ Encloses(<<i, j>>, <<Len(frames) + 1, 0>>)
         /\ i # Len(frames) => Encloses(<<i, j>>, <<Len(frames), 0>>)
<1>1. i \in 1 .. Len(frames) /\ Len(frames) \in Nat
  BY RegionPlace, Elements
<1> QED BY <1>1 DEF Encloses

LEMMA PassedRaised ==
  ASSUME HandlersMatch, err = None, frames' = frames, handler_frames' = handler_frames
  PROVE  PassedBodies'
<1>1. \A i, j : IsBody(i, j) =>
        \E k \in DOMAIN handler_frames : Place(handler_frames[k]) = <<i, j>>
  BY DEF HandlersMatch, OpenHasHandler, IsBody
<1> QED BY <1>1 DEF PassedBodies, IsBody, Place

LEMMA PassedFound ==
  ASSUME err' = None
  PROVE  PassedBodies'
  BY DEF PassedBodies

LEMMA StackSame ==
  ASSUME Shape, Shape', RegionsOk, CleanupInnermost, frames' = frames
  PROVE  RegionsOk' /\ CleanupInnermost'
<1> DEFINE d == Len(frames) + 1
<1>1. Becomes(d, 0, {}) /\ d \in Nat /\ 0 \in Nat
  BY SameBecomes, Elements
<1> HIDE DEF d
<1>2. (\A r \in {} : RegionOk(r)) /\ ~({} # {})
  OBVIOUS
<1> QED BY <1>1, <1>2, InnermostKept

LEMMA RunsFirstKept ==
  ASSUME Shape, RunsNest, RunsFirst, Shape',
         \/ runs' = runs
         \/ runs # <<>> /\ runs' = Front(runs)
         \/ runs # <<>> /\ \E r \in RunSet : r.target = Len(frames) /\ runs' = Append(runs, r)
  PROVE  RunsFirst'
<1>1. CASE runs' = runs
  BY <1>1 DEF RunsFirst
<1>2. CASE runs # <<>> /\ runs' = Front(runs)
  <2>1. runs \in Seq(RunSet) /\ runs' \in Seq(RunSet)
    BY DEF Shape
  <2>2. /\ Len(runs') = Len(runs) - 1 /\ Len(runs) \in Nat \ {0}
        /\ \A k \in 1 .. Len(runs) - 1 : runs'[k] = runs[k]
    BY <1>2, <2>1, FrontAndLast
  <2>3. DOMAIN runs' = 1 .. Len(runs) - 1 /\ DOMAIN runs = 1 .. Len(runs)
    BY <2>1, <2>2
  <2>4. runs' # <<>> => 1 \in 1 .. Len(runs) - 1
    BY <2>1, <2>2
  <2> QED BY <1>2, <2>2, <2>3, <2>4 DEF RunsFirst
<1>3. ASSUME runs # <<>>,
             NEW r \in RunSet, r.target = Len(frames), runs' = Append(runs, r)
      PROVE  RunsFirst'
  <2>1. runs \in Seq(RunSet) /\ Len(runs) \in Nat \ {0} /\ DOMAIN runs = 1 .. Len(runs)
    BY <1>3 DEF Shape
  <2>a. /\ runs' \in Seq(RunSet) /\ Len(runs') = Len(runs) + 1
        /\ runs'[Len(runs) + 1] = r
        /\ \A k \in 1 .. Len(runs) : runs'[k] = runs[k]
    <3>1. runs \in Seq(RunSet) /\ r \in RunSet /\ runs' = Append(runs, r)
      BY <1>3, <2>1
    <3> QED BY <3>1
  <2>2. /\ DOMAIN runs' = 1 .. Len(runs) + 1 /\ runs'[Len(runs) + 1] = r
        /\ \A k \in 1 .. Len(runs) : runs'[k] = runs[k]
    BY <2>a
  <2>3. r.target # 0
    BY <1>3, Current
  <2>4. 1 \in 1 .. Len(runs)
    BY <2>1
  <2>5. \A k \in DOMAIN runs' : k \in 1 .. Len(runs) \/ k = Len(runs) + 1
    BY <2>1, <2>2
  <2> QED BY <1>3, <2>1, <2>2, <2>3, <2>4, <2>5 DEF RunsFirst
<1> QED BY <1>1, <1>2, <1>3

\* The runs of a step.
LEMMA RunsFirstStep ==
  ASSUME StateInv, RunsFirst, Shape', [Next]_vars
  PROVE  RunsFirst'
<1>a. Shape /\ RunsNest
  BY DEF StateInv
<1>1. CASE runs' = runs
  BY <1>1, <1>a, RunsFirstKept
<1>2. ASSUME NEW kind \in {"native", "jit"}, Invoke(kind) PROVE RunsFirst'
  <2> DEFINE r == [kind |-> kind, target |-> Len(frames), gen |-> None]
  <2>1. r \in RunSet /\ r.target = Len(frames)
    BY <1>a, Elements DEF RunSet
  <2>2. runs # <<>> /\ runs' = Append(runs, r)
    BY <1>2 DEF Invoke, Stepping
  <2> HIDE DEF r
  <2> QED BY <1>a, <2>1, <2>2, RunsFirstKept
<1>3. ASSUME NEW g \in Gen, GenNext(g) PROVE RunsFirst'
  <2> DEFINE r == [kind |-> "gen", target |-> Len(frames), gen |-> g]
  <2>1. r \in RunSet /\ r.target = Len(frames)
    BY <1>a, Elements DEF RunSet
  <2>2. runs # <<>> /\ runs' = Append(runs, r)
    BY <1>3 DEF GenNext, Stepping
  <2> HIDE DEF r
  <2> QED BY <1>a, <2>1, <2>2, RunsFirstKept
<1>4. ASSUME Ret \/ Yield \/ Escape PROVE RunsFirst'
  <2>1. runs # <<>> /\ (runs' = runs \/ runs' = Front(runs))
    BY <1>4 DEF Ret, Yield, Escape, Stepping, Searching
  <2> QED BY <1>a, <2>1, RunsFirstKept
<1>5. ASSUME Next PROVE \/ runs' = runs
                        \/ \E kind \in {"native", "jit"} : Invoke(kind)
                        \/ \E g \in Gen : GenNext(g)
                        \/ Ret \/ Yield \/ Escape
  BY <1>5 DEF Next, Propagate, EnterTry, LeaveTry, LeaveBlock, EndFinally, Break, Raise,
              Call, StackOverflow, Catch, ToFinally, DropHandler
<1> QED BY <1>1, <1>2, <1>3, <1>4, <1>5 DEF vars

-----------------------------------------------------------------------------
(* Every step keeps the invariant.                                         *)

\* What is to be shown of a step.
Good == RegionsOk /\ CleanupInnermost /\ PendingIsWhy /\ PassedBodies

\* The facts about a structured program that the steps use.
LEMMA StructuredUses ==
  ASSUME Structured
  PROVE  /\ "break" \notin Uses /\ "jit" \notin Uses /\ "yield_in_try" \notin Uses
         /\ "try_in_cleanup" \notin Uses /\ "return_in_finally_try" \notin Uses
         /\ {"break", "jit", "yield_in_try"} \cap Uses = {}
         /\ \A s \in Try : s.finally => s.arms = {} /\ ~s.orelse
  BY DEF Structured

LEMMA SuccessorsOk ==
  ASSUME Structured, NEW r \in RegionSet, NEW q \in Successors(r)
  PROVE  RegionOk(q) /\ q.why = None /\ q.try = r.try /\ (r.try.finally => q.phase = "finally")
<1>1. PICK phase \in {"orelse", "finally"} :
        /\ q = Region(r.try, phase, None)
        /\ phase = "orelse" => r.try.orelse
        /\ phase = "finally" => r.try.finally
  BY DEF Successors
<1>2. r.try \in Try
  BY DEF RegionSet
<1>3. q.try = r.try /\ q.phase = phase /\ q.why = None
  BY <1>1 DEF Region
<1> QED BY <1>1, <1>2, <1>3, StructuredUses DEF RegionOk

LEMMA EnterGood ==
  ASSUME Structured, UnwindInv, Shape', NEW s \in Try, EnterTry(s)
  PROVE  Good'
<1> USE DEF UnwindInv, MatchInv
<1> DEFINE d == Len(frames)
           c == Len(Here) + 1
           region == Region(s, "body", None)
<1>1. d \in Nat /\ c \in Nat /\ Becomes(d, c, {region}) /\ Shape
  BY EnterBecomes DEF StateInv
<1>2. Stepping /\ pending_exception' = pending_exception /\ err' = err /\ ~CleaningUp
  BY StructuredUses DEF EnterTry, pendingVars, errVars
<1>3. \A k, l : ~IsCleanup(k, l)
  BY <1>2 DEF CleaningUp, IsCleanup
<1>4. pending_exception = None
  BY <1>2, <1>3 DEF PendingIsWhy
<1>5. RegionOk(region) /\ region.why = None
  BY DEF RegionOk, Region
<1> HIDE DEF d, c, region
<1>6. \A r \in {region} : RegionOk(r)
  BY <1>5
<1>7. RegionsOk' /\ CleanupInnermost'
  BY <1>1, <1>3, <1>6, InnermostKept
<1>8. \A k, l : IsCleanup(k, l)' => k = d /\ l = c /\ frames'[d][c] \in {region}
  BY <1>1, <1>3, CleanupLeft
<1>9. \A k, l : ~IsCleanup(k, l)'
  BY <1>5, <1>8 DEF IsCleanup
<1>10. PendingIsWhy'
  BY <1>2, <1>4, <1>9, NothingPending
<1>11. PassedBodies'
  BY <1>2, PassedFound DEF Stepping
<1> QED BY <1>7, <1>10, <1>11 DEF Good

\* A block ends with nothing to re-raise.
LEMMA BlockGood ==
  ASSUME Structured, UnwindInv, Shape', Stepping, Here # <<>>, Goto(Following(Here)),
         pending_exception = None, pending_exception' = None, err' = None
  PROVE  Good'
<1> USE DEF UnwindInv, MatchInv
<1> DEFINE d == Len(frames)
           c == Len(Here)
<1>1. /\ d \in Nat /\ c \in Nat /\ IsRegion(d, c) /\ Shape /\ Last(Here) = frames[d][c]
      /\ \E R \in SUBSET Successors(Last(Here)) : Becomes(d, c, R)
  BY BlockBecomes DEF StateInv
<1>2. PICK R \in SUBSET Successors(Last(Here)) : Becomes(d, c, R)
  BY <1>1
<1>3. Last(Here) \in RegionSet
  BY <1>1, RegionPlace
<1>4. \A r \in R : RegionOk(r) /\ r.why = None
  BY <1>3, SuccessorsOk
<1> HIDE DEF d, c
<1>5. RegionsOk' /\ CleanupInnermost'
  BY <1>1, <1>2, <1>4, InnermostKept
<1>6. \A k, l : IsCleanup(k, l)' => k = d /\ l = c /\ frames'[d][c] \in R
  BY <1>1, <1>2, CleanupLeft
<1>7. \A k, l : ~IsCleanup(k, l)'
  BY <1>4, <1>6 DEF IsCleanup
<1> QED BY <1>5, <1>7, NothingPending, PassedFound DEF Good

\* An exception is raised.
LEMMA RaiseGood ==
  ASSUME UnwindInv, Shape', err = None, err' # None,
         frames' = frames, handler_frames' = handler_frames
  PROVE  Good'
<1>1. Shape /\ RegionsOk /\ CleanupInnermost /\ HandlersMatch
  BY DEF UnwindInv, MatchInv, StateInv
<1> QED BY <1>1, StackSame, NotStepping, PassedRaised DEF Good

\* A call is made.
LEMMA CallGood ==
  ASSUME UnwindInv, Shape', Stepping, frames' = Append(frames, <<>>),
         pending_exception' = pending_exception, err' = err
  PROVE  Good'
<1> USE DEF UnwindInv, MatchInv, StateInv
<1> DEFINE d == Len(frames) + 1
<1>1. Becomes(d, 0, {}) /\ d \in Nat /\ 0 \in Nat
  BY PushBecomes, Elements
<1>2. \A k, l : IsCleanup(k, l) => Encloses(<<k, l>>, <<d, 0>>)
  BY AllBelow, CleanupIsRegion
<1> HIDE DEF d
<1>3. (\A r \in {} : RegionOk(r)) /\ ~({} # {})
  OBVIOUS
<1>4. RegionsOk' /\ CleanupInnermost'
  BY <1>1, <1>3, InnermostKept
<1>5. PendingIsWhy'
  BY <1>1, <1>2, PendingKept
<1>6. PassedBodies'
  BY PassedFound DEF Stepping
<1> QED BY <1>4, <1>5, <1>6 DEF Good

\* A call in which no finally block runs is left.
LEMMA LeaveGood ==
  ASSUME UnwindInv, Shape', Stepping, frames' = Front(frames),
         \A j \in DOMAIN Here : ~Here[j].try.finally,
         pending_exception' = pending_exception, err' = err
  PROVE  Good'
<1> USE DEF UnwindInv, MatchInv, StateInv
<1> DEFINE d == Len(frames)
           n == d - 1
<1>1. runs # <<>> /\ d \in Nat \ {0} /\ Here = frames[d]
  BY Current DEF Stepping
<1>2. Len(frames') = n /\ \A i \in 1 .. n : frames'[i] = frames[i]
  BY <1>1, PopShape
<1>3. n \in 0 .. Len(frames) /\ d = n + 1
  BY <1>1
<1> HIDE DEF n
<1>4. Becomes(d, 0, {}) /\ d \in Nat /\ 0 \in Nat
  BY <1>1, <1>2, <1>3, CutBecomes
<1>5. ASSUME NEW k, NEW l, IsCleanup(k, l) PROVE Encloses(<<k, l>>, <<d, 0>>)
  <2>1. k # d
    <3> SUFFICES ASSUME k = d PROVE FALSE
      OBVIOUS
    <3>1. l \in DOMAIN Here /\ IsRegion(d, l) /\ Here[l].why # None
      BY <1>1, <1>5 DEF IsCleanup, IsRegion
    <3>2. RegionOk(Here[l])
      BY <1>1, <3>1 DEF RegionsOk
    <3> QED BY <3>1, <3>2 DEF RegionOk
  <2> QED BY <1>5, <2>1, CleanupIsRegion, AllBelow
<1> HIDE DEF d
<1>6. (\A r \in {} : RegionOk(r)) /\ ~({} # {})
  OBVIOUS
<1>7. RegionsOk' /\ CleanupInnermost'
  BY <1>4, <1>6, InnermostKept
<1>8. PendingIsWhy'
  BY <1>4, <1>5, PendingKept
<1>9. PassedBodies'
  BY PassedFound DEF Stepping
<1> QED BY <1>7, <1>8, <1>9 DEF Good

\* The search ends.
LEMMA CaughtGood ==
  ASSUME UnwindInv, Shape', handler_frames # <<>>,
         NEW region \in RegionSet, RegionOk(region), Unwind(Last(handler_frames), region),
         pending_exception' = region.why, err' = None
  PROVE  Good'
<1> USE DEF UnwindInv, MatchInv, StateInv
<1>1. PICK d, c : Place(Last(handler_frames)) = <<d, c>>
  BY DEF Place
<1>2. d \in Nat /\ c \in Nat /\ IsBody(d, c) /\ Becomes(d, c, {region})
  BY <1>1, UnwindBecomes
<1>3. IsRegion(d, c)
  BY <1>2 DEF IsBody, IsRegion
<1>4. RegionsOk' /\ CleanupInnermost'
  <2>1. \A r \in {region} : RegionOk(r)
    OBVIOUS
  <2> QED BY <1>2, <1>3, <2>1, InnermostKept
<1>5. \A k, l : IsCleanup(k, l)' => k = d /\ l = c /\ frames'[d][c] = region
  <2>1. \A k, l : IsCleanup(k, l)' => k = d /\ l = c /\ frames'[d][c] \in {region}
    BY <1>2, <1>3, CleanupLeft
  <2> QED BY <2>1
<1>6. IsRegion(d, c)' /\ frames'[d][c] = region
  <2>1. IsRegion(d, c)'
    BY <1>2 DEF Becomes, IsRegion
  <2>2. ~Encloses(<<d, c>>, <<d, c>>)
    BY <1>2 DEF Encloses
  <2> QED BY <1>2, <2>1, <2>2 DEF Becomes
<1>7. PendingIsWhy'
  <2>1. \A i, j : IsCleanup(i, j)' => frames'[i][j].why = pending_exception'
    BY <1>5
  <2>2. pending_exception' # None => IsCleanup(d, c)'
    BY <1>6 DEF IsCleanup, IsRegion
  <2> QED BY <2>1, <2>2 DEF PendingIsWhy, IsCleanup
<1>8. PassedBodies'
  BY PassedFound
<1> QED BY <1>4, <1>7, <1>8 DEF Good

\* A search passes a body that does not stop its exception.
LEMMA DropGood ==
  ASSUME UnwindInv, Shape', DropHandler
  PROVE  Good'
<1> USE DEF UnwindInv, MatchInv, StateInv
<1> DEFINE n == Len(handler_frames)
           h == handler_frames[n]
<1>1. /\ HandlerInRun /\ err # None /\ err' = err /\ frames' = frames
      /\ handler_frames' = Front(handler_frames)
      /\ ~Matches(Last(handler_frames).try, err) /\ ~GoesToFinally(Last(handler_frames).try)
  BY DEF DropHandler, Searching, errVars
<1>2. handler_frames # <<>> /\ n \in DOMAIN handler_frames /\ Last(handler_frames) = h
  BY <1>1, TopHandler
<1>3. /\ Len(handler_frames') = n - 1 /\ handler_frames' \in Seq(HandlerSet)
      /\ \A k \in 1 .. n - 1 : handler_frames'[k] = handler_frames[k]
  BY <1>1, <1>2, PoppedHandler
<1>4. n \in Nat \ {0} /\ DOMAIN handler_frames = 1 .. n /\ DOMAIN handler_frames' = 1 .. n - 1
  BY <1>2, <1>3, Elements
<1>5. ~Matches(h.try, err) /\ ~h.try.finally
  BY <1>1, <1>2 DEF GoesToFinally
<1>6. ASSUME NEW i, NEW j, IsBody(i, j), Stops(frames[i][j], err)
      PROVE  \E k \in 1 .. n - 1 : Place(handler_frames[k]) = <<i, j>>
  <2>1. PICK k \in DOMAIN handler_frames : Place(handler_frames[k]) = <<i, j>>
    BY <1>1, <1>6 DEF PassedBodies
  <2>2. frames[i][j].try = handler_frames[k].try
    BY <2>1 DEF HandlersMatch, HandlerIsOpen, Place
  <2>3. k # n
    BY <1>5, <1>6, <2>2 DEF Stops
  <2>4. k \in 1 .. n - 1
    <3> HIDE DEF n, h
    <3> QED BY <1>4, <2>1, <2>3
  <2> QED BY <2>1, <2>4
<1>7. PassedBodies'
  <2>1. \A k \in 1 .. n - 1 : k \in DOMAIN handler_frames' /\ handler_frames'[k] = handler_frames[k]
    BY <1>3, <1>4
  <2>2. ASSUME NEW i, NEW j, IsBody(i, j), Stops(frames[i][j], err)
        PROVE  \E k \in DOMAIN handler_frames' : Place(handler_frames'[k]) = <<i, j>>
    <3>1. PICK k \in 1 .. n - 1 : Place(handler_frames[k]) = <<i, j>>
      BY <1>6, <2>2
    <3> QED BY <2>1, <3>1
  <2> HIDE DEF n, h
  <2> QED BY <1>1, <2>2 DEF PassedBodies, IsBody, Place
<1> QED BY <1>1, <1>7, StackSame, NotStepping DEF Good

LEMMA HandlersBelowRun ==
  ASSUME StateInv, runs # <<>>, ~HandlerInRun
  PROVE  \A k \in DOMAIN handler_frames :
           handler_frames[k].frame_depth <= Last(runs).target
<1>1. Shape /\ DepthsNest /\ RunsNest
  BY DEF StateInv
<1>2. Last(runs).target \in Nat
  BY <1>1, Current
<1>3. CASE handler_frames = <<>>
  BY <1>3
<1>4. CASE handler_frames # <<>>
  <2>1. handler_frames \in Seq(HandlerSet)
    BY <1>1 DEF Shape
  <2>2. Last(handler_frames) = handler_frames[Len(handler_frames)]
    BY <1>4, <2>1, FrontAndLast
  <2>3. Len(handler_frames) \in DOMAIN handler_frames
    BY <1>4, <2>1
  <2>4. handler_frames[Len(handler_frames)].frame_depth <= Last(runs).target
    BY <1>1, <1>2, <1>4, <2>2, <2>3, Elements DEF HandlerInRun
  <2>5. ASSUME NEW k \in DOMAIN handler_frames
        PROVE  handler_frames[k].frame_depth <= handler_frames[Len(handler_frames)].frame_depth
    <3>1. k < Len(handler_frames) \/ k = Len(handler_frames)
      BY <1>1, Elements
    <3> QED BY <1>1, <2>3, <3>1, Elements DEF DepthsNest
  <2> QED BY <1>1, <1>2, <2>3, <2>4, <2>5, Elements
<1> QED BY <1>3, <1>4

\* The search reaches the bottom of the innermost run.
LEMMA EscapeGood ==
  ASSUME Structured, UnwindInv, Shape', Escape
  PROVE  Good' /\ err' = err
<1> USE DEF UnwindInv, MatchInv, StateInv
<1>1. runs # <<>> /\ err # None /\ (err = Trap \/ ~HandlerInRun)
  BY DEF Escape, Searching
<1>2. /\ Last(runs) = runs[Len(runs)] /\ Len(runs) \in DOMAIN runs
      /\ Last(runs).target \in 0 .. Len(frames) - 1 /\ Len(frames) \in Nat \ {0}
  BY <1>1, Current, Elements
<1>3. Last(runs).kind # "jit"
  BY <1>1, <1>2 DEF NoJit
<1>4. err' = err
  BY <1>3 DEF Escape
<1>5. CASE Last(runs).kind = "gen"
  <2> DEFINE n == Last(runs).target
  <2>1. frames' = SubSeq(frames, 1, n) /\ handler_frames' = HandlersUpTo(n)
    BY <1>5 DEF Escape
  <2>2. n \in 0 .. Len(frames) /\ n \in Nat
    BY <1>2
  <2>3. \A k \in DOMAIN handler_frames : ~HandlerInRun => handler_frames[k].frame_depth <= n
    BY <1>1, HandlersBelowRun
  <2> HIDE DEF n
  <2>4. Len(frames') = n /\ \A i \in 1 .. n : frames'[i] = frames[i]
    BY <2>1, <2>2, CutShape
  <2>5. Becomes(n + 1, 0, {}) /\ n + 1 \in Nat /\ 0 \in Nat
    BY <2>2, <2>4, CutBecomes
  <2>6. (\A r \in {} : RegionOk(r)) /\ ~({} # {})
    OBVIOUS
  <2>7. RegionsOk' /\ CleanupInnermost'
    <3> DEFINE d == n + 1
    <3>1. d \in Nat /\ Becomes(d, 0, {}) /\ 0 \in Nat
      BY <2>5
    <3>2. Shape /\ RegionsOk /\ CleanupInnermost
      OBVIOUS
    <3> HIDE DEF d, UnwindInv, MatchInv, StateInv
    <3> QED BY <2>6, <3>1, <3>2, InnermostKept
  <2>8. PassedBodies'
    <3> SUFFICES ASSUME NEW i, NEW j, IsBody(i, j)', Stops(frames'[i][j], err)
                 PROVE  \E k \in DOMAIN handler_frames' : Place(handler_frames'[k]) = <<i, j>>
      BY <1>4 DEF PassedBodies, IsBody, Place
    <3>1. ~HandlerInRun
      BY <1>1 DEF Stops
    <3>2. Kept(i, j)
      BY <2>5 DEF Becomes, IsBody, IsRegion
    <3>3. IsBody(i, j) /\ frames[i][j] = frames'[i][j]
      BY <3>2 DEF Kept, IsBody
    <3>4. PICK k \in DOMAIN handler_frames : Place(handler_frames[k]) = <<i, j>>
      BY <1>1, <3>3 DEF PassedBodies
    <3>5. PICK m \in 0 .. Len(handler_frames) :
             /\ handler_frames' \in Seq(HandlerSet) /\ Len(handler_frames') = m
             /\ \A q \in 1 .. m : handler_frames'[q] = handler_frames[q]
             /\ \A q \in m + 1 .. Len(handler_frames) : handler_frames[q].frame_depth > n
      BY <2>1, <2>2, KeptHandlers
    <3>6. k \in 1 .. m
      BY <2>2, <2>3, <3>1, <3>4, <3>5, Elements
    <3>7. k \in DOMAIN handler_frames' /\ handler_frames'[k] = handler_frames[k]
      BY <3>5, <3>6
    <3> QED BY <3>4, <3>7
  <2> QED BY <1>1, <1>4, <2>7, <2>8, NotStepping DEF Good
<1>6. CASE Last(runs).kind # "gen"
  <2>1. UNCHANGED <<frames, handler_frames>>
    BY <1>6 DEF Escape
  <2>2. PassedBodies'
    BY <1>4, <2>1 DEF PassedBodies, IsBody, Place
  <2> QED BY <1>1, <1>4, <2>1, <2>2, StackSame, NotStepping DEF Good
<1> QED BY <1>4, <1>5, <1>6

\* Region records of handlers and finally blocks that a search starts.
LEMMA StartedOk ==
  ASSUME Structured, UnwindInv, Searching, err # Trap, HandlerInRun
  PROVE  LET s == Last(handler_frames).try
         IN /\ s \in Try /\ handler_frames # <<>> /\ err \in Exc
            /\ Region(s, "handler", None) \in RegionSet
            /\ Region(s, "finally", err) \in RegionSet
            /\ Matches(s, err) => ~s.finally /\ RegionOk(Region(s, "handler", None))
            /\ s.finally => RegionOk(Region(s, "finally", err))
            /\ Region(s, "finally", err).why = err /\ Region(s, "handler", None).why = None
<1> DEFINE s == Last(handler_frames).try
<1>1. s \in Try /\ handler_frames # <<>>
  BY TopHandler DEF UnwindInv, MatchInv
<1>2. err \in Exc
  BY DEF Searching, UnwindInv, MatchInv, StateInv, Shape
<1> HIDE DEF s
<1>3. /\ Region(s, "handler", None) \in RegionSet
      /\ Region(s, "finally", err) \in RegionSet
  BY <1>1, <1>2 DEF Region, RegionSet, Phases
<1>4. Matches(s, err) => ~s.finally
  BY <1>1, StructuredUses DEF Matches
<1>5. /\ ~s.finally => RegionOk(Region(s, "handler", None))
      /\ s.finally => RegionOk(Region(s, "finally", err))
      /\ Region(s, "finally", err).why = err /\ Region(s, "handler", None).why = None
  BY DEF RegionOk, Region
<1> QED BY <1>1, <1>2, <1>3, <1>4, <1>5 DEF s

LEMMA UnwindKept ==
  ASSUME Structured
  PROVE  UnwindInv /\ [Next]_vars => UnwindInv'
<1> SUFFICES ASSUME UnwindInv, [Next]_vars PROVE UnwindInv'
  OBVIOUS
<1>a. MatchInv' /\ StateInv /\ StateInv' /\ Shape /\ Shape'
  BY StructuredUses, MatchKept DEF UnwindInv, MatchInv, StateInv
<1>b. RunsFirst'
  BY <1>a, RunsFirstStep DEF UnwindInv
<1>c. runs # <<>> => Len(frames) \in Nat \ {0} /\ Here = frames[Len(frames)]
  BY <1>a, Current DEF StateInv
<1> SUFFICES Good'
  BY <1>a, <1>b DEF UnwindInv, Good
<1>1. CASE UNCHANGED vars
  BY <1>1 DEF vars, UnwindInv, Good, RegionsOk, CleanupInnermost, PendingIsWhy,
              PassedBodies, IsRegion, IsCleanup, IsBody, Stepping, pendingVars, errVars, Place
<1>2. ASSUME NEW s \in Try, EnterTry(s) PROVE Good'
  BY <1>2, <1>a, EnterGood
<1>3. ASSUME LeaveTry \/ LeaveBlock PROVE Good'
  <2>1. /\ Stepping /\ Here # <<>> /\ Last(Here).phase # "finally" /\ Goto(Following(Here))
        /\ pending_exception' = pending_exception /\ err' = err /\ err = None
    BY <1>3 DEF LeaveTry, LeaveBlock, At, Stepping, pendingVars, errVars
  <2>2. Last(Here).why = pending_exception
    BY <1>a, <2>1, TopWhy DEF UnwindInv
  <2>3. RegionOk(Last(Here))
    BY <1>a, <2>1, TopRegion DEF UnwindInv, RegionsOk, Stepping
  <2>4. pending_exception = None
    BY <2>1, <2>2, <2>3 DEF RegionOk
  <2> QED BY <1>a, <2>1, <2>4, BlockGood
<1>4. CASE EndFinally
  <2>1. CASE pending_exception = None
    BY <1>4, <1>a, <2>1, BlockGood DEF EndFinally, At, errVars, Stepping
  <2>2. CASE pending_exception # None
    BY <1>4, <1>a, <2>2, RaiseGood DEF EndFinally, Stepping
  <2> QED BY <2>1, <2>2
<1>5. CASE Break
  BY <1>5, StructuredUses DEF Break
<1>6. ASSUME NEW x \in Exc, Raise(x) PROVE Good'
  BY <1>6, <1>a, RaiseGood, NoneAssumption DEF Raise, Stepping
<1>7. CASE StackOverflow
  BY <1>7, <1>a, RaiseGood, NoneAssumption DEF StackOverflow, Stepping
<1>8. ASSUME \/ Call
             \/ \E kind \in {"native", "jit"} : Invoke(kind)
             \/ \E g \in Gen : GenNext(g)
      PROVE Good'
  <2>1. \A g \in Gen : gens[g].saved = <<>>
    BY DEF UnwindInv, MatchInv
  <2>2. /\ Stepping /\ frames' = Append(frames, <<>>)
        /\ pending_exception' = pending_exception /\ err' = err
    BY <1>8, <2>1 DEF Call, Invoke, GenNext, pendingVars, errVars
  <2> QED BY <1>a, <2>2, CallGood
<1>9. ASSUME Ret \/ Yield PROVE Good'
  <2>1. /\ Stepping /\ frames' = Front(frames)
        /\ pending_exception' = pending_exception /\ err' = err
    BY <1>9 DEF Ret, Yield, pendingVars, errVars
  <2>2. \A j \in DOMAIN Here : ~Here[j].try.finally
    BY <1>9, StructuredUses DEF Ret, Yield
  <2> QED BY <1>a, <2>1, <2>2, CallGood, LeaveGood
<1>10. CASE Catch
  <2>1. Searching /\ err # Trap /\ HandlerInRun /\ Matches(Last(handler_frames).try, err)
    BY <1>10 DEF Catch
  <2> QED BY <1>10, <1>a, <2>1, StartedOk, CaughtGood DEF Catch
<1>11. CASE ToFinally
  <2>1. Searching /\ err # Trap /\ HandlerInRun /\ Last(handler_frames).try.finally
    BY <1>11 DEF ToFinally, GoesToFinally
  <2> QED BY <1>11, <1>a, <2>1, StartedOk, CaughtGood DEF ToFinally
<1>12. CASE DropHandler
  BY <1>12, <1>a, DropGood
<1>13. CASE Escape
  BY <1>13, <1>a, EscapeGood
<1> QED
  BY <1>1, <1>2, <1>3, <1>4, <1>5, <1>6, <1>7, <1>8, <1>9, <1>10, <1>11, <1>12, <1>13
     DEF Next, Propagate

LEMMA UnwindInit == ASSUME Structured PROVE Init => UnwindInv
<1> SUFFICES ASSUME Init PROVE UnwindInv
  OBVIOUS
<1>1. /\ frames = << <<>> >> /\ handler_frames = <<>> /\ err = None
      /\ pending_exception = None /\ \A g \in Gen : gens[g].saved = <<>>
      /\ runs = << [kind |-> "main", target |-> 0, gen |-> None] >>
  BY DEF Init
<1>2. StateInv /\ NoJit
  BY InitInv, NoJitKept, StructuredUses
<1>3. HandlersMatch
  BY <1>1 DEF HandlersMatch, HandlerIsOpen, HandlersNest, OpenHasHandler, IsBody
<1>4. \A i, j : ~IsRegion(i, j) /\ ~IsCleanup(i, j)
  BY <1>1 DEF IsRegion, IsCleanup
<1>5. RunsFirst
  BY <1>1 DEF RunsFirst
<1> QED
  BY <1>1, <1>2, <1>3, <1>4, <1>5
     DEF UnwindInv, MatchInv, RegionsOk, CleanupInnermost, PendingIsWhy, PassedBodies

\* PendingMatches: no exception of a finally block is lost, and none comes
\* back, however the program nests its try statements, calls and generators.
THEOREM PendingMatchesSafe == ASSUME Structured PROVE Spec => []PendingMatches
<1>1. UnwindInv => PendingMatches
  <2> SUFFICES ASSUME UnwindInv, Stepping PROVE PendingMatches
    BY DEF PendingMatches
  <2>1. CleaningUp <=> \E i, j : IsCleanup(i, j)
    BY DEF CleaningUp, IsCleanup
  <2>2. \A i, j : IsCleanup(i, j) => frames[i][j].why = pending_exception
    BY DEF UnwindInv, PendingIsWhy
  <2>3. pending_exception # None <=> CleaningUp
    BY <2>1, <2>2 DEF UnwindInv, PendingIsWhy, IsCleanup
  <2> QED BY <2>2, <2>3 DEF PendingMatches
<1>2. UnwindInv /\ [Next]_vars => UnwindInv'
  BY UnwindKept
<1>3. Init => UnwindInv
  BY UnwindInit
<1> QED BY <1>1, <1>2, <1>3, PTL DEF Spec

-----------------------------------------------------------------------------
(* No finally block is passed by.                                          *)

Stays(i, j) ==
  /\ i \in DOMAIN frames' /\ j \in DOMAIN frames'[i]
  /\ frames'[i][j].try = frames[i][j].try

Owes(i, j) ==
  IsRegion(i, j) /\ frames[i][j].try.finally /\ frames[i][j].phase = "body"

LEMMA OwedIsBody ==
  ASSUME RegionsOk, NEW o \in Owed
  PROVE  Owes(o[1], o[2])
<1>1. IsRegion(o[1], o[2]) /\ frames[o[1]][o[2]].try.finally
      /\ frames[o[1]][o[2]].phase # "finally"
  BY DEF Owed, IsRegion
<1>2. RegionOk(frames[o[1]][o[2]])
  BY <1>1 DEF RegionsOk
<1> QED BY <1>1, <1>2 DEF Owes, RegionOk

LEMMA StaysKept ==
  ASSUME NEW d, NEW c, NEW R, Becomes(d, c, R), NEW i, NEW j, IsRegion(i, j),
         Encloses(<<i, j>>, <<d, c>>)
  PROVE  Stays(i, j)
  BY DEF Becomes, Kept, Stays

LEMMA StaysReplaced ==
  ASSUME NEW d \in Nat, NEW c \in Nat, NEW R, Becomes(d, c, R), R # {}, NEW s,
         \A r \in R : r.try = s, frames[d][c].try = s
  PROVE  Stays(d, c)
<1>1. IsRegion(d, c)'
  BY DEF Becomes, IsRegion
<1>2. ~Encloses(<<d, c>>, <<d, c>>)
  BY DEF Encloses
<1>3. frames'[d][c] \in R
  BY <1>1, <1>2 DEF Becomes
<1> QED BY <1>1, <1>3 DEF Stays, IsRegion

LEMMA StaysSame ==
  ASSUME frames' = frames, NEW i, NEW j, IsRegion(i, j)
  PROVE  Stays(i, j)
  BY DEF Stays, IsRegion

\* Only the run_until of the main program starts from no frame.
LEMMA LastRun ==
  ASSUME Shape, RunsFirst, runs # <<>>, Front(runs) = <<>>
  PROVE  Last(runs).target = 0
<1>1. runs \in Seq(RunSet)
  BY DEF Shape
<1>2. Len(Front(runs)) = Len(runs) - 1 /\ Last(runs) = runs[Len(runs)] /\ Len(runs) \in Nat
  BY <1>1, FrontAndLast
<1>3. Len(runs) = 1
  BY <1>1, <1>2
<1> QED BY <1>2, <1>3 DEF RunsFirst

\* An exception under way has the handler frame of every body that owes its
\* cleanup still to come, and its search does not pass the last one.
LEMMA OwesHandler ==
  ASSUME UnwindInv, Searching, err # Trap, NEW i, NEW j, Owes(i, j)
  PROVE  /\ \E k \in DOMAIN handler_frames : Place(handler_frames[k]) = <<i, j>>
         /\ handler_frames # <<>>
         /\ \/ Encloses(<<i, j>>, Place(Last(handler_frames)))
            \/ <<i, j>> = Place(Last(handler_frames))
<1>1. IsBody(i, j) /\ Stops(frames[i][j], err)
  BY DEF Owes, IsBody, IsRegion, Stops
<1>2. PICK k \in DOMAIN handler_frames : Place(handler_frames[k]) = <<i, j>>
  BY <1>1 DEF UnwindInv, PassedBodies, Searching
<1>3. handler_frames \in Seq(HandlerSet)
  BY DEF UnwindInv, MatchInv, StateInv, Shape
<1>4. handler_frames # <<>> /\ Len(handler_frames) \in DOMAIN handler_frames
  BY <1>2, <1>3
<1>5. Last(handler_frames) = handler_frames[Len(handler_frames)]
  BY <1>3, <1>4, FrontAndLast
<1>6. k = Len(handler_frames) \/ k < Len(handler_frames)
  BY <1>2, <1>3
<1> QED
  BY <1>2, <1>4, <1>5, <1>6 DEF UnwindInv, MatchInv, HandlersMatch, HandlersNest

LEMMA FinallyStep ==
  ASSUME Structured, UnwindInv, UnwindInv', [Next]_vars, err # Trap,
         NEW i, NEW j, Owes(i, j), runs # <<>>
  PROVE  Stays(i, j) /\ runs' # <<>>
<1>a. /\ StateInv /\ Shape /\ Shape' /\ RunsNest /\ RunsFirst /\ HandlersMatch
      /\ IsRegion(i, j) /\ frames[i][j].try.finally /\ frames[i][j].phase = "body"
  BY DEF UnwindInv, MatchInv, StateInv, Owes
<1>b. /\ Len(frames) \in Nat \ {0} /\ Here = frames[Len(frames)]
      /\ Last(runs).target \in Nat /\ runs \in Seq(RunSet)
  BY <1>a, Current DEF Shape
<1>c. i \in 1 .. Len(frames) /\ Len(frames[i]) \in Nat /\ j \in 1 .. Len(frames[i])
  BY <1>a, RegionPlace
<1>1. CASE UNCHANGED vars
  BY <1>1, <1>a, StaysSame DEF vars
<1>2. ASSUME NEW s \in Try, EnterTry(s) PROVE Stays(i, j) /\ runs' # <<>>
  <2>1. /\ Len(Here) + 1 \in Nat
        /\ Becomes(Len(frames), Len(Here) + 1, {Region(s, "body", None)})
    BY <1>2, <1>a, EnterBecomes
  <2>2. Encloses(<<i, j>>, <<Len(frames), Len(Here) + 1>>)
    BY <1>b, <1>c DEF Encloses
  <2>3. runs' = runs
    BY <1>2 DEF EnterTry
  <2> QED BY <1>a, <2>1, <2>2, <2>3, StaysKept
<1>3. ASSUME Stepping, Here # <<>>, Goto(Following(Here)), runs' = runs
      PROVE  Stays(i, j) /\ runs' # <<>>
  <2> DEFINE d == Len(frames)
             c == Len(Here)
  <2>1. /\ d \in Nat /\ c \in Nat /\ IsRegion(d, c) /\ Last(Here) = frames[d][c]
        /\ \E R \in SUBSET Successors(Last(Here)) :
             /\ Becomes(d, c, R)
             /\ R = {} => Last(Here).phase = "finally" \/ ~Last(Here).try.finally
    BY <1>3, <1>a, BlockBecomes
  <2>2. PICK R \in SUBSET Successors(Last(Here)) :
             /\ Becomes(d, c, R)
             /\ R = {} => Last(Here).phase = "finally" \/ ~Last(Here).try.finally
    BY <2>1
  <2>3. Encloses(<<i, j>>, <<d, c>>) \/ (i = d /\ j = c)
    BY <1>b, <1>c DEF Encloses
  <2>4. \A r \in R : r.try = frames[d][c].try
    BY <2>1 DEF Successors, Region
  <2> HIDE DEF d, c
  <2>5. CASE Encloses(<<i, j>>, <<d, c>>)
    BY <1>3, <1>a, <2>2, <2>5, StaysKept
  <2>6. CASE i = d /\ j = c
    <3>1. R # {}
      BY <1>a, <2>1, <2>2, <2>6
    <3> QED BY <1>3, <2>1, <2>2, <2>4, <2>6, <3>1, StaysReplaced
  <2> QED BY <2>3, <2>5, <2>6
<1>4. ASSUME frames' = frames, runs' = runs PROVE Stays(i, j) /\ runs' # <<>>
  BY <1>4, <1>a, StaysSame
<1>5. ASSUME frames' = Append(frames, <<>>), runs' # <<>> PROVE Stays(i, j) /\ runs' # <<>>
  BY <1>5, <1>a, PushBecomes, AllBelow, StaysKept
<1>6. ASSUME Ret \/ Yield PROVE Stays(i, j) /\ runs' # <<>>
  <2> DEFINE d == Len(frames)
             n == d - 1
  <2>1. frames' = Front(frames)
    BY <1>6 DEF Ret, Yield
  <2>2. Len(frames') = n /\ \A q \in 1 .. n : frames'[q] = frames[q]
    BY <1>a, <2>1, PopShape
  <2>3. n \in 0 .. Len(frames) /\ d = n + 1
    BY <1>b
  <2> HIDE DEF n
  <2>4. Becomes(d, 0, {})
    BY <1>a, <2>2, <2>3, CutBecomes
  <2>5. i # d
    <3> SUFFICES ASSUME i = d PROVE FALSE
      OBVIOUS
    <3>1. j \in DOMAIN Here /\ Here[j].try.finally
      BY <1>a, <1>b DEF IsRegion
    <3> QED BY <1>6, <3>1, StructuredUses DEF Ret, Yield
  <2>6. Stays(i, j)
    BY <1>a, <2>4, <2>5, AllBelow, StaysKept
  <2>7. runs' # <<>>
    <3> SUFFICES ASSUME runs' = <<>> PROVE FALSE
      OBVIOUS
    <3>1. runs' = Front(runs) /\ d - 1 <= Last(runs).target
      BY <1>6, <1>b DEF Ret, Yield
    <3>2. Last(runs).target = 0
      BY <1>a, <3>1, LastRun
    <3> QED BY <1>b, <1>c, <2>5, <3>1, <3>2
  <2> QED BY <2>6, <2>7
<1>7. ASSUME Searching, runs' = runs,
             NEW region \in RegionSet, region.try = Last(handler_frames).try,
             Unwind(Last(handler_frames), region)
      PROVE  Stays(i, j) /\ runs' # <<>>
  <2>1. /\ handler_frames # <<>>
        /\ \/ Encloses(<<i, j>>, Place(Last(handler_frames)))
           \/ <<i, j>> = Place(Last(handler_frames))
    BY <1>7, OwesHandler
  <2>2. PICK d, c : Place(Last(handler_frames)) = <<d, c>>
    BY DEF Place
  <2>3. /\ d \in Nat /\ c \in Nat /\ frames[d][c].try = Last(handler_frames).try
        /\ Becomes(d, c, {region})
    BY <1>7, <1>a, <2>1, <2>2, UnwindBecomes
  <2>4. CASE Encloses(<<i, j>>, <<d, c>>)
    BY <1>7, <1>a, <2>3, <2>4, StaysKept
  <2>5. CASE <<i, j>> = <<d, c>>
    BY <1>7, <2>3, <2>5, StaysReplaced
  <2> QED BY <2>1, <2>2, <2>4, <2>5
<1>8. CASE Escape
  <2>1. Searching /\ ~HandlerInRun /\ runs' = Front(runs)
    BY <1>8 DEF Escape
  <2>2. PICK k \in DOMAIN handler_frames : Place(handler_frames[k]) = <<i, j>>
    BY <2>1, OwesHandler
  <2>3. i <= Last(runs).target
    BY <1>a, <2>1, <2>2, HandlersBelowRun DEF Place
  <2>4. runs' # <<>>
    BY <1>a, <1>b, <1>c, <2>1, <2>3, LastRun
  <2>5. CASE Last(runs).kind = "gen"
    <3> DEFINE n == Last(runs).target
    <3>1. frames' = SubSeq(frames, 1, n)
      BY <1>8, <2>5 DEF Escape
    <3>2. n \in 0 .. Len(frames)
      BY <1>a, <1>b, Current
    <3>3. Encloses(<<i, j>>, <<n + 1, 0>>)
      BY <1>b, <1>c, <2>3 DEF Encloses
    <3> HIDE DEF n
    <3>4. Len(frames') = n /\ \A q \in 1 .. n : frames'[q] = frames[q]
      BY <1>a, <3>1, <3>2, CutShape
    <3>5. Becomes(n + 1, 0, {})
      BY <1>a, <3>2, <3>4, CutBecomes
    <3> QED BY <1>a, <2>4, <3>3, <3>5, StaysKept
  <2>6. CASE Last(runs).kind # "gen"
    <3>1. frames' = frames
      BY <1>8, <2>6 DEF Escape
    <3> QED BY <1>a, <2>4, <3>1, StaysSame
  <2> QED BY <2>5, <2>6
<1>9. CASE Catch
  <2>1. Searching /\ err # Trap /\ HandlerInRun
    BY <1>9 DEF Catch
  <2>2. /\ Region(Last(handler_frames).try, "handler", None) \in RegionSet
        /\ Region(Last(handler_frames).try, "handler", None).try = Last(handler_frames).try
    BY <2>1, StartedOk DEF Region
  <2> QED BY <1>7, <1>9, <2>1, <2>2 DEF Catch
<1>10. CASE ToFinally
  <2>1. Searching /\ err # Trap /\ HandlerInRun
    BY <1>10 DEF ToFinally
  <2>2. /\ Region(Last(handler_frames).try, "finally", err) \in RegionSet
        /\ Region(Last(handler_frames).try, "finally", err).try = Last(handler_frames).try
    BY <2>1, StartedOk DEF Region
  <2> QED BY <1>7, <1>10, <2>1, <2>2 DEF ToFinally
<1>11. ASSUME LeaveTry \/ LeaveBlock \/ EndFinally PROVE Stays(i, j) /\ runs' # <<>>
  <2>1. Stepping /\ Here # <<>> /\ runs' = runs
    BY <1>11 DEF LeaveTry, LeaveBlock, EndFinally, At
  <2>2. Goto(Following(Here)) \/ frames' = frames
    BY <1>11 DEF LeaveTry, LeaveBlock, EndFinally
  <2> QED BY <1>3, <1>4, <2>1, <2>2
<1>12. CASE Break
  BY <1>12, StructuredUses DEF Break
<1>13. ASSUME StackOverflow \/ DropHandler \/ \E x \in Exc : Raise(x)
       PROVE  Stays(i, j) /\ runs' # <<>>
  BY <1>13, <1>4 DEF StackOverflow, DropHandler, Raise
<1>14. ASSUME \/ Call
              \/ \E kind \in {"native", "jit"} : Invoke(kind)
              \/ \E g \in Gen : GenNext(g)
       PROVE  Stays(i, j) /\ runs' # <<>>
  <2>1. \A g \in Gen : gens[g].saved = <<>>
    BY DEF UnwindInv, MatchInv
  <2>2. frames' = Append(frames, <<>>)
    BY <1>14, <2>1 DEF Call, Invoke, GenNext
  <2>3. runs' = runs \/ \E r : runs' = Append(runs, r)
    BY <1>14 DEF Call, Invoke, GenNext
  <2>4. runs' # <<>>
    <3>1. \A r : Len(Append(runs, r)) # 0
      BY <1>b
    <3>2. Len(<<>>) = 0
      OBVIOUS
    <3> QED BY <2>3, <3>1, <3>2
  <2> QED BY <1>5, <2>2, <2>4
<1> QED
  BY <1>1, <1>2, <1>6, <1>8, <1>9, <1>10, <1>11, <1>12, <1>13, <1>14 DEF Next, Propagate

\* FinallyRuns: no way out of a try statement skips its finally block.
THEOREM FinallyRunsSafe == ASSUME Structured PROVE Spec => FinallyRuns
<1>1. UnwindInv /\ UnwindInv' /\ [Next]_vars =>
        [err # Trap => \A o \in Owed :
           LET i == o[1]
               j == o[2]
           IN /\ i \in DOMAIN frames' /\ j \in DOMAIN frames'[i]
              /\ frames'[i][j].try = frames[i][j].try
              /\ runs' # <<>>]_vars
  <2> SUFFICES ASSUME UnwindInv, UnwindInv', Next, err # Trap, NEW o \in Owed
               PROVE  Stays(o[1], o[2]) /\ runs' # <<>>
    BY DEF Stays
  <2>1. Owes(o[1], o[2])
    BY OwedIsBody DEF UnwindInv
  <2>2. runs # <<>>
    BY DEF Next, Propagate, EnterTry, LeaveTry, LeaveBlock, EndFinally, Break, Raise, Call,
           StackOverflow, Ret, Invoke, GenNext, Yield, Catch, ToFinally, DropHandler,
           Escape, Stepping, Searching
  <2> QED BY <2>1, <2>2, FinallyStep
<1>2. UnwindInv /\ [Next]_vars => UnwindInv'
  BY UnwindKept
<1>3. Init => UnwindInv
  BY UnwindInit
<1> QED BY <1>1, <1>2, <1>3, PTL DEF Spec, FinallyRuns

-----------------------------------------------------------------------------
(* The refinement: every step is one of TryStatements, or a stutter.       *)

\* The definitions of TryRegions, as the abstract specification has them.
LEMMA SameRegions ==
  /\ \A s, phase, why : Abs!Region(s, phase, why) = Region(s, phase, why)
  /\ \A s, e : Abs!Matches(s, e) <=> Matches(s, e)
  /\ \A q : Abs!Last(q) = Last(q) /\ Abs!Front(q) = Front(q)
  /\ \A pc : Abs!Following(pc) = Following(pc)
  /\ Abs!Exc = Exc /\ Abs!Trap = Trap
<1>1. \A s, phase, why : Abs!Region(s, phase, why) = Region(s, phase, why)
  BY DEF Abs!Region, Region
<1>2. \A s, e : Abs!Matches(s, e) <=> Matches(s, e)
  BY DEF Abs!Matches, Matches
<1>3. \A q : Abs!Last(q) = Last(q) /\ Abs!Front(q) = Front(q)
  BY DEF Abs!Last, Last, Abs!Front, Front
<1>4. \A pc : Abs!Following(pc) = Following(pc)
  BY <1>1, <1>3 DEF Abs!Following, Following
<1>5. Abs!Exc = Exc /\ Abs!Trap = Trap
  BY DEF Abs!Exc, Exc, Abs!Trap, Trap
<1> QED BY <1>1, <1>2, <1>3, <1>4, <1>5

\* In a structured program only bodies stop an exception.
LEMMA TakesIsStops ==
  ASSUME NEW r, RegionOk(r), NEW e, Abs!Takes(r, e)
  PROVE  r.phase = "body" /\ Stops(r, e)
  BY SameRegions DEF Abs!Takes, RegionOk, Stops

LEMMA BodyTakes ==
  ASSUME NEW r, NEW e, e # Trap, r.phase = "body", Matches(r.try, e) \/ r.try.finally
  PROVE  Abs!Takes(r, e)
  BY SameRegions DEF Abs!Takes

LEMMA TakesRegion ==
  ASSUME UnwindInv, NEW i, NEW j, IsRegion(i, j), Abs!Takes(frames[i][j], err)
  PROVE  IsBody(i, j) /\ Stops(frames[i][j], err)
<1>1. RegionOk(frames[i][j])
  BY DEF UnwindInv, RegionsOk
<1> QED BY <1>1, TakesIsStops DEF IsBody, IsRegion

\* The last handler frame is that of the innermost region that stops err.
LEMMA InnermostTakes ==
  ASSUME UnwindInv, Searching, err # Trap, HandlerInRun,
         NEW i, NEW j, Place(Last(handler_frames)) = <<i, j>>
  PROVE  /\ \A k \in Abs!TakingCalls : k <= i
         /\ \A l \in Abs!TakingRegions(i) : l <= j
<1>0. i \in Nat /\ j \in Nat
  <2>1. /\ Len(handler_frames) \in DOMAIN handler_frames
        /\ Last(handler_frames) = handler_frames[Len(handler_frames)]
    BY TopHandler DEF UnwindInv, MatchInv
  <2>2. /\ Last(handler_frames).frame_depth \in Nat
        /\ Len(Last(handler_frames).pos) \in Nat
    BY <2>1, Places DEF UnwindInv, MatchInv, StateInv, HandlersMatch
  <2> QED BY <2>2 DEF Place
<1>1. ASSUME NEW k, NEW l, IsRegion(k, l), Abs!Takes(frames[k][l], err)
      PROVE  k < i \/ (k = i /\ l <= j)
  <2>1. IsBody(k, l) /\ Stops(frames[k][l], err)
    BY <1>1, TakesRegion
  <2>2. PICK q \in DOMAIN handler_frames : Place(handler_frames[q]) = <<k, l>>
    BY <2>1 DEF UnwindInv, PassedBodies, Searching
  <2>3. /\ Len(handler_frames) \in DOMAIN handler_frames
        /\ Last(handler_frames) = handler_frames[Len(handler_frames)]
        /\ DOMAIN handler_frames = 1 .. Len(handler_frames) /\ Len(handler_frames) \in Nat
    BY TopHandler, Elements DEF UnwindInv, MatchInv, StateInv
  <2>4. q = Len(handler_frames) \/ q < Len(handler_frames)
    BY <2>3
  <2>5. Encloses(<<k, l>>, <<i, j>>) \/ <<k, l>> = <<i, j>>
    BY <2>2, <2>3, <2>4 DEF UnwindInv, MatchInv, HandlersMatch, HandlersNest
  <2>6. l \in Nat
    BY <1>1, RegionPlace DEF UnwindInv, MatchInv, StateInv
  <2> QED BY <1>0, <2>5, <2>6 DEF Encloses
<1>2. \A k \in Abs!TakingCalls : k \in Nat /\ (k < i \/ k = i)
  BY <1>1, Elements DEF Abs!TakingCalls, IsRegion, UnwindInv, MatchInv, StateInv
<1>3. \A l \in Abs!TakingRegions(i) : l <= j
  <2>1. i \in DOMAIN frames
    BY TopHandler, Elements DEF Place, UnwindInv, MatchInv, StateInv, DepthsNest
  <2>2. \A l \in Abs!TakingRegions(i) : IsRegion(i, l) /\ Abs!Takes(frames[i][l], err)
    BY <2>1 DEF Abs!TakingRegions, IsRegion
  <2> QED BY <1>0, <1>1, <2>2
<1> QED BY <1>0, <1>2, <1>3

LEMMA DeliverStep ==
  ASSUME UnwindInv, Searching, err # Trap, HandlerInRun, err' = None,
         NEW region, Unwind(Last(handler_frames), region),
         LET s == Last(handler_frames).try
         IN \/ Matches(s, err) /\ region = Region(s, "handler", None)
            \/ ~Matches(s, err) /\ s.finally /\ region = Region(s, "finally", err)
  PROVE  Abs!Deliver
<1> DEFINE h == Last(handler_frames)
           i == h.frame_depth
           j == Len(h.pos) + 1
<1>1. /\ StateInv /\ HandlersMatch /\ Shape /\ handler_frames # <<>>
      /\ Len(handler_frames) \in DOMAIN handler_frames
      /\ h = handler_frames[Len(handler_frames)]
  BY TopHandler DEF UnwindInv, MatchInv, StateInv
<1>2. Place(h) = <<i, j>>
  BY DEF Place
<1>3. IsBody(i, j) /\ frames[i][j].try = h.try /\ SubSeq(frames[i], 1, j - 1) = h.pos
  BY <1>1 DEF HandlersMatch, HandlerIsOpen
<1>4. /\ \A k \in Abs!TakingCalls : k <= i
      /\ \A l \in Abs!TakingRegions(i) : l <= j
  BY <1>2, InnermostTakes
<1>5. frames' = Append(SubSeq(frames, 1, i - 1), Append(SubSeq(frames[i], 1, j - 1), region))
  BY <1>3 DEF Unwind
<1>6. err # None /\ err' = None
  BY DEF Searching
<1>7. /\ frames[i][j].phase = "body" /\ i \in DOMAIN frames /\ j \in DOMAIN frames[i]
  BY <1>3 DEF IsBody
<1>8. \/ Matches(frames[i][j].try, err) /\ region = Region(frames[i][j].try, "handler", None)
      \/ /\ ~Matches(frames[i][j].try, err) /\ frames[i][j].try.finally
         /\ region = Region(frames[i][j].try, "finally", err)
  BY <1>3
<1> HIDE DEF h, i, j
<1>9. Abs!Takes(frames[i][j], err)
  BY <1>7, <1>8, BodyTakes
<1>10. i \in Abs!TakingCalls /\ j \in Abs!TakingRegions(i)
  BY <1>7, <1>9 DEF Abs!TakingCalls, Abs!TakingRegions
<1>11. region = IF frames[i][j].phase = "body" /\ Abs!Matches(frames[i][j].try, err)
                  THEN Abs!Region(frames[i][j].try, "handler", None)
                  ELSE Abs!Region(frames[i][j].try, "finally", err)
  BY <1>7, <1>8, SameRegions
<1> QED BY <1>4, <1>5, <1>6, <1>10, <1>11 DEF Abs!Deliver

LEMMA AbsStep ==
  ASSUME Structured, UnwindInv, UnwindInv', [Next]_vars
  PROVE  [Abs!AbsNext]_(Abs!absVars)
<1> USE SameRegions DEF Abs!AbsNext
<1>a. /\ StateInv /\ Shape /\ Shape' /\ RunsNest /\ DepthsNest /\ HandlersMatch
      /\ CleanupInnermost /\ PendingIsWhy /\ RegionsOk
  BY DEF UnwindInv, MatchInv, StateInv
<1>t. Abs!Top = Here
  BY DEF Abs!Top, Here
<1>s. ASSUME frames' = frames, err' = err PROVE UNCHANGED Abs!absVars
  BY <1>s DEF Abs!absVars
<1>1. CASE UNCHANGED vars
  BY <1>1, <1>s DEF vars, errVars
<1>2. ASSUME NEW s \in Try, EnterTry(s) PROVE Abs!AbsNext
  <2>1. Abs!Enter(s)
    BY <1>2, <1>t DEF EnterTry, Goto, Stepping, errVars, Abs!Enter, Abs!GotoPos
  <2> QED BY <2>1
<1>3. ASSUME Stepping, Here # <<>>, Last(Here).why = None, Goto(Following(Here)), err' = err
      PROVE  Abs!AbsNext
  <2>1. Abs!Complete
    BY <1>3, <1>t DEF Stepping, Goto, Abs!Complete, Abs!GotoPos
  <2> QED BY <2>1
<1>4. ASSUME LeaveTry \/ LeaveBlock PROVE Abs!AbsNext
  <2>1. /\ Stepping /\ Here # <<>> /\ Last(Here).phase # "finally" /\ Goto(Following(Here))
        /\ err' = err
    BY <1>4 DEF LeaveTry, LeaveBlock, At, errVars
  <2>2. RegionOk(Last(Here))
    BY <1>a, <2>1, TopRegion DEF RegionsOk, Stepping
  <2> QED BY <1>3, <2>1, <2>2 DEF RegionOk
<1>5. CASE EndFinally
  <2>1. Stepping /\ Here # <<>>
    BY <1>5 DEF EndFinally, At
  <2>2. Last(Here).why = pending_exception
    BY <1>a, <2>1, TopWhy
  <2>3. CASE pending_exception = None
    BY <1>3, <1>5, <2>1, <2>2, <2>3 DEF EndFinally, errVars
  <2>4. CASE pending_exception # None
    <3>1. err' = pending_exception /\ frames' = frames
      BY <1>5, <2>4 DEF EndFinally
    <3>2. Abs!Reraise
      BY <1>t, <2>1, <2>2, <2>4, <3>1 DEF Stepping, Abs!Reraise
    <3> QED BY <3>2
  <2> QED BY <2>3, <2>4
<1>6. CASE Break
  BY <1>6, StructuredUses DEF Break
<1>7. ASSUME StackOverflow \/ \E e \in Exc : Raise(e) PROVE Abs!AbsNext
  <2>1. err = None /\ err' \in Exc \cup {Trap} /\ frames' = frames
    BY <1>7 DEF StackOverflow, Raise, Stepping
  <2>2. Abs!RaiseExc
    BY <2>1 DEF Abs!RaiseExc
  <2> QED BY <2>2
<1>8. ASSUME \/ Call
             \/ \E kind \in {"native", "jit"} : Invoke(kind)
             \/ \E g \in Gen : GenNext(g)
      PROVE  Abs!AbsNext
  <2>1. \A g \in Gen : gens[g].saved = <<>>
    BY DEF UnwindInv, MatchInv
  <2>2. err = None /\ err' = err /\ frames' = Append(frames, <<>>)
    BY <1>8, <2>1 DEF Call, Invoke, GenNext, Stepping, errVars
  <2>3. Abs!CallFun
    BY <2>2 DEF Abs!CallFun
  <2> QED BY <2>3
<1>9. ASSUME Ret \/ Yield PROVE Abs!AbsNext
  <2>1. err = None /\ err' = err /\ frames' = Front(frames)
    BY <1>9 DEF Ret, Yield, Stepping, errVars
  <2>2. \A i \in DOMAIN Here : ~Here[i].try.finally
    BY <1>9, StructuredUses DEF Ret, Yield
  <2>3. Abs!Leave
    BY <1>t, <2>1, <2>2 DEF Abs!Leave
  <2> QED BY <2>3
<1>10. ASSUME Catch \/ ToFinally PROVE Abs!AbsNext
  <2>1. Searching /\ err # Trap /\ HandlerInRun /\ err' = None
    BY <1>10 DEF Catch, ToFinally
  <2>2. \E region :
          /\ Unwind(Last(handler_frames), region)
          /\ LET s == Last(handler_frames).try
             IN \/ Matches(s, err) /\ region = Region(s, "handler", None)
                \/ ~Matches(s, err) /\ s.finally /\ region = Region(s, "finally", err)
    BY <1>10 DEF Catch, ToFinally, GoesToFinally
  <2>3. Abs!Deliver
    BY <2>1, <2>2, DeliverStep
  <2> QED BY <2>3
<1>11. CASE DropHandler
  BY <1>11, <1>s DEF DropHandler, errVars
<1>12. CASE Escape
  <2>1. Searching /\ runs # <<>> /\ err # None /\ (err = Trap \/ ~HandlerInRun)
    BY <1>12 DEF Escape, Searching
  <2>2. err' = err
    BY <1>12, <1>a, EscapeGood
  <2>3. CASE Last(runs).kind = "gen"
    <3> DEFINE n == Last(runs).target
    <3>1. frames' = SubSeq(frames, 1, n)
      BY <1>12, <2>3 DEF Escape
    <3>2. n \in 0 .. Len(frames) - 1 /\ n # 0
      <4>1. n \in 0 .. Len(frames) - 1 /\ Len(runs) \in DOMAIN runs
            /\ Last(runs) = runs[Len(runs)]
        BY <1>a, <2>1, Current, Elements
      <4> QED BY <2>3, <4>1 DEF UnwindInv, RunsFirst
    <3>3. n \in DOMAIN frames
      BY <1>a, <3>2, Elements
    <3>4. ASSUME NEW i \in Abs!TakingCalls PROVE i <= n
      <4>1. PICK j : IsRegion(i, j) /\ Abs!Takes(frames[i][j], err)
        BY DEF Abs!TakingCalls, IsRegion
      <4>2. IsBody(i, j) /\ Stops(frames[i][j], err)
        BY <4>1, TakesRegion
      <4>3. PICK k \in DOMAIN handler_frames : Place(handler_frames[k]) = <<i, j>>
        BY <2>1, <4>2 DEF UnwindInv, PassedBodies
      <4>4. ~HandlerInRun
        BY <2>1, <4>2 DEF Stops
      <4> QED BY <1>a, <2>1, <4>3, <4>4, HandlersBelowRun DEF Place
    <3> HIDE DEF n
    <3>5. Abs!Abandon
      BY <2>1, <2>2, <3>1, <3>3, <3>4 DEF Abs!Abandon
    <3> QED BY <3>5
  <2>4. CASE Last(runs).kind # "gen"
    <3>1. frames' = frames
      BY <1>12, <2>4 DEF Escape
    <3> QED BY <1>s, <2>2, <3>1
  <2> QED BY <2>3, <2>4
<1> QED
  BY <1>1, <1>2, <1>4, <1>5, <1>6, <1>7, <1>8, <1>9, <1>10, <1>11, <1>12
     DEF Next, Propagate

\* Unwinds: the handler stack, the pending slot and the nested runs of the
\* interpreter deliver every exception where TryStatements says.
THEOREM UnwindsSafe == ASSUME Structured PROVE Spec => Unwinds
<1>1. Init => Abs!AbsInit
  BY DEF Init, Abs!AbsInit
<1>2. UnwindInv /\ UnwindInv' /\ [Next]_vars => [Abs!AbsNext]_(Abs!absVars)
  BY AbsStep
<1>3. UnwindInv /\ [Next]_vars => UnwindInv'
  BY UnwindKept
<1>4. Init => UnwindInv
  BY UnwindInit
<1> QED BY <1>1, <1>2, <1>3, <1>4, PTL DEF Spec, Unwinds, Abs!AbsSpec
=============================================================================
