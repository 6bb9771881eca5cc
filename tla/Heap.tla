-------------------------------- MODULE Heap --------------------------------
(***************************************************************************)
(* The shared heap of the StrictPy VM (vm/src/gc.rs) and the roots that    *)
(* Interpreter::maybe_collect (vm/src/interp.rs) hands to it.              *)
(*                                                                         *)
(* The collector is a non-moving mark-sweep.  A collection runs on one     *)
(* thread, which holds the heap mutex throughout: nobody allocates, but    *)
(* the other threads keep running and keep loading, storing and dropping   *)
(* pointers, none of which takes that mutex.                               *)
(*                                                                         *)
(* Data is abstracted to words that are the address of an object: those    *)
(* that are pointers, and those that are integers and only look like one.  *)
(* The program tells them apart, the collector cannot.  An address is      *)
(* reused after its object is freed, as the system allocator does.         *)
(***************************************************************************)
EXTENDS Naturals, FiniteSets, Sequences

CONSTANTS
  Thread,        \* interpreters: the main thread and its workers
  Addr,          \* addresses the system allocator can return
  DictTable,     \* the side table that holds the values of all dicts
  NoThread,      \* "no collection in progress"
  NoObj,         \* an empty Option<u64> (throw_obj, pending_exc_obj)
  Threshold,     \* gc_threshold, in objects
  AllocKinds,    \* the kinds of object the program allocates
  RoomCap        \* bound: see Room

\* "refs": Class, List, Closure and Generator objects, scanned slot by slot.
\* "leaf": Str, Dict, Channel, Thread, File, NoRefs objects, not scanned.
\* "untyped": objects allocated with a null vtable (native tuples, natively
\* raised exceptions).
Kinds == {"refs", "leaf", "untyped"}

ASSUME NoThreadAssumption == NoThread \notin Thread
ASSUME NoObjAssumption == NoObj \notin Addr
ASSUME KindsAssumption == AllocKinds \subseteq Kinds
ASSUME RoomCapAssumption == RoomCap \in Nat
ASSUME ThresholdAssumption == Threshold \in Nat

VARIABLES
  objects,          \* Heap.objects: the addresses of the live allocations
  kind,             \* what the header of each address says
  slots,            \* pointers in the payload at each address
  ints,             \* <<p, a>>: an integer at place p that equals address a
  frames,           \* frames[t]: pointers in the registers of t's call frames
  natives,          \* natives[t]: higher-order natives that wait for a callback
  temp_roots,       \* temp_roots[t]: pointers parked by those natives
  throw_obj,        \* throw_obj[t]: the exception object just thrown, or NoObj
  pending_exc_obj,  \* pending_exc_obj[t]: the one a finally will re-raise
  gen_stack,        \* gen_stack[t]: the generators being resumed
  dicts,            \* pointers stored in the dict side table
  queued,           \* pointers in channel queues, future slots, priority queues
  has_queued,       \* has a pointer ever been put there?
  bytes,            \* Heap.bytes_since_gc, in objects, as far as Threshold
  collector,        \* the thread inside Heap::collect, or NoThread
  marked,           \* objects whose mark bit is set
  worklist          \* marked objects not traced yet

heapVars == <<objects, kind, slots, ints, bytes>>
excVars  == <<throw_obj, pending_exc_obj>>
natVars  == <<natives, temp_roots>>
rootVars == <<frames, natVars, excVars, gen_stack, dicts, queued, has_queued>>
gcVars   == <<collector, marked, worklist>>
vars     == <<heapVars, rootVars, gcVars>>

\* Where a word can be: a register or parked word of a thread, a payload, the
\* dict side table.
Place == Thread \cup Addr \cup {DictTable}

\* A native keeps its result list in a local variable, which no collection
\* looks at, and knows how long temp_roots was when it began.
Native == [local : Addr, mark : Nat]

\* The addresses that an integer at place p equals.
IntsAt(p) == {a \in Addr : <<p, a>> \in ints}

ObjSet(o) == {o} \ {NoObj}
Entries(s) == {s[i] : i \in 1..Len(s)}
Front(s) == SubSeq(s, 1, Len(s) - 1)

Init ==
  /\ objects = {}
  /\ kind = [a \in Addr |-> "leaf"]
  /\ slots = [a \in Addr |-> {}]
  /\ ints = {}
  /\ frames = [t \in Thread |-> {}]
  /\ natives = [t \in Thread |-> <<>>]
  /\ temp_roots = [t \in Thread |-> <<>>]
  /\ throw_obj = [t \in Thread |-> NoObj]
  /\ pending_exc_obj = [t \in Thread |-> NoObj]
  /\ gen_stack = [t \in Thread |-> <<>>]
  /\ dicts = {}
  /\ queued = {}
  /\ has_queued = FALSE
  /\ bytes = 0
  /\ collector = NoThread
  /\ marked = {}
  /\ worklist = {}

\* A thread executes program steps unless it is the one collecting.
Running(t) == collector # t

\* The bound on a program: its objects and what it keeps outside of registers
\* and payloads, taken together.
Room(t) ==
  Cardinality(objects) + Len(natives[t]) + Len(gen_stack[t]) +
    Cardinality(dicts) + Cardinality(queued) + Cardinality(ints) +
    Cardinality(ObjSet(throw_obj[t])) + Cardinality(ObjSet(pending_exc_obj[t]))
      < RoomCap

-----------------------------------------------------------------------------
(* Program steps of thread t that move words.                              *)

\* Heap::alloc, under the heap mutex.  An "untyped" object is born with its
\* payload; the others are zero-initialised and filled by stores.
Alloc(t, a, k, payload) ==
  /\ collector = NoThread
  /\ Room(t)
  /\ a \notin objects
  /\ payload = {} \/ k = "untyped"
  /\ objects' = objects \cup {a}
  /\ kind' = [kind EXCEPT ![a] = k]
  /\ slots' = [slots EXCEPT ![a] = payload]
  /\ bytes' = IF bytes < Threshold THEN bytes + 1 ELSE bytes
  /\ frames' = [frames EXCEPT ![t] = @ \cup {a}]
  /\ UNCHANGED <<ints, natVars, excVars, gen_stack, dicts, queued, has_queued,
                 gcVars>>

Store(t, a, b) ==
  /\ Running(t)
  /\ {a, b} \subseteq frames[t]
  /\ kind[a] = "refs"
  /\ slots' = [slots EXCEPT ![a] = @ \cup {b}]
  /\ UNCHANGED <<objects, kind, ints, bytes, rootVars, gcVars>>

\* A store that overwrites the field holding b, or list.pop.
Erase(t, a, b) ==
  /\ Running(t)
  /\ a \in frames[t]
  /\ kind[a] = "refs"
  /\ b \in slots[a]
  /\ slots' = [slots EXCEPT ![a] = @ \ {b}]
  /\ UNCHANGED <<objects, kind, ints, bytes, rootVars, gcVars>>

Load(t, a, b) ==
  /\ Running(t)
  /\ a \in frames[t]
  /\ b \in slots[a]
  /\ frames' = [frames EXCEPT ![t] = @ \cup {b}]
  /\ UNCHANGED <<heapVars, natVars, excVars, gen_stack, dicts, queued,
                 has_queued, gcVars>>

\* A register is overwritten, or its frame is popped.
DropReg(t, a) ==
  /\ Running(t)
  /\ a \in frames[t]
  /\ frames' = [frames EXCEPT ![t] = @ \ {a}]
  /\ UNCHANGED <<heapVars, natVars, excVars, gen_stack, dicts, queued,
                 has_queued, gcVars>>

\* Arithmetic leaves an integer that equals address a in a register of t, or
\* such an integer is stored to a scanned object or to a dict ...
PutInt(t, p, a) ==
  /\ Running(t)
  /\ Room(t)
  /\ p \in {t, DictTable} \cup {o \in frames[t] : kind[o] = "refs"}
  /\ ints' = ints \cup {<<p, a>>}
  /\ UNCHANGED <<objects, kind, slots, bytes, rootVars, gcVars>>

\* ... and is overwritten.
ClearInt(t, p, a) ==
  /\ Running(t)
  /\ p \in {t, DictTable} \cup frames[t]
  /\ <<p, a>> \in ints
  /\ ints' = ints \ {<<p, a>>}
  /\ UNCHANGED <<objects, kind, slots, bytes, rootVars, gcVars>>

\* A higher-order native parks its list and re-enters the interpreter.  One
\* pointer stands for the closure, the source and the result.
Park(t, a) ==
  /\ Running(t)
  /\ Room(t)
  /\ a \in frames[t]
  /\ natives' = [natives EXCEPT ![t] =
                   Append(@, [local |-> a, mark |-> Len(temp_roots[t])])]
  /\ temp_roots' = [temp_roots EXCEPT ![t] = Append(@, a)]
  /\ UNCHANGED <<heapVars, frames, excVars, gen_stack, dicts, queued,
                 has_queued, gcVars>>

\* A mutant of Truncated: the roots of every native are dropped.
TruncatedToNothing(t, mark) == <<>>

\* temp_roots.truncate(mark)
Truncated(t, mark) == SubSeq(temp_roots[t], 1, mark)

\* The last callback has returned or raised: the native truncates temp_roots
\* to its mark, and answers its list unless there is an error to hand on.
Unpark(t) ==
  /\ Running(t)
  /\ natives[t] # <<>>
  /\ LET native == natives[t][Len(natives[t])]
     IN /\ temp_roots' = [temp_roots EXCEPT ![t] = Truncated(t, native.mark)]
        /\ \E answer \in {{}, {native.local}} :
             frames' = [frames EXCEPT ![t] = @ \cup answer]
  /\ natives' = [natives EXCEPT ![t] = Front(@)]
  /\ UNCHANGED <<heapVars, excVars, gen_stack, dicts, queued, has_queued,
                 gcVars>>

\* raise: op_throw remembers the object ...
Throw(t, a) ==
  /\ Running(t)
  /\ Room(t)
  /\ a \in frames[t]
  /\ throw_obj' = [throw_obj EXCEPT ![t] = a]
  /\ UNCHANGED <<heapVars, frames, natVars, pending_exc_obj, gen_stack, dicts,
                 queued, has_queued, gcVars>>

\* ... and the search takes it.  A matching arm binds it, or discards it, in
\* a frame below those it pops, and the exception that an earlier finally was
\* to re-raise is forgotten; throw_obj is empty for a native's exception.
Catch(t) ==
  /\ Running(t)
  /\ throw_obj' = [throw_obj EXCEPT ![t] = NoObj]
  /\ pending_exc_obj' = [pending_exc_obj EXCEPT ![t] = NoObj]
  /\ \E kept \in SUBSET frames[t], bound \in SUBSET ObjSet(throw_obj[t]) :
       frames' = [frames EXCEPT ![t] = kept \cup bound]
  /\ UNCHANGED <<heapVars, natVars, gen_stack, dicts, queued, has_queued,
                 gcVars>>

\* No arm matches and the statement has a finally: it is kept for its end.
ToFinally(t) ==
  /\ Running(t)
  /\ throw_obj' = [throw_obj EXCEPT ![t] = NoObj]
  /\ pending_exc_obj' = [pending_exc_obj EXCEPT ![t] = throw_obj[t]]
  /\ \E kept \in SUBSET frames[t] : frames' = [frames EXCEPT ![t] = kept]
  /\ UNCHANGED <<heapVars, natVars, gen_stack, dicts, queued, has_queued,
                 gcVars>>

\* The search ends at the boundary of its run: the object is given up.
Escape(t) ==
  /\ Running(t)
  /\ throw_obj' = [throw_obj EXCEPT ![t] = NoObj]
  /\ UNCHANGED <<heapVars, frames, natVars, pending_exc_obj, gen_stack, dicts,
                 queued, has_queued, gcVars>>

\* The finally has ended and raises again what it was started with.
EndFinally(t) ==
  /\ Running(t)
  /\ pending_exc_obj[t] # NoObj
  /\ throw_obj' = [throw_obj EXCEPT ![t] = pending_exc_obj[t]]
  /\ pending_exc_obj' = [pending_exc_obj EXCEPT ![t] = NoObj]
  /\ UNCHANGED <<heapVars, frames, natVars, gen_stack, dicts, queued,
                 has_queued, gcVars>>

\* A generator is resumed: its saved registers become those of a new frame.
GenNext(t, g) ==
  /\ Running(t)
  /\ Room(t)
  /\ g \in frames[t]
  /\ kind[g] = "refs"
  /\ gen_stack' = [gen_stack EXCEPT ![t] = Append(@, g)]
  /\ frames' = [frames EXCEPT ![t] = @ \cup slots[g]]
  /\ ints' = ints \cup ({t} \X IntsAt(g))
  /\ UNCHANGED <<objects, kind, slots, bytes, natVars, excVars, dicts, queued,
                 has_queued, gcVars>>

\* It yields: the registers of its frame are saved in its payload ...
Yield(t) ==
  /\ Running(t)
  /\ gen_stack[t] # <<>>
  /\ LET g == gen_stack[t][Len(gen_stack[t])]
     IN /\ kind[g] = "refs"
        /\ \E saved \in SUBSET frames[t], kept \in SUBSET frames[t] :
             /\ saved \cup kept = frames[t]
             /\ slots' = [slots EXCEPT ![g] = saved]
             /\ frames' = [frames EXCEPT ![t] = kept]
        /\ \E saved \in SUBSET IntsAt(t) :
             ints' = (ints \ ({g} \X Addr)) \cup ({g} \X saved)
  /\ gen_stack' = [gen_stack EXCEPT ![t] = Front(@)]
  /\ UNCHANGED <<objects, kind, bytes, natVars, excVars, dicts, queued,
                 has_queued, gcVars>>

\* ... or it returns or raises: they are lost.
GenEnd(t) ==
  /\ Running(t)
  /\ gen_stack[t] # <<>>
  /\ gen_stack' = [gen_stack EXCEPT ![t] = Front(@)]
  /\ \E kept \in SUBSET frames[t] : frames' = [frames EXCEPT ![t] = kept]
  /\ UNCHANGED <<heapVars, natVars, excVars, dicts, queued, has_queued, gcVars>>

DictSet(t, a) ==
  /\ Running(t)
  /\ Room(t)
  /\ a \in frames[t]
  /\ dicts' = dicts \cup {a}
  /\ UNCHANGED <<heapVars, frames, natVars, excVars, gen_stack, queued,
                 has_queued, gcVars>>

\* Dict.get copies the value to a register; the table keeps it.
DictGet(t, a) ==
  /\ Running(t)
  /\ a \in dicts
  /\ frames' = [frames EXCEPT ![t] = @ \cup {a}]
  /\ UNCHANGED <<heapVars, natVars, excVars, gen_stack, dicts, queued,
                 has_queued, gcVars>>

\* Dict.remove answers whether the key was there, not with its value.
DictRemove(t, a) ==
  /\ Running(t)
  /\ a \in dicts
  /\ dicts' = dicts \ {a}
  /\ UNCHANGED <<heapVars, frames, natVars, excVars, gen_stack, queued,
                 has_queued, gcVars>>

\* Channel.send, or a worker filling a future: the payload is a bare u64.
Send(t, a) ==
  /\ Running(t)
  /\ Room(t)
  /\ a \in frames[t]
  /\ queued' = queued \cup {a}
  /\ has_queued' = TRUE
  /\ UNCHANGED <<heapVars, frames, natVars, excVars, gen_stack, dicts, gcVars>>

Receive(t, a) ==
  /\ Running(t)
  /\ a \in queued
  /\ queued' = queued \ {a}
  /\ frames' = [frames EXCEPT ![t] = @ \cup {a}]
  /\ UNCHANGED <<heapVars, natVars, excVars, gen_stack, dicts, has_queued,
                 gcVars>>

-----------------------------------------------------------------------------
(* The collection, on thread t, at one of its safepoints.                  *)

\* The root windows, word by word: what thread t can see of itself, and every
\* dict.
Roots(t) ==
  frames[t] \cup Entries(temp_roots[t]) \cup ObjSet(throw_obj[t])
    \cup ObjSet(pending_exc_obj[t]) \cup Entries(gen_stack[t]) \cup dicts
    \cup IntsAt(t) \cup IntsAt(DictTable)

\* A mutant of Traced: marking stops at the roots.
TracedShallow(a) == {}

\* trace_object: the words the collector follows out of a.
Traced(a) == IF kind[a] = "refs" THEN slots[a] \cup IntsAt(a) ELSE {}

ShouldCollect == bytes >= Threshold

BeginCollect(t) ==
  /\ collector = NoThread
  /\ ShouldCollect
  /\ collector' = t
  /\ marked' = marked \cup (Roots(t) \cap objects)
  /\ worklist' = (Roots(t) \cap objects) \ marked
  /\ UNCHANGED <<heapVars, rootVars>>

TraceObject(t, a) ==
  /\ collector = t
  /\ a \in worklist
  /\ LET fresh == (Traced(a) \cap objects) \ marked
     IN /\ marked' = marked \cup fresh
        /\ worklist' = (worklist \ {a}) \cup fresh
  /\ UNCHANGED <<heapVars, rootVars, collector>>

\* A mutant of MarksLeft: the bits of the survivors stay set.
MarksKept == marked

\* The mark bits still set after a sweep: survivors get theirs cleared.
MarksLeft == {}

\* The payload of a freed address is forgotten.
Sweep(t) ==
  /\ collector = t
  /\ worklist = {}
  /\ objects' = marked
  /\ kind' = [a \in Addr |-> IF a \in marked THEN kind[a] ELSE "leaf"]
  /\ slots' = [a \in Addr |-> IF a \in marked THEN slots[a] ELSE {}]
  /\ ints' = ints \ ((Addr \ marked) \X Addr)
  /\ bytes' = 0
  /\ collector' = NoThread
  /\ marked' = MarksLeft
  /\ UNCHANGED <<rootVars, worklist>>

Collect(t) ==
  \/ BeginCollect(t)
  \/ \E a \in Addr : TraceObject(t, a)
  \/ Sweep(t)

Mutate(t) ==
  \/ \E a \in Addr, k \in AllocKinds, p \in SUBSET frames[t] : Alloc(t, a, k, p)
  \/ \E a, b \in Addr : Store(t, a, b) \/ Erase(t, a, b) \/ Load(t, a, b)
  \/ \E p \in Place, a \in Addr : PutInt(t, p, a) \/ ClearInt(t, p, a)
  \/ \E a \in Addr : DropReg(t, a) \/ Park(t, a) \/ Throw(t, a) \/ GenNext(t, a)
  \/ Unpark(t)
  \/ Catch(t) \/ ToFinally(t) \/ Escape(t) \/ EndFinally(t)
  \/ Yield(t) \/ GenEnd(t)
  \/ \E a \in Addr : DictSet(t, a) \/ DictGet(t, a) \/ DictRemove(t, a)
  \/ \E a \in Addr : Send(t, a) \/ Receive(t, a)

Next == \E t \in Thread : Mutate(t) \/ Collect(t)

Spec == Init /\ [][Next]_vars

-----------------------------------------------------------------------------
(* Properties.                                                             *)

\* The state of Heap and of the interpreters' root sets keeps its shape.
TypeOK ==
  /\ objects \subseteq Addr
  /\ kind \in [Addr -> Kinds]
  /\ slots \in [Addr -> SUBSET Addr]
  /\ ints \subseteq Place \X Addr
  /\ frames \in [Thread -> SUBSET Addr]
  /\ natives \in [Thread -> Seq(Native)]
  /\ temp_roots \in [Thread -> Seq(Addr)]
  /\ throw_obj \in [Thread -> Addr \cup {NoObj}]
  /\ pending_exc_obj \in [Thread -> Addr \cup {NoObj}]
  /\ gen_stack \in [Thread -> Seq(Addr)]
  /\ dicts \subseteq Addr
  /\ queued \subseteq Addr
  /\ has_queued \in BOOLEAN
  /\ bytes \in Nat
  /\ collector \in Thread \cup {NoThread}
  /\ marked \subseteq Addr
  /\ worklist \subseteq Addr

\* The pointers thread t can use in its next steps without another thread:
\* in registers, in the local variables of the natives that wait for it, in
\* the exceptions it will bind, in the generators it will save to, in dicts.
Held(t) ==
  frames[t] \cup {n.local : n \in Entries(natives[t])} \cup ObjSet(throw_obj[t])
    \cup ObjSet(pending_exc_obj[t]) \cup Entries(gen_stack[t]) \cup dicts

\* What looks like a pointer to someone who sees words only: beside those
\* pointers, any integer in a register or dict, and any word of a payload.
Resembling(t) == Held(t) \cup IntsAt(t) \cup IntsAt(DictTable)
Words == [a \in Addr |-> slots[a] \cup IntsAt(a)]

\* C is a set of live objects closed under following links.
ClosedFrom(S, links, C) ==
  /\ S \cap objects \subseteq C
  /\ \A a \in C : links[a] \cap objects \subseteq C

\* The live objects that links lead to from those in S.
Reach(S, links) ==
  {a \in objects : \A C \in SUBSET objects : ClosedFrom(S, links, C) => a \in C}

\* No pointer the program can use, in a register, in a native waiting for its
\* callback, in an exception, a generator, a dict or the payload of any
\* object, refers to freed memory: what maybe_collect's root windows and
\* trace_object are for.  A program that has queued a pointer is excepted.
NoDangling ==
  ~has_queued =>
    /\ \A t \in Thread : Held(t) \subseteq objects
    /\ \A a \in objects : slots[a] \subseteq objects

\* A sweep frees no live object to which pointers lead from those that the
\* collecting thread can use: the whole of mark, trace and sweep.
SweepSound ==
  [][\A t \in Thread : Sweep(t) => Reach(Held(t), slots) \subseteq objects']_vars

\* What survives a sweep could be needed, as far as one can tell who sees
\* words only: garbage is kept, if at all, for an integer that equals an
\* address (gc.rs:314-316) and never for a cycle or an old mark.
SweepComplete ==
  [][\A t \in Thread : Sweep(t) =>
       objects' \subseteq Reach(Resembling(t), Words)]_vars

\* What the comment on alloc_tuple_obj says (interp.rs:3129-3132): the payload
\* of a live object without a vtable is scanned, so that nothing in it dangles.
TuplesAreScanned ==
  \A a \in objects : kind[a] = "untyped" => slots[a] \subseteq objects
=============================================================================
