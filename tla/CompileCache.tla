--------------------------- MODULE CompileCache ---------------------------
(***************************************************************************)
(* `spy SCRIPT` (vm/src/main.rs): compile the script when its cached .spyc *)
(* is missing or stale, then load the cache and run it.  A compilation     *)
(* merges the files that the script imports, directly or not, into one     *)
(* program (compiler/src/modules.rs); the cache is stale when one of them  *)
(* is newer than it.  Several spy processes may share the cache, and one   *)
(* may be killed at any point.                                             *)
(*                                                                         *)
(* A source file is the name it is imported by.  Its text is a value of    *)
(* which only the imports matter.  Modification times are abstracted to    *)
(* the set of files that were written after the cache: an edit is assumed  *)
(* to get a later time than the cache it follows, and to happen while no   *)
(* process is between its staleness check and its load (the program that   *)
(* it loads may run on).                                                   *)
(*                                                                         *)
(* The imports of a file are taken in any order.  That an imported file is *)
(* already merged, or is not there and left to the resolver, changes       *)
(* nothing, so an import that needs no work is no step.                    *)
(***************************************************************************)
EXTENDS Naturals, Sequences, FiniteSets

CONSTANTS
  Process,     \* the spy processes
  File,        \* module names that have, or may get, a .spy file
  Root,        \* the script
  Stdlib,      \* those that are also the name of a standard module
  Removable,   \* the files that may be deleted
  Text,        \* what a file may hold
  Parses,      \* the texts that parse
  Imports,     \* the names that each of them imports
  Absent,      \* there is no such file
  NoCache, Torn  \* no .spyc; one that was opened and not written

ASSUME FileAssumption == Root \in File /\ IsFiniteSet(File) /\ Stdlib \subseteq File
ASSUME TextAssumption == Parses \subseteq Text /\ Absent \notin Text
ASSUME ImportsAssumption == Imports \in [Parses -> SUBSET File]
ASSUME CacheAssumption ==
  NoCache # Torn /\ \A P \in SUBSET (File \X Text) : P # NoCache /\ P # Torn

VARIABLES
  disk,         \* disk[f]: the text of f, or Absent
  newer,        \* the files written after the cache was
  cache,        \* the .spyc: NoCache, Torn, or the program compiled into it
  pc,           \* where each process is
  in_progress,  \* Loader.in_progress: the imports being loaded, outermost first
  loaded        \* Loader.loaded: the imports merged

vars == <<disk, newer, cache, pc, in_progress, loaded>>

Places == {"idle", "merge", "write", "fill", "load"}

----------------------------------------------------------------------------
(* What a disk d holds. *)

Present(d) == {f \in File : d[f] # Absent}

\* The files that f imports; a name without a file is left to the resolver.
Deps(d, f) == IF d[f] \in Parses THEN Imports[d[f]] \cap Present(d) ELSE {}

Closed(d, S) == \A f \in S : Deps(d, f) \subseteq S

\* The files reached from R, R included: the least closed set around it.
Reach(d, R) == {f \in File : \A S \in SUBSET File : R \subseteq S /\ Closed(d, S) => f \in S}

Linked(d) == Reach(d, {Root})

\* Names that neither a file nor the standard library answers to.
Unresolved(d, S) == UNION {Imports[d[f]] : f \in S} \ (Present(d) \cup Stdlib)

\* Does the script compile, and to which program?
Cyclic(d) == \E f \in Linked(d) : f \in Reach(d, Deps(d, f))
Compiles(d) ==
  /\ \A f \in Linked(d) : d[f] \in Parses
  /\ ~Cyclic(d)
  /\ Unresolved(d, Linked(d)) = {}
Program(d, S) == {<<f, d[f]>> : f \in S}

----------------------------------------------------------------------------

Init ==
  /\ disk \in [File -> Text \cup {Absent}]
  /\ newer = {}
  /\ cache = NoCache
  /\ pc = [p \in Process |-> "idle"]
  /\ in_progress = [p \in Process |-> <<>>]
  /\ loaded = [p \in Process |-> {}]

Quiet == \A p \in Process : pc[p] = "idle"

Edit(f, x) ==
  /\ Quiet
  /\ disk[f] # x
  /\ disk' = [disk EXCEPT ![f] = x]
  /\ newer' = newer \cup {f}
  /\ UNCHANGED <<cache, pc, in_progress, loaded>>

Delete(f) ==
  /\ Quiet
  /\ f \in Removable \cap Present(disk)
  /\ disk' = [disk EXCEPT ![f] = Absent]
  /\ UNCHANGED <<newer, cache, pc, in_progress, loaded>>

ClearCache ==
  /\ Quiet
  /\ cache' = NoCache
  /\ UNCHANGED <<disk, newer, pc, in_progress, loaded>>

\* A mutant of NeedsRecompile: only the script's own imports are looked at.
DirectImportsOnly ==
  \/ cache = NoCache
  \/ disk[Root] = Absent
  \/ Root \in newer
  \/ \E f \in Deps(disk, Root) : f \in newer

\* needs_recompile.  collect_import_deps takes a file that does not parse for
\* one without imports.
NeedsRecompile ==
  \/ cache = NoCache
  \/ disk[Root] = Absent
  \/ Root \in newer
  \/ \E f \in Reach(disk, Deps(disk, Root)) : f \in newer

Start(p) ==
  /\ pc[p] = "idle"
  /\ pc' = [pc EXCEPT ![p] = IF NeedsRecompile THEN "merge" ELSE "load"]
  /\ UNCHANGED <<disk, newer, cache, in_progress, loaded>>

----------------------------------------------------------------------------
(* resolve_and_merge *)

InProgress(p) == {in_progress[p][i] : i \in DOMAIN in_progress[p]}

\* The file whose imports are being loaded.  The script itself is not on
\* in_progress, so it may come up there as somebody's import.
Current(p) == IF in_progress[p] = <<>> THEN Root ELSE in_progress[p][Len(in_progress[p])]

\* The imports of the current file that are still to be merged.
ToLoad(p) == Deps(disk, Current(p)) \ loaded[p]

Enter(p, f) ==
  /\ pc[p] = "merge"
  /\ f \in ToLoad(p) \ InProgress(p)
  /\ disk[f] \in Parses
  /\ in_progress' = [in_progress EXCEPT ![p] = Append(@, f)]
  /\ UNCHANGED <<disk, newer, cache, pc, loaded>>

\* A mutant of Leave: the file is not recorded as loaded.
LeaveUnrecorded(p) ==
  /\ pc[p] = "merge"
  /\ in_progress[p] # <<>>
  /\ ToLoad(p) = {}
  /\ in_progress' = [in_progress EXCEPT ![p] = SubSeq(@, 1, Len(@) - 1)]
  /\ UNCHANGED <<disk, newer, cache, pc, loaded>>

Leave(p) ==
  /\ pc[p] = "merge"
  /\ in_progress[p] # <<>>
  /\ ToLoad(p) = {}
  /\ loaded' = [loaded EXCEPT ![p] = @ \cup {Current(p)}]
  /\ in_progress' = [in_progress EXCEPT ![p] = SubSeq(@, 1, Len(@) - 1)]
  /\ UNCHANGED <<disk, newer, cache, pc>>

\* The script is merged; its names are resolved and its types are checked.
Finish(p) ==
  /\ pc[p] = "merge"
  /\ disk[Root] \in Parses
  /\ in_progress[p] = <<>>
  /\ ToLoad(p) = {}
  /\ Unresolved(disk, loaded[p] \cup {Root}) = {}
  /\ pc' = [pc EXCEPT ![p] = "write"]
  /\ UNCHANGED <<disk, newer, cache, in_progress, loaded>>

\* The end of resolve_and_merge, or of the process.
DropLoader(p) ==
  /\ in_progress' = [in_progress EXCEPT ![p] = <<>>]
  /\ loaded' = [loaded EXCEPT ![p] = {}]

\* A mutant of Circular: in_progress is looked at before loaded, and a file
\* that was loaded is left on it.
CircularOrLoaded(p) == Deps(disk, Current(p)) \cap (InProgress(p) \cup loaded[p]) # {}
Circular(p) == ToLoad(p) \cap InProgress(p) # {}
SyntaxError(p) ==
  \/ disk[Root] \notin Parses
  \/ \E f \in ToLoad(p) : disk[f] \notin Parses
ResolveError(p) ==
  /\ disk[Root] \in Parses
  /\ in_progress[p] = <<>>
  /\ ToLoad(p) = {}
  /\ Unresolved(disk, loaded[p] \cup {Root}) # {}

Fail(p) ==
  /\ pc[p] = "merge"
  /\ Circular(p) \/ SyntaxError(p) \/ ResolveError(p)
  /\ pc' = [pc EXCEPT ![p] = "idle"]
  /\ DropLoader(p)
  /\ UNCHANGED <<disk, newer, cache>>

----------------------------------------------------------------------------
(* fs::write, which truncates the file before it writes to it; fs::read *)

Truncate(p) ==
  /\ pc[p] = "write"
  /\ cache' = Torn
  /\ newer' = {}
  /\ pc' = [pc EXCEPT ![p] = "fill"]
  /\ UNCHANGED <<disk, in_progress, loaded>>

Fill(p) ==
  /\ pc[p] = "fill"
  /\ cache' = Program(disk, loaded[p] \cup {Root})
  /\ newer' = {}
  /\ pc' = [pc EXCEPT ![p] = "load"]
  /\ DropLoader(p)
  /\ UNCHANGED disk

\* The cache is read and run; the loader refuses one that is torn.
Load(p) ==
  /\ pc[p] = "load"
  /\ pc' = [pc EXCEPT ![p] = "idle"]
  /\ UNCHANGED <<disk, newer, cache, in_progress, loaded>>

Kill(p) ==
  /\ pc[p] # "idle"
  /\ pc' = [pc EXCEPT ![p] = "idle"]
  /\ DropLoader(p)
  /\ UNCHANGED <<disk, newer, cache>>

Step(p) ==
  \/ \E f \in File : Enter(p, f)
  \/ Leave(p) \/ Finish(p) \/ Fail(p)
  \/ Truncate(p) \/ Fill(p) \/ Load(p)

Next ==
  \/ \E f \in File, x \in Text : Edit(f, x)
  \/ \E f \in File : Delete(f)
  \/ ClearCache
  \/ \E p \in Process : Start(p) \/ Step(p) \/ Kill(p)

Spec == Init /\ [][Next]_vars

\* A process that has started goes on, unless it is killed.
FairSpec == Spec /\ \A p \in Process : WF_vars(Step(p))

----------------------------------------------------------------------------

\* The paths that in_progress can be: no file comes twice.
Path == {s \in Seq(File) : \A i, j \in DOMAIN s : s[i] = s[j] => i = j}

\* The shape of the state; no file is on in_progress twice, or both there and
\* merged (Loader, modules.rs).
TypeOK ==
  /\ disk \in [File -> Text \cup {Absent}]
  /\ newer \subseteq File
  /\ cache \in {NoCache, Torn} \cup SUBSET (File \X (Text \cup {Absent}))
  /\ pc \in [Process -> Places]
  /\ in_progress \in [Process -> Path]
  /\ loaded \in [Process -> SUBSET File]
  /\ \A p \in Process : InProgress(p) \cap loaded[p] = {}

\* What a process is about to load is torn, or the program that the files on
\* disk make, imports of imports included, whoever wrote the cache and
\* whichever of them were edited since (needs_recompile and
\* collect_import_deps against resolve_and_merge).
RunsCurrent ==
  \A p \in Process :
    pc[p] = "load" /\ cache # Torn
      => Compiles(disk) /\ cache = Program(disk, Linked(disk))

\* A compilation fails only on files that do not make a program: a file that
\* is imported twice is not taken for a circular import (ensure_loaded).
ErrorsAreReal == [][\A p \in Process : Fail(p) => ~Compiles(disk)]_vars

\* The merge of any imports, circular ones too, comes to an end, and so does
\* every run's way to its program (ensure_loaded).
RunsEnd == \A p \in Process : pc[p] # "idle" ~> pc[p] = "idle"

=============================================================================
