------------------------- MODULE CompileCacheProofs -------------------------
(***************************************************************************)
(* Proofs about the compile cache (module CompileCache), for any files,    *)
(* texts, imports and number of processes.                                 *)
(***************************************************************************)
EXTENDS CompileCache, TLAPS

Disks == [File -> Text \cup {Absent}]
Below(d, f) == Reach(d, Deps(d, f))

----------------------------------------------------------------------------
(* Reachability as the least closed set.                                   *)

LEMMA DepsAreFiles ==
  ASSUME NEW d, NEW f
  PROVE  Deps(d, f) \subseteq File
BY DEF Deps, Present

LEMMA ReachIsLeast ==
  ASSUME NEW d, NEW R, NEW S \in SUBSET File, R \subseteq S, Closed(d, S)
  PROVE  Reach(d, R) \subseteq S
BY DEF Reach

LEMMA ReachIsClosed ==
  ASSUME NEW d, NEW R \in SUBSET File
  PROVE  /\ R \subseteq Reach(d, R)
         /\ Reach(d, R) \in SUBSET File
         /\ Closed(d, Reach(d, R))
<1>1. R \subseteq Reach(d, R) /\ Reach(d, R) \in SUBSET File
  BY DEF Reach
<1>2. ASSUME NEW f \in Reach(d, R), NEW g \in Deps(d, f) PROVE g \in Reach(d, R)
  <2>1. g \in File
    BY <1>2, DepsAreFiles
  <2>2. ASSUME NEW S \in SUBSET File, R \subseteq S, Closed(d, S) PROVE g \in S
    BY <1>2, <2>2 DEF Reach, Closed
  <2> QED BY <2>1, <2>2 DEF Reach
<1> QED BY <1>1, <1>2 DEF Closed

\* What is below a file of a closed set is in it.
LEMMA BelowInClosed ==
  ASSUME NEW d, NEW S \in SUBSET File, Closed(d, S), NEW f \in S
  PROVE  Below(d, f) \subseteq S
BY ReachIsLeast DEF Below, Closed

LEMMA BelowIsClosed ==
  ASSUME NEW d, NEW f
  PROVE  /\ Deps(d, f) \subseteq Below(d, f)
         /\ Below(d, f) \in SUBSET File
         /\ Closed(d, Below(d, f))
BY DepsAreFiles, ReachIsClosed DEF Below

\* The script and what it imports, directly or not.
LEMMA LinkedIsRootAndBelow ==
  ASSUME NEW d
  PROVE  /\ Linked(d) = {Root} \cup Below(d, Root)
         /\ Linked(d) \in SUBSET File
         /\ Closed(d, Linked(d))
<1> USE FileAssumption
<1>1. /\ Root \in Linked(d)
      /\ Linked(d) \in SUBSET File
      /\ Closed(d, Linked(d))
  BY ReachIsClosed DEF Linked
<1>2. Below(d, Root) \subseteq Linked(d)
  BY <1>1, BelowInClosed
<1>3. Closed(d, {Root} \cup Below(d, Root))
  BY BelowIsClosed DEF Closed
<1>4. Linked(d) \subseteq {Root} \cup Below(d, Root)
  BY <1>3, BelowIsClosed, ReachIsLeast DEF Linked
<1> QED BY <1>1, <1>2, <1>4

\* A disk e that agrees with d on the files it links, and has every file of
\* d, makes the same program as d.
LEMMA AgreeingDisks ==
  ASSUME NEW d \in Disks, NEW e \in Disks, Compiles(d),
         Present(d) \subseteq Present(e),
         \A f \in Linked(e) : e[f] = d[f]
  PROVE  Compiles(e) /\ Linked(e) = Linked(d)
<1>1. /\ Root \in Linked(e) /\ Linked(e) \in SUBSET File /\ Closed(e, Linked(e))
      /\ Root \in Linked(d) /\ Linked(d) \in SUBSET File /\ Closed(d, Linked(d))
  BY LinkedIsRootAndBelow
<1>2. ASSUME NEW f \in Linked(e) PROVE Deps(e, f) = Deps(d, f)
  <2>1. Deps(e, f) \subseteq Linked(e)
    BY <1>1 DEF Closed
  <2> QED BY <1>1, <2>1 DEF Deps, Present
<1>3. Closed(d, Linked(e))
  BY <1>1, <1>2 DEF Closed
<1>4. Linked(d) \subseteq Linked(e)
  BY <1>1, <1>3, ReachIsLeast DEF Linked
<1>5. Closed(e, Linked(d))
  BY <1>1, <1>2, <1>4 DEF Closed
<1>6. Linked(e) \subseteq Linked(d)
  BY <1>1, <1>5, ReachIsLeast DEF Linked
<1>7. Linked(e) = Linked(d)
  BY <1>4, <1>6
<1>8. \A f \in Linked(e) : e[f] \in Parses
  BY <1>7 DEF Compiles
<1>9. ASSUME NEW f \in Linked(e) PROVE f \notin Below(e, f)
  <2>1. Below(d, f) \subseteq Linked(d)
    BY <1>1, <1>7, BelowInClosed
  <2>2. Closed(e, Below(d, f)) /\ Deps(e, f) \subseteq Below(d, f)
    BY <2>1, <1>2, <1>7, BelowIsClosed DEF Closed
  <2>3. Below(e, f) \subseteq Below(d, f)
    BY <2>2, BelowIsClosed, ReachIsLeast DEF Below
  <2> QED BY <2>3, <1>7 DEF Compiles, Cyclic, Below
<1>10. Unresolved(e, Linked(e)) = {}
  BY <1>7 DEF Compiles, Unresolved
<1> QED BY <1>7, <1>8, <1>9, <1>10 DEF Compiles, Cyclic, Below

----------------------------------------------------------------------------
USE FileAssumption, TextAssumption, ImportsAssumption

LEMMA EmptyPath == <<>> \in Path
<1>1. <<>> \in Seq(File) /\ DOMAIN <<>> = {}
  OBVIOUS
<1> QED BY <1>1 DEF Path

LEMMA LongerPath ==
  ASSUME NEW s \in Path, NEW f \in File, \A i \in DOMAIN s : s[i] # f
  PROVE  Append(s, f) \in Path
<1> DEFINE r == Append(s, f)
<1>1. /\ s \in Seq(File) /\ Len(s) \in Nat /\ DOMAIN s = 1 .. Len(s)
      /\ \A i, j \in DOMAIN s : s[i] = s[j] => i = j
  BY DEF Path
<1>2. /\ r \in Seq(File)
      /\ Len(r) = Len(s) + 1
      /\ DOMAIN r = 1 .. Len(r)
      /\ r[Len(s) + 1] = f
      /\ \A i \in 1 .. Len(s) : r[i] = s[i]
  BY <1>1
<1> HIDE DEF r
<1>3. ASSUME NEW i \in DOMAIN r, NEW j \in DOMAIN r, r[i] = r[j] PROVE i = j
  BY <1>1, <1>2, <1>3
<1>4. r \in Path
  BY <1>2, <1>3 DEF Path
<1> QED BY <1>4 DEF r

LEMMA ShorterPath ==
  ASSUME NEW s \in Path, s # <<>>
  PROVE  LET r == SubSeq(s, 1, Len(s) - 1)
         IN /\ r \in Path
            /\ DOMAIN s = 1 .. Len(s) /\ Len(s) \in Nat \ {0}
            /\ DOMAIN r = 1 .. Len(s) - 1
            /\ \A i \in DOMAIN r : r[i] = s[i] /\ r[i] # s[Len(s)]
<1> DEFINE r == SubSeq(s, 1, Len(s) - 1)
<1>1. /\ s \in Seq(File) /\ Len(s) \in Nat \ {0} /\ DOMAIN s = 1 .. Len(s)
      /\ \A i, j \in DOMAIN s : s[i] = s[j] => i = j
  BY DEF Path
<1>2. /\ r \in Seq(File)
      /\ DOMAIN r = 1 .. Len(s) - 1
      /\ \A i \in 1 .. Len(s) - 1 : r[i] = s[i]
  BY <1>1
<1> HIDE DEF r
<1>3. \A i \in DOMAIN r : r[i] # s[Len(s)]
  BY <1>1, <1>2
<1>4. \A i, j \in DOMAIN r : r[i] = r[j] => i = j
  BY <1>1, <1>2
<1>5. r \in Path
  BY <1>2, <1>4 DEF Path
<1> QED BY <1>1, <1>2, <1>3, <1>5 DEF r

\* Every step keeps the state's shape, and no file is on in_progress twice or
\* both there and merged.
THEOREM TypeCorrect == Spec => []TypeOK
<1>1. Init => TypeOK
  BY DEF Init, TypeOK, Places, Path, InProgress
<1>2. TypeOK /\ [Next]_vars => TypeOK'
  <2> SUFFICES ASSUME TypeOK, [Next]_vars PROVE TypeOK'
    OBVIOUS
  <2>1. CASE UNCHANGED vars
    BY <2>1 DEF TypeOK, vars, InProgress
  <2>2. ASSUME NEW f \in File, NEW x \in Text, Edit(f, x) PROVE TypeOK'
    BY <2>2 DEF TypeOK, Edit, InProgress
  <2>3. ASSUME NEW f \in File, Delete(f) PROVE TypeOK'
    BY <2>3 DEF TypeOK, Delete, InProgress
  <2>4. CASE ClearCache
    BY <2>4 DEF TypeOK, ClearCache, InProgress
  <2>5. ASSUME NEW p \in Process, Start(p) PROVE TypeOK'
    BY <2>5 DEF TypeOK, Start, InProgress, Places
  <2>6. ASSUME NEW p \in Process, NEW f \in File, Enter(p, f) PROVE TypeOK'
    <3>1. in_progress[p] \in Seq(File) /\ f \notin InProgress(p) /\ f \notin loaded[p]
      BY <2>6 DEF Enter, ToLoad, TypeOK, Path
    <3>2. Append(in_progress[p], f) \in Path
      BY <3>1, <2>6, LongerPath DEF TypeOK, InProgress
    <3>3. InProgress(p)' \subseteq InProgress(p) \cup {f}
      BY <3>1, <2>6 DEF Enter, InProgress, TypeOK
    <3>4. \A q \in Process : q # p => InProgress(q)' = InProgress(q)
      BY <2>6 DEF Enter, InProgress, TypeOK
    <3>5. \A q \in Process : InProgress(q)' \cap loaded'[q] = {}
      BY <2>6, <3>1, <3>3, <3>4 DEF Enter, TypeOK
    <3> QED BY <2>6, <3>2, <3>5 DEF TypeOK, Enter
  <2>7. ASSUME NEW p \in Process, Leave(p) PROVE TypeOK'
    <3> DEFINE Q == in_progress[p]
               R == SubSeq(Q, 1, Len(Q) - 1)
    <3>1. Q \in Path /\ Q # <<>>
      BY <2>7 DEF Leave, TypeOK
    <3>2. /\ R \in Path
          /\ DOMAIN Q = 1 .. Len(Q) /\ Len(Q) \in Nat \ {0}
          /\ DOMAIN R = 1 .. Len(Q) - 1
          /\ \A i \in DOMAIN R : R[i] = Q[i] /\ R[i] # Q[Len(Q)]
      BY <3>1, ShorterPath
    <3>3. Current(p) = Q[Len(Q)] /\ Current(p) \in File
      BY <3>1, <3>2 DEF Current, Path
    <3>4. in_progress'[p] = R
      BY <2>7 DEF Leave, TypeOK
    <3> HIDE DEF R
    <3>5. InProgress(p)' \subseteq InProgress(p) \ {Current(p)}
      BY <3>2, <3>3, <3>4 DEF InProgress
    <3>6. \A q \in Process : q # p => InProgress(q)' = InProgress(q)
      BY <2>7 DEF Leave, InProgress, TypeOK
    <3>7. \A q \in Process : InProgress(q)' \cap loaded'[q] = {}
      BY <2>7, <3>5, <3>6 DEF Leave, TypeOK
    <3>8. in_progress' \in [Process -> Path]
      BY <2>7, <3>2 DEF TypeOK, Leave, R
    <3> QED BY <2>7, <3>3, <3>7, <3>8 DEF TypeOK, Leave
  <2>8. ASSUME NEW p \in Process, Finish(p) PROVE TypeOK'
    BY <2>8 DEF TypeOK, Finish, InProgress, Places
  <2>9. ASSUME NEW p \in Process, Fail(p) \/ Kill(p) PROVE TypeOK'
    <3>1. InProgress(p)' = {} /\ \A q \in Process \ {p} : InProgress(q)' = InProgress(q)
      BY <2>9 DEF TypeOK, Fail, Kill, DropLoader, InProgress
    <3> QED BY <2>9, <3>1, EmptyPath DEF TypeOK, Fail, Kill, DropLoader, Places
  <2>10. ASSUME NEW p \in Process, Truncate(p) PROVE TypeOK'
    BY <2>10 DEF TypeOK, Truncate, InProgress, Places
  <2>11. ASSUME NEW p \in Process, Fill(p) PROVE TypeOK'
    <3>1. InProgress(p)' = {} /\ \A q \in Process \ {p} : InProgress(q)' = InProgress(q)
      BY <2>11 DEF TypeOK, Fill, DropLoader, InProgress
    <3>2. Program(disk, loaded[p] \cup {Root}) \in SUBSET (File \X (Text \cup {Absent}))
      BY DEF TypeOK, Program
    <3> QED BY <2>11, <3>1, <3>2, EmptyPath DEF TypeOK, Fill, DropLoader, Places
  <2>12. ASSUME NEW p \in Process, Load(p) PROVE TypeOK'
    BY <2>12 DEF TypeOK, Load, InProgress, Places
  <2> QED
    BY <2>1, <2>2, <2>3, <2>4, <2>5, <2>6, <2>7, <2>8, <2>9, <2>10, <2>11, <2>12
    DEF Next, Step
<1> QED BY <1>1, <1>2, PTL DEF Spec

----------------------------------------------------------------------------
(* The merge is a depth-first walk of the import graph.                    *)

\* in_progress is a path of imports that starts at the script.
WalkInv(p) ==
  /\ \A i \in DOMAIN in_progress[p] :
       /\ in_progress[p][i] \in Below(disk, Root)
       /\ disk[in_progress[p][i]] \in Parses
       /\ \A j \in DOMAIN in_progress[p] :
            i < j => in_progress[p][j] \in Below(disk, in_progress[p][i])
  /\ in_progress[p] # <<>> => in_progress[p][1] \in Deps(disk, Root)

\* What is merged is complete and has no circular import.
MergedInv(p) ==
  /\ loaded[p] \subseteq Below(disk, Root) \ {Root}
  /\ \A f \in loaded[p] :
       disk[f] \in Parses /\ Deps(disk, f) \subseteq loaded[p] /\ f \notin Below(disk, f)

\* A compilation that came to its end compiled what is on disk.
WrittenInv(p) == Compiles(disk) /\ loaded[p] \cup {Root} = Linked(disk)

MergeInv(p) ==
  /\ pc[p] = "merge" => WalkInv(p) /\ MergedInv(p)
  /\ pc[p] \in {"write", "fill"} => WrittenInv(p)
  /\ pc[p] \in {"idle", "load"} => in_progress[p] = <<>> /\ loaded[p] = {}

LEMMA CurrentFile ==
  ASSUME TypeOK, NEW p \in Process
  PROVE  /\ Current(p) \in File
         /\ WalkInv(p) => Current(p) \in Linked(disk)
         /\ WalkInv(p) /\ in_progress[p] # <<>> => disk[Current(p)] \in Parses
         /\ in_progress[p] = <<>> => Current(p) = Root
         /\ in_progress[p] # <<>> =>
              /\ Len(in_progress[p]) \in DOMAIN in_progress[p]
              /\ 1 \in DOMAIN in_progress[p]
              /\ Current(p) = in_progress[p][Len(in_progress[p])]
<1>1. in_progress[p] # <<>> =>
        /\ DOMAIN in_progress[p] = 1 .. Len(in_progress[p])
        /\ Len(in_progress[p]) \in Nat \ {0}
        /\ in_progress[p] \in Seq(File)
  BY ShorterPath DEF TypeOK, Path
<1> QED BY <1>1, LinkedIsRootAndBelow DEF Current, WalkInv

\* An import of the current file is linked, and below everything on the path.
LEMMA NextFile ==
  ASSUME TypeOK, NEW p \in Process, WalkInv(p), NEW f \in Deps(disk, Current(p))
  PROVE  /\ f \in Below(disk, Root)
         /\ \A i \in DOMAIN in_progress[p] : f \in Below(disk, in_progress[p][i])
<1>1. f \in Below(disk, Current(p))
  BY BelowIsClosed
<1>2. CASE in_progress[p] = <<>>
  <2>1. Current(p) = Root /\ DOMAIN in_progress[p] = {}
    BY <1>2, CurrentFile
  <2> QED BY <2>1, <1>1
<1>3. CASE in_progress[p] # <<>>
  <2>1. /\ Current(p) = in_progress[p][Len(in_progress[p])]
        /\ Len(in_progress[p]) \in DOMAIN in_progress[p]
        /\ DOMAIN in_progress[p] = 1 .. Len(in_progress[p])
        /\ Len(in_progress[p]) \in Nat
    BY <1>3, CurrentFile, ShorterPath DEF TypeOK
  <2>2. f \in Below(disk, Root)
    BY <2>1, BelowIsClosed DEF WalkInv, Closed
  <2>3. ASSUME NEW i \in DOMAIN in_progress[p], i < Len(in_progress[p])
        PROVE  f \in Below(disk, in_progress[p][i])
    BY <2>1, <2>3, BelowIsClosed DEF WalkInv, Closed
  <2> QED BY <1>1, <2>1, <2>2, <2>3
<1> QED BY <1>2, <1>3

\* A process keeps its part of the invariant while it and the disk stay as
\* they are.
LEMMA MergeInvKept ==
  ASSUME NEW p \in Process, MergeInv(p), UNCHANGED disk,
         pc'[p] = pc[p], in_progress'[p] = in_progress[p], loaded'[p] = loaded[p]
  PROVE  MergeInv(p)'
BY DEF MergeInv, WalkInv, MergedInv, WrittenInv

LEMMA EnterKeepsMergeInv ==
  ASSUME TypeOK, NEW p \in Process, NEW f \in File, Enter(p, f), MergeInv(p)
  PROVE  MergeInv(p)'
<1> DEFINE Q == in_progress[p]
           R == Append(Q, f)
<1>1. /\ Q \in Seq(File) /\ Len(Q) \in Nat /\ DOMAIN Q = 1 .. Len(Q)
      /\ DOMAIN R = 1 .. Len(Q) + 1
      /\ \A i \in 1 .. Len(Q) : R[i] = Q[i]
      /\ R[Len(Q) + 1] = f
  BY DEF TypeOK, Path
<1>2. /\ pc[p] = "merge" /\ pc' = pc /\ disk' = disk /\ loaded' = loaded
      /\ in_progress'[p] = R
      /\ disk[f] \in Parses
      /\ f \in Deps(disk, Current(p))
      /\ WalkInv(p) /\ MergedInv(p)
  BY DEF Enter, TypeOK, MergeInv, ToLoad
<1>3. f \in Below(disk, Root) /\ \A i \in DOMAIN Q : f \in Below(disk, Q[i])
  BY <1>2, NextFile
<1>4. R # <<>> /\ R[1] \in Deps(disk, Root)
  <2>1. CASE Q = <<>>
    <3>1. Current(p) = Root /\ Len(Q) = 0
      BY <2>1, CurrentFile
    <3> QED BY <3>1, <1>1, <1>2
  <2>2. CASE Q # <<>>
    <3>1. Len(Q) > 0
      BY <2>2, <1>1
    <3> QED BY <3>1, <2>2, <1>1, <1>2 DEF WalkInv
  <2> QED BY <2>1, <2>2
<1> HIDE DEF R
<1>5. WalkInv(p)'
  <2>1. \A i \in DOMAIN R :
          /\ R[i] \in Below(disk, Root)
          /\ disk[R[i]] \in Parses
          /\ \A j \in DOMAIN R : i < j => R[j] \in Below(disk, R[i])
    BY <1>1, <1>2, <1>3 DEF WalkInv
  <2> QED BY <2>1, <1>2, <1>4 DEF WalkInv
<1>6. MergedInv(p)'
  BY <1>2 DEF MergedInv
<1> QED BY <1>2, <1>5, <1>6 DEF MergeInv

LEMMA LeaveKeepsMergeInv ==
  ASSUME TypeOK, NEW p \in Process, Leave(p), MergeInv(p)
  PROVE  MergeInv(p)'
<1> DEFINE Q == in_progress[p]
           R == SubSeq(Q, 1, Len(Q) - 1)
           c == Current(p)
<1>1. /\ DOMAIN Q = 1 .. Len(Q) /\ Len(Q) \in Nat \ {0}
      /\ R \in Path
      /\ DOMAIN R = 1 .. Len(Q) - 1
      /\ \A i \in DOMAIN R : R[i] = Q[i]
  BY ShorterPath DEF Leave, TypeOK
<1>2. /\ pc[p] = "merge" /\ pc' = pc /\ disk' = disk
      /\ loaded'[p] = loaded[p] \cup {c}
      /\ in_progress'[p] = R
      /\ Q # <<>>
      /\ Deps(disk, c) \subseteq loaded[p]
      /\ WalkInv(p) /\ MergedInv(p)
      /\ InProgress(p) \cap loaded[p] = {}
  BY DEF Leave, TypeOK, MergeInv, ToLoad
<1>3. /\ c = Q[Len(Q)] /\ c \in InProgress(p) /\ Q[1] \in InProgress(p)
      /\ c \in File /\ disk[c] \in Parses /\ c \in Below(disk, Root)
  BY <1>2, CurrentFile DEF InProgress, WalkInv
<1> HIDE DEF R, c
<1>4. c # Root
  BY <1>2, <1>3 DEF WalkInv
<1>5. c \notin Below(disk, c)
  <2>1. Closed(disk, loaded[p]) /\ loaded[p] \in SUBSET File
    BY <1>2 DEF MergedInv, Closed, TypeOK
  <2>2. Below(disk, c) \subseteq loaded[p]
    BY <2>1, <1>2, ReachIsLeast DEF Below
  <2> QED BY <2>2, <1>2, <1>3
<1>6. MergedInv(p)'
  BY <1>2, <1>3, <1>4, <1>5 DEF MergedInv
<1>7. WalkInv(p)'
  <2>1. R # <<>> => 1 \in DOMAIN R
    BY <1>1, ShorterPath
  <2> QED BY <1>1, <1>2, <2>1 DEF WalkInv
<1> QED BY <1>2, <1>6, <1>7 DEF MergeInv

\* The walk ends with the files that the script links.
LEMMA FinishKeepsMergeInv ==
  ASSUME TypeOK, NEW p \in Process, Finish(p), MergeInv(p)
  PROVE  MergeInv(p)'
<1> DEFINE L == loaded[p] \cup {Root}
<1>1. /\ pc[p] = "merge" /\ pc'[p] = "write" /\ disk' = disk /\ loaded' = loaded
      /\ disk[Root] \in Parses
      /\ Deps(disk, Root) \subseteq loaded[p]
      /\ Unresolved(disk, L) = {}
      /\ MergedInv(p)
  BY DEF Finish, TypeOK, MergeInv, ToLoad, Current
<1>2. Closed(disk, L) /\ Closed(disk, loaded[p]) /\ L \in SUBSET File
  BY <1>1 DEF MergedInv, Closed, TypeOK
<1>3. L = Linked(disk)
  <2>1. Linked(disk) \subseteq L
    BY <1>2, ReachIsLeast DEF Linked
  <2>2. L \subseteq Linked(disk)
    BY <1>1, LinkedIsRootAndBelow DEF MergedInv
  <2> QED BY <2>1, <2>2
<1>4. Root \notin Below(disk, Root)
  <2>1. Below(disk, Root) \subseteq loaded[p]
    BY <1>1, <1>2, ReachIsLeast DEF Below, TypeOK
  <2> QED BY <2>1, <1>1 DEF MergedInv
<1>5. Compiles(disk)
  BY <1>1, <1>3, <1>4 DEF Compiles, Cyclic, MergedInv, Below
<1> QED BY <1>1, <1>3, <1>5 DEF MergeInv, WrittenInv

\* The merge invariant, for every process: a compilation under way knows the
\* import graph on disk, whatever the other processes do to the cache.
THEOREM MergeSafe == Spec => [](\A p \in Process : MergeInv(p))
<1>1. Init => \A p \in Process : MergeInv(p)
  BY DEF Init, MergeInv
<1>2. TypeOK /\ (\A p \in Process : MergeInv(p)) /\ [Next]_vars
        => (\A p \in Process : MergeInv(p))'
  <2> SUFFICES ASSUME TypeOK, \A p \in Process : MergeInv(p), [Next]_vars,
                      NEW q \in Process
               PROVE  MergeInv(q)'
    OBVIOUS
  <2>1. CASE UNCHANGED vars
    BY <2>1, MergeInvKept DEF vars
  <2>2. ASSUME Quiet, UNCHANGED <<pc, in_progress, loaded>> PROVE MergeInv(q)'
    BY <2>2 DEF Quiet, MergeInv
  <2>3. CASE \/ \E f \in File, x \in Text : Edit(f, x)
             \/ \E f \in File : Delete(f)
             \/ ClearCache
    BY <2>2, <2>3 DEF Edit, Delete, ClearCache
  <2>4. ASSUME NEW p \in Process, p # q, Start(p) \/ Step(p) \/ Kill(p)
        PROVE  MergeInv(q)'
    <3>1. /\ UNCHANGED disk /\ pc'[q] = pc[q]
          /\ in_progress'[q] = in_progress[q] /\ loaded'[q] = loaded[q]
      BY <2>4 DEF Start, Step, Kill, Enter, Leave, Finish, Fail, Truncate, Fill,
                  Load, DropLoader, TypeOK
    <3> QED BY <3>1, MergeInvKept
  <2>5. CASE Start(q)
    <3>1. /\ in_progress'[q] = <<>> /\ loaded'[q] = {} /\ disk' = disk
          /\ pc'[q] \in {"merge", "load"} /\ DOMAIN in_progress'[q] = {}
      BY <2>5 DEF Start, MergeInv, TypeOK
    <3> QED BY <3>1 DEF MergeInv, WalkInv, MergedInv
  <2>6. CASE \E f \in File : Enter(q, f)
    BY <2>6, EnterKeepsMergeInv
  <2>7. CASE Leave(q)
    BY <2>7, LeaveKeepsMergeInv
  <2>8. CASE Finish(q)
    BY <2>8, FinishKeepsMergeInv
  <2>9. CASE Fail(q) \/ Fill(q) \/ Kill(q)
    <3>1. /\ in_progress'[q] = <<>> /\ loaded'[q] = {}
          /\ pc'[q] \in {"idle", "load"}
      BY <2>9 DEF Fail, Fill, Kill, DropLoader, TypeOK
    <3> QED BY <3>1 DEF MergeInv
  <2>10. CASE Truncate(q)
    <3>1. /\ pc[q] = "write" /\ pc'[q] = "fill" /\ disk' = disk /\ loaded' = loaded
      BY <2>10 DEF Truncate, TypeOK
    <3> QED BY <3>1 DEF MergeInv, WrittenInv
  <2>11. CASE Load(q)
    <3>1. /\ pc[q] = "load" /\ pc'[q] = "idle"
          /\ UNCHANGED <<in_progress, loaded>>
      BY <2>11 DEF Load, TypeOK
    <3> QED BY <3>1 DEF MergeInv
  <2> QED BY <2>1, <2>3, <2>4, <2>5, <2>6, <2>7, <2>8, <2>9, <2>10, <2>11 DEF Next, Step
<1> QED BY <1>1, <1>2, TypeCorrect, PTL DEF Spec

\* A compilation that fails could not have done better.
THEOREM ErrorsReal == Spec => ErrorsAreReal
<1>1. TypeOK /\ (\A p \in Process : MergeInv(p)) /\ [Next]_vars
        => [\A p \in Process : Fail(p) => ~Compiles(disk)]_vars
  <2> SUFFICES ASSUME TypeOK, NEW p \in Process, MergeInv(p), Fail(p), Compiles(disk)
               PROVE  FALSE
    OBVIOUS
  <2> DEFINE Q == in_progress[p]
  <2>1. /\ WalkInv(p) /\ MergedInv(p)
        /\ Circular(p) \/ SyntaxError(p) \/ ResolveError(p)
    BY DEF Fail, MergeInv
  <2>2. \A f \in Deps(disk, Current(p)) : f \in Linked(disk)
    BY <2>1, NextFile, LinkedIsRootAndBelow
  <2>3. CASE Circular(p)
    <3>1. PICK f \in ToLoad(p) : f \in InProgress(p)
      BY <2>3 DEF Circular
    <3>2. f \in Below(disk, f) /\ f \in Linked(disk)
      BY <3>1, <2>1, <2>2, NextFile DEF ToLoad, InProgress
    <3> QED BY <3>2 DEF Compiles, Cyclic, Below
  <2>4. CASE SyntaxError(p)
    BY <2>2, <2>4, LinkedIsRootAndBelow DEF SyntaxError, ToLoad, Compiles
  <2>5. CASE ResolveError(p)
    <3>1. loaded[p] \cup {Root} \subseteq Linked(disk)
      BY <2>1, LinkedIsRootAndBelow DEF MergedInv
    <3> QED BY <2>5, <3>1 DEF ResolveError, Compiles, Unresolved
  <2> QED BY <2>1, <2>3, <2>4, <2>5
<1> QED BY <1>1, TypeCorrect, MergeSafe, PTL DEF Spec, ErrorsAreReal

----------------------------------------------------------------------------
(* The cache.                                                              *)

\* The cache was compiled from some disk, and the files that were not edited
\* since are still what they were on it, except that the script may be gone.
CacheInv ==
  /\ newer \ {Root} \subseteq Present(disk)
  /\ cache \notin {NoCache, Torn} =>
       \E d \in Disks :
         /\ Compiles(d)
         /\ cache = Program(d, Linked(d))
         /\ \A f \in File \ newer : disk[f] = d[f] \/ (f = Root /\ disk[f] = Absent)
  /\ \A p \in Process : pc[p] = "load" => ~NeedsRecompile

\* The staleness check is right: a cache that passes it is the program on disk.
LEMMA FreshIsCurrent ==
  ASSUME TypeOK, CacheInv, ~NeedsRecompile, cache # Torn
  PROVE  Compiles(disk) /\ cache = Program(disk, Linked(disk))
<1>1. /\ cache \notin {NoCache, Torn}
      /\ disk[Root] # Absent
      /\ Linked(disk) \cap newer = {}
      /\ Linked(disk) \in SUBSET File
  BY LinkedIsRootAndBelow DEF NeedsRecompile, Below
<1>2. PICK d \in Disks :
        /\ Compiles(d)
        /\ cache = Program(d, Linked(d))
        /\ \A f \in File \ newer : disk[f] = d[f] \/ (f = Root /\ disk[f] = Absent)
  BY <1>1 DEF CacheInv
<1>3. disk \in Disks /\ \A f \in File \ newer : disk[f] = d[f]
  BY <1>1, <1>2 DEF TypeOK, Disks
<1>4. \A f \in Linked(disk) : disk[f] = d[f]
  BY <1>1, <1>3
<1>5. Present(d) \subseteq Present(disk)
  BY <1>1, <1>3 DEF Present, CacheInv
<1>6. Compiles(disk) /\ Linked(disk) = Linked(d)
  BY <1>2, <1>3, <1>4, <1>5, AgreeingDisks
<1>7. Program(d, Linked(d)) = Program(disk, Linked(disk))
  BY <1>4, <1>6 DEF Program
<1> QED BY <1>2, <1>6, <1>7

\* Nothing but the script's own file is ever deleted.  (When an import is
\* deleted the cache stays fresh: no file that is left is newer.)
OnlyScriptRemovable == Removable \subseteq {Root}

LEMMA EditKeepsCacheInv ==
  ASSUME TypeOK, CacheInv, NEW g \in File, NEW x \in Text, Edit(g, x)
  PROVE  CacheInv'
<1>1. /\ disk' = [disk EXCEPT ![g] = x] /\ newer' = newer \cup {g}
      /\ cache' = cache /\ pc' = pc /\ Quiet
      /\ x # Absent
  BY DEF Edit
<1>2. newer' \ {Root} \subseteq Present(disk')
  BY <1>1 DEF CacheInv, Present, TypeOK
<1>3. \A f \in File \ newer' : disk'[f] = disk[f] /\ f \in File \ newer
  BY <1>1 DEF TypeOK
<1>4. \A p \in Process : pc'[p] # "load"
  BY <1>1 DEF Quiet
<1>5. cache' \notin {NoCache, Torn} =>
        \E d \in Disks :
          /\ Compiles(d)
          /\ cache' = Program(d, Linked(d))
          /\ \A f \in File \ newer' : disk'[f] = d[f] \/ (f = Root /\ disk'[f] = Absent)
  <2> SUFFICES ASSUME cache \notin {NoCache, Torn}
               PROVE  \E d \in Disks :
                        /\ Compiles(d)
                        /\ cache = Program(d, Linked(d))
                        /\ \A f \in File \ newer' :
                             disk'[f] = d[f] \/ (f = Root /\ disk'[f] = Absent)
    BY <1>1
  <2> QED BY <1>3 DEF CacheInv
<1> QED BY <1>2, <1>4, <1>5 DEF CacheInv

LEMMA DeleteKeepsCacheInv ==
  ASSUME TypeOK, CacheInv, OnlyScriptRemovable, NEW g \in File, Delete(g)
  PROVE  CacheInv'
<1>1. /\ disk' = [disk EXCEPT ![Root] = Absent] /\ newer' = newer
      /\ cache' = cache /\ pc' = pc /\ Quiet
  BY DEF Delete, OnlyScriptRemovable
<1>2. newer' \ {Root} \subseteq Present(disk')
  BY <1>1 DEF CacheInv, Present, TypeOK
<1>3. disk'[Root] = Absent /\ \A f \in File \ {Root} : disk'[f] = disk[f]
  BY <1>1 DEF TypeOK
<1>4. \A p \in Process : pc'[p] # "load"
  BY <1>1 DEF Quiet
<1>5. cache' \notin {NoCache, Torn} =>
        \E d \in Disks :
          /\ Compiles(d)
          /\ cache' = Program(d, Linked(d))
          /\ \A f \in File \ newer' : disk'[f] = d[f] \/ (f = Root /\ disk'[f] = Absent)
  <2> SUFFICES ASSUME cache \notin {NoCache, Torn}
               PROVE  \E d \in Disks :
                        /\ Compiles(d)
                        /\ cache = Program(d, Linked(d))
                        /\ \A f \in File \ newer :
                             disk'[f] = d[f] \/ (f = Root /\ disk'[f] = Absent)
    BY <1>1
  <2> QED BY <1>3 DEF CacheInv
<1> QED BY <1>2, <1>4, <1>5 DEF CacheInv

LEMMA FillKeepsCacheInv ==
  ASSUME TypeOK, CacheInv, NEW p \in Process, MergeInv(p), Fill(p)
  PROVE  CacheInv'
<1>1. /\ disk' = disk /\ newer' = {} /\ disk \in Disks
      /\ cache' = Program(disk, Linked(disk))
      /\ Compiles(disk)
  BY DEF Fill, MergeInv, WrittenInv, TypeOK, Disks
<1>2. cache' # NoCache
  <2>1. \A f \in Linked(disk) : f \in File /\ disk[f] \in Text
    BY <1>1, LinkedIsRootAndBelow DEF Compiles
  <2>2. Program(disk, Linked(disk)) \in SUBSET (File \X Text)
    BY <2>1 DEF Program
  <2> QED BY <1>1, <2>2, CacheAssumption
<1>3. disk[Root] # Absent
  BY <1>1, LinkedIsRootAndBelow DEF Compiles
<1>4. ~NeedsRecompile'
  BY <1>1, <1>2, <1>3 DEF NeedsRecompile
<1>5. newer' \ {Root} \subseteq Present(disk')
  BY <1>1
<1>6. \E d \in Disks :
        /\ Compiles(d)
        /\ cache' = Program(d, Linked(d))
        /\ \A f \in File \ newer' : disk'[f] = d[f] \/ (f = Root /\ disk'[f] = Absent)
  BY <1>1
<1> QED BY <1>4, <1>5, <1>6 DEF CacheInv

\* The cache invariant: whoever wrote it, an intact cache is a compilation of
\* what the unedited files still hold.
THEOREM CacheSafe == ASSUME OnlyScriptRemovable PROVE Spec => []CacheInv
<1>1. Init => CacheInv
  BY DEF Init, CacheInv
<1>2. TypeOK /\ (\A p \in Process : MergeInv(p)) /\ CacheInv /\ [Next]_vars => CacheInv'
  <2> SUFFICES ASSUME TypeOK, \A p \in Process : MergeInv(p), CacheInv, [Next]_vars
               PROVE  CacheInv'
    OBVIOUS
  <2>1. ASSUME UNCHANGED <<disk, newer, cache>>,
               \A q \in Process : pc'[q] = "load" => pc[q] = "load" \/ ~NeedsRecompile
        PROVE  CacheInv'
    BY <2>1 DEF CacheInv, NeedsRecompile
  <2>2. CASE UNCHANGED vars
    BY <2>1, <2>2 DEF vars
  <2>3. ASSUME NEW f \in File, NEW x \in Text, Edit(f, x) PROVE CacheInv'
    BY <2>3, EditKeepsCacheInv
  <2>4. ASSUME NEW f \in File, Delete(f) PROVE CacheInv'
    BY <2>4, DeleteKeepsCacheInv
  <2>5. CASE ClearCache
    <3>1. /\ cache' = NoCache /\ UNCHANGED <<disk, newer>>
          /\ \A q \in Process : pc'[q] # "load"
      BY <2>5 DEF ClearCache, Quiet
    <3> QED BY <3>1 DEF CacheInv
  <2>6. ASSUME NEW p \in Process, Start(p) PROVE CacheInv'
    BY <2>1, <2>6 DEF Start, TypeOK
  <2>7. ASSUME NEW p \in Process,
               \/ \E f \in File : Enter(p, f)
               \/ Leave(p) \/ Finish(p) \/ Fail(p) \/ Load(p) \/ Kill(p)
        PROVE  CacheInv'
    <3>1. UNCHANGED <<disk, newer, cache>> /\ \A q \in Process : pc'[q] = "load" => pc[q] = "load"
      BY <2>7 DEF Enter, Leave, Finish, Fail, Load, Kill, TypeOK
    <3> QED BY <2>1, <3>1
  <2>8. ASSUME NEW p \in Process, Truncate(p) PROVE CacheInv'
    <3>1. /\ cache' = Torn /\ newer' = {} /\ disk' = disk
          /\ \A q \in Process : pc'[q] = "load" => pc[q] = "load"
      BY <2>8 DEF Truncate, TypeOK
    <3>2. ASSUME NEW q \in Process, pc'[q] = "load" PROVE ~NeedsRecompile'
      BY <3>1, <3>2, CacheAssumption DEF CacheInv, NeedsRecompile
    <3> QED BY <3>1, <3>2 DEF CacheInv
  <2>9. ASSUME NEW p \in Process, Fill(p) PROVE CacheInv'
    BY <2>9, FillKeepsCacheInv
  <2> QED BY <2>2, <2>3, <2>4, <2>5, <2>6, <2>7, <2>8, <2>9 DEF Next, Step
<1> QED BY <1>1, <1>2, TypeCorrect, MergeSafe, PTL DEF Spec

\* What spy loads is torn or the program on disk, for any import graph, any
\* edits between runs, and any number of processes, killed at any point.
THEOREM RunsCurrentSafe == ASSUME OnlyScriptRemovable PROVE Spec => []RunsCurrent
<1>1. TypeOK /\ CacheInv => RunsCurrent
  BY FreshIsCurrent DEF CacheInv, RunsCurrent
<1> QED BY <1>1, TypeCorrect, CacheSafe, PTL

============================================================================
