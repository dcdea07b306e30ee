--------------------------- MODULE SelfUpdateProofs ---------------------------
(***************************************************************************)
(* Proofs about SelfUpdate, for any processes, releases and assets: what   *)
(* is installed is a whole binary, and no marker of an earlier release     *)
(* rolls it back.                                                          *)
(***************************************************************************)
EXTENDS SelfUpdate, WellFoundedInduction, TLAPS

-----------------------------------------------------------------------------
(* The invariant.                                                          *)

Stage(p) == job[p].at
Staging == {"write", "verify", "unpack", "extract", "mark", "marking"}

\* Whoever works on a version runs an older one.
NewerInv == \A p \in Procs : Handling(p) => Older(proc[p].version, job[p].v)

\* A file that tar writes is that of a process that extracts it; there is an
\* asset that is verified.
TarInv ==
  /\ \A v \in Versions : bin[v] \in Procs => Stage(bin[v]) = "extract"
  /\ \A p \in Procs : Stage(p) = "verify" => Asset[job[p].v] # None

\* The Windows side swap: one at a time, by a process that runs from <exe>.old.
SwapInv ==
  \A p \in Procs : Stage(p) = "swap" =>
    /\ fixed.os = "windows" /\ proc[p].image = "old"
    /\ \A q \in Procs : Stage(q) = "swap" => q = p

\* One process stages a version; while it extracts, no other is at work on the
\* version and no marker names it.  The archive that passed is the one
\* extracted, and what is named, about to be named or about to be copied is
\* whole, or was swept.
Whole(v) == bin[v] \in {"good", "none"}

Alone ==
  \A p, q \in Procs :
    (Stage(p) \in Staging /\ Stage(q) \in Staging /\ job[p].v = job[q].v) => p = q

Sound(p) ==
  /\ Stage(p) = "unpack" => part[job[p].v] \in {"good", "none"}
  /\ Stage(p) = "extract" =>
       /\ job[p].data = "good" /\ bin[job[p].v] \in {p, "none"}
       /\ marker # job[p].v /\ ~OthersOn(p, job[p].v)
  /\ Stage(p) \in {"mark", "marking", "copy"} => Whole(job[p].v)
  /\ Stage(p) \in {"rename", "swap"} => job[p].data = "good"
  /\ Stage(p) = "swap" => old = "good"

Named == marker \in Versions => Whole(marker)

StagedInv == Alone /\ (\A p \in Procs : Sound(p)) /\ Named

UpdateInv ==
  TypeOK /\ NewerInv /\ TarInv /\ SwapInv /\ (~overlap => StagedInv) /\ InstalledWhole

-----------------------------------------------------------------------------
(* What a process does next.                                               *)

Hands == {"copy", "rename", "swap", "clear", "write", "verify", "unpack", "extract",
          "mark", "marking"}

Jobs == [at : {"off", "idle", "read", "copy", "rename", "swap", "clear", "fetch", "write",
               "verify", "unpack", "extract", "mark", "marking", "sweep"},
         why : Whys, v : Versions \cup {None}, data : Content]

\* The job j after that of p: p rests, takes a version up, or goes on with it.
Course(p, j) ==
  \/ j.at \notin Hands /\ j.v = None
  \/ /\ Stage(p) = "read" /\ j.at = "copy"
     /\ j.v = marker /\ marker \in Versions /\ Older(proc[p].version, marker)
  \/ Stage(p) = "fetch" /\ j.at = "write" /\ j.v = feed /\ Older(proc[p].version, feed)
  \/ /\ j.v = job[p].v
     /\ \/ Stage(p) = "copy" /\ j.at = "rename"
        \/ Stage(p) = "rename" /\ j.at \in {"clear", "swap"}
        \/ Stage(p) = "swap" /\ j.at = "clear"
        \/ Stage(p) = "write" /\ j.at = "verify"
        \/ Stage(p) = "verify" /\ j.at = "unpack"
        \/ Stage(p) = "unpack" /\ j.at \in {"extract", "mark", "copy"}
        \/ Stage(p) = "extract" /\ j.at \in {"mark", "copy"}
        \/ Stage(p) = "mark" /\ j.at = "marking"

\* p's job becomes j, and no other job changes.
Turns(p, j) ==
  /\ j \in Jobs /\ job' = [job EXCEPT ![p] = j]
  /\ Course(p, j)

LEMMA RestIsJob ==
  /\ Off \in Jobs /\ Idle \in Jobs /\ Off.v = None /\ Idle.v = None
  /\ Off.at = "off" /\ Idle.at = "idle"
  /\ \A why \in Whys : \A at \in {"idle", "read", "fetch"} :
       [Idle EXCEPT !.at = at, !.why = why] \in Jobs
BY DEF Off, Idle, Jobs, Whys, Content

LEMMA JobsTyped ==
  ASSUME TypeOK
  PROVE  /\ job \in [Procs -> Jobs]
         /\ \A p \in Procs : job[p].at \in Hands <=> job[p].v \in Versions
BY DEF TypeOK, Jobs, Hands, Handling

LEMMA AfterApplyRests ==
  ASSUME NEW p \in Procs
  PROVE  AfterApply(p) \in Jobs /\ AfterApply(p).v = None /\ AfterApply(p).at \in {"idle", "fetch"}
<1>1. AfterApply(p) \in {Idle, [Idle EXCEPT !.at = "fetch", !.why = "now"]}
  BY DEF AfterApply
<1> QED
  BY <1>1 DEF Off, Idle, Jobs, Whys, Content

\* p rests, in job j.
LEMMA RestTurns ==
  ASSUME NEW p, NEW j \in Jobs, j.v = None, j.at \notin Hands, job' = [job EXCEPT ![p] = j]
  PROVE  \E k : Turns(p, k)
BY DEF Turns, Course

LEMMA LeaveTurns ==
  ASSUME NEW p \in Procs, NEW ok, Leave(p, ok)
  PROVE  \E j : Turns(p, j) /\ j.at \notin Hands
<1>1. CASE Gone(p)
  BY <1>1, RestIsJob DEF Gone, Turns, Course, Hands
<1>2. CASE Become(p, AfterApply(p))
  BY <1>2, AfterApplyRests DEF Become, Turns, Course, Hands
<1> QED
  BY <1>1, <1>2 DEF Leave

\* p goes on with its version, in job j.
LEMMA OnwardTurns ==
  ASSUME TypeOK, NEW p \in Procs, NEW at, NEW v, NEW data, NEW why,
         job' = [job EXCEPT ![p] = [at |-> at, why |-> why, v |-> v, data |-> data]],
         [at |-> at, why |-> why, v |-> v, data |-> data] \in Jobs,
         Course(p, [at |-> at, why |-> why, v |-> v, data |-> data])
  PROVE  \E j : Turns(p, j)
BY DEF Turns

LEMMA GoTurns ==
  ASSUME TypeOK, NEW p \in Procs, NEW stage, Go(p, stage),
         \/ Stage(p) = "rename" /\ stage \in {"clear", "swap"}
         \/ Stage(p) = "swap" /\ stage = "clear"
         \/ Stage(p) = "write" /\ stage = "verify"
         \/ Stage(p) = "verify" /\ stage = "unpack"
         \/ Stage(p) = "mark" /\ stage = "marking"
         \/ Stage(p) = "idle" /\ stage = "sweep"
  PROVE  \E j : Turns(p, j) /\ j.at = stage /\ j.v = job[p].v /\ j.data = job[p].data
<1> DEFINE j == [job[p] EXCEPT !.at = stage]
<1>1. job[p] \in Jobs /\ (job[p].at \in Hands <=> job[p].v \in Versions)
  BY JobsTyped
<1>2. j \in Jobs /\ j.at = stage /\ j.v = job[p].v /\ j.data = job[p].data
  BY <1>1 DEF Jobs
<1>3. job' = [job EXCEPT ![p] = j]
  BY DEF Go
<1>4. Course(p, j)
  <2>1. CASE Stage(p) = "idle" /\ stage = "sweep"
    BY <1>1, <1>2, <2>1 DEF Course, Hands, Jobs, Stage
  <2>2. CASE Stage(p) # "idle"
    BY <1>2, <2>2 DEF Course
  <2> QED
    BY <2>1, <2>2
<1> QED
  BY <1>2, <1>3, <1>4 DEF Turns

Acts(p) == Step(p) \/ Person(p) \/ Trouble(p)

LEMMA CourseTyped ==
  ASSUME TypeOK, NEW p \in Procs, NEW j, Turns(p, j)
  PROVE  /\ j.at \in Hands <=> j.v \in Versions
         /\ job' \in [Procs -> Jobs] /\ job'[p] = j
         /\ \A q \in Procs \ {p} : job'[q] = job[q]
         /\ \A q \in Procs : Handling(q)' <=> job'[q].v \in Versions
<1>1. /\ job \in [Procs -> Jobs]
      /\ \A q \in Procs : job[q].at \in Hands <=> job[q].v \in Versions
  BY JobsTyped
<1>2. j.at \in Hands <=> j.v \in Versions
  <2>1. CASE j.at \notin Hands /\ j.v = None
    BY <2>1, NoneAssumption
  <2>2. CASE (j.at = "copy" /\ j.v \in Versions) \/ (j.at = "write" /\ j.v = feed)
    BY <2>2 DEF Hands, TypeOK
  <2>3. CASE j.v = job[p].v /\ Stage(p) \in Hands /\ j.at \in Hands
    BY <1>1, <2>3 DEF Stage
  <2> QED
    BY <2>1, <2>2, <2>3 DEF Turns, Course, Hands
<1>3. job' = [job EXCEPT ![p] = j] /\ j \in Jobs
  BY DEF Turns
<1>4. job' \in [Procs -> Jobs] /\ job'[p] = j /\ \A q \in Procs \ {p} : job'[q] = job[q]
  BY <1>1, <1>3
<1>5. \A q \in Procs : job'[q].at \in Hands <=> job'[q].v \in Versions
  BY <1>1, <1>2, <1>4
<1>6. \A q \in Procs : Handling(q)' <=> job'[q].at \in Hands
  BY DEF Handling, Hands
<1> QED
  BY <1>2, <1>4, <1>5, <1>6

\* Once staged, the version is marked or installed.
LEMMA StagedCourse ==
  ASSUME TypeOK, NEW p \in Procs
  PROVE  /\ Staged(p) \in Jobs /\ Staged(p).at \in {"mark", "copy"}
         /\ Staged(p).v = job[p].v
<1>1. job[p] \in Jobs
  BY JobsTyped
<1> QED
  BY <1>1 DEF Staged, Jobs, Whys

LEMMA StepTurns ==
  ASSUME TypeOK, NEW p \in Procs, Step(p)
  PROVE  \E j : Turns(p, j)
<1>1. job[p] \in Jobs /\ (job[p].at \in Hands <=> job[p].v \in Versions)
  BY JobsTyped
<1>2. ASSUME Become(p, Idle) PROVE \E j : Turns(p, j)
  BY <1>2, RestIsJob, RestTurns DEF Become, Hands
<1>3. CASE ReadMarker(p)
  <2>1. CASE \E ok : Leave(p, ok)
    BY <2>1, LeaveTurns
  <2>2. CASE /\ marker \in Versions /\ Older(proc[p].version, marker)
             /\ job' = [job EXCEPT ![p].at = "copy", ![p].v = marker]
    <3> DEFINE j == [job[p] EXCEPT !.at = "copy", !.v = marker]
    <3>1. j \in Jobs /\ j.at = "copy" /\ j.v = marker
      BY <1>1, <2>2 DEF Jobs
    <3>2. job' = [job EXCEPT ![p] = j]
      BY <2>2
    <3>3. Stage(p) = "read"
      BY <1>3 DEF ReadMarker, At, Stage
    <3> HIDE DEF j
    <3> QED
      BY <2>2, <3>1, <3>2, <3>3 DEF Turns, Course
  <2> QED
    BY <1>3, <2>1, <2>2 DEF ReadMarker
<1>4. CASE Copy(p)
  <2>1. CASE \E ok : Leave(p, ok)
    BY <2>1, LeaveTurns
  <2>2. CASE \E data \in Content : job' = [job EXCEPT ![p].at = "rename", ![p].data = data]
    <3>1. PICK data \in Content : job' = [job EXCEPT ![p].at = "rename", ![p].data = data]
      BY <2>2
    <3> DEFINE j == [job[p] EXCEPT !.at = "rename", !.data = data]
    <3>2. j \in Jobs /\ j.at = "rename" /\ j.v = job[p].v
      BY <1>1 DEF Jobs
    <3>3. job' = [job EXCEPT ![p] = j]
      BY <3>1
    <3>4. Stage(p) = "copy"
      BY <1>4 DEF Copy, At, Stage
    <3> HIDE DEF j
    <3> QED
      BY <3>2, <3>3, <3>4 DEF Turns, Course
  <2>3. (IF bin[job[p].v] \in Procs THEN "partial" ELSE bin[job[p].v]) \in Content
    <3>1. job[p].v \in Versions
      BY <1>1, <1>4 DEF Copy, At, Hands
    <3>2. bin[job[p].v] \in Content \cup Procs
      BY <3>1 DEF TypeOK
    <3> QED
      BY <3>2 DEF Content
  <2> QED
    BY <1>4, <2>1, <2>2, <2>3 DEF Copy
<1>5. CASE Rename(p)
  <2>1. CASE \E ok : Leave(p, ok)
    BY <2>1, LeaveTurns
  <2>2. CASE Go(p, "clear") \/ Go(p, "swap")
    BY <1>5, <2>2, GoTurns DEF Rename, At, Stage
  <2> QED
    BY <1>5, <2>1, <2>2 DEF Rename
<1>6. CASE Swap(p)
  BY <1>6, GoTurns DEF Swap, At, Stage
<1>7. CASE ClearMarker(p)
  BY <1>7, LeaveTurns DEF ClearMarker
<1>8. CASE Fetched(p)
  <2>1. CASE Become(p, Idle)
    BY <1>2, <2>1
  <2>2. CASE Wanted(p) /\ job' = [job EXCEPT ![p].at = "write", ![p].v = feed]
    <3> DEFINE j == [job[p] EXCEPT !.at = "write", !.v = feed]
    <3>1. j \in Jobs /\ j.at = "write" /\ j.v = feed
      BY <1>1 DEF Jobs, TypeOK
    <3>2. job' = [job EXCEPT ![p] = j]
      BY <2>2
    <3>3. Stage(p) = "fetch" /\ Older(proc[p].version, feed)
      BY <1>8, <2>2 DEF Fetched, Wanted, At, Stage
    <3> HIDE DEF j
    <3> QED
      BY <3>1, <3>2, <3>3 DEF Turns, Course
  <2> QED
    BY <1>8, <2>1, <2>2 DEF Fetched
<1>9. CASE WritePart(p)
  <2>1. CASE Go(p, "verify")
    BY <1>9, <2>1, GoTurns DEF WritePart, At, Stage
  <2> QED
    BY <1>9, <1>2, <2>1 DEF WritePart
<1>10. CASE Verify(p)
  <2>1. CASE Go(p, "unpack")
    BY <1>10, <2>1, GoTurns DEF Verify, At, Stage
  <2> QED
    BY <1>10, <1>2, <2>1 DEF Verify
<1>11. CASE Unpack(p)
  <2>1. CASE Become(p, Idle)
    BY <1>2, <2>1
  <2>2. CASE job' = [job EXCEPT ![p].at = "extract", ![p].data = part[job[p].v]]
    <3> DEFINE j == [job[p] EXCEPT !.at = "extract", !.data = part[job[p].v]]
    <3>1. Stage(p) = "unpack" /\ job[p].v \in Versions
      BY <1>1, <1>11 DEF Unpack, At, Stage, Hands
    <3>2. j \in Jobs /\ j.at = "extract" /\ j.v = job[p].v
      BY <1>1, <3>1 DEF Jobs, TypeOK
    <3>3. job' = [job EXCEPT ![p] = j]
      BY <2>2
    <3> HIDE DEF j
    <3> QED
      BY <3>1, <3>2, <3>3 DEF Turns, Course
  <2>3. CASE Become(p, Staged(p))
    <3>1. Stage(p) = "unpack"
      BY <1>11 DEF Unpack, At, Stage
    <3> QED
      BY <2>3, <3>1, StagedCourse DEF Turns, Course, Become
  <2> QED
    BY <1>11, <2>1, <2>2, <2>3 DEF Unpack
<1>12. CASE Extracted(p)
  <2>1. CASE Become(p, Idle)
    BY <1>2, <2>1
  <2>2. CASE Become(p, Staged(p))
    <3>1. Stage(p) = "extract"
      BY <1>12 DEF Extracted, At, Stage
    <3> QED
      BY <2>2, <3>1, StagedCourse DEF Turns, Course, Become
  <2>3. Become(p, Idle) \/ Become(p, Staged(p))
    BY <1>12 DEF Extracted
  <2> QED
    BY <2>1, <2>2, <2>3
<1>13. CASE Truncate(p)
  BY <1>13, GoTurns DEF Truncate, At, Stage
<1>14. CASE Mark(p) \/ RemoveLeftovers(p)
  BY <1>14, <1>2 DEF Mark, RemoveLeftovers
<1> QED
  BY <1>3, <1>4, <1>5, <1>6, <1>7, <1>8, <1>9, <1>10, <1>11, <1>12, <1>13, <1>14 DEF Step

LEMMA ActTurns ==
  ASSUME TypeOK, NEW p \in Procs, Acts(p)
  PROVE  \E j : Turns(p, j)
<1>1. CASE Step(p)
  BY <1>1, StepTurns
<1>2. ASSUME NEW at \in {"idle", "read", "fetch"}, NEW why \in Whys,
             Become(p, [Idle EXCEPT !.at = at, !.why = why])
      PROVE  \E j : Turns(p, j)
  <2> DEFINE j == [Idle EXCEPT !.at = at, !.why = why]
  <2>1. j \in Jobs /\ j.v = None /\ j.at \notin Hands
    BY DEF Jobs, Whys, Content, Idle, Off, Hands
  <2>2. job' = [job EXCEPT ![p] = j]
    BY <1>2 DEF Become
  <2> HIDE DEF j
  <2> QED
    BY <2>1, <2>2, RestTurns
<1>3. CASE Launch(p)
  <2> DEFINE j == [Off EXCEPT !.at = "read"]
  <2>1. j \in Jobs /\ j.v = None /\ j.at \notin Hands
    BY DEF Jobs, Whys, Content, Off, Hands
  <2>2. job' = [job EXCEPT ![p] = j]
    BY <1>3 DEF Launch, Become
  <2> HIDE DEF j
  <2> QED
    BY <2>1, <2>2, RestTurns
<1>4. CASE Quit(p) \/ Crash(p)
  BY <1>4, RestIsJob, RestTurns DEF Quit, Crash, Gone, Hands
<1>5. CASE Apply(p)
  <2>1. PICK why \in {"apply", "restart"} : Become(p, [Idle EXCEPT !.at = "read", !.why = why])
    BY <1>5 DEF Apply
  <2> QED
    BY <1>2, <2>1 DEF Whys
<1>6. CASE Tick(p)
  BY <1>2, <1>6 DEF Tick, Whys
<1>7. CASE Check(p)
  BY <1>2, <1>7 DEF Check, Whys
<1>8. CASE UpdateNow(p)
  <2>1. PICK at \in {"fetch", "read"} : Become(p, [Idle EXCEPT !.why = "now", !.at = at])
    BY <1>8 DEF UpdateNow
  <2>2. [Idle EXCEPT !.why = "now", !.at = at] = [Idle EXCEPT !.at = at, !.why = "now"]
    BY DEF Idle, Off
  <2> QED
    BY <1>2, <2>1, <2>2 DEF Whys
<1>9. CASE Status(p)
  <2>1. job' = [job EXCEPT ![p] = job[p]] /\ job[p] \in Jobs /\ job[p].at = "idle"
    BY <1>9, JobsTyped DEF Status, At
  <2>2. job[p].v = None /\ job[p].at \notin Hands
    BY <2>1, JobsTyped DEF Hands, Jobs
  <2> QED
    BY <2>1, <2>2, RestTurns
<1>10. CASE ListLeftovers(p)
  BY <1>10, GoTurns DEF ListLeftovers, At, Stage
<1>11. CASE SwapFails(p)
  BY <1>11, AfterApplyRests, RestTurns DEF SwapFails, Become, Hands
<1>12. CASE RequestFails(p)
  BY <1>12, RestIsJob, RestTurns DEF RequestFails, Become, Hands
<1> QED
  BY <1>1, <1>3, <1>4, <1>5, <1>6, <1>7, <1>8, <1>9, <1>10, <1>11, <1>12 DEF Acts, Person, Trouble

-----------------------------------------------------------------------------
(* Types.                                                                  *)

Owned == \A v \in Versions : bin[v] \in Procs => job[bin[v]].v = v

Images == [version : Versions, image : {"exe", "old"}]

FilesOK ==
  /\ exe \in [version : Versions, holds : Content]
  /\ old \in Content
  /\ part \in [Versions -> Content]
  /\ bin \in [Versions -> Content \cup Procs]
  /\ marker \in {None, Torn} \cup Versions

MindsOK ==
  /\ enabled \in BOOLEAN /\ overlap \in BOOLEAN
  /\ feed \in Versions
  /\ proc \in [Procs -> Images]
  /\ sweep \in [Procs -> SUBSET Versions]
  /\ events \in 0 .. MaxEvents
  /\ fixed \in [os : Systems, policy : Policies, kind : {"raw", "package"}]

LEMMA TypeParts ==
  TypeOK <=> /\ FilesOK /\ MindsOK /\ Owned
             /\ job \in [Procs -> Jobs]
             /\ \A p \in Procs : Handling(p) <=> job[p].v \in Versions
BY DEF TypeOK, FilesOK, MindsOK, Owned, Jobs, Images

\* The version at hand, and the data.
LEMMA AtHand ==
  ASSUME TypeOK, NEW p \in Procs
  PROVE  /\ Stage(p) \in Hands => job[p].v \in Versions
         /\ job[p].data \in Content
         /\ job[p].at = Stage(p)
BY JobsTyped DEF Stage, Jobs

LEMMA GoneTyped ==
  ASSUME TypeOK, NEW p \in Procs, Gone(p)
  PROVE  /\ bin' \in [Versions -> Content \cup Procs]
         /\ proc' \in [Procs -> Images] /\ sweep' \in [Procs -> SUBSET Versions]
<1>1. Base \in Versions /\ FilesOK /\ MindsOK
  BY TypeParts, VersionsAssumption
<1>2. bin' \in [Versions -> Content \cup Procs]
  BY <1>1 DEF Gone, FilesOK, Content
<1>3. [version |-> Base, image |-> "exe"] \in Images
  BY <1>1 DEF Images
<1>4. proc' \in [Procs -> Images] /\ sweep' \in [Procs -> SUBSET Versions]
  BY <1>1, <1>3 DEF Gone, MindsOK
<1> QED
  BY <1>2, <1>4

LEMMA LeaveTyped ==
  ASSUME TypeOK, NEW p \in Procs, NEW ok, Leave(p, ok)
  PROVE  /\ bin' \in [Versions -> Content \cup Procs]
         /\ proc' \in [Procs -> Images] /\ sweep' \in [Procs -> SUBSET Versions]
<1>1. CASE Gone(p)
  BY <1>1, GoneTyped
<1>2. CASE UNCHANGED <<bin, proc, sweep>>
  BY <1>2, TypeParts DEF FilesOK, MindsOK
<1> QED
  BY <1>1, <1>2 DEF Leave

\* The files and the processes after a step keep their types.
LEMMA StepTyped ==
  ASSUME TypeOK, NEW p \in Procs, Step(p)
  PROVE  FilesOK' /\ MindsOK'
<1>1. FilesOK /\ MindsOK
  BY TypeParts
<1>2. /\ Stage(p) \in Hands => job[p].v \in Versions
      /\ job[p].data \in Content
      /\ job[p].at = Stage(p)
  BY AtHand
<1> DEFINE LeftOK == /\ bin' \in [Versions -> Content \cup Procs]
                     /\ proc' \in [Procs -> Images] /\ sweep' \in [Procs -> SUBSET Versions]
<1>3. ASSUME (\E ok : Leave(p, ok)) \/ UNCHANGED <<bin, proc, sweep>>
      PROVE  LeftOK
  BY <1>1, <1>3, LeaveTyped DEF FilesOK, MindsOK
<1>4. CASE ReadMarker(p)
  <2>1. LeftOK /\ marker' \in {marker, None}
    BY <1>4, <1>3 DEF ReadMarker
  <2> QED
    BY <1>1, <1>4, <2>1 DEF ReadMarker, FilesOK, MindsOK, world
<1>5. CASE Copy(p)
  <2>1. LeftOK
    BY <1>5, <1>3 DEF Copy
  <2> QED
    BY <1>1, <1>5, <2>1 DEF Copy, FilesOK, MindsOK, world
<1>6. CASE Rename(p)
  <2>1. job[p].v \in Versions
    BY <1>6, <1>2 DEF Rename, At, Hands
  <2>2. CASE \E ok : Leave(p, ok) /\ UNCHANGED <<exe, old>>
    <3>1. LeftOK
      BY <1>3, <2>2
    <3> QED
      BY <1>1, <1>6, <2>2, <3>1 DEF Rename, FilesOK, MindsOK, world
  <2>3. CASE /\ exe' = [version |-> job[p].v, holds |-> job[p].data]
             /\ UNCHANGED <<old, bin, proc, sweep>>
    BY <1>1, <1>6, <1>2, <2>1, <2>3 DEF Rename, FilesOK, MindsOK, world
  <2>4. CASE /\ old' = exe.holds
             /\ exe' = [exe EXCEPT !.holds = "none"]
             /\ proc' = [q \in Procs |-> IF Running(q) THEN [proc[q] EXCEPT !.image = "old"]
                                                       ELSE proc[q]]
             /\ UNCHANGED <<bin, sweep>>
    <3>1. exe' \in [version : Versions, holds : Content] /\ old' \in Content
      BY <1>1, <2>4 DEF FilesOK, Content
    <3>2. proc' \in [Procs -> Images]
      BY <1>1, <2>4 DEF MindsOK, Images
    <3> QED
      BY <1>1, <1>6, <2>4, <3>1, <3>2 DEF Rename, FilesOK, MindsOK, world
  <2> QED
    BY <1>6, <2>2, <2>3, <2>4 DEF Rename
<1>7. CASE Swap(p)
  <2>1. exe' \in [version : Versions, holds : Content]
    BY <1>7, <1>2 DEF Swap, At, Hands, Stage
  <2> QED
    BY <1>1, <1>7, <2>1 DEF Swap, FilesOK, MindsOK, world
<1>8. CASE ClearMarker(p)
  <2>1. LeftOK
    BY <1>8, <1>3 DEF ClearMarker
  <2> QED
    BY <1>1, <1>8, <2>1 DEF ClearMarker, FilesOK, MindsOK, world
<1>9. CASE Fetched(p)
  <2>1. overlap' \in BOOLEAN
    BY <1>1, <1>9 DEF Fetched, MindsOK
  <2> QED
    BY <1>1, <1>9, <2>1 DEF Fetched, FilesOK, MindsOK, files, world
<1>10. CASE WritePart(p)
  <2>1. part' \in [Versions -> Content]
    BY <1>1, <1>10 DEF WritePart, FilesOK, Content
  <2> QED
    BY <1>1, <1>10, <2>1 DEF WritePart, FilesOK, MindsOK, world
<1>11. CASE Verify(p)
  <2>1. part' \in [Versions -> Content]
    BY <1>1, <1>11 DEF Verify, FilesOK, Content
  <2>2. events' \in 0..MaxEvents
    <3>1. events' = events \/ (events < MaxEvents /\ events' = events + 1)
      BY <1>11 DEF Verify, Event
    <3> QED
      BY <1>1, <3>1, EventsAssumption DEF MindsOK
  <2>3. overlap' \in BOOLEAN
    <3>1. overlap' = overlap \/ overlap' = TRUE
      BY <1>11 DEF Verify
    <3> QED
      BY <1>1, <3>1 DEF MindsOK
  <2> QED
    BY <1>1, <1>11, <2>1, <2>2, <2>3 DEF Verify, FilesOK, MindsOK, world
<1>12. CASE Unpack(p)
  <2>1. part' \in [Versions -> Content] /\ bin' \in [Versions -> Content \cup Procs]
    BY <1>1, <1>12 DEF Unpack, FilesOK, Content
  <2>2. overlap' \in BOOLEAN
    BY <1>1, <1>12 DEF Unpack, MindsOK
  <2> QED
    BY <1>1, <1>12, <2>1, <2>2 DEF Unpack, FilesOK, MindsOK, world
<1>13. CASE Extracted(p)
  <2>1. bin' \in [Versions -> Content \cup Procs]
    BY <1>1, <1>13 DEF Extracted, FilesOK, Content
  <2> QED
    BY <1>1, <1>13, <2>1 DEF Extracted, FilesOK, MindsOK, world
<1>14. CASE Truncate(p) \/ Mark(p)
  <2>1. marker' \in {None, Torn} \cup Versions
    BY <1>14, <1>2 DEF Truncate, Mark, At, Hands, Stage
  <2> QED
    BY <1>1, <1>14, <2>1 DEF Truncate, Mark, FilesOK, MindsOK, world
<1>15. CASE RemoveLeftovers(p)
  <2>1. part' \in [Versions -> Content] /\ bin' \in [Versions -> Content \cup Procs]
    BY <1>1, <1>15 DEF RemoveLeftovers, FilesOK, Content
  <2>2. old' \in Content /\ sweep' \in [Procs -> SUBSET Versions]
    BY <1>1, <1>15 DEF RemoveLeftovers, FilesOK, MindsOK, Content
  <2> QED
    BY <1>1, <1>15, <2>1, <2>2 DEF RemoveLeftovers, FilesOK, MindsOK, world
<1> QED
  BY <1>4, <1>5, <1>6, <1>7, <1>8, <1>9, <1>10, <1>11, <1>12, <1>13, <1>14, <1>15 DEF Step

LEMMA EventTyped ==
  ASSUME MindsOK, Event \/ UNCHANGED events
  PROVE  events' \in 0..MaxEvents
BY EventsAssumption DEF Event, MindsOK

\* ... and after what a person asks for or what goes wrong.
LEMMA OtherTyped ==
  ASSUME TypeOK, NEW p \in Procs, Person(p) \/ Trouble(p)
  PROVE  FilesOK' /\ MindsOK'
<1>1. FilesOK /\ MindsOK
  BY TypeParts
<1>2. events' \in 0..MaxEvents
  <2>1. Event \/ UNCHANGED events
    BY DEF Person, Trouble, Launch, Quit, Apply, Tick, Check, UpdateNow, Status, ListLeftovers,
       Crash, SwapFails, RequestFails
  <2> QED
    BY <1>1, <2>1, EventTyped
<1>3. CASE Launch(p)
  <2>1. proc' \in [Procs -> Images]
    <3>1. [version |-> exe.version, image |-> "exe"] \in Images
      BY <1>1 DEF FilesOK, Images
    <3> QED
      BY <1>1, <1>3, <3>1 DEF Launch, MindsOK
  <2>2. old' \in Content
    BY <1>1, <1>3 DEF Launch, FilesOK, Content
  <2> QED
    BY <1>1, <1>3, <1>2, <2>1, <2>2 DEF Launch, FilesOK, MindsOK, world
<1>4. CASE Quit(p) \/ Crash(p)
  <2>1. /\ bin' \in [Versions -> Content \cup Procs]
        /\ proc' \in [Procs -> Images] /\ sweep' \in [Procs -> SUBSET Versions]
    BY <1>4, GoneTyped DEF Quit, Crash
  <2>2. overlap' \in BOOLEAN
    BY <1>1, <1>4 DEF Quit, Crash, MindsOK
  <2> QED
    BY <1>1, <1>4, <1>2, <2>1, <2>2 DEF Quit, Crash, FilesOK, MindsOK, world
<1>5. CASE Apply(p)
  <2>1. old' \in Content
    BY <1>1, <1>5 DEF Apply, FilesOK, Content
  <2> QED
    BY <1>1, <1>5, <1>2, <2>1 DEF Apply, FilesOK, MindsOK, world
<1>6. CASE Tick(p) \/ Check(p) \/ RequestFails(p)
  BY <1>1, <1>6, <1>2 DEF Tick, Check, RequestFails, FilesOK, MindsOK, files, world
<1>7. CASE UpdateNow(p) \/ Status(p)
  <2>1. marker' \in {marker, None}
    BY <1>7 DEF UpdateNow, Status
  <2> QED
    BY <1>1, <1>7, <1>2, <2>1 DEF UpdateNow, Status, FilesOK, MindsOK, world
<1>8. CASE ListLeftovers(p)
  <2>1. sweep' \in [Procs -> SUBSET Versions]
    BY <1>1, <1>8 DEF ListLeftovers, MindsOK
  <2> QED
    BY <1>1, <1>8, <1>2, <2>1 DEF ListLeftovers, FilesOK, MindsOK, files, world
<1>9. CASE SwapFails(p)
  <2>1. exe' \in [version : Versions, holds : Content] /\ old' \in Content
    BY <1>1, <1>9 DEF SwapFails, FilesOK, Content
  <2>2. proc' \in [Procs -> Images]
    BY <1>1, <1>9 DEF SwapFails, MindsOK, Images
  <2> QED
    BY <1>1, <1>9, <1>2, <2>1, <2>2 DEF SwapFails, FilesOK, MindsOK, world
<1> QED
  BY <1>3, <1>4, <1>5, <1>6, <1>7, <1>8, <1>9 DEF Person, Trouble

-----------------------------------------------------------------------------
(* What a step of p does to the extracted binaries.                        *)

\* The file of v stays, or is swept; p writes it neither before nor after.
Spares(p, v) == bin[v] # p /\ bin'[v] \in {bin[v], "none"}

\* The file p wrote is finished, or p is gone.
Finishes(p, v) ==
  /\ bin[v] = p /\ Stage(p) = "extract" /\ v = job[p].v
  /\ bin'[v] \in Content
  /\ (job'[p].at \in {"mark", "copy"} /\ job[p].data = "good") => bin'[v] = "good"

\* tar starts to write it, or it is a raw binary that is staged as it is.
Opens(p, v) ==
  /\ Stage(p) = "unpack" /\ v = job[p].v
  /\ \/ job'[p].at = "extract" /\ bin'[v] = p
     \/ job'[p].at \in {"mark", "copy"} /\ bin'[v] = part[v]

LEMMA BinMoves ==
  ASSUME TypeOK, TarInv, NEW p \in Procs, Acts(p), NEW v \in Versions
  PROVE  Spares(p, v) \/ Finishes(p, v) \/ Opens(p, v)
<1>1. bin \in [Versions -> Content \cup Procs] /\ job \in [Procs -> Jobs]
  BY TypeParts DEF FilesOK
<1>2. ASSUME bin[v] = p PROVE Stage(p) = "extract" /\ job[p].v = v
  BY <1>2, TypeParts DEF TarInv, Owned
<1>3. CASE UNCHANGED bin /\ Stage(p) # "extract"
  BY <1>2, <1>3 DEF Spares
<1>4. ASSUME Stage(p) # "extract", Gone(p) PROVE Spares(p, v)
  BY <1>1, <1>2, <1>4 DEF Gone, Spares
<1>5. ASSUME Stage(p) # "extract", NEW ok, Leave(p, ok) PROVE Spares(p, v)
  BY <1>2, <1>4, <1>5 DEF Leave, Spares
<1>6. CASE Crash(p) \/ Quit(p)
  <2>1. Gone(p)
    BY <1>6 DEF Crash, Quit
  <2>2. CASE bin[v] = p
    <3>1. bin'[v] = "partial" /\ job'[p].at = "off"
      BY <1>1, <2>1, <2>2 DEF Gone, Off
    <3> QED
      BY <1>2, <2>2, <3>1 DEF Finishes, Content
  <2>3. CASE bin[v] # p
    BY <1>1, <2>1, <2>3 DEF Gone, Spares
  <2> QED
    BY <2>2, <2>3
<1>7. CASE ReadMarker(p) \/ Copy(p) \/ Rename(p) \/ ClearMarker(p)
  <2>1. Stage(p) # "extract"
    BY <1>7 DEF ReadMarker, Copy, Rename, ClearMarker, At, Stage
  <2>2. UNCHANGED bin \/ \E ok : Leave(p, ok)
    BY <1>7 DEF ReadMarker, Copy, Rename, ClearMarker
  <2> QED
    BY <1>3, <1>5, <2>1, <2>2
<1>8. CASE \/ Swap(p) \/ Fetched(p) \/ WritePart(p) \/ Verify(p) \/ Truncate(p) \/ Mark(p)
           \/ Launch(p) \/ Apply(p) \/ Tick(p) \/ Check(p) \/ UpdateNow(p) \/ Status(p)
           \/ ListLeftovers(p) \/ SwapFails(p) \/ RequestFails(p)
  <2>1. Stage(p) # "extract"
    BY <1>8 DEF Swap, Fetched, WritePart, Verify, Truncate, Mark, Launch, Apply, Tick, Check,
       UpdateNow, Status, ListLeftovers, SwapFails, RequestFails, At, Stage
  <2>2. UNCHANGED bin
    BY <1>8 DEF Swap, Fetched, WritePart, Verify, Truncate, Mark, Launch, Apply, Tick, Check,
       UpdateNow, Status, ListLeftovers, SwapFails, RequestFails, files
  <2> QED
    BY <1>3, <2>1, <2>2
<1>9. CASE Unpack(p)
  <2>1. Stage(p) = "unpack"
    BY <1>9 DEF Unpack, At, Stage
  <2>2. CASE UNCHANGED bin
    BY <1>3, <2>1, <2>2
  <2>3. CASE /\ job' = [job EXCEPT ![p].at = "extract", ![p].data = part[job[p].v]]
             /\ bin' = [bin EXCEPT ![job[p].v] = p]
    <3>1. job'[p].at = "extract"
      BY <1>1, <2>3 DEF Jobs
    <3>2. CASE v = job[p].v
      <4>1. bin'[v] = p
        BY <1>1, <2>3, <3>2
      <4> QED
        BY <2>1, <3>1, <3>2, <4>1 DEF Opens
    <3>3. CASE v # job[p].v
      <4>1. bin'[v] = bin[v]
        BY <1>1, <2>3, <3>3
      <4> QED
        BY <1>2, <2>1, <4>1 DEF Spares
    <3> QED
      BY <3>2, <3>3
  <2>4. CASE Become(p, Staged(p)) /\ bin' = [bin EXCEPT ![job[p].v] = part[job[p].v]]
    <3>1. job'[p].at \in {"mark", "copy"}
      BY <1>1, <2>4, StagedCourse DEF Become
    <3>2. CASE v = job[p].v
      <4>1. bin'[v] = part[v]
        BY <1>1, <2>4, <3>2
      <4> QED
        BY <2>1, <3>1, <3>2, <4>1 DEF Opens
    <3>3. CASE v # job[p].v
      <4>1. bin'[v] = bin[v]
        BY <1>1, <2>4, <3>3
      <4> QED
        BY <1>2, <2>1, <4>1 DEF Spares
    <3> QED
      BY <3>2, <3>3
  <2> QED
    BY <1>9, <2>2, <2>3, <2>4 DEF Unpack
<1>10. CASE Extracted(p)
  <2>1. Stage(p) = "extract"
    BY <1>10 DEF Extracted, At, Stage
  <2>2. CASE bin[v] # p
    <3>1. bin'[v] = bin[v]
      BY <1>1, <1>10, <2>2 DEF Extracted
    <3> QED
      BY <2>2, <3>1 DEF Spares
  <2>3. CASE bin[v] = p
    <3>1. job[p].v = v
      BY <1>2, <2>3
    <3>2. CASE job[p].data = "good"
      <4>1. bin'[v] = "good"
        BY <1>1, <1>10, <2>3, <3>1, <3>2 DEF Extracted
      <4> QED
        BY <2>1, <2>3, <3>1, <4>1 DEF Finishes, Content
    <3>3. CASE job[p].data # "good"
      <4>1. bin'[v] \in {"partial", "bad"}
        BY <1>1, <1>10, <2>3, <3>1, <3>3 DEF Extracted
      <4> QED
        BY <2>1, <2>3, <3>1, <3>3, <4>1 DEF Finishes, Content
    <3> QED
      BY <3>2, <3>3
  <2> QED
    BY <2>2, <2>3
<1>11. CASE RemoveLeftovers(p)
  <2>1. Stage(p) # "extract"
    BY <1>11 DEF RemoveLeftovers, At, Stage
  <2>2. bin'[v] \in {bin[v], "none"}
    BY <1>1, <1>11 DEF RemoveLeftovers
  <2> QED
    BY <1>2, <2>1, <2>2 DEF Spares
<1> QED
  BY <1>6, <1>7, <1>8, <1>9, <1>10, <1>11 DEF Acts, Step, Person, Trouble

LEMMA TarKept ==
  ASSUME TypeOK, TarInv, NEW p \in Procs, Acts(p)
  PROVE  TarInv' /\ Owned'
<1>1. PICK j : Turns(p, j)
  BY ActTurns
<1>2. job'[p] = j /\ \A q \in Procs \ {p} : job'[q] = job[q]
  BY <1>1, CourseTyped
<1>3. ASSUME NEW v \in Versions, bin'[v] \in Procs
      PROVE  job'[bin'[v]].v = v /\ job'[bin'[v]].at = "extract"
  <2>1. "none" \notin Procs /\ \A c \in Content : c \notin Procs
    BY ProcsAssumption DEF Content
  <2>2. CASE Spares(p, v)
    <3>1. bin'[v] = bin[v] /\ bin[v] # p
      BY <1>3, <2>1, <2>2 DEF Spares
    <3>2. job'[bin[v]] = job[bin[v]]
      BY <1>2, <1>3, <3>1
    <3>3. job[bin[v]].v = v /\ job[bin[v]].at = "extract"
      BY <1>3, <3>1, TypeParts DEF Owned, TarInv, Stage
    <3> QED
      BY <3>1, <3>2, <3>3
  <2>3. CASE Finishes(p, v)
    BY <1>3, <2>1, <2>3 DEF Finishes
  <2>4. CASE Opens(p, v)
    <3>0. part[v] \in Content
      BY TypeParts DEF FilesOK
    <3>1. Stage(p) = "unpack" /\ bin'[v] = p /\ j.at = "extract" /\ v = job[p].v
      BY <1>2, <1>3, <2>1, <2>4, <3>0 DEF Opens
    <3>2. j.v = job[p].v
      BY <1>1, <3>1 DEF Turns, Course, Hands
    <3> QED
      BY <1>2, <3>1, <3>2
  <2> QED
    BY <2>2, <2>3, <2>4, BinMoves
<1>4. ASSUME NEW q \in Procs, job'[q].at = "verify" PROVE Asset[job'[q].v] # None
  <2>1. CASE q # p
    BY <1>2, <1>4, <2>1 DEF TarInv, Stage
  <2>2. CASE q = p
    <3>1. Stage(p) = "write" /\ j.v = job[p].v
      BY <1>1, <1>2, <1>4, <2>2 DEF Turns, Course, Hands
    <3>2. WritePart(p)
      <4>1. ~RequestFails(p)
        <5>1. ASSUME RequestFails(p) PROVE job'[p] = Idle
          BY <5>1, JobsTyped DEF RequestFails, Become
        <5> QED
          BY <1>4, <2>2, <5>1 DEF Idle, Off
      <4>2. ~Crash(p)
        <5>1. ASSUME Crash(p) PROVE job'[p] = Off
          BY <5>1, JobsTyped DEF Crash, Gone
        <5> QED
          BY <1>4, <2>2, <5>1 DEF Off
      <4>3. job[p].at = "write"
        BY <3>1 DEF Stage
      <4>4. Acts(p) => WritePart(p) \/ RequestFails(p) \/ Crash(p)
        BY <4>3 DEF Acts, Step, Person, Trouble, ReadMarker, Copy, Rename, Swap, ClearMarker, Fetched,
           Verify, Unpack, Extracted, Truncate, Mark, RemoveLeftovers, Launch, Quit, Apply,
           Tick, Check, UpdateNow, Status, ListLeftovers, SwapFails, At
      <4> QED
        BY <4>1, <4>2, <4>4
    <3>3. ASSUME Asset[job[p].v] = None PROVE job'[p] = Idle
      BY <3>2, <3>3, JobsTyped DEF WritePart, Become
    <3> QED
      BY <1>2, <1>4, <2>2, <3>1, <3>3 DEF Idle, Off
  <2> QED
    BY <2>1, <2>2
<1> QED
  BY <1>3, <1>4 DEF TarInv, Owned, Stage

LEMMA ActTyped ==
  ASSUME TypeOK, TarInv, NEW p \in Procs, Acts(p)
  PROVE  TypeOK'
<1>1. PICK j : Turns(p, j)
  BY ActTurns
<1>2. job' \in [Procs -> Jobs] /\ \A q \in Procs : Handling(q)' <=> job'[q].v \in Versions
  BY <1>1, CourseTyped
<1>3. Owned'
  BY TarKept
<1>4. FilesOK' /\ MindsOK'
  BY StepTyped, OtherTyped DEF Acts
<1> QED
  BY <1>2, <1>3, <1>4 DEF TypeOK, FilesOK, MindsOK, Owned, Jobs, Images

-----------------------------------------------------------------------------
(* The code that runs is older than what it works on.                      *)

LEMMA VersionsKept ==
  ASSUME TypeOK, NEW p \in Procs, Acts(p), NEW q \in Procs, q # p \/ Handling(p)'
  PROVE  proc'[q].version = proc[q].version
<1>1. proc \in [Procs -> Images] /\ job \in [Procs -> Jobs]
  BY TypeParts DEF MindsOK
<1>2. CASE UNCHANGED proc
  BY <1>2
<1>3. CASE Gone(p)
  <2>1. job'[p] = Off
    BY <1>1, <1>3 DEF Gone
  <2>2. ~Handling(p)'
    BY <2>1 DEF Handling, Off
  <2> QED
    BY <1>1, <1>3, <2>2 DEF Gone
<1>4. CASE Launch(p)
  <2>1. job'[p] = [Off EXCEPT !.at = "read"]
    BY <1>1, <1>4 DEF Launch, Become
  <2>2. ~Handling(p)'
    BY <2>1 DEF Handling, Off
  <2> QED
    BY <1>1, <1>4, <2>2 DEF Launch
<1>5. CASE /\ Rename(p)
           /\ proc' = [r \in Procs |-> IF Running(r) THEN [proc[r] EXCEPT !.image = "old"]
                                                     ELSE proc[r]]
  BY <1>1, <1>5 DEF Images
<1>6. CASE SwapFails(p)
  BY <1>1, <1>6 DEF SwapFails, Images
<1>7. CASE \E ok : Leave(p, ok)
  BY <1>2, <1>3, <1>7 DEF Leave
<1>8. CASE Rename(p)
  BY <1>2, <1>5, <1>7, <1>8 DEF Rename
<1>9. CASE Step(p)
  BY <1>2, <1>7, <1>8, <1>9 DEF Step, ReadMarker, Copy, Swap, ClearMarker, Fetched, WritePart, Verify,
     Unpack, Extracted, Truncate, Mark, RemoveLeftovers
<1>10. CASE Person(p)
  BY <1>2, <1>3, <1>4, <1>10 DEF Person, Quit, Apply, Tick, Check, UpdateNow, Status, ListLeftovers
<1>11. CASE Trouble(p)
  BY <1>2, <1>3, <1>6, <1>11 DEF Trouble, Crash, RequestFails
<1> QED
  BY <1>9, <1>10, <1>11 DEF Acts

LEMMA NewerKept ==
  ASSUME TypeOK, NewerInv, NEW p \in Procs, Acts(p)
  PROVE  NewerInv'
<1>1. PICK j : Turns(p, j)
  BY ActTurns
<1>2. job'[p] = j /\ \A q \in Procs \ {p} : job'[q] = job[q]
  BY <1>1, CourseTyped
<1> SUFFICES ASSUME NEW q \in Procs, Handling(q)' PROVE Older(proc'[q].version, job'[q].v)
  BY DEF NewerInv
<1>3. CASE q # p
  <2>1. job'[q] = job[q] /\ proc'[q].version = proc[q].version /\ Handling(q)
    BY <1>2, <1>3, VersionsKept DEF Handling
  <2> QED
    BY <2>1 DEF NewerInv
<1>4. CASE q = p
  <2>1. proc'[p].version = proc[p].version
    BY <1>4, VersionsKept
  <2>2. j.at \in Hands
    BY <1>2, <1>4 DEF Handling, Hands
  <2>3. Older(proc[p].version, j.v)
    <3>1. CASE j.v = job[p].v /\ Stage(p) \in Hands
      <4>1. Handling(p)
        BY <3>1 DEF Handling, Hands, Stage
      <4> QED
        BY <3>1, <4>1 DEF NewerInv
    <3>2. CASE Older(proc[p].version, j.v)
      BY <3>2
    <3> QED
      BY <1>1, <2>2, <3>1, <3>2 DEF Turns, Course, Hands
  <2> QED
    BY <1>2, <1>4, <2>1, <2>3
<1> QED
  BY <1>3, <1>4

-----------------------------------------------------------------------------
(* The Windows side swap.                                                  *)

LEMMA SwapperHolds ==
  ASSUME TypeOK, SwapInv, NEW p \in Procs, Stage(p) = "swap"
  PROVE  Held("old")
<1>1. Running(p)
  BY DEF Running, Stage
<1> QED
  BY <1>1 DEF SwapInv, Held

\* The first rename begins the side swap.
SideSwap(p) ==
  /\ Stage(p) = "rename" /\ Held("exe") /\ ~Held("old")
  /\ old' = exe.holds
  /\ exe' = [exe EXCEPT !.holds = "none"]
  /\ proc' = [q \in Procs |-> IF Running(q) THEN [proc[q] EXCEPT !.image = "old"]
                                            ELSE proc[q]]
  /\ Go(p, "swap") /\ UNCHANGED <<bin, marker, part, overlap, fixed>>

LEMMA ToSwap ==
  ASSUME TypeOK, NEW p \in Procs, Acts(p), job'[p].at = "swap"
  PROVE  SideSwap(p)
<1>1. PICK j : Turns(p, j)
  BY ActTurns
<1>2. job'[p] = j
  BY <1>1, CourseTyped
<1>3. Stage(p) = "rename"
  BY <1>1, <1>2 DEF Turns, Course, Hands
<1>4. job[p].at = "rename" /\ job \in [Procs -> Jobs]
  BY <1>3, JobsTyped DEF Stage
<1>5. Rename(p) \/ Crash(p)
  BY <1>4 DEF Acts, Step, Person, Trouble, ReadMarker, Copy, Swap, ClearMarker, Fetched, WritePart,
     Verify, Unpack, Extracted, Truncate, Mark, RemoveLeftovers, Launch, Quit, Apply,
     Tick, Check, UpdateNow, Status, ListLeftovers, SwapFails, RequestFails, At
<1>6. ~Gone(p)
  <2>1. ASSUME Gone(p) PROVE job'[p] = Off
    BY <1>4, <2>1 DEF Gone
  <2> QED
    BY <2>1 DEF Off
<1>7. \A ok : ~Leave(p, ok)
  <2>1. ASSUME Become(p, AfterApply(p)) PROVE job'[p] = AfterApply(p)
    BY <1>4, <2>1 DEF Become
  <2> QED
    BY <1>6, <2>1, AfterApplyRests DEF Leave
<1>8. ~Go(p, "clear")
  <2>1. ASSUME Go(p, "clear") PROVE job'[p].at = "clear"
    BY <1>4, <2>1 DEF Go, Jobs
  <2> QED
    BY <2>1
<1> QED
  BY <1>3, <1>5, <1>6, <1>7, <1>8 DEF Rename, Crash, SideSwap, world

\* Whoever swaps keeps its place in <exe>.old until it is done.
LEMMA ImagesKept ==
  ASSUME TypeOK, SwapInv, NEW p \in Procs, Acts(p), NEW q \in Procs \ {p}, Stage(q) = "swap"
  PROVE  proc'[q].image = "old"
<1>1. proc \in [Procs -> Images] /\ proc[q].image = "old"
  BY TypeParts DEF MindsOK, SwapInv
<1>2. CASE UNCHANGED proc
  BY <1>1, <1>2
<1>3. CASE Gone(p) \/ Launch(p)
  BY <1>1, <1>3 DEF Gone, Launch
<1>4. CASE /\ Rename(p)
           /\ proc' = [r \in Procs |-> IF Running(r) THEN [proc[r] EXCEPT !.image = "old"]
                                                     ELSE proc[r]]
  BY <1>1, <1>4 DEF Images
<1>5. CASE SwapFails(p)
  <2>1. Stage(p) = "swap"
    BY <1>5 DEF SwapFails, At, Stage
  <2> QED
    BY <2>1 DEF SwapInv
<1>6. CASE \E ok : Leave(p, ok)
  BY <1>2, <1>3, <1>6 DEF Leave
<1>7. CASE Rename(p)
  BY <1>2, <1>4, <1>6, <1>7 DEF Rename
<1>8. CASE Step(p)
  BY <1>2, <1>6, <1>7, <1>8 DEF Step, ReadMarker, Copy, Swap, ClearMarker, Fetched, WritePart, Verify,
     Unpack, Extracted, Truncate, Mark, RemoveLeftovers
<1>9. CASE Person(p)
  BY <1>2, <1>3, <1>9 DEF Person, Quit, Apply, Tick, Check, UpdateNow, Status, ListLeftovers
<1>10. CASE Trouble(p)
  BY <1>2, <1>3, <1>5, <1>10 DEF Trouble, Crash, RequestFails
<1> QED
  BY <1>8, <1>9, <1>10 DEF Acts

LEMMA FixedKept ==
  ASSUME NEW p \in Procs, Acts(p)
  PROVE  fixed' = fixed /\ (overlap => overlap')
<1>1. CASE Fetched(p)
  <2>1. fixed' = fixed
    BY <1>1 DEF Fetched, world
  <2>2. overlap' = (overlap \/ OthersOn(p, feed)) \/ overlap' = overlap
    BY <1>1 DEF Fetched
  <2>3. overlap => overlap'
    BY <2>2 DEF OthersOn
  <2> QED
    BY <2>1, <2>3
<1>2. CASE Verify(p)
  BY <1>2 DEF Verify, world
<1>3. CASE Unpack(p)
  <2>1. fixed' = fixed
    BY <1>3 DEF Unpack, world
  <2>2. \/ overlap' = overlap
        \/ overlap' = (overlap \/ marker = job[p].v \/ OthersOn(p, job[p].v))
    BY <1>3 DEF Unpack
  <2>3. overlap => overlap'
    BY <2>2 DEF OthersOn
  <2> QED
    BY <2>1, <2>3
<1>4. CASE Crash(p)
  BY <1>4 DEF Crash, world
<1>5. CASE \/ ReadMarker(p) \/ Copy(p) \/ Rename(p) \/ Swap(p) \/ ClearMarker(p)
           \/ WritePart(p) \/ Extracted(p) \/ Truncate(p) \/ Mark(p) \/ RemoveLeftovers(p)
           \/ Person(p) \/ SwapFails(p) \/ RequestFails(p)
  <2>1. fixed' = fixed /\ overlap' = overlap
    BY <1>5 DEF ReadMarker, Copy, Rename, Swap, ClearMarker, WritePart, Extracted, Truncate, Mark,
       RemoveLeftovers, Person, Launch, Quit, Apply, Tick, Check, UpdateNow, Status,
       ListLeftovers, SwapFails, RequestFails, world
  <2> QED
    BY <2>1
<1> QED
  BY <1>1, <1>2, <1>3, <1>4, <1>5 DEF Acts, Step, Trouble

LEMMA SwapKept ==
  ASSUME TypeOK, SwapInv, NEW p \in Procs, Acts(p)
  PROVE  SwapInv'
<1>1. proc \in [Procs -> Images] /\ fixed' = fixed
  BY TypeParts, FixedKept DEF MindsOK
<1>2. PICK j : Turns(p, j)
  BY ActTurns
<1>3. job'[p] = j /\ \A q \in Procs \ {p} : job'[q] = job[q]
  BY <1>2, CourseTyped
<1>4. ASSUME NEW q \in Procs \ {p}, job'[q].at = "swap"
      PROVE  /\ fixed'.os = "windows" /\ proc'[q].image = "old"
             /\ \A r \in Procs : job'[r].at = "swap" => r = q
  <2>1. Stage(q) = "swap"
    BY <1>3, <1>4 DEF Stage
  <2>2. job'[p].at # "swap"
    BY <2>1, ToSwap, SwapperHolds DEF SideSwap
  <2>3. \A r \in Procs : job'[r].at = "swap" => r = q
    BY <1>3, <2>1, <2>2 DEF SwapInv, Stage
  <2>4. fixed.os = "windows"
    BY <2>1 DEF SwapInv
  <2> QED
    BY <1>1, <2>1, <2>3, <2>4, ImagesKept
<1>5. ASSUME job'[p].at = "swap"
      PROVE  /\ fixed'.os = "windows" /\ proc'[p].image = "old"
             /\ \A r \in Procs : job'[r].at = "swap" => r = p
  <2>1. SideSwap(p)
    BY <1>5, ToSwap
  <2>2. fixed.os = "windows"
    BY <2>1 DEF SideSwap, Held
  <2>3. Running(p)
    BY <2>1 DEF SideSwap, Running, Stage
  <2>4. proc'[p].image = "old"
    BY <1>1, <2>1, <2>3 DEF SideSwap, Images
  <2>5. \A r \in Procs : job'[r].at = "swap" => r = p
    BY <1>4, <1>5
  <2> QED
    BY <1>1, <2>2, <2>4, <2>5
<1> QED
  BY <1>4, <1>5 DEF SwapInv, Stage

-----------------------------------------------------------------------------
(* What is downloaded.                                                     *)

LEMMA LeastNumber ==
  ASSUME NEW I \in SUBSET Nat, I # {}
  PROVE  Min(I) \in I
<1>1. IsWellFoundedOn(OpToRel(<, Nat), Nat)
  BY NatLessThanWellFounded
<1>2. PICK x \in I : \A y \in I : ~ (<<y, x>> \in OpToRel(<, Nat))
  BY <1>1, WFMin
<1>3. \A y \in I : x <= y
  <2>1. ASSUME NEW y \in I, y < x PROVE FALSE
    <3>1. <<y, x>> \in Nat \X Nat /\ <<y, x>>[1] < <<y, x>>[2]
      BY <2>1
    <3>2. <<y, x>> \in OpToRel(<, Nat)
      BY <3>1 DEF OpToRel
    <3> QED
      BY <1>2, <3>2
  <2> QED
    BY <2>1
<1> QED
  BY <1>3 DEF Min

\* What pick_asset picks is no checksum and no signature, wherever the feed
\* lists them.
LEMMA AssetIsNoSidecar ==
  ASSUME NEW v \in Versions, Asset[v] # None
  PROVE  ~is_sidecar_asset(Asset[v].name)
<1> DEFINE Fit(a) == Head(a.name) = "here" /\ ~is_sidecar_asset(a.name)
           I == {i \in 1..Len(Assets[v]) : Fit(Assets[v][i])}
<1>1. Asset[v] = pick_asset(Assets[v])
  BY DEF Asset
<1>2. pick_asset(Assets[v]) = IF (IF I # {} THEN Min(I) ELSE 0) = 0 THEN None
                              ELSE Assets[v][IF I # {} THEN Min(I) ELSE 0]
  BY DEF pick_asset, First, SelectInSeq
<1>3. I # {} /\ Asset[v] = Assets[v][Min(I)]
  BY <1>1, <1>2
<1>4. Min(I) \in I
  <2>1. I \subseteq Nat
    OBVIOUS
  <2> QED
    BY <1>3, <2>1, LeastNumber
<1> QED
  BY <1>3, <1>4

-----------------------------------------------------------------------------
(* What a step of p does to the other files.                               *)

LEMMA PartMoves ==
  ASSUME TypeOK, NEW p \in Procs, Acts(p), NEW v \in Versions
  PROVE  part'[v] \in {part[v], "none"} \/ (Stage(p) \in Staging /\ v = job[p].v)
<1>1. part \in [Versions -> Content]
  BY TypeParts DEF FilesOK
<1>2. CASE UNCHANGED part
  BY <1>2
<1>3. CASE WritePart(p) \/ Verify(p) \/ Unpack(p)
  <2>1. Stage(p) \in Staging
    BY <1>3 DEF WritePart, Verify, Unpack, At, Stage, Staging
  <2>2. v # job[p].v => part'[v] = part[v]
    BY <1>1, <1>3 DEF WritePart, Verify, Unpack
  <2> QED
    BY <2>1, <2>2
<1>4. CASE RemoveLeftovers(p)
  BY <1>4 DEF RemoveLeftovers
<1>5. CASE ~(WritePart(p) \/ Verify(p) \/ Unpack(p) \/ RemoveLeftovers(p))
  <2>1. UNCHANGED part
    BY <1>5 DEF Acts, Step, Person, Trouble, ReadMarker, Copy, Rename, Swap, ClearMarker, Fetched,
       Extracted, Truncate, Mark, Launch, Quit, Apply, Crash, Tick, Check, UpdateNow, Status,
       ListLeftovers, SwapFails, RequestFails, files
  <2> QED
    BY <1>2, <2>1
<1> QED
  BY <1>3, <1>4, <1>5

LEMMA MarkerMoves ==
  ASSUME NEW p \in Procs, Acts(p)
  PROVE  \/ marker' \in {marker, None, Torn}
         \/ Mark(p)
BY DEF Acts, Step, Person, Trouble, ReadMarker, Copy, Rename, Swap, ClearMarker, Fetched,
   WritePart, Verify, Unpack, Extracted, Truncate, RemoveLeftovers, Launch, Quit, Apply, Crash,
   Tick, Check, UpdateNow, Status, ListLeftovers, SwapFails, RequestFails, files

LEMMA OldKept ==
  ASSUME TypeOK, SwapInv, NEW p \in Procs, Acts(p), NEW q \in Procs \ {p}, Stage(q) = "swap"
  PROVE  old' = old
<1>1. Held("old") /\ Stage(p) # "swap"
  BY SwapperHolds DEF SwapInv
<1>2. CASE Launch(p) \/ Apply(p) \/ Rename(p) \/ RemoveLeftovers(p)
  BY <1>1, <1>2 DEF Launch, Apply, Rename, RemoveLeftovers
<1>3. ~SwapFails(p)
  BY <1>1 DEF SwapFails, At, Stage
<1>4. CASE ~(Launch(p) \/ Apply(p) \/ Rename(p) \/ RemoveLeftovers(p))
  BY <1>3, <1>4 DEF Acts, Step, Person, Trouble, ReadMarker, Copy, Swap, ClearMarker, Fetched,
     WritePart, Verify, Unpack, Extracted, Truncate, Mark, Quit, Crash, Tick, Check, UpdateNow,
     Status, ListLeftovers, RequestFails, files
<1> QED
  BY <1>2, <1>4

\* A process that has a version in hand afterwards took one of these steps.
LEMMA Handles ==
  ASSUME TypeOK, NEW p \in Procs, Acts(p), job'[p].at \in Hands
  PROVE  \/ ReadMarker(p) \/ Copy(p) \/ Rename(p) \/ Swap(p) \/ Fetched(p)
         \/ WritePart(p) \/ Verify(p) \/ Unpack(p) \/ Extracted(p) \/ Truncate(p)
<1>1. job \in [Procs -> Jobs]
  BY TypeParts
<1>2. CASE Become(p, Idle) \/ Gone(p) \/ Become(p, AfterApply(p))
  <2>1. job'[p] \in {Idle, Off, AfterApply(p)}
    BY <1>1, <1>2 DEF Become, Gone
  <2>2. job'[p].at \in {"idle", "off", "fetch"}
    BY <2>1, RestIsJob, AfterApplyRests
  <2> QED
    BY <2>2 DEF Hands
<1>3. CASE ClearMarker(p) \/ Mark(p) \/ RemoveLeftovers(p) \/ Quit(p) \/ Crash(p)
           \/ SwapFails(p) \/ RequestFails(p)
  BY <1>2, <1>3 DEF ClearMarker, Mark, RemoveLeftovers, Quit, Crash, SwapFails, RequestFails, Leave
<1>4. CASE Person(p)
  <2>1. Stage(p) \in {"off", "idle"}
    BY <1>4 DEF Person, Launch, Quit, Apply, Tick, Check, UpdateNow, Status, ListLeftovers, At, Stage
  <2>2. PICK j : Turns(p, j)
    BY ActTurns
  <2>3. job'[p] = j
    BY <2>2, CourseTyped
  <2> QED
    BY <2>1, <2>2, <2>3 DEF Turns, Course, Hands
<1> QED
  BY <1>3, <1>4 DEF Acts, Step, Trouble

-----------------------------------------------------------------------------
(* Nobody else is at work on a version that is taken up, or opened.        *)

LEMMA FetchedAlone ==
  ASSUME TypeOK, NEW p \in Procs, Acts(p), job'[p].at = "write", ~overlap'
  PROVE  ~OthersOn(p, feed) /\ job'[p].v = feed
<1>1. job \in [Procs -> Jobs] /\ overlap \in BOOLEAN
  BY TypeParts DEF MindsOK
<1>2. PICK j : Turns(p, j)
  BY ActTurns
<1>3. job'[p] = j
  BY <1>2, CourseTyped
<1>4. Stage(p) = "fetch" /\ j.v = feed
  BY <1>2, <1>3 DEF Turns, Course, Hands
<1>5. Fetched(p)
  BY <1>4, Handles DEF ReadMarker, Copy, Rename, Swap, WritePart, Verify, Unpack,
     Extracted, Truncate, At, Stage, Hands
<1>6. ~Become(p, Idle)
  <2>1. ASSUME Become(p, Idle) PROVE job'[p] = Idle
    BY <1>1, <2>1 DEF Become
  <2> QED
    BY <2>1, RestIsJob
<1>7. overlap' = (overlap \/ OthersOn(p, feed))
  BY <1>5, <1>6 DEF Fetched
<1>8. ~OthersOn(p, feed)
  BY <1>7 DEF OthersOn
<1> QED
  BY <1>3, <1>4, <1>8

LEMMA OpenedAlone ==
  ASSUME TypeOK, NEW p \in Procs, Acts(p), ~overlap',
         \/ job'[p].at = "extract"
         \/ Stage(p) = "unpack" /\ job'[p].at \in {"mark", "copy"}
  PROVE  /\ Stage(p) = "unpack" /\ job'[p].v = job[p].v
         /\ ~OthersOn(p, job[p].v) /\ marker # job[p].v
         /\ part[job[p].v] # "none" /\ marker' = marker
         /\ \/ /\ job'[p].at = "extract" /\ job'[p].data = part[job[p].v]
               /\ bin'[job[p].v] = p
            \/ job'[p].at \in {"mark", "copy"} /\ bin'[job[p].v] = part[job[p].v]
<1>1. job \in [Procs -> Jobs] /\ overlap \in BOOLEAN /\ bin \in [Versions -> Content \cup Procs]
  BY TypeParts DEF MindsOK, FilesOK
<1>2. PICK j : Turns(p, j)
  BY ActTurns
<1>3. job'[p] = j
  BY <1>2, CourseTyped
<1>4. Stage(p) = "unpack" /\ j.v = job[p].v
  BY <1>2, <1>3 DEF Turns, Course, Hands
<1>5. Unpack(p)
  BY <1>4, Handles DEF ReadMarker, Copy, Rename, Swap, WritePart, Verify, Fetched,
     Extracted, Truncate, At, Stage, Hands
<1>6. ~Become(p, Idle)
  <2>1. ASSUME Become(p, Idle) PROVE job'[p] = Idle
    BY <1>1, <2>1 DEF Become
  <2> QED
    BY <2>1, RestIsJob
<1>7. /\ part[job[p].v] # "none"
      /\ \/ /\ job' = [job EXCEPT ![p].at = "extract", ![p].data = part[job[p].v]]
            /\ bin' = [bin EXCEPT ![job[p].v] = p]
         \/ /\ Become(p, Staged(p))
            /\ bin' = [bin EXCEPT ![job[p].v] = part[job[p].v]]
      /\ overlap' = (overlap \/ marker = job[p].v \/ OthersOn(p, job[p].v))
      /\ marker' = marker
  BY <1>5, <1>6 DEF Unpack
<1>8. ~OthersOn(p, job[p].v) /\ marker # job[p].v
  <2>1. ~OthersOn(p, job[p].v)
    BY <1>7 DEF OthersOn
  <2>2. marker # job[p].v
    BY <1>7 DEF OthersOn
  <2> QED
    BY <2>1, <2>2
<1>9. job[p].v \in Versions
  BY <1>4, AtHand DEF Hands
<1>10. CASE /\ job' = [job EXCEPT ![p].at = "extract", ![p].data = part[job[p].v]]
            /\ bin' = [bin EXCEPT ![job[p].v] = p]
  <2>1. job'[p].at = "extract" /\ job'[p].data = part[job[p].v]
    BY <1>1, <1>10 DEF Jobs
  <2>2. bin'[job[p].v] = p
    BY <1>1, <1>9, <1>10
  <2> QED
    BY <1>3, <1>4, <1>7, <1>8, <2>1, <2>2
<1>11. CASE Become(p, Staged(p)) /\ bin' = [bin EXCEPT ![job[p].v] = part[job[p].v]]
  <2>1. job'[p].at \in {"mark", "copy"}
    BY <1>1, <1>11, StagedCourse DEF Become
  <2>2. bin'[job[p].v] = part[job[p].v]
    BY <1>1, <1>9, <1>11
  <2> QED
    BY <1>3, <1>4, <1>7, <1>8, <2>1, <2>2
<1> QED
  BY <1>7, <1>10, <1>11

LEMMA AloneKept ==
  ASSUME TypeOK, Alone, NEW p \in Procs, Acts(p), ~overlap'
  PROVE  Alone'
<1>1. PICK j : Turns(p, j)
  BY ActTurns
<1>2. job'[p] = j /\ \A q \in Procs \ {p} : job'[q] = job[q]
  BY <1>1, CourseTyped
<1>3. ASSUME NEW q \in Procs \ {p}, job'[p].at \in Staging, job'[q].at \in Staging,
             job'[p].v = job'[q].v
      PROVE  FALSE
  <2>1. job[q].at \in Staging /\ job[q].v = j.v
    BY <1>2, <1>3
  <2>2. CASE j.at = "write"
    <3>1. OthersOn(p, feed)
      BY <1>2, <2>1, <2>2, FetchedAlone DEF OthersOn
    <3> QED
      BY <1>2, <2>2, <3>1, FetchedAlone
  <2>3. CASE j.at # "write"
    <3>1. Stage(p) \in Staging /\ job[p].v = j.v
      BY <1>1, <1>2, <1>3, <2>3 DEF Turns, Course, Staging, Hands
    <3> QED
      BY <2>1, <3>1 DEF Alone, Stage
  <2> QED
    BY <2>2, <2>3
<1> QED
  BY <1>2, <1>3 DEF Alone, Stage

\* What a bystander counts on is not disturbed.
LEMMA BystanderSound ==
  ASSUME TypeOK, TarInv, SwapInv, StagedInv, NEW p \in Procs, Acts(p), ~overlap',
         NEW q \in Procs \ {p}
  PROVE  Sound(q)'
<1>1. PICK j : Turns(p, j)
  BY ActTurns
<1>2. job'[p] = j /\ \A r \in Procs \ {p} : job'[r] = job[r]
  BY <1>1, CourseTyped
<1>3. Sound(q) /\ Sound(p) /\ Alone /\ job'[q] = job[q]
  BY <1>2 DEF StagedInv
<1> DEFINE v == job[q].v
<1>4. Stage(q) \in Hands => v \in Versions
  BY AtHand
<1>5. ASSUME job[p].v = v PROVE OthersOn(q, v) /\ OthersOn(p, v)
  BY <1>5 DEF OthersOn
<1>6. ASSUME v \in Versions PROVE ~Opens(p, v)
  <2> SUFFICES ASSUME Opens(p, v) PROVE FALSE
    OBVIOUS
  <2>1. job[p].v = v
    BY DEF Opens
  <2> QED
    BY <1>5, <2>1, OpenedAlone DEF Opens
<1>7. ASSUME Stage(q) = "unpack" PROVE part'[v] \in {"good", "none"}
  <2>1. v \in Versions /\ part[v] \in {"good", "none"}
    BY <1>3, <1>4, <1>7 DEF Hands, Sound
  <2>2. ~(Stage(p) \in Staging /\ v = job[p].v)
    BY <1>3, <1>7 DEF Alone, Staging
  <2> QED
    BY <2>1, <2>2, PartMoves
<1>8. ASSUME Stage(q) = "extract"
      PROVE  /\ job'[q].data = "good" /\ bin'[v] \in {q, "none"}
             /\ marker' # v /\ ~OthersOn(q, v)'
  <2>1. /\ v \in Versions /\ job[q].data = "good" /\ bin[v] \in {q, "none"}
        /\ marker # v /\ ~OthersOn(q, v)
    BY <1>3, <1>4, <1>8 DEF Hands, Sound
  <2>2. job[p].v # v
    BY <1>5, <2>1
  <2>3. bin'[v] \in {q, "none"}
    <3>1. ~Finishes(p, v)
      BY <2>2 DEF Finishes
    <3> QED
      BY <1>6, <2>1, <3>1, BinMoves DEF Spares
  <2>4. marker' # v
    <3>1. ~(Mark(p) /\ marker' = v)
      BY <2>2 DEF Mark
    <3> QED
      BY <2>1, <3>1, MarkerMoves, NoneAssumption
  <2>5. j.v # v
    <3>1. CASE j.v = None
      BY <2>1, <3>1, NoneAssumption
    <3>2. CASE j.at = "write"
      <4>1. j.v = feed /\ ~OthersOn(p, feed)
        BY <1>2, <3>2, FetchedAlone
      <4> QED
        BY <4>1 DEF OthersOn
    <3> QED
      BY <1>1, <2>1, <2>2, <3>1, <3>2 DEF Turns, Course
  <2>6. \A r \in Procs \ {q} : job'[r].v # v
    BY <1>2, <2>1, <2>5 DEF OthersOn
  <2>7. ~(\E r \in Procs \ {q} : job'[r].v = v)
    BY <2>6
  <2> QED
    BY <1>3, <2>1, <2>3, <2>4, <2>7 DEF OthersOn
<1>9. ASSUME Stage(q) \in {"mark", "marking", "copy"} PROVE bin'[v] \in {"good", "none"}
  <2>1. v \in Versions /\ bin[v] \in {"good", "none"}
    BY <1>3, <1>4, <1>9 DEF Hands, Sound, Whole
  <2>2. ~Finishes(p, v)
    <3> SUFFICES ASSUME Finishes(p, v) PROVE FALSE
      OBVIOUS
    <3>1. Stage(p) = "extract" /\ v = job[p].v
      BY DEF Finishes
    <3>2. ~OthersOn(p, v)
      BY <1>3, <3>1 DEF Sound
    <3> QED
      BY <1>5, <3>1, <3>2
  <2> QED
    BY <1>6, <2>1, <2>2, BinMoves DEF Spares
<1>10. ASSUME Stage(q) = "swap" PROVE old' = old
  BY <1>10, OldKept
<1>11. Stage(q)' = Stage(q) /\ job'[q].v = v
  BY <1>3 DEF Stage
<1>12. Stage(q) = "swap" => old' = "good"
  BY <1>3, <1>10 DEF Sound
<1>13. Stage(q) \in {"rename", "swap"} => job'[q].data = "good"
  BY <1>3 DEF Sound
<1>14. Stage(q) = "extract" => ~OthersOn(q, job[q].v)'
  BY <1>8
<1> QED
  BY <1>7, <1>8, <1>9, <1>11, <1>12, <1>13 DEF Sound, Whole, OthersOn

-----------------------------------------------------------------------------
(* What p itself counts on next.                                           *)

\* What passed the check is the asset as it was published.
LEMMA VerifiedGood ==
  ASSUME TypeOK, TarInv, NEW p \in Procs, Acts(p), job'[p].at = "unpack", ~overlap'
  PROVE  part'[job[p].v] \in {"good", "none"} /\ job'[p].v = job[p].v
<1>1. job \in [Procs -> Jobs] /\ part \in [Versions -> Content]
  BY TypeParts DEF FilesOK
<1>2. PICK j : Turns(p, j)
  BY ActTurns
<1>3. job'[p] = j
  BY <1>2, CourseTyped
<1>4. Stage(p) = "verify" /\ j.v = job[p].v
  BY <1>2, <1>3 DEF Turns, Course, Hands
<1>5. Verify(p)
  BY <1>3, <1>4, Handles DEF ReadMarker, Copy, Rename, Swap, WritePart, Fetched, Unpack,
     Extracted, Truncate, At, Stage, Hands
<1>6. ~Become(p, Idle)
  <2>1. ASSUME Become(p, Idle) PROVE job'[p] = Idle
    BY <1>1, <2>1 DEF Become
  <2> QED
    BY <2>1, RestIsJob
<1>7. job[p].v \in Versions /\ Asset[job[p].v] # None
  BY <1>4, AtHand DEF Hands, TarInv
<1>8. ~is_sidecar_asset(Asset[job[p].v].name)
  BY <1>7, AssetIsNoSidecar
<1>9. part' = [part EXCEPT ![job[p].v] = IF @ = "none" THEN "none" ELSE "good"]
  BY <1>5, <1>6, <1>8 DEF Verify
<1> QED
  BY <1>1, <1>3, <1>4, <1>7, <1>9

\* Whoever extracted goes on with a whole binary.
LEMMA ExtractedGood ==
  ASSUME TypeOK, TarInv, NEW p \in Procs, Sound(p), Acts(p), Stage(p) = "extract",
         job'[p].at \in {"mark", "copy"}
  PROVE  bin'[job[p].v] = "good"
<1>1. job \in [Procs -> Jobs] /\ bin \in [Versions -> Content \cup Procs]
  BY TypeParts DEF FilesOK
<1>2. Extracted(p)
  BY Handles DEF ReadMarker, Copy, Rename, Swap, WritePart, Fetched, Unpack,
     Verify, Truncate, At, Stage, Hands
<1>3. ~Become(p, Idle)
  <2>1. ASSUME Become(p, Idle) PROVE job'[p] = Idle
    BY <1>1, <2>1 DEF Become
  <2> QED
    BY <2>1, RestIsJob
<1>4. job[p].data = "good" /\ bin[job[p].v] \in {p, "none"} /\ job[p].v \in Versions
  BY AtHand DEF Sound, Hands
<1>5. bin' = [bin EXCEPT ![job[p].v] = "good"]
  BY <1>2, <1>3, <1>4 DEF Extracted
<1> QED
  BY <1>1, <1>4, <1>5

\* What is copied is whole, and is what will be installed.
LEMMA CopiedGood ==
  ASSUME TypeOK, NEW p \in Procs, Sound(p), Acts(p), job'[p].at = "rename"
  PROVE  job'[p].data = "good"
<1>1. job \in [Procs -> Jobs]
  BY TypeParts
<1>2. PICK j : Turns(p, j)
  BY ActTurns
<1>3. job'[p] = j
  BY <1>2, CourseTyped
<1>4. Stage(p) = "copy"
  BY <1>2, <1>3 DEF Turns, Course, Hands
<1>5. Copy(p)
  BY <1>3, <1>4, Handles DEF ReadMarker, Verify, Rename, Swap, WritePart, Fetched, Unpack,
     Extracted, Truncate, At, Stage, Hands
<1>6. Whole(job[p].v)
  BY <1>4 DEF Sound
<1>7. \A ok : ~Leave(p, ok)
  <2>1. ASSUME Become(p, AfterApply(p)) PROVE job'[p] = AfterApply(p)
    BY <1>1, <2>1 DEF Become
  <2>2. ASSUME Gone(p) PROVE job'[p] = Off
    BY <1>1, <2>2 DEF Gone
  <2> QED
    BY <2>1, <2>2, RestIsJob, AfterApplyRests DEF Leave
<1>8. /\ bin[job[p].v] # "none"
      /\ job' = [job EXCEPT ![p].at = "rename",
                   ![p].data = IF bin[job[p].v] \in Procs THEN "partial" ELSE bin[job[p].v]]
  BY <1>5, <1>7 DEF Copy
<1>9. bin[job[p].v] = "good" /\ bin[job[p].v] \notin Procs
  BY <1>6, <1>8, ProcsAssumption DEF Whole, Content
<1> QED
  BY <1>1, <1>8, <1>9 DEF Jobs

LEMMA OwnSound ==
  ASSUME TypeOK, TarInv, SwapInv, StagedInv, InstalledWhole, ~overlap,
         NEW p \in Procs, Acts(p), ~overlap'
  PROVE  Sound(p)'
<1>1. job \in [Procs -> Jobs] /\ bin \in [Versions -> Content \cup Procs]
  BY TypeParts DEF FilesOK
<1>2. PICK j : Turns(p, j)
  BY ActTurns
<1>3. job'[p] = j /\ \A r \in Procs \ {p} : job'[r] = job[r]
  BY <1>2, CourseTyped
<1>4. Sound(p) /\ Named
  BY DEF StagedInv
<1>5. ASSUME j.at = "unpack" PROVE part'[j.v] \in {"good", "none"}
  BY <1>3, <1>5, VerifiedGood
<1>6. ASSUME j.at = "extract"
      PROVE  /\ j.data = "good" /\ bin'[j.v] = p /\ marker' # j.v
             /\ ~(\E r \in Procs \ {p} : job'[r].v = j.v)
  <2>1. /\ Stage(p) = "unpack" /\ j.v = job[p].v
        /\ ~OthersOn(p, job[p].v) /\ marker # job[p].v
        /\ j.data = part[job[p].v] /\ part[job[p].v] # "none"
        /\ bin'[job[p].v] = p /\ marker' = marker
    BY <1>3, <1>6, OpenedAlone
  <2>2. j.data = "good"
    BY <1>4, <2>1 DEF Sound
  <2>3. ~(\E r \in Procs \ {p} : job'[r].v = j.v)
    BY <1>3, <2>1 DEF OthersOn
  <2> QED
    BY <2>1, <2>2, <2>3
<1>7. ASSUME j.at \in {"mark", "marking", "copy"} PROVE bin'[j.v] \in {"good", "none"}
  <2>1. CASE Stage(p) = "extract"
    <3>1. j.v = job[p].v /\ j.at \in {"mark", "copy"}
      BY <1>2, <1>7, <2>1 DEF Turns, Course, Hands
    <3> QED
      BY <1>3, <1>4, <2>1, <3>1, ExtractedGood
  <2>2. CASE Stage(p) = "mark" /\ j.at = "marking"
    <3>1. j.v = job[p].v
      BY <1>2, <2>2 DEF Turns, Course, Hands
    <3>2. Truncate(p)
      BY <1>3, <2>2, Handles DEF ReadMarker, Verify, Rename, Swap, WritePart, Fetched, Unpack,
         Extracted, Copy, At, Stage, Hands
    <3>3. bin' = bin /\ Whole(job[p].v)
      BY <1>4, <2>2, <3>2 DEF Truncate, Sound
    <3> QED
      BY <3>1, <3>3 DEF Whole
  <2>3. CASE Stage(p) = "read" /\ j.at = "copy"
    <3>1. j.v = marker /\ marker \in Versions
      BY <1>2, <2>3 DEF Turns, Course, Hands
    <3>2. Spares(p, marker)
      BY <2>3, <3>1, BinMoves DEF Finishes, Opens
    <3> QED
      BY <1>4, <3>1, <3>2 DEF Named, Whole, Spares
  <2>4. CASE Stage(p) = "unpack" /\ j.at \in {"mark", "copy"}
    <3>1. /\ j.v = job[p].v /\ part[job[p].v] # "none"
          /\ bin'[job[p].v] = part[job[p].v]
      BY <1>3, <2>4, OpenedAlone
    <3> QED
      BY <1>4, <2>4, <3>1 DEF Sound
  <2> QED
    BY <1>2, <1>7, <2>1, <2>2, <2>3, <2>4 DEF Turns, Course, Hands
<1>8. ASSUME j.at = "rename" PROVE j.data = "good"
  BY <1>3, <1>4, <1>8, CopiedGood
<1>9. ASSUME j.at = "swap" PROVE j.data = "good" /\ old' = "good"
  <2>1. SideSwap(p)
    BY <1>3, <1>9, ToSwap
  <2>2. j.data = job[p].data
    BY <1>1, <1>3, <2>1 DEF SideSwap, Go, Jobs
  <2>3. job[p].data = "good"
    BY <1>4, <2>1 DEF Sound, SideSwap
  <2>4. ~(\E q \in Procs : At(q, "swap"))
    BY <2>1, SwapperHolds DEF SideSwap, At, Stage
  <2>5. exe.holds = "good"
    BY <2>4 DEF InstalledWhole
  <2> QED
    BY <2>1, <2>2, <2>3, <2>5 DEF SideSwap
<1>10. Stage(p)' = j.at /\ job'[p].v = j.v /\ job'[p].data = j.data
  BY <1>3 DEF Stage
<1> QED
  BY <1>5, <1>6, <1>7, <1>8, <1>9, <1>10 DEF Sound, Whole, OthersOn

LEMMA NamedKept ==
  ASSUME TypeOK, TarInv, StagedInv, NEW p \in Procs, Acts(p), ~overlap'
  PROVE  Named'
<1>1. bin \in [Versions -> Content \cup Procs] /\ Sound(p) /\ Named
  BY TypeParts DEF FilesOK, StagedInv
<1> SUFFICES ASSUME marker' \in Versions PROVE bin'[marker'] \in {"good", "none"}
  BY DEF Named, Whole
<1>2. CASE marker' = marker
  <2>1. Whole(marker) /\ marker \in Versions
    BY <1>1, <1>2 DEF Named
  <2>2. ~Finishes(p, marker)
    BY <1>1 DEF Finishes, Sound
  <2>3. ~Opens(p, marker)
    BY OpenedAlone DEF Opens
  <2>4. Spares(p, marker)
    BY <2>1, <2>2, <2>3, BinMoves
  <2> QED
    BY <1>2, <2>1, <2>4 DEF Spares, Whole
<1>3. CASE Mark(p)
  <2>1. marker' = job[p].v /\ bin' = bin /\ Stage(p) = "marking"
    BY <1>3 DEF Mark, At, Stage
  <2> QED
    BY <1>1, <2>1 DEF Sound, Whole
<1> QED
  BY <1>2, <1>3, MarkerMoves, NoneAssumption

-----------------------------------------------------------------------------
(* What is installed.                                                      *)

LEMMA ExeMoves ==
  ASSUME TypeOK, NEW p \in Procs, Acts(p)
  PROVE  \/ exe' = exe /\ (Stage(p) = "swap" => overlap')
         \/ /\ Stage(p) \in {"rename", "swap"}
            /\ exe' = [version |-> job[p].v, holds |-> job[p].data]
         \/ SideSwap(p)
         \/ Stage(p) = "swap" /\ exe' = [exe EXCEPT !.holds = old]
<1>1. CASE Rename(p)
  <2>1. Stage(p) = "rename"
    BY <1>1 DEF Rename, At, Stage
  <2> QED
    BY <1>1, <2>1 DEF Rename, SideSwap, world
<1>2. CASE Swap(p) \/ SwapFails(p)
  BY <1>2 DEF Swap, SwapFails, At, Stage
<1>3. CASE Crash(p)
  BY <1>3 DEF Crash, At, Stage
<1>4. CASE ~(Rename(p) \/ Swap(p) \/ SwapFails(p) \/ Crash(p))
  <2>1. exe' = exe
    BY <1>4 DEF Acts, Step, Person, Trouble, ReadMarker, Copy, ClearMarker, Fetched,
       WritePart, Verify, Unpack, Extracted, Truncate, Mark, RemoveLeftovers, Launch, Quit, Apply,
       Tick, Check, UpdateNow, Status, ListLeftovers, RequestFails, files
  <2>2. Stage(p) # "swap"
    BY <1>4 DEF Acts, Step, Person, Trouble, ReadMarker, Copy, ClearMarker, Fetched,
       WritePart, Verify, Unpack, Extracted, Truncate, Mark, RemoveLeftovers, Launch, Quit, Apply,
       Tick, Check, UpdateNow, Status, ListLeftovers, RequestFails, At, Stage
  <2> QED
    BY <2>1, <2>2
<1> QED
  BY <1>1, <1>2, <1>3, <1>4

LEMMA InstalledKept ==
  ASSUME TypeOK, SwapInv, StagedInv, InstalledWhole, ~overlap, NEW p \in Procs, Acts(p), ~overlap'
  PROVE  InstalledWhole'
<1>1. /\ job \in [Procs -> Jobs] /\ exe \in [version : Versions, holds : Content]
      /\ Sound(p)
  BY TypeParts DEF FilesOK, StagedInv
<1>2. PICK j : Turns(p, j)
  BY ActTurns
<1>3. job'[p] = j /\ \A r \in Procs \ {p} : job'[r] = job[r]
  BY <1>2, CourseTyped
<1>4. CASE exe' = exe /\ Stage(p) # "swap"
  <2>1. CASE exe.holds = "good"
    BY <1>4, <2>1 DEF InstalledWhole
  <2>2. CASE \E q \in Procs : At(q, "swap")
    <3>1. PICK q \in Procs \ {p} : job[q].at = "swap"
      BY <1>4, <2>2 DEF At, Stage
    <3>2. job'[q].at = "swap"
      BY <1>3, <3>1
    <3> QED
      BY <3>2 DEF InstalledWhole, At
  <2> QED
    BY <2>1, <2>2 DEF InstalledWhole
<1>5. CASE Stage(p) \in {"rename", "swap"} /\ exe' = [version |-> job[p].v, holds |-> job[p].data]
  BY <1>1, <1>5 DEF Sound, InstalledWhole
<1>6. CASE SideSwap(p)
  <2>1. job'[p].at = "swap"
    BY <1>1, <1>6 DEF SideSwap, Go, Jobs
  <2> QED
    BY <2>1 DEF InstalledWhole, At
<1>7. CASE Stage(p) = "swap" /\ exe' = [exe EXCEPT !.holds = old]
  BY <1>1, <1>7 DEF Sound, InstalledWhole
<1> QED
  BY <1>4, <1>5, <1>6, <1>7, ExeMoves

-----------------------------------------------------------------------------
(* The invariant holds.                                                    *)

LEMMA UpdateStarts == Init => UpdateInv
<1> SUFFICES ASSUME Init PROVE UpdateInv
  OBVIOUS
<1>1. /\ job = [p \in Procs |-> Off] /\ marker = None /\ bin = [v \in Versions |-> "none"]
      /\ exe.holds = "good"
  BY DEF Init
<1>2. \A p \in Procs : job[p].at = "off" /\ job[p].v = None
  BY <1>1 DEF Off
<1>3. "none" \notin Procs /\ None \notin Versions /\ Base \in Versions
  BY ProcsAssumption, NoneAssumption, VersionsAssumption DEF Content
<1>4. TypeOK
  <2>1. FilesOK
    BY <1>3 DEF Init, FilesOK, Content
  <2>2. MindsOK
    <3>1. enabled \in BOOLEAN /\ overlap \in BOOLEAN /\ feed \in Versions
      BY <1>3 DEF Init
    <3>2. [version |-> Base, image |-> "exe"] \in Images
      BY <1>3 DEF Images
    <3>3. proc \in [Procs -> Images] /\ sweep \in [Procs -> SUBSET Versions]
      BY <3>2 DEF Init
    <3>4. events \in 0..MaxEvents
      BY EventsAssumption DEF Init
    <3>5. fixed \in [os : Systems, policy : Policies, kind : {"raw", "package"}]
      BY DEF Init
    <3> QED
      BY <3>1, <3>3, <3>4, <3>5 DEF MindsOK
  <2>3. Owned
    BY <1>1, <1>3 DEF Owned
  <2>4. job \in [Procs -> Jobs]
    BY <1>1, RestIsJob
  <2>5. \A p \in Procs : Handling(p) <=> job[p].v \in Versions
    BY <1>2, <1>3 DEF Handling
  <2> QED
    BY <2>1, <2>2, <2>3, <2>4, <2>5, TypeParts
<1>5. NewerInv
  BY <1>2 DEF NewerInv, Handling
<1>6. TarInv
  BY <1>1, <1>2, <1>3 DEF TarInv, Stage
<1>7. SwapInv
  BY <1>2 DEF SwapInv, Stage
<1>8. StagedInv
  BY <1>1, <1>2, <1>3 DEF StagedInv, Alone, Sound, Named, Stage, Staging
<1>9. InstalledWhole
  BY <1>1 DEF InstalledWhole
<1> QED
  BY <1>4, <1>5, <1>6, <1>7, <1>8, <1>9 DEF UpdateInv

\* A release, or a change of mind, touches none of it.
LEMMA WorldMoves ==
  ASSUME UpdateInv, set_enabled \/ Publish
  PROVE  UpdateInv'
<1>1. UNCHANGED <<exe, old, part, bin, marker, proc, job, sweep, fixed, overlap>>
  BY DEF set_enabled, Publish, files
<1>2. enabled' \in BOOLEAN /\ feed' \in Versions /\ events' \in 0..MaxEvents
  <2>1. MindsOK
    BY TypeParts DEF UpdateInv
  <2>2. events' \in 0..MaxEvents
    <3>1. Event \/ UNCHANGED events
      BY DEF set_enabled, Publish
    <3> QED
      BY <2>1, <3>1, EventTyped
  <2> QED
    BY <2>1, <2>2 DEF set_enabled, Publish, MindsOK
<1>3. TypeOK'
  <2>1. FilesOK /\ MindsOK /\ Owned
    BY TypeParts DEF UpdateInv
  <2>2. FilesOK' /\ Owned'
    BY <1>1, <2>1 DEF FilesOK, Owned
  <2>3. MindsOK'
    BY <1>1, <1>2, <2>1 DEF MindsOK
  <2>4. /\ job' \in [Procs -> Jobs]
        /\ \A p \in Procs : Handling(p)' <=> job'[p].v \in Versions
    BY <1>1, TypeParts DEF UpdateInv, Handling
  <2> QED
    BY <2>2, <2>3, <2>4 DEF TypeOK, FilesOK, MindsOK, Owned, Jobs, Images
<1>4. NewerInv' /\ TarInv' /\ SwapInv'
  BY <1>1 DEF UpdateInv, NewerInv, TarInv, SwapInv, Handling, Stage
<1>5. (~overlap => StagedInv)'
  BY <1>1 DEF UpdateInv, StagedInv, Alone, Sound, Named, Whole, OthersOn, Stage
<1>6. InstalledWhole'
  BY <1>1 DEF UpdateInv, InstalledWhole, At
<1> QED
  BY <1>3, <1>4, <1>5, <1>6 DEF UpdateInv

LEMMA UpdateGoesOn == UpdateInv /\ [Next]_vars => UpdateInv'
<1> SUFFICES ASSUME UpdateInv, [Next]_vars PROVE UpdateInv'
  OBVIOUS
<1>1. ASSUME NEW p \in Procs, Acts(p) PROVE UpdateInv'
  <2>1. TypeOK /\ NewerInv /\ TarInv /\ SwapInv /\ (~overlap => StagedInv) /\ InstalledWhole
    BY DEF UpdateInv
  <2>2. TypeOK' /\ NewerInv' /\ TarInv' /\ SwapInv'
    BY <1>1, <2>1, ActTyped, NewerKept, TarKept, SwapKept
  <2>3. CASE overlap'
    BY <2>2, <2>3 DEF UpdateInv, InstalledWhole
  <2>4. CASE ~overlap'
    <3>1. ~overlap /\ StagedInv
      BY <1>1, <2>1, <2>4, FixedKept
    <3>2. Alone' /\ Named'
      BY <1>1, <2>1, <2>4, <3>1, AloneKept, NamedKept DEF StagedInv
    <3>3. \A q \in Procs : Sound(q)'
      BY <1>1, <2>1, <2>4, <3>1, BystanderSound, OwnSound
    <3>4. InstalledWhole'
      BY <1>1, <2>1, <2>4, <3>1, InstalledKept
    <3> QED
      BY <2>2, <3>2, <3>3, <3>4 DEF UpdateInv, StagedInv
  <2> QED
    BY <2>3, <2>4
<1>2. CASE set_enabled \/ Publish
  BY <1>2, WorldMoves
<1>3. CASE UNCHANGED vars
  BY <1>3 DEF vars, UpdateInv, TypeOK, NewerInv, TarInv, SwapInv, StagedInv, Alone, Sound, Named,
     Whole, OthersOn, Stage, Handling, InstalledWhole, At
<1> QED
  BY <1>1, <1>2, <1>3 DEF Next, Acts

LEMMA UpdateHolds == Spec => []UpdateInv
<1>1. Init => UpdateInv
  BY UpdateStarts
<1>2. UpdateInv /\ [Next]_vars => UpdateInv'
  BY UpdateGoesOn
<1> QED
  BY <1>1, <1>2, PTL DEF Spec

-----------------------------------------------------------------------------
(* The theorems.                                                           *)

\* The files, the processes and their jobs keep their types; the version a
\* process works on is one of the releases.
THEOREM TypeCorrect == Spec => []TypeOK
BY UpdateHolds, PTL DEF UpdateInv

\* What is installed is a whole binary, whoever crashes, whatever download is
\* damaged and however many processes update at once, as long as nobody
\* unpacks over a version that is staged: the checksum, the wipe before tar
\* and the copy before the rename are enough.
THEOREM BinaryWhole == Spec => []InstalledWhole
BY UpdateHolds, PTL DEF UpdateInv

LEMMA OlderIsTransitive ==
  ASSUME NEW a \in Versions, NEW b \in Versions, NEW c \in Versions, Older(a, b), Older(b, c)
  PROVE  Older(a, c)
<1>1. \A v \in {a, b, c} : v[1] \in Nat /\ v[2] \in Nat /\ v[3] \in Nat
  BY VersionsAssumption
<1> QED
  BY <1>1 DEF Older

\* apply_pending never rolls the installed binary back for the sake of a
\* marker: whoever replaces it by an older one runs code older still.
THEOREM NoRollback == Spec => NoStaleRollback
<1>1. ASSUME UpdateInv, [Next]_vars, Older(exe'.version, exe.version)
      PROVE  \E p \in Procs : Rollback(p)
  <2>1. TypeOK /\ NewerInv /\ FilesOK /\ MindsOK
    BY <1>1, TypeParts DEF UpdateInv
  <2>2. ASSUME exe'.version = exe.version PROVE FALSE
    <3>1. exe.version[1] \in Nat /\ exe.version[2] \in Nat /\ exe.version[3] \in Nat
      BY <2>1, VersionsAssumption DEF FilesOK
    <3> QED
      BY <1>1, <2>2, <3>1 DEF Older
  <2>3. PICK p \in Procs : Acts(p)
    <3>1. exe' # exe
      BY <2>2
    <3> QED
      BY <1>1, <3>1 DEF Next, Acts, set_enabled, Publish, vars, files
  <2>4. Stage(p) \in {"rename", "swap"} /\ exe'.version = job[p].v
    <3>1. ~SideSwap(p)
      BY <2>1, <2>2 DEF SideSwap, FilesOK
    <3>2. exe' # [exe EXCEPT !.holds = old]
      BY <2>1, <2>2 DEF FilesOK
    <3> QED
      BY <2>1, <2>2, <2>3, <3>1, <3>2, ExeMoves
  <2>5. Older(proc[p].version, job[p].v)
    BY <2>1, <2>4 DEF NewerInv, Handling, Stage
  <2>6. proc[p].version \in Versions /\ job[p].v \in Versions /\ exe.version \in Versions
    BY <2>1, <2>4, AtHand DEF MindsOK, Images, FilesOK, Hands
  <2>7. Older(proc[p].version, exe.version)
    BY <1>1, <2>4, <2>5, <2>6, OlderIsTransitive
  <2> QED
    BY <2>4, <2>7 DEF Rollback, Stage
<1>2. UpdateInv /\ [Next]_vars =>
        [Older(exe'.version, exe.version) => \E p \in Procs : Rollback(p)]_vars
  BY <1>1
<1> QED
  BY <1>2, UpdateHolds, PTL DEF Spec, NoStaleRollback
=============================================================================
