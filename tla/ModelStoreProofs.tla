-------------------------- MODULE ModelStoreProofs --------------------------
(***************************************************************************)
(* Proofs about OnnxRuntime, for any number of processes, requests and     *)
(* releases: the engine that a setup loads is the pinned one, and an       *)
(* engine that is ready stays so.  And about ModelStore, for any models,   *)
(* tasks and lists to pull: a model that one task at a time works on never *)
(* has a torn file under its final name.                                   *)
(*                                                                         *)
(* The invariant of the second, StoreInv, says what the one task of a      *)
(* model knows of the file it streams.  A step of a task is described by   *)
(* Local (what it leaves of the files and of the other tasks) and Becomes  *)
(* (what it is afterwards); WorkStep draws the invariant from the two.     *)
(***************************************************************************)
EXTENDS ModelStore, OnnxRuntime, TLAPS

-----------------------------------------------------------------------------
(* Types.                                                                  *)

Stages == {"idle", "waiting", "load", "loading"} \cup Fetching
Thread == [at : Stages, job : {"setup", "start", "fetch"}, lib : File \cup {NoFile, Foreign}]
Program == [up : BOOLEAN, serves : BOOLEAN, want : Releases, status : {"unset", "failed", "ready"},
            lock : {t[2] : t \in Threads} \cup {"free"}]
Dir == [target : File \cup {NoFile}, partial : File \cup {NoFile},
        archive : SUBSET Programs, stamp : Releases \cup {0}]

\* Threads are pairs of a process and a name, which is never that of a free
\* lock.
LEMMA ThreadShape ==
  ASSUME NEW t \in Threads
  PROVE  /\ t = <<Of(t), t[2]>> /\ Of(t) \in Programs /\ t[2] # "free"
         /\ t[2] \in {u[2] : u \in Threads} \cup {"free"}
         /\ <<Of(t), Main>> \in Threads
  BY RequestsAssumption DEF Threads, Programs, Of, Main

\* What a process leaves of a file is a file, and of one it does not write it
\* is the file as it was.
LEMMA LeftFile ==
  ASSUME NEW p \in Programs, NEW f \in File \cup {NoFile}, NEW g \in Left(p, f)
  PROVE  /\ g \in File \cup {NoFile}
         /\ p \notin f.by => g = f
<1>1. CASE p \notin f.by
  BY <1>1 DEF Left
<1>2. CASE p \in f.by
  <2>1. f \in File
    BY <1>2 DEF NoFile
  <2>2. PICK torn \in {TRUE, f.torn} : g = [f EXCEPT !.by = @ \ {p}, !.torn = torn]
    BY <1>2 DEF Left
  <2> QED
    BY <1>2, <2>1, <2>2 DEF File
<1> QED
  BY <1>1, <1>2

LEMMA EngineInitTypes == EngineInit => EngineTypeOK
<1> SUFFICES ASSUME EngineInit PROVE EngineTypeOK
  OBVIOUS
<1>1. program \in [Programs -> Program]
  BY ReleasesAssumption DEF EngineInit, Program, Down
<1>2. thread \in [Threads -> Thread]
  BY DEF EngineInit, Thread, Stages, Resting, Fetching
<1>3. dir \in Dir
  BY DEF EngineInit, Dir
<1>4. release \in Releases /\ changes \in 0..MaxChanges
  BY ReleasesAssumption DEF EngineInit
<1>5. elsewhere \in {"none", "before", "after"} /\ upset \in BOOLEAN
  BY DEF EngineInit
<1> QED
  BY <1>1, <1>2, <1>3, <1>4, <1>5 DEF EngineTypeOK, Program, Thread, Stages, Dir

\* What a thread does once it has the lock: where it may be, and what that
\* leaves of the rest.
LEMMA ProgramTypes ==
  ASSUME EngineTypeOK, EngineNext
  PROVE  program' \in [Programs -> Program]
<1>1. program \in [Programs -> Program]
  BY DEF EngineTypeOK, Program
<1>2. Down \in Program
  BY ReleasesAssumption DEF Down, Program
<1>3. CASE UNCHANGED program
  BY <1>1, <1>3
<1>4. ASSUME NEW p \in Programs, Launch(p) \/ Vanish(p)
      PROVE  program' \in [Programs -> Program]
  <2>1. CASE Launch(p)
    <3>1. PICK serves \in BOOLEAN : program' = [program EXCEPT ![p] =
             [Down EXCEPT !.up = TRUE, !.serves = serves, !.want = release]]
      BY <2>1 DEF Launch
    <3>2. [Down EXCEPT !.up = TRUE, !.serves = serves, !.want = release] \in Program
      BY <1>2 DEF Down, Program, EngineTypeOK
    <3> QED
      BY <1>1, <3>1, <3>2
  <2>2. CASE Vanish(p)
    BY <1>1, <1>2, <2>2 DEF Vanish
  <2> QED
    BY <1>4, <2>1, <2>2
<1>5. ASSUME NEW t \in Threads, NEW status \in {"failed", "ready"}, Returns(t, status)
      PROVE  program' \in [Programs -> Program]
  <2>1. Of(t) \in Programs /\ program[Of(t)] \in Program
    BY <1>1, ThreadShape
  <2>2. [program[Of(t)] EXCEPT !.status = status, !.lock = IF @ = t[2] THEN "free" ELSE @] \in Program
    BY <2>1 DEF Program
  <2>3. program' = [program EXCEPT ![Of(t)] =
          [program[Of(t)] EXCEPT !.status = status, !.lock = IF @ = t[2] THEN "free" ELSE @]]
    BY <1>1, <1>5, <2>1 DEF Returns, Program
  <2> QED
    BY <1>1, <2>2, <2>3
<1>6. ASSUME NEW t \in Threads, Acquire(t)
      PROVE  program' \in [Programs -> Program]
  BY <1>1, <1>6, ThreadShape DEF Acquire, Program
<1>7. ASSUME NEW t \in Threads, Works(t)
      PROVE  UNCHANGED program \/ \E status \in {"failed", "ready"} : Returns(t, status)
  BY <1>7 DEF Works, Cached, Requested, Extract, Renamed, Stamped, FetchFails, LoadFirst, Loaded
<1> QED
  BY <1>3, <1>4, <1>5, <1>6, <1>7
  DEF EngineNext, Others, Update, Place, DropIn, Quarantine, Ask, AskToFetch

LEMMA ThreadTypes ==
  ASSUME EngineTypeOK, EngineNext
  PROVE  thread' \in [Threads -> Thread]
<1>1. thread \in [Threads -> Thread]
  BY DEF EngineTypeOK, Thread, Stages
<1>2. Resting \in Thread
  BY DEF Resting, Thread, Stages
<1>3. CASE UNCHANGED thread
  BY <1>1, <1>3
<1>4. ASSUME NEW p \in Programs, Launch(p) \/ Vanish(p)
      PROVE  thread' \in [Threads -> Thread]
  <2>1. [Resting EXCEPT !.at = "waiting"] \in Thread /\ [Resting EXCEPT !.at = "load", !.job = "start"] \in Thread
    BY <1>2 DEF Thread, Stages, Resting
  <2>2. CASE Launch(p)
    BY <1>1, <2>1, <2>2 DEF Launch
  <2>3. CASE Vanish(p)
    BY <1>1, <1>2, <2>3 DEF Vanish
  <2> QED
    BY <1>4, <2>2, <2>3
<1>5. ASSUME NEW t \in Threads, NEW place \in Stages, Goto(t, place)
      PROVE  thread' \in [Threads -> Thread]
  BY <1>1, <1>5 DEF Goto, Thread
<1>6. ASSUME NEW t \in Threads, thread' = [thread EXCEPT ![t] = Resting]
      PROVE  thread' \in [Threads -> Thread]
  BY <1>1, <1>2, <1>6
<1>7. ASSUME NEW t \in Threads, Ask(t) \/ AskToFetch(t) \/ Acquire(t)
      PROVE  thread' \in [Threads -> Thread]
  <2>1. [Resting EXCEPT !.at = "cached", !.job = "fetch"] \in Thread
    BY <1>2 DEF Resting, Thread, Stages, Fetching
  <2> QED
    BY <1>1, <1>5, <1>7, <2>1 DEF Ask, AskToFetch, Acquire, Stages, Fetching
<1>8. ASSUME NEW t \in Threads, Works(t)
      PROVE  thread' \in [Threads -> Thread]
  <2>1. CASE LoadFirst(t)
    <3>1. Candidate \in File \cup {NoFile, Foreign}
      BY DEF Candidate, EngineTypeOK
    <3> QED
      BY <1>1, <1>6, <2>1, <3>1 DEF LoadFirst, Returns, Thread, Stages
  <2>2. CASE Cached(t) \/ Stamped(t)
    BY <1>1, <1>2, <1>5, <2>2 DEF Cached, Stamped, Thread, Stages, Fetching
  <2>3. CASE Requested(t) \/ Extract(t) \/ Renamed(t)
    BY <1>5, <2>3 DEF Requested, Extract, Renamed, Stages, Fetching
  <2>4. CASE FetchFails(t) \/ Loaded(t)
    BY <1>6, <2>4 DEF FetchFails, Loaded, Returns
  <2> QED
    BY <1>8, <2>1, <2>2, <2>3, <2>4 DEF Works
<1> QED
  BY <1>3, <1>4, <1>7, <1>8 DEF EngineNext, Others, Update, Place, DropIn, Quarantine

LEMMA DirTypes ==
  ASSUME EngineTypeOK, EngineNext
  PROVE  dir' \in Dir
<1>1. dir \in Dir /\ release \in Releases /\ program \in [Programs -> Program]
  BY DEF EngineTypeOK, Dir, Program
<1>2. CASE UNCHANGED dir
  BY <1>1, <1>2
<1>3. ASSUME NEW p \in Programs, Vanish(p)
      PROVE  dir' \in Dir
  <2>1. PICK target \in Left(p, dir.target), partial \in Left(p, dir.partial) \cup {NoFile} :
          dir' = [dir EXCEPT !.target = target, !.partial = partial, !.archive = @ \ {p}]
    BY <1>3 DEF Vanish
  <2>2. target \in File \cup {NoFile} /\ partial \in File \cup {NoFile}
    BY <1>1, LeftFile DEF Dir
  <2> QED
    BY <1>1, <2>1, <2>2 DEF Dir
<1>4. CASE DropIn \/ Quarantine
  BY <1>1, <1>4 DEF DropIn, Quarantine, Dir, File, NoFile
<1>5. ASSUME NEW t \in Threads, Works(t)
      PROVE  dir' \in Dir
  <2>1. Of(t) \in Programs /\ Want(t) \in Releases
    BY <1>1, ThreadShape DEF Want, Program
  <2>2. CASE Cached(t) \/ Requested(t)
    BY <1>1, <2>1, <2>2 DEF Cached, Requested, Dir
  <2>3. CASE Extract(t)
    <3>1. PICK torn \in BOOLEAN :
            dir' = [dir EXCEPT !.partial = [ver |-> Want(t), torn |-> torn, by |-> {Of(t)}]]
      BY <2>3 DEF Extract
    <3>2. [ver |-> Want(t), torn |-> torn, by |-> {Of(t)}] \in File
      BY <2>1 DEF File
    <3> QED
      BY <1>1, <3>1, <3>2 DEF Dir
  <2>4. CASE Renamed(t)
    BY <1>1, <2>1, <2>4 DEF Renamed, Dir, File
  <2>5. CASE Stamped(t)
    BY <1>1, <2>1, <2>5 DEF Stamped, Dir
  <2>6. CASE FetchFails(t)
    <3>1. PICK partial \in Left(Of(t), dir.partial), target \in Left(Of(t), dir.target) \cup {NoFile} :
            dir' = [dir EXCEPT !.partial = partial, !.target = target]
      BY <2>6 DEF FetchFails
    <3>2. target \in File \cup {NoFile} /\ partial \in File \cup {NoFile}
      BY <1>1, <2>1, LeftFile DEF Dir
    <3> QED
      BY <1>1, <3>1, <3>2 DEF Dir
  <2>7. CASE LoadFirst(t) \/ Loaded(t)
    BY <1>2, <2>7 DEF LoadFirst, Loaded
  <2> QED
    BY <1>5, <2>2, <2>3, <2>4, <2>5, <2>6, <2>7 DEF Works
<1> QED
  BY <1>2, <1>3, <1>4, <1>5
  DEF EngineNext, Launch, Others, Update, Place, Ask, AskToFetch, Acquire

\* The types of everything, for every number of processes and releases.
THEOREM EngineTypeCorrect == EngineSpec => []EngineTypeOK
<1>1. EngineTypeOK /\ [EngineNext]_engineVars => EngineTypeOK'
  <2> SUFFICES ASSUME EngineTypeOK, [EngineNext]_engineVars PROVE EngineTypeOK'
    OBVIOUS
  <2>1. CASE UNCHANGED engineVars
    BY <2>1 DEF engineVars, EngineTypeOK
  <2>2. CASE EngineNext
    <3>1. /\ release' \in Releases /\ elsewhere' \in {"none", "before", "after"}
          /\ changes' \in 0..MaxChanges /\ upset' \in BOOLEAN
      <4>1. CASE Others \/ \E p \in Programs : Launch(p)
        <5>1. release' \in Releases /\ elsewhere' \in {"none", "before", "after"}
          BY <4>1 DEF EngineTypeOK, Launch, Others, Update, Place, DropIn, Quarantine
        <5>2. changes' \in 0..MaxChanges
          <6>1. changes < MaxChanges /\ changes' = changes + 1
            BY <4>1 DEF Launch, Others, Update, Place, DropIn, Quarantine
          <6> QED
            BY <6>1, ReleasesAssumption DEF EngineTypeOK
        <5>3. upset' \in BOOLEAN
          BY <4>1 DEF EngineTypeOK, Launch, Others, Update, Place, DropIn, Quarantine
        <5> QED
          BY <5>1, <5>2, <5>3
      <4>2. CASE \E t \in Threads : Cached(t)
        BY <4>2 DEF EngineTypeOK, Cached, Disturbed
      <4>3. CASE UNCHANGED <<release, elsewhere, changes, upset>>
        BY <4>3 DEF EngineTypeOK
      <4> QED
        BY <2>2, <4>1, <4>2, <4>3
        DEF EngineNext, Vanish, Ask, AskToFetch, Acquire, Works, Requested, Extract, Renamed,
            Stamped, FetchFails, LoadFirst, Loaded
    <3> QED
      BY <2>2, <3>1, ProgramTypes, ThreadTypes, DirTypes
      DEF EngineTypeOK, Program, Thread, Stages, Dir
  <2> QED
    BY <2>1, <2>2
<1> QED
  BY EngineInitTypes, <1>1, PTL DEF EngineSpec

-----------------------------------------------------------------------------
(* One setup at a time in each process.                                    *)

Busy(t) == thread[t].at \in Fetching \cup {"load", "loading"}

\* A setup of the window or of a request works under the lock, and only while
\* the engine is not ready.  The calls of a tool without the lock are its main
\* thread's, before it serves anything or when it serves nothing.
OneSetup ==
  \A t \in Threads :
    /\ program[Of(t)].serves \/ program[Of(t)].status = "ready" => program[Of(t)].up
    /\ program[Of(t)].up /\ Of(t) \in Windowed => program[Of(t)].serves
    /\ thread[t].at # "idle" => program[Of(t)].up
    /\ Busy(t) /\ thread[t].job = "setup" => /\ program[Of(t)].lock = t[2]
                                            /\ program[Of(t)].status # "ready"
    /\ thread[t].job # "setup" => Busy(t) /\ t[2] = Main /\ Of(t) \in Tools
    /\ thread[t].job = "start" => /\ thread[t].at \in {"load", "loading"}
                                  /\ program[Of(t)].status = "unset"
    /\ thread[t].job = "fetch" => thread[t].at \in Fetching /\ ~program[Of(t)].serves
    /\ t[2] = Main /\ Of(t) \in Tools /\ thread[t].job = "setup" => thread[t].at = "idle"
    /\ t[2] # Main /\ thread[t].at # "idle" => /\ program[Of(t)].serves
                                              /\ thread[<<Of(t), Main>>].job # "start"

\* Two threads of one process never set the engine up at once.
LEMMA Exclusive ==
  ASSUME EngineTypeOK, OneSetup, NEW t \in Threads, NEW u \in Threads, Busy(t), Busy(u), Of(t) = Of(u)
  PROVE  t = u
<1>1. t = <<Of(t), t[2]>> /\ u = <<Of(u), u[2]>>
  BY ThreadShape
<1> SUFFICES t[2] = u[2]
  BY <1>1
<1>2. CASE thread[t].job = "setup" /\ thread[u].job = "setup"
  BY <1>2 DEF OneSetup
<1>3. ASSUME NEW v \in Threads, NEW w \in Threads, Busy(v), Busy(w), Of(v) = Of(w),
             thread[v].job # "setup"
      PROVE  v[2] = w[2]
  <2>1. v = <<Of(w), Main>> /\ v[2] = Main /\ Of(w) \in Tools
    BY <1>3, ThreadShape DEF OneSetup
  <2>2. thread[w].at # "idle"
    BY <1>3 DEF Busy, Fetching
  <2>3. CASE w[2] # Main
    <3>1. thread[v].job \in {"setup", "start", "fetch"} /\ v = <<Of(v), Main>>
      BY <1>3, <2>1 DEF EngineTypeOK
    <3>2. program[Of(v)].serves /\ thread[v].job # "start"
      BY <1>3, <2>2, <2>3, <3>1 DEF OneSetup
    <3> QED
      BY <1>3, <3>1, <3>2 DEF OneSetup
  <2> QED
    BY <2>1, <2>3
<1> QED
  BY <1>2, <1>3

\* Threads other than t stay as they are, and so do processes other than t's.
OnlyThread(t) ==
  /\ \A u \in Threads \ {t} : thread'[u] = thread[u]
  /\ \A p \in Programs : /\ program'[p].up = program[p].up
                         /\ program'[p].serves = program[p].serves
                         /\ program'[p].want = program[p].want
                         /\ p # Of(t) => program'[p] = program[p]

LEMMA ReturnsShape ==
  ASSUME EngineTypeOK, NEW t \in Threads, NEW status \in {"failed", "ready"}, Returns(t, status)
  PROVE  /\ OnlyThread(t)
         /\ thread'[t] = Resting
         /\ program'[Of(t)].status = status
         /\ program'[Of(t)].lock = IF program[Of(t)].lock = t[2] THEN "free" ELSE program[Of(t)].lock
<1>1. Of(t) \in Programs /\ program \in [Programs -> Program] /\ thread \in [Threads -> Thread]
  BY ThreadShape DEF EngineTypeOK, Program, Thread, Stages
<1>2. thread'[t] = Resting /\ \A u \in Threads \ {t} : thread'[u] = thread[u]
  BY <1>1 DEF Returns
<1>3. \A p \in Programs \ {Of(t)} : program'[p] = program[p]
  BY <1>1 DEF Returns
<1>4. program'[Of(t)] = [program[Of(t)] EXCEPT !.status = status,
                                              !.lock = IF @ = t[2] THEN "free" ELSE @]
  BY <1>1 DEF Returns, Program
<1>5. program[Of(t)] \in Program
  BY <1>1
<1>6. program'[Of(t)].status = status /\ program'[Of(t)].want = program[Of(t)].want
      /\ program'[Of(t)].serves = program[Of(t)].serves /\ program'[Of(t)].up = program[Of(t)].up
      /\ program'[Of(t)].lock = IF program[Of(t)].lock = t[2] THEN "free" ELSE program[Of(t)].lock
  BY <1>4, <1>5 DEF Program
<1> QED
  BY <1>2, <1>3, <1>6 DEF OnlyThread

\* What a step of a setup does to its thread and its process.
LEMMA WorksShape ==
  ASSUME EngineTypeOK, OneSetup, NEW t \in Threads, Works(t)
  PROVE  /\ Busy(t)
         /\ OnlyThread(t)
         /\ \/ /\ UNCHANGED program
               /\ thread'[t].job = thread[t].job /\ thread'[t].at \in Fetching \cup {"load", "loading"}
               /\ thread[t].job = "fetch" => thread'[t].at \in Fetching
               /\ thread[t].job = "start" /\ thread[t].at \in {"load", "loading"} => thread'[t].at = "loading"
            \/ UNCHANGED program /\ thread'[t] = Resting /\ thread[t].job = "fetch"
            \/ /\ thread'[t] = Resting
               /\ thread[t].job = "fetch" => thread[t].at \notin Fetching
               /\ program'[Of(t)].status \in {"failed", "ready"}
               /\ program'[Of(t)].lock = IF program[Of(t)].lock = t[2] THEN "free"
                                         ELSE program[Of(t)].lock
<1> USE DEF Busy, Fetching, OnlyThread
<1>1. t \in DOMAIN thread /\ Of(t) \in Programs
  BY ThreadShape DEF EngineTypeOK
<1>2. CASE Cached(t)
  BY <1>1, <1>2 DEF Cached, Is, Goto, EngineTypeOK, Resting
<1>3. CASE Requested(t) \/ Extract(t) \/ Renamed(t)
  BY <1>1, <1>3 DEF Requested, Extract, Renamed, Is, Goto, EngineTypeOK
<1>4. CASE Stamped(t)
  BY <1>1, <1>4 DEF Stamped, Is, Goto, EngineTypeOK, Resting
<1>5. CASE FetchFails(t)
  <2>1. CASE thread[t].job = "fetch"
    BY <1>1, <1>5, <2>1 DEF FetchFails, EngineTypeOK, Resting
  <2>2. CASE thread[t].job # "fetch"
    BY <1>1, <1>5, <2>2, ReturnsShape DEF FetchFails
  <2> QED
    BY <2>1, <2>2
<1>6. CASE LoadFirst(t)
  <2>1. CASE Candidate = NoFile
    BY <1>1, <1>6, <2>1, ReturnsShape DEF LoadFirst, Is
  <2>2. CASE Candidate # NoFile
    <3>1. thread' = [thread EXCEPT ![t].at = "loading", ![t].lib = Candidate] /\ UNCHANGED program
      BY <1>6, <2>2 DEF LoadFirst
    <3>2. thread \in [Threads -> Thread]
      BY DEF EngineTypeOK, Thread, Stages
    <3>3. thread'[t].at = "loading" /\ thread'[t].job = thread[t].job
          /\ \A u \in Threads \ {t} : thread'[u] = thread[u]
      BY <3>1, <3>2 DEF Thread
    <3> QED
      BY <1>6, <3>1, <3>3 DEF LoadFirst, Is, OneSetup
  <2> QED
    BY <2>1, <2>2
<1>7. CASE Loaded(t)
  BY <1>1, <1>7, ReturnsShape DEF Loaded, Is
<1> QED
  BY <1>2, <1>3, <1>4, <1>5, <1>6, <1>7 DEF Works

LEMMA OneSetupKept ==
  ASSUME EngineTypeOK, OneSetup, EngineNext
  PROVE  OneSetup'
<1> DEFINE P(t, pr, th) ==
      /\ pr[Of(t)].serves \/ pr[Of(t)].status = "ready" => pr[Of(t)].up
      /\ pr[Of(t)].up /\ Of(t) \in Windowed => pr[Of(t)].serves
      /\ th[t].at # "idle" => pr[Of(t)].up
      /\ th[t].at \in Fetching \cup {"load", "loading"} /\ th[t].job = "setup" =>
           pr[Of(t)].lock = t[2] /\ pr[Of(t)].status # "ready"
      /\ th[t].job # "setup" => /\ th[t].at \in Fetching \cup {"load", "loading"}
                                /\ t[2] = Main /\ Of(t) \in Tools
      /\ th[t].job = "start" => th[t].at \in {"load", "loading"} /\ pr[Of(t)].status = "unset"
      /\ th[t].job = "fetch" => th[t].at \in Fetching /\ ~pr[Of(t)].serves
      /\ t[2] = Main /\ Of(t) \in Tools /\ th[t].job = "setup" => th[t].at = "idle"
      /\ t[2] # Main /\ th[t].at # "idle" => pr[Of(t)].serves /\ th[<<Of(t), Main>>].job # "start"
<1>1. OneSetup <=> \A t \in Threads : P(t, program, thread)
  BY DEF OneSetup, Busy
<1>2. OneSetup' <=> \A t \in Threads : P(t, program', thread')
  BY DEF OneSetup, Busy
<1> SUFFICES ASSUME NEW u \in Threads PROVE P(u, program', thread')
  BY <1>2
<1>3. /\ Of(u) \in Programs /\ <<Of(u), Main>> \in Threads /\ u = <<Of(u), u[2]>>
      /\ program \in [Programs -> Program] /\ thread \in [Threads -> Thread]
  BY ThreadShape DEF EngineTypeOK, Program, Thread, Stages
<1>4. P(u, program, thread)
  BY <1>1
<1>5. CASE UNCHANGED <<program, thread>>
  BY <1>4, <1>5
<1>6. ASSUME NEW p \in Programs, Launch(p) PROVE P(u, program', thread')
  <2>1. PICK serves \in BOOLEAN :
          /\ p \in Windowed => serves
          /\ program' = [program EXCEPT ![p] =
                           [Down EXCEPT !.up = TRUE, !.serves = serves, !.want = release]]
    BY <1>6 DEF Launch
  <2>2. /\ program'[p].up /\ program'[p].status = "unset"
        /\ p \in Windowed => program'[p].serves
    BY <1>3, <2>1 DEF Down
  <2>3. CASE Of(u) # p
    BY <1>3, <1>4, <1>6, <2>1, <2>3 DEF Launch
  <2>4. CASE Of(u) = p /\ u[2] # Main
    <3>1. thread[u].at = "idle" /\ thread[u].job = "setup"
      BY <1>3, <1>4, <1>6, <2>4 DEF Launch, Thread
    <3>2. thread'[u] = thread[u]
      BY <1>3, <1>6, <2>4 DEF Launch
    <3> QED
      BY <2>2, <2>4, <3>1, <3>2 DEF Fetching
  <2>5. CASE Of(u) = p /\ u[2] = Main
    <3>1. u = <<p, Main>> /\ p \in Windowed \cup Tools /\ (p \in Windowed => p \notin Tools)
      BY <1>3, <2>5, RequestsAssumption DEF Programs
    <3>2. thread'[u] = IF p \in Windowed THEN [Resting EXCEPT !.at = "waiting"]
                       ELSE [Resting EXCEPT !.at = "load", !.job = "start"]
      BY <1>3, <1>6, <3>1 DEF Launch
    <3> QED
      BY <2>2, <2>5, <3>1, <3>2 DEF Resting, Fetching
  <2> QED
    BY <2>3, <2>4, <2>5
<1>7. ASSUME NEW p \in Programs, Vanish(p) PROVE P(u, program', thread')
  <2>1. CASE Of(u) # p
    BY <1>3, <1>4, <1>7, <2>1 DEF Vanish, Of
  <2>2. CASE Of(u) = p
    <3>1. thread'[u] = Resting /\ program'[p] = Down
      BY <1>3, <1>7, <2>2 DEF Vanish
    <3>2. ~Down.up /\ ~Down.serves /\ Down.status = "unset" /\ Resting.at = "idle" /\ Resting.job = "setup"
      BY DEF Down, Resting
    <3> QED
      BY <2>2, <3>1, <3>2 DEF Fetching
  <2> QED
    BY <2>1, <2>2
<1>8. ASSUME NEW t \in Threads, Ask(t) PROVE P(u, program', thread')
  <2>1. /\ UNCHANGED program /\ program[Of(t)].serves /\ t[2] # Main
        /\ thread[<<Of(t), Main>>].job # "start" /\ thread[t].at = "idle"
        /\ thread' = [thread EXCEPT ![t].at = "waiting"]
    BY <1>8 DEF Ask, Is, Goto
  <2>2. /\ thread'[t].at = "waiting" /\ thread'[t].job = "setup"
        /\ \A v \in Threads \ {t} : thread'[v] = thread[v]
    BY <1>1, <1>3, <2>1 DEF Thread, Fetching
  <2> QED
    BY <1>1, <1>3, <1>4, <2>1, <2>2 DEF Fetching, Of, Main
<1>9. ASSUME NEW t \in Threads, AskToFetch(t) PROVE P(u, program', thread')
  <2>1. /\ UNCHANGED program /\ ~program[Of(t)].serves /\ t[2] = Main /\ program[Of(t)].up
        /\ thread' = [thread EXCEPT ![t] = [Resting EXCEPT !.at = "cached", !.job = "fetch"]]
    BY <1>9 DEF AskToFetch
  <2>2. /\ thread'[t].at = "cached" /\ thread'[t].job = "fetch"
        /\ \A v \in Threads \ {t} : thread'[v] = thread[v]
    BY <1>3, <2>1 DEF Resting
  <2>3. Of(t) \in Tools
    BY <1>1, <2>1, ThreadShape DEF Programs
  <2> QED
    BY <1>1, <1>3, <1>4, <2>1, <2>2, <2>3 DEF Fetching
<1>10. ASSUME NEW t \in Threads, Acquire(t) PROVE P(u, program', thread')
  <2>1. CASE UNCHANGED program /\ thread' = [thread EXCEPT ![t].at = "idle"]
    <3>1. thread[t].at = "waiting"
      BY <1>10 DEF Acquire, Is
    <3>2. /\ thread'[t].at = "idle" /\ thread'[t].job = thread[t].job
          /\ \A v \in Threads \ {t} : thread'[v] = thread[v]
      BY <1>3, <2>1 DEF Thread
    <3> QED
      BY <1>1, <1>3, <1>4, <2>1, <3>1, <3>2 DEF Fetching
  <2>2. CASE /\ program[Of(t)].status # "ready"
             /\ thread' = [thread EXCEPT ![t].at = "cached"]
             /\ program' = [program EXCEPT ![Of(t)].lock = t[2]]
    <3>1. thread[t].at = "waiting" /\ program[Of(t)].lock = "free"
      BY <1>10 DEF Acquire, Is
    <3>2. /\ thread'[t].at = "cached" /\ thread'[t].job = thread[t].job /\ thread[t].job = "setup"
          /\ \A v \in Threads \ {t} : thread'[v] = thread[v]
      BY <1>1, <1>3, <2>2, <3>1 DEF Thread, Fetching
    <3>3. /\ program'[Of(t)].lock = t[2]
          /\ \A p \in Programs :
               /\ p # Of(t) => program'[p] = program[p]
               /\ program'[p].status = program[p].status
               /\ program'[p].up = program[p].up /\ program'[p].serves = program[p].serves
      BY <1>3, <2>2, ThreadShape DEF Program
    <3>4. u # t /\ Of(u) = Of(t) => ~(Busy(u) /\ thread[u].job = "setup")
      BY <1>4, <3>1, ThreadShape DEF Busy
    <3>5. thread[<<Of(t), Main>>].job # "start"
      <4>1. CASE t[2] = Main
        BY <3>2, <4>1, ThreadShape
      <4>2. CASE t[2] # Main
        BY <1>1, <3>1, <4>2
      <4> QED
        BY <4>1, <4>2
    <3> QED
      BY <1>1, <1>3, <1>4, <2>2, <3>1, <3>2, <3>3, <3>4, <3>5, ThreadShape DEF Fetching, Busy
  <2> QED
    BY <1>10, <2>1, <2>2 DEF Acquire, Goto
<1>11. ASSUME NEW t \in Threads, Works(t) PROVE P(u, program', thread')
  <2>1. CASE u = t
    BY <1>1, <1>3, <1>4, <1>11, <2>1, WorksShape DEF Resting, OnlyThread, Fetching, Busy
  <2>2. CASE Of(u) # Of(t)
    BY <1>3, <1>4, <1>11, <2>2, WorksShape DEF OnlyThread, Of
  <2>3. CASE u # t /\ Of(u) = Of(t)
    <3>1. ~Busy(u)
      BY <1>11, <2>3, WorksShape, Exclusive
    <3>2. thread'[u] = thread[u] /\ thread[u].job = "setup"
      BY <1>3, <1>4, <1>11, <2>3, <3>1, WorksShape DEF OnlyThread, Thread, Busy
    <3> QED
      <4>1. program[Of(u)].up
        BY <1>1, <1>11, <2>3, WorksShape DEF Busy, Fetching
      <4> QED
        BY <1>3, <1>4, <1>11, <2>3, <3>1, <3>2, <4>1, WorksShape DEF OnlyThread, Busy, Resting
  <2> QED
    BY <2>1, <2>2, <2>3
<1> QED
  BY <1>5, <1>6, <1>7, <1>8, <1>9, <1>10, <1>11
  DEF EngineNext, Others, Update, Place, DropIn, Quarantine

LEMMA OneSetupCorrect == EngineSpec => []OneSetup
<1>1. EngineInit => OneSetup
  <2> SUFFICES ASSUME EngineInit PROVE OneSetup
    OBVIOUS
  <2>1. \A t \in Threads : thread[t] = Resting /\ program[Of(t)] = Down
    BY ThreadShape DEF EngineInit
  <2> QED
    BY <2>1 DEF OneSetup, Busy, Resting, Down, Fetching
<1>2. EngineTypeOK /\ OneSetup /\ [EngineNext]_engineVars => OneSetup'
  <2>1. OneSetup /\ UNCHANGED engineVars => OneSetup'
    BY DEF OneSetup, Busy, engineVars
  <2> QED
    BY <2>1, OneSetupKept
<1> QED
  BY <1>1, <1>2, EngineTypeCorrect, PTL DEF EngineSpec

\* An engine that is ready stays so while its process lives, however later
\* calls end that found it not ready (ensure_ready's second look under
\* SETUP_LOCK).
THEOREM ReadyKept == EngineSpec => ReadyIsKept
<1> DEFINE Kept == \A p \in Programs :
             (program[p].status = "ready" /\ program'[p].up) => program'[p].status = "ready"
<1>1. EngineTypeOK /\ OneSetup /\ [EngineNext]_engineVars => Kept
  <2> SUFFICES ASSUME EngineTypeOK, OneSetup, [EngineNext]_engineVars,
                      NEW p \in Programs, program[p].status = "ready", program'[p].up
               PROVE  program'[p].status = "ready"
    OBVIOUS
  <2>1. program \in [Programs -> Program]
    BY DEF EngineTypeOK, Program
  <2>2. ASSUME NEW q \in Programs, Launch(q) \/ Vanish(q)
        PROVE  program'[p].status = "ready"
    <3>1. <<p, Main>> \in Threads /\ Of(<<p, Main>>) = p
      BY DEF Threads, Of
    <3>2. program[p].up
      BY <3>1 DEF OneSetup
    <3>3. CASE q = p
      <4>1. Vanish(p) /\ program'[p] = Down
        BY <2>1, <2>2, <3>2, <3>3 DEF Launch, Vanish
      <4> QED
        BY <4>1 DEF Down
    <3>4. CASE q # p
      BY <2>1, <2>2, <3>4 DEF Launch, Vanish
    <3> QED
      BY <3>3, <3>4
  <2>3. ASSUME NEW t \in Threads, Acquire(t)
        PROVE  program'[p].status = "ready"
    BY <2>1, <2>3 DEF Acquire, Program
  <2>4. ASSUME NEW t \in Threads, Works(t)
        PROVE  program'[p].status = "ready"
    <3>1. CASE Of(t) # p
      BY <2>4, <3>1, WorksShape DEF OnlyThread
    <3>2. CASE Of(t) = p
      <4>1. thread[t].job = "fetch"
        BY <2>4, <3>2, WorksShape DEF OneSetup, EngineTypeOK
      <4> QED
        BY <2>4, <3>2, <4>1, WorksShape DEF OneSetup
    <3> QED
      BY <3>1, <3>2
  <2>5. CASE UNCHANGED program
    BY <2>5
  <2> QED
    BY <2>2, <2>3, <2>4, <2>5
    DEF EngineNext, engineVars, Others, Update, Place, DropIn, Quarantine, Ask, AskToFetch
<1> QED
  BY <1>1, EngineTypeCorrect, OneSetupCorrect, PTL DEF EngineSpec, ReadyIsKept

-----------------------------------------------------------------------------
(* What is loaded.                                                         *)

\* t is past its look at the stamp, on the way to a library of its own.
Deep(t) == /\ thread[t].at \in (Fetching \ {"cached"}) \cup {"load"}
           /\ thread[t].job # "start"

Intact(f) == ~f.torn /\ f.by = {}

\* The library in the runtime directory is whole, and a stamp of the current
\* release vouches for it.
DirVouched ==
  /\ dir.stamp <= release
  /\ dir.target # NoFile => /\ Intact(dir.target)
                            /\ dir.stamp = release => dir.target.ver = release

\* A thread on its way is alone on it; no stamp is newer than its own will be,
\* and what it has made so far is whole and of its version.
ThreadVouched(t) ==
  Deep(t) =>
    /\ \A u \in Threads : Deep(u) => u = t
    /\ dir.stamp <= Want(t)
    /\ Is(t, "extract") => dir.archive \subseteq {Of(t)}
    /\ Is(t, "copy") => dir.partial \in {NoFile, [ver |-> Want(t), torn |-> FALSE, by |-> {Of(t)}]}
    /\ thread[t].at \in {"installed", "load"} /\ dir.target # NoFile => dir.target.ver = Want(t)

\* EngineIsPinned, of one thread.
Pinned(t) ==
  Is(t, "loading") /\ thread[t].job = "setup" /\ elsewhere = "none" =>
    thread[t].lib.ver = Want(t) /\ Intact(thread[t].lib)

\* All of that as long as nothing `upset` them; a setup that began before an
\* update never writes a stamp of the release after it.
Vouched ==
  ~upset => /\ DirVouched
            /\ \A p \in Programs : program[p].up => program[p].want <= release
            /\ \A t \in Threads : ThreadVouched(t) /\ Pinned(t)

LEMMA EngineTypes ==
  ASSUME EngineTypeOK
  PROVE  /\ program \in [Programs -> Program] /\ thread \in [Threads -> Thread] /\ dir \in Dir
         /\ release \in Nat /\ dir.stamp \in Nat
         /\ \A p \in Programs : program[p].want \in Nat
<1>1. program \in [Programs -> Program] /\ thread \in [Threads -> Thread] /\ dir \in Dir
  BY DEF EngineTypeOK, Program, Thread, Stages, Dir
<1>2. release \in Nat /\ dir.stamp \in Nat
  <2>1. release \in Releases /\ dir.stamp \in Releases \cup {0} /\ \A r \in Releases : r \in Nat
    BY <1>1, ReleasesAssumption DEF EngineTypeOK, Dir
  <2> QED
    BY <2>1
<1>3. \A p \in Programs : program[p].want \in Nat
  BY <1>1, ReleasesAssumption DEF Program
<1> QED
  BY <1>1, <1>2, <1>3

\* A step that touches nothing but threads that are not on their way after it.
LEMMA ThreadsFrame ==
  ASSUME Vouched, ~upset, UNCHANGED <<release, elsewhere>>, DirVouched',
         \A p \in Programs : program'[p].up =>
           \/ program'[p].want <= release
           \/ program[p].up /\ program'[p].want = program[p].want,
         \A t \in Threads : Deep(t)' =>
           Deep(t) /\ thread'[t] = thread[t] /\ Want(t)' = Want(t) /\ ThreadVouched(t)',
         \A t \in Threads : (thread'[t].at = "loading" /\ thread'[t].job = "setup") =>
           thread'[t] = thread[t] /\ Want(t)' = Want(t)
  PROVE  Vouched'
<1>1. \A t \in Threads : Pinned(t)'
  BY DEF Vouched, Pinned, Is
<1>2. \A t \in Threads : ThreadVouched(t)'
  BY DEF ThreadVouched
<1> QED
  BY <1>1, <1>2 DEF Vouched

\* A step of one thread that is alone on its way, or that leaves the directory
\* alone.
LEMMA WorksFrame ==
  ASSUME Vouched, ~upset, UNCHANGED <<release, elsewhere>>, DirVouched',
         NEW t \in Threads, OnlyThread(t), Of(t) \in Programs,
         \A u \in Threads : Of(u) \in Programs,
         UNCHANGED dir \/ \A u \in Threads \ {t} : ~Deep(u),
         Deep(t)' => (\A u \in Threads \ {t} : ~Deep(u)) /\ ThreadVouched(t)',
         Pinned(t)'
  PROVE  Vouched'
<1>1. \A u \in Threads \ {t} : thread'[u] = thread[u] /\ Want(u)' = Want(u) /\ Deep(u)' = Deep(u)
  BY DEF OnlyThread, Want, Deep
<1>2. \A u \in Threads \ {t} : Pinned(u)'
  BY <1>1 DEF Vouched, Pinned, Is
<1>3. ASSUME NEW u \in Threads \ {t}, Deep(u)'
      PROVE  ThreadVouched(u)'
  <2>1. ~Deep(t)' /\ UNCHANGED dir /\ Deep(u)
    BY <1>1, <1>3
  <2> QED
    BY <1>1, <2>1 DEF Vouched, ThreadVouched, Is
<1>4. \A u \in Threads \ {t} : ThreadVouched(u)'
  BY <1>3 DEF ThreadVouched
<1>5. ThreadVouched(t)'
  BY DEF ThreadVouched
<1>6. \A p \in Programs : program'[p].up => program'[p].want <= release
  BY DEF Vouched, OnlyThread
<1> QED
  BY <1>2, <1>4, <1>5, <1>6 DEF Vouched

\* Updates, a library elsewhere, one put in place by hand or taken away.
LEMMA OthersVouched ==
  ASSUME EngineTypeOK, OneSetup, Vouched, Others, ~upset'
  PROVE  Vouched'
<1>1. UNCHANGED <<program, thread>>
  BY DEF Others, Update, Place, DropIn, Quarantine
<1>2. \A t \in Threads : Deep(t) => program[Of(t)].up
  BY DEF OneSetup, Deep, Fetching
<1>3. ASSUME NEW r \in Releases, Update(r)
      PROVE  Vouched'
  <2>1. ~upset /\ ~(r < release) /\ r # release
    BY <1>3 DEF Update, EngineTypeOK
  <2>2. release' = r /\ UNCHANGED <<dir, elsewhere>>
    BY <1>3 DEF Update
  <2>3. r \in Nat /\ release \in Nat /\ dir.stamp \in Nat /\ \A p \in Programs : program[p].want \in Nat
    BY EngineTypes, ReleasesAssumption
  <2>4. release < r
    BY <2>1, <2>3
  <2>5. dir.stamp <= r /\ dir.stamp # r
    BY <2>1, <2>3, <2>4 DEF Vouched, DirVouched
  <2>6. \A p \in Programs : program[p].up => program[p].want <= r
    BY <2>1, <2>3, <2>4 DEF Vouched
  <2>7. DirVouched'
    BY <2>1, <2>2, <2>5 DEF Vouched, DirVouched
  <2>8. \A t \in Threads : ThreadVouched(t)' /\ Pinned(t)'
    BY <1>1, <2>1, <2>2 DEF Vouched, ThreadVouched, Pinned, Deep, Is, Want
  <2> QED
    BY <1>1, <2>2, <2>6, <2>7, <2>8 DEF Vouched
<1>4. CASE Place
  BY <1>1, <1>4 DEF Place, Vouched, DirVouched, ThreadVouched, Pinned, Deep, Is, Want
<1>5. CASE DropIn
  <2>1. /\ ~upset /\ UNCHANGED <<release, elsewhere>>
        /\ \A p \in Programs : program[p].up => program[p].want = release
    BY <1>5 DEF DropIn
  <2>2. /\ dir'.target = [NoFile EXCEPT !.ver = release]
        /\ dir'.stamp = dir.stamp /\ dir'.partial = dir.partial /\ dir'.archive = dir.archive
    BY <1>5 DEF DropIn, EngineTypeOK
  <2>3. dir'.target.ver = release /\ Intact(dir'.target)
    BY <2>2 DEF NoFile, Intact
  <2>4. \A t \in Threads : Deep(t) => Want(t) = release
    BY <1>2, <2>1, ThreadShape DEF Want
  <2>5. DirVouched'
    BY <2>1, <2>2, <2>3 DEF Vouched, DirVouched
  <2>6. \A t \in Threads : ThreadVouched(t)' /\ Pinned(t)'
    BY <1>1, <2>1, <2>2, <2>3, <2>4 DEF Vouched, ThreadVouched, Pinned, Deep, Is, Want
  <2> QED
    BY <1>1, <2>1, <2>5, <2>6 DEF Vouched
<1>6. CASE Quarantine
  <2>1. /\ ~upset /\ UNCHANGED <<release, elsewhere>>
        /\ dir'.target = NoFile
        /\ dir'.stamp = dir.stamp /\ dir'.partial = dir.partial /\ dir'.archive = dir.archive
    BY <1>6 DEF Quarantine, EngineTypeOK
  <2> QED
    BY <1>1, <2>1 DEF Vouched, DirVouched, ThreadVouched, Pinned, Deep, Is, Want
<1> QED
  BY <1>3, <1>4, <1>5, <1>6 DEF Others

\* A process that starts, ends or asks for the lock.
LEMMA CallersVouched ==
  ASSUME EngineTypeOK, OneSetup, Vouched, ~upset',
         \/ \E p \in Programs : Launch(p) \/ Vanish(p)
         \/ \E t \in Threads : Ask(t) \/ AskToFetch(t) \/ Acquire(t)
  PROVE  Vouched'
<1>1. upset' = upset /\ UNCHANGED <<release, elsewhere>>
  BY DEF Launch, Vanish, Ask, AskToFetch, Acquire
<1>2. ~upset
  BY <1>1
<1>3. program \in [Programs -> Program] /\ thread \in [Threads -> Thread] /\ dir \in Dir
  BY EngineTypes
<1>4. ASSUME NEW p \in Programs, Launch(p)
      PROVE  Vouched'
  <2>1. UNCHANGED dir /\ (program'[p].want = release) /\ \A q \in Programs \ {p} : program'[q] = program[q]
    BY <1>3, <1>4 DEF Launch, Down
  <2>2. /\ \A t \in Threads \ {<<p, Main>>} : thread'[t] = thread[t]
        /\ thread'[<<p, Main>>].at = "waiting" \/ (thread'[<<p, Main>>].job = "start" /\ thread'[<<p, Main>>].at = "load")
    BY <1>3, <1>4, ThreadShape DEF Launch, Resting, Threads
  <2>3. \A t \in Threads : Of(t) = p => thread[t].at = "idle"
    BY <1>4 DEF Launch, OneSetup
  <2>4. \A t \in Threads : Deep(t)' => Deep(t) /\ Of(t) # p /\ thread'[t] = thread[t]
    BY <2>2, <2>3 DEF Deep, Fetching
  <2>5. \A t \in Threads : thread'[t].at = "loading" =>
           Of(t) # p /\ thread'[t] = thread[t]
    BY <2>2, <2>3
  <2>6. \A t \in Threads : Of(t) # p => Want(t)' = Want(t)
    BY <2>1, ThreadShape DEF Want
  <2>7. \A t \in Threads : Deep(t)' => ThreadVouched(t)'
    BY <1>2, <2>1, <2>4, <2>6 DEF Vouched, ThreadVouched, Is
  <2>8. release <= release
    BY EngineTypes
  <2>9. DirVouched'
    BY <1>1, <1>2, <2>1 DEF Vouched, DirVouched
  <2>10. \A q \in Programs : program'[q].up =>
           program'[q].want <= release \/ (program[q].up /\ program'[q].want = program[q].want)
    BY <2>1, <2>8
  <2> QED
    BY <1>1, <1>2, <2>4, <2>5, <2>6, <2>7, <2>9, <2>10, ThreadsFrame
<1>5. ASSUME NEW p \in Programs, Vanish(p)
      PROVE  Vouched'
  <2>1. program'[p] = Down /\ ~Down.up /\ \A q \in Programs \ {p} : program'[q] = program[q]
    BY <1>3, <1>5 DEF Vanish, Down
  <2>2. \A t \in Threads : thread'[t] = IF Of(t) = p THEN Resting ELSE thread[t]
    BY <1>5 DEF Vanish
  <2>3. \A t \in Threads : thread'[t].at # "idle" => Of(t) # p /\ thread'[t] = thread[t]
    BY <2>2 DEF Resting
  <2>4. \A t \in Threads : Deep(t)' => Deep(t) /\ Of(t) # p /\ thread'[t] = thread[t]
    BY <2>3 DEF Deep, Fetching
  <2>5. \A t \in Threads : Of(t) # p => Want(t)' = Want(t)
    BY <2>1, ThreadShape DEF Want
  <2>6. PICK target \in Left(p, dir.target),
             partial \in IF \E t \in Threads : Of(t) # p /\ Is(t, "copy") THEN Left(p, dir.partial)
                         ELSE {NoFile} :
          dir' = [dir EXCEPT !.target = target, !.partial = partial, !.archive = @ \ {p}]
    BY <1>5 DEF Vanish
  <2>7. dir'.target = target /\ dir'.partial = partial /\ dir'.stamp = dir.stamp
        /\ dir'.archive = dir.archive \ {p}
    BY <1>3, <2>6 DEF Dir
  <2>8. dir.target # NoFile => target = dir.target
    BY <1>2, <1>3, LeftFile DEF Vouched, DirVouched, Intact, Dir
  <2>9. dir.target = NoFile => target = NoFile
    BY <1>3, LeftFile DEF Dir, NoFile
  <2>10. DirVouched'
    BY <1>1, <1>2, <2>7, <2>8, <2>9 DEF Vouched, DirVouched
  <2>11. ASSUME NEW t \in Threads, Deep(t)'
         PROVE  ThreadVouched(t)'
    <3>1. ThreadVouched(t) /\ Deep(t) /\ Of(t) # p /\ thread'[t] = thread[t]
      BY <1>2, <2>4, <2>11 DEF Vouched
    <3>2. Is(t, "copy") => partial \in {NoFile, [ver |-> Want(t), torn |-> FALSE, by |-> {Of(t)}]}
      <4> HAVE Is(t, "copy")
      <4>1. partial \in Left(p, dir.partial) /\ dir.partial \in File \cup {NoFile}
        BY <1>3, <2>6, <3>1 DEF Dir
      <4>2. dir.partial \in {NoFile, [ver |-> Want(t), torn |-> FALSE, by |-> {Of(t)}]}
        BY <3>1 DEF ThreadVouched
      <4>3. p \notin dir.partial.by
        BY <3>1, <4>2 DEF NoFile
      <4> QED
        BY <4>1, <4>2, <4>3, LeftFile
    <3> QED
      BY <2>4, <2>5, <2>7, <2>8, <2>9, <3>1, <3>2 DEF ThreadVouched, Is
  <2> QED
    BY <1>1, <1>2, <2>1, <2>3, <2>4, <2>5, <2>10, <2>11, ThreadsFrame
<1>6. ASSUME NEW t \in Threads, Ask(t) \/ AskToFetch(t) \/ Acquire(t)
      PROVE  Vouched'
  <2>1. UNCHANGED dir
    BY <1>6 DEF Ask, AskToFetch, Acquire
  <2>2. \A p \in Programs : program'[p].up = program[p].up /\ program'[p].want = program[p].want
    BY <1>3, <1>6 DEF Ask, AskToFetch, Acquire, Program
  <2>3. /\ \A u \in Threads \ {t} : thread'[u] = thread[u]
        /\ thread'[t].at \in {"idle", "waiting", "cached"}
    <3>1. CASE AskToFetch(t)
      BY <1>3, <3>1 DEF AskToFetch, Resting, Thread
    <3>2. CASE Ask(t) \/ Acquire(t)
      BY <1>3, <3>2 DEF Ask, Acquire, Goto, Thread
    <3> QED
      BY <1>6, <3>1, <3>2
  <2>4. \A u \in Threads : Want(u)' = Want(u)
    BY <2>2, ThreadShape DEF Want
  <2>5. \A u \in Threads : Deep(u)' => Deep(u) /\ thread'[u] = thread[u]
    BY <2>3 DEF Deep, Fetching
  <2>6. \A u \in Threads : Deep(u)' => ThreadVouched(u)'
    BY <1>2, <2>1, <2>4, <2>5 DEF Vouched, ThreadVouched, Is
  <2>7. DirVouched'
    BY <1>1, <1>2, <2>1 DEF Vouched, DirVouched
  <2> QED
    BY <1>1, <1>2, <2>2, <2>3, <2>4, <2>5, <2>6, <2>7, ThreadsFrame
<1> QED
  BY <1>4, <1>5, <1>6

\* A setup's own steps.
LEMMA WorksVouched ==
  ASSUME EngineTypeOK, OneSetup, Vouched, ~upset', NEW t \in Threads, Works(t)
  PROVE  Vouched'
<1>1. /\ OnlyThread(t) /\ Busy(t) /\ Of(t) \in Programs
      /\ \A u \in Threads : Of(u) \in Programs
  BY WorksShape, ThreadShape
<1>2. ~upset /\ UNCHANGED <<release, elsewhere>>
  <2>1. UNCHANGED <<release, elsewhere>>
    BY DEF Works, Cached, Requested, Extract, Renamed, Stamped, FetchFails, LoadFirst, Loaded
  <2>2. upset => upset'
    BY DEF Works, Cached, Requested, Extract, Renamed, Stamped, FetchFails, LoadFirst, Loaded
  <2> QED
    BY <2>1, <2>2
<1>3. program \in [Programs -> Program] /\ thread \in [Threads -> Thread] /\ dir \in Dir
  BY EngineTypes
<1>4. Want(t)' = Want(t) /\ program[Of(t)].up
  BY <1>1, ThreadShape DEF OnlyThread, Want, OneSetup, Busy, Fetching
<1>5. release \in Nat /\ dir.stamp \in Nat /\ Want(t) \in Nat /\ dir.stamp <= release /\ Want(t) <= release
  BY <1>1, <1>2, <1>4, EngineTypes DEF Vouched, DirVouched, Want
<1>6. DirVouched /\ ThreadVouched(t)
  BY <1>2 DEF Vouched
<1>7. Deep(t) => \A u \in Threads \ {t} : ~Deep(u)
  BY <1>6 DEF ThreadVouched
<1>8. thread[t].at \in Fetching => thread[t].job # "start"
  BY DEF OneSetup, Fetching
<1>9. thread[t].at \in Fetching \ {"cached"} => Deep(t)
  BY <1>8 DEF Deep
<1>10. CASE Cached(t)
  <2>1. Want(t) = release /\ \A u \in Threads : Of(u) # Of(t) => thread[u].at \notin Fetching \cup {"load"}
    BY <1>10 DEF Cached, Disturbed
  <2>2. \A u \in Threads \ {t} : ~Deep(u)
    <3>1. \A u \in Threads : Deep(u) => Busy(u) /\ thread[u].at \in Fetching \cup {"load"}
      BY DEF Deep, Busy
    <3> QED
      BY <1>1, <2>1, <3>1, Exclusive
  <2>3. CASE dir.target # NoFile /\ dir.stamp = Want(t)
    <3>1. UNCHANGED dir /\ (thread'[t] = Resting \/ (thread'[t].at = "load"))
      BY <1>3, <1>10, <2>3 DEF Cached, Thread
    <3>2. DirVouched' /\ Pinned(t)'
      BY <1>2, <1>6, <3>1 DEF DirVouched, Pinned, Is, Resting
    <3>3. Deep(t)' => ThreadVouched(t)'
      BY <1>1, <1>4, <1>5, <1>6, <2>1, <2>2, <2>3, <3>1
      DEF ThreadVouched, DirVouched, Deep, OnlyThread, Is, Resting, Fetching
    <3> QED
      BY <1>1, <1>2, <2>2, <3>2, <3>3, WorksFrame
  <2>4. CASE ~(dir.target # NoFile /\ dir.stamp = Want(t))
    <3>1. thread'[t].at = "request"
      BY <1>3, <1>10, <2>4 DEF Cached, Goto, Thread
    <3>2. dir'.stamp = dir.stamp /\ dir'.target \in {NoFile, dir.target}
      BY <1>3, <1>10, <2>4 DEF Cached, Dir
    <3>3. DirVouched' /\ Pinned(t)'
      BY <1>2, <1>6, <3>1, <3>2 DEF DirVouched, Pinned, Is
    <3>4. ThreadVouched(t)'
      BY <1>1, <1>4, <1>5, <2>1, <2>2, <3>1, <3>2 DEF ThreadVouched, Deep, OnlyThread, Is
    <3> QED
      BY <1>1, <1>2, <2>2, <3>3, <3>4, WorksFrame
  <2> QED
    BY <2>3, <2>4
<1>11. CASE Requested(t)
  <2>1. Deep(t) /\ thread'[t].at = "extract" /\ thread[t].at = "request"
    BY <1>3, <1>9, <1>11 DEF Requested, Is, Goto, Thread, Fetching
  <2>2. dir'.stamp = dir.stamp /\ dir'.target = dir.target /\ dir'.archive = {Of(t)}
    BY <1>3, <1>11 DEF Requested, Dir
  <2>3. DirVouched' /\ Pinned(t)'
    BY <1>2, <1>6, <2>1, <2>2 DEF DirVouched, Pinned, Is
  <2>4. ThreadVouched(t)'
    BY <1>1, <1>4, <1>6, <1>7, <2>1, <2>2 DEF ThreadVouched, Deep, OnlyThread, Is, Of
  <2> QED
    BY <1>1, <1>2, <1>7, <2>1, <2>3, <2>4, WorksFrame
<1>12. CASE Extract(t)
  <2>1. Deep(t) /\ thread'[t].at = "copy" /\ Is(t, "extract")
    BY <1>3, <1>9, <1>12 DEF Extract, Is, Goto, Thread, Fetching
  <2>2. dir.archive = {Of(t)}
    BY <1>6, <1>12, <2>1 DEF Extract, ThreadVouched
  <2>3. /\ dir'.stamp = dir.stamp /\ dir'.target = dir.target
        /\ dir'.partial = [ver |-> Want(t), torn |-> FALSE, by |-> {Of(t)}]
    BY <1>3, <1>12, <2>2 DEF Extract, Dir
  <2>4. DirVouched' /\ Pinned(t)'
    BY <1>2, <1>6, <2>1, <2>3 DEF DirVouched, Pinned, Is
  <2>5. ThreadVouched(t)'
    BY <1>1, <1>4, <1>6, <1>7, <2>1, <2>3 DEF ThreadVouched, Deep, OnlyThread, Is, Of
  <2> QED
    BY <1>1, <1>2, <1>7, <2>1, <2>4, <2>5, WorksFrame
<1>13. CASE Renamed(t)
  <2>1. Deep(t) /\ thread'[t].at = "installed" /\ Is(t, "copy") /\ dir.partial # NoFile
    BY <1>3, <1>9, <1>13 DEF Renamed, Is, Goto, Thread, Fetching
  <2>2. dir.partial = [ver |-> Want(t), torn |-> FALSE, by |-> {Of(t)}] /\ dir.stamp <= Want(t)
    BY <1>6, <2>1 DEF ThreadVouched
  <2>3. dir'.stamp = dir.stamp /\ dir'.target = [dir.partial EXCEPT !.by = @ \ {Of(t)}]
    BY <1>3, <1>13 DEF Renamed, Dir
  <2>4. dir'.target.ver = Want(t) /\ Intact(dir'.target)
    BY <2>2, <2>3 DEF Intact
  <2>5. dir.stamp = release => Want(t) = release
    BY <1>5, <2>2
  <2>6. DirVouched' /\ Pinned(t)'
    BY <1>2, <1>6, <2>1, <2>3, <2>4, <2>5 DEF DirVouched, Pinned, Is
  <2>7. ThreadVouched(t)'
    BY <1>1, <1>4, <1>6, <1>7, <2>1, <2>3, <2>4 DEF ThreadVouched, Deep, OnlyThread, Is
  <2> QED
    BY <1>1, <1>2, <1>7, <2>1, <2>6, <2>7, WorksFrame
<1>14. CASE Stamped(t)
  <2>1. Deep(t) /\ Is(t, "installed") /\ dir.target # NoFile
    BY <1>9, <1>14 DEF Stamped, Is, Fetching
  <2>2. thread'[t] = Resting \/ thread'[t].at = "load"
    BY <1>3, <1>14 DEF Stamped, Thread
  <2>3. dir.target.ver = Want(t) /\ dir.stamp <= Want(t)
    BY <1>6, <2>1 DEF ThreadVouched, Is
  <2>4. dir'.stamp \in {Want(t), dir.stamp} /\ dir'.target = dir.target
    BY <1>3, <1>14 DEF Stamped, Dir
  <2>5. dir'.stamp <= Want(t) /\ dir'.stamp <= release /\ (dir'.stamp = release => Want(t) = release)
    BY <1>5, <2>3, <2>4
  <2>6. DirVouched' /\ Pinned(t)'
    BY <1>2, <1>6, <2>2, <2>3, <2>4, <2>5 DEF DirVouched, Pinned, Is, Resting
  <2>7. Deep(t)' => ThreadVouched(t)'
    BY <1>1, <1>4, <1>7, <2>1, <2>2, <2>3, <2>4, <2>5
    DEF ThreadVouched, Deep, OnlyThread, Is, Resting, Fetching
  <2> QED
    BY <1>1, <1>2, <1>7, <2>1, <2>6, <2>7, WorksFrame
<1>15. CASE FetchFails(t)
  <2>1. Deep(t)
    BY <1>9, <1>15 DEF FetchFails
  <2>2. thread'[t] = Resting
    BY <1>3, <1>15 DEF FetchFails, Returns
  <2>3. dir'.stamp = dir.stamp /\ (dir'.target = NoFile \/ dir'.target \in Left(Of(t), dir.target))
    BY <1>3, <1>15 DEF FetchFails, Dir
  <2>4. dir'.target \in {NoFile, dir.target}
    <3>1. dir.target \in File \cup {NoFile} /\ dir.target.by = {}
      BY <1>3, <1>6 DEF Dir, DirVouched, Intact, NoFile
    <3>2. CASE dir'.target \in Left(Of(t), dir.target)
      BY <1>1, <3>1, <3>2, LeftFile
    <3> QED
      BY <2>3, <3>2
  <2>5. DirVouched'
    BY <1>2, <1>6, <2>3, <2>4 DEF DirVouched
  <2>6. Pinned(t)' /\ ~Deep(t)'
    BY <2>2 DEF Pinned, Is, Resting, Deep, Fetching
  <2> QED
    BY <1>1, <1>2, <1>7, <2>1, <2>5, <2>6, WorksFrame
<1>16. CASE LoadFirst(t) \/ Loaded(t)
  <2>1. UNCHANGED dir /\ DirVouched'
    BY <1>2, <1>6, <1>16 DEF LoadFirst, Loaded, DirVouched
  <2>2. CASE thread'[t] = Resting
    <3>1. Pinned(t)' /\ ~Deep(t)'
      BY <2>2 DEF Pinned, Is, Resting, Deep, Fetching
    <3> QED
      BY <1>1, <1>2, <2>1, <3>1, WorksFrame
  <2>3. CASE LoadFirst(t) /\ Candidate # NoFile
    <3>1. thread' = [thread EXCEPT ![t].at = "loading", ![t].lib = Candidate] /\ Is(t, "load")
      BY <2>3 DEF LoadFirst
    <3>2. thread'[t].at = "loading" /\ thread'[t].lib = Candidate /\ thread'[t].job = thread[t].job
      BY <1>3, <3>1 DEF Thread
    <3>3. ~Deep(t)'
      BY <3>2 DEF Deep, Fetching
    <3>4. ASSUME thread[t].job = "setup", elsewhere = "none"
          PROVE  thread'[t].lib.ver = Want(t) /\ Intact(thread'[t].lib)
      <4>1. Deep(t) /\ thread'[t].lib = dir.target /\ dir.target # NoFile
        BY <2>3, <3>1, <3>2, <3>4 DEF Candidate, Deep, Is
      <4> QED
        BY <1>6, <3>1, <4>1 DEF ThreadVouched, DirVouched, Is
    <3>5. Pinned(t)'
      BY <1>2, <1>4, <3>2, <3>4 DEF Pinned
    <3> QED
      BY <1>1, <1>2, <2>1, <3>3, <3>5, WorksFrame
  <2> QED
    BY <1>3, <1>16, <2>2, <2>3 DEF LoadFirst, Loaded, Returns
<1> QED
  BY <1>10, <1>11, <1>12, <1>13, <1>14, <1>15, <1>16 DEF Works

\* What a setup loads from the runtime directory is a whole library of the
\* version its program pins (ensure_runtime_dylib's stamp, the rename of a
\* complete copy), in any number of processes, and threads of each.
THEOREM EnginePinned == EngineSpec => []EngineIsPinned
<1>1. EngineInit => Vouched
  <2> SUFFICES ASSUME EngineInit PROVE Vouched
    OBVIOUS
  <2>1. DirVouched /\ \A p \in Programs : ~program[p].up
    BY ReleasesAssumption DEF EngineInit, DirVouched, Down
  <2>2. \A t \in Threads : thread[t].at = "idle"
    BY DEF EngineInit, Resting
  <2> QED
    BY <2>1, <2>2 DEF Vouched, ThreadVouched, Pinned, Deep, Is, Fetching
<1>2. EngineTypeOK /\ OneSetup /\ Vouched /\ [EngineNext]_engineVars => Vouched'
  <2> SUFFICES ASSUME EngineTypeOK, OneSetup, Vouched, [EngineNext]_engineVars PROVE Vouched'
    OBVIOUS
  <2>1. CASE UNCHANGED engineVars
    BY <2>1 DEF engineVars, Vouched, DirVouched, ThreadVouched, Pinned, Deep, Is, Want
  <2>2. CASE EngineNext
    <3>1. CASE upset'
      BY <3>1 DEF Vouched
    <3>2. CASE ~upset'
      BY <2>2, <3>2, OthersVouched, CallersVouched, WorksVouched DEF EngineNext
    <3> QED
      BY <3>1, <3>2
  <2> QED
    BY <2>1, <2>2
<1>3. Vouched => EngineIsPinned
  BY DEF Vouched, Pinned, EngineIsPinned, Intact
<1> QED
  BY <1>1, <1>2, <1>3, EngineTypeCorrect, OneSetupCorrect, PTL DEF EngineSpec

-----------------------------------------------------------------------------
(***************************************************************************)
(* The store of models.                                                    *)
(***************************************************************************)

TaskStages == {"idle", "enter", "head", "send", "create", "select", "write", "rename",
               "completed", "cancelled", "failed"}
FetchStages == {"idle", "enter", "head", "send", "completed", "failed"}
Content == (SUBSET Whole) \cup {None}
TaskRecord == [at : TaskStages, todo : Seq(Models), art : Nat, open : Names \cup {None},
               got : 0 .. Chunks]
FilesOf(m) == {"partial", "final"} \X Artifacts(m)

StoreTypes ==
  /\ dirs \subseteq Models
  /\ disk \in [Names -> Content]
  /\ task \in [Tasks -> TaskRecord]
  /\ cancels \in [Models -> Pulls \cup {None}]
  /\ shared \subseteq Models
  /\ events \in 0 .. MaxEvents

\* A task that is not idle has a model and an artifact; what it has open is
\* there and is a file of that model.
Shaped(t, r) ==
  /\ r.at # "idle" => Len(r.todo) > 0 /\ r.art \in 1 .. Len(Registry[Head(r.todo)])
  /\ r.at \notin {"select", "write"} => r.open = None
  /\ r.at \notin {"select", "write", "rename"} => r.got = 0
  /\ r.at = "write" => r.got < Chunks
  /\ t \in Fetches => r.at \in FetchStages
TasksShaped ==
  \A t \in Tasks :
    /\ Shaped(t, task[t])
    /\ task[t].open # None => task[t].open \in FilesOf(Model(t)) /\ disk[task[t].open] # None

\* A notifier is that of a pull that works on the model.
CancelsInv == \A m \in Models : cancels[m] # None => cancels[m] \in Working(m)

FilesInDirs == \A m \in Models \ dirs : \A n \in FilesOf(m) : disk[n] = None

\* What a task knows of the file it streams: it holds what was received, or
\* somebody removed it and nobody made another.
Mine(t) ==
  /\ task[t].at \in {"select", "write"} =>
       \/ task[t].open = None /\ disk[Partial(Art(t))] = None
       \/ task[t].open = Partial(Art(t)) /\ disk[Partial(Art(t))] = 1 .. task[t].got
  /\ task[t].at = "rename" => disk[Partial(Art(t))] \in {None} \cup Untorn

\* A model that was never shared has one task at most.
FinalsUntorn(m) == \A a \in Artifacts(m) : disk[Final(a)] \in {None} \cup Untorn
Lone(m) ==
  /\ \A t, u \in Working(m) : t = u
  /\ FinalsUntorn(m)
  /\ \A t \in Working(m) : Mine(t)
LoneInv == \A m \in Models \ shared : Lone(m)

StoreInv ==
  /\ StoreTypes
  /\ TasksShaped
  /\ CancelsInv
  /\ FilesInDirs
  /\ LoneInv

\* The files of two models are different files.
LEMMA FileFacts ==
  ASSUME NEW m \in Models
  PROVE  /\ Len(Registry[m]) \in Nat /\ Len(Registry[m]) > 0
         /\ FilesOf(m) \subseteq Names
         /\ \A a \in Artifacts(m) : Partial(a) \in FilesOf(m) /\ Final(a) \in FilesOf(m)
         /\ \A n \in FilesOf(m) : \E a \in Artifacts(m) : n = Partial(a) \/ n = Final(a)
         /\ \A n \in Models : FilesOf(m) \cap FilesOf(n) # {} => m = n
<1>1. Len(Registry[m]) \in Nat /\ Len(Registry[m]) > 0
  BY RegistryAssumption, ModelsAssumption
<1>2. \A n \in Models : FilesOf(m) \cap FilesOf(n) # {} => m = n
  BY RegistryAssumption DEF FilesOf
<1>3. FilesOf(m) \subseteq Names
  BY DEF FilesOf, Names
<1>. QED  BY <1>1, <1>2, <1>3 DEF FilesOf, Partial, Final

LEMMA NamesApart ==
  ASSUME NEW a, NEW b
  PROVE  Partial(a) # Final(b) /\ (Partial(a) = Partial(b) => a = b)
         /\ (Final(a) = Final(b) => a = b)
BY DEF Partial, Final

LEMMA NoneApart ==
  /\ None \notin Tasks /\ None \notin Names /\ Whole \in SUBSET Whole /\ {} \in SUBSET Whole
  /\ \A chunks \in SUBSET Whole : chunks # None
  /\ Untorn \subseteq SUBSET Whole /\ Whole \in Untorn
<1>1. /\ None \notin Tasks /\ None \notin Names /\ Whole \in SUBSET Whole /\ {} \in SUBSET Whole
      /\ \A chunks \in SUBSET Whole : chunks # None
  BY NoneAssumption DEF Whole
<1>2. \A n \in Enough .. Chunks : 1 .. n \in SUBSET Whole
  BY ChunksAssumption DEF Whole
<1>3. Chunks \in Enough .. Chunks
  BY ChunksAssumption
<1>. QED  BY <1>1, <1>2, <1>3 DEF Untorn, Whole

LEMMA ModelOf ==
  ASSUME StoreTypes, NEW t \in Tasks, Shaped(t, task[t]), task[t].at # "idle"
  PROVE  /\ Model(t) \in Models /\ Art(t) \in Artifacts(Model(t))
         /\ Partial(Art(t)) \in FilesOf(Model(t)) /\ Final(Art(t)) \in FilesOf(Model(t))
         /\ Partial(Art(t)) \in Names /\ Final(Art(t)) \in Names
<1>1. task[t].todo \in Seq(Models) /\ Len(task[t].todo) > 0
  BY DEF StoreTypes, TaskRecord, Shaped
<1>2. Model(t) \in Models
  BY <1>1 DEF Model
<1>3. Art(t) \in Artifacts(Model(t))
  BY DEF Shaped, Art, Model, Artifacts
<1>. QED  BY <1>2, <1>3, FileFacts

-----------------------------------------------------------------------------
\* What the step of a task leaves alone, and what the tasks that have its
\* model's files open see of it.
Local(t) ==
  /\ disk' \in [Names -> Content]
  /\ \A n \in Names \ FilesOf(Model(t)) : disk'[n] = disk[n]
  /\ \A u \in Tasks \ {t} :
       /\ task'[u] \in TaskRecord
       /\ task'[u].at = task[u].at /\ task'[u].todo = task[u].todo
       /\ task'[u].art = task[u].art /\ task'[u].got = task[u].got
       /\ \/ task'[u].open = task[u].open
          \/ /\ task[u].open \in FilesOf(Model(t))
             /\ task'[u].open \in FilesOf(Model(t)) \cup {None}
       /\ task'[u].open # None => disk'[task'[u].open] # None

\* The record that replaces that of t.
Becomes(t, r) ==
  /\ task' \in [Tasks -> TaskRecord] /\ task'[t] = r

Fit(t, r) ==
  /\ r \in TaskRecord
  /\ r.todo = task[t].todo /\ r.art \in 1 .. Len(Registry[Model(t)])
  /\ r.at \notin {"idle", "enter"}
  /\ t \in Fetches => r.at \in FetchStages

\* A task between two files.
Calm(r) == r.open = None /\ r.got = 0 /\ r.at \notin {"select", "write", "rename"}

\* A file that a task has open is there.
LEMMA OpenIsThere ==
  ASSUME StoreInv, NEW u \in Tasks
  PROVE  /\ task[u] \in TaskRecord
         /\ task[u].open \in Names \cup {None}
         /\ task[u].open # None => task[u].open \in FilesOf(Model(u)) /\ disk[task[u].open] # None
BY DEF StoreInv, StoreTypes, TasksShaped, TaskRecord

LEMMA SameOpen ==
  ASSUME NEW r \in TaskRecord
  PROVE  [r EXCEPT !.open = r.open] = r
BY DEF TaskRecord

LEMMA QuietStep ==
  ASSUME StoreInv, NEW t \in Tasks, NEW r \in TaskRecord,
         UNCHANGED disk, task' = [task EXCEPT ![t] = r]
  PROVE  Local(t) /\ Becomes(t, r)
<1>1. task' \in [Tasks -> TaskRecord] /\ task'[t] = r
      /\ \A u \in Tasks \ {t} : task'[u] = task[u]
  BY DEF StoreInv, StoreTypes
<1>2. disk' = disk /\ disk \in [Names -> Content]
  BY DEF StoreInv, StoreTypes
<1>3. \A u \in Tasks : task[u].open # None => disk[task[u].open] # None
  BY OpenIsThere
<1>4. ASSUME NEW u \in Tasks \ {t}
      PROVE  task'[u].open # None => disk'[task'[u].open] # None
  <2>1. task'[u].open = task[u].open
    BY <1>1
  <2>. QED  BY <1>2, <1>3, <2>1, Zenon
<1>5. Local(t)
  BY <1>1, <1>2, <1>4 DEF Local
<1>. QED  BY <1>1, <1>5 DEF Becomes

\* What is left of the files and of the tasks that have them open.
LEMMA WithoutForm ==
  ASSUME StoreInv, NEW s \in [Tasks -> TaskRecord], NEW names, Without(names, s)
  PROVE  /\ disk' \in [Names -> Content]
         /\ \A n \in Names : disk'[n] = IF n \in names THEN None ELSE disk[n]
         /\ task' \in [Tasks -> TaskRecord]
         /\ \A u \in Tasks :
              /\ task'[u].at = s[u].at /\ task'[u].todo = s[u].todo
              /\ task'[u].art = s[u].art /\ task'[u].got = s[u].got
              /\ task'[u].open = IF s[u].open \in names THEN None ELSE s[u].open
              /\ s[u].open \notin names => task'[u] = s[u]
<1>1. /\ disk' \in [Names -> Content]
      /\ \A n \in Names : disk'[n] = IF n \in names THEN None ELSE disk[n]
  BY DEF Without, StoreInv, StoreTypes, Content
<1>2. ASSUME NEW u \in Tasks
      PROVE  /\ task'[u] \in TaskRecord
             /\ task'[u].at = s[u].at /\ task'[u].todo = s[u].todo
             /\ task'[u].art = s[u].art /\ task'[u].got = s[u].got
             /\ task'[u].open = IF s[u].open \in names THEN None ELSE s[u].open
             /\ s[u].open \notin names => task'[u] = [s[u] EXCEPT !.open = s[u].open]
  <2>1. PICK open \in Names \cup {None} : open = IF s[u].open \in names THEN None ELSE s[u].open
    BY DEF TaskRecord
  <2>2. task'[u] = [s[u] EXCEPT !.open = open]
    BY <2>1 DEF Without
  <2>. QED  BY <2>1, <2>2 DEF TaskRecord
<1>3. task' \in [Tasks -> TaskRecord]
  <2>1. task' = [u \in Tasks |-> task'[u]]
    BY DEF Without
  <2>. QED  BY <1>2, <2>1
<1>4. \A u \in Tasks : s[u].open \notin names => task'[u] = s[u]
  BY <1>2, SameOpen
<1>. QED  BY <1>1, <1>2, <1>3, <1>4

\* Without, of files of this model.
LEMMA WithoutStep ==
  ASSUME StoreInv, NEW t \in Tasks, NEW r \in TaskRecord, r.open = None,
         NEW names \in SUBSET (FilesOf(Model(t)) \cap Names),
         Without(names, [task EXCEPT ![t] = r])
  PROVE  /\ Local(t) /\ Becomes(t, r)
         /\ \A n \in Names : disk'[n] = IF n \in names THEN None ELSE disk[n]
<1>. DEFINE s == [task EXCEPT ![t] = r]
<1>1. s \in [Tasks -> TaskRecord] /\ s[t] = r /\ \A u \in Tasks \ {t} : s[u] = task[u]
  BY DEF StoreInv, StoreTypes
<1>2. Without(names, s)
  OBVIOUS
<1>. HIDE DEF s
<1>3. /\ disk' \in [Names -> Content]
      /\ \A n \in Names : disk'[n] = IF n \in names THEN None ELSE disk[n]
  BY <1>1, <1>2, WithoutForm
<1>4. task' \in [Tasks -> TaskRecord]
  BY <1>1, <1>2, WithoutForm
<1>5. \A u \in Tasks :
        /\ task'[u].at = s[u].at /\ task'[u].todo = s[u].todo
        /\ task'[u].art = s[u].art /\ task'[u].got = s[u].got
        /\ task'[u].open = IF s[u].open \in names THEN None ELSE s[u].open
        /\ s[u].open \notin names => task'[u] = s[u]
  BY <1>1, <1>2, WithoutForm
<1>6. task'[t] = r
  <2>1. r.open \notin names
    BY NoneApart
  <2>. QED  BY <1>1, <1>5, <2>1
<1>7. Local(t)
  <2>1. ASSUME NEW u \in Tasks \ {t}
        PROVE  /\ \/ task'[u].open = task[u].open
                  \/ task[u].open \in FilesOf(Model(t)) /\ task'[u].open = None
               /\ task'[u].open # None => disk'[task'[u].open] # None
    <3>1. task'[u].open = IF task[u].open \in names THEN None ELSE task[u].open
      BY <1>1, <1>5
    <3>2. CASE task[u].open \in names
      BY <3>1, <3>2
    <3>3. CASE task[u].open \notin names
      <4>1. task'[u].open = task[u].open
        BY <3>1, <3>3
      <4>2. /\ task[u].open \in Names \cup {None}
            /\ task[u].open # None => disk[task[u].open] # None
        BY OpenIsThere
      <4>3. task[u].open # None => disk'[task[u].open] = disk[task[u].open]
        BY <1>3, <3>3, <4>2
      <4>. QED  BY <4>1, <4>2, <4>3, Zenon
    <3>. QED  BY <3>2, <3>3
  <2>. QED  BY <1>1, <1>3, <1>4, <1>5, <2>1 DEF Local
<1>. QED  BY <1>3, <1>4, <1>6, <1>7 DEF Becomes

\* A file lands: whoever had X.partial open has X open.
LEMMA LandStep ==
  ASSUME StoreInv, NEW t \in Tasks, task[t].at # "idle", NEW r \in TaskRecord, r.open = None,
         NEW chunks \in SUBSET Whole,
         Land(Art(t), chunks, [task EXCEPT ![t] = r])
  PROVE  /\ Local(t) /\ Becomes(t, r)
         /\ disk'[Final(Art(t))] = chunks
         /\ \A n \in Names \ {Final(Art(t)), Partial(Art(t))} : disk'[n] = disk[n]
<1>. DEFINE s == [task EXCEPT ![t] = r]
            p == Partial(Art(t))
            f == Final(Art(t))
<1>1. p \in FilesOf(Model(t)) /\ f \in FilesOf(Model(t)) /\ p \in Names /\ f \in Names
      /\ p # f /\ None \notin Names
  BY ModelOf, NamesApart, NoneApart DEF StoreInv, TasksShaped
<1>2. s \in [Tasks -> TaskRecord] /\ s[t] = r /\ \A u \in Tasks \ {t} : s[u] = task[u]
  BY DEF StoreInv, StoreTypes
<1>3. /\ disk' = [disk EXCEPT ![p] = None, ![f] = chunks]
      /\ task' = [u \in Tasks |-> [s[u] EXCEPT !.open =
                    IF @ = p THEN f ELSE IF @ = f THEN None ELSE @]]
  BY DEF Land
<1>. HIDE DEF s, p, f
<1>4. /\ disk' \in [Names -> Content] /\ disk'[f] = chunks
      /\ \A n \in Names \ {f, p} : disk'[n] = disk[n]
  BY <1>1, <1>3 DEF StoreInv, StoreTypes, Content
<1>5. ASSUME NEW u \in Tasks
      PROVE  /\ task'[u] \in TaskRecord
             /\ task'[u].at = s[u].at /\ task'[u].todo = s[u].todo
             /\ task'[u].art = s[u].art /\ task'[u].got = s[u].got
             /\ task'[u].open = IF s[u].open = p THEN f
                                ELSE IF s[u].open = f THEN None ELSE s[u].open
             /\ s[u].open \notin {p, f} => task'[u] = [s[u] EXCEPT !.open = s[u].open]
  <2>1. PICK open \in Names \cup {None} :
          open = IF s[u].open = p THEN f ELSE IF s[u].open = f THEN None ELSE s[u].open
    BY <1>1, <1>2 DEF TaskRecord
  <2>2. task'[u] = [s[u] EXCEPT !.open = open]
    BY <1>3, <2>1
  <2>. QED  BY <1>2, <2>1, <2>2 DEF TaskRecord
<1>6. task' \in [Tasks -> TaskRecord]
  <2>1. task' = [u \in Tasks |-> task'[u]]
    BY <1>3
  <2>. QED  BY <1>5, <2>1
<1>7. task'[t] = r
  BY <1>1, <1>2, <1>5, SameOpen
<1>8. Local(t)
  <2>1. ASSUME NEW u \in Tasks \ {t}
        PROVE  /\ \/ task'[u].open = task[u].open
                  \/ /\ task[u].open \in FilesOf(Model(t))
                     /\ task'[u].open \in FilesOf(Model(t)) \cup {None}
               /\ task'[u].open # None => disk'[task'[u].open] # None
    <3>1. task'[u].open = IF task[u].open = p THEN f
                          ELSE IF task[u].open = f THEN None ELSE task[u].open
      BY <1>2, <1>5
    <3>2. CASE task[u].open = p
      BY <1>1, <1>4, <3>1, <3>2, NoneApart
    <3>3. CASE task[u].open = f
      BY <1>1, <3>1, <3>3
    <3>4. CASE task[u].open \notin {p, f}
      <4>1. task'[u].open = task[u].open
        BY <3>1, <3>4
      <4>2. /\ task[u].open \in Names \cup {None}
            /\ task[u].open # None => disk[task[u].open] # None
        BY OpenIsThere
      <4>3. task[u].open # None => disk'[task[u].open] = disk[task[u].open]
        BY <1>4, <3>4, <4>2
      <4>. QED  BY <4>1, <4>2, <4>3, Zenon
    <3>. QED  BY <3>2, <3>3, <3>4
  <2>2. \A n \in Names \ FilesOf(Model(t)) : disk'[n] = disk[n]
    BY <1>1, <1>4
  <2>3. \A u \in Tasks \ {t} :
          /\ task'[u] \in TaskRecord
          /\ task'[u].at = task[u].at /\ task'[u].todo = task[u].todo
          /\ task'[u].art = task[u].art /\ task'[u].got = task[u].got
    BY <1>2, <1>5
  <2>4. disk' \in [Names -> Content]
    BY <1>4
  <2>. QED  BY <2>1, <2>2, <2>3, <2>4, Zenon DEF Local
<1>. QED  BY <1>4, <1>6, <1>7, <1>8 DEF Becomes, p, f

-----------------------------------------------------------------------------
\* What a step of t means to the other tasks: they are where they were, and one
\* on another model sees the files it saw.
LEMMA OthersStep ==
  ASSUME StoreInv, NEW t \in Tasks, task[t].at # "idle", Local(t), NEW u \in Tasks \ {t}
  PROVE  /\ Shaped(u, task'[u])
         /\ task'[u].open # None =>
              task'[u].open \in FilesOf(Model(u)') /\ disk'[task'[u].open] # None
         /\ Model(u)' = Model(u) /\ task'[u].at = task[u].at
         /\ task[u].at # "idle" /\ Model(u) # Model(t) /\ Mine(u) => Mine(u)'
<1>1. u \in Tasks /\ Shaped(u, task[u]) /\ Shaped(t, task[t]) /\ StoreTypes
  BY DEF StoreInv, TasksShaped
<1>2. /\ task'[u].at = task[u].at /\ task'[u].todo = task[u].todo
      /\ task'[u].art = task[u].art /\ task'[u].got = task[u].got
      /\ task'[u].open # None => disk'[task'[u].open] # None
      /\ \/ task'[u].open = task[u].open
         \/ /\ task[u].open \in FilesOf(Model(t))
            /\ task'[u].open \in FilesOf(Model(t)) \cup {None}
  BY DEF Local
<1>3. Model(t) \in Models /\ FilesOf(Model(t)) \subseteq Names
      /\ (\A n \in Models : FilesOf(Model(t)) \cap FilesOf(n) # {} => Model(t) = n)
  <2>1. Model(t) \in Models
    BY <1>1, ModelOf
  <2>. QED  BY <2>1, FileFacts
<1>4. /\ task[u].open = None => task'[u].open = None
      /\ task[u].open # None => task[u].at # "idle" /\ task[u].open \in FilesOf(Model(u))
  <2>1. None \notin FilesOf(Model(t))
    BY <1>3, NoneApart
  <2>2. task[u].open # None => task[u].at # "idle"
    BY <1>1 DEF Shaped
  <2>. QED  BY <1>2, <2>1, <2>2, OpenIsThere
<1>5. Model(u)' = Model(u) /\ Art(u)' = Art(u)
  BY <1>2 DEF Model, Art
<1>6. Shaped(u, task'[u])
  BY <1>1, <1>2, <1>4 DEF Shaped
<1>7. ASSUME task'[u].open # None
      PROVE  task'[u].open \in FilesOf(Model(u)')
  <2>1. task[u].open # None /\ task[u].open \in FilesOf(Model(u)) /\ task[u].at # "idle"
    BY <1>4, <1>7
  <2>2. Model(u) \in Models
    BY <1>1, <2>1, ModelOf
  <2>3. CASE task'[u].open = task[u].open
    BY <1>5, <2>1, <2>3
  <2>4. CASE task'[u].open # task[u].open
    <3>1. task[u].open \in FilesOf(Model(t)) /\ task'[u].open \in FilesOf(Model(t))
      BY <1>2, <1>7, <2>4
    <3>2. Model(t) = Model(u)
      BY <1>3, <2>1, <2>2, <3>1
    <3>. QED  BY <1>5, <3>1, <3>2
  <2>. QED  BY <2>3, <2>4
<1>8. ASSUME task[u].at # "idle", Model(u) # Model(t), Mine(u)
      PROVE  Mine(u)'
  <2>1. /\ Model(u) \in Models /\ Partial(Art(u)) \in FilesOf(Model(u))
        /\ Partial(Art(u)) \in Names
    BY <1>1, <1>8, ModelOf
  <2>2. FilesOf(Model(t)) \cap FilesOf(Model(u)) = {}
    BY <1>3, <1>8, <2>1
  <2>3. disk'[Partial(Art(u))] = disk[Partial(Art(u))]
    BY <2>1, <2>2 DEF Local
  <2>4. task'[u].open = task[u].open
    BY <1>2, <1>4, <2>2
  <2>5. Partial(Art(u))' = Partial(Art(u))
    BY <1>5 DEF Partial
  <2>. QED  BY <1>2, <1>8, <2>3, <2>4, <2>5 DEF Mine
<1>. QED  BY <1>2, <1>5, <1>6, <1>7, <1>8

\* A step of a task at work, which stays at work on the same model.
LEMMA WorkStep ==
  ASSUME StoreInv, NEW t \in Tasks, task[t].at \notin {"idle", "enter"},
         NEW r \in TaskRecord, Local(t), Becomes(t, r), Fit(t, r), Shaped(t, r),
         r.open # None => r.open \in FilesOf(Model(t)) /\ disk'[r.open] # None,
         UNCHANGED <<dirs, cancels, shared, events>>,
         Model(t) \notin dirs => \A n \in FilesOf(Model(t)) : disk'[n] = None,
         Model(t) \notin shared =>
           (\A a \in Artifacts(Model(t)) : disk'[Final(a)] \in {None} \cup Untorn) /\ Mine(t)'
  PROVE  StoreInv'
<1>1. /\ StoreTypes /\ task[t].at # "idle"
      /\ task'[t] = r /\ r.todo = task[t].todo /\ r.at \notin {"idle", "enter"}
      /\ Model(t)' = Model(t)
  BY DEF StoreInv, Becomes, Fit, Model
<1>2. Model(t) \in Models
  BY <1>1, ModelOf DEF StoreInv, TasksShaped
<1>3. \A m \in Models : Working(m)' = Working(m)
  <2>1. \A u \in Tasks : /\ task'[u].at \notin {"idle", "enter"} <=> task[u].at \notin {"idle", "enter"}
                         /\ Model(u)' = Model(u)
    BY <1>1, OthersStep
  <2>. QED  BY <2>1 DEF Working
<1>4. StoreTypes'
  BY DEF StoreInv, StoreTypes, Local, Becomes
<1>5. TasksShaped'
  <2>1. ASSUME NEW u \in Tasks
        PROVE  Shaped(u, task'[u])
               /\ (task'[u].open # None => task'[u].open \in FilesOf(Model(u)') /\ disk'[task'[u].open] # None)
    <3>1. CASE u = t
      BY <1>1, <3>1
    <3>2. CASE u # t
      BY <1>1, <3>2, OthersStep
    <3>. QED  BY <3>1, <3>2
  <2>. QED  BY <2>1 DEF TasksShaped, Shaped, FilesOf
<1>6. CancelsInv'
  BY <1>3 DEF StoreInv, CancelsInv
<1>7. FilesInDirs'
  <2>1. ASSUME NEW m \in Models \ dirs, NEW n \in FilesOf(m)
        PROVE  disk'[n] = None
    <3>1. CASE m = Model(t)
      BY <2>1, <3>1
    <3>2. CASE m # Model(t)
      <4>1. n \in Names \ FilesOf(Model(t))
        BY <1>2, <3>2, FileFacts
      <4>. QED  BY <4>1 DEF Local, StoreInv, FilesInDirs
    <3>. QED  BY <3>1, <3>2
  <2>. QED  BY <2>1 DEF FilesInDirs, FilesOf
<1>8. LoneInv'
  <2>1. ASSUME NEW m \in Models \ shared
        PROVE  Lone(m)'
    <3>1. Lone(m)
      BY DEF StoreInv, LoneInv
    <3>2. \A v, u \in Working(m)' : v = u
      BY <1>3, <3>1 DEF Lone
    <3>3. CASE m = Model(t)
      <4>1. t \in Working(m)
        BY <3>3 DEF Working
      <4>2. \A u \in Working(m)' : u = t
        BY <1>3, <3>1, <4>1 DEF Lone
      <4>. QED  BY <3>2, <3>3, <4>2 DEF Lone, FinalsUntorn, Artifacts, Final
    <3>4. CASE m # Model(t)
      <4>1. \A a \in Artifacts(m) : disk'[Final(a)] = disk[Final(a)]
        BY <1>2, <3>4, FileFacts DEF Local
      <4>2. ASSUME NEW u \in Working(m)
            PROVE  Mine(u)'
        BY <1>1, <3>1, <3>4, OthersStep DEF Working, Lone
      <4>. QED  BY <1>3, <3>1, <3>2, <4>1, <4>2 DEF Lone, FinalsUntorn, Artifacts, Final
    <3>. QED  BY <3>3, <3>4
  <2>. QED  BY <2>1 DEF LoneInv
<1>. QED  BY <1>4, <1>5, <1>6, <1>7, <1>8 DEF StoreInv

-----------------------------------------------------------------------------
\* Steps that leave their task between two files.

LEMMA AtWork ==
  ASSUME StoreInv, NEW t \in Tasks, task[t].at \notin {"idle", "enter"}
  PROVE  /\ StoreTypes /\ task[t] \in TaskRecord /\ Shaped(t, task[t])
         /\ Model(t) \in Models /\ Art(t) \in Artifacts(Model(t))
         /\ Partial(Art(t)) \in FilesOf(Model(t)) \cap Names
         /\ Final(Art(t)) \in FilesOf(Model(t)) \cap Names
         /\ t \in Working(Model(t))
         /\ Model(t) \notin shared => FinalsUntorn(Model(t)) /\ Mine(t)
         /\ Model(t) \notin dirs => \A n \in FilesOf(Model(t)) : disk[n] = None
<1>1. StoreTypes /\ task[t] \in TaskRecord /\ Shaped(t, task[t]) /\ t \in Working(Model(t))
  BY DEF StoreInv, StoreTypes, TasksShaped, Working
<1>2. Model(t) \in Models /\ Art(t) \in Artifacts(Model(t))
      /\ Partial(Art(t)) \in FilesOf(Model(t)) \cap Names
      /\ Final(Art(t)) \in FilesOf(Model(t)) \cap Names
  BY <1>1, ModelOf
<1>3. Model(t) \notin shared => FinalsUntorn(Model(t)) /\ Mine(t)
  BY <1>1, <1>2 DEF StoreInv, LoneInv, Lone
<1>4. Model(t) \notin dirs => \A n \in FilesOf(Model(t)) : disk[n] = None
  BY <1>2 DEF StoreInv, FilesInDirs
<1>. QED  BY <1>1, <1>2, <1>3, <1>4

LEMMA CalmStep ==
  ASSUME StoreInv, NEW t \in Tasks, task[t].at \notin {"idle", "enter"},
         NEW r \in TaskRecord, Local(t), Becomes(t, r), Fit(t, r), Calm(r),
         UNCHANGED <<dirs, cancels, shared, events>>,
         Model(t) \notin dirs => \A n \in FilesOf(Model(t)) : disk'[n] = None,
         Model(t) \notin shared => \A a \in Artifacts(Model(t)) : disk'[Final(a)] \in {None} \cup Untorn
  PROVE  StoreInv'
<1>1. Shaped(t, r)
  <2>1. task[t].todo \in Seq(Models) /\ Len(task[t].todo) > 0
    BY AtWork DEF Shaped, TaskRecord
  <2>. QED  BY <2>1 DEF Fit, Calm, Shaped, Model
<1>2. Mine(t)'
  BY DEF Becomes, Calm, Mine
<1>3. r.open = None
  BY DEF Calm
<1>. QED  BY <1>1, <1>2, <1>3, WorkStep

LEMMA CalmQuiet ==
  ASSUME StoreInv, NEW t \in Tasks, task[t].at \notin {"idle", "enter"},
         NEW r \in TaskRecord, Fit(t, r), Calm(r),
         task' = [task EXCEPT ![t] = r],
         UNCHANGED <<dirs, disk, cancels, shared, events>>
  PROVE  StoreInv'
<1>1. Local(t) /\ Becomes(t, r)
  BY QuietStep
<1>2. /\ Model(t) \notin dirs => \A n \in FilesOf(Model(t)) : disk'[n] = None
      /\ Model(t) \notin shared => \A a \in Artifacts(Model(t)) : disk'[Final(a)] \in {None} \cup Untorn
  BY AtWork DEF FinalsUntorn
<1>. QED  BY <1>1, <1>2, CalmStep

LEMMA CalmWithout ==
  ASSUME StoreInv, NEW t \in Tasks, task[t].at \notin {"idle", "enter"},
         NEW r \in TaskRecord, Fit(t, r), Calm(r),
         NEW names \in SUBSET (FilesOf(Model(t)) \cap Names),
         Without(names, [task EXCEPT ![t] = r]),
         UNCHANGED <<dirs, cancels, shared, events>>
  PROVE  StoreInv'
<1>1. /\ Local(t) /\ Becomes(t, r)
      /\ \A n \in Names : disk'[n] = IF n \in names THEN None ELSE disk[n]
  BY WithoutStep DEF Calm
<1>2. FilesOf(Model(t)) \subseteq Names /\ \A a \in Artifacts(Model(t)) : Final(a) \in Names
  BY AtWork, FileFacts
<1>3. /\ Model(t) \notin dirs => \A n \in FilesOf(Model(t)) : disk'[n] = None
      /\ Model(t) \notin shared => \A a \in Artifacts(Model(t)) : disk'[Final(a)] \in {None} \cup Untorn
  BY <1>1, <1>2, AtWork DEF FinalsUntorn
<1>. QED  BY <1>1, <1>3, CalmStep

LEMMA CalmLand ==
  ASSUME StoreInv, NEW t \in Tasks, task[t].at \notin {"idle", "enter"},
         NEW r \in TaskRecord, Fit(t, r), Calm(r),
         NEW chunks \in SUBSET Whole, Model(t) \notin shared => chunks \in Untorn,
         Model(t) \in dirs,
         Land(Art(t), chunks, [task EXCEPT ![t] = r]),
         UNCHANGED <<dirs, cancels, shared, events>>
  PROVE  StoreInv'
<1>1. /\ Local(t) /\ Becomes(t, r)
      /\ disk'[Final(Art(t))] = chunks
      /\ \A n \in Names \ {Final(Art(t)), Partial(Art(t))} : disk'[n] = disk[n]
  BY LandStep DEF Calm
<1>2. \A a \in Artifacts(Model(t)) : Final(a) \in Names /\ Final(a) # Partial(Art(t))
  BY AtWork, FileFacts, NamesApart
<1>3. Model(t) \notin shared => \A a \in Artifacts(Model(t)) : disk'[Final(a)] \in {None} \cup Untorn
  BY <1>1, <1>2, AtWork DEF FinalsUntorn
<1>. QED  BY <1>1, <1>3, CalmStep

\* What t is when it goes on to the next artifact, or stops.
LEMMA OnwardForm ==
  ASSUME StoreInv, NEW t \in Tasks, task[t].at \notin {"idle", "enter"}
  PROVE  \E r \in TaskRecord : Onward(t) = [task EXCEPT ![t] = r] /\ Fit(t, r) /\ Calm(r)
<1>1. task[t] \in TaskRecord /\ Shaped(t, task[t]) /\ task \in [Tasks -> TaskRecord]
      /\ Len(Registry[Model(t)]) \in Nat /\ task[t].art \in 1 .. Len(Registry[Model(t)])
      /\ 0 \in 0 .. Chunks
  <2>1. StoreTypes /\ task[t] \in TaskRecord /\ Shaped(t, task[t]) /\ Model(t) \in Models
    BY AtWork
  <2>2. 0 \in 0 .. Chunks
    BY ChunksAssumption
  <2>3. Len(Registry[Model(t)]) \in Nat
    BY <2>1, FileFacts
  <2>. QED  BY <2>1, <2>2, <2>3 DEF StoreTypes, Shaped, Model
<1>2. CASE task[t].art < Len(Registry[Model(t)])
  <2>. DEFINE r == [task[t] EXCEPT !.at = "head", !.art = @ + 1, !.open = None, !.got = 0]
  <2>1. Onward(t) = [task EXCEPT ![t] = r]
    BY <1>1, <1>2 DEF Onward
  <2>2. PICK next \in Nat : next = task[t].art + 1 /\ next \in 1 .. Len(Registry[Model(t)])
    BY <1>1, <1>2
  <2>3. r = [task[t] EXCEPT !.at = "head", !.art = next, !.open = None, !.got = 0]
    BY <2>2
  <2>4. r \in TaskRecord /\ Fit(t, r) /\ Calm(r)
    BY <1>1, <2>2, <2>3 DEF TaskRecord, TaskStages, FetchStages, Fit, Calm
  <2>. QED  BY <2>1, <2>4
<1>3. CASE ~(task[t].art < Len(Registry[Model(t)]))
  <2>. DEFINE r == [task[t] EXCEPT !.at = "completed", !.open = None, !.got = 0]
  <2>1. Onward(t) = [task EXCEPT ![t] = r]
    BY <1>1, <1>3 DEF Onward
  <2>2. r \in TaskRecord /\ Fit(t, r) /\ Calm(r)
    BY <1>1 DEF TaskRecord, TaskStages, FetchStages, Fit, Calm
  <2>. QED  BY <2>1, <2>2
<1>. QED  BY <1>2, <1>3

LEMMA StopForm ==
  ASSUME StoreInv, NEW t \in Tasks, task[t].at \notin {"idle", "enter"},
         NEW end \in {"failed", "completed"}
  PROVE  \E r \in TaskRecord : Stop(t, end) = [task EXCEPT ![t] = r] /\ Fit(t, r) /\ Calm(r)
<1>1. task[t] \in TaskRecord /\ Shaped(t, task[t]) /\ task \in [Tasks -> TaskRecord]
      /\ task[t].art \in 1 .. Len(Registry[Model(t)]) /\ 0 \in 0 .. Chunks
  <2>1. StoreTypes /\ task[t] \in TaskRecord /\ Shaped(t, task[t]) /\ Model(t) \in Models
    BY AtWork
  <2>2. 0 \in 0 .. Chunks
    BY ChunksAssumption
  <2>. QED  BY <2>1, <2>2 DEF StoreTypes, Shaped, Model
<1>. DEFINE r == [task[t] EXCEPT !.at = end, !.open = None, !.got = 0]
<1>2. Stop(t, end) = [task EXCEPT ![t] = r]
  BY <1>1 DEF Stop
<1>3. r \in TaskRecord /\ Fit(t, r) /\ Calm(r)
  BY <1>1 DEF TaskRecord, TaskStages, FetchStages, Fit, Calm
<1>. QED  BY <1>2, <1>3

\* A stage between two files.
LEMMA StageForm ==
  ASSUME StoreInv, NEW t \in Tasks, task[t].at \in {"head", "send"},
         NEW stage \in {"send", "create"}, stage = "create" => t \in Pulls
  PROVE  \E r \in TaskRecord : [task EXCEPT ![t].at = stage] = [task EXCEPT ![t] = r]
                               /\ Fit(t, r) /\ Calm(r)
<1>1. task[t] \in TaskRecord /\ Shaped(t, task[t]) /\ task \in [Tasks -> TaskRecord]
      /\ task[t].art \in 1 .. Len(Registry[Model(t)])
  BY AtWork DEF StoreInv, StoreTypes, Shaped, Model
<1>. DEFINE r == [task[t] EXCEPT !.at = stage]
<1>2. [task EXCEPT ![t].at = stage] = [task EXCEPT ![t] = r]
  BY <1>1
<1>3. r \in TaskRecord /\ Fit(t, r) /\ Calm(r)
  BY <1>1, TasksAssumption DEF TaskRecord, TaskStages, FetchStages, Fit, Calm, Shaped
<1>. QED  BY <1>2, <1>3

LEMMA StopQuiet ==
  ASSUME StoreInv, NEW t \in Tasks, task[t].at \notin {"idle", "enter"},
         task' = Stop(t, "failed"), UNCHANGED <<dirs, disk, cancels, shared, events>>
  PROVE  StoreInv'
BY StopForm, CalmQuiet

LEMMA OnwardLand ==
  ASSUME StoreInv, NEW t \in Tasks, task[t].at \notin {"idle", "enter"}, Model(t) \in dirs,
         NEW chunks \in SUBSET Whole, Model(t) \notin shared => chunks \in Untorn,
         Land(Art(t), chunks, Onward(t)), UNCHANGED <<dirs, cancels, shared, events>>
  PROVE  StoreInv'
BY OnwardForm, CalmLand

-----------------------------------------------------------------------------
\* The steps of a task at work.

LEMMA BeginStep ==
  ASSUME StoreInv, NEW t \in Tasks, Begin(t)
  PROVE  StoreInv'
<1>1. task[t].at = "head" /\ UNCHANGED <<dirs, cancels, shared, events>>
  BY DEF Begin
<1>2. CASE Accepted(Final(Art(t)))
  <2>1. task' = Onward(t) /\ UNCHANGED disk
    BY <1>2 DEF Begin
  <2>. QED  BY <1>1, <2>1, OnwardForm, CalmQuiet
<1>3. CASE ~Accepted(Final(Art(t)))
  <2>. DEFINE names == {Final(Art(t))} \cup IF t \in Pulls THEN {Partial(Art(t))} ELSE {}
  <2>1. Without(names, [task EXCEPT ![t].at = "send"])
    BY <1>3 DEF Begin
  <2>2. names \in SUBSET (FilesOf(Model(t)) \cap Names)
    BY <1>1, AtWork
  <2>. HIDE DEF names
  <2>3. PICK r \in TaskRecord : /\ [task EXCEPT ![t].at = "send"] = [task EXCEPT ![t] = r]
                                /\ Fit(t, r) /\ Calm(r)
    BY <1>1, StageForm
  <2>4. Without(names, [task EXCEPT ![t] = r])
    BY <2>1, <2>3
  <2>. QED  BY <1>1, <2>2, <2>3, <2>4, CalmWithout
<1>. QED  BY <1>2, <1>3

LEMMA FallbackStep ==
  ASSUME StoreInv, NEW t \in Tasks, task[t].at \notin {"idle", "enter"}, Fallback(t),
         UNCHANGED <<dirs, cancels, shared, events>>
  PROVE  StoreInv'
<1>1. CASE Art(t) \in Bundled /\ Model(t) \in dirs
  <2>1. Land(Art(t), Whole, Onward(t))
    BY <1>1 DEF Fallback
  <2>. QED  BY <1>1, <2>1, NoneApart, OnwardLand
<1>2. CASE ~(Art(t) \in Bundled /\ Model(t) \in dirs)
  <2>1. task' = Stop(t, "failed") /\ UNCHANGED disk
    BY <1>2 DEF Fallback
  <2>. QED  BY <2>1, StopQuiet
<1>. QED  BY <1>1, <1>2

LEMMA FetchedStep ==
  ASSUME StoreInv, NEW t \in Tasks, Fetched(t)
  PROVE  StoreInv'
<1>1. task[t].at = "send" /\ UNCHANGED <<dirs, cancels, shared, events>>
  BY DEF Fetched
<1>2. CASE Model(t) \in dirs /\ \E chunks \in Untorn : Land(Art(t), chunks, Onward(t))
  <2>1. PICK chunks \in Untorn : Land(Art(t), chunks, Onward(t))
    BY <1>2
  <2>. QED  BY <1>1, <1>2, <2>1, NoneApart, OnwardLand
<1>3. CASE task' = Stop(t, "failed") /\ UNCHANGED disk
  BY <1>1, <1>3, StopQuiet
<1>4. CASE Fallback(t)
  BY <1>1, <1>4, FallbackStep
<1>. QED  BY <1>2, <1>3, <1>4 DEF Fetched

LEMMA RespondStep ==
  ASSUME StoreInv, NEW t \in Tasks, Respond(t)
  PROVE  StoreInv'
<1>1. t \in Pulls /\ task[t].at = "send" /\ UNCHANGED <<dirs, cancels, shared, events>>
  BY DEF Respond
<1>2. CASE task' = Stop(t, "failed") /\ UNCHANGED disk
  BY <1>1, <1>2, StopQuiet
<1>3. CASE Fallback(t)
  BY <1>1, <1>3, FallbackStep
<1>4. CASE At(t, "create") /\ UNCHANGED disk
  <2>1. task' = [task EXCEPT ![t].at = "create"]
    BY <1>4 DEF At
  <2>. QED  BY <1>1, <1>4, <2>1, StageForm, CalmQuiet
<1>. QED  BY <1>2, <1>3, <1>4 DEF Respond

\* Only a pull has a file open.
LEMMA StreamsArePulls ==
  ASSUME StoreInv, NEW t \in Tasks,
         task[t].at \in {"create", "select", "write", "rename"}
  PROVE  t \notin Fetches
BY AtWork DEF Shaped, FetchStages

LEMMA CreateStep ==
  ASSUME StoreInv, NEW t \in Tasks, Create(t)
  PROVE  StoreInv'
<1>1. task[t].at = "create" /\ UNCHANGED <<dirs, cancels, shared, events>>
  BY DEF Create
<1>2. CASE Model(t) \notin dirs
  BY <1>1, <1>2, StopQuiet DEF Create
<1>3. CASE Model(t) \in dirs
  <2>. DEFINE p == Partial(Art(t))
              r == [task[t] EXCEPT !.at = "select", !.open = p]
  <2>1. /\ task[t] \in TaskRecord /\ Shaped(t, task[t]) /\ t \notin Fetches
        /\ p \in FilesOf(Model(t)) /\ p \in Names /\ StoreTypes
        /\ task[t].got = 0 /\ task[t].art \in 1 .. Len(Registry[Model(t)])
    BY <1>1, AtWork, StreamsArePulls DEF Shaped, Model
  <2>2. disk' = [disk EXCEPT ![p] = {}] /\ task' = [task EXCEPT ![t] = r]
    BY <1>3, <2>1 DEF Create, StoreTypes
  <2>. HIDE DEF p
  <2>3. r \in TaskRecord /\ Fit(t, r) /\ Shaped(t, r)
        /\ r.at = "select" /\ r.open = p /\ r.got = 0 /\ r.art = task[t].art
    <3>1. r \in TaskRecord
      BY <2>1 DEF TaskRecord, TaskStages
    <3>2. /\ r.at = "select" /\ r.open = p /\ r.got = 0 /\ r.art = task[t].art
          /\ r.todo = task[t].todo
      BY <2>1 DEF TaskRecord
    <3>. QED  BY <1>1, <2>1, <3>1, <3>2 DEF Fit, Shaped, Model
  <2>. HIDE DEF r
  <2>4. /\ disk' \in [Names -> Content] /\ disk'[p] = {}
        /\ \A n \in Names \ {p} : disk'[n] = disk[n]
    BY <2>1, <2>2, NoneApart DEF StoreTypes, Content
  <2>5. /\ task' \in [Tasks -> TaskRecord] /\ task'[t] = r
        /\ \A u \in Tasks \ {t} : task'[u] = task[u]
    BY <2>1, <2>2, <2>3 DEF StoreTypes
  <2>6. Local(t)
    <3>1. ASSUME NEW u \in Tasks \ {t}
          PROVE  task'[u].open # None => disk'[task'[u].open] # None
      <4>1. /\ task'[u].open = task[u].open /\ task[u].open \in Names \cup {None}
            /\ task[u].open # None => disk[task[u].open] # None
        BY <2>5, OpenIsThere
      <4>. QED  BY <2>4, <4>1, NoneApart
    <3>2. \A u \in Tasks \ {t} : task'[u] \in TaskRecord /\ task'[u] = task[u]
      BY <2>5
    <3>. QED  BY <2>1, <2>4, <3>1, <3>2, Zenon DEF Local
  <2>7. Art(t)' = Art(t)
    BY <2>3, <2>5 DEF Art, Model, Fit
  <2>8. Mine(t)'
    <3>1. task'[t].open = Partial(Art(t))' /\ disk'[Partial(Art(t))'] = 1 .. task'[t].got
      <4>1. Partial(Art(t))' = p
        BY <2>7 DEF p, Partial
      <4>2. task'[t].got = 0 /\ 1 .. 0 = {}
        BY <2>3, <2>5
      <4>. QED  BY <2>3, <2>4, <2>5, <4>1, <4>2
    <3>2. task'[t].at = "select"
      BY <2>3, <2>5
    <3>. QED  BY <3>1, <3>2 DEF Mine
  <2>9. Model(t) \notin shared => \A a \in Artifacts(Model(t)) : disk'[Final(a)] \in {None} \cup Untorn
    <3>1. \A a \in Artifacts(Model(t)) : Final(a) \in Names \ {p}
      BY <1>1, AtWork, FileFacts, NamesApart DEF p
    <3>. QED  BY <1>1, <2>4, <3>1, AtWork DEF FinalsUntorn
  <2>10. r.open \in FilesOf(Model(t)) /\ disk'[r.open] # None
    BY <2>1, <2>3, <2>4, NoneApart
  <2>. QED  BY <1>1, <1>3, <2>3, <2>5, <2>6, <2>8, <2>9, <2>10, WorkStep DEF Becomes
<1>. QED  BY <1>2, <1>3

LEMMA ChunkStep ==
  ASSUME StoreInv, NEW t \in Tasks, Chunk(t)
  PROVE  StoreInv'
<1>1. task[t].at = "select" /\ task[t].got < Chunks
      /\ UNCHANGED <<dirs, disk, cancels, shared, events>>
  BY DEF Chunk
<1>2. CASE task' = Stop(t, "failed")
  BY <1>1, <1>2, StopQuiet
<1>3. CASE task' = [task EXCEPT ![t].at = "write"]
  <2>. DEFINE r == [task[t] EXCEPT !.at = "write"]
  <2>1. /\ task[t] \in TaskRecord /\ Shaped(t, task[t]) /\ t \notin Fetches
        /\ task[t].art \in 1 .. Len(Registry[Model(t)]) /\ StoreTypes
    BY <1>1, AtWork, StreamsArePulls DEF Shaped, Model
  <2>2. task' = [task EXCEPT ![t] = r]
    BY <1>3, <2>1 DEF StoreTypes
  <2>3. r \in TaskRecord /\ Fit(t, r) /\ Shaped(t, r)
        /\ r.at = "write" /\ r.open = task[t].open /\ r.got = task[t].got
        /\ r.art = task[t].art
    BY <1>1, <2>1 DEF TaskRecord, TaskStages, Fit, Shaped
  <2>. HIDE DEF r
  <2>4. Local(t) /\ Becomes(t, r)
    BY <1>1, <2>2, <2>3, QuietStep
  <2>5. r.open # None => r.open \in FilesOf(Model(t)) /\ disk'[r.open] # None
    BY <1>1, <2>3, OpenIsThere
  <2>6. Mine(t) => Mine(t)'
    <3>1. Partial(Art(t))' = Partial(Art(t)) /\ task'[t] = r
      BY <2>3, <2>4 DEF Becomes, Fit, Art, Model, Partial
    <3>. QED  BY <1>1, <2>3, <3>1 DEF Mine
  <2>. QED  BY <1>1, <2>3, <2>4, <2>5, <2>6, AtWork, WorkStep DEF FinalsUntorn
<1>. QED  BY <1>2, <1>3 DEF Chunk

LEMMA WriteStep ==
  ASSUME StoreInv, NEW t \in Tasks, Write(t)
  PROVE  StoreInv'
<1>. DEFINE f == task[t].open
            more == task[t].got + 1
            r == [task[t] EXCEPT !.at = "select", !.got = more]
<1>1. /\ task[t].at = "write" /\ UNCHANGED <<dirs, cancels, shared, events>>
      /\ disk' = IF f = None THEN disk ELSE [disk EXCEPT ![f] = @ \cup {more}]
  BY DEF Write
<1>2. /\ task[t] \in TaskRecord /\ Shaped(t, task[t]) /\ t \notin Fetches /\ StoreTypes
      /\ task[t].art \in 1 .. Len(Registry[Model(t)])
      /\ task[t].got \in Nat /\ more \in 0 .. Chunks /\ more \in Whole
  <2>1. /\ task[t] \in TaskRecord /\ Shaped(t, task[t]) /\ t \notin Fetches /\ StoreTypes
    BY <1>1, AtWork, StreamsArePulls
  <2>2. task[t].got \in 0 .. Chunks /\ task[t].got < Chunks
    BY <1>1, <2>1 DEF TaskRecord, Shaped
  <2>3. task[t].art \in 1 .. Len(Registry[Model(t)])
    BY <1>1, <2>1 DEF Shaped, Model
  <2>. QED  BY <2>1, <2>2, <2>3, ChunksAssumption DEF Whole
<1>3. task' = [task EXCEPT ![t] = r]
  BY <1>2 DEF Write, StoreTypes
<1>. HIDE DEF more
<1>4. /\ r \in TaskRecord /\ r.at = "select" /\ r.open = f /\ r.got = more
      /\ r.art = task[t].art /\ r.todo = task[t].todo
  BY <1>2 DEF TaskRecord, TaskStages
<1>5. Fit(t, r) /\ Shaped(t, r)
  BY <1>1, <1>2, <1>4 DEF Fit, Shaped, Model
<1>. HIDE DEF r
<1>6. /\ task' \in [Tasks -> TaskRecord] /\ task'[t] = r
      /\ \A u \in Tasks \ {t} : task'[u] = task[u]
  BY <1>2, <1>3, <1>4 DEF StoreTypes
<1>7. /\ f \in Names \cup {None} /\ None \notin Names
      /\ f # None => f \in FilesOf(Model(t)) /\ disk[f] # None /\ disk[f] \in SUBSET Whole
  BY <1>2, OpenIsThere, NoneApart DEF StoreTypes, Content
<1>. HIDE DEF f
<1>8. /\ disk' \in [Names -> Content]
      /\ \A n \in Names \ {f} : disk'[n] = disk[n]
      /\ f # None => disk'[f] = disk[f] \cup {more} /\ disk'[f] # None
  <2>1. CASE f = None
    BY <1>1, <1>2, <2>1 DEF StoreTypes
  <2>2. CASE f # None
    <3>1. disk[f] \cup {more} \in SUBSET Whole
      BY <1>2, <1>7, <2>2
    <3>2. disk' = [disk EXCEPT ![f] = disk[f] \cup {more}]
      BY <1>1, <2>2
    <3>. QED  BY <1>2, <1>7, <2>2, <3>1, <3>2, NoneApart DEF StoreTypes, Content
  <2>. QED  BY <2>1, <2>2
<1>9. Local(t)
  <2>1. ASSUME NEW u \in Tasks \ {t}
        PROVE  task'[u].open # None => disk'[task'[u].open] # None
    <3>1. /\ task'[u].open = task[u].open /\ task[u].open \in Names \cup {None}
          /\ task[u].open # None => disk[task[u].open] # None
      BY <1>6, OpenIsThere
    <3>. QED  BY <1>8, <3>1
  <2>2. \A u \in Tasks \ {t} : task'[u] \in TaskRecord /\ task'[u] = task[u]
    BY <1>6
  <2>3. \A n \in Names \ FilesOf(Model(t)) : disk'[n] = disk[n]
    BY <1>7, <1>8
  <2>. QED  BY <1>8, <2>1, <2>2, <2>3, Zenon DEF Local
<1>10. Model(t) \notin dirs => \A n \in FilesOf(Model(t)) : disk'[n] = None
  <2>1. Model(t) \notin dirs => f = None
    BY <1>1, <1>7, AtWork
  <2>. QED  BY <1>1, <2>1, AtWork
<1>11. ASSUME Model(t) \notin shared
       PROVE  (\A a \in Artifacts(Model(t)) : disk'[Final(a)] \in {None} \cup Untorn) /\ Mine(t)'
  <2>. DEFINE p == Partial(Art(t))
  <2>1. /\ \/ f = None /\ disk[p] = None
           \/ f = p /\ disk[p] = 1 .. task[t].got
        /\ p \in Names
    BY <1>1, <1>11, AtWork DEF Mine, f
  <2>2. p' = p
    BY <1>4, <1>6 DEF Art, Model, Partial
  <2>3. \A a \in Artifacts(Model(t)) : Final(a) \in Names \ {f}
    <3>1. \A a \in Artifacts(Model(t)) : Final(a) \in Names /\ Final(a) # p /\ Final(a) # None
      BY <1>1, AtWork, FileFacts, NamesApart, NoneApart
    <3>. QED  BY <2>1, <3>1
  <2>4. \A a \in Artifacts(Model(t)) : disk'[Final(a)] \in {None} \cup Untorn
    BY <1>1, <1>8, <1>11, <2>3, AtWork DEF FinalsUntorn
  <2>5. \/ f = None /\ disk'[p] = None
        \/ f = p /\ disk'[p] = 1 .. more
    <3>1. CASE f = None
      BY <1>1, <2>1, <3>1, <1>7
    <3>2. CASE f = p
      <4>1. disk'[p] = (1 .. task[t].got) \cup {more}
        BY <1>7, <1>8, <2>1, <3>2
      <4>2. (1 .. task[t].got) \cup {more} = 1 .. more
        BY <1>2 DEF more
      <4>. QED  BY <3>2, <4>1, <4>2
    <3>. QED  BY <2>1, <3>1, <3>2
  <2>. HIDE DEF p
  <2>6. /\ task'[t].at = "select" /\ task'[t].open = f /\ task'[t].got = more
        /\ Partial(Art(t))' = p
    BY <1>4, <1>6, <2>2 DEF p
  <2>7. Mine(t)'
    BY <2>5, <2>6 DEF Mine
  <2>. QED  BY <2>4, <2>7
<1>12. r.open # None => r.open \in FilesOf(Model(t)) /\ disk'[r.open] # None
  BY <1>4, <1>7, <1>8
<1>. QED  BY <1>1, <1>4, <1>5, <1>6, <1>9, <1>10, <1>11, <1>12, WorkStep DEF Becomes

LEMMA EndOfFileStep ==
  ASSUME StoreInv, NEW t \in Tasks, EndOfFile(t)
  PROVE  StoreInv'
<1>1. task[t].at = "select" /\ task[t].got >= Enough
      /\ UNCHANGED <<dirs, disk, cancels, shared, events>>
  BY DEF EndOfFile
<1>. DEFINE r == [task[t] EXCEPT !.at = "rename", !.open = None]
<1>2. /\ task[t] \in TaskRecord /\ Shaped(t, task[t]) /\ t \notin Fetches
      /\ task[t].art \in 1 .. Len(Registry[Model(t)]) /\ StoreTypes
  BY <1>1, AtWork, StreamsArePulls DEF Shaped, Model
<1>3. task' = [task EXCEPT ![t] = r]
  BY <1>2 DEF EndOfFile, StoreTypes
<1>4. r \in TaskRecord /\ Fit(t, r) /\ Shaped(t, r)
      /\ r.at = "rename" /\ r.open = None /\ r.art = task[t].art
  BY <1>1, <1>2 DEF TaskRecord, TaskStages, Fit, Shaped
<1>. HIDE DEF r
<1>5. Local(t) /\ Becomes(t, r)
  BY <1>1, <1>3, <1>4, QuietStep
<1>6. Mine(t) => Mine(t)'
  <2>1. Partial(Art(t))' = Partial(Art(t)) /\ task'[t] = r
    BY <1>4, <1>5 DEF Becomes, Fit, Art, Model, Partial
  <2>2. 1 .. task[t].got \in Untorn
    BY <1>1, <1>2, ChunksAssumption DEF TaskRecord, Untorn
  <2>. QED  BY <1>1, <1>4, <2>1, <2>2 DEF Mine
<1>. QED  BY <1>1, <1>4, <1>5, <1>6, AtWork, WorkStep DEF FinalsUntorn

LEMMA TooShortStep ==
  ASSUME StoreInv, NEW t \in Tasks, TooShort(t)
  PROVE  StoreInv'
<1>1. task[t].at = "select" /\ UNCHANGED <<dirs, cancels, shared, events>>
  BY DEF TooShort
<1>2. CASE Art(t) \in Bundled /\ Model(t) \in dirs
  <2>1. Land(Art(t), Whole, Onward(t))
    BY <1>2 DEF TooShort
  <2>. QED  BY <1>1, <1>2, <2>1, NoneApart, OnwardLand
<1>3. CASE ~(Art(t) \in Bundled /\ Model(t) \in dirs)
  <2>1. Without({Partial(Art(t))}, Stop(t, "failed"))
    BY <1>3 DEF TooShort
  <2>2. {Partial(Art(t))} \in SUBSET (FilesOf(Model(t)) \cap Names)
    BY <1>1, AtWork
  <2>. QED  BY <1>1, <2>1, <2>2, StopForm, CalmWithout
<1>. QED  BY <1>2, <1>3

LEMMA RenameStep ==
  ASSUME StoreInv, NEW t \in Tasks, Rename(t)
  PROVE  StoreInv'
<1>1. task[t].at = "rename" /\ UNCHANGED <<dirs, cancels, shared, events>>
  BY DEF Rename
<1>. DEFINE chunks == disk[Partial(Art(t))]
<1>2. CASE chunks = None
  BY <1>1, <1>2, StopQuiet DEF Rename
<1>3. CASE chunks # None
  <2>1. Land(Art(t), chunks, Onward(t))
    BY <1>3 DEF Rename
  <2>2. chunks \in SUBSET Whole /\ Model(t) \in dirs
    BY <1>1, <1>3, AtWork DEF StoreTypes, Content
  <2>3. Model(t) \notin shared => chunks \in Untorn
    BY <1>1, <1>3, AtWork DEF Mine
  <2>. QED  BY <1>1, <2>1, <2>2, <2>3, OnwardLand
<1>. QED  BY <1>2, <1>3

-----------------------------------------------------------------------------
\* The steps by which a task starts on a model and leaves it.

LEMMA TasksFromParts ==
  ASSUME \A u \in Tasks :
           /\ Shaped(u, task'[u])
           /\ task'[u].open # None =>
                task'[u].open \in FilesOf(Model(u)') /\ disk'[task'[u].open] # None
  PROVE  TasksShaped'
BY DEF TasksShaped, Shaped, FilesOf

LEMMA FinalNames ==
  ASSUME NEW m \in Models, NEW a \in Artifacts(m)
  PROVE  Final(a) \in Names /\ Final(a) \in FilesOf(m)
BY FileFacts

\* A task that did not move, on files that did not change.
LEMMA SameTask ==
  ASSUME StoreInv, NEW u \in Tasks, task'[u] = task[u], UNCHANGED disk
  PROVE  /\ Shaped(u, task'[u])
         /\ task'[u].open # None =>
              task'[u].open \in FilesOf(Model(u)') /\ disk'[task'[u].open] # None
         /\ Model(u)' = Model(u)
         /\ Mine(u) => Mine(u)'
<1>1. Model(u)' = Model(u) /\ Partial(Art(u))' = Partial(Art(u))
  BY DEF Model, Art, Partial
<1>2. Shaped(u, task'[u])
  BY DEF StoreInv, TasksShaped
<1>3. Mine(u) => Mine(u)'
  BY <1>1 DEF Mine
<1>. QED  BY <1>1, <1>2, <1>3, OpenIsThere

LEMMA StartStep ==
  ASSUME StoreInv, NEW t \in Tasks, task[t].at = "idle", NEW job \in Seq(Models) \ {<<>>},
         task' = [task EXCEPT ![t] = [Idle EXCEPT !.at = "enter", !.todo = job]],
         Event, UNCHANGED <<dirs, disk, cancels, shared>>
  PROVE  StoreInv'
<1>. DEFINE r == [Idle EXCEPT !.at = "enter", !.todo = job]
<1>1. Idle \in TaskRecord /\ Idle.art = 1 /\ Idle.open = None /\ Idle.got = 0
  BY ChunksAssumption DEF Idle, TaskRecord, TaskStages
<1>2. /\ r \in TaskRecord
      /\ r.at = "enter" /\ r.todo = job /\ r.art = 1 /\ r.open = None /\ r.got = 0
  BY <1>1 DEF TaskRecord, TaskStages
<1>3. /\ task' \in [Tasks -> TaskRecord] /\ task'[t] = r
      /\ \A u \in Tasks \ {t} : task'[u] = task[u]
  BY <1>2 DEF StoreInv, StoreTypes
<1>4. StoreTypes'
  BY <1>3, ChunksAssumption DEF StoreInv, StoreTypes, Event
<1>5. Shaped(t, r) /\ r.open = None /\ r.at = "enter"
  <2>1. Len(job) > 0 /\ Head(job) \in Models
    OBVIOUS
  <2>2. 1 \in 1 .. Len(Registry[Head(job)])
    BY <2>1, FileFacts
  <2>. QED  BY <1>2, <2>1, <2>2 DEF Shaped, FetchStages
<1>. HIDE DEF r
<1>6. TasksShaped'
  <2>1. ASSUME NEW u \in Tasks
        PROVE  /\ Shaped(u, task'[u])
               /\ task'[u].open # None =>
                    task'[u].open \in FilesOf(Model(u)') /\ disk'[task'[u].open] # None
    <3>1. CASE u = t
      BY <1>3, <1>5, <3>1
    <3>2. CASE u # t
      BY <1>3, <3>2, SameTask
    <3>. QED  BY <3>1, <3>2
  <2>. QED  BY <2>1, TasksFromParts
<1>7. \A m \in Models : Working(m)' = Working(m)
  <2>1. \A u \in Tasks \ {t} : task'[u].at = task[u].at /\ Model(u)' = Model(u)
    BY <1>3, SameTask
  <2>2. task[t].at \in {"idle", "enter"} /\ task'[t].at \in {"idle", "enter"}
    BY <1>3, <1>5
  <2>. QED  BY <2>1, <2>2 DEF Working
<1>8. CancelsInv'
  BY <1>7 DEF StoreInv, CancelsInv
<1>9. FilesInDirs'
  BY DEF StoreInv, FilesInDirs, FilesOf
<1>10. LoneInv'
  <2>1. ASSUME NEW m \in Models \ shared
        PROVE  Lone(m)'
    <3>1. Lone(m)
      BY DEF StoreInv, LoneInv
    <3>2. \A u \in Working(m) : task'[u] = task[u] /\ u \in Tasks
      BY <1>3 DEF Working
    <3>3. \A u \in Working(m) : Mine(u)'
      BY <3>1, <3>2, SameTask DEF Lone
    <3>4. FinalsUntorn(m)'
      BY <3>1 DEF Lone, FinalsUntorn
    <3>. QED  BY <1>7, <3>1, <3>3, <3>4 DEF Lone
  <2>. QED  BY <2>1 DEF LoneInv
<1>. QED  BY <1>4, <1>6, <1>8, <1>9, <1>10 DEF StoreInv

LEMMA PullStep ==
  ASSUME StoreInv, NEW t \in Pulls, NEW job \in Composites, Pull(t, job)
  PROVE  StoreInv'
<1>1. t \in Tasks /\ job \in Seq(Models) \ {<<>>}
  BY ModelsAssumption DEF Tasks
<1>. QED  BY <1>1, StartStep DEF Pull

LEMMA FetchStep ==
  ASSUME StoreInv, NEW t \in Fetches, NEW m \in Models, Fetch(t, m)
  PROVE  StoreInv'
<1>1. t \in Tasks /\ <<m>> \in Seq(Models) \ {<<>>}
  BY DEF Tasks
<1>. QED  BY <1>1, StartStep DEF Fetch

LEMMA EnterStep ==
  ASSUME StoreInv, NEW t \in Tasks, Enter(t)
  PROVE  StoreInv'
<1>. DEFINE r == [task[t] EXCEPT !.at = "head"]
<1>1. /\ task[t].at = "enter" /\ UNCHANGED <<disk, events>>
      /\ dirs' = dirs \cup {Model(t)}
      /\ cancels' = [cancels EXCEPT ![Model(t)] = IF t \in Pulls THEN t ELSE @]
      /\ shared' = IF Working(Model(t)) = {} THEN shared ELSE shared \cup {Model(t)}
      /\ StoreTypes
  BY DEF Enter, StoreInv
<1>2. task[t] \in TaskRecord /\ Shaped(t, task[t])
  BY DEF StoreInv, StoreTypes, TasksShaped
<1>3. Model(t) \in Models
  BY <1>1, <1>2, ModelOf
<1>4. r \in TaskRecord /\ Shaped(t, r) /\ r.at = "head" /\ r.open = None /\ r.todo = task[t].todo
  BY <1>1, <1>2 DEF TaskRecord, TaskStages, FetchStages, Shaped
<1>5. task' = [task EXCEPT ![t] = r]
  BY <1>2 DEF Enter, At, StoreInv, StoreTypes
<1>. HIDE DEF r
<1>6. Local(t) /\ Becomes(t, r)
  BY <1>1, <1>4, <1>5, QuietStep
<1>7. task'[t] = r /\ Model(t)' = Model(t)
  BY <1>4, <1>6 DEF Becomes, Model
<1>8. StoreTypes'
  <2>1. cancels' \in [Models -> Pulls \cup {None}]
    BY <1>1, <1>3 DEF StoreTypes
  <2>2. dirs' \subseteq Models /\ shared' \subseteq Models
    BY <1>1, <1>3 DEF StoreTypes
  <2>. QED  BY <1>1, <1>6, <2>1, <2>2 DEF StoreTypes, Becomes
<1>9. TasksShaped'
  <2>1. ASSUME NEW u \in Tasks
        PROVE  /\ Shaped(u, task'[u])
               /\ task'[u].open # None =>
                    task'[u].open \in FilesOf(Model(u)') /\ disk'[task'[u].open] # None
    <3>1. CASE u = t
      BY <1>4, <1>7, <3>1
    <3>2. CASE u # t
      BY <1>1, <1>6, <3>2, OthersStep
    <3>. QED  BY <3>1, <3>2
  <2>. QED  BY <2>1, TasksFromParts
<1>10. \A m \in Models :
        Working(m)' = IF m = Model(t) THEN Working(m) \cup {t} ELSE Working(m)
  <2>1. \A u \in Tasks \ {t} : task'[u].at = task[u].at /\ Model(u)' = Model(u)
    BY <1>1, <1>6, OthersStep
  <2>2. task[t].at = "enter" /\ task'[t].at = "head" /\ Model(t)' = Model(t)
    BY <1>1, <1>4, <1>7
  <2>. QED  BY <2>1, <2>2 DEF Working
<1>11. CancelsInv'
  <2>1. ASSUME NEW m \in Models, cancels'[m] # None
        PROVE  cancels'[m] \in Working(m)'
    <3>1. CASE m = Model(t) /\ t \in Pulls
      <4>1. cancels'[m] = t
        BY <1>1, <1>3, <3>1 DEF StoreTypes
      <4>. QED  BY <1>10, <3>1, <4>1
    <3>2. CASE ~(m = Model(t) /\ t \in Pulls)
      <4>1. cancels'[m] = cancels[m]
        BY <1>1, <1>3, <3>2 DEF StoreTypes
      <4>2. cancels[m] \in Working(m)
        BY <2>1, <4>1 DEF StoreInv, CancelsInv
      <4>3. Working(m) \subseteq Working(m)'
        BY <1>10
      <4>. QED  BY <4>1, <4>2, <4>3
    <3>. QED  BY <3>1, <3>2
  <2>. QED  BY <2>1 DEF CancelsInv
<1>12. FilesInDirs'
  BY <1>1 DEF StoreInv, FilesInDirs, FilesOf
<1>13. LoneInv'
  <2>1. ASSUME NEW m \in Models \ shared'
        PROVE  Lone(m)'
    <3>1. m \notin shared /\ Lone(m) /\ (m = Model(t) => Working(m) = {})
      BY <1>1, <2>1 DEF StoreInv, LoneInv
    <3>2. FinalsUntorn(m)'
      BY <1>1, <3>1 DEF Lone, FinalsUntorn
    <3>3. CASE m = Model(t)
      <4>1. Working(m)' = {t}
        BY <1>10, <3>1, <3>3
      <4>2. Mine(t)'
        BY <1>4, <1>7 DEF Mine
      <4>. QED  BY <3>2, <4>1, <4>2 DEF Lone
    <3>4. CASE m # Model(t)
      <4>1. Working(m)' = Working(m)
        BY <1>10, <2>1, <3>4
      <4>2. ASSUME NEW u \in Working(m)
            PROVE  Mine(u)'
        <5>1. u \in Tasks \ {t} /\ task[u].at # "idle" /\ Model(u) # Model(t) /\ Mine(u)
          BY <1>1, <3>1, <3>4 DEF Working, Lone
        <5>. QED  BY <1>1, <1>6, <5>1, OthersStep
      <4>. QED  BY <3>1, <3>2, <4>1, <4>2 DEF Lone
    <3>. QED  BY <3>3, <3>4
  <2>. QED  BY <2>1 DEF LoneInv
<1>. QED  BY <1>8, <1>9, <1>11, <1>12, <1>13 DEF StoreInv

LEMMA RestForm ==
  ASSUME StoreInv, NEW t \in Tasks, task[t].at \notin {"idle", "enter"}
  PROVE  LET r == Rest(t) IN
         r \in TaskRecord /\ Shaped(t, r) /\ r.open = None /\ r.at \in {"idle", "enter"}
<1>1. Idle \in TaskRecord /\ Idle.at = "idle" /\ Idle.art = 1 /\ Idle.open = None /\ Idle.got = 0
  BY ChunksAssumption DEF Idle, TaskRecord, TaskStages
<1>2. CASE task[t].at = "completed" /\ Len(task[t].todo) > 1
  <2>. DEFINE job == Tail(task[t].todo)
              r == [Idle EXCEPT !.at = "enter", !.todo = job]
  <2>1. job \in Seq(Models) /\ Len(job) > 0 /\ Head(job) \in Models
    <3>1. task[t].todo \in Seq(Models)
      BY AtWork DEF TaskRecord
    <3>2. job \in Seq(Models) /\ Len(job) = Len(task[t].todo) - 1 /\ Len(task[t].todo) \in Nat
      BY <1>2, <3>1
    <3>3. Len(job) > 0
      BY <1>2, <3>2
    <3>. QED  BY <3>2, <3>3
  <2>. HIDE DEF job
  <2>2. /\ r \in TaskRecord /\ r.at = "enter" /\ r.todo = job /\ r.art = 1
        /\ r.open = None /\ r.got = 0
    BY <1>1, <2>1 DEF TaskRecord, TaskStages
  <2>3. 1 \in 1 .. Len(Registry[Head(job)])
    BY <2>1, FileFacts
  <2>4. Rest(t) = r
    BY <1>2 DEF Rest, job
  <2>. HIDE DEF r
  <2>5. Shaped(t, r)
    BY <2>1, <2>2, <2>3 DEF Shaped, FetchStages
  <2>. QED  BY <2>2, <2>4, <2>5
<1>3. CASE ~(task[t].at = "completed" /\ Len(task[t].todo) > 1)
  <2>1. Rest(t) = Idle
    BY <1>3 DEF Rest
  <2>2. Shaped(t, Idle)
    BY <1>1 DEF Shaped, FetchStages
  <2>. QED  BY <1>1, <2>1, <2>2
<1>. QED  BY <1>2, <1>3

LEMMA LeaveStep ==
  ASSUME StoreInv, NEW t \in Tasks, Leave(t)
  PROVE  StoreInv'
<1>. DEFINE r == Rest(t)
            partials == {Partial(a) : a \in Artifacts(Model(t))}
<1>1. /\ task[t].at \notin {"idle", "enter"} /\ UNCHANGED <<dirs, shared, events>>
      /\ cancels' = [cancels EXCEPT ![Model(t)] = IF t \in Pulls THEN None ELSE @]
  BY DEF Leave
<1>2. r \in TaskRecord /\ Shaped(t, r) /\ r.open = None /\ r.at \in {"idle", "enter"}
  BY <1>1, RestForm
<1>3. StoreTypes /\ Model(t) \in Models
  BY <1>1, AtWork
<1>. HIDE DEF r
<1>4. /\ Local(t) /\ Becomes(t, r)
      /\ \A n \in Names : disk'[n] = disk[n] \/ (n \in partials /\ disk'[n] = None)
  <2>1. CASE task[t].at = "cancelled"
    <3>1. partials \in SUBSET (FilesOf(Model(t)) \cap Names)
      BY <1>3, FileFacts
    <3>2. Without(partials, [task EXCEPT ![t] = r])
      BY <2>1 DEF Leave, r
    <3>. HIDE DEF partials
    <3>. QED  BY <1>2, <3>1, <3>2, WithoutStep
  <2>2. CASE task[t].at # "cancelled"
    <3>1. task' = [task EXCEPT ![t] = r] /\ UNCHANGED disk
      BY <2>2 DEF Leave, r
    <3>. QED  BY <1>2, <3>1, QuietStep
  <2>. QED  BY <2>1, <2>2
<1>5. task'[t] = r
  BY <1>4 DEF Becomes
<1>6. StoreTypes'
  <2>1. cancels' \in [Models -> Pulls \cup {None}]
    BY <1>1, <1>3 DEF StoreTypes
  <2>. QED  BY <1>1, <1>3, <1>4, <2>1 DEF StoreTypes, Local, Becomes
<1>7. TasksShaped'
  <2>1. ASSUME NEW u \in Tasks
        PROVE  /\ Shaped(u, task'[u])
               /\ task'[u].open # None =>
                    task'[u].open \in FilesOf(Model(u)') /\ disk'[task'[u].open] # None
    <3>1. CASE u = t
      BY <1>2, <1>5, <3>1
    <3>2. CASE u # t
      BY <1>1, <1>4, <3>2, OthersStep
    <3>. QED  BY <3>1, <3>2
  <2>. QED  BY <2>1, TasksFromParts
<1>8. \A m \in Models : Working(m)' = Working(m) \ {t}
  <2>1. \A u \in Tasks \ {t} : task'[u].at = task[u].at /\ Model(u)' = Model(u)
    BY <1>1, <1>4, OthersStep
  <2>2. task'[t].at \in {"idle", "enter"}
    BY <1>2, <1>5
  <2>. QED  BY <2>1, <2>2 DEF Working
<1>9. CancelsInv'
  <2>1. ASSUME NEW m \in Models, cancels'[m] # None
        PROVE  cancels'[m] \in Working(m)'
    <3>1. cancels'[m] = cancels[m] /\ ~(m = Model(t) /\ t \in Pulls)
      BY <1>1, <1>3, <2>1 DEF StoreTypes
    <3>2. cancels[m] \in Working(m) /\ cancels[m] \in Pulls
      BY <1>3, <2>1, <3>1 DEF StoreInv, CancelsInv, StoreTypes
    <3>3. cancels[m] # t
      BY <3>1, <3>2 DEF Working
    <3>. QED  BY <1>8, <3>1, <3>2, <3>3
  <2>. QED  BY <2>1 DEF CancelsInv
<1>10. FilesInDirs'
  <2>1. ASSUME NEW m \in Models \ dirs, NEW n \in FilesOf(m)
        PROVE  disk'[n] = None
    BY <1>4, FileFacts DEF StoreInv, FilesInDirs
  <2>. QED  BY <1>1, <2>1 DEF FilesInDirs, FilesOf
<1>11. LoneInv'
  <2>1. ASSUME NEW m \in Models \ shared
        PROVE  Lone(m)'
    <3>1. Lone(m)
      BY DEF StoreInv, LoneInv
    <3>2. FinalsUntorn(m)'
      <4>1. \A a \in Artifacts(m) : Final(a) \in Names
        BY FinalNames
      <4>2. \A a \in Artifacts(m) : disk'[Final(a)] \in {disk[Final(a)], None}
        BY <1>4, <4>1
      <4>. QED  BY <3>1, <4>2 DEF Lone, FinalsUntorn, Artifacts, Final
    <3>3. ASSUME NEW u \in Working(m)'
          PROVE  Mine(u)'
      <4>1. u \in Working(m) /\ u # t /\ u \in Tasks /\ task[u].at # "idle" /\ Model(u) = m
        BY <1>8, <3>3 DEF Working
      <4>2. Model(u) # Model(t)
        BY <1>1, <3>1, <4>1 DEF Lone, Working
      <4>. QED  BY <1>1, <1>4, <3>1, <4>1, <4>2, OthersStep DEF Lone
    <3>. QED  BY <1>8, <3>1, <3>2, <3>3 DEF Lone
  <2>. QED  BY <1>1, <2>1 DEF LoneInv
<1>. QED  BY <1>6, <1>7, <1>9, <1>10, <1>11 DEF StoreInv

-----------------------------------------------------------------------------
\* What comes in from outside.

\* A task of which only the open file can have gone.  If the files of its model
\* all stay, or all go, it knows what it knew.
LEMMA LeftTask ==
  ASSUME StoreInv, NEW names, NEW u \in Tasks,
         task'[u].at = task[u].at, task'[u].todo = task[u].todo,
         task'[u].art = task[u].art, task'[u].got = task[u].got,
         task'[u].open = IF task[u].open \in names THEN None ELSE task[u].open,
         \A n \in Names : disk'[n] = IF n \in names THEN None ELSE disk[n]
  PROVE  /\ Shaped(u, task'[u])
         /\ task'[u].open # None =>
              task'[u].open \in FilesOf(Model(u)') /\ disk'[task'[u].open] # None
         /\ Model(u)' = Model(u)
         /\ /\ task[u].at # "idle" /\ Mine(u)
            /\ FilesOf(Model(u)) \cap names = {} \/ FilesOf(Model(u)) \subseteq names
            => Mine(u)'
<1>1. Model(u)' = Model(u) /\ Partial(Art(u))' = Partial(Art(u))
  BY DEF Model, Art, Partial
<1>2. Shaped(u, task'[u])
  BY DEF StoreInv, TasksShaped, Shaped
<1>3. task'[u].open # None =>
        task'[u].open \in FilesOf(Model(u)') /\ disk'[task'[u].open] # None
  BY <1>1, OpenIsThere
<1>4. ASSUME task[u].at # "idle", Mine(u)
      PROVE  FilesOf(Model(u)) \cap names = {} \/ FilesOf(Model(u)) \subseteq names => Mine(u)'
  <2>1. Partial(Art(u)) \in FilesOf(Model(u)) /\ Partial(Art(u)) \in Names
    BY <1>4, ModelOf DEF StoreInv, TasksShaped
  <2>2. CASE FilesOf(Model(u)) \cap names = {}
    <3>1. task'[u].open = task[u].open
      BY <2>2, OpenIsThere
    <3>2. disk'[Partial(Art(u))] = disk[Partial(Art(u))]
      BY <2>1, <2>2
    <3>. QED  BY <1>1, <1>4, <3>1, <3>2 DEF Mine
  <2>3. CASE FilesOf(Model(u)) \subseteq names
    <3>1. task'[u].open = None
      BY <2>3, OpenIsThere
    <3>2. disk'[Partial(Art(u))] = None
      BY <2>1, <2>3
    <3>. QED  BY <1>1, <3>1, <3>2 DEF Mine
  <2>. QED  BY <2>2, <2>3
<1>. QED  BY <1>1, <1>2, <1>3, <1>4

LEMMA ClearStep ==
  ASSUME StoreInv, NEW ms \in SUBSET Models, Clear(ms)
  PROVE  StoreInv'
<1>. DEFINE names == UNION {{Partial(a), Final(a)} : a \in UNION {Artifacts(m) : m \in ms}}
<1>1. /\ Event /\ dirs' = dirs \ ms /\ Without(names, task) /\ UNCHANGED cancels
      /\ shared' = {m \in shared : m \notin ms \/ Working(m) # {}}
      /\ StoreTypes
  BY DEF Clear, StoreInv
<1>2. \A m \in ms : FilesOf(m) \subseteq names
  BY DEF FilesOf, Partial, Final
<1>3. \A m \in Models \ ms : FilesOf(m) \cap names = {}
  <2>1. ASSUME NEW n \in names
        PROVE  \E m \in ms : n \in FilesOf(m)
    BY DEF FilesOf, Partial, Final
  <2>. HIDE DEF names
  <2>. QED  BY <2>1, FileFacts
<1>. HIDE DEF names
<1>4. /\ disk' \in [Names -> Content]
      /\ \A n \in Names : disk'[n] = IF n \in names THEN None ELSE disk[n]
      /\ task' \in [Tasks -> TaskRecord]
      /\ \A u \in Tasks :
           /\ task'[u].at = task[u].at /\ task'[u].todo = task[u].todo
           /\ task'[u].art = task[u].art /\ task'[u].got = task[u].got
           /\ task'[u].open = IF task[u].open \in names THEN None ELSE task[u].open
  <2>1. task \in [Tasks -> TaskRecord]
    BY <1>1 DEF StoreTypes
  <2>. QED  BY <1>1, <2>1, WithoutForm
<1>5. StoreTypes'
  BY <1>1, <1>4, ChunksAssumption DEF StoreTypes, Event
<1>6. TasksShaped'
  BY <1>4, LeftTask, TasksFromParts
<1>7. \A m \in Models : Working(m)' = Working(m)
  <2>1. \A u \in Tasks : task'[u].at = task[u].at /\ Model(u)' = Model(u)
    BY <1>4, LeftTask
  <2>. QED  BY <2>1 DEF Working
<1>8. CancelsInv'
  BY <1>1, <1>7 DEF StoreInv, CancelsInv
<1>9. FilesInDirs'
  <2>1. ASSUME NEW m \in Models \ (dirs \ ms), NEW n \in FilesOf(m)
        PROVE  disk'[n] = None
    <3>1. n \in Names
      BY FileFacts
    <3>2. CASE m \in ms
      BY <1>2, <1>4, <3>1, <3>2
    <3>3. CASE m \notin ms
      BY <1>4, <3>1, <3>3 DEF StoreInv, FilesInDirs
    <3>. QED  BY <3>2, <3>3
  <2>. QED  BY <1>1, <2>1 DEF FilesInDirs, FilesOf
<1>10. LoneInv'
  <2>1. ASSUME NEW m \in Models \ shared'
        PROVE  Lone(m)'
    <3>1. \A a \in Artifacts(m) : Final(a) \in Names /\ Final(a) \in FilesOf(m)
      BY FinalNames
    <3>2. CASE m \in shared
      <4>1. m \in ms /\ Working(m) = {}
        BY <1>1, <2>1, <3>2
      <4>2. \A a \in Artifacts(m) : disk'[Final(a)] = None
        BY <1>2, <1>4, <3>1, <4>1
      <4>. QED  BY <1>7, <4>1, <4>2 DEF Lone, FinalsUntorn, Artifacts, Final
    <3>3. CASE m \notin shared
      <4>1. Lone(m)
        BY <3>3 DEF StoreInv, LoneInv
      <4>2. \A a \in Artifacts(m) : disk'[Final(a)] \in {disk[Final(a)], None}
        BY <1>4, <3>1
      <4>3. FinalsUntorn(m)'
        BY <4>1, <4>2 DEF Lone, FinalsUntorn, Artifacts, Final
      <4>4. ASSUME NEW u \in Working(m)
            PROVE  Mine(u)'
        <5>1. u \in Tasks /\ task[u].at # "idle" /\ Model(u) = m /\ Mine(u)
          BY <4>1 DEF Working, Lone
        <5>2. FilesOf(m) \cap names = {} \/ FilesOf(m) \subseteq names
          BY <1>2, <1>3
        <5>. QED  BY <1>4, <5>1, <5>2, LeftTask
      <4>. QED  BY <1>7, <4>1, <4>3, <4>4 DEF Lone
    <3>. QED  BY <3>2, <3>3
  <2>. QED  BY <2>1 DEF LoneInv
<1>. QED  BY <1>5, <1>6, <1>8, <1>9, <1>10 DEF StoreInv

LEMMA CancelStep ==
  ASSUME StoreInv, NEW job \in Composites, Cancel(job)
  PROVE  StoreInv'
<1>. DEFINE hit == {cancels[job[i]] : i \in 1 .. Len(job)} \ {None}
            woken == {t \in hit : Waits(t)}
            names == {Partial(Art(t)) : t \in {u \in woken : task[u].at = "select"}}
            s == [t \in Tasks |-> IF t \in woken
                                  THEN [task[t] EXCEPT !.at = "cancelled", !.open = None, !.got = 0]
                                  ELSE task[t]]
<1>1. /\ Event /\ Without(names, s) /\ UNCHANGED <<dirs, cancels, shared>> /\ StoreTypes
  BY DEF Cancel, StoreInv
<1>2. \A t \in woken : /\ t \in Pulls /\ t \in Tasks /\ t \notin Fetches
                       /\ task[t].at \in {"send", "select"}
  <2>1. ASSUME NEW i \in 1 .. Len(job)
        PROVE  cancels[job[i]] \in Pulls \cup {None}
    <3>1. job[i] \in Models
      BY ModelsAssumption
    <3>. QED  BY <1>1, <3>1 DEF StoreTypes
  <2>. QED  BY <2>1, TasksAssumption DEF Waits, Tasks
<1>. HIDE DEF hit, woken
<1>3. s \in [Tasks -> TaskRecord]
  <2>1. ASSUME NEW t \in Tasks
        PROVE  [task[t] EXCEPT !.at = "cancelled", !.open = None, !.got = 0] \in TaskRecord
               /\ task[t] \in TaskRecord
    <3>1. task[t] \in TaskRecord
      BY <1>1 DEF StoreTypes
    <3>2. 0 \in 0 .. Chunks
      BY ChunksAssumption
    <3>. QED  BY <3>1, <3>2 DEF TaskRecord, TaskStages
  <2>. QED  BY <2>1
<1>4. ASSUME NEW t \in Tasks
      PROVE  /\ t \in woken => /\ s[t].at = "cancelled" /\ s[t].open = None /\ s[t].got = 0
                               /\ s[t].todo = task[t].todo /\ s[t].art = task[t].art
             /\ t \notin woken => s[t] = task[t]
  BY <1>1 DEF StoreTypes, TaskRecord
<1>5. /\ \A n \in names : \E t \in woken : n = Partial(Art(t)) /\ n \in FilesOf(Model(t))
      /\ \A t \in woken : Partial(Art(t)) \in FilesOf(Model(t)) \cap Names
                          /\ Model(t) \in Models /\ t \in Working(Model(t))
      /\ names \subseteq Names
  <2>1. \A t \in woken : Partial(Art(t)) \in FilesOf(Model(t)) \cap Names
                         /\ Model(t) \in Models /\ t \in Working(Model(t))
    BY <1>2, AtWork
  <2>. QED  BY <2>1
<1>. HIDE DEF names, s
<1>6. /\ disk' \in [Names -> Content]
      /\ \A n \in Names : disk'[n] = IF n \in names THEN None ELSE disk[n]
      /\ task' \in [Tasks -> TaskRecord]
      /\ \A u \in Tasks :
           /\ task'[u].at = s[u].at /\ task'[u].todo = s[u].todo
           /\ task'[u].art = s[u].art /\ task'[u].got = s[u].got
           /\ task'[u].open = IF s[u].open \in names THEN None ELSE s[u].open
           /\ s[u].open \notin names => task'[u] = s[u]
  BY <1>1, <1>3, WithoutForm
<1>7. ASSUME NEW u \in Tasks, u \in woken
      PROVE  /\ Shaped(u, task'[u]) /\ task'[u].open = None /\ Model(u)' = Model(u)
             /\ task'[u].at = "cancelled" /\ Mine(u)'
  <2>1. task'[u].open = None /\ task'[u].at = "cancelled" /\ task'[u].got = 0
        /\ task'[u].todo = task[u].todo /\ task'[u].art = task[u].art
    BY <1>4, <1>6, <1>7
  <2>2. Shaped(u, task[u]) /\ task[u].at # "idle" /\ u \notin Fetches
    BY <1>2, <1>7 DEF StoreInv, TasksShaped
  <2>. QED  BY <2>1, <2>2 DEF Shaped, Model, Mine
<1>8. ASSUME NEW u \in Tasks, u \notin woken
      PROVE  /\ task'[u].at = task[u].at /\ task'[u].todo = task[u].todo
             /\ task'[u].art = task[u].art /\ task'[u].got = task[u].got
             /\ task'[u].open = IF task[u].open \in names THEN None ELSE task[u].open
  BY <1>4, <1>6, <1>8
<1>9. StoreTypes'
  BY <1>1, <1>6, ChunksAssumption DEF StoreTypes, Event
<1>10. TasksShaped'
  <2>1. ASSUME NEW u \in Tasks
        PROVE  /\ Shaped(u, task'[u])
               /\ task'[u].open # None =>
                    task'[u].open \in FilesOf(Model(u)') /\ disk'[task'[u].open] # None
    <3>1. CASE u \in woken
      BY <1>7, <3>1
    <3>2. CASE u \notin woken
      BY <1>6, <1>8, <3>2, LeftTask
    <3>. QED  BY <3>1, <3>2
  <2>. QED  BY <2>1, TasksFromParts
<1>11. \A m \in Models : Working(m)' = Working(m)
  <2>1. \A u \in woken : task[u].at \notin {"idle", "enter"} /\ task'[u].at = "cancelled"
                         /\ Model(u)' = Model(u)
    BY <1>2, <1>7
  <2>2. \A u \in Tasks \ woken : task'[u].at = task[u].at /\ Model(u)' = Model(u)
    BY <1>6, <1>8, LeftTask
  <2>3. \A u \in Tasks : /\ task'[u].at \notin {"idle", "enter"} <=> task[u].at \notin {"idle", "enter"}
                         /\ Model(u)' = Model(u)
    BY <2>1, <2>2
  <2>. QED  BY <2>3 DEF Working
<1>12. CancelsInv'
  BY <1>1, <1>11 DEF StoreInv, CancelsInv
<1>13. FilesInDirs'
  <2>1. ASSUME NEW m \in Models \ dirs, NEW n \in FilesOf(m)
        PROVE  disk'[n] = None
    BY <1>6, FileFacts DEF StoreInv, FilesInDirs
  <2>. QED  BY <1>1, <2>1 DEF FilesInDirs, FilesOf
<1>14. LoneInv'
  <2>1. ASSUME NEW m \in Models \ shared
        PROVE  Lone(m)'
    <3>1. Lone(m)
      BY DEF StoreInv, LoneInv
    <3>2. FinalsUntorn(m)'
      <4>1. \A a \in Artifacts(m) : disk'[Final(a)] \in {disk[Final(a)], None}
        BY <1>6, FinalNames
      <4>. QED  BY <3>1, <4>1 DEF Lone, FinalsUntorn, Artifacts, Final
    <3>3. ASSUME NEW u \in Working(m)
          PROVE  Mine(u)'
      <4>1. u \in Tasks /\ task[u].at # "idle" /\ Model(u) = m /\ Mine(u)
        BY <3>1 DEF Working, Lone
      <4>2. CASE u \in woken
        BY <1>7, <4>1, <4>2
      <4>3. CASE u \notin woken
        <5>1. FilesOf(m) \cap names = {}
          <6>1. ASSUME NEW t \in woken, Model(t) = m
                PROVE  FALSE
            BY <1>5, <3>1, <3>3, <4>3, <6>1 DEF Lone
          <6>2. \A n \in Models : FilesOf(m) \cap FilesOf(n) # {} => m = n
            BY FileFacts
          <6>. QED  BY <1>5, <6>1, <6>2
        <5>. QED  BY <1>6, <1>8, <4>1, <4>3, <5>1, LeftTask
      <4>. QED  BY <4>2, <4>3
    <3>. QED  BY <1>11, <3>1, <3>2, <3>3 DEF Lone
  <2>. QED  BY <1>1, <2>1 DEF LoneInv
<1>. QED  BY <1>9, <1>10, <1>12, <1>13, <1>14 DEF StoreInv

LEMMA IdleFacts ==
  Idle \in TaskRecord /\ Idle.at = "idle" /\ Idle.open = None /\ Idle.got = 0
BY ChunksAssumption DEF Idle, TaskRecord, TaskStages

LEMMA CrashStep ==
  ASSUME StoreInv, Crash
  PROVE  StoreInv'
<1>1. /\ Event /\ UNCHANGED <<dirs, disk, shared>>
      /\ task' = [t \in Tasks |-> Idle] /\ cancels' = [m \in Models |-> None]
  BY DEF Crash
<1>2. StoreTypes'
  BY <1>1, IdleFacts, ChunksAssumption DEF StoreInv, StoreTypes, Event
<1>3. \A t \in Tasks : Shaped(t, task'[t]) /\ task'[t].open = None
  BY <1>1, IdleFacts DEF Shaped, FetchStages
<1>4. \A m \in Models : Working(m)' = {}
  BY <1>1, IdleFacts DEF Working
<1>5. CancelsInv' /\ FilesInDirs'
  BY <1>1 DEF StoreInv, CancelsInv, FilesInDirs, FilesOf
<1>6. LoneInv'
  BY <1>1, <1>4 DEF StoreInv, LoneInv, Lone, FinalsUntorn
<1>7. TasksShaped'
  BY <1>3, TasksFromParts
<1>. QED  BY <1>2, <1>5, <1>6, <1>7 DEF StoreInv

-----------------------------------------------------------------------------
LEMMA StoreInit ==
  ASSUME Init
  PROVE  StoreInv
<1>1. /\ dirs = {} /\ disk = [n \in Names |-> None] /\ task = [t \in Tasks |-> Idle]
      /\ cancels = [m \in Models |-> None] /\ shared = {} /\ events = 0
  BY DEF Init
<1>2. StoreTypes
  BY <1>1, IdleFacts, ChunksAssumption DEF StoreTypes, Content
<1>3. TasksShaped
  BY <1>1, IdleFacts DEF TasksShaped, Shaped, FetchStages
<1>4. \A m \in Models : Working(m) = {}
  BY <1>1, IdleFacts DEF Working
<1>5. \A m \in Models : \A n \in FilesOf(m) : disk[n] = None
  BY <1>1, FileFacts
<1>6. LoneInv
  BY <1>4, <1>5, FileFacts DEF LoneInv, Lone, FinalsUntorn
<1>. QED  BY <1>1, <1>2, <1>3, <1>5, <1>6 DEF StoreInv, CancelsInv, FilesInDirs

LEMMA StoreNext ==
  ASSUME StoreInv, [Next]_vars
  PROVE  StoreInv'
<1>1. ASSUME NEW t \in Tasks, Step(t)
      PROVE  StoreInv'
  BY <1>1, EnterStep, BeginStep, FetchedStep, RespondStep, CreateStep, ChunkStep, WriteStep,
     EndOfFileStep, TooShortStep, RenameStep, LeaveStep DEF Step
<1>2. ASSUME NEW m \in Models, Remove(m)
      PROVE  StoreInv'
  BY <1>2, ClearStep DEF Remove
<1>3. CASE Purge
  BY <1>3, ClearStep DEF Purge
<1>4. CASE UNCHANGED vars
  <2>1. UNCHANGED <<dirs, disk, task, cancels, shared, events>>
    BY <1>4 DEF vars
  <2>2. StoreTypes' /\ FilesInDirs'
    BY <2>1 DEF StoreInv, StoreTypes, FilesInDirs
  <2>3. TasksShaped'
    <3>1. \A t \in Tasks : Shaped(t, task'[t]) /\ Model(t)' = Model(t)
      BY <2>1 DEF StoreInv, TasksShaped, Model
    <3> QED
      BY <2>1, <3>1 DEF StoreInv, TasksShaped
  <2>4. CancelsInv'
    BY <2>1 DEF StoreInv, CancelsInv, Model, Working
  <2>5. LoneInv'
    BY <2>1 DEF StoreInv, LoneInv, Lone, FinalsUntorn, Mine, Working, Model, Art
  <2>. QED  BY <2>2, <2>3, <2>4, <2>5 DEF StoreInv
<1>. QED  BY <1>1, <1>2, <1>3, <1>4, PullStep, FetchStep, CancelStep, CrashStep DEF Next

\* The tasks, the files and the notifiers have their types in every state: a
\* directory that is not there has no file, a notifier is that of a pull at work
\* (src/src-tauri/src/models.rs).
THEOREM StoreTypeCorrect == Spec => []TypeOK
<1>1. StoreInv => TypeOK
  <2>. SUFFICES ASSUME StoreInv PROVE TypeOK
    OBVIOUS
  <2>1. \A n \in Names : disk[n] = None \/ disk[n] \subseteq Whole
    BY DEF StoreInv, StoreTypes, Content
  <2>2. ASSUME NEW t \in Tasks
        PROVE  /\ task[t].at \in TaskStages
               /\ task[t].at # "idle" => task[t].art \in 1 .. Len(Registry[Head(task[t].todo)])
               /\ t \in Fetches => task[t].at \in FetchStages
               /\ task[t].at \in {"select", "write"} \/ task[t].open = None
               /\ task[t].got \in 0 .. Chunks
    BY DEF StoreInv, StoreTypes, TaskRecord, TasksShaped, Shaped
  <2>3. \A m \in Models : cancels[m] # None => task[cancels[m]].at # "idle"
    BY DEF StoreInv, CancelsInv, Working
  <2>4. \A m \in Models \ dirs : \A a \in Artifacts(m) : disk[Partial(a)] = None /\ disk[Final(a)] = None
    BY FileFacts DEF StoreInv, FilesInDirs
  <2>. QED  BY <2>1, <2>2, <2>3, <2>4 DEF TypeOK, StoreInv, StoreTypes, TaskStages, FetchStages
<1>. QED  BY <1>1, StoreInit, StoreNext, PTL DEF Spec

\* No file of a model that one task at a time worked on is torn under its final
\* name, for any models, tasks, lists to pull and sizes: not by a pull that was
\* cancelled, that failed, whose model was removed under it, or that a crash cut
\* off (src/src-tauri/src/models.rs: "atomically per file").
THEOREM ModelsLandUntorn == Spec => []LonePullsLandUntorn
<1>1. StoreInv => LonePullsLandUntorn
  BY DEF StoreInv, LoneInv, Lone, FinalsUntorn, LonePullsLandUntorn
<1>. QED  BY <1>1, StoreInit, StoreNext, PTL DEF Spec
=============================================================================
