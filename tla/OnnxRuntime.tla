----------------------------- MODULE OnnxRuntime -----------------------------
(***************************************************************************)
(* How the speech engine gets its onnxruntime library: ort_install.rs      *)
(* fetches the pinned version into ~/.myownllm/runtime, ort_setup.rs finds *)
(* a library and loads it, and callers of one process wait for each other  *)
(* on SETUP_LOCK.  Processes share the directory and no lock.              *)
(*                                                                         *)
(* A library is known by its version and by whether all of it was written. *)
(* Versions are those that the releases of the program pin.                *)
(***************************************************************************)
EXTENDS Integers, FiniteSets

CONSTANTS
  Windowed,     \* processes with the window: they set the engine up at start
  Tools,        \* processes of the command line: they load what they find
  Requests,     \* threads <<process, name>> that serve a request
  Releases,     \* versions of onnxruntime, by release of the program
  MaxChanges    \* launches, updates and hands on the directory (a bound)

ASSUME RequestsAssumption ==
  /\ Windowed \cap Tools = {}
  /\ \A t \in Requests : /\ t = <<t[1], t[2]>>
                         /\ t[1] \in Windowed \cup Tools
                         /\ t[2] \notin {"main", "free"}
ASSUME ReleasesAssumption ==
  /\ Releases \subseteq Nat \ {0}
  /\ 1 \in Releases
  /\ MaxChanges \in Nat

Programs == Windowed \cup Tools
Main == "main"                       \* the setup hook, or fn main of a tool
Threads == (Programs \X {Main}) \cup Requests

VARIABLES
  release,      \* the release that is installed
  dir,          \* [target, partial, archive, stamp]: the runtime directory
  elsewhere,    \* "before" or "after": there is a library in a place searched before
                \* or after the directory; or "none"
  program,      \* [up, serves, want, status, lock] of each process
  thread,       \* [at, job, lib] of each thread
  changes,      \* changes of the environment so far (bounded)
  upset         \* two processes set up at a time, one of an older release did,
                \* or a release was taken back (history)

engineVars == <<release, dir, elsewhere, program, thread, changes, upset>>

NoFile == [ver |-> 0, torn |-> FALSE, by |-> {}]
Foreign == [NoFile EXCEPT !.ver = -1]      \* somebody else's, of any version
File == [ver : Releases, torn : BOOLEAN, by : SUBSET Programs]
Down == [up |-> FALSE, serves |-> FALSE, want |-> 1, status |-> "unset", lock |-> "free"]
Resting == [at |-> "idle", job |-> "setup", lib |-> NoFile]

\* Where a thread is inside ensure_runtime_dylib.
Fetching == {"cached", "request", "extract", "copy", "installed"}

EngineTypeOK ==
  /\ release \in Releases
  /\ dir \in [target : File \cup {NoFile}, partial : File \cup {NoFile},
              archive : SUBSET Programs, stamp : Releases \cup {0}]
  /\ elsewhere \in {"none", "before", "after"}
  /\ program \in [Programs -> [up : BOOLEAN, serves : BOOLEAN, want : Releases,
                               status : {"unset", "failed", "ready"},
                               lock : {t[2] : t \in Threads} \cup {"free"}]]
  /\ thread \in [Threads -> [at : {"idle", "waiting", "load", "loading"} \cup Fetching,
                           job : {"setup", "start", "fetch"},
                           lib : File \cup {NoFile, Foreign}]]
  /\ changes \in 0..MaxChanges
  /\ upset \in BOOLEAN

EngineInit ==
  /\ release = 1
  /\ dir = [target |-> NoFile, partial |-> NoFile, archive |-> {}, stamp |-> 0]
  /\ elsewhere = "none"
  /\ program = [p \in Programs |-> Down]
  /\ thread = [t \in Threads |-> Resting]
  /\ changes = 0
  /\ upset = FALSE

Is(t, place) == thread[t].at = place
Goto(t, place) == thread' = [thread EXCEPT ![t].at = place]

\* The thread's process, and the thread's own name in it.
Of(t) == t[1]
Want(t) == program[Of(t)].want

----------------------------------------------------------------------------
\* The start and the end of a process.

\* The window's hook asks for the engine; a tool loads what is there, without
\* the lock, before it does anything else.
Launch(p) ==
  /\ ~program[p].up
  /\ changes < MaxChanges
  /\ changes' = changes + 1
  /\ \E serves \in BOOLEAN :
       /\ p \in Windowed => serves
       /\ program' = [program EXCEPT ![p] =
                        [Down EXCEPT !.up = TRUE, !.serves = serves, !.want = release]]
  /\ thread' = [thread EXCEPT ![<<p, Main>>] =
                IF p \in Windowed THEN [Resting EXCEPT !.at = "waiting"]
                ELSE [Resting EXCEPT !.at = "load", !.job = "start"]]
  /\ UNCHANGED <<release, dir, elsewhere, upset>>

\* What a process leaves of a file it was writing: a part of it, or all of it if
\* the copy was just complete.
Left(p, f) ==
  IF p \notin f.by THEN {f}
  ELSE {[f EXCEPT !.by = @ \ {p}, !.torn = torn] : torn \in {TRUE, f.torn}}

\* A process ends or is killed, wherever its threads are.  A partial nobody
\* else works on is as good as gone: the next fetch removes it first.
Vanish(p) ==
  /\ program[p].up
  /\ program' = [program EXCEPT ![p] = Down]
  /\ thread' = [t \in Threads |-> IF Of(t) = p THEN Resting ELSE thread[t]]
  /\ \E target \in Left(p, dir.target),
        partial \in IF \E t \in Threads : Of(t) # p /\ Is(t, "copy") THEN Left(p, dir.partial)
                    ELSE {NoFile} :
       dir' = [dir EXCEPT !.target = target, !.partial = partial, !.archive = @ \ {p}]
  /\ UNCHANGED <<release, elsewhere, changes, upset>>

----------------------------------------------------------------------------
\* What others do: installers and updates, the person, a virus scanner.

Update(r) ==
  /\ changes < MaxChanges
  /\ r # release
  /\ release' = r
  /\ changes' = changes + 1
  /\ upset' = (upset \/ r < release)
  /\ UNCHANGED <<dir, elsewhere, program, thread>>

\* A library beside the program, one that ORT_DYLIB_PATH names, the system's.
Place ==
  /\ changes < MaxChanges
  /\ elsewhere = "none"
  /\ elsewhere' \in {"before", "after"}
  /\ changes' = changes + 1
  /\ UNCHANGED <<release, dir, program, thread, upset>>

\* The third of the "recovery options": the right library, by hand.
DropIn ==
  /\ changes < MaxChanges
  /\ dir' = [dir EXCEPT !.target = [NoFile EXCEPT !.ver = release]]
  /\ changes' = changes + 1
  /\ upset' = (upset \/ \E p \in Programs : program[p].up /\ program[p].want # release)
  /\ UNCHANGED <<release, elsewhere, program, thread>>

\* A scanner takes the library away, and leaves the stamp.
Quarantine ==
  /\ changes < MaxChanges
  /\ dir.target # NoFile
  /\ dir' = [dir EXCEPT !.target = NoFile]
  /\ changes' = changes + 1
  /\ UNCHANGED <<release, elsewhere, program, thread, upset>>

Others == (\E r \in Releases : Update(r)) \/ Place \/ DropIn \/ Quarantine

----------------------------------------------------------------------------
\* ensure_ready: the fast path, and the lock.

\* A request of the window or of the API, when the engine is not ready yet.
Ask(t) ==
  /\ program[Of(t)].serves
  /\ t[2] # Main
  /\ Is(t, "idle")
  /\ thread[<<Of(t), Main>>].job # "start"    \* a tool serves after initialize
  /\ program[Of(t)].status # "ready"
  /\ Goto(t, "waiting")
  /\ UNCHANGED <<release, dir, elsewhere, program, changes, upset>>

\* Mutant of Acquire: the status is not looked at again under the lock.
AcquireBlindly(t) ==
  /\ Is(t, "waiting")
  /\ program[Of(t)].lock = "free"
  /\ Goto(t, "cached")
  /\ program' = [program EXCEPT ![Of(t)].lock = t[2]]
  /\ UNCHANGED <<release, dir, elsewhere, changes, upset>>

\* Another caller may have finished the setup meanwhile.
Acquire(t) ==
  /\ Is(t, "waiting")
  /\ program[Of(t)].lock = "free"
  /\ IF program[Of(t)].status = "ready"
     THEN Goto(t, "idle") /\ UNCHANGED program
     ELSE /\ Goto(t, "cached")
          /\ program' = [program EXCEPT ![Of(t)].lock = t[2]]
  /\ UNCHANGED <<release, dir, elsewhere, changes, upset>>

\* The call returns, and what it found out is the status from now on.
Returns(t, status) ==
  /\ thread' = [thread EXCEPT ![t] = Resting]
  /\ program' = [program EXCEPT ![Of(t)].status = status,
                                ![Of(t)].lock = IF @ = t[2] THEN "free" ELSE @]

\* myownllm fetch-onnxruntime: nothing to do when there is a library, whichever.
AskToFetch(t) ==
  /\ program[Of(t)].up /\ ~program[Of(t)].serves
  /\ t[2] = Main /\ Is(t, "idle")
  /\ dir.target = NoFile
  /\ thread' = [thread EXCEPT ![t] = [Resting EXCEPT !.at = "cached", !.job = "fetch"]]
  /\ UNCHANGED <<release, dir, elsewhere, program, changes, upset>>

----------------------------------------------------------------------------
\* ensure_runtime_dylib.

\* A setup that meets another process's, or is that of an older release.
Disturbed(t) ==
  \/ Want(t) # release
  \/ \E u \in Threads : Of(u) # Of(t) /\ thread[u].at \in Fetching \cup {"load"}

\* Only a library whose stamp has the pinned version is kept; any other is
\* removed, if the system lets it, before there is a new one.
Cached(t) ==
  /\ Is(t, "cached")
  /\ IF dir.target # NoFile /\ dir.stamp = Want(t)
     THEN thread' = [thread EXCEPT ![t] = IF @.job = "fetch" THEN Resting ELSE [@ EXCEPT !.at = "load"]]
          /\ UNCHANGED dir
     ELSE /\ Goto(t, "request")
          /\ dir' \in {[dir EXCEPT !.target = NoFile], dir}
  /\ upset' = (upset \/ Disturbed(t))
  /\ UNCHANGED <<release, elsewhere, program, changes>>

\* The answer has a body, which is read to its end into an archive created anew.
Requested(t) ==
  /\ Is(t, "request")
  /\ Goto(t, "extract")
  /\ dir' = [dir EXCEPT !.archive = {Of(t)}]
  /\ UNCHANGED <<release, elsewhere, program, changes, upset>>

\* Mutant of Extract: the stamp is written before the library is in place.
ExtractStamps(t) ==
  /\ Is(t, "extract")
  /\ dir.archive # {}
  /\ Goto(t, "copy")
  /\ dir' = [dir EXCEPT !.partial = [ver |-> Want(t), torn |-> FALSE, by |-> {Of(t)}],
                        !.stamp = Want(t)]
  /\ UNCHANGED <<release, elsewhere, program, changes, upset>>

\* The entry is found and its copy created under a name of its own.  An archive
\* another process created since may be good, or half of one.
Extract(t) ==
  /\ Is(t, "extract")
  /\ dir.archive # {}
  /\ Goto(t, "copy")
  /\ \E torn \in {FALSE} \cup {dir.archive # {Of(t)}} :
       dir' = [dir EXCEPT !.partial = [ver |-> Want(t), torn |-> torn, by |-> {Of(t)}]]
  /\ UNCHANGED <<release, elsewhere, program, changes, upset>>

\* The copy is complete, wherever it is by now.  The rename puts whatever has
\* the partial's name in place.
Renamed(t) ==
  /\ Is(t, "copy")
  /\ dir.partial # NoFile
  /\ Goto(t, "installed")
  /\ dir' = [dir EXCEPT !.target = [dir.partial EXCEPT !.by = @ \ {Of(t)}], !.partial = NoFile]
  /\ UNCHANGED <<release, elsewhere, program, changes, upset>>

\* The library has the size of one.  The archive goes; that the stamp cannot
\* be written is no error.
Stamped(t) ==
  /\ Is(t, "installed")
  /\ dir.target # NoFile
  /\ thread' = [thread EXCEPT ![t] = IF @.job = "fetch" THEN Resting ELSE [@ EXCEPT !.at = "load"]]
  /\ \E stamp \in {Want(t), dir.stamp} :
       dir' = [dir EXCEPT !.stamp = stamp, !.archive = {}]
  /\ UNCHANGED <<release, elsewhere, program, changes, upset>>

\* Any step of the fetch may fail, and a library too small to be one is removed
\* again.  Nothing is loaded then, not even another library that is there.
FetchFails(t) ==
  /\ thread[t].at \in Fetching \ {"cached"}
  /\ IF thread[t].job = "fetch"
     THEN thread' = [thread EXCEPT ![t] = Resting] /\ UNCHANGED program
     ELSE Returns(t, "failed")
  /\ \E removed \in {FALSE} \cup {Is(t, "installed") /\ (dir.target.torn \/ dir.target.by # {})},
        partial \in Left(Of(t), dir.partial), target \in Left(Of(t), dir.target) :
       dir' = [dir EXCEPT !.partial = partial, !.target = IF removed THEN NoFile ELSE target]
  /\ UNCHANGED <<release, elsewhere, changes, upset>>

----------------------------------------------------------------------------
\* initialize and run_init.

\* candidate_paths: the first library that exists is the one to load.
Candidate ==
  IF elsewhere = "before" \/ (elsewhere = "after" /\ dir.target = NoFile)
  THEN Foreign ELSE dir.target

\* A thread of its own loads the library, and may be stuck in that for good.
LoadFirst(t) ==
  /\ Is(t, "load")
  /\ IF Candidate = NoFile
     THEN Returns(t, "failed")
     ELSE /\ thread' = [thread EXCEPT ![t].at = "loading", ![t].lib = Candidate]
          /\ UNCHANGED program
  /\ UNCHANGED <<release, dir, elsewhere, changes, upset>>

\* It loads or fails; the caller of one that is stuck gives up after 90 s.
Loaded(t) ==
  /\ Is(t, "loading")
  /\ \E status \in {"failed"} \cup
                   (IF thread[t].lib.torn THEN {} ELSE {"ready"}) :
       Returns(t, status)
  /\ UNCHANGED <<release, dir, elsewhere, changes, upset>>

----------------------------------------------------------------------------
Works(t) ==
  \/ Cached(t) \/ Requested(t) \/ Extract(t) \/ Renamed(t) \/ Stamped(t)
  \/ FetchFails(t) \/ LoadFirst(t) \/ Loaded(t)

EngineNext ==
  \/ \E p \in Programs : Launch(p) \/ Vanish(p)
  \/ Others
  \/ \E t \in Threads : Ask(t) \/ AskToFetch(t) \/ Acquire(t) \/ Works(t)

EngineSpec == EngineInit /\ [][EngineNext]_engineVars

----------------------------------------------------------------------------
(***************************************************************************)
(* What a setup loads from the runtime directory is a whole library of the *)
(* version its program pins: after updates, a quarantine or a kill in the  *)
(* middle of a fetch.  Two processes that set up at a time, one that was   *)
(* started before an update and a release taken back are the exceptions.   *)
(***************************************************************************)
EngineIsPinned ==
  \A t \in Threads :
    (Is(t, "loading") /\ thread[t].job = "setup" /\ elsewhere = "none" /\ ~upset) =>
      thread[t].lib.ver = Want(t) /\ ~thread[t].lib.torn /\ thread[t].lib.by = {}

(***************************************************************************)
(* An engine that is ready stays so while its process lives: no later call *)
(* that found it not ready, however its own fetch or load ends, takes the  *)
(* status back.                                                            *)
(***************************************************************************)
ReadyIsKept ==
  [][\A p \in Programs :
       (program[p].status = "ready" /\ program'[p].up) => program'[p].status = "ready"]_engineVars
=============================================================================
