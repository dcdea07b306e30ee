----------------------------- MODULE ModelStore -----------------------------
(***************************************************************************)
(* The store of speech models on disk (src/src-tauri/src/models.rs, with   *)
(* the commands of main.rs and the purge of purge.rs that work on it).     *)
(*                                                                         *)
(* A model is a directory of artifacts.  The person's pulls stream each    *)
(* artifact to X.partial and rename it into place, and can be cancelled;   *)
(* background fetches read it into memory, write the same X.partial and    *)
(* rename that.  Nothing keeps two of them off one model.  A step is the   *)
(* code from one await to the next.  A file has one name, so an open file  *)
(* is followed by its name until it is unlinked.                           *)
(***************************************************************************)
EXTENDS Naturals, Sequences

CONSTANTS
  Pulls,      \* the tasks of pull_model and pull_composite
  Fetches,    \* the tasks of fetch_model_quiet
  Models,
  Registry,   \* the artifacts of each model, in order
  Composites, \* the lists of models that one command pulls
  Bundled,    \* the artifacts with a copy compiled into the program
  Chunks,     \* bound: the chunks of an artifact
  Enough,     \* those that reach its min_bytes
  None,
  MaxEvents   \* bound: pulls, cancels, removals and crashes

ASSUME ModelsAssumption ==
  /\ \A m \in Models : Len(Registry[m]) > 0
  /\ Composites \subseteq Seq(Models) \ {<<>>}
ASSUME ChunksAssumption == Chunks \in Nat /\ Enough \in 1 .. Chunks /\ MaxEvents \in Nat

Tasks == Pulls \cup Fetches
Artifacts(m) == {Registry[m][i] : i \in 1 .. Len(Registry[m])}
Names == {"partial", "final"} \X UNION {Artifacts(m) : m \in Models}
Partial(a) == <<"partial", a>>
Final(a) == <<"final", a>>

\* Every model has a directory of its own, so a file belongs to one model.
ASSUME RegistryAssumption ==
  \A m \in Models :
    /\ Registry[m] \in Seq(Artifacts(m))
    /\ \A n \in Models \ {m} : Artifacts(m) \cap Artifacts(n) = {}
ASSUME TasksAssumption == Pulls \cap Fetches = {}
ASSUME NoneAssumption ==
  None \notin Tasks \cup Names /\ \A chunks \in SUBSET (1 .. Chunks) : None # chunks

VARIABLES
  dirs,      \* the models that have a directory
  disk,      \* disk[n]: the chunks in the file n, or None
  task,      \* task[t]: where it is, the models it has to do, the artifact of
             \* the first one, the file it has open, the chunks it has received
  cancels,   \* cancels[m]: PULL_CANCELS, the pull that a cancel of m wakes
  shared,    \* history: the models that two tasks have worked on at once
  events

vars == <<dirs, disk, task, cancels, shared, events>>

Idle == [at |-> "idle", todo |-> <<>>, art |-> 1, open |-> None, got |-> 0]
Whole == 1 .. Chunks
\* What a stream may leave: its end is taken for the end of the artifact as
\* soon as min_bytes have come.
Untorn == {1 .. n : n \in Enough .. Chunks}

\* check_installed, of one file: it is there and its length is acceptable.
Accepted(n) == disk[n] # None /\ \E c \in disk[n] : c >= Enough
Installed(m) == \A a \in Artifacts(m) : Accepted(Final(a))

TypeOK ==
  /\ dirs \subseteq Models
  /\ \A n \in Names : disk[n] = None \/ disk[n] \subseteq Whole
  /\ \A t \in Tasks :
       /\ task[t].at \in {"idle", "enter", "head", "send", "create", "select", "write",
                         "rename", "completed", "cancelled", "failed"}
       /\ task[t].at # "idle" => task[t].art \in 1 .. Len(Registry[Head(task[t].todo)])
       /\ t \in Fetches => task[t].at \in {"idle", "enter", "head", "send", "completed", "failed"}
       /\ task[t].at \in {"select", "write"} \/ task[t].open = None
       /\ task[t].got \in 0 .. Chunks
  /\ \A m \in Models : cancels[m] # None => task[cancels[m]].at # "idle"
  /\ \A m \in Models \ dirs : \A a \in Artifacts(m) : disk[Partial(a)] = None /\ disk[Final(a)] = None
  /\ shared \subseteq Models
  /\ events \in 0 .. MaxEvents

Init ==
  /\ dirs = {}
  /\ disk = [n \in Names |-> None]
  /\ task = [t \in Tasks |-> Idle]
  /\ cancels = [m \in Models |-> None]
  /\ shared = {}
  /\ events = 0

Event == events < MaxEvents /\ events' = events + 1
Model(t) == Head(task[t].todo)
Art(t) == Registry[Model(t)][task[t].art]
At(t, stage) == task' = [task EXCEPT ![t].at = stage]

----------------------------------------------------------------------------
(* Files: s is the tasks after the rest of the step *)

Without(names, s) ==
  /\ disk' = [n \in Names |-> IF n \in names THEN None ELSE disk[n]]
  /\ task' = [t \in Tasks |-> [s[t] EXCEPT !.open = IF @ \in names THEN None ELSE @]]

\* X.partial, with these chunks in it, becomes X.
Land(a, chunks, s) ==
  /\ disk' = [disk EXCEPT ![Partial(a)] = None, ![Final(a)] = chunks]
  /\ task' = [t \in Tasks |-> [s[t] EXCEPT !.open =
                IF @ = Partial(a) THEN Final(a) ELSE IF @ = Final(a) THEN None ELSE @]]

----------------------------------------------------------------------------
(* Every task *)

Pull(t, job) ==
  /\ t \in Pulls /\ task[t].at = "idle" /\ job \in Composites /\ Event
  /\ task' = [task EXCEPT ![t] = [Idle EXCEPT !.at = "enter", !.todo = job]]
  /\ UNCHANGED <<dirs, disk, cancels, shared>>

\* fetch_model_quiet, which is a no-op when the model is installed.
Fetch(t, m) ==
  /\ t \in Fetches /\ task[t].at = "idle" /\ ~Installed(m) /\ Event
  /\ task' = [task EXCEPT ![t] = [Idle EXCEPT !.at = "enter", !.todo = <<m>>]]
  /\ UNCHANGED <<dirs, disk, cancels, shared>>

\* The task makes the directory of its next model; a pull leaves its notifier
\* for cancel_pull, in the place of that of another pull of the model.
Working(m) == {t \in Tasks : task[t].at \notin {"idle", "enter"} /\ Model(t) = m}
Enter(t) ==
  /\ task[t].at = "enter"
  /\ At(t, "head")
  /\ dirs' = dirs \cup {Model(t)}
  /\ cancels' = [cancels EXCEPT ![Model(t)] = IF t \in Pulls THEN t ELSE @]
  /\ shared' = IF Working(Model(t)) = {} THEN shared ELSE shared \cup {Model(t)}
  /\ UNCHANGED <<disk, events>>

\* The artifact is done: the tasks when t goes on to the next one.
Onward(t) ==
  IF task[t].art < Len(Registry[Model(t)])
  THEN [task EXCEPT ![t].at = "head", ![t].art = @ + 1, ![t].open = None, ![t].got = 0]
  ELSE [task EXCEPT ![t].at = "completed", ![t].open = None, ![t].got = 0]
Stop(t, end) == [task EXCEPT ![t].at = end, ![t].open = None, ![t].got = 0]

\* An artifact in place is skipped; a file too small to be it, and what an
\* earlier pull left in X.partial, are removed.
Begin(t) ==
  /\ task[t].at = "head"
  /\ IF Accepted(Final(Art(t)))
     THEN task' = Onward(t) /\ UNCHANGED disk
     ELSE Without({Final(Art(t))} \cup IF t \in Pulls THEN {Partial(Art(t))} ELSE {},
                  [task EXCEPT ![t].at = "send"])
  /\ UNCHANGED <<dirs, cancels, shared, events>>

\* The server gave no artifact: the copy in the program stands in for it.
Fallback(t) ==
  IF Art(t) \in Bundled /\ Model(t) \in dirs
  THEN Land(Art(t), Whole, Onward(t))
  ELSE task' = Stop(t, "failed") /\ UNCHANGED disk

----------------------------------------------------------------------------
(* The background fetch: the rest of an artifact is one step *)

Fetched(t) ==
  /\ t \in Fetches /\ task[t].at = "send"
  /\ \/ IF Model(t) \in dirs
        THEN \E chunks \in Untorn : Land(Art(t), chunks, Onward(t))
        ELSE task' = Stop(t, "failed") /\ UNCHANGED disk
     \/ Fallback(t)
  /\ UNCHANGED <<dirs, cancels, shared, events>>

----------------------------------------------------------------------------
(* The pull *)

\* The response: none, an error status, or the head of the file.
Respond(t) ==
  /\ t \in Pulls /\ task[t].at = "send"
  /\ \/ task' = Stop(t, "failed") /\ UNCHANGED disk
     \/ Fallback(t)
     \/ At(t, "create") /\ UNCHANGED disk
  /\ UNCHANGED <<dirs, cancels, shared, events>>

Create(t) ==
  /\ task[t].at = "create"
  /\ IF Model(t) \in dirs
     THEN /\ disk' = [disk EXCEPT ![Partial(Art(t))] = {}]
          /\ task' = [task EXCEPT ![t].at = "select", ![t].open = Partial(Art(t))]
     ELSE task' = Stop(t, "failed") /\ UNCHANGED disk
  /\ UNCHANGED <<dirs, cancels, shared, events>>

\* The stream: a chunk, an error, or its end, after the artifact or before: a
\* body of no stated length may end early without an error.  An error leaves X.partial.
Chunk(t) ==
  /\ task[t].at = "select" /\ task[t].got < Chunks
  /\ task' \in {[task EXCEPT ![t].at = "write"], Stop(t, "failed")}
  /\ UNCHANGED <<dirs, disk, cancels, shared, events>>

Write(t) ==
  /\ task[t].at = "write"
  /\ disk' = IF task[t].open = None THEN disk
             ELSE [disk EXCEPT ![task[t].open] = @ \cup {task[t].got + 1}]
  /\ task' = [task EXCEPT ![t].at = "select", ![t].got = @ + 1]
  /\ UNCHANGED <<dirs, cancels, shared, events>>

\* Mutant: the size of the stream is not checked at its end.
EndOfFileAnySize(t) ==
  /\ task[t].at = "select"
  /\ task' = [task EXCEPT ![t].at = "rename", ![t].open = None]
  /\ UNCHANGED <<dirs, disk, cancels, shared, events>>

\* Only a file below min_bytes is too short, and removed.
EndOfFile(t) ==
  /\ task[t].at = "select" /\ task[t].got >= Enough
  /\ task' = [task EXCEPT ![t].at = "rename", ![t].open = None]
  /\ UNCHANGED <<dirs, disk, cancels, shared, events>>
TooShort(t) ==
  /\ task[t].at = "select" /\ task[t].got < Enough
  /\ IF Art(t) \in Bundled /\ Model(t) \in dirs
     THEN Land(Art(t), Whole, Onward(t))
     ELSE Without({Partial(Art(t))}, Stop(t, "failed"))
  /\ UNCHANGED <<dirs, cancels, shared, events>>

Rename(t) ==
  /\ task[t].at = "rename"
  /\ IF disk[Partial(Art(t))] # None
     THEN Land(Art(t), disk[Partial(Art(t))], Onward(t))
     ELSE task' = Stop(t, "failed") /\ UNCHANGED disk
  /\ UNCHANGED <<dirs, cancels, shared, events>>

\* pull_composite: a completed component is followed by the next one.
Rest(t) == IF task[t].at = "completed" /\ Len(task[t].todo) > 1
           THEN [Idle EXCEPT !.at = "enter", !.todo = Tail(task[t].todo)] ELSE Idle

\* The notifier goes, whoever left it.  A cancelled pull removes what is in
\* X.partial of each artifact.
Leave(t) ==
  /\ task[t].at \in {"completed", "cancelled", "failed"}
  /\ cancels' = [cancels EXCEPT ![Model(t)] = IF t \in Pulls THEN None ELSE @]
  /\ LET next == [task EXCEPT ![t] = Rest(t)]
     IN IF task[t].at = "cancelled"
        THEN Without({Partial(a) : a \in Artifacts(Model(t))}, next)
        ELSE task' = next /\ UNCHANGED disk
  /\ UNCHANGED <<dirs, shared, events>>

----------------------------------------------------------------------------
(* What else comes in *)

\* cancel_pull wakes a pull that waits for the network, and no other.
Waits(t) == task[t].at \in {"send", "select"}
Cancel(job) ==
  LET hit == {cancels[job[i]] : i \in 1 .. Len(job)} \ {None} IN
  /\ hit # {} /\ Event
  /\ LET woken == {t \in hit : Waits(t)} IN
     Without({Partial(Art(t)) : t \in {u \in woken : task[u].at = "select"}},
             [t \in Tasks |-> IF t \in woken
                             THEN [task[t] EXCEPT !.at = "cancelled", !.open = None, !.got = 0]
                             ELSE task[t]])
  /\ UNCHANGED <<dirs, cancels, shared>>

\* The directories of these models go, whoever works in them.
Clear(ms) ==
  /\ ms \cap dirs # {} /\ Event
  /\ dirs' = dirs \ ms
  /\ Without(UNION {{Partial(a), Final(a)} : a \in UNION {Artifacts(m) : m \in ms}}, task)
  /\ shared' = {m \in shared : m \notin ms \/ Working(m) # {}}
  /\ UNCHANGED cancels

Remove(m) == Clear({m})
\* Storage tab, "purge everything": of what it removes only the models are here.
Purge == Clear(Models)

Crash ==
  /\ Event
  /\ task' = [t \in Tasks |-> Idle]
  /\ cancels' = [m \in Models |-> None]
  /\ UNCHANGED <<dirs, disk, shared>>

Step(t) ==
  \/ Enter(t) \/ Begin(t) \/ Fetched(t) \/ Respond(t) \/ Create(t) \/ Chunk(t) \/ Write(t)
  \/ EndOfFile(t) \/ TooShort(t) \/ Rename(t) \/ Leave(t)

Next ==
  \/ \E t \in Tasks : Step(t)
  \/ \E t \in Pulls, job \in Composites : Pull(t, job)
  \/ \E t \in Fetches, m \in Models : Fetch(t, m)
  \/ \E job \in Composites : Cancel(job)
  \/ \E m \in Models : Remove(m)
  \/ Purge
  \/ Crash

Spec == Init /\ [][Next]_vars
----------------------------------------------------------------------------
(* Properties *)

\* A model that no two tasks worked on at once never has a torn file under its
\* final name, whatever was cancelled, failed, removed or cut off by a crash: it
\* holds one stream from its first byte on, and at least min_bytes of it
\* (models.rs: "atomically per file").
LonePullsLandUntorn ==
  \A m \in Models \ shared : \A a \in Artifacts(m) : disk[Final(a)] \in {None} \cup Untorn
=============================================================================
