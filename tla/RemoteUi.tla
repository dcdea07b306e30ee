------------------------------ MODULE RemoteUi ------------------------------
(***************************************************************************)
(* The remote UI: the tracker of browser sessions and the curtain that     *)
(* follows it, kicks, the server with the commands that start and stop it, *)
(* the `enabled` key of the configuration, and the pointer to the open     *)
(* conversation with its copy on disk.                                     *)
(*                                                                         *)
(* A step is a critical section of one of the locks.  refresh_active takes *)
(* two, one after the other, so the answer it sends may be old.  Actors    *)
(* are threads: the desktop's heartbeat, the browsers, the kick, commands  *)
(* that switch the server, and setters of the pointer.                     *)
(***************************************************************************)
EXTENDS Integers, FiniteSets

CONSTANTS
  Desktop,      \* the session of the desktop
  Browsers,     \* the remote sessions
  Kicker,
  Commands,     \* the commands that switch the server, and its start at boot
  Setters,      \* those who move the pointer
  Casts,        \* bound: the sets of actors that take part in a behaviour
  Ports, Conversations, None,
  MaxKicks,     \* bound: kicks
  MaxSets       \* bound: moves of each setter

ASSUME BoundsAssumption ==
  /\ MaxKicks \in Nat /\ MaxSets \in Nat
  /\ \A who \in Casts : who \subseteq {Desktop, Kicker} \cup Browsers \cup Commands \cup Setters
ASSUME NoneAssumption == None \notin Commands \cup Ports

Sessions == {Desktop} \cup Browsers
Refreshers == Sessions \cup {Kicker} \cup Commands

VARIABLES
  cast,
  session,   \* session[s]: None, "live", or "old" once SESSION_TIMEOUT is over
  kicked,    \* kick_until lies ahead
  refresh,   \* refresh[a]: where the call of refresh_active by a is
  active,    \* the flag that listeners see
  curtain,   \* what the GUI has made of it
  enabled,   \* remote_ui.enabled in config.json
  slot,      \* SERVER: the run it holds
  serving,   \* serving[c]: the port of the run that c started, or None
  command,   \* command[c]: where it is, and the port it wants, None to stop
  pointer,   \* the conversation in the watch channel
  file,      \* the conversation in active-conversation.json
  setter,    \* setter[a]: where it is, the value it writes and the moves left
  kicks,
  overlapped, \* history: two commands were under way at once
  unsaved     \* history: the last write of the file failed

tracker == <<session, kicked, refresh, active, curtain, kicks>>
switch == <<enabled, slot, serving, command, overlapped>>
conversation == <<pointer, file, setter, unsaved>>
vars == <<cast, tracker, switch, conversation>>

TypeOK ==
  /\ cast \in Casts
  /\ session \in [Sessions -> {None, "live", "old"}]
  /\ kicked \in BOOLEAN /\ active \in BOOLEAN /\ curtain \in BOOLEAN
  /\ refresh \in [Refreshers -> {"idle", "due", "remote", "alone"}]
  /\ enabled \in BOOLEAN /\ overlapped \in BOOLEAN /\ unsaved \in BOOLEAN
  /\ slot \in Commands \cup {None}
  /\ serving \in [Commands -> Ports \cup {None}]
  /\ command \in [Commands -> [at : {"new", "start", "replace", "bind", "store", "stop", "done"},
                               port : Ports \cup {None}]]
  /\ pointer \in Conversations \cup {None} /\ file \in Conversations \cup {None}
  /\ setter \in [Setters -> [at : {"idle", "set", "write"}, value : Conversations \cup {None},
                             left : 0 .. MaxSets]]
  /\ kicks \in 0 .. MaxKicks
  \* a port is bound once
  /\ \A c, d \in Commands : serving[c] = serving[d] => c = d \/ serving[c] = None
  \* what the file is being given is what the channel holds
  /\ \A a \in Setters : setter[a].at = "write" => setter[a].value = pointer

Init ==
  /\ cast \in Casts
  /\ session = [s \in Sessions |-> None]
  /\ kicked = FALSE /\ active = FALSE /\ curtain = FALSE /\ kicks = 0
  /\ refresh = [a \in Refreshers |-> "idle"]
  /\ enabled \in (IF cast \cap Commands = {} THEN {FALSE} ELSE BOOLEAN)
  /\ slot = None /\ serving = [c \in Commands |-> None]
  /\ command = [c \in Commands |-> [at |-> IF c \in cast THEN "new" ELSE "done", port |-> None]]
  /\ overlapped = FALSE
  /\ pointer \in (IF cast \cap Setters = {} THEN {None} ELSE Conversations \cup {None})
  /\ file = pointer /\ unsaved = FALSE
  /\ setter = [a \in Setters |-> [at |-> "idle", value |-> None,
                                  left |-> IF a \in cast THEN MaxSets ELSE 0]]

-----------------------------------------------------------------------------
(* The tracker and the curtain.                                            *)

Idle(a) == refresh[a] = "idle"
Due(a) == refresh' = [refresh EXCEPT ![a] = "due"]
WithoutBrowsers == [s \in Sessions |-> IF s \in Browsers THEN None ELSE session[s]]

\* A heartbeat that does not look for expired sessions.
HeartbeatQuiet ==
  /\ Desktop \in cast /\ Idle(Desktop)
  /\ session' = [session EXCEPT ![Desktop] = "live"]
  /\ UNCHANGED <<cast, kicked, refresh, active, curtain, kicks, switch, conversation>>

\* register_local_heartbeat
Heartbeat ==
  /\ Desktop \in cast /\ Idle(Desktop)
  /\ session' = [session EXCEPT ![Desktop] = "live"]
  /\ Due(Desktop)
  /\ UNCHANGED <<cast, kicked, active, curtain, kicks, switch, conversation>>

\* A heartbeat, a chat or a streamed chat of a browser, on a server that runs or
\* is finishing what it has accepted: refused after a kick, under the lock that
\* the session is entered under.
Touch(b) ==
  /\ b \in cast /\ Idle(b) /\ ~kicked
  /\ session' = [session EXCEPT ![b] = "live"]
  /\ Due(b)
  /\ UNCHANGED <<cast, kicked, active, curtain, kicks, switch, conversation>>

\* Fifteen seconds without a heartbeat, thirty after a kick.
Expire(s) ==
  /\ session[s] = "live"
  /\ session' = [session EXCEPT ![s] = "old"]
  /\ UNCHANGED <<cast, kicked, refresh, active, curtain, kicks, switch, conversation>>

HoldoffEnds ==
  /\ kicked
  /\ kicked' = FALSE
  /\ UNCHANGED <<cast, session, refresh, active, curtain, kicks, switch, conversation>>

\* sweep_and_remote_active: what has expired goes, the rest is looked at.
Swept == [s \in Sessions |-> IF session[s] = "old" THEN None ELSE session[s]]
RemoteIn(tracked) == \E b \in Browsers : tracked[b] # None

\* refresh_active, its first lock.
Sweep(a) ==
  /\ refresh[a] = "due"
  /\ session' = Swept
  /\ refresh' = [refresh EXCEPT ![a] = IF RemoteIn(Swept) THEN "remote" ELSE "alone"]
  /\ UNCHANGED <<cast, kicked, active, curtain, kicks, switch, conversation>>

\* Its second: the watch channel.
Send(a) ==
  /\ refresh[a] \in {"remote", "alone"}
  /\ active' = (refresh[a] = "remote")
  /\ refresh' = [refresh EXCEPT ![a] = "idle"]
  /\ UNCHANGED <<cast, session, kicked, curtain, kicks, switch, conversation>>

\* remote_active_now, for a status: it sweeps and tells no listener.
Status ==
  /\ \E s \in Sessions : session[s] = "old"
  /\ session' = Swept
  /\ UNCHANGED <<cast, kicked, refresh, active, curtain, kicks, switch, conversation>>

\* The bridge to the GUI.
Bridge ==
  /\ curtain # active
  /\ curtain' = active
  /\ UNCHANGED <<cast, session, kicked, refresh, active, kicks, switch, conversation>>

Kick ==
  /\ Kicker \in cast /\ Idle(Kicker) /\ kicks < MaxKicks
  /\ kicks' = kicks + 1
  /\ session' = WithoutBrowsers
  /\ kicked' = TRUE
  /\ Due(Kicker)
  /\ UNCHANGED <<cast, active, curtain, switch, conversation>>

-----------------------------------------------------------------------------
(* The server and its commands.                                            *)

Step(c, at) == command' = [command EXCEPT ![c].at = at]
Running(c) == command[c].at \notin {"new", "done"} \/ ~Idle(c)

\* remote_ui_set_enabled, and a kick that disables: the configuration is
\* written before the server is switched.
Begin(c) ==
  /\ command[c].at = "new"
  /\ \E p \in Ports \cup {None} :
       /\ enabled' = (p # None)
       /\ command' = [command EXCEPT ![c] = [at |-> IF p = None THEN "stop" ELSE "start",
                                             port |-> p]]
  /\ overlapped' = (overlapped \/ \E d \in Commands \ {c} : Running(d))
  /\ UNCHANGED <<cast, slot, serving, tracker, conversation>>

\* start: nothing to do when the port is the one that is served.
Start(c) ==
  /\ command[c].at = "start"
  /\ Step(c, IF slot # None /\ serving[slot] = command[c].port THEN "done" ELSE "replace")
  /\ UNCHANGED <<cast, enabled, slot, serving, overlapped, tracker, conversation>>

\* A stop that empties the slot and lets the run go on.
TakeOnly(c) ==
  /\ command[c].at \in {"stop", "replace"} /\ Idle(c)
  /\ slot' = None
  /\ session' = WithoutBrowsers
  /\ Due(c)
  /\ Step(c, IF command[c].at = "stop" THEN "done" ELSE "bind")
  /\ UNCHANGED <<cast, enabled, serving, overlapped, kicked, active, curtain, kicks, conversation>>

\* stop, its first lock: the run in the slot is cancelled.  Then the tracker's:
\* the browsers go.  start stops what it replaces in the same way.
Take(c) ==
  /\ command[c].at \in {"stop", "replace"} /\ Idle(c)
  /\ slot' = None
  /\ serving' = IF slot = None THEN serving ELSE [serving EXCEPT ![slot] = None]
  /\ session' = WithoutBrowsers
  /\ Due(c)
  /\ Step(c, IF command[c].at = "stop" THEN "done" ELSE "bind")
  /\ UNCHANGED <<cast, enabled, overlapped, kicked, active, curtain, kicks, conversation>>

\* The listener is bound, or the port is taken and the command fails.
Bind(c) ==
  /\ command[c].at = "bind" /\ Idle(c)
  /\ \/ /\ \A d \in Commands : serving[d] # command[c].port
        /\ serving' = [serving EXCEPT ![c] = command[c].port]
        /\ Step(c, "store")
     \/ /\ UNCHANGED serving
        /\ Step(c, "done")
  /\ UNCHANGED <<cast, enabled, slot, overlapped, tracker, conversation>>

\* The slot is given the new run, whatever it holds by now.
Store(c) ==
  /\ command[c].at = "store"
  /\ slot' = c
  /\ Step(c, "done")
  /\ Due(c)
  /\ UNCHANGED <<cast, enabled, serving, overlapped, session, kicked, active, curtain, kicks,
                 conversation>>

-----------------------------------------------------------------------------
(* The open conversation.                                                  *)

Persisting == \E a \in Setters : setter[a].at = "write"

\* A setter that does not wait for one that writes the file.
SetActiveAtOnce(a) ==
  /\ setter[a].at = "idle" /\ setter[a].left > 0
  /\ \E id \in (Conversations \cup {None}) \ {pointer} :
       /\ pointer' = id
       /\ setter' = [setter EXCEPT ![a] = [at |-> "set", value |-> id, left |-> @.left - 1]]
  /\ UNCHANGED <<cast, file, unsaved, tracker, switch>>

\* send_if_modified writes under the channel's lock, which a setter that
\* persists holds for reading; nothing happens when the value is the same.
SetActive(a) ==
  /\ setter[a].at = "idle" /\ setter[a].left > 0 /\ ~Persisting
  /\ \E id \in (Conversations \cup {None}) \ {pointer} :
       /\ pointer' = id
       /\ setter' = [setter EXCEPT ![a] = [at |-> "set", value |-> id, left |-> @.left - 1]]
  /\ UNCHANGED <<cast, file, unsaved, tracker, switch>>

\* The value is read again, and its lock kept until the file is written.
Borrow(a) ==
  /\ setter[a].at = "set"
  /\ setter' = [setter EXCEPT ![a].at = "write", ![a].value = pointer]
  /\ UNCHANGED <<cast, pointer, file, unsaved, tracker, switch>>

\* A write that fails is passed over: the file could not be opened and is what
\* it was, or it was cut short, which is read as no conversation.
Persist(a) ==
  /\ setter[a].at = "write"
  /\ \/ file' = setter[a].value /\ unsaved' = FALSE
     \/ file' \in {file, None} /\ unsaved' = TRUE
  /\ setter' = [setter EXCEPT ![a].at = "idle"]
  /\ UNCHANGED <<cast, pointer, tracker, switch>>

-----------------------------------------------------------------------------
Command(c) == Begin(c) \/ Start(c) \/ Take(c) \/ Bind(c) \/ Store(c)

Next ==
  \/ Heartbeat \/ HoldoffEnds \/ Status \/ Bridge \/ Kick
  \/ \E b \in Browsers : Touch(b)
  \/ \E s \in Sessions : Expire(s)
  \/ \E a \in Refreshers : Sweep(a) \/ Send(a)
  \/ \E c \in Commands : Command(c)
  \/ \E a \in Setters : SetActive(a) \/ Borrow(a) \/ Persist(a)

\* The desktop sends a heartbeat every five seconds, every thread runs, and
\* the bridge listens.  Nothing makes a browser or a person come back.
Fairness ==
  /\ WF_vars(Heartbeat) /\ WF_vars(Bridge)
  /\ \A a \in Refreshers : WF_vars(Sweep(a)) /\ WF_vars(Send(a))

Spec == Init /\ [][Next]_vars /\ Fairness

-----------------------------------------------------------------------------
(***************************************************************************)
(* The curtain follows the browsers: once they stay away it comes down for *)
(* good, and once one keeps its session alive it goes up for good.  Old    *)
(* answers that refresh_active still sends, statuses that sweep and tell   *)
(* nobody, kicks and restarts of the server delay this but do not undo it. *)
(***************************************************************************)
CurtainFollows ==
  Desktop \in cast =>
    /\ <>[](\A b \in Browsers : session[b] # "live") => <>[]~curtain
    /\ <>[](\E b \in Browsers : session[b] = "live") => <>[]curtain

(***************************************************************************)
(* After a switch off, nothing listens.  Commands that do not overlap leave*)
(* the server as the configuration says, or stopped when its port was      *)
(* taken; the slot always knows the run that has to be cancelled.          *)
(***************************************************************************)
OffMeansOff ==
  (~overlapped /\ \A c \in Commands : ~Running(c)) =>
    /\ \A c \in Commands : serving[c] # None => slot = c
    /\ (~enabled) => \A c \in Commands : serving[c] = None

SettersIdle == \A a \in Setters : setter[a].at = "idle"

(***************************************************************************)
(* The file says what the program shows: when no setter is under way and   *)
(* the last write went through, the pointer that the next launch restores  *)
(* is the current one, however the setters of the desktop and the browsers *)
(* have interleaved and whatever failed before.                            *)
(***************************************************************************)
PointerPersisted == SettersIdle => file = pointer \/ unsaved

=============================================================================
