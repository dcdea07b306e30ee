----------------------------- MODULE MeshDaemon -----------------------------
(***************************************************************************)
(* The supervisor of the mesh daemon and the requests over its control     *)
(* socket (src/src-tauri/src/mesh/daemon.rs, daemon_commands.rs,           *)
(* migration.rs, and the reconnect loop and the exit arm of main.rs).      *)
(*                                                                         *)
(* The apps of one person share two sockets: that of the MyOwnMesh GUI's   *)
(* daemon and one that the daemons they spawn themselves compete for; on   *)
(* Windows both are one pipe, which all daemons compete for.  In each app  *)
(* a task connects and reconnects, the main thread exits when the person   *)
(* says so, and the frontend makes requests.  The daemon is another        *)
(* program, modelled from what this code expects of it.                    *)
(***************************************************************************)
EXTENDS Naturals

CONSTANTS
  Apps,
  Callers,    \* the apps whose frontend makes requests
  Slots,      \* bound: the own daemons that exist at a time
  Shared,     \* the daemon of the MyOwnMesh GUI
  None,
  Bins,       \* the number of places that hold a daemon binary
  Works,      \* those whose binary starts a daemon
  Systems,    \* a subset of {"unix", "windows"}
  MaxEvents   \* bound: starts and crashes of apps, slow answers, daemons that
              \* start or end by themselves

ASSUME AppsAssumption == Callers \subseteq Apps /\ None \notin Apps
ASSUME SlotsAssumption == Slots # {} /\ Shared \notin Slots /\ None \notin Slots \cup {Shared}
ASSUME BoundsAssumption == Bins \in Nat /\ Works \subseteq 1 .. Bins /\ MaxEvents \in Nat

Daemons == Slots \cup {Shared}
\* DaemonMode: the socket that an app takes a daemon to be at.
Sockets == {"shared", "own"}

VARIABLES
  daemon,   \* daemon[d]: off, starting or bound; the binary it runs; the app
            \* that answers for it
  loop,     \* loop[a]: the stage of the reconnect loop, the socket it found,
            \* the child it holds, the binary it tries
  conn,     \* conn[a]: MeshDaemon.conn
  stream,   \* stream[a]: the daemon at the other end of the event socket
  main,     \* main[a]: the main thread
  call,     \* call[a]: the request of a's frontend
  home,     \* which files are in the daemon's own home
  os,
  events

vars == <<daemon, loop, conn, stream, main, call, home, os, events>>
links == <<daemon, conn, stream, call>>

NoDaemon == [at |-> "off", bin |-> 0, by |-> None]
NoLoop == [at |-> "off", to |-> "own", child |-> None, bin |-> 1]
NotConnected == [on |-> FALSE, to |-> "own", id |-> None, child |-> None]
NoCall == [at |-> "none", claim |-> FALSE, id |-> None, to |-> None, served |-> FALSE]

\* A client id stands for the daemon that issued it; None is "c-unbound" and
\* an id of a daemon that is gone.
TypeOK ==
  /\ daemon \in [Daemons -> [at : {"off", "starting", "bound"}, bin : 0 .. Bins,
                             by : Apps \cup {None}]]
  /\ loop \in [Apps -> [at : {"off", "migrate", "rosters", "head", "own", "spawn",
                              "wait", "subscribe", "pump", "stopped"},
                        to : Sockets, child : Slots \cup {None}, bin : 1 .. Bins + 1]]
  /\ conn \in [Apps -> [on : BOOLEAN, to : Sockets, id : Daemons \cup {None},
                        child : Slots \cup {None}]]
  /\ stream \in [Apps -> Daemons \cup {None}]
  /\ main \in [Apps -> {"off", "running", "flagged", "leaving"}]
  /\ call \in [Callers -> [at : {"none", "named", "sent", "ok", "failed"}, claim : BOOLEAN,
                           id : Daemons \cup {None}, to : Daemons \cup {None},
                           served : BOOLEAN]]
  /\ home \subseteq {"identity", "rosters"}
  /\ os \in Systems
  /\ events \in 0 .. MaxEvents
  /\ \A a \in Apps : main[a] = "off" => loop[a] = NoLoop /\ conn[a] = NotConnected
  /\ \A a \in Apps : stream[a] # None => loop[a].at = "pump"
  /\ \A d \in Slots : \A a, b \in Apps : conn[a].child = d /\ loop[b].child = d => FALSE

Init ==
  /\ daemon = [d \in Daemons |-> NoDaemon]
  /\ loop = [a \in Apps |-> NoLoop]
  /\ conn = [a \in Apps |-> NotConnected]
  /\ stream = [a \in Apps |-> None]
  /\ main = [a \in Apps |-> "off"]
  /\ call = [a \in Callers |-> NoCall]
  /\ home \in {{}, {"identity", "rosters"}}
  /\ os \in Systems
  /\ events = 0

Event == events < MaxEvents /\ events' = events + 1
Goto(a, stage) == loop' = [loop EXCEPT ![a].at = stage]

----------------------------------------------------------------------------
(* Daemons *)

\* The daemons that bind what socket_for_mode gives for a mode.
Binders(socket) ==
  IF os = "windows" THEN Daemons ELSE IF socket = "own" THEN Slots ELSE {Shared}

\* The daemon that answers at a socket, if one does.
Server(socket) ==
  LET at == {d \in Binders(socket) : daemon[d].at = "bound"}
  IN IF at = {} THEN None ELSE CHOOSE d \in at : TRUE

Now == [daemon |-> daemon, loop |-> loop, conn |-> conn, stream |-> stream, call |-> call]

\* The step leaves w, and the daemons D are gone: their event sockets and
\* requests end, their ids and the handles to them name nothing any more.
Kill(D, w) ==
  LET Without(d) == IF d \in D THEN None ELSE d
  IN
  /\ daemon' = [d \in Daemons |-> IF d \in D THEN NoDaemon ELSE w.daemon[d]]
  /\ loop' = [a \in Apps |-> [w.loop[a] EXCEPT !.child = Without(@)]]
  /\ conn' = [a \in Apps |-> [w.conn[a] EXCEPT !.child = Without(@), !.id = Without(@)]]
  /\ stream' = [a \in Apps |-> Without(w.stream[a])]
  /\ call' = [a \in Callers |->
       [w.call[a] EXCEPT !.id = Without(@), !.to = Without(@),
          !.at = IF @ = "sent" /\ w.call[a].to \in D THEN "failed" ELSE @]]

\* A daemon binds its socket, or ends: another one has it, or the binary is
\* no good.
Bind(d) ==
  /\ daemon[d].at = "starting"
  /\ IF Server("own") = None /\ daemon[d].bin \in Works
     THEN Kill({}, [Now EXCEPT !.daemon[d].at = "bound"])
     ELSE Kill({d}, Now)
  /\ UNCHANGED <<main, home, os, events>>

\* The GUI's daemon binds its socket.
StartShared ==
  /\ daemon[Shared].at = "off" /\ Server("shared") = None /\ Event
  /\ daemon' = [daemon EXCEPT ![Shared].at = "bound"]
  /\ UNCHANGED <<loop, conn, stream, main, call, home, os>>

\* A daemon ends by itself.
Die(d) ==
  /\ daemon[d].at = "bound" /\ Event
  /\ Kill({d}, Now)
  /\ UNCHANGED <<main, home, os>>

----------------------------------------------------------------------------
(* The life of an app *)

Launch(a) ==
  /\ main[a] = "off" /\ Event
  /\ main' = [main EXCEPT ![a] = "running"]
  /\ Goto(a, "migrate")
  /\ UNCHANGED <<links, home, os>>

\* migrate_daemon_state_into_subdir: nothing is done when the identity, which
\* is what moves first, is in the new place.
MigrateIdentity(a) ==
  /\ loop[a].at = "migrate"
  /\ Goto(a, IF "identity" \in home THEN "head" ELSE "rosters")
  /\ home' = home \cup {"identity"}
  /\ UNCHANGED <<links, main, os, events>>

\* move_dir_contents of the rosters and of the governance states
MigrateRosters(a) ==
  /\ loop[a].at = "rosters"
  /\ home' = home \cup {"rosters"}
  /\ Goto(a, "head")
  /\ UNCHANGED <<links, main, os, events>>

\* RunEvent::Exit: begin_shutdown ...
BeginShutdown(a) ==
  /\ main[a] = "running" /\ loop[a].at \notin {"migrate", "rosters"}
  /\ main' = [main EXCEPT ![a] = "flagged"]
  /\ UNCHANGED <<links, loop, home, os, events>>

\* Mutant of TakeChild: the child stays in the connection.
TakeNoChild(a) ==
  /\ main[a] = "flagged"
  /\ main' = [main EXCEPT ![a] = "leaving"]
  /\ UNCHANGED <<links, loop, home, os, events>>

\* ... then take_child, whose drop kills it.  Nobody answers any more for a
\* child that the loop still holds.
TakeChild(a) ==
  /\ main[a] = "flagged"
  /\ main' = [main EXCEPT ![a] = "leaving"]
  /\ Kill(Daemons \cap {conn[a].child},
          [Now EXCEPT !.daemon = [d \in Daemons |-> IF d = loop[a].child
                                    THEN [daemon[d] EXCEPT !.by = None] ELSE daemon[d]]])
  /\ UNCHANGED <<home, os, events>>

\* The process is gone: its sockets close, nothing is dropped, and on Windows
\* the job objects kill its children.  A crashed app answers for none.
Vanish(a, answers) ==
  /\ main' = [main EXCEPT ![a] = "off"]
  /\ Kill(IF os = "windows" THEN Daemons \cap {loop[a].child, conn[a].child} ELSE {},
          [daemon |-> [d \in Daemons |-> [daemon[d] EXCEPT !.by = IF @ = a /\ ~answers THEN None ELSE @]],
           loop   |-> [loop EXCEPT ![a] = NoLoop],
           conn   |-> [conn EXCEPT ![a] = NotConnected],
           stream |-> [stream EXCEPT ![a] = None],
           call   |-> [b \in Callers |-> IF b = a THEN NoCall ELSE call[b]]])

End(a) ==
  /\ main[a] = "leaving"
  /\ Vanish(a, TRUE)
  /\ UNCHANGED <<home, os, events>>

Crash(a) ==
  /\ main[a] # "off" /\ Event
  /\ Vanish(a, FALSE)
  /\ UNCHANGED <<home, os>>

----------------------------------------------------------------------------
(* The reconnect loop *)

ShuttingDown(a) == main[a] \in {"flagged", "leaving"}

\* Something answers at a socket and the bring-up is over.  Raced into app
\* exit meanwhile?  Then a child is dropped and the loop ends.
Reached(a, socket) ==
  IF ShuttingDown(a)
  THEN Kill(Daemons \cap {loop[a].child}, [Now EXCEPT !.loop[a].at = "stopped"])
  ELSE Kill({}, [Now EXCEPT !.loop[a].at = "subscribe", !.loop[a].to = socket,
                             !.loop[a].bin = 1])

\* probe: a Status request that is answered within 800 ms.  A slow daemon
\* counts as none.
Probe(a, socket, otherwise) ==
  \/ Server(socket) # None /\ Reached(a, socket) /\ UNCHANGED events
  \/ /\ IF Server(socket) = None THEN UNCHANGED events ELSE Event
     /\ otherwise
     /\ UNCHANGED links

\* The head of the loop, and the first probe of ensure_daemon_running.
ProbeShared(a) ==
  /\ loop[a].at = "head"
  /\ IF ShuttingDown(a)
     THEN Goto(a, "stopped") /\ UNCHANGED <<links, events>>
     ELSE Probe(a, "shared", Goto(a, "own"))
  /\ UNCHANGED <<main, home, os>>

ProbeOwn(a) ==
  /\ loop[a].at = "own"
  /\ Probe(a, "own", loop' = [loop EXCEPT ![a].at = "spawn", ![a].bin = 1])
  /\ UNCHANGED <<main, home, os>>

\* A slot for the next daemon, free if one is: which one tells nothing.
Unused == LET free == {d \in Slots : daemon[d] = NoDaemon}
          IN CHOOSE d \in Slots : d \in free \/ free = {}

\* Mutant of Spawn: only the first binary is tried.
SpawnFirst(a) ==
  /\ loop[a].at = "spawn"
  /\ \/ /\ loop[a].bin > 1
        /\ Goto(a, "head")
        /\ UNCHANGED daemon
     \/ /\ loop[a].bin = 1
        /\ LET d == Unused IN
             /\ daemon[d] = NoDaemon
             /\ daemon' = [daemon EXCEPT ![d] = [at |-> "starting", bin |-> 1, by |-> a]]
             /\ loop' = [loop EXCEPT ![a].at = "wait", ![a].child = d]
  /\ UNCHANGED <<conn, stream, main, call, home, os, events>>

\* The next binary is started, or there is none left.
Spawn(a) ==
  /\ loop[a].at = "spawn"
  /\ \/ /\ loop[a].bin > Bins
        /\ Goto(a, "head")
        /\ UNCHANGED daemon
     \/ /\ loop[a].bin <= Bins
        /\ LET d == Unused IN
             /\ daemon[d] = NoDaemon
             /\ daemon' = [daemon EXCEPT ![d] =
                  [at |-> "starting", bin |-> loop[a].bin,
                   by |-> IF main[a] = "leaving" THEN None ELSE a]]
             /\ loop' = [loop EXCEPT ![a].at = "wait", ![a].child = d]
  /\ UNCHANGED <<conn, stream, main, call, home, os, events>>

\* Something answers at our socket, whoever spawned it.
Up(a) ==
  /\ loop[a].at = "wait" /\ Server("own") # None
  /\ Reached(a, "own")
  /\ UNCHANGED <<main, home, os, events>>

\* Nothing answers for 8 s: the child is dropped and the next binary tried.
GiveUp(a) ==
  /\ loop[a].at = "wait"
  /\ LET d == loop[a].child
         hopeless == d = None \/ daemon[d].bin \notin Works
     IN /\ IF hopeless THEN Server("own") = None /\ UNCHANGED events ELSE Event
        /\ Kill(Daemons \cap {d}, [Now EXCEPT !.loop[a].at = "spawn", !.loop[a].bin = @ + 1])
  /\ UNCHANGED <<main, home, os>>

\* subscribe_events and set_connected
Subscribe(a) ==
  LET server == Server(loop[a].to) IN
  /\ loop[a].at = "subscribe" /\ server # None
  /\ stream' = [stream EXCEPT ![a] = server]
  /\ conn' = [conn EXCEPT ![a] = [on |-> TRUE, to |-> loop[a].to, id |-> server,
                                  child |-> loop[a].child]]
  /\ loop' = [loop EXCEPT ![a].at = "pump", ![a].child = None]
  /\ UNCHANGED <<daemon, main, call, home, os, events>>

\* ... fails: the connection is kept without events and the loop ends.
SubscribeFails(a) ==
  /\ loop[a].at = "subscribe"
  /\ IF Server(loop[a].to) = None THEN UNCHANGED events ELSE Event
  /\ conn' = [conn EXCEPT ![a] = [on |-> TRUE, to |-> loop[a].to, id |-> None,
                                  child |-> loop[a].child]]
  /\ loop' = [loop EXCEPT ![a].at = "stopped", ![a].child = None]
  /\ UNCHANGED <<daemon, stream, main, call, home, os>>

\* The event stream has ended: set_disconnected drops a child as well.
StreamEnds(a) ==
  /\ loop[a].at = "pump" /\ stream[a] = None
  /\ Kill(Daemons \cap {conn[a].child},
          [Now EXCEPT !.conn[a] = NotConnected, !.loop[a].at = "head"])
  /\ UNCHANGED <<main, home, os, events>>

----------------------------------------------------------------------------
(* Requests of the frontend; without a connection each fails at once *)

Calls(a, k) == call' = [call EXCEPT ![a] = k]

\* A command that names no client: identity, networks, peers, roster,
\* governance, an RPC to a peer or a response to one.
Plain(a) ==
  /\ main[a] = "running" /\ call[a].at = "none" /\ conn[a].on
  /\ Calls(a, [NoCall EXCEPT !.at = "named"])
  /\ UNCHANGED <<daemon, loop, conn, stream, main, home, os, events>>

\* One that claims a method or a channel for this client: client_id() ...
ReadId(a) ==
  /\ main[a] = "running" /\ call[a].at = "none" /\ conn[a].on
  /\ Calls(a, [NoCall EXCEPT !.at = "named", !.claim = TRUE, !.id = conn[a].id])
  /\ UNCHANGED <<daemon, loop, conn, stream, main, home, os, events>>

\* ... and then client(), which may be another one: request_data connects.
Send(a) ==
  LET server == IF conn[a].on THEN Server(conn[a].to) ELSE None
  IN
  /\ call[a].at = "named"
  /\ Calls(a, IF server = None THEN [call[a] EXCEPT !.at = "failed", !.id = None]
              ELSE [call[a] EXCEPT !.at = "sent", !.to = server])
  /\ UNCHANGED <<daemon, loop, conn, stream, main, home, os, events>>

\* The daemon carries the request out; for a claim it must know the client.
Serve(a) ==
  /\ call[a].to # None /\ ~call[a].served
  /\ Calls(a, IF call[a].claim /\ ~(call[a].id = call[a].to /\ stream[a] = call[a].to)
              THEN [NoCall EXCEPT !.at = "failed"]
              ELSE [call[a] EXCEPT !.served = TRUE])
  /\ UNCHANGED <<daemon, loop, conn, stream, main, home, os, events>>

\* Mutant of Answered: an answer is taken before there is one.
AnsweredEarly(a) ==
  /\ call[a].at = "sent"
  /\ Calls(a, [call[a] EXCEPT !.at = "ok"])
  /\ UNCHANGED <<daemon, loop, conn, stream, main, home, os, events>>

\* request: the line with the response.
Answered(a) ==
  /\ call[a].at = "sent" /\ call[a].served
  /\ Calls(a, [NoCall EXCEPT !.at = "ok", !.served = TRUE])
  /\ UNCHANGED <<daemon, loop, conn, stream, main, home, os, events>>

\* 30 s without a response: the socket is closed; the daemon may still have
\* the request in its hands.
TimesOut(a) ==
  /\ call[a].at = "sent" /\ Event
  /\ Calls(a, [call[a] EXCEPT !.at = "failed"])
  /\ UNCHANGED <<daemon, loop, conn, stream, main, home, os>>

\* The frontend goes on to something else.
Through(a) ==
  /\ call[a].at \in {"ok", "failed"} /\ (call[a].to # None => call[a].served)
  /\ Calls(a, NoCall)
  /\ UNCHANGED <<daemon, loop, conn, stream, main, home, os, events>>

----------------------------------------------------------------------------

Loop(a) ==
  \/ MigrateIdentity(a) \/ MigrateRosters(a) \/ ProbeShared(a) \/ ProbeOwn(a)
  \/ Spawn(a) \/ Up(a) \/ GiveUp(a) \/ Subscribe(a) \/ SubscribeFails(a)
  \/ StreamEnds(a)

Exit(a) == BeginShutdown(a) \/ TakeChild(a) \/ End(a)

Request(a) ==
  \/ Plain(a) \/ ReadId(a) \/ Send(a) \/ Serve(a) \/ Answered(a) \/ TimesOut(a)
  \/ Through(a)

Next ==
  \/ \E a \in Apps : Loop(a) \/ Exit(a) \/ Launch(a) \/ Crash(a)
  \/ \E a \in Callers : Request(a)
  \/ \E d \in Slots : Bind(d)
  \/ \E d \in Daemons : Die(d)
  \/ StartShared

\* The runtime runs the reconnect loops, and a daemon that can bind does.
Fairness == (\A a \in Apps : WF_vars(Loop(a))) /\ WF_vars(\E d \in Slots : Bind(d))

Spec == Init /\ [][Next]_vars /\ Fairness

----------------------------------------------------------------------------
(* Properties *)

\* A daemon that an app has spawned and connected to does not outlive it,
\* whatever the other apps, the daemons and the reconnect loop do meanwhile
\* (take_child, Drop for DaemonChild, the job object, the check after the
\* bring-up).  A crash on Unix, and an exit during the bring-up, are excepted.
OwnedDies == \A d \in Slots : daemon[d].by # None => main[daemon[d].by] # "off"

\* An app that stays open, the other ones doing what they like, gets its event
\* stream, again after each daemon that goes away, if any of the binaries
\* works; only a subscription that fails ends the loop for good (the
\* reconnect loop, ensure_daemon_running).
Reconnects ==
  \A a \in Callers :
    (main[a] = "running" /\ Works # {})
    ~> (main[a] # "running" \/ stream[a] # None \/ loop[a].at = "stopped")

\* The requests implement ControlCall: each is carried out at most once, and
\* no success is reported unheard of (request, request_ok).
Stage(a) == IF call[a].at \in {"named", "sent"} THEN "asked" ELSE call[a].at

Abstract == INSTANCE ControlCall
  WITH Callers <- Callers, stage <- [a \in Callers |-> Stage(a)],
       done <- [a \in Callers |-> call[a].served]

CallsKeepTheirPromise == Abstract!Spec
=============================================================================
