-------------------------- MODULE MeshDaemonProofs --------------------------
(***************************************************************************)
(* Proofs about the mesh.                                                  *)
(*                                                                         *)
(* MeshDaemon, for any number of apps, callers, slots and binaries: types, *)
(* no daemon that an app answers for outlives it, and the requests         *)
(* implement ControlCall.                                                  *)
(*                                                                         *)
(* SettingsGossip, for any devices, networks, items, stamps and bounds:    *)
(* types.  That the devices agree in the end is liveness and stays with    *)
(* TLC.                                                                    *)
(***************************************************************************)
EXTENDS MeshDaemon, SettingsGossip, WellFoundedInduction, TLAPS

Daemon == [at : {"off", "starting", "bound"}, bin : 0 .. Bins, by : Apps \cup {None}]
LoopState == [at : {"off", "migrate", "rosters", "head", "own", "spawn",
                    "wait", "subscribe", "pump", "stopped"},
              to : Sockets, child : Slots \cup {None}, bin : 1 .. Bins + 1]
Conn == [on : BOOLEAN, to : Sockets, id : Daemons \cup {None}, child : Slots \cup {None}]
CallState == [at : {"none", "named", "sent", "ok", "failed"}, claim : BOOLEAN,
              id : Daemons \cup {None}, to : Daemons \cup {None}, served : BOOLEAN]

\* The state that Kill goes over.
World == [daemon : [Daemons -> Daemon], loop : [Apps -> LoopState], conn : [Apps -> Conn],
          stream : [Apps -> Daemons \cup {None}], call : [Callers -> CallState]]

-----------------------------------------------------------------------------
(* The invariant.                                                          *)

\* a has a handle to d, in its reconnect loop or in its connection.
Holds(a, d, w) == d = w.loop[a].child \/ d = w.conn[a].child

\* A handle to a child is in the loop during the bring-up and in the
\* connection after it, and names a daemon that nobody else has a handle to.
\* The daemons D are excepted: they are about to be killed.
HandlesOf(w, running, D) ==
  \A a \in Apps :
    /\ running[a] = "off" => w.loop[a] = NoLoop /\ w.conn[a] = NotConnected
    /\ w.stream[a] # None => w.loop[a].at = "pump"
    /\ w.loop[a].at = "wait" => w.loop[a].bin <= Bins
    /\ w.loop[a].child \notin D \cup {None} => w.loop[a].at \in {"wait", "subscribe"}
    /\ w.conn[a].child \notin D \cup {None} => w.loop[a].at \in {"pump", "stopped"}
    /\ \A d \in Slots \ D : Holds(a, d, w) =>
         /\ w.daemon[d].at # "off"
         /\ \A b \in Apps : Holds(b, d, w) => b = a

\* Those that an app answers for it has a handle to, until it leaves.
AnswersOf(w, running, D) ==
  \A d \in Daemons \ D : w.daemon[d].by # None =>
    /\ w.daemon[d].by \in Apps
    /\ running[w.daemon[d].by] \in {"running", "flagged"}
    /\ Holds(w.daemon[d].by, d, w)

\* A request that no daemon has yet, or that its caller is through with.
CallsOf(w) ==
  \A a \in Callers : /\ w.call[a].to # None => w.call[a].at \in {"sent", "failed"}
                     /\ w.call[a].at = "none" => ~w.call[a].served

Tidy == HandlesOf(Now, main, {}) /\ AnswersOf(Now, main, {}) /\ CallsOf(Now)

LEMMA NowTypes == TypeOK => /\ Now \in World
                            /\ Now.daemon = daemon /\ Now.loop = loop /\ Now.conn = conn
                            /\ Now.stream = stream /\ Now.call = call
  BY DEF TypeOK, Now, World, Daemon, LoopState, Conn, CallState

\* What Kill leaves of the requests.
LEMMA KillCalls ==
  ASSUME NEW w, NEW D \in SUBSET Daemons, Kill(D, w), w.call \in [Callers -> CallState],
         NEW a \in Callers
  PROVE  /\ call'[a] \in CallState
         /\ call'[a].at = IF w.call[a].at = "sent" /\ w.call[a].to \in D THEN "failed" ELSE w.call[a].at
         /\ call'[a].to # None => call'[a].to = w.call[a].to
         /\ call'[a].served = w.call[a].served
<1> DEFINE Without(d) == IF d \in D THEN None ELSE d
           at == IF w.call[a].at = "sent" /\ w.call[a].to \in D THEN "failed" ELSE w.call[a].at
<1>1. call'[a] = [w.call[a] EXCEPT !.id = Without(w.call[a].id), !.to = Without(w.call[a].to), !.at = at]
  BY DEF Kill, CallState
<1>2. /\ w.call[a] \in CallState /\ at \in {"none", "named", "sent", "ok", "failed"}
      /\ Without(w.call[a].id) \in Daemons \cup {None} /\ Without(w.call[a].to) \in Daemons \cup {None}
  BY DEF CallState
<1> HIDE DEF at, Without
<1>3. /\ call'[a] \in CallState /\ call'[a].at = at /\ call'[a].to = Without(w.call[a].to)
      /\ call'[a].served = w.call[a].served
  BY <1>1, <1>2 DEF CallState
<1> QED
  BY <1>3 DEF at, Without

\* What Kill leaves of each daemon, app and request.
LEMMA KillShape ==
  ASSUME NEW w \in World, NEW D \in SUBSET Daemons, Kill(D, w)
  PROVE  /\ Now' \in World
         /\ \A d \in Daemons : daemon'[d] = IF d \in D THEN NoDaemon ELSE w.daemon[d]
         /\ \A a \in Apps :
              /\ loop'[a].at = w.loop[a].at /\ loop'[a].to = w.loop[a].to /\ loop'[a].bin = w.loop[a].bin
              /\ loop'[a].child = IF w.loop[a].child \in D THEN None ELSE w.loop[a].child
              /\ w.loop[a].child = None => loop'[a] = w.loop[a]
              /\ conn'[a].child = IF w.conn[a].child \in D THEN None ELSE w.conn[a].child
              /\ w.conn[a].child = None /\ w.conn[a].id = None => conn'[a] = w.conn[a]
              /\ stream'[a] # None => stream'[a] = w.stream[a]
         /\ \A a \in Callers :
              /\ call'[a].at = IF w.call[a].at = "sent" /\ w.call[a].to \in D THEN "failed" ELSE w.call[a].at
              /\ call'[a].to # None => call'[a].to = w.call[a].to
              /\ call'[a].served = w.call[a].served
<1> DEFINE Without(d) == IF d \in D THEN None ELSE d
<1>1. /\ w.daemon \in [Daemons -> Daemon] /\ w.loop \in [Apps -> LoopState] /\ w.conn \in [Apps -> Conn]
      /\ w.stream \in [Apps -> Daemons \cup {None}] /\ w.call \in [Callers -> CallState]
  BY DEF World
<1>2. None \notin Daemons
  BY SlotsAssumption DEF Daemons
<1>3. daemon' \in [Daemons -> Daemon]
      /\ \A d \in Daemons : daemon'[d] = IF d \in D THEN NoDaemon ELSE w.daemon[d]
  <2>1. NoDaemon \in Daemon
    BY BoundsAssumption DEF NoDaemon, Daemon
  <2> QED
    BY <1>1, <2>1 DEF Kill
<1>4. ASSUME NEW a \in Apps
      PROVE  /\ loop'[a] \in LoopState
             /\ loop'[a].at = w.loop[a].at /\ loop'[a].to = w.loop[a].to /\ loop'[a].bin = w.loop[a].bin
             /\ loop'[a].child = IF w.loop[a].child \in D THEN None ELSE w.loop[a].child
             /\ w.loop[a].child = None => loop'[a] = w.loop[a]
  <2>1. loop'[a] = [w.loop[a] EXCEPT !.child = Without(w.loop[a].child)]
    BY DEF Kill
  <2>2. w.loop[a] \in LoopState /\ Without(w.loop[a].child) \in Slots \cup {None}
    BY <1>1 DEF LoopState
  <2>3. w.loop[a].child = None => Without(w.loop[a].child) = None
    BY <1>2
  <2> HIDE DEF Without
  <2>4. /\ loop'[a] \in LoopState
        /\ loop'[a].at = w.loop[a].at /\ loop'[a].to = w.loop[a].to /\ loop'[a].bin = w.loop[a].bin
        /\ loop'[a].child = Without(w.loop[a].child)
    BY <2>1, <2>2 DEF LoopState
  <2>5. w.loop[a].child = None => loop'[a] = w.loop[a]
    BY <2>1, <2>2, <2>3 DEF LoopState
  <2> QED
    BY <2>4, <2>5 DEF Without
<1>5. ASSUME NEW a \in Apps
      PROVE  /\ conn'[a] \in Conn
             /\ conn'[a].child = IF w.conn[a].child \in D THEN None ELSE w.conn[a].child
             /\ w.conn[a].child = None /\ w.conn[a].id = None => conn'[a] = w.conn[a]
  <2>1. conn'[a] = [w.conn[a] EXCEPT !.child = Without(w.conn[a].child), !.id = Without(w.conn[a].id)]
    BY DEF Kill
  <2>2. /\ w.conn[a] \in Conn /\ Without(w.conn[a].child) \in Slots \cup {None}
        /\ Without(w.conn[a].id) \in Daemons \cup {None}
    BY <1>1 DEF Conn
  <2>3. /\ w.conn[a].child = None => Without(w.conn[a].child) = None
        /\ w.conn[a].id = None => Without(w.conn[a].id) = None
    BY <1>2
  <2> HIDE DEF Without
  <2>4. conn'[a] \in Conn /\ conn'[a].child = Without(w.conn[a].child)
    BY <2>1, <2>2 DEF Conn
  <2>5. w.conn[a].child = None /\ w.conn[a].id = None => conn'[a] = w.conn[a]
    BY <2>1, <2>2, <2>3 DEF Conn
  <2> QED
    BY <2>4, <2>5 DEF Without
<1>6. ASSUME NEW a \in Apps
      PROVE  stream'[a] \in Daemons \cup {None} /\ (stream'[a] # None => stream'[a] = w.stream[a])
  BY <1>1 DEF Kill
<1>7. ASSUME NEW a \in Callers
      PROVE  /\ call'[a] \in CallState
             /\ call'[a].at = IF w.call[a].at = "sent" /\ w.call[a].to \in D THEN "failed" ELSE w.call[a].at
             /\ call'[a].to # None => call'[a].to = w.call[a].to
             /\ call'[a].served = w.call[a].served
  BY <1>1, KillCalls
<1>8. Now' \in World
  <2>1. loop' \in [Apps -> LoopState] /\ conn' \in [Apps -> Conn] /\ stream' \in [Apps -> Daemons \cup {None}]
        /\ call' \in [Callers -> CallState]
    <3>1. /\ DOMAIN loop' = Apps /\ loop' = [a \in Apps |-> loop'[a]]
          /\ conn' = [a \in Apps |-> conn'[a]] /\ stream' = [a \in Apps |-> stream'[a]]
          /\ call' = [a \in Callers |-> call'[a]]
      BY DEF Kill
    <3> QED
      BY <1>4, <1>5, <1>6, <1>7, <3>1
  <2> QED
    BY <1>3, <2>1 DEF Now, World
<1> QED
  BY <1>3, <1>4, <1>5, <1>6, <1>7, <1>8

\* The end of daemons leaves things in order, whatever they are.
LEMMA KillKeeps ==
  ASSUME NEW w \in World, NEW D \in SUBSET Daemons, Kill(D, w),
         HandlesOf(w, main', D), AnswersOf(w, main', D), CallsOf(w)
  PROVE  Now' \in World /\ Tidy'
<1>1. None \notin Daemons /\ Slots \subseteq Daemons
  BY SlotsAssumption DEF Daemons
<1>2. /\ Now'.daemon = daemon' /\ Now'.loop = loop' /\ Now'.conn = conn'
      /\ Now'.stream = stream' /\ Now'.call = call'
  BY DEF Now
<1>3. \A a \in Apps, d \in Daemons :
        Holds(a, d, Now') <=> Holds(a, d, w) /\ d \notin D
  BY <1>1, <1>2, KillShape DEF Holds
<1>4. HandlesOf(Now', main', {})
  <2> SUFFICES ASSUME NEW a \in Apps
               PROVE  /\ main'[a] = "off" => loop'[a] = NoLoop /\ conn'[a] = NotConnected
                      /\ stream'[a] # None => loop'[a].at = "pump"
                      /\ loop'[a].at = "wait" => loop'[a].bin <= Bins
                      /\ loop'[a].child # None => loop'[a].at \in {"wait", "subscribe"}
                      /\ conn'[a].child # None => loop'[a].at \in {"pump", "stopped"}
                      /\ \A d \in Slots : Holds(a, d, Now') =>
                           /\ daemon'[d].at # "off"
                           /\ \A b \in Apps : Holds(b, d, Now') => b = a
    BY <1>2 DEF HandlesOf
  <2>1. main'[a] = "off" => loop'[a] = NoLoop /\ conn'[a] = NotConnected
    <3> SUFFICES ASSUME main'[a] = "off" PROVE loop'[a] = NoLoop /\ conn'[a] = NotConnected
      OBVIOUS
    <3>1. w.loop[a] = NoLoop /\ w.conn[a] = NotConnected
      BY DEF HandlesOf
    <3>2. w.loop[a].child = None /\ w.conn[a].child = None /\ w.conn[a].id = None
      BY <3>1 DEF NoLoop, NotConnected
    <3> QED
      BY <3>1, <3>2, KillShape
  <2>2. /\ stream'[a] # None => loop'[a].at = "pump"
        /\ loop'[a].at = "wait" => loop'[a].bin <= Bins
        /\ loop'[a].child # None => loop'[a].at \in {"wait", "subscribe"}
        /\ conn'[a].child # None => loop'[a].at \in {"pump", "stopped"}
    BY KillShape DEF HandlesOf
  <2>3. ASSUME NEW d \in Slots, Holds(a, d, Now')
        PROVE  daemon'[d].at # "off" /\ \A b \in Apps : Holds(b, d, Now') => b = a
    BY <1>1, <1>3, <2>3, KillShape DEF HandlesOf
  <2> QED
    BY <2>1, <2>2, <2>3
<1>5. AnswersOf(Now', main', {})
  <2> SUFFICES ASSUME NEW d \in Daemons, daemon'[d].by # None
               PROVE  /\ daemon'[d].by \in Apps
                      /\ main'[daemon'[d].by] \in {"running", "flagged"}
                      /\ Holds(daemon'[d].by, d, Now')
    BY <1>2 DEF AnswersOf, Holds
  <2>1. d \notin D /\ daemon'[d] = w.daemon[d]
    BY KillShape DEF NoDaemon
  <2> QED
    BY <1>2, <1>3, <2>1 DEF AnswersOf
<1>6. CallsOf(Now')
  BY <1>2, KillShape DEF CallsOf
<1> QED
  BY <1>4, <1>5, <1>6, KillShape DEF Tidy

-----------------------------------------------------------------------------
(* The steps of daemons.                                                   *)

LEMMA ServerIs ==
  ASSUME TypeOK, NEW socket \in Sockets, Server(socket) # None
  PROVE  Server(socket) \in Daemons /\ daemon[Server(socket)].at = "bound"
<1> DEFINE at == {d \in Binders(socket) : daemon[d].at = "bound"}
<1>1. at # {} /\ Server(socket) = CHOOSE d \in at : TRUE
  BY DEF Server
<1> QED
  BY <1>1 DEF Binders, Daemons

\* Nothing is there: w is the state as it is.
LEMMA NowKilled ==
  ASSUME TypeOK, Tidy, NEW D \in SUBSET Daemons, Kill(D, Now), UNCHANGED main
  PROVE  Now' \in World /\ Tidy'
<1>1. Now \in World
  BY NowTypes
<1>2. HandlesOf(Now, main', D) /\ AnswersOf(Now, main', D) /\ CallsOf(Now)
  BY DEF Tidy, HandlesOf, AnswersOf
<1> QED
  BY <1>1, <1>2, KillKeeps

LEMMA BindTidy ==
  ASSUME TypeOK, Tidy, NEW d \in Slots, Bind(d)
  PROVE  Now' \in World /\ Tidy'
<1>1. CASE Kill({d}, Now)
  BY <1>1, NowKilled DEF Bind, Daemons
<1>2. CASE Kill({}, [Now EXCEPT !.daemon[d].at = "bound"])
  <2> DEFINE w == [Now EXCEPT !.daemon[d].at = "bound"]
  <2>1. /\ w \in World /\ w.loop = loop /\ w.conn = conn /\ w.stream = stream /\ w.call = call
        /\ w.daemon = [daemon EXCEPT ![d].at = "bound"]
    BY NowTypes DEF World, Daemon, Daemons, Now
  <2>2. \A e \in Daemons : w.daemon[e].by = daemon[e].by /\ (daemon[e].at # "off" => w.daemon[e].at # "off")
    BY <2>1, NowTypes DEF World, Daemon
  <2>3. Kill({}, w) /\ UNCHANGED main
    BY <1>2 DEF Bind
  <2> HIDE DEF w
  <2>4. HandlesOf(w, main', {})
    BY <2>1, <2>2, <2>3, NowTypes DEF Tidy, HandlesOf, Holds, Daemons
  <2>5. AnswersOf(w, main', {}) /\ CallsOf(w)
    BY <2>1, <2>2, <2>3, NowTypes DEF Tidy, AnswersOf, CallsOf, Holds
  <2> QED
    BY <2>1, <2>3, <2>4, <2>5, KillKeeps
<1> QED
  BY <1>1, <1>2 DEF Bind

LEMMA DieTidy ==
  ASSUME TypeOK, Tidy, NEW d \in Daemons, Die(d)
  PROVE  Now' \in World /\ Tidy'
  BY NowKilled DEF Die

LEMMA StartSharedTidy ==
  ASSUME TypeOK, Tidy, StartShared
  PROVE  Now' \in World /\ Tidy'
<1>1. /\ daemon \in [Daemons -> Daemon] /\ Shared \in Daemons \ Slots
      /\ daemon' = [daemon EXCEPT ![Shared].at = "bound"]
      /\ UNCHANGED <<loop, conn, stream, main, call>>
  BY NowTypes, SlotsAssumption DEF StartShared, World, Daemons
<1>2. /\ daemon' \in [Daemons -> Daemon]
      /\ \A d \in Slots : daemon'[d] = daemon[d]
      /\ \A d \in Daemons : daemon'[d].by = daemon[d].by
  BY <1>1 DEF Daemon, Daemons
<1>3. Now' = [Now EXCEPT !.daemon = daemon']
  BY <1>1 DEF Now
<1>4. Now' \in World
  BY <1>2, <1>3, NowTypes DEF World
<1>5. HandlesOf(Now', main', {})
  BY <1>1, <1>2, <1>3, NowTypes DEF Tidy, HandlesOf, Holds, Now
<1>6. AnswersOf(Now', main', {}) /\ CallsOf(Now')
  BY <1>1, <1>2, <1>3, NowTypes DEF Tidy, AnswersOf, CallsOf, Holds, Now
<1> QED
  BY <1>4, <1>5, <1>6 DEF Tidy

-----------------------------------------------------------------------------
(* The steps of an app.                                                    *)

\* The thread of the loop goes on, with the handles that it has.
LEMMA LoopMoves ==
  ASSUME TypeOK, Tidy, NEW a \in Apps, NEW l \in LoopState,
         loop' = [loop EXCEPT ![a] = l], UNCHANGED links,
         l.child = loop[a].child,
         main'[a] # "off", \A b \in Apps \ {a} : main'[b] = main[b],
         main[a] \in {"running", "flagged"} => main'[a] \in {"running", "flagged"},
         l.at # "wait",
         loop[a].at \notin {"wait", "subscribe", "pump", "stopped"}
  PROVE  Now' \in World /\ Tidy'
<1>1. loop \in [Apps -> LoopState] /\ UNCHANGED <<daemon, conn, stream, call>>
  BY NowTypes DEF World, links
<1>2. /\ \A b \in Apps : loop'[b].child = loop[b].child
      /\ \A b \in Apps \ {a} : loop'[b] = loop[b]
      /\ loop'[a] = l /\ loop' \in [Apps -> LoopState]
  BY <1>1
<1>3. Now' = [Now EXCEPT !.loop = loop']
  BY <1>1 DEF Now
<1>4. Now' \in World
  BY <1>2, <1>3, NowTypes DEF World
<1>5. loop[a].child = None /\ conn[a].child = None
  BY NowTypes DEF Tidy, HandlesOf
<1>6. HandlesOf(Now', main', {})
  <2>1. \A b \in Apps, d \in Slots : Holds(b, d, Now') <=> Holds(b, d, Now)
    BY <1>1, <1>2 DEF Holds, Now
  <2>2. \A b \in Apps : \A d \in Slots \ {} : Holds(b, d, Now') =>
          Now'.daemon[d].at # "off" /\ \A c \in Apps : Holds(c, d, Now') => c = b
    BY <1>1, <2>1, NowTypes DEF Tidy, HandlesOf, Now
  <2>3. ASSUME NEW b \in Apps
        PROVE  /\ main'[b] = "off" => loop'[b] = NoLoop /\ conn'[b] = NotConnected
               /\ stream'[b] # None => loop'[b].at = "pump"
               /\ loop'[b].at = "wait" => loop'[b].bin <= Bins
               /\ loop'[b].child # None => loop'[b].at \in {"wait", "subscribe"}
               /\ conn'[b].child # None => loop'[b].at \in {"pump", "stopped"}
    BY <1>1, <1>2, <1>5, NowTypes DEF Tidy, HandlesOf
  <2> QED
    BY <2>2, <2>3 DEF HandlesOf, Now
<1>7. AnswersOf(Now', main', {}) /\ CallsOf(Now')
  BY <1>1, <1>2, <1>3, NowTypes DEF Tidy, AnswersOf, CallsOf, Holds, Now
<1> QED
  BY <1>4, <1>6, <1>7 DEF Tidy

\* The connection is not dropped when the flag is set.
LEMMA BeginShutdownTidy ==
  ASSUME TypeOK, Tidy, NEW a \in Apps, BeginShutdown(a)
  PROVE  Now' \in World /\ Tidy'
<1>1. Now' = Now /\ main \in [Apps -> {"off", "running", "flagged", "leaving"}]
  BY DEF BeginShutdown, Now, links, TypeOK
<1>2. /\ \A b \in Apps : main'[b] = "off" <=> main[b] = "off"
      /\ \A b \in Apps : main[b] \in {"running", "flagged"} => main'[b] \in {"running", "flagged"}
  BY <1>1 DEF BeginShutdown
<1>3. Now' \in World /\ CallsOf(Now')
  BY <1>1, NowTypes DEF Tidy
<1>4. HandlesOf(Now', main', {})
  BY <1>1, <1>2 DEF Tidy, HandlesOf
<1>5. AnswersOf(Now', main', {})
  BY <1>1, <1>2 DEF Tidy, AnswersOf
<1> QED
  BY <1>3, <1>4, <1>5 DEF Tidy

LEMMA TakeChildTidy ==
  ASSUME TypeOK, Tidy, NEW a \in Apps, TakeChild(a)
  PROVE  Now' \in World /\ Tidy'
<1> DEFINE D == Daemons \cap {conn[a].child}
           orphaned == [d \in Daemons |-> IF d = loop[a].child THEN [daemon[d] EXCEPT !.by = None]
                                          ELSE daemon[d]]
           w == [Now EXCEPT !.daemon = orphaned]
<1>1. Kill(D, w) /\ main[a] = "flagged" /\ main' = [main EXCEPT ![a] = "leaving"]
      /\ main \in [Apps -> {"off", "running", "flagged", "leaving"}]
  BY DEF TakeChild, TypeOK
<1>2. /\ orphaned \in [Daemons -> Daemon]
      /\ \A d \in Daemons : /\ orphaned[d].at = daemon[d].at
                            /\ orphaned[d].by = IF d = loop[a].child THEN None ELSE daemon[d].by
  BY NowTypes DEF World, Daemon
<1> HIDE DEF orphaned
<1>3. /\ w \in World /\ w.daemon = orphaned
      /\ w.loop = loop /\ w.conn = conn /\ w.stream = stream /\ w.call = call
  BY <1>2, NowTypes DEF World, Now
<1> HIDE DEF w
<1>4. main'[a] = "leaving" /\ main[a] # "off" /\ \A b \in Apps \ {a} : main'[b] = main[b]
  BY <1>1
<1>5. HandlesOf(w, main', D)
  BY <1>2, <1>3, <1>4, NowTypes DEF Tidy, HandlesOf, Holds, Daemons
<1>6. AnswersOf(w, main', D)
  <2> SUFFICES ASSUME NEW d \in Daemons \ D, orphaned[d].by # None
               PROVE  /\ orphaned[d].by \in Apps
                      /\ main'[orphaned[d].by] \in {"running", "flagged"}
                      /\ Holds(orphaned[d].by, d, w)
    BY <1>3 DEF AnswersOf
  <2>1. orphaned[d].by = daemon[d].by /\ d # loop[a].child /\ d # conn[a].child
    BY <1>2
  <2>2. /\ daemon[d].by \in Apps /\ main[daemon[d].by] \in {"running", "flagged"}
        /\ Holds(daemon[d].by, d, Now)
    BY <2>1, NowTypes DEF Tidy, AnswersOf
  <2>3. daemon[d].by # a
    BY <2>1, <2>2, NowTypes DEF Holds
  <2> QED
    BY <1>3, <1>4, <2>1, <2>2, <2>3, NowTypes DEF Holds
<1>7. CallsOf(w)
  BY <1>3, NowTypes DEF Tidy, CallsOf
<1> QED
  BY <1>1, <1>3, <1>5, <1>6, <1>7, KillKeeps

LEMMA FirstBin == 1 \in 1 .. Bins + 1
  BY BoundsAssumption

\* What Vanish leaves of the state, but for the daemons that it kills.
Gone(a, answers) ==
  [daemon |-> [d \in Daemons |-> [daemon[d] EXCEPT !.by = IF @ = a /\ ~answers THEN None ELSE @]],
   loop   |-> [loop EXCEPT ![a] = NoLoop],
   conn   |-> [conn EXCEPT ![a] = NotConnected],
   stream |-> [stream EXCEPT ![a] = None],
   call   |-> [b \in Callers |-> IF b = a THEN NoCall ELSE call[b]]]

LEMMA GoneWorld ==
  ASSUME TypeOK, NEW a \in Apps, NEW answers \in BOOLEAN
  PROVE  LET w == Gone(a, answers) IN
         /\ w \in World
         /\ \A d \in Daemons : /\ w.daemon[d].at = daemon[d].at
                               /\ w.daemon[d].by = IF daemon[d].by = a /\ ~answers THEN None
                                                   ELSE daemon[d].by
         /\ w.loop[a] = NoLoop /\ w.conn[a] = NotConnected /\ w.stream[a] = None
         /\ \A b \in Apps \ {a} : /\ w.loop[b] = loop[b] /\ w.conn[b] = conn[b]
                                  /\ w.stream[b] = stream[b]
         /\ \A b \in Callers : w.call[b] = IF b = a THEN NoCall ELSE call[b]
<1> DEFINE left == [d \in Daemons |-> [daemon[d] EXCEPT !.by = IF @ = a /\ ~answers THEN None ELSE @]]
<1>1. NoLoop \in LoopState /\ NotConnected \in Conn /\ NoCall \in CallState
  BY FirstBin DEF NoLoop, LoopState, NotConnected, Conn, NoCall, CallState, Sockets
<1>2. /\ left \in [Daemons -> Daemon]
      /\ \A d \in Daemons : /\ left[d].at = daemon[d].at
                            /\ left[d].by = IF daemon[d].by = a /\ ~answers THEN None ELSE daemon[d].by
  BY NowTypes DEF World, Daemon
<1> HIDE DEF left
<1>3. /\ Gone(a, answers).daemon = left
      /\ Gone(a, answers).loop = [loop EXCEPT ![a] = NoLoop]
      /\ Gone(a, answers).conn = [conn EXCEPT ![a] = NotConnected]
      /\ Gone(a, answers).stream = [stream EXCEPT ![a] = None]
      /\ Gone(a, answers).call = [b \in Callers |-> IF b = a THEN NoCall ELSE call[b]]
  BY DEF Gone, left
<1>4. Gone(a, answers) \in World
  BY <1>1, <1>2, NowTypes DEF World, Gone, left
<1> QED
  BY <1>2, <1>3, <1>4, NowTypes DEF World

\* A process that ends: it answers for nothing when it left in order, and for
\* nothing any more when it crashed.
LEMMA VanishTidy ==
  ASSUME TypeOK, Tidy, NEW a \in Apps, NEW answers \in BOOLEAN, Vanish(a, answers),
         answers => main[a] = "leaving"
  PROVE  Now' \in World /\ Tidy'
<1> DEFINE D == IF os = "windows" THEN Daemons \cap {loop[a].child, conn[a].child} ELSE {}
           w == Gone(a, answers)
<1>1. Kill(D, w) /\ main' = [main EXCEPT ![a] = "off"]
      /\ main \in [Apps -> {"off", "running", "flagged", "leaving"}]
  BY DEF Vanish, TypeOK, Gone
<1>2. /\ NoLoop.child = None /\ NoLoop.at = "off" /\ NotConnected.child = None
      /\ NoCall.to = None /\ ~NoCall.served
  BY DEF NoLoop, NotConnected, NoCall
<1>3. \A d \in Daemons : /\ w.daemon[d].at = daemon[d].at
                         /\ w.daemon[d].by = IF daemon[d].by = a /\ ~answers THEN None ELSE daemon[d].by
  BY GoneWorld
<1>4. D \in SUBSET Daemons /\ w \in World
  BY GoneWorld
<1>5. /\ w.loop[a] = NoLoop /\ w.conn[a] = NotConnected /\ w.stream[a] = None
      /\ \A b \in Apps \ {a} : /\ w.loop[b] = loop[b] /\ w.conn[b] = conn[b]
                               /\ w.stream[b] = stream[b] /\ main'[b] = main[b]
      /\ \A b \in Callers : w.call[b] = NoCall \/ w.call[b] = call[b]
  BY <1>1, GoneWorld
<1> HIDE DEF w, D
<1>6. /\ \A d \in Slots : ~Holds(a, d, w)
      /\ \A b \in Apps \ {a}, d \in Daemons : Holds(b, d, w) <=> Holds(b, d, Now)
  BY <1>2, <1>5, NowTypes, SlotsAssumption DEF Holds
<1>7. HandlesOf(w, main', D)
  <2> SUFFICES ASSUME NEW b \in Apps
               PROVE  /\ main'[b] = "off" => w.loop[b] = NoLoop /\ w.conn[b] = NotConnected
                      /\ w.stream[b] # None => w.loop[b].at = "pump"
                      /\ w.loop[b].at = "wait" => w.loop[b].bin <= Bins
                      /\ w.loop[b].child # None => w.loop[b].at \in {"wait", "subscribe"}
                      /\ w.conn[b].child # None => w.loop[b].at \in {"pump", "stopped"}
                      /\ \A d \in Slots : Holds(b, d, w) =>
                           /\ w.daemon[d].at # "off"
                           /\ \A c \in Apps : Holds(c, d, w) => c = b
    BY <1>5 DEF HandlesOf
  <2>1. CASE b = a
    BY <1>2, <1>5, <1>6, <2>1
  <2>2. CASE b # a
    <3>1. \A d \in Slots : Holds(b, d, w) =>
            w.daemon[d].at # "off" /\ \A c \in Apps : Holds(c, d, w) => c = b
      BY <1>3, <1>6, <2>2, NowTypes DEF Tidy, HandlesOf, Daemons
    <3> QED
      BY <1>5, <2>2, <3>1, NowTypes DEF Tidy, HandlesOf
  <2> QED
    BY <2>1, <2>2
<1>8. AnswersOf(w, main', D)
  <2> SUFFICES ASSUME NEW d \in Daemons, w.daemon[d].by # None
               PROVE  /\ w.daemon[d].by \in Apps
                      /\ main'[w.daemon[d].by] \in {"running", "flagged"}
                      /\ Holds(w.daemon[d].by, d, w)
    BY <1>5 DEF AnswersOf
  <2>1. w.daemon[d].by = daemon[d].by /\ ~(daemon[d].by = a /\ ~answers)
    BY <1>3
  <2>2. /\ daemon[d].by \in Apps /\ main[daemon[d].by] \in {"running", "flagged"}
        /\ Holds(daemon[d].by, d, Now)
    BY <2>1, NowTypes DEF Tidy, AnswersOf
  <2>3. daemon[d].by # a
    BY <2>1, <2>2
  <2> QED
    BY <1>5, <1>6, <2>1, <2>2, <2>3
<1>9. CallsOf(w)
  BY <1>2, <1>5, NowTypes DEF Tidy, CallsOf
<1> QED
  BY <1>1, <1>4, <1>7, <1>8, <1>9, KillKeeps

-----------------------------------------------------------------------------
(* The steps of the reconnect loop.                                        *)

\* The loop goes on from the bring-up, and what it drops is killed.
LEMMA LoopDrops ==
  ASSUME TypeOK, Tidy, NEW a \in Apps, NEW l \in LoopState, NEW D \in SUBSET Daemons,
         Kill(D, [Now EXCEPT !.loop = [loop EXCEPT ![a] = l]]), UNCHANGED main,
         loop[a].at \notin {"off", "pump", "stopped"},
         l.child = loop[a].child, l.at # "wait",
         l.child \in D \cup {None} \/ l.at = "subscribe"
  PROVE  Now' \in World /\ Tidy'
<1> DEFINE w == [Now EXCEPT !.loop = [loop EXCEPT ![a] = l]]
<1>1. /\ w \in World /\ w.daemon = daemon /\ w.conn = conn /\ w.stream = stream /\ w.call = call
      /\ w.loop[a] = l /\ \A b \in Apps \ {a} : w.loop[b] = loop[b]
  BY NowTypes DEF World, Now
<1>2. Kill(D, w)
  OBVIOUS
<1> HIDE DEF w
<1>3. main[a] # "off" /\ stream[a] = None /\ conn[a].child = None
  BY NowTypes DEF Tidy, HandlesOf, NoLoop
<1>4. \A b \in Apps, d \in Daemons : Holds(b, d, w) <=> Holds(b, d, Now)
  BY <1>1, NowTypes DEF Holds
<1>5. HandlesOf(w, main', D)
  <2>1. \A b \in Apps, d \in Slots : Holds(b, d, w) =>
          w.daemon[d].at # "off" /\ \A c \in Apps : Holds(c, d, w) => c = b
    BY <1>1, <1>4, NowTypes DEF Tidy, HandlesOf, Daemons
  <2>2. ASSUME NEW b \in Apps
        PROVE  /\ main'[b] = "off" => w.loop[b] = NoLoop /\ w.conn[b] = NotConnected
               /\ w.stream[b] # None => w.loop[b].at = "pump"
               /\ w.loop[b].at = "wait" => w.loop[b].bin <= Bins
               /\ w.loop[b].child \notin D \cup {None} => w.loop[b].at \in {"wait", "subscribe"}
               /\ w.conn[b].child \notin D \cup {None} => w.loop[b].at \in {"pump", "stopped"}
    BY <1>1, <1>3, NowTypes DEF Tidy, HandlesOf
  <2> QED
    BY <2>1, <2>2 DEF HandlesOf
<1>6. AnswersOf(w, main', D) /\ CallsOf(w)
  BY <1>1, <1>4, NowTypes DEF Tidy, AnswersOf, CallsOf
<1> QED
  BY <1>1, <1>2, <1>5, <1>6, KillKeeps

LEMMA ReachedTidy ==
  ASSUME TypeOK, Tidy, NEW a \in Apps, NEW socket \in Sockets, Reached(a, socket), UNCHANGED main,
         loop[a].at \in {"head", "own", "wait"}
  PROVE  Now' \in World /\ Tidy'
<1>1. loop[a] \in LoopState /\ loop \in [Apps -> LoopState]
  BY NowTypes DEF World
<1>2. CASE ShuttingDown(a)
  <2> DEFINE l == [loop[a] EXCEPT !.at = "stopped"]
             D == Daemons \cap {loop[a].child}
  <2>1. [Now EXCEPT !.loop[a].at = "stopped"] = [Now EXCEPT !.loop = [loop EXCEPT ![a] = l]]
    BY <1>1, NowTypes DEF Now
  <2>2. l \in LoopState /\ l.child = loop[a].child /\ l.at = "stopped" /\ l.child \in D \cup {None}
    BY <1>1 DEF LoopState, Daemons
  <2>3. Kill(D, [Now EXCEPT !.loop[a].at = "stopped"])
    BY <1>2 DEF Reached
  <2> HIDE DEF l, D
  <2>4. D \in SUBSET Daemons
    BY DEF D
  <2> QED
    BY <2>1, <2>2, <2>3, <2>4, LoopDrops
<1>3. CASE ~ShuttingDown(a)
  <2> DEFINE l == [loop[a] EXCEPT !.at = "subscribe", !.to = socket, !.bin = 1]
  <2>1. [Now EXCEPT !.loop[a].at = "subscribe", !.loop[a].to = socket, !.loop[a].bin = 1]
          = [Now EXCEPT !.loop = [loop EXCEPT ![a] = l]]
    BY <1>1, NowTypes DEF Now, LoopState
  <2>2. l \in LoopState /\ l.child = loop[a].child /\ l.at = "subscribe"
    BY <1>1, FirstBin DEF LoopState
  <2>3. Kill({}, [Now EXCEPT !.loop[a].at = "subscribe", !.loop[a].to = socket, !.loop[a].bin = 1])
    BY <1>3 DEF Reached
  <2> HIDE DEF l
  <2> QED
    BY <2>1, <2>2, <2>3, LoopDrops
<1> QED
  BY <1>2, <1>3

LEMMA GiveUpTidy ==
  ASSUME TypeOK, Tidy, NEW a \in Apps, GiveUp(a)
  PROVE  Now' \in World /\ Tidy'
<1>1. loop[a] \in LoopState /\ loop \in [Apps -> LoopState] /\ loop[a].at = "wait" /\ loop[a].bin <= Bins
  BY NowTypes DEF World, GiveUp, Tidy, HandlesOf
<1> DEFINE l == [loop[a] EXCEPT !.at = "spawn", !.bin = @ + 1]
           D == Daemons \cap {loop[a].child}
<1>2. [Now EXCEPT !.loop[a].at = "spawn", !.loop[a].bin = @ + 1]
        = [Now EXCEPT !.loop = [loop EXCEPT ![a] = l]]
  BY <1>1, NowTypes DEF Now, LoopState
<1>3. loop[a].bin + 1 \in 1 .. Bins + 1
  BY <1>1, BoundsAssumption DEF LoopState
<1>4. l \in LoopState /\ l.child = loop[a].child /\ l.at = "spawn"
  BY <1>1, <1>3 DEF LoopState
<1>5. l.child \in D \cup {None} /\ D \in SUBSET Daemons
  BY <1>1, <1>4 DEF LoopState, Daemons
<1>6. Kill(D, [Now EXCEPT !.loop[a].at = "spawn", !.loop[a].bin = @ + 1]) /\ UNCHANGED main
  BY DEF GiveUp
<1> HIDE DEF l, D
<1> QED
  BY <1>1, <1>2, <1>4, <1>5, <1>6, LoopDrops

\* The steps of the loop that touch no daemon.
LEMMA ProbesTidy ==
  ASSUME TypeOK, Tidy, NEW a \in Apps,
         \/ Launch(a) \/ MigrateIdentity(a) \/ MigrateRosters(a) \/ ProbeShared(a) \/ ProbeOwn(a) \/ Up(a)
  PROVE  Now' \in World /\ Tidy'
<1>1. loop[a] \in LoopState /\ loop \in [Apps -> LoopState]
  BY NowTypes DEF World
<1>2. main \in [Apps -> {"off", "running", "flagged", "leaving"}]
  BY DEF TypeOK
<1>3. \A b \in Apps : loop[b].at # "off" => main[b] # "off"
  BY NowTypes DEF Tidy, HandlesOf, NoLoop
<1>4. ASSUME NEW stage \in {"migrate", "rosters", "head", "own", "stopped"}, Goto(a, stage),
             UNCHANGED links, main'[a] # "off", \A b \in Apps \ {a} : main'[b] = main[b],
             main[a] \in {"running", "flagged"} => main'[a] \in {"running", "flagged"},
             loop[a].at \notin {"wait", "subscribe", "pump", "stopped"}
      PROVE  Now' \in World /\ Tidy'
  <2> DEFINE l == [loop[a] EXCEPT !.at = stage]
  <2>1. l \in LoopState /\ l.child = loop[a].child /\ l.at # "wait"
    BY <1>1 DEF LoopState
  <2>2. loop' = [loop EXCEPT ![a] = l]
    BY <1>4 DEF Goto
  <2> HIDE DEF l
  <2> QED
    BY <1>4, <2>1, <2>2, LoopMoves
<1>5. CASE Launch(a)
  <2>1. loop[a].at = "off"
    BY <1>5, NowTypes DEF Launch, Tidy, HandlesOf, NoLoop
  <2> QED
    BY <1>2, <1>4, <1>5, <2>1 DEF Launch
<1>6. CASE MigrateIdentity(a) \/ MigrateRosters(a)
  BY <1>3, <1>4, <1>6 DEF MigrateIdentity, MigrateRosters
<1>7. CASE ProbeShared(a)
  BY <1>3, <1>4, <1>7, ReachedTidy DEF ProbeShared, Probe, Sockets
<1>8. CASE ProbeOwn(a)
  <2>1. CASE Reached(a, "own")
    BY <1>8, <2>1, ReachedTidy DEF ProbeOwn, Sockets
  <2>2. CASE loop' = [loop EXCEPT ![a].at = "spawn", ![a].bin = 1] /\ UNCHANGED links
    <3> DEFINE l == [loop[a] EXCEPT !.at = "spawn", !.bin = 1]
    <3>1. l \in LoopState /\ l.child = loop[a].child /\ l.at = "spawn"
      BY <1>1, FirstBin DEF LoopState
    <3>2. loop' = [loop EXCEPT ![a] = l]
      BY <1>1, <2>2 DEF LoopState
    <3> HIDE DEF l
    <3>3. loop[a].at = "own" /\ UNCHANGED main
      BY <1>8 DEF ProbeOwn
    <3> QED
      BY <1>3, <2>2, <3>1, <3>2, <3>3, LoopMoves
  <2> QED
    BY <1>8, <2>1, <2>2 DEF ProbeOwn, Probe
<1>9. CASE Up(a)
  BY <1>9, ReachedTidy DEF Up, Sockets
<1> QED
  BY <1>5, <1>6, <1>7, <1>8, <1>9

\* A daemon that is spawned had no handle to it yet.
LEMMA SpawnTidy ==
  ASSUME TypeOK, Tidy, NEW a \in Apps, Spawn(a)
  PROVE  Now' \in World /\ Tidy'
<1>1. /\ loop[a] \in LoopState /\ loop \in [Apps -> LoopState] /\ daemon \in [Daemons -> Daemon]
      /\ main \in [Apps -> {"off", "running", "flagged", "leaving"}]
      /\ loop[a].at = "spawn" /\ UNCHANGED <<conn, stream, main, call>>
  BY NowTypes DEF World, Spawn, TypeOK
<1>2. main[a] # "off" /\ loop[a].child = None /\ conn[a].child = None /\ stream[a] = None
  BY <1>1, NowTypes DEF Tidy, HandlesOf, NoLoop
<1>3. CASE Goto(a, "head") /\ UNCHANGED daemon
  <2> DEFINE l == [loop[a] EXCEPT !.at = "head"]
  <2>1. l \in LoopState /\ l.child = loop[a].child /\ l.at = "head"
    BY <1>1 DEF LoopState
  <2>2. loop' = [loop EXCEPT ![a] = l]
    BY <1>3 DEF Goto
  <2> HIDE DEF l
  <2> QED
    BY <1>1, <1>2, <1>3, <2>1, <2>2, LoopMoves DEF links
<1>4. CASE loop[a].bin <= Bins /\ ~(Goto(a, "head") /\ UNCHANGED daemon)
  <2> DEFINE d == Unused
             new == [at |-> "starting", bin |-> loop[a].bin, by |-> IF main[a] = "leaving" THEN None ELSE a]
  <2>1. /\ daemon[d] = NoDaemon /\ daemon' = [daemon EXCEPT ![d] = new]
        /\ loop' = [loop EXCEPT ![a].at = "wait", ![a].child = d]
    BY <1>4 DEF Spawn
  <2>2. d \in Slots
    <3> DEFINE free == {e \in Slots : daemon[e] = NoDaemon}
    <3>1. \E e \in Slots : e \in free \/ free = {}
      BY SlotsAssumption
    <3> QED
      BY <3>1 DEF Unused
  <2> HIDE DEF d
  <2>3. new \in Daemon /\ new.at # "off" /\ new.by \in {None, a} /\ (main[a] = "leaving" => new.by = None)
    BY <1>1, <1>4 DEF Daemon, LoopState
  <2> HIDE DEF new
  <2>4. /\ daemon' \in [Daemons -> Daemon] /\ daemon'[d] = new
        /\ \A e \in Daemons \ {d} : daemon'[e] = daemon[e]
    BY <1>1, <2>1, <2>2, <2>3 DEF Daemons
  <2>5. /\ loop' \in [Apps -> LoopState]
        /\ loop'[a].at = "wait" /\ loop'[a].child = d /\ loop'[a].bin = loop[a].bin
        /\ \A b \in Apps \ {a} : loop'[b] = loop[b]
    BY <1>1, <2>1, <2>2 DEF LoopState
  <2>6. /\ Now'.daemon = daemon' /\ Now'.loop = loop' /\ Now'.conn = conn /\ Now'.stream = stream
        /\ Now'.call = call /\ Now' \in World
    BY <1>1, <2>4, <2>5, NowTypes DEF Now, World
  <2>7. \A b \in Apps : ~Holds(b, d, Now)
    BY <2>1, <2>2, NowTypes DEF Tidy, HandlesOf, NoDaemon
  <2>8. /\ \A b \in Apps, e \in Daemons : e # d => (Holds(b, e, Now') <=> Holds(b, e, Now))
        /\ \A b \in Apps : Holds(b, d, Now') <=> b = a
    <3>1. None \notin Daemons
      BY SlotsAssumption DEF Daemons
    <3> QED
      BY <1>2, <2>5, <2>6, <2>7, <3>1, NowTypes DEF Holds
  <2>9. HandlesOf(Now', main', {})
    <3>1. ASSUME NEW b \in Apps, NEW e \in Slots, Holds(b, e, Now')
          PROVE  daemon'[e].at # "off" /\ \A c \in Apps : Holds(c, e, Now') => c = b
      <4>1. CASE e = d
        BY <2>3, <2>4, <2>8, <3>1, <4>1
      <4>2. CASE e # d
        BY <2>4, <2>8, <3>1, <4>2, NowTypes DEF Tidy, HandlesOf, Daemons
      <4> QED
        BY <4>1, <4>2
    <3>2. ASSUME NEW b \in Apps
          PROVE  /\ main'[b] = "off" => loop'[b] = NoLoop /\ conn[b] = NotConnected
                 /\ stream[b] # None => loop'[b].at = "pump"
                 /\ loop'[b].at = "wait" => loop'[b].bin <= Bins
                 /\ loop'[b].child # None => loop'[b].at \in {"wait", "subscribe"}
                 /\ conn[b].child # None => loop'[b].at \in {"pump", "stopped"}
      <4>1. CASE b = a
        BY <1>1, <1>2, <1>4, <2>5, <4>1
      <4>2. CASE b # a
        BY <1>1, <2>5, <4>2, NowTypes DEF Tidy, HandlesOf
      <4> QED
        BY <4>1, <4>2
    <3> QED
      BY <2>6, <3>1, <3>2 DEF HandlesOf
  <2>10. AnswersOf(Now', main', {})
    <3> SUFFICES ASSUME NEW e \in Daemons, daemon'[e].by # None
                 PROVE  /\ daemon'[e].by \in Apps
                        /\ main[daemon'[e].by] \in {"running", "flagged"}
                        /\ Holds(daemon'[e].by, e, Now')
      BY <1>1, <2>6 DEF AnswersOf
    <3>1. CASE e = d
      BY <1>1, <1>2, <2>3, <2>4, <2>8, <3>1
    <3>2. CASE e # d
      <4>1. /\ daemon[e].by \in Apps /\ main[daemon[e].by] \in {"running", "flagged"}
            /\ Holds(daemon[e].by, e, Now) /\ daemon'[e] = daemon[e]
        BY <2>4, <3>2, NowTypes DEF Tidy, AnswersOf
      <4> QED
        BY <2>8, <3>2, <4>1
    <3> QED
      BY <3>1, <3>2
  <2>11. CallsOf(Now')
    BY <2>6, NowTypes DEF Tidy, CallsOf
  <2> QED
    BY <2>6, <2>9, <2>10, <2>11 DEF Tidy
<1> QED
  BY <1>3, <1>4 DEF Spawn

\* The handle goes from the loop to the connection.
LEMMA SubscribeTidy ==
  ASSUME TypeOK, Tidy, NEW a \in Apps, Subscribe(a) \/ SubscribeFails(a)
  PROVE  Now' \in World /\ Tidy'
<1>1. /\ loop[a] \in LoopState /\ loop \in [Apps -> LoopState] /\ conn \in [Apps -> Conn]
      /\ stream \in [Apps -> Daemons \cup {None}]
      /\ loop[a].at = "subscribe" /\ UNCHANGED <<daemon, main, call>>
  BY NowTypes DEF World, Subscribe, SubscribeFails
<1>2. main[a] # "off" /\ conn[a].child = None /\ stream[a] = None
  BY <1>1, NowTypes DEF Tidy, HandlesOf, NoLoop
<1>3. PICK id \in Daemons \cup {None}, stage \in {"pump", "stopped"} :
        /\ conn' = [conn EXCEPT ![a] = [on |-> TRUE, to |-> loop[a].to, id |-> id, child |-> loop[a].child]]
        /\ loop' = [loop EXCEPT ![a].at = stage, ![a].child = None]
        /\ stream' = stream \/ (stage = "pump" /\ stream' = [stream EXCEPT ![a] = id])
  <2>1. CASE Subscribe(a)
    <3>1. Server(loop[a].to) \in Daemons
      BY <1>1, <2>1, ServerIs DEF Subscribe, LoopState
    <3> QED
      BY <2>1, <3>1 DEF Subscribe
  <2>2. CASE SubscribeFails(a)
    <3>1. /\ conn' = [conn EXCEPT ![a] = [on |-> TRUE, to |-> loop[a].to, id |-> None,
                                          child |-> loop[a].child]]
          /\ loop' = [loop EXCEPT ![a].at = "stopped", ![a].child = None]
          /\ stream' = stream
      BY <2>2 DEF SubscribeFails
    <3>2. None \in Daemons \cup {None}
      OBVIOUS
    <3> QED
      BY <3>1, <3>2
  <2> QED
    BY <1>1, <2>1, <2>2
<1>4. /\ loop' \in [Apps -> LoopState] /\ loop'[a].at = stage /\ loop'[a].child = None
      /\ \A b \in Apps \ {a} : loop'[b] = loop[b]
  BY <1>1, <1>3 DEF LoopState
<1>5. /\ conn' \in [Apps -> Conn] /\ conn'[a].child = loop[a].child
      /\ \A b \in Apps \ {a} : conn'[b] = conn[b]
  BY <1>1, <1>3 DEF Conn, LoopState
<1>6. /\ stream' \in [Apps -> Daemons \cup {None}] /\ (stream'[a] # None => stage = "pump")
      /\ \A b \in Apps \ {a} : stream'[b] = stream[b]
  BY <1>1, <1>2, <1>3
<1>7. /\ Now'.daemon = daemon /\ Now'.loop = loop' /\ Now'.conn = conn' /\ Now'.stream = stream'
      /\ Now'.call = call /\ Now' \in World
  BY <1>1, <1>4, <1>5, <1>6, NowTypes DEF Now, World
<1>8. \A b \in Apps, d \in Daemons : Holds(b, d, Now') <=> Holds(b, d, Now)
  <2>1. None \notin Daemons
    BY SlotsAssumption DEF Daemons
  <2> QED
    BY <1>2, <1>4, <1>5, <1>7, <2>1, NowTypes DEF Holds
<1>9. HandlesOf(Now', main', {})
  <2>1. \A b \in Apps, d \in Slots : Holds(b, d, Now') =>
          daemon[d].at # "off" /\ \A c \in Apps : Holds(c, d, Now') => c = b
    BY <1>8, NowTypes DEF Tidy, HandlesOf, Daemons
  <2>2. ASSUME NEW b \in Apps
        PROVE  /\ main[b] = "off" => loop'[b] = NoLoop /\ conn'[b] = NotConnected
               /\ stream'[b] # None => loop'[b].at = "pump"
               /\ loop'[b].at = "wait" => loop'[b].bin <= Bins
               /\ loop'[b].child # None => loop'[b].at \in {"wait", "subscribe"}
               /\ conn'[b].child # None => loop'[b].at \in {"pump", "stopped"}
    <3>1. CASE b = a
      BY <1>2, <1>3, <1>4, <1>6, <3>1
    <3>2. CASE b # a
      BY <1>4, <1>5, <1>6, <3>2, NowTypes DEF Tidy, HandlesOf
    <3> QED
      BY <3>1, <3>2
  <2> QED
    BY <1>1, <1>7, <2>1, <2>2 DEF HandlesOf
<1>10. AnswersOf(Now', main', {}) /\ CallsOf(Now')
  BY <1>1, <1>7, <1>8, NowTypes DEF Tidy, AnswersOf, CallsOf
<1> QED
  BY <1>7, <1>9, <1>10 DEF Tidy

LEMMA StreamEndsTidy ==
  ASSUME TypeOK, Tidy, NEW a \in Apps, StreamEnds(a)
  PROVE  Now' \in World /\ Tidy'
<1> DEFINE D == Daemons \cap {conn[a].child}
           w == [Now EXCEPT !.conn[a] = NotConnected, !.loop[a].at = "head"]
<1>1. /\ Kill(D, w) /\ UNCHANGED main /\ loop[a].at = "pump" /\ stream[a] = None
      /\ loop \in [Apps -> LoopState] /\ conn \in [Apps -> Conn]
  BY NowTypes DEF World, StreamEnds
<1>2. main[a] # "off" /\ loop[a].child = None
  BY <1>1, NowTypes DEF Tidy, HandlesOf, NoLoop
<1>3. NotConnected \in Conn /\ NotConnected.child = None
  BY DEF NotConnected, Conn, Sockets
<1>4. /\ w \in World /\ w.daemon = daemon /\ w.stream = stream /\ w.call = call
      /\ w.loop = [loop EXCEPT ![a].at = "head"] /\ w.conn = [conn EXCEPT ![a] = NotConnected]
  <2>1. /\ w.daemon = daemon /\ w.stream = stream /\ w.call = call
        /\ w.loop = [loop EXCEPT ![a].at = "head"] /\ w.conn = [conn EXCEPT ![a] = NotConnected]
    BY <1>1, NowTypes DEF Now
  <2>2. w = [Now EXCEPT !.conn = [conn EXCEPT ![a] = NotConnected],
                        !.loop = [loop EXCEPT ![a].at = "head"]]
    BY <1>1, NowTypes DEF Now
  <2>3. [loop EXCEPT ![a].at = "head"] \in [Apps -> LoopState]
    BY <1>1 DEF LoopState
  <2>4. [conn EXCEPT ![a] = NotConnected] \in [Apps -> Conn]
    BY <1>1, <1>3
  <2> QED
    BY <2>1, <2>2, <2>3, <2>4, NowTypes DEF World
<1> HIDE DEF w
<1>5. /\ w.loop[a].at = "head" /\ w.loop[a].child = None /\ w.conn[a].child = None
      /\ \A b \in Apps \ {a} : w.loop[b] = loop[b] /\ w.conn[b] = conn[b]
  BY <1>1, <1>2, <1>3, <1>4 DEF LoopState
<1>6. \A b \in Apps, d \in Daemons \ D : Holds(b, d, w) <=> Holds(b, d, Now)
  <2>1. None \notin Daemons
    BY SlotsAssumption DEF Daemons
  <2> QED
    BY <1>2, <1>5, <2>1, NowTypes DEF Holds
<1>7. HandlesOf(w, main', D)
  <2>1. \A b \in Apps, d \in Slots \ D : Holds(b, d, w) =>
          daemon[d].at # "off" /\ \A c \in Apps : Holds(c, d, w) => c = b
    BY <1>6, NowTypes DEF Tidy, HandlesOf, Daemons
  <2>2. ASSUME NEW b \in Apps
        PROVE  /\ main[b] = "off" => w.loop[b] = NoLoop /\ w.conn[b] = NotConnected
               /\ w.stream[b] # None => w.loop[b].at = "pump"
               /\ w.loop[b].at = "wait" => w.loop[b].bin <= Bins
               /\ w.loop[b].child # None => w.loop[b].at \in {"wait", "subscribe"}
               /\ w.conn[b].child # None => w.loop[b].at \in {"pump", "stopped"}
    <3>1. CASE b = a
      BY <1>1, <1>2, <1>4, <1>5, <3>1
    <3>2. CASE b # a
      BY <1>4, <1>5, <3>2, NowTypes DEF Tidy, HandlesOf
    <3> QED
      BY <3>1, <3>2
  <2> QED
    BY <1>1, <1>4, <2>1, <2>2 DEF HandlesOf
<1>8. AnswersOf(w, main', D) /\ CallsOf(w)
  BY <1>1, <1>4, <1>6, NowTypes DEF Tidy, AnswersOf, CallsOf
<1> QED
  BY <1>1, <1>4, <1>7, <1>8, KillKeeps

-----------------------------------------------------------------------------
(* Requests.                                                               *)

LEMMA RequestTidy ==
  ASSUME TypeOK, Tidy, NEW a \in Callers, Request(a)
  PROVE  Now' \in World /\ Tidy'
<1>1. call \in [Callers -> CallState] /\ UNCHANGED <<daemon, loop, conn, stream, main>> /\ a \in Apps
  BY NowTypes, AppsAssumption
  DEF World, Request, Plain, ReadId, Send, Serve, Answered, TimesOut, Through
<1>2. PICK k : call' = [call EXCEPT ![a] = k]
  BY DEF Request, Calls, Plain, ReadId, Send, Serve, Answered, TimesOut, Through
<1>3. call'[a] = k /\ \A b \in Callers \ {a} : call'[b] = call[b]
  BY <1>1, <1>2
<1>4. NoCall \in CallState /\ NoCall.to = None /\ ~NoCall.served
  BY DEF NoCall, CallState
<1>5. k \in CallState /\ (k.to # None => k.at \in {"sent", "failed"}) /\ (k.at = "none" => ~k.served)
  <2>1. call[a] \in CallState /\ (call[a].to # None => call[a].at \in {"sent", "failed"})
    BY <1>1, NowTypes DEF Tidy, CallsOf
  <2>2. CASE Plain(a)
    <3>1. k = [NoCall EXCEPT !.at = "named"]
      BY <1>1, <1>2, <2>2 DEF Plain, Calls
    <3> QED
      BY <3>1 DEF NoCall, CallState
  <2>3. CASE ReadId(a)
    <3>1. conn[a].id \in Daemons \cup {None}
      BY <1>1, NowTypes DEF World, Conn
    <3> QED
      <4>1. k = [NoCall EXCEPT !.at = "named", !.claim = TRUE, !.id = conn[a].id]
        BY <1>1, <1>2, <2>3 DEF ReadId, Calls
      <4> QED
        BY <3>1, <4>1 DEF NoCall, CallState
  <2>4. CASE Send(a)
    <3> DEFINE server == IF conn[a].on THEN Server(conn[a].to) ELSE None
    <3>1. server \in Daemons \cup {None}
      BY <1>1, NowTypes, ServerIs DEF World, Conn
    <3>2. k = IF server = None THEN [call[a] EXCEPT !.at = "failed", !.id = None]
              ELSE [call[a] EXCEPT !.at = "sent", !.to = server]
      BY <1>1, <1>2, <2>4 DEF Send, Calls
    <3> HIDE DEF server
    <3> QED
      BY <2>1, <3>1, <3>2 DEF CallState
  <2>5. CASE Serve(a)
    <3>1. k = [NoCall EXCEPT !.at = "failed"] \/ k = [call[a] EXCEPT !.served = TRUE]
      BY <1>1, <1>2, <2>5 DEF Serve, Calls
    <3>2. CASE k = [NoCall EXCEPT !.at = "failed"]
      BY <3>2 DEF NoCall, CallState
    <3>3. CASE k = [call[a] EXCEPT !.served = TRUE]
      <4>1. k \in CallState /\ k.to = call[a].to /\ k.at = call[a].at /\ call[a].to # None
        BY <2>1, <2>5, <3>3 DEF Serve, CallState
      <4> QED
        BY <2>1, <4>1
    <3> QED
      BY <3>1, <3>2, <3>3
  <2>6. CASE Answered(a)
    <3>1. k = [NoCall EXCEPT !.at = "ok", !.served = TRUE]
      BY <1>1, <1>2, <2>6 DEF Answered, Calls
    <3> QED
      BY <3>1 DEF NoCall, CallState
  <2>7. CASE TimesOut(a)
    BY <1>1, <1>2, <2>1, <2>7 DEF TimesOut, Calls, CallState
  <2>8. CASE Through(a)
    BY <1>1, <1>2, <1>4, <2>8 DEF Through, Calls
  <2> QED
    BY <2>2, <2>3, <2>4, <2>5, <2>6, <2>7, <2>8 DEF Request
<1>6. call' \in [Callers -> CallState]
  BY <1>1, <1>2, <1>5
<1>7. /\ Now'.daemon = daemon /\ Now'.loop = loop /\ Now'.conn = conn /\ Now'.stream = stream
      /\ Now'.call = call' /\ Now' \in World
  BY <1>1, <1>6, NowTypes DEF Now, World
<1>8. HandlesOf(Now', main', {}) /\ AnswersOf(Now', main', {})
  BY <1>1, <1>7, NowTypes DEF Tidy, HandlesOf, AnswersOf, Holds
<1>9. CallsOf(Now')
  BY <1>3, <1>5, <1>7, NowTypes DEF Tidy, CallsOf
<1> QED
  BY <1>7, <1>8, <1>9 DEF Tidy

-----------------------------------------------------------------------------
(* The invariant holds.                                                    *)

LEMMA InitTidy == Init => TypeOK /\ Tidy
<1> SUFFICES ASSUME Init PROVE TypeOK /\ Tidy
  OBVIOUS
<1>1. NoDaemon \in Daemon /\ NoLoop \in LoopState /\ NotConnected \in Conn /\ NoCall \in CallState
  BY BoundsAssumption, FirstBin DEF NoDaemon, Daemon, NoLoop, LoopState, NotConnected, Conn, NoCall, CallState, Sockets
<1>2. /\ NoDaemon.by = None /\ NoLoop.child = None /\ NoLoop.at = "off" /\ NotConnected.child = None
      /\ NoCall.to = None /\ ~NoCall.served
  BY DEF NoDaemon, NoLoop, NotConnected, NoCall
<1>3. daemon \in [Daemons -> Daemon] /\ loop \in [Apps -> LoopState] /\ conn \in [Apps -> Conn]
      /\ stream \in [Apps -> Daemons \cup {None}] /\ call \in [Callers -> CallState]
  BY <1>1 DEF Init
<1>4. 0 \in 0 .. MaxEvents
  BY BoundsAssumption
<1>5. main \in [Apps -> {"off", "running", "flagged", "leaving"}]
  BY DEF Init
<1>6. None \notin Slots
  BY SlotsAssumption
<1>7. TypeOK
  BY <1>2, <1>3, <1>4, <1>5, <1>6 DEF TypeOK, Init, Daemon, LoopState, Conn, CallState
<1>8. HandlesOf(Now, main, {})
  <2>1. \A a \in Apps : loop[a] = NoLoop /\ conn[a] = NotConnected /\ stream[a] = None
    BY DEF Init
  <2>2. \A a \in Apps, d \in Slots : ~Holds(a, d, Now)
    BY <1>2, <1>6, <1>7, <2>1, NowTypes DEF Holds
  <2> QED
    BY <1>2, <1>7, <2>1, <2>2, NowTypes DEF HandlesOf
<1>9. AnswersOf(Now, main, {}) /\ CallsOf(Now)
  BY <1>2, <1>7, NowTypes DEF Init, AnswersOf, CallsOf
<1> QED
  BY <1>7, <1>8, <1>9 DEF Tidy

LEMMA NextTidy == TypeOK /\ Tidy /\ Next => Now' \in World /\ Tidy'
<1> SUFFICES ASSUME TypeOK, Tidy, Next PROVE Now' \in World /\ Tidy'
  OBVIOUS
<1>1. ASSUME NEW a \in Apps, Loop(a) \/ Exit(a) \/ Launch(a) \/ Crash(a)
      PROVE  Now' \in World /\ Tidy'
  <2>1. CASE End(a)
    BY <2>1, VanishTidy DEF End
  <2>2. CASE Crash(a)
    BY <2>2, VanishTidy DEF Crash
  <2> QED
    BY <1>1, <2>1, <2>2, ProbesTidy, SpawnTidy, GiveUpTidy, SubscribeTidy, StreamEndsTidy,
       BeginShutdownTidy, TakeChildTidy
    DEF Loop, Exit
<1> QED
  BY <1>1, RequestTidy, BindTidy, DieTidy, StartSharedTidy DEF Next

LEMMA NextTypes == TypeOK /\ Tidy /\ Next => TypeOK'
<1> SUFFICES ASSUME TypeOK, Tidy, Next PROVE TypeOK'
  OBVIOUS
<1>1. /\ daemon' \in [Daemons -> Daemon] /\ loop' \in [Apps -> LoopState] /\ conn' \in [Apps -> Conn]
      /\ stream' \in [Apps -> Daemons \cup {None}] /\ call' \in [Callers -> CallState]
  BY NextTidy DEF Now, World
<1>2. main' \in [Apps -> {"off", "running", "flagged", "leaving"}]
  <2>1. \/ main' = main
        \/ \E a \in Apps, stage \in {"off", "running", "flagged", "leaving"} :
             main' = [main EXCEPT ![a] = stage]
    BY DEF Next, Loop, Exit, Request, Launch, Crash, Vanish, MigrateIdentity, MigrateRosters, ProbeShared,
      ProbeOwn, Probe, Spawn, Up, GiveUp, Subscribe, SubscribeFails, StreamEnds, BeginShutdown,
      TakeChild, End, Plain, ReadId, Send, Serve, Answered, TimesOut, Through, Bind, Die, StartShared
  <2> QED
    BY <2>1 DEF TypeOK
<1>3. home' \subseteq {"identity", "rosters"} /\ os' \in Systems
  <2>1. home' \in {home, home \cup {"identity"}, home \cup {"rosters"}} /\ os' = os
    BY DEF Next, Loop, Exit, Request, Launch, Crash, Vanish, MigrateIdentity, MigrateRosters, ProbeShared,
      ProbeOwn, Probe, Spawn, Up, GiveUp, Subscribe, SubscribeFails, StreamEnds, BeginShutdown,
      TakeChild, End, Plain, ReadId, Send, Serve, Answered, TimesOut, Through, Bind, Die, StartShared
  <2> QED
    BY <2>1 DEF TypeOK
<1>4. events' \in 0 .. MaxEvents
  <2>1. events' = events \/ Event
    BY DEF Next, Loop, Exit, Request, Launch, Crash, Vanish, MigrateIdentity, MigrateRosters, ProbeShared,
      ProbeOwn, Probe, Spawn, Up, GiveUp, Subscribe, SubscribeFails, StreamEnds, BeginShutdown,
      TakeChild, End, Plain, ReadId, Send, Serve, Answered, TimesOut, Through, Bind, Die, StartShared
  <2>2. events \in 0 .. MaxEvents
    BY DEF TypeOK
  <2> QED
    BY <2>1, <2>2, BoundsAssumption DEF Event
<1>5. HandlesOf(Now', main', {}) /\ Now'.loop = loop' /\ Now'.conn = conn' /\ Now'.stream = stream'
  BY NextTidy DEF Tidy, Now
<1>6. None \notin Slots
  BY SlotsAssumption
<1>7. /\ \A a \in Apps : main'[a] = "off" => loop'[a] = NoLoop /\ conn'[a] = NotConnected
      /\ \A a \in Apps : stream'[a] # None => loop'[a].at = "pump"
      /\ \A d \in Slots : \A a, b \in Apps : conn'[a].child = d /\ loop'[b].child = d => FALSE
  BY <1>5, <1>6 DEF HandlesOf, Holds
<1> QED
  BY <1>1, <1>2, <1>3, <1>4, <1>7 DEF TypeOK, Daemon, LoopState, Conn, CallState

LEMMA Stutters == UNCHANGED vars /\ TypeOK /\ Tidy => TypeOK' /\ Tidy'
<1> SUFFICES ASSUME UNCHANGED vars, TypeOK, Tidy PROVE TypeOK' /\ Tidy'
  OBVIOUS
<1>1. TypeOK' /\ Now' = Now /\ main' = main
  BY DEF vars, TypeOK, Now
<1> QED
  BY <1>1 DEF Tidy

LEMMA Invariant == Spec => [](TypeOK /\ Tidy)
<1>1. TypeOK /\ Tidy /\ [Next]_vars => (TypeOK /\ Tidy)'
  BY NextTypes, NextTidy, Stutters
<1> QED
  BY <1>1, InitTidy, PTL DEF Spec

\* Every handle names a daemon that runs, as long as it is held, and no two
\* apps hold one (DaemonChild, the supervisor's state).
THEOREM TypeCorrect == Spec => []TypeOK
  BY Invariant, PTL

\* A daemon that an app answers for does not outlive it (take_child, Drop for
\* DaemonChild, the check after the bring-up), for any number of apps.
THEOREM OwnedDie == Spec => []OwnedDies
<1>1. TypeOK /\ Tidy => OwnedDies
  <2> SUFFICES ASSUME TypeOK, Tidy, NEW d \in Slots, daemon[d].by # None
               PROVE  main[daemon[d].by] # "off"
    BY DEF OwnedDies
  <2>1. d \in Daemons \ {} /\ Now.daemon = daemon
    BY NowTypes DEF Daemons
  <2> QED
    BY <2>1 DEF Tidy, AnswersOf
<1> QED
  BY <1>1, Invariant, PTL

-----------------------------------------------------------------------------
(* The requests implement ControlCall.                                     *)

\* What becomes of the requests when daemons go away.
LEMMA KillFails ==
  ASSUME TypeOK, NEW w, NEW D \in SUBSET Daemons, Kill(D, w), w.call = call
  PROVE  Abstract!Next
<1> DEFINE C == {b \in Callers : call[b].at = "sent" /\ call[b].to \in D}
<1>1. \A b \in Callers : /\ call'[b].at = IF b \in C THEN "failed" ELSE call[b].at
                         /\ call'[b].served = call[b].served
  BY KillCalls, NowTypes DEF World
<1>2. \A b \in C : Stage(b) = "asked"
  BY DEF Stage
<1>3. \A b \in Callers : Stage(b)' = IF b \in C THEN "failed" ELSE Stage(b)
  BY <1>1, <1>2 DEF Stage
<1>4. C \in SUBSET Callers
  OBVIOUS
<1> HIDE DEF C
<1>5. Abstract!Fail(C)
  BY <1>1, <1>2, <1>3, <1>4 DEF Abstract!Fail, Abstract!Failed
<1> QED
  BY <1>4, <1>5 DEF Abstract!Next

\* The process of a goes, and on Windows its children and their requests.
LEMMA VanishForgets ==
  ASSUME TypeOK, NEW a \in Apps, NEW answers \in BOOLEAN, Vanish(a, answers)
  PROVE  Abstract!Next
<1> DEFINE D == IF os = "windows" THEN Daemons \cap {loop[a].child, conn[a].child} ELSE {}
           w == Gone(a, answers)
<1>1. Kill(D, w)
  BY DEF Vanish, Gone
<1>2. D \in SUBSET Daemons /\ w \in World
  BY GoneWorld
<1>3. \A b \in Callers : w.call[b] = IF b = a THEN NoCall ELSE call[b]
  BY GoneWorld
<1> HIDE DEF w, D
<1>4. PICK C \in SUBSET Callers : C = {b \in Callers \ {a} : call[b].at = "sent" /\ call[b].to \in D}
  OBVIOUS
<1>5. \A b \in Callers \ {a} : /\ call'[b].at = IF b \in C THEN "failed" ELSE call[b].at
                               /\ call'[b].served = call[b].served
  BY <1>1, <1>2, <1>3, <1>4, KillShape
<1>6. a \in Callers => call'[a].at = "none" /\ call'[a].served = FALSE
  BY <1>1, <1>2, <1>3, KillShape DEF NoCall
<1>7. \A b \in C : b # a /\ Stage(b) = "asked"
  BY <1>4 DEF Stage
<1>8. /\ \A b \in Callers \ {a} : Stage(b)' = IF b \in C THEN "failed" ELSE Stage(b)
      /\ a \in Callers => Stage(a)' = "none"
  BY <1>5, <1>6, <1>7 DEF Stage
<1>9. CASE a \in Callers
  <2>1. Abstract!Forget(a, C)
    BY <1>5, <1>6, <1>7, <1>8, <1>4, <1>9 DEF Abstract!Forget, Abstract!Failed
  <2> QED
    BY <1>9, <2>1 DEF Abstract!Next
<1>10. CASE a \notin Callers
  <2>1. Abstract!Fail(C)
    BY <1>5, <1>7, <1>8, <1>4, <1>10 DEF Abstract!Fail, Abstract!Failed
  <2> QED
    BY <1>4, <2>1 DEF Abstract!Next
<1> QED
  BY <1>9, <1>10

LEMMA RequestMaps ==
  ASSUME TypeOK, Tidy, NEW a \in Callers, Request(a)
  PROVE  [Abstract!Next]_Abstract!vars
<1>1. call \in [Callers -> CallState]
  BY NowTypes DEF World
<1>2. /\ call[a].to # None => call[a].at \in {"sent", "failed"}
      /\ call[a].at = "none" => ~call[a].served
      /\ call[a].served \in BOOLEAN
  BY <1>1, NowTypes DEF Tidy, CallsOf, CallState
<1>3. \A b \in Callers \ {a} : Stage(b)' = Stage(b) /\ call'[b].served = call[b].served
  BY <1>1 DEF Stage, Request, Plain, ReadId, Send, Serve, Answered, TimesOut, Through, Calls
<1>4. CASE Plain(a) \/ ReadId(a)
  <2>1. call'[a].at = "named" /\ call'[a].served = FALSE /\ call[a].at = "none"
    <3>1. CASE Plain(a)
      BY <1>1, <3>1 DEF Plain, Calls, NoCall
    <3>2. CASE ReadId(a)
      BY <1>1, <3>2 DEF ReadId, Calls, NoCall
    <3> QED
      BY <1>4, <3>1, <3>2
  <2>2. Abstract!Ask(a)
    BY <1>2, <1>3, <2>1 DEF Abstract!Ask, Abstract!Learn, Stage
  <2> QED
    BY <2>2 DEF Abstract!Next
<1>5. ASSUME call[a].at \in {"named", "sent"}, call'[a].at = "failed", call'[a].served = call[a].served
      PROVE  Abstract!Next
  <2>1. Abstract!Fail({a})
    BY <1>3, <1>5 DEF Abstract!Fail, Abstract!Failed, Stage
  <2> QED
    BY <2>1 DEF Abstract!Next
<1>6. ASSUME Stage(a)' = Stage(a), call'[a].served = call[a].served
      PROVE  UNCHANGED Abstract!vars
  BY <1>3, <1>6 DEF Abstract!vars
<1>7. CASE Send(a)
  <2>1. call[a].at = "named" /\ call'[a].served = call[a].served /\ call'[a].at \in {"failed", "sent"}
    BY <1>1, <1>7 DEF Send, Calls, CallState
  <2> QED
    BY <1>5, <1>6, <2>1 DEF Stage
<1>8. CASE Serve(a)
  <2>1. call[a].at \in {"sent", "failed"} /\ call[a].served = FALSE
    BY <1>2, <1>8 DEF Serve
  <2>2. CASE call' = [call EXCEPT ![a] = [NoCall EXCEPT !.at = "failed"]]
    <3>1. call'[a].at = "failed" /\ call'[a].served = call[a].served
      BY <1>1, <2>1, <2>2 DEF NoCall
    <3> QED
      BY <1>5, <1>6, <2>1, <3>1 DEF Stage
  <2>3. CASE call' = [call EXCEPT ![a] = [call[a] EXCEPT !.served = TRUE]]
    <3>1. call'[a].at = call[a].at /\ call'[a].served = TRUE
      BY <1>1, <2>3 DEF CallState
    <3>2. Abstract!CarryOut(a)
      BY <1>3, <2>1, <3>1 DEF Abstract!CarryOut, Stage
    <3> QED
      BY <3>2 DEF Abstract!Next
  <2> QED
    BY <1>8, <2>2, <2>3 DEF Serve, Calls
<1>9. CASE Answered(a)
  <2>1. call[a].at = "sent" /\ call[a].served = TRUE /\ call'[a].at = "ok" /\ call'[a].served = TRUE
    BY <1>1, <1>2, <1>9 DEF Answered, Calls, NoCall
  <2>2. Abstract!Succeed(a)
    BY <1>3, <2>1 DEF Abstract!Succeed, Abstract!Learn, Stage
  <2> QED
    BY <2>2 DEF Abstract!Next
<1>10. CASE TimesOut(a)
  <2>1. call[a].at = "sent" /\ call'[a].at = "failed" /\ call'[a].served = call[a].served
    BY <1>1, <1>10 DEF TimesOut, Calls, CallState
  <2> QED
    BY <1>5, <2>1
<1>11. CASE Through(a)
  <2>1. call'[a].at = "none" /\ call'[a].served = FALSE
    BY <1>1, <1>11 DEF Through, Calls, NoCall
  <2>2. Abstract!Forget(a, {})
    BY <1>3, <2>1 DEF Abstract!Forget, Abstract!Failed, Stage
  <2>3. \E X \in SUBSET Callers : \E c \in Callers : Abstract!Forget(c, X)
    BY <2>2
  <2> QED
    BY <2>3 DEF Abstract!Next
<1> QED
  BY <1>4, <1>7, <1>8, <1>9, <1>10, <1>11 DEF Request

\* Each request is carried out at most once, a success is reported only when it
\* was, whatever apps and daemons come and go meanwhile (request, request_ok,
\* the commands of daemon_commands.rs), for any number of callers.
THEOREM CallsKept == Spec => CallsKeepTheirPromise
<1>1. Init => Abstract!Init
  BY DEF Init, Abstract!Init, Stage, NoCall
<1>2. TypeOK /\ Tidy /\ [Next]_vars => [Abstract!Next]_Abstract!vars
  <2> SUFFICES ASSUME TypeOK, Tidy, [Next]_vars PROVE [Abstract!Next]_Abstract!vars
    OBVIOUS
  <2>1. CASE UNCHANGED call
    BY <2>1 DEF Abstract!vars, Stage
  <2>2. Now.call = call
    BY DEF Now
  <2>3. ASSUME NEW a \in Apps, End(a) \/ Crash(a)
        PROVE  Abstract!Next
    BY <2>3, VanishForgets DEF End, Crash
  <2>4. ASSUME NEW d \in Daemons, Bind(d) \/ Die(d)
        PROVE  Abstract!Next
    <3> DEFINE w == [Now EXCEPT !.daemon[d].at = "bound"]
    <3>1. w.call = call
      BY DEF Now
    <3>2. Kill({}, w) \/ Kill({d}, Now)
      BY <2>4 DEF Bind, Die
    <3> HIDE DEF w
    <3> QED
      BY <2>2, <3>1, <3>2, KillFails
  <2>5. ASSUME NEW a \in Apps, NEW socket, Reached(a, socket)
        PROVE  Abstract!Next
    <3> DEFINE v == [Now EXCEPT !.loop[a].at = "stopped"]
               w == [Now EXCEPT !.loop[a].at = "subscribe", !.loop[a].to = socket, !.loop[a].bin = 1]
    <3>1. v.call = call /\ w.call = call
      BY DEF Now
    <3>2. Kill(Daemons \cap {loop[a].child}, v) \/ Kill({}, w)
      BY <2>5 DEF Reached
    <3> HIDE DEF v, w
    <3> QED
      BY <3>1, <3>2, KillFails
  <2>6. ASSUME NEW a \in Apps, TakeChild(a) \/ GiveUp(a) \/ StreamEnds(a)
        PROVE  Abstract!Next
    <3>1. CASE TakeChild(a)
      <4> DEFINE w == [Now EXCEPT !.daemon = [d \in Daemons |-> IF d = loop[a].child
                                    THEN [daemon[d] EXCEPT !.by = None] ELSE daemon[d]]]
      <4>1. w.call = call
        BY DEF Now
      <4>2. Kill(Daemons \cap {conn[a].child}, w)
        BY <3>1 DEF TakeChild
      <4> HIDE DEF w
      <4> QED
        BY <4>1, <4>2, KillFails
    <3>2. CASE GiveUp(a)
      <4> DEFINE w == [Now EXCEPT !.loop[a].at = "spawn", !.loop[a].bin = @ + 1]
      <4>1. w.call = call
        BY DEF Now
      <4>2. Kill(Daemons \cap {loop[a].child}, w)
        BY <3>2 DEF GiveUp
      <4> HIDE DEF w
      <4> QED
        BY <4>1, <4>2, KillFails
    <3>3. CASE StreamEnds(a)
      <4> DEFINE w == [Now EXCEPT !.conn[a] = NotConnected, !.loop[a].at = "head"]
      <4>1. w.call = call
        BY DEF Now
      <4>2. Kill(Daemons \cap {conn[a].child}, w)
        BY <3>3 DEF StreamEnds
      <4> HIDE DEF w
      <4> QED
        BY <4>1, <4>2, KillFails
    <3> QED
      BY <2>6, <3>1, <3>2, <3>3
  <2>7. ASSUME NEW a \in Apps, Loop(a) \/ Exit(a) \/ Launch(a) \/ Crash(a)
        PROVE  UNCHANGED call \/ Abstract!Next
    BY <2>3, <2>5, <2>6, <2>7
    DEF links, Loop, Exit, Launch, MigrateIdentity, MigrateRosters, ProbeShared, ProbeOwn, Probe,
        Spawn, Up, Subscribe, SubscribeFails, BeginShutdown
  <2> QED
    BY <2>1, <2>4, <2>7, RequestMaps DEF Next, StartShared, vars, Daemons
<1> QED
  BY <1>1, <1>2, Invariant, PTL DEF CallsKeepTheirPromise, Abstract!Spec, Spec

-----------------------------------------------------------------------------
(* SettingsGossip: what is sent is well formed.                            *)

\* A set of stamps that is not empty has a greatest one.
LEMMA GreatestStamp ==
  ASSUME NEW S \in SUBSET (0 .. LastStamp), S # {}
  PROVE  Max(S) \in S
<1> DEFINE Behind == {k \in Nat : LastStamp - k \in S}
<1>1. LastStamp \in Nat
  BY GossipAssumption
<1>2. Behind # {}
  <2>1. PICK x \in S : x \in 0 .. LastStamp
    OBVIOUS
  <2>2. LastStamp - x \in Nat /\ LastStamp - (LastStamp - x) = x
    BY <1>1, <2>1
  <2>3. LastStamp - x \in Behind
    BY <2>1, <2>2
  <2> QED
    BY <2>3
<1>3. PICK k \in Behind : \A j \in Behind : ~ (<<j, k>> \in OpToRel(<, Nat))
  <2> HIDE DEF Behind
  <2>1. Behind \subseteq Nat
    BY DEF Behind
  <2> QED
    BY <1>2, <2>1, NatLessThanWellFounded, WFMin
<1>4. \A y \in S : LastStamp - k >= y
  <2>1. ASSUME NEW y \in S, LastStamp - k < y PROVE FALSE
    <3>1. y \in 0 .. LastStamp /\ k \in Nat
      OBVIOUS
    <3>2. LastStamp - y \in Nat /\ LastStamp - (LastStamp - y) = y /\ LastStamp - y < k
      BY <1>1, <2>1, <3>1
    <3>3. LastStamp - y \in Behind
      BY <3>2
    <3>4. <<LastStamp - y, k>> \in OpToRel(<, Nat)
      BY <3>1, <3>2 DEF OpToRel
    <3> QED
      BY <1>3, <3>3, <3>4
  <2>2. \A y \in S : y \in Nat /\ LastStamp - k \in Int
    BY <1>1
  <2> QED
    BY <2>1, <2>2
<1>5. LastStamp - k \in S
  OBVIOUS
<1> HIDE DEF Behind
<1> QED
  BY <1>4, <1>5 DEF Max

\* Who has sent what is on the way.
OnePerPair == \A f, g \in net : f.from = g.from /\ f.to = g.to => f = g

LEMMA SnapshotIsRecords ==
  ASSUME GossipTypeOK, NEW d \in Device
  PROVE  ActiveSlot(d) \in Records /\ Snapshot(d) \in Records
<1>1. slot[d] \in [Network -> Records] /\ cfg[d] \in Network
  BY DEF GossipTypeOK, Config
<1>2. ActiveSlot(d) \in Records
  BY <1>1 DEF ActiveSlot
<1>3. ASSUME NEW i \in Item PROVE Max({slot[d][n][i] : n \in Network}) \in 0 .. LastStamp
  <2>1. {slot[d][n][i] : n \in Network} \in SUBSET (0 .. LastStamp)
    BY <1>1 DEF Records
  <2>2. {slot[d][n][i] : n \in Network} # {}
    BY <1>1
  <2> QED
    BY <2>1, <2>2, GreatestStamp
<1>4. AllPrompts(d) \in Records
  BY <1>3 DEF AllPrompts, Records
<1> QED
  BY <1>2, <1>4 DEF Snapshot

LEMMA SendAllFrames ==
  ASSUME net \subseteq Frame, OnePerPair, NEW d \in Device, NEW records \in Records,
         mesh \in [Device -> Network], SendAll(d, records)
  PROVE  net' \subseteq Frame /\ OnePerPair'
<1> DEFINE Sent(e) == [from |-> d, to |-> e, network |-> mesh[d], records |-> records]
<1>1. \A e \in ActivePeers(d) : Sent(e) \in Frame /\ Sent(e).from = d /\ Sent(e).to = e
  BY DEF Frame, ActivePeers
<1>2. \A f \in net' : \/ f \in net /\ (f.from # d \/ f.to \notin ActivePeers(d))
                      \/ \E e \in ActivePeers(d) : f = Sent(e)
  BY DEF SendAll
<1> HIDE DEF Sent
<1>3. net' \subseteq Frame
  BY <1>1, <1>2
<1>4. ASSUME NEW f \in net', NEW g \in net', f.from = g.from, f.to = g.to
      PROVE  f = g
  <2>1. CASE f \in net /\ g \in net
    BY <1>4, <2>1 DEF OnePerPair
  <2>2. CASE \E e \in ActivePeers(d) : f = Sent(e)
    <3>1. PICK e \in ActivePeers(d) : f = Sent(e)
      BY <2>2
    <3>2. g.from = d /\ g.to = e
      BY <1>1, <1>4, <3>1
    <3>3. PICK h \in ActivePeers(d) : g = Sent(h)
      BY <1>2, <3>2
    <3> QED
      BY <1>1, <3>1, <3>2, <3>3
  <2>3. CASE \E e \in ActivePeers(d) : g = Sent(e)
    <3>1. PICK e \in ActivePeers(d) : g = Sent(e)
      BY <2>3
    <3>2. f.from = d /\ f.to = e
      BY <1>1, <1>4, <3>1
    <3>3. PICK h \in ActivePeers(d) : f = Sent(h)
      BY <1>2, <3>2
    <3> QED
      BY <1>1, <3>1, <3>2, <3>3
  <2> QED
    BY <1>2, <2>1, <2>2, <2>3
<1> QED
  BY <1>3, <1>4 DEF OnePerPair

\* saveConfig keeps the types of what it changes.
LEMMA SaveTypes ==
  ASSUME GossipTypeOK, NEW d \in Device, NEW config \in Config,
         NEW next \in {"nothing", "tell", "forget", "load"}, Save(d, config, next)
  PROVE  /\ slot' \in [Device -> Config] /\ cached' \subseteq Device
         /\ writes' \in [Device -> SUBSET WriteUnderWay]
<1> DEFINE w == [config |-> config, next |-> next]
<1>1. w \in WriteUnderWay
  BY DEF WriteUnderWay
<1> HIDE DEF w
<1>2. writes' \in {writes, [writes EXCEPT ![d] = @ \cup {w}]}
  BY DEF Save, w
<1>3. writes' \in [Device -> SUBSET WriteUnderWay]
  BY <1>1, <1>2 DEF GossipTypeOK
<1> QED
  BY <1>3 DEF Save, GossipTypeOK

\* A config with the records of one network replaced is a config.
LEMMA ConfigChanges ==
  ASSUME NEW config \in Config, NEW n, NEW records \in Records
  PROVE  [config EXCEPT ![n] = records] \in Config
  BY DEF Config

LEMMA TellFrames ==
  ASSUME GossipTypeOK, NEW d \in Device, Tell(d) \/ UNCHANGED net
  PROVE  net' \subseteq Frame /\ OnePerPair'
<1>1. net \subseteq Frame /\ OnePerPair /\ mesh \in [Device -> Network]
  BY DEF GossipTypeOK, OnePerPair
<1> QED
  BY <1>1, SnapshotIsRecords, SendAllFrames DEF Tell, OnePerPair

LEMMA MergeIsRecords ==
  ASSUME NEW local \in Records, NEW records \in Records
  PROVE  Merge(local, records) \in Records
  BY DEF Merge, Records

-----------------------------------------------------------------------------
(* SettingsGossip: the theorem.                                            *)

LEMMA InitGossip == GossipInit => GossipTypeOK
<1> SUFFICES ASSUME GossipInit PROVE GossipTypeOK
  OBVIOUS
<1>1. slot \in [Device -> Config] /\ file \in [Device -> Config]
  <2>1. [i \in Item |-> 0] \in Records
    BY GossipAssumption DEF Records
  <2> QED
    BY <2>1 DEF GossipInit, Config
<1>2. cfg \in [Device -> Network] /\ mesh \in [Device -> Network]
  BY NetworksAssumption DEF GossipInit
<1>3. peers \in [Device -> SUBSET Device] /\ gossiped \in [Device -> SUBSET Device]
  BY DEF GossipInit
<1>4. scene \in Scenes /\ cached \subseteq Device /\ untold = {} /\ up \subseteq Device
      /\ link = {} /\ net = {}
  BY DEF GossipInit
<1>5. /\ writes \in [Device -> SUBSET WriteUnderWay]
      /\ reading \in [Device -> [Loader -> Config \cup {NoConfig}]]
      /\ held \in [Device -> Config \cup {NoConfig}]
  BY DEF GossipInit
<1> QED
  BY <1>1, <1>2, <1>3, <1>4, <1>5 DEF GossipTypeOK

LEMMA PersonTypes ==
  ASSUME GossipTypeOK, Person
  PROVE  GossipTypeOK'
<1>1. ASSUME NEW d \in Device, NEW i \in Item, NEW s \in 0 .. LastStamp, Write(d, i, s)
      PROVE  GossipTypeOK'
  <2> DEFINE config == [slot[d] EXCEPT ![cfg[d]][i] = s]
  <2>1. config \in Config
    <3>1. slot[d] \in Config /\ cfg[d] \in Network
      BY DEF GossipTypeOK
    <3> QED
      BY <3>1 DEF Config, Records
  <2>2. Save(d, config, "tell")
    BY <1>1 DEF Write
  <2>3. UNCHANGED <<scene, file, reading, held, untold, cfg, clientVars, link, net>>
    BY <1>1 DEF Write
  <2> HIDE DEF config
  <2>4. /\ slot' \in [Device -> Config] /\ cached' \subseteq Device
        /\ writes' \in [Device -> SUBSET WriteUnderWay]
    BY <2>1, <2>2, SaveTypes
  <2> QED
    BY <2>3, <2>4 DEF GossipTypeOK, clientVars
<1>2. ASSUME NEW d \in Device, NEW i \in Item, NEW s \in Stamp, Edit(d, i, s)
      PROVE  GossipTypeOK'
  <2>1. s \in 0 .. LastStamp
    BY GossipAssumption DEF Stamp
  <2> QED
    BY <1>1, <1>2, <2>1 DEF Edit
<1>3. ASSUME NEW d \in Device, NEW i \in Item, Remove(d, i) PROVE GossipTypeOK'
  <2>1. 0 \in 0 .. LastStamp
    BY GossipAssumption
  <2> QED
    BY <1>1, <1>3, <2>1 DEF Remove
<1>4. ASSUME NEW d \in Device, NEW n \in Network, Switch(d, n) PROVE GossipTypeOK'
  BY <1>4 DEF Switch, GossipTypeOK, storeVars, clientVars
<1>5. ASSUME NEW d \in Device, SwitchProvider(d) PROVE GossipTypeOK'
  <2>1. held' \in [Device -> Config \cup {NoConfig}]
    BY <1>5 DEF SwitchProvider, GossipTypeOK
  <2> QED
    BY <1>5, <2>1 DEF SwitchProvider, GossipTypeOK, clientVars
<1> QED
  BY <1>2, <1>3, <1>4, <1>5 DEF Person

\* Writes, reads, late broadcasts and provider switches.
LEMMA StoreTypes ==
  ASSUME GossipTypeOK, NEW d \in Device
  PROVE  Store(d) \/ Fail(d) \/ (\E l \in Loader : StartRead(d, l)) => GossipTypeOK'
<1>1. ASSUME Land(d) PROVE GossipTypeOK'
  <2>1. PICK w \in writes[d] :
          /\ writes' = [writes EXCEPT ![d] = @ \ {w}]
          /\ file' \in {file, [file EXCEPT ![d] = w.config]}
          /\ cached' \in {cached, cached \ {d}} /\ untold' \in {untold, untold \cup {d}}
          /\ Tell(d) \/ UNCHANGED net
          /\ UNCHANGED <<scene, slot, reading, held, cfg, clientVars, link>>
    BY <1>1 DEF Land
  <2>2. w.config \in Config
    BY DEF GossipTypeOK, WriteUnderWay
  <2>3. /\ writes' \in [Device -> SUBSET WriteUnderWay] /\ file' \in [Device -> Config]
        /\ cached' \subseteq Device /\ untold' \subseteq Device
    <3>1. writes' \in [Device -> SUBSET WriteUnderWay]
      BY <2>1 DEF GossipTypeOK
    <3>2. file' \in [Device -> Config]
      <4>1. PICK config \in Config : config = w.config
        BY <2>2
      <4>2. file' \in {file, [file EXCEPT ![d] = config]} /\ file \in [Device -> Config]
        BY <2>1, <4>1 DEF GossipTypeOK
      <4> QED
        BY <4>2
    <3>3. cached' \subseteq Device /\ untold' \subseteq Device
      BY <2>1 DEF GossipTypeOK
    <3> QED
      BY <3>1, <3>2, <3>3
  <2>4. net' \subseteq Frame /\ OnePerPair'
    BY <2>1, TellFrames
  <2> QED
    BY <2>1, <2>3, <2>4 DEF GossipTypeOK, OnePerPair, clientVars
<1>2. ASSUME Fail(d) PROVE GossipTypeOK'
  <2>1. writes' \in [Device -> SUBSET WriteUnderWay]
    BY <1>2 DEF Fail, GossipTypeOK
  <2> QED
    BY <1>2, <2>1 DEF Fail, GossipTypeOK, clientVars
<1>3. ASSUME NEW l \in Loader, NEW found \in Config \cup {NoConfig},
             reading' = [reading EXCEPT ![d][l] = found]
      PROVE  reading' \in [Device -> [Loader -> Config \cup {NoConfig}]]
  BY <1>3 DEF GossipTypeOK
<1>4. ASSUME NEW l \in Loader, StartRead(d, l) PROVE GossipTypeOK'
  <2>1. file[d] \in Config \cup {NoConfig}
    BY DEF GossipTypeOK
  <2>2. reading' \in [Device -> [Loader -> Config \cup {NoConfig}]]
    BY <1>3, <1>4, <2>1 DEF StartRead
  <2> QED
    BY <1>4, <2>2 DEF StartRead, GossipTypeOK, clientVars
<1>5. ASSUME NEW l \in Loader, FinishRead(d, l) PROVE GossipTypeOK'
  <2>1. reading[d][l] \in Config
    BY <1>5 DEF FinishRead, GossipTypeOK
  <2>2. Save(d, reading[d][l], "load")
    BY <1>5 DEF FinishRead
  <2>3. /\ slot' \in [Device -> Config] /\ cached' \subseteq Device
        /\ writes' \in [Device -> SUBSET WriteUnderWay]
    BY <2>1, <2>2, SaveTypes
  <2>4. reading' \in [Device -> [Loader -> Config \cup {NoConfig}]]
    BY <1>3, <1>5 DEF FinishRead
  <2> QED
    BY <1>5, <2>3, <2>4 DEF FinishRead, GossipTypeOK, clientVars
<1>6. ASSUME TellLate(d) PROVE GossipTypeOK'
  <2>1. net' \subseteq Frame /\ OnePerPair'
    BY <1>6, TellFrames DEF TellLate
  <2> QED
    BY <1>6, <2>1 DEF TellLate, GossipTypeOK, OnePerPair, clientVars
<1>7. ASSUME ProviderSaved(d) PROVE GossipTypeOK'
  <2>1. held[d] \in Config
    BY <1>7 DEF ProviderSaved, GossipTypeOK
  <2>2. Save(d, held[d], "forget")
    BY <1>7 DEF ProviderSaved
  <2>3. /\ slot' \in [Device -> Config] /\ cached' \subseteq Device
        /\ writes' \in [Device -> SUBSET WriteUnderWay]
    BY <2>1, <2>2, SaveTypes
  <2>4. held' \in [Device -> Config \cup {NoConfig}]
    BY <1>7 DEF ProviderSaved, GossipTypeOK
  <2> QED
    BY <1>7, <2>3, <2>4 DEF ProviderSaved, GossipTypeOK, clientVars
<1> QED
  BY <1>1, <1>2, <1>4, <1>5, <1>6, <1>7 DEF Store

LEMMA MeshTypes ==
  ASSUME GossipTypeOK, NEW d \in Device, NEW e \in Device,
         Client(d) \/ Publish(d) \/ Deliver(d, e) \/ Connect(d, e)
  PROVE  GossipTypeOK'
<1>1. /\ net \subseteq Frame /\ OnePerPair /\ mesh \in [Device -> Network]
      /\ ActivePeers(d) \in SUBSET Device
  BY DEF GossipTypeOK, OnePerPair, ActivePeers
<1>2. ASSUME SendAll(d, Snapshot(d)) \/ UNCHANGED net PROVE net' \subseteq Frame /\ OnePerPair'
  BY <1>1, <1>2, SnapshotIsRecords, SendAllFrames DEF OnePerPair
<1>3. CASE Restart(d)
  BY <1>3 DEF Restart, GossipTypeOK, storeVars
<1>4. CASE Start(d)
  BY <1>1, <1>4 DEF Start, GossipTypeOK, storeVars
<1>5. CASE Reconcile(d)
  <2>1. net' \subseteq Frame /\ OnePerPair'
    BY <1>2, <1>5 DEF Reconcile
  <2>2. /\ peers' = [peers EXCEPT ![d] = ActivePeers(d)]
        /\ gossiped' \in {gossiped, [gossiped EXCEPT ![d] = ActivePeers(d)]}
        /\ UNCHANGED <<scene, storeVars, cfg, mesh, up, link>>
    BY <1>5 DEF Reconcile
  <2>3. peers' \in [Device -> SUBSET Device] /\ gossiped' \in [Device -> SUBSET Device]
    BY <1>1, <2>2 DEF GossipTypeOK
  <2> QED
    BY <2>1, <2>2, <2>3 DEF GossipTypeOK, OnePerPair, storeVars
<1>6. CASE Publish(d)
  <2>1. net' \subseteq Frame /\ OnePerPair'
    BY <1>2, <1>6 DEF Publish
  <2> QED
    BY <1>6, <2>1 DEF Publish, GossipTypeOK, OnePerPair, storeVars, clientVars
<1>7. CASE Deliver(d, e)
  <2> DEFINE merged(f) == [slot[e] EXCEPT ![mesh[e]] = Merge(@, f.records)]
  <2>1. PICK f \in net :
          /\ net' = net \ {f}
          /\ Save(e, merged(f), "nothing") \/ UNCHANGED <<slot, cached, writes>>
          /\ UNCHANGED <<scene, file, reading, held, untold, cfg, clientVars, link>>
    BY <1>7 DEF Deliver
  <2>2. slot[e] \in Config /\ slot[e][mesh[e]] \in Records /\ f.records \in Records
    BY DEF GossipTypeOK, Config, Frame
  <2>3. Merge(slot[e][mesh[e]], f.records) \in Records
    BY <2>2, MergeIsRecords
  <2>4. merged(f) \in Config
    BY <2>2, <2>3 DEF Config
  <2> HIDE DEF merged
  <2>5. /\ slot' \in [Device -> Config] /\ cached' \subseteq Device
        /\ writes' \in [Device -> SUBSET WriteUnderWay]
    BY <2>1, <2>4, SaveTypes DEF GossipTypeOK
  <2> QED
    BY <2>1, <2>5 DEF GossipTypeOK, clientVars
<1>8. CASE Connect(d, e)
  BY <1>8 DEF Connect, GossipTypeOK, storeVars, clientVars
<1> QED
  BY <1>3, <1>4, <1>5, <1>6, <1>7, <1>8 DEF Client

\* The configs in memory, in the file, being read, written and held, the
\* snapshots on their way and the clients' views stay well typed, and a device
\* has one frame at most under way to another.
THEOREM GossipTypeCorrect == GossipSpec => []GossipTypeOK
<1>1. ASSUME GossipTypeOK, [GossipNext]_gossipVars PROVE GossipTypeOK'
  <2>1. CASE UNCHANGED gossipVars
    BY <1>1, <2>1 DEF gossipVars, GossipTypeOK
  <2> QED
    BY <1>1, <2>1, PersonTypes, MeshTypes, StoreTypes DEF GossipNext, Connection
<1> QED
  BY <1>1, InitGossip, PTL DEF GossipSpec

=============================================================================
