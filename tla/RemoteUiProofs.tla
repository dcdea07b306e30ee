--------------------------- MODULE RemoteUiProofs ---------------------------
(***************************************************************************)
(* Proofs about the two services of the desktop program.                   *)
(*                                                                         *)
(* RemoteUi, for any number of browsers, commands, ports, setters and      *)
(* conversations: what the server's switch and the pointer's file promise. *)
(* That the curtain follows the browsers is liveness and stays with TLC.   *)
(*                                                                         *)
(* OllamaServing, for any number of pulls, preloads, chats, clients and    *)
(* children: no child is lost but by its launcher, and the progress row is *)
(* true.  A step moves one caller (Advances), changes the children, or is  *)
(* a client's; ServingInv is split into the parts that these disturb.      *)
(***************************************************************************)
EXTENDS RemoteUi, OllamaServing, TLAPS

-----------------------------------------------------------------------------
(* Types.                                                                  *)

LEMMA InitTypes == Init => TypeOK
<1> SUFFICES ASSUME Init PROVE TypeOK
  OBVIOUS
<1>1. /\ cast \in Casts /\ session \in [Sessions -> {None, "live", "old"}]
      /\ kicked \in BOOLEAN /\ active \in BOOLEAN /\ curtain \in BOOLEAN
      /\ refresh \in [Refreshers -> {"idle", "due", "remote", "alone"}]
      /\ overlapped \in BOOLEAN /\ unsaved \in BOOLEAN /\ slot \in Commands \cup {None}
      /\ serving \in [Commands -> Ports \cup {None}]
      /\ \A c, d \in Commands : serving[c] = serving[d] => c = d \/ serving[c] = None
  BY DEF Init
<1>2. enabled \in BOOLEAN
  BY DEF Init
<1>3. command \in [Commands -> [at : {"new", "start", "replace", "bind", "store", "stop", "done"},
                                port : Ports \cup {None}]]
  BY DEF Init
<1>4. pointer \in Conversations \cup {None} /\ file \in Conversations \cup {None}
  BY DEF Init
<1>5. setter \in [Setters -> [at : {"idle", "set", "write"}, value : Conversations \cup {None},
                              left : 0 .. MaxSets]]
  BY BoundsAssumption DEF Init
<1>6. \A a \in Setters : setter[a].at # "write"
  BY DEF Init
<1>7. kicks \in 0 .. MaxKicks
  BY BoundsAssumption DEF Init
<1> QED
  BY <1>1, <1>2, <1>3, <1>4, <1>5, <1>6, <1>7 DEF TypeOK

TrackerStep ==
  \/ Heartbeat \/ HoldoffEnds \/ Status \/ Bridge \/ Kick
  \/ \E b \in Browsers : Touch(b)
  \/ \E s \in Sessions : Expire(s)
  \/ \E a \in Refreshers : Sweep(a) \/ Send(a)

\* The steps of the sessions and of the curtain leave the server and the
\* pointer alone.
LEMMA TrackerTypes ==
  ASSUME TypeOK, TrackerStep
  PROVE  TypeOK' /\ UNCHANGED <<switch, conversation>>
<1>1. UNCHANGED <<cast, switch, conversation>>
  BY DEF TrackerStep, Heartbeat, HoldoffEnds, Status, Bridge, Kick, Touch, Expire, Sweep, Send,
         switch, conversation
<1>2. session' \in [Sessions -> {None, "live", "old"}]
  <2>1. /\ Swept \in [Sessions -> {None, "live", "old"}]
        /\ WithoutBrowsers \in [Sessions -> {None, "live", "old"}]
        /\ \A s \in Sessions, to \in {"live", "old"} :
             [session EXCEPT ![s] = to] \in [Sessions -> {None, "live", "old"}]
    BY DEF TypeOK, Swept, WithoutBrowsers
  <2>2. \/ session' \in {session, Swept, WithoutBrowsers}
        \/ \E s \in Sessions, to \in {"live", "old"} : session' = [session EXCEPT ![s] = to]
    BY DEF TrackerStep, Heartbeat, HoldoffEnds, Status, Bridge, Kick, Touch, Expire, Sweep, Send,
           Sessions
  <2> QED
    BY <2>1, <2>2 DEF TypeOK
<1>3. refresh' \in [Refreshers -> {"idle", "due", "remote", "alone"}]
  BY DEF TypeOK, TrackerStep, Heartbeat, HoldoffEnds, Status, Bridge, Kick, Touch, Expire, Sweep,
         Send, Due, Sessions, Refreshers
<1>4. kicked' \in BOOLEAN /\ active' \in BOOLEAN /\ curtain' \in BOOLEAN
  BY DEF TypeOK, TrackerStep, Heartbeat, HoldoffEnds, Status, Bridge, Kick, Touch, Expire, Sweep,
         Send
<1>5. kicks' \in 0 .. MaxKicks
  BY BoundsAssumption
  DEF TypeOK, TrackerStep, Heartbeat, HoldoffEnds, Status, Bridge, Kick, Touch, Expire, Sweep, Send
<1> QED
  BY <1>1, <1>2, <1>5, <1>3, <1>4 DEF TypeOK, switch, conversation

LEMMA CommandTypes ==
  ASSUME TypeOK, NEW c \in Commands, Command(c)
  PROVE  TypeOK' /\ UNCHANGED conversation
<1> USE NoneAssumption
<1>1. UNCHANGED <<cast, kicked, active, curtain, kicks, conversation>>
  BY DEF Command, Begin, Start, Take, Bind, Store, tracker
<1>2. /\ session' \in [Sessions -> {None, "live", "old"}]
      /\ refresh' \in [Refreshers -> {"idle", "due", "remote", "alone"}]
  BY DEF TypeOK, Command, Begin, Start, Take, Bind, Store, tracker, WithoutBrowsers, Due, Sessions,
         Refreshers
<1>3. /\ enabled' \in BOOLEAN /\ overlapped' \in BOOLEAN /\ slot' \in Commands \cup {None}
      /\ serving' \in [Commands -> Ports \cup {None}]
  BY DEF TypeOK, Command, Begin, Start, Take, Bind, Store, Running
<1>4. command' \in [Commands -> [at : {"new", "start", "replace", "bind", "store", "stop", "done"},
                                 port : Ports \cup {None}]]
  <2>1. command \in [Commands -> [at : {"new", "start", "replace", "bind", "store", "stop", "done"},
                                  port : Ports \cup {None}]]
    BY DEF TypeOK
  <2>2. CASE Begin(c)
    BY <2>1, <2>2 DEF Begin
  <2>3. CASE Start(c) \/ Take(c) \/ Bind(c) \/ Store(c)
    BY <2>1, <2>3 DEF Start, Take, Bind, Store, Step
  <2> QED
    BY <2>2, <2>3 DEF Command
<1>5. \A d, e \in Commands : serving'[d] = serving'[e] => d = e \/ serving'[d] = None
  BY DEF TypeOK, Command, Begin, Start, Take, Bind, Store
<1> QED
  BY <1>1, <1>2, <1>3, <1>4, <1>5 DEF TypeOK, conversation

SetterStep == \E a \in Setters : SetActive(a) \/ Borrow(a) \/ Persist(a)

LEMMA SetterTypes ==
  ASSUME TypeOK, SetterStep
  PROVE  TypeOK' /\ UNCHANGED switch
<1>1. PICK a \in Setters : SetActive(a) \/ Borrow(a) \/ Persist(a)
  BY DEF SetterStep
<1>2. UNCHANGED <<cast, tracker, switch>>
  BY <1>1 DEF SetActive, Borrow, Persist
<1>3. pointer' \in Conversations \cup {None} /\ file' \in Conversations \cup {None} /\ unsaved' \in BOOLEAN
  BY <1>1 DEF TypeOK, SetActive, Borrow, Persist
<1>4. setter' \in [Setters -> [at : {"idle", "set", "write"}, value : Conversations \cup {None},
                               left : 0 .. MaxSets]]
  <2>1. CASE SetActive(a)
    <3>1. setter[a].left - 1 \in 0 .. MaxSets
      BY <2>1, BoundsAssumption DEF TypeOK, SetActive
    <3> QED
      BY <2>1, <3>1 DEF TypeOK, SetActive
  <2>2. CASE Borrow(a)
    BY <2>2 DEF TypeOK, Borrow
  <2>3. CASE Persist(a)
    BY <2>3 DEF TypeOK, Persist
  <2> QED
    BY <1>1, <2>1, <2>2, <2>3
<1>5. \A b \in Setters : setter'[b].at = "write" => setter'[b].value = pointer'
  BY <1>1 DEF TypeOK, SetActive, Borrow, Persist, Persisting
<1> QED
  BY <1>2, <1>3, <1>5, <1>4 DEF TypeOK, tracker, switch

\* A step is one of the tracker's, of a command or of a setter.
LEMMA Steps ==
  ASSUME Next
  PROVE  TrackerStep \/ SetterStep \/ \E c \in Commands : Command(c)
  BY DEF Next, TrackerStep, SetterStep

\* Every behaviour keeps the types, no port is bound twice, and what a setter
\* writes to the file is what the watch channel holds (remote_ui.rs, the
\* borrow that outlives the write).
THEOREM TypeCorrect == Spec => []TypeOK
<1>1. TypeOK /\ [Next]_vars => TypeOK'
  <2> SUFFICES ASSUME TypeOK, [Next]_vars PROVE TypeOK'
    OBVIOUS
  <2>1. CASE Next
    BY <2>1, Steps, TrackerTypes, CommandTypes, SetterTypes
  <2>2. CASE UNCHANGED vars
    BY <2>2 DEF vars, tracker, switch, conversation, TypeOK
  <2> QED
    BY <2>1, <2>2
<1> QED
  BY InitTypes, <1>1, PTL DEF Spec

-----------------------------------------------------------------------------
(* The server's switch.                                                    *)

\* A command is at work between its beginning and its end.
Working(c) == command[c].at \notin {"new", "done"}

\* Commands that do not overlap work one at a time.  What serves is in the
\* slot or about to be stored; a command that binds has emptied the slot; the
\* configuration is written before the server follows.
ServerInv ==
  ~overlapped =>
    /\ \A c, d \in Commands : Working(c) /\ Working(d) => c = d
    /\ \A c \in Commands : serving[c] # None => slot = c \/ command[c].at = "store"
    /\ \A c \in Commands : command[c].at \in {"bind", "store"} => slot = None
    /\ \A c \in Commands : command[c].at \in {"start", "replace", "bind", "store"} => enabled
    /\ ~enabled => \/ \A c \in Commands : serving[c] = None
                   \/ \E c \in Commands : command[c].at = "stop"

LEMMA ServerOff == ServerInv => OffMeansOff
  BY DEF ServerInv, OffMeansOff, Working, Running

LEMMA InitServer == Init => ServerInv
  BY DEF Init, ServerInv, Working

LEMMA CommandServer ==
  ASSUME TypeOK, ServerInv, NEW c \in Commands, Command(c)
  PROVE  ServerInv'
<1> SUFFICES ASSUME ~overlapped' PROVE ServerInv'
  BY DEF ServerInv
<1> USE NoneAssumption DEF TypeOK, Working
<1>1. ~overlapped
  BY DEF Command, Begin, Start, Take, Bind, Store
<1>2. CASE Begin(c)
  <2>1. /\ UNCHANGED <<slot, serving>> /\ ~Working(c)
        /\ \A d \in Commands \ {c} : ~Working(d)
    BY <1>2 DEF Begin, Running
  <2>2. PICK p \in Ports \cup {None} :
          /\ enabled' = (p # None)
          /\ command' = [command EXCEPT ![c] = [at |-> IF p = None THEN "stop" ELSE "start",
                                                port |-> p]]
    BY <1>2 DEF Begin
  <2>3. /\ UNCHANGED <<slot, serving>> /\ ~Working(c)
        /\ \A d \in Commands \ {c} : ~Working(d) /\ command'[d] = command[d]
        /\ \/ enabled' /\ command'[c].at = "start"
           \/ ~enabled' /\ command'[c].at = "stop"
    BY <2>1, <2>2
  <2>4. \A d \in Commands : serving[d] # None => slot = d
    BY <2>3, <1>1 DEF ServerInv
  <2> QED
    BY <2>3, <2>4 DEF ServerInv
<1>3. CASE Start(c)
  BY <1>1, <1>3 DEF ServerInv, Start, Step
<1>4. CASE Take(c)
  BY <1>1, <1>4 DEF ServerInv, Take, Step
<1>5. CASE Bind(c)
  <2>1. /\ UNCHANGED <<slot, enabled>> /\ slot = None /\ enabled /\ command[c].at = "bind"
        /\ \A d \in Commands \ {c} : /\ ~Working(d) /\ command'[d] = command[d]
                                     /\ serving'[d] = serving[d]
    BY <1>1, <1>5 DEF ServerInv, Bind, Step
  <2>2. \/ command'[c].at = "store"
        \/ command'[c].at = "done" /\ UNCHANGED serving
    BY <1>5 DEF Bind, Step
  <2>3. \A d \in Commands : serving[d] = None
    BY <2>1, <1>1 DEF ServerInv
  <2> QED
    BY <2>1, <2>2, <2>3 DEF ServerInv
<1>6. CASE Store(c)
  <2>1. /\ UNCHANGED <<serving, enabled>> /\ slot' = c /\ command[c].at = "store"
        /\ command'[c].at = "done" /\ \A d \in Commands \ {c} : command'[d] = command[d]
    BY <1>6 DEF Store, Step
  <2>2. /\ \A d \in Commands \ {c} : ~Working(d) /\ serving[d] = None
        /\ enabled
    BY <1>1, <2>1 DEF ServerInv
  <2> QED
    BY <1>1, <2>1, <2>2 DEF ServerInv
<1> QED
  BY <1>2, <1>3, <1>4, <1>5, <1>6 DEF Command

\* What does not touch the server keeps what holds of it.
LEMMA ServerStable == ServerInv /\ UNCHANGED switch => ServerInv'
  BY DEF ServerInv, Working, switch

\* After a switch off nothing listens, and the slot always knows the run that
\* has to be cancelled, when commands do not overlap (remote_ui::start and
\* stop, remote_ui_set_enabled).
THEOREM SwitchedOff == Spec => []OffMeansOff
<1>1. TypeOK /\ ServerInv /\ [Next]_vars => ServerInv'
  <2> SUFFICES ASSUME TypeOK, ServerInv, [Next]_vars PROVE ServerInv'
    OBVIOUS
  <2>1. CASE Next
    BY <2>1, Steps, TrackerTypes, SetterTypes, CommandServer, ServerStable
  <2>2. CASE UNCHANGED vars
    BY <2>2, ServerStable DEF vars
  <2> QED
    BY <2>1, <2>2
<1> QED
  BY InitServer, ServerOff, <1>1, TypeCorrect, PTL DEF Spec

-----------------------------------------------------------------------------
(* The open conversation.                                                  *)

\* A file that is behind has a setter that will write it, or one that failed to.
PointerInv == file = pointer \/ unsaved \/ \E a \in Setters : setter[a].at # "idle"

LEMMA SetterPointer == TypeOK /\ PointerInv /\ SetterStep => PointerInv'
<1> SUFFICES ASSUME TypeOK, PointerInv, NEW a \in Setters,
                    SetActive(a) \/ Borrow(a) \/ Persist(a)
             PROVE  PointerInv'
  BY DEF SetterStep
<1> USE DEF TypeOK, PointerInv
<1>1. CASE SetActive(a)
  BY <1>1 DEF SetActive
<1>2. CASE Borrow(a)
  BY <1>2 DEF Borrow
<1>3. CASE Persist(a)
  BY <1>3 DEF Persist
<1> QED
  BY <1>1, <1>2, <1>3

LEMMA PointerStable == PointerInv /\ UNCHANGED conversation => PointerInv'
  BY DEF PointerInv, conversation

\* When no setter is under way and the last write of
\* persist_active_conversation did not fail, the file has the conversation that
\* the program shows, however the setters interleaved (set_active and its borrow)
\* and whichever earlier writes failed.
THEOREM PointerSaved == Spec => []PointerPersisted
<1>1. Init => PointerInv
  BY DEF Init, PointerInv
<1>2. TypeOK /\ PointerInv /\ [Next]_vars => PointerInv'
  <2> SUFFICES ASSUME TypeOK, PointerInv, [Next]_vars PROVE PointerInv'
    OBVIOUS
  <2>1. CASE Next
    BY <2>1, Steps, TrackerTypes, CommandTypes, SetterPointer, PointerStable
  <2>2. CASE UNCHANGED vars
    BY <2>2, PointerStable DEF vars
  <2> QED
    BY <2>1, <2>2
<1>3. PointerInv => PointerPersisted
  BY DEF PointerInv, PointerPersisted, SettersIdle
<1> QED
  BY <1>1, <1>2, <1>3, TypeCorrect, PTL DEF Spec

-----------------------------------------------------------------------------
(* OllamaServing: the invariant.                                           *)

CallerStages == {"new", "idle", "queued", "has", "check", "lock", "wait", "direct", "stream",
                 "linger"}
AtWork == {"has", "check", "lock", "wait", "direct", "stream"}
RequestState == [at : {"ask", "create", "reread", "waiting", "served", "refused"},
                 on : Pulls \cup {NoPull}]

\* While a child is being waited for it is in the guard; afterwards the guard
\* holds one that is starting only if its launcher left it behind.
GuardInv ==
  /\ lock # NoCaller => guard # NoServer
  /\ lock = NoCaller /\ guard # NoServer =>
       (server[guard] = "starting" => guard \in abandoned)

\* A notifier is that of a caller whose stream is open, a pull at work has not
\* said `done`, and only pulls linger, only preloads queue.
NotifierInv ==
  \A k \in Keys : notifier[k] # NoCaller =>
    notifier[k] \in Callers /\ caller[notifier[k]] = "stream" /\ Key(notifier[k]) = k
PullingInv == \A p \in Pulls : p \in pulling <=> caller[p] \in AtWork
PlacesInv ==
  \A c \in Callers : /\ caller[c] = "new" => c \notin Pulls
                     /\ caller[c] = "queued" => c \in Preloads
                     /\ caller[c] = "linger" => c \in Pulls

ServingInv ==
  /\ ServingTypeOK
  /\ GuardInv /\ NoServerLost
  /\ NotifierInv /\ PullingInv /\ PlacesInv
  /\ RowIsBacked

\* The parts that each kind of step is about.
ChildPart ==
  /\ server \in [Servers \cup {Tray} -> {"gone", "starting", "up"}]
  /\ wrapped \subseteq Servers /\ abandoned \subseteq Servers
  /\ guard \in Servers \cup {NoServer}
  /\ \A s, t \in Servers \cup {Tray} : server[s] = "up" /\ server[t] = "up" => s = t
  /\ GuardInv /\ NoServerLost
CallerPart ==
  /\ lock \in Callers \cup {NoCaller}
  /\ caller \in [Callers -> CallerStages]
  /\ notifier \in [Keys -> Callers \cup {NoCaller}]
  /\ pulling \subseteq Pulls
  /\ preloading \in Preloads \cup {NoCaller}
  /\ \A c \in Callers : lock = c <=> caller[c] \in Waits
  /\ \A w \in Preloads : caller[w] \in {"new", "idle", "queued"} \/ preloading = w
  /\ NotifierInv /\ PullingInv /\ PlacesInv
ApiPart ==
  /\ entry \in Pulls \cup {NoPull}
  /\ request \in [Requests -> RequestState]
  /\ loading \subseteq Requests
  /\ row \in {"downloading", "loading", "quiet"}
  /\ RowIsBacked
RestPart ==
  /\ scene \in Scenes /\ prefix \in BOOLEAN /\ has \in BOOLEAN
  /\ trouble \in 0 .. MaxTrouble[scene]

LEMMA ServingParts == ServingInv <=> ChildPart /\ CallerPart /\ ApiPart /\ RestPart
  BY DEF ServingInv, ServingTypeOK, ChildPart, CallerPart, ApiPart, RestPart, CallerStages,
         RequestState, Waits

LEMMA ServingPartsAfter ==
  ChildPart' /\ CallerPart' /\ ApiPart' /\ RestPart' => ServingInv'
  BY DEF ServingInv, ServingTypeOK, ChildPart, CallerPart, ApiPart, RestPart, CallerStages,
         RequestState, Waits

LEMMA InitServing == ServingInit => ServingInv
<1> SUFFICES ASSUME ServingInit PROVE ServingInv
  OBVIOUS
<1>1. ChildPart
  BY ServersAssumption DEF ServingInit, ChildPart, GuardInv, NoServerLost
<1>2. CallerPart
  <2>1. \A c \in Callers : /\ caller[c] \in {"new", "idle"} /\ c # NoCaller
                           /\ c \in Pulls => caller[c] = "idle"
    BY ServingAssumption, ActorsAssumption DEF ServingInit, Callers
  <2>2. caller \in [Callers -> CallerStages]
    BY DEF ServingInit, CallerStages
  <2> QED
    BY <2>1, <2>2 DEF ServingInit, CallerPart, NotifierInv, PullingInv, PlacesInv, Waits, AtWork,
                      Callers, Keys
<1>3. ApiPart
  BY DEF ServingInit, ApiPart, RequestState, RowIsBacked
<1>4. RestPart
  <2>1. scene \in Scenes /\ MaxTrouble[scene] \in Nat
    BY ServingAssumption DEF ServingInit
  <2>2. trouble \in 0 .. MaxTrouble[scene]
    BY <2>1 DEF ServingInit
  <2> QED
    BY <2>1, <2>2 DEF ServingInit, RestPart
<1> QED
  BY <1>1, <1>2, <1>3, <1>4, ServingParts

-----------------------------------------------------------------------------
(* OllamaServing: a caller moves.                                          *)

LEMMA KeyFacts ==
  ASSUME NEW c \in Callers
  PROVE  Key(c) \in Keys /\ c # NoCaller
  BY ActorsAssumption DEF Key, Keys, Callers, Pullers

\* c goes to the stage `at`: what becomes of the mutex, of the lock of the
\* preloads, of the notifiers and of what pulls have said.
Advances(c, at) ==
  /\ at \in CallerStages \ {"new"} /\ Move(c, at)
  /\ at = "queued" => c \in Preloads
  /\ at = "linger" => c \in Pulls
  /\ \/ at \notin Waits /\ caller[c] \notin Waits /\ lock' = lock
     \/ at \notin Waits /\ caller[c] \in Waits /\ lock' = NoCaller
     \/ at \in Waits /\ lock \in {c, NoCaller} /\ lock' = c
  /\ preloading' \in Preloads \cup {NoCaller}
  /\ preloading' = preloading \/ preloading \in {c, NoCaller}
  /\ c \in Preloads => at \in {"idle", "queued"} \/ preloading' = c
  /\ \/ at = "stream" /\ notifier' = [notifier EXCEPT ![Key(c)] = c]
     \/ at # "stream" /\ notifier' = [notifier EXCEPT ![Key(c)] = NoCaller]
     \/ at # "stream" /\ caller[c] # "stream" /\ notifier' = notifier
  /\ pulling' \subseteq Pulls
  /\ \A p \in Pulls \ {c} : p \in pulling' <=> p \in pulling
  /\ c \in Pulls => (c \in pulling' <=> at \in AtWork)

LEMMA CallerMoves ==
  ASSUME CallerPart, NEW c \in Callers, NEW at, Advances(c, at)
  PROVE  CallerPart'
<1>1. /\ caller' = [caller EXCEPT ![c] = at] /\ at \in CallerStages
      /\ caller \in [Callers -> CallerStages]
  BY DEF Advances, Move, CallerPart
<1>2. /\ caller' \in [Callers -> CallerStages] /\ caller'[c] = at
      /\ \A d \in Callers \ {c} : caller'[d] = caller[d]
  BY <1>1
<1>3. lock' \in Callers \cup {NoCaller} /\ \A d \in Callers : lock' = d <=> caller'[d] \in Waits
  <2>1. \A d \in Callers : (lock = d <=> caller[d] \in Waits) /\ d # NoCaller
    BY KeyFacts DEF CallerPart
  <2>2. lock \in Callers \cup {NoCaller}
    BY DEF CallerPart
  <2>3. CASE at \notin Waits /\ caller[c] \notin Waits /\ lock' = lock
    BY <1>2, <2>1, <2>2, <2>3
  <2>4. CASE at \notin Waits /\ caller[c] \in Waits /\ lock' = NoCaller
    BY <1>2, <2>1, <2>4
  <2>5. CASE at \in Waits /\ lock \in {c, NoCaller} /\ lock' = c
    BY <1>2, <2>1, <2>5
  <2> QED
    BY <2>3, <2>4, <2>5 DEF Advances
<1>4. /\ preloading' \in Preloads \cup {NoCaller}
      /\ \A w \in Preloads : caller'[w] \in {"new", "idle", "queued"} \/ preloading' = w
  <2>1. \A w \in Preloads : w \in Callers /\ w # NoCaller
    BY ActorsAssumption DEF Callers
  <2> QED
    BY <1>2, <2>1 DEF Advances, CallerPart
<1>5. notifier' \in [Keys -> Callers \cup {NoCaller}] /\ NotifierInv'
  <2>1. /\ notifier \in [Keys -> Callers \cup {NoCaller}]
        /\ \A k \in Keys : notifier[k] # NoCaller =>
             notifier[k] \in Callers /\ caller[notifier[k]] = "stream" /\ Key(notifier[k]) = k
    BY DEF CallerPart, NotifierInv
  <2>2. Key(c) \in Keys /\ c # NoCaller
    BY KeyFacts
  <2>3. notifier' \in [Keys -> Callers \cup {NoCaller}]
    BY <2>1, <2>2 DEF Advances
  <2>4. ASSUME NEW k \in Keys, notifier'[k] # NoCaller
        PROVE  notifier'[k] \in Callers /\ caller'[notifier'[k]] = "stream" /\ Key(notifier'[k]) = k
    <3>1. CASE at = "stream" /\ notifier' = [notifier EXCEPT ![Key(c)] = c]
      BY <1>2, <2>1, <2>2, <2>4, <3>1
    <3>2. CASE at # "stream" /\ notifier' = [notifier EXCEPT ![Key(c)] = NoCaller]
      BY <1>2, <2>1, <2>2, <2>4, <3>2
    <3>3. CASE at # "stream" /\ caller[c] # "stream" /\ notifier' = notifier
      BY <1>2, <2>1, <2>4, <3>3
    <3> QED
      BY <3>1, <3>2, <3>3 DEF Advances
  <2> QED
    BY <2>3, <2>4 DEF NotifierInv, Key
<1>6. pulling' \subseteq Pulls /\ PullingInv'
  <2>1. \A p \in Pulls : p \in Callers
    BY DEF Callers
  <2> QED
    BY <1>2, <2>1 DEF Advances, CallerPart, PullingInv
<1>7. PlacesInv'
  BY <1>2 DEF Advances, CallerPart, PlacesInv
<1> QED
  BY <1>2, <1>3, <1>4, <1>5, <1>6, <1>7 DEF CallerPart

LEMMA CallerStays ==
  ASSUME CallerPart, UNCHANGED <<lock, caller, notifier, pulling, preloading>>
  PROVE  CallerPart'
  BY DEF CallerPart, NotifierInv, PullingInv, PlacesInv, Key

\* One step of a caller's work.
LEMMA WorkAdvances ==
  ASSUME CallerPart, NEW c \in Callers, NEW at \in AtWork, caller[c] \in AtWork, Move(c, at),
         UNCHANGED <<preloading, pulling>>,
         \/ at \notin Waits /\ caller[c] \notin Waits /\ lock' = lock
         \/ at \notin Waits /\ caller[c] \in Waits /\ lock' = NoCaller
         \/ at \in Waits /\ lock \in {c, NoCaller} /\ lock' = c,
         \/ at = "stream" /\ notifier' = [notifier EXCEPT ![Key(c)] = c]
         \/ at # "stream" /\ caller[c] # "stream" /\ notifier' = notifier
  PROVE  CallerPart'
<1>1. /\ at \in CallerStages \ {"new"} /\ at \notin {"queued", "linger"}
      /\ c \in Preloads => preloading = c
      /\ c \in Pulls => c \in pulling
      /\ pulling \subseteq Pulls /\ preloading \in Preloads \cup {NoCaller}
  BY DEF CallerPart, PullingInv, AtWork, CallerStages
<1>2. Advances(c, at)
  BY <1>1 DEF Advances
<1> QED
  BY <1>2, CallerMoves

\* And the last one.
LEMMA FinishAdvances ==
  ASSUME CallerPart, ApiPart, NEW c \in Callers, Finish(c), caller[c] \in AtWork,
         UNCHANGED <<entry, request, loading>>,
         \/ caller[c] \notin Waits /\ lock' = lock
         \/ caller[c] \in Waits /\ lock' = NoCaller,
         \/ notifier' = [notifier EXCEPT ![Key(c)] = NoCaller]
         \/ caller[c] # "stream" /\ notifier' = notifier
  PROVE  CallerPart' /\ ApiPart'
<1>1. /\ {"idle", "linger"} \subseteq
           CallerStages \ ({"new", "queued", "stream"} \cup Waits \cup AtWork)
      /\ c \in Preloads => preloading = c
      /\ pulling \subseteq Pulls /\ preloading \in Preloads \cup {NoCaller}
      /\ c \in Preloads \cup Chats => c \notin Pulls
      /\ c \in Chats => c \notin Preloads
  BY ActorsAssumption DEF CallerPart, AtWork, CallerStages, Waits
<1>2. CASE /\ c \in Pulls /\ Move(c, "linger") /\ pulling' = pulling \ {c} /\ Forget
           /\ UNCHANGED preloading
  <2>1. c \notin Preloads
    BY <1>2, ActorsAssumption
  <2>2. Advances(c, "linger")
    BY <1>1, <1>2, <2>1 DEF Advances
  <2> QED
    BY <1>2, <2>2, CallerMoves DEF ApiPart, RowIsBacked, Forget
<1>3. CASE c \in Preloads /\ Move(c, "idle") /\ preloading' = NoCaller /\ UNCHANGED <<pulling, row>>
  <2>1. Advances(c, "idle")
    BY <1>1, <1>3 DEF Advances
  <2> QED
    BY <1>3, <2>1, CallerMoves DEF ApiPart, RowIsBacked
<1>4. CASE c \in Chats /\ Move(c, "idle") /\ UNCHANGED <<pulling, row, preloading>>
  <2>1. Advances(c, "idle")
    BY <1>1, <1>4 DEF Advances
  <2> QED
    BY <1>4, <2>1, CallerMoves DEF ApiPart, RowIsBacked
<1> QED
  BY <1>2, <1>3, <1>4 DEF Finish

LEMMA ApiStays == ApiPart /\ UNCHANGED api => ApiPart'
  BY DEF ApiPart, RowIsBacked, api

\* The steps of the callers.
LEMMA EnsureCaller ==
  ASSUME ServingInv, NEW c \in Callers,
         Check(c) \/ Recheck(c) \/ Up(c) \/ Direct(c) \/ GiveUp(c) \/ Dropped(c)
  PROVE  CallerPart' /\ ApiPart'
<1>0. CallerPart /\ ApiPart
  BY ServingParts
<1>1. CASE Check(c)
  <2>1. \/ Move(c, "stream") /\ notifier' = [notifier EXCEPT ![Key(c)] = c]
        \/ Move(c, "lock") /\ notifier' = notifier
    BY <1>1 DEF Check, Ensured
  <2>2. caller[c] = "check" /\ UNCHANGED <<preloading, pulling, lock>> /\ UNCHANGED api
    BY <1>1 DEF Check, servers, api
  <2> QED
    BY <1>0, <2>1, <2>2, WorkAdvances, ApiStays DEF AtWork, Waits
<1>2. CASE Recheck(c)
  <2>1. \/ Move(c, "stream") /\ notifier' = [notifier EXCEPT ![Key(c)] = c] /\ lock' = lock
        \/ Move(c, "wait") /\ notifier' = notifier /\ lock' = c
    BY <1>2 DEF Recheck, Ensured, servers
  <2>2. /\ caller[c] = "lock" /\ lock = NoCaller
        /\ UNCHANGED <<preloading, pulling>> /\ UNCHANGED api
    BY <1>2 DEF Recheck, api
  <2> QED
    BY <1>0, <2>1, <2>2, WorkAdvances, ApiStays DEF AtWork, Waits
<1>3. CASE Up(c)
  <2>1. /\ Move(c, "stream") /\ notifier' = [notifier EXCEPT ![Key(c)] = c] /\ lock' = NoCaller
        /\ caller[c] \in Waits /\ UNCHANGED <<preloading, pulling>> /\ UNCHANGED api
    BY <1>3 DEF Up, Ensured, api
  <2> QED
    BY <1>0, <2>1, WorkAdvances, ApiStays DEF AtWork, Waits
<1>4. CASE Direct(c)
  <2>1. /\ Move(c, "direct") /\ caller[c] = "wait"
        /\ UNCHANGED <<lock, notifier, preloading, pulling>> /\ UNCHANGED api
    BY <1>4 DEF Direct, api
  <2>2. lock = c
    BY <1>0, <2>1 DEF CallerPart, Waits
  <2> QED
    BY <1>0, <2>1, <2>2, WorkAdvances, ApiStays DEF AtWork, Waits
<1>5. CASE GiveUp(c)
  <2>1. /\ Finish(c) /\ caller[c] \in Waits /\ lock' = NoCaller
        /\ UNCHANGED <<notifier, entry, request, loading>>
    BY <1>5 DEF GiveUp, Waits
  <2> QED
    BY <1>0, <2>1, FinishAdvances DEF AtWork, Waits
<1>6. CASE Dropped(c)
  <2>1. /\ Move(c, "idle") /\ caller[c] \in {"check", "lock", "wait", "direct"} /\ c \in Chats
        /\ UNCHANGED <<notifier, preloading, pulling>> /\ UNCHANGED api
        /\ \/ lock = c /\ lock' = NoCaller
           \/ lock # c /\ lock' = lock
    BY <1>6 DEF Dropped, Waits, api
  <2>2. lock = c <=> caller[c] \in Waits
    BY <1>0 DEF CallerPart
  <2>3. c \notin Pulls /\ c \notin Preloads /\ pulling \subseteq Pulls
        /\ preloading \in Preloads \cup {NoCaller}
    BY <1>0, <2>1, ActorsAssumption DEF CallerPart
  <2>4. Advances(c, "idle")
    BY <2>1, <2>2, <2>3 DEF Advances, CallerStages, Waits
  <2> QED
    BY <1>0, <2>1, <2>4, CallerMoves, ApiStays
<1> QED
  BY <1>1, <1>2, <1>3, <1>4, <1>5, <1>6

LEMMA PullCaller ==
  ASSUME ServingInv, NEW c \in Callers,
         \/ HasModel(c) \/ StreamEnds(c) \/ Break(c) \/ Preload(c)
         \/ Frame(c) \/ StartChat(c) \/ StartPreload(c)
  PROVE  CallerPart' /\ ApiPart'
<1>0. CallerPart /\ ApiPart /\ ("stream" \notin Waits)
  BY ServingParts DEF Waits
<1>1. CASE HasModel(c)
  <2>1. caller[c] = "has" /\ UNCHANGED <<lock, notifier, entry, request, loading>>
    BY <1>1 DEF HasModel, servers
  <2>2. CASE Finish(c)
    BY <1>0, <2>1, <2>2, FinishAdvances DEF AtWork, Waits
  <2>3. CASE Move(c, "check") /\ UNCHANGED <<pulling, row, preloading>>
    BY <1>0, <2>1, <2>3, WorkAdvances, ApiStays DEF AtWork, Waits, api
  <2> QED
    BY <1>1, <2>2, <2>3 DEF HasModel
<1>2. CASE StreamEnds(c) \/ Break(c)
  <2>1. /\ caller[c] = "stream" /\ Finish(c) /\ UNCHANGED <<lock, entry, request, loading>>
        /\ notifier' = [notifier EXCEPT ![Key(c)] = NoCaller]
    BY <1>2 DEF StreamEnds, Break, Deregister, servers
  <2> QED
    BY <1>0, <2>1, FinishAdvances DEF AtWork
<1>3. CASE Preload(c)
  <2>1. /\ Move(c, "has") /\ c \in Preloads /\ caller[c] = "queued" /\ preloading = NoCaller
        /\ preloading' = c /\ UNCHANGED <<lock, notifier, pulling>> /\ UNCHANGED api
    BY <1>3 DEF Preload, servers, api
  <2>2. c \notin Pulls /\ pulling \subseteq Pulls
    BY <1>0, <2>1, ActorsAssumption DEF CallerPart
  <2>3. Advances(c, "has")
    BY <2>1, <2>2 DEF Advances, CallerStages, Waits
  <2> QED
    BY <1>0, <2>1, <2>3, CallerMoves, ApiStays
<1>4. CASE Frame(c)
  <2>1. /\ UNCHANGED <<lock, caller, notifier, pulling, preloading, entry, request, loading>>
        /\ row' = "downloading" /\ c \in pulling
    BY <1>0, <1>4 DEF Frame, Report, servers, CallerPart, PullingInv, AtWork
  <2> QED
    BY <1>0, <2>1, CallerStays DEF ApiPart, RowIsBacked
<1>5. CASE StartChat(c) \/ StartPreload(c)
  <2>1. PICK at \in {"check", "queued"} :
          /\ Move(c, at) /\ caller[c] = "new"
          /\ c \in Chats \/ (at = "queued" /\ c \in Preloads)
          /\ at = "queued" => c \in Preloads
          /\ UNCHANGED <<lock, notifier, preloading, pulling>> /\ UNCHANGED api
    BY <1>5, ActorsAssumption DEF StartChat, StartPreload, servers, api
  <2>2. /\ c \notin Pulls /\ pulling \subseteq Pulls /\ preloading \in Preloads \cup {NoCaller}
        /\ c \in Chats => c \notin Preloads
    BY <1>0, <2>1, ActorsAssumption DEF CallerPart
  <2>3. Advances(c, at)
    BY <2>1, <2>2 DEF Advances, CallerStages, Waits
  <2> QED
    BY <1>0, <2>1, <2>3, CallerMoves, ApiStays
<1> QED
  BY <1>1, <1>2, <1>3, <1>4, <1>5

\* A cancel ends the stream whose notifier it finds; the thirty seconds of a
\* pull are over.
LEMMA CancelCaller ==
  ASSUME ServingInv, NEW k \in Keys, Cancel(k)
  PROVE  CallerPart' /\ ApiPart'
<1>1. CallerPart /\ ApiPart
  BY ServingParts
<1>2. PICK c \in Callers : c = notifier[k] /\ caller[c] = "stream"
  BY <1>1 DEF CallerPart, NotifierInv, Cancel
<1>3. /\ Finish(c) /\ UNCHANGED <<lock, entry, request, loading>>
      /\ notifier' = [notifier EXCEPT ![Key(c)] = NoCaller]
  BY <1>2 DEF Cancel, Deregister, servers
<1> QED
  BY <1>1, <1>2, <1>3, FinishAdvances DEF AtWork, Waits

LEMMA ReapCaller ==
  ASSUME ServingInv, NEW p \in Pulls, Reap(p)
  PROVE  CallerPart' /\ ApiPart'
<1>1. CallerPart /\ ApiPart /\ p \in Callers
  BY ServingParts DEF Callers
<1>2. /\ Move(p, "idle") /\ caller[p] = "linger" /\ entry' = NoPull
      /\ UNCHANGED <<lock, notifier, preloading, pulling, request, loading, row>>
  BY DEF Reap, servers
<1>3. /\ p \notin Preloads /\ pulling \subseteq Pulls /\ preloading \in Preloads \cup {NoCaller}
      /\ p \notin pulling
  BY <1>1, <1>2, ActorsAssumption DEF CallerPart, PullingInv, AtWork
<1>4. Advances(p, "idle")
  BY <1>2, <1>3 DEF Advances, CallerStages, Waits, AtWork
<1> QED
  BY <1>1, <1>2, <1>4, CallerMoves DEF ApiPart, RowIsBacked

\* The steps of the requests.
LEMMA RequestStep ==
  ASSUME ServingInv, NEW r \in Requests, Serve(r) \/ Loaded(r)
  PROVE  CallerPart' /\ ApiPart'
<1>1. CallerPart /\ ApiPart
  BY ServingParts
<1>2. request \in [Requests -> RequestState]
  BY <1>1 DEF ApiPart
<1>3. ASSUME NEW at \in {"ask", "create", "reread", "waiting", "served", "refused"},
             NEW p \in Pulls \cup {NoPull}, Goes(r, at, p)
      PROVE  request' \in [Requests -> RequestState]
  <2>1. [at |-> at, on |-> p] \in RequestState
    BY DEF RequestState
  <2> QED
    BY <1>2, <1>3, <2>1 DEF Goes
<1>4. ASSUME NEW p \in Pulls, Watch(r, p) PROVE request' \in [Requests -> RequestState]
  BY <1>3, <1>4 DEF Watch
<1>5. CASE Create(r)
  <2>1. PICK p \in Pulls : /\ caller[p] = "idle" /\ Move(p, "has") /\ entry' = p
                           /\ pulling' = pulling \cup {p} /\ Watch(r, p)
    BY <1>5 DEF Create
  <2>2. row' = "downloading" /\ UNCHANGED <<lock, notifier, preloading, loading>>
    BY <1>5 DEF Create, Report, servers
  <2>3. /\ p \in Callers /\ p \notin Preloads /\ pulling \subseteq Pulls
        /\ preloading \in Preloads \cup {NoCaller}
    BY <1>1, ActorsAssumption DEF CallerPart, Callers
  <2>4. Advances(p, "has")
    BY <2>1, <2>2, <2>3 DEF Advances, CallerStages, Waits, AtWork
  <2> QED
    BY <1>1, <1>4, <2>1, <2>2, <2>3, <2>4, CallerMoves DEF ApiPart, RowIsBacked
<1>6. ASSUME UNCHANGED <<entry, pulling>>, OnlyRequest, loading' \subseteq Requests,
             \/ UNCHANGED <<loading, row>>
             \/ row' = "loading" /\ loading' # {}
             \/ row' = "quiet",
             request' \in [Requests -> RequestState]
      PROVE  CallerPart' /\ ApiPart'
  BY <1>1, <1>6, CallerStays DEF OnlyRequest, servers, ApiPart, RowIsBacked
<1>7. loading \subseteq Requests /\ entry \in Pulls \cup {NoPull}
  BY <1>1 DEF ApiPart
<1>8. ASSUME Proceed(r) PROVE CallerPart' /\ ApiPart'
  <2>1. request' \in [Requests -> RequestState]
    BY <1>3, <1>8 DEF Proceed
  <2> QED
    BY <1>6, <1>7, <1>8, <2>1 DEF Proceed, Report
<1>9. CASE Ask(r)
  <2>1. request' \in [Requests -> RequestState]
    BY <1>3, <1>4, <1>7, <1>9 DEF Ask
  <2> QED
    BY <1>6, <1>7, <1>9, <2>1 DEF Ask
<1>10. CASE Reread(r)
  <2>1. CASE entry # NoPull /\ Goes(r, "waiting", entry)
             /\ UNCHANGED <<entry, pulling, loading, row>> /\ OnlyRequest
    BY <1>3, <1>6, <1>7, <2>1
  <2> QED
    BY <1>8, <1>10, <2>1 DEF Reread
<1>11. CASE Waited(r)
  BY <1>8, <1>11 DEF Waited
<1>12. CASE Retry(r)
  BY <1>3, <1>6, <1>7, <1>12 DEF Retry
<1>13. CASE Loaded(r)
  BY <1>2, <1>6, <1>7, <1>13 DEF Loaded, Forget
<1> QED
  BY <1>5, <1>9, <1>10, <1>11, <1>12, <1>13 DEF Serve

-----------------------------------------------------------------------------
(* OllamaServing: the children.                                            *)

LEMMA SpawnChild ==
  ASSUME ChildPart, NEW under, NEW killed, Spawn(under, killed), lock' # NoCaller,
         \/ killed = NoServer /\ lock = NoCaller
         \/ killed = guard /\ guard # NoServer
  PROVE  ChildPart'
<1> DEFINE free == {x \in Servers : x = killed \/ server[x] = "gone"}
           s == CHOOSE x \in free : TRUE
<1>1. s \in Servers /\ (s = killed \/ server[s] = "gone")
  <2>1. s \in free
    BY DEF Spawn
  <2> QED
    BY <2>1
<1>2. /\ server' = [x \in DOMAIN server |->
                      IF x = s THEN "starting" ELSE IF x = killed THEN "gone" ELSE server[x]]
      /\ wrapped' = IF under THEN wrapped \cup {s} ELSE wrapped \ {s}
      /\ guard' = s
      /\ abandoned' = (IF Reachable THEN abandoned \cup ({guard} \cap Servers)
                                    ELSE abandoned) \ {s, killed}
  BY DEF Spawn
<1> HIDE DEF s, free
<1>3. /\ server \in [Servers \cup {Tray} -> {"gone", "starting", "up"}]
      /\ wrapped \subseteq Servers /\ abandoned \subseteq Servers
      /\ guard \in Servers \cup {NoServer}
      /\ \A x, y \in Servers \cup {Tray} : server[x] = "up" /\ server[y] = "up" => x = y
  BY DEF ChildPart
<1>4. /\ server' \in [Servers \cup {Tray} -> {"gone", "starting", "up"}]
      /\ \A x \in Servers \cup {Tray} :
           server'[x] = IF x = s THEN "starting" ELSE IF x = killed THEN "gone" ELSE server[x]
  BY <1>2, <1>3
<1>5. \A x, y \in Servers \cup {Tray} : server'[x] = "up" /\ server'[y] = "up" => x = y
  BY <1>3, <1>4
<1>6. wrapped' \subseteq Servers /\ abandoned' \subseteq Servers /\ guard' \in Servers
  BY <1>1, <1>2, <1>3
<1>7. GuardInv'
  BY <1>6, ServersAssumption DEF GuardInv
<1>8. ASSUME NEW x \in Servers, server'[x] # "gone", x # s PROVE x \in abandoned'
  <2>1. x # killed /\ server[x] # "gone"
    BY <1>4, <1>8
  <2>2. CASE x \in abandoned
    BY <1>2, <1>8, <2>1, <2>2
  <2>3. CASE x = guard /\ Reachable
    BY <1>2, <1>8, <2>1, <2>3
  <2>4. CASE x = guard /\ ~Reachable
    <3>1. server[guard] = "starting" /\ lock = NoCaller /\ guard # NoServer
      BY <1>3, <2>1, <2>4, ServersAssumption DEF Reachable
    <3>2. guard \in abandoned
      BY <3>1 DEF ChildPart, GuardInv
    <3> QED
      BY <2>2, <2>4, <3>2
  <2> QED
    BY <2>1, <2>2, <2>3, <2>4 DEF ChildPart, NoServerLost
<1>9. NoServerLost'
  BY <1>2, <1>8 DEF NoServerLost
<1> QED
  BY <1>4, <1>5, <1>6, <1>7, <1>9 DEF ChildPart

LEMMA ChildStays == ChildPart /\ UNCHANGED servers => ChildPart'
  BY DEF ChildPart, GuardInv, NoServerLost, servers

LEMMA ServerChild ==
  ASSUME ServingInv, NEW s \in Servers \cup {Tray}, Boot(s) \/ ServerTrouble(s)
  PROVE  ChildPart'
<1>1. /\ server \in [Servers \cup {Tray} -> {"gone", "starting", "up"}]
      /\ wrapped \subseteq Servers /\ abandoned \subseteq Servers
      /\ guard \in Servers \cup {NoServer}
      /\ \A x, y \in Servers \cup {Tray} : server[x] = "up" /\ server[y] = "up" => x = y
      /\ GuardInv /\ NoServerLost
  BY ServingParts DEF ChildPart
<1>2. PICK new \in {"gone", "up"} :
        /\ server' = [server EXCEPT ![s] = new]
        /\ new = "up" => s = Tray \/ server[s] # "gone"
        /\ new = "up" => ~Reachable
        /\ abandoned' \in {abandoned, abandoned \ {s}}
        /\ new = "up" => abandoned' = abandoned \/ s = Tray
  <2>1. CASE Boot(s)
    BY <2>1 DEF Boot
  <2>2. CASE ServerTrouble(s)
    BY <2>2 DEF ServerTrouble
  <2> QED
    BY <2>1, <2>2
<1>3. UNCHANGED <<guard, lock>> /\ wrapped' = wrapped \ {s}
  BY DEF Boot, ServerTrouble
<1>4. /\ server' \in [Servers \cup {Tray} -> {"gone", "starting", "up"}] /\ server'[s] = new
      /\ \A x \in (Servers \cup {Tray}) \ {s} : server'[x] = server[x]
  BY <1>1, <1>2
<1>5. \A x, y \in Servers \cup {Tray} : server'[x] = "up" /\ server'[y] = "up" => x = y
  BY <1>1, <1>2, <1>4 DEF Reachable
<1>6. GuardInv'
  BY <1>1, <1>2, <1>3, <1>4 DEF GuardInv
<1>7. NoServerLost'
  BY <1>1, <1>2, <1>3, <1>4, ServersAssumption DEF NoServerLost
<1> QED
  BY <1>1, <1>2, <1>3, <1>4, <1>5, <1>6, <1>7 DEF ChildPart

LEMMA CallerChild ==
  ASSUME ServingInv, NEW c \in Callers,
         \/ Check(c) \/ Recheck(c) \/ Up(c) \/ Direct(c) \/ GiveUp(c) \/ Dropped(c)
         \/ HasModel(c) \/ StreamEnds(c) \/ Break(c) \/ Preload(c)
         \/ Frame(c) \/ StartChat(c) \/ StartPreload(c)
  PROVE  ChildPart'
<1>0. ChildPart
  BY ServingParts
<1>1. /\ lock = c <=> caller[c] \in Waits
      /\ c # NoCaller
  BY KeyFacts, ServingParts DEF CallerPart
<1>2. /\ lock = c => guard \in Servers
      /\ guard \in Servers \cup {NoServer}
      /\ abandoned \subseteq Servers
  BY <1>0, <1>1 DEF ChildPart, GuardInv
<1>3. CASE Recheck(c)
  <2>1. CASE UNCHANGED servers
    BY <1>0, <2>1, ChildStays
  <2>2. ASSUME NEW under, Spawn(under, NoServer), lock' = c
        PROVE  ChildPart'
    BY <1>0, <1>1, <1>3, <2>2, SpawnChild DEF Recheck
  <2> QED
    BY <1>3, <2>1, <2>2 DEF Recheck
<1>4. CASE Direct(c)
  <2>1. Spawn(FALSE, guard) /\ lock' = lock /\ lock = c
    BY <1>1, <1>4 DEF Direct, Waits
  <2>2. guard # NoServer
    BY <1>2, <2>1, ServersAssumption
  <2> QED
    BY <1>0, <1>1, <2>1, <2>2, SpawnChild
<1>5. ASSUME UNCHANGED <<server, wrapped, guard>>, lock' = NoCaller, guard \in Servers,
             \/ abandoned' = abandoned \cup {guard}
             \/ abandoned' = abandoned /\ server[guard] # "starting"
      PROVE  ChildPart'
  BY <1>0, <1>2, <1>5 DEF ChildPart, GuardInv, NoServerLost
<1>6. CASE Up(c)
  <2>1. lock = c
    BY <1>1, <1>6 DEF Up
  <2> QED
    BY <1>2, <1>5, <1>6, <2>1 DEF Up
<1>7. CASE GiveUp(c)
  <2>1. lock = c
    BY <1>1, <1>7 DEF GiveUp, Waits
  <2> QED
    BY <1>2, <1>5, <1>7, <2>1 DEF GiveUp
<1>8. CASE Dropped(c)
  <2>1. CASE lock = c
    BY <1>2, <1>5, <1>8, <2>1 DEF Dropped
  <2>2. CASE lock # c
    BY <1>0, <1>8, <2>2, ChildStays DEF Dropped, servers
  <2> QED
    BY <2>1, <2>2
<1>9. CASE \/ Check(c) \/ HasModel(c) \/ StreamEnds(c) \/ Break(c) \/ Preload(c)
           \/ Frame(c) \/ StartChat(c) \/ StartPreload(c)
  <2>1. UNCHANGED servers
    BY <1>9 DEF Check, HasModel, StreamEnds, Break, Preload, Frame, StartChat, StartPreload
  <2> QED
    BY <1>0, <2>1, ChildStays
<1> QED
  BY <1>3, <1>4, <1>6, <1>7, <1>8, <1>9

LEMMA StopChild ==
  ASSUME ServingInv, Stop
  PROVE  ChildPart'
<1>1. ChildPart /\ guard \in Servers
  BY ServingParts DEF ChildPart, Stop
<1>2. /\ server' = [server EXCEPT ![guard] = "gone"] /\ guard' = NoServer /\ lock' = NoCaller
      /\ abandoned' = abandoned \ {guard} /\ wrapped' = wrapped
  BY DEF Stop
<1>3. /\ server \in [Servers \cup {Tray} -> {"gone", "starting", "up"}]
      /\ server' \in [Servers \cup {Tray} -> {"gone", "starting", "up"}]
      /\ server'[guard] = "gone"
      /\ \A x \in (Servers \cup {Tray}) \ {guard} : server'[x] = server[x]
  BY <1>1, <1>2 DEF ChildPart
<1> QED
  BY <1>1, <1>2, <1>3 DEF ChildPart, GuardInv, NoServerLost

-----------------------------------------------------------------------------
(* OllamaServing: the theorems.                                            *)

\* What no step touches but by counting a disturbance, or by a pull or `rm`.
LEMMA RestStep ==
  ASSUME ServingInv, ServingNext
  PROVE  RestPart'
<1>1. RestPart
  BY ServingParts
<1>2. MaxTrouble[scene] \in Nat
  BY <1>1, ServingAssumption DEF RestPart
<1>3. /\ UNCHANGED <<scene, prefix>> /\ (Disturb \/ Calm)
      /\ has' \in BOOLEAN
  <2>0. has \in BOOLEAN
    BY <1>1 DEF RestPart
  <2>1. ASSUME NEW s \in DOMAIN server, Boot(s) \/ ServerTrouble(s)
        PROVE  UNCHANGED <<scene, prefix, has>> /\ (Disturb \/ Calm)
    BY <2>1 DEF Boot, ServerTrouble, Calm
  <2>2. ASSUME NEW c \in Callers,
               \/ Check(c) \/ Recheck(c) \/ Up(c) \/ Direct(c) \/ GiveUp(c) \/ Dropped(c)
               \/ HasModel(c) \/ Break(c) \/ Preload(c)
               \/ Frame(c) \/ StartChat(c) \/ StartPreload(c)
        PROVE  UNCHANGED <<scene, prefix, has>> /\ (Disturb \/ Calm)
    BY <2>2 DEF Check, Recheck, Up, Direct, GiveUp, Dropped, HasModel, Break, Preload, Frame,
                StartChat, StartPreload, Answers, NoAnswer, TimeOver
  <2>3. ASSUME NEW c \in Callers, StreamEnds(c)
        PROVE  UNCHANGED <<scene, prefix>> /\ Calm /\ has' \in BOOLEAN
    BY <2>0, <2>3 DEF StreamEnds
  <2>4. ASSUME NEW k \in Keys, Cancel(k) PROVE UNCHANGED <<scene, prefix, has>> /\ Disturb
    BY <2>4 DEF Cancel
  <2>5. ASSUME NEW p \in Pulls, Reap(p) PROVE UNCHANGED <<scene, prefix, has>> /\ Calm
    BY <2>5 DEF Reap
  <2>6. ASSUME NEW r \in Requests, Serve(r) \/ Loaded(r)
        PROVE  UNCHANGED <<scene, prefix, has>> /\ Calm
    BY <2>6 DEF Serve, Ask, Create, Reread, Waited, Retry, Proceed, Loaded, OnlyRequest, Calm
  <2>7. CASE Stop \/ DeleteModel
    BY <2>0, <2>7 DEF Stop, DeleteModel
  <2> QED
    BY <2>0, <2>1, <2>2, <2>3, <2>4, <2>5, <2>6, <2>7 DEF ServingNext, Call
<1> QED
  BY <1>1, <1>2, <1>3 DEF RestPart, Disturb, Calm

LEMMA StepServing ==
  ASSUME ServingInv, [ServingNext]_servingVars
  PROVE  ServingInv'
<1>0. ChildPart /\ CallerPart /\ ApiPart /\ RestPart
  BY ServingParts
<1>1. DOMAIN server = Servers \cup {Tray}
  BY <1>0 DEF ChildPart
<1>2. CASE ServingNext
  <2>1. RestPart'
    BY <1>2, RestStep
  <2>2. ASSUME NEW s \in Servers \cup {Tray}, Boot(s) \/ ServerTrouble(s)
        PROVE  ChildPart' /\ CallerPart' /\ ApiPart'
    <3>1. UNCHANGED <<lock, caller, notifier, pulling, preloading>> /\ UNCHANGED api
      BY <2>2 DEF Boot, ServerTrouble, api
    <3> QED
      BY <1>0, <2>2, <3>1, ServerChild, CallerStays, ApiStays
  <2>3. ASSUME NEW c \in Callers,
               Call(c) \/ Frame(c) \/ Dropped(c) \/ StartChat(c) \/ StartPreload(c)
        PROVE  ChildPart' /\ CallerPart' /\ ApiPart'
    <3>1. ChildPart'
      BY <2>3, CallerChild DEF Call
    <3>2. CallerPart' /\ ApiPart'
      BY <2>3, EnsureCaller, PullCaller DEF Call
    <3> QED
      BY <3>1, <3>2
  <2>4. ASSUME NEW k \in Keys, Cancel(k) PROVE ChildPart' /\ CallerPart' /\ ApiPart'
    <3>1. UNCHANGED servers
      BY <2>4 DEF Cancel
    <3> QED
      BY <1>0, <2>4, <3>1, ChildStays, CancelCaller
  <2>5. ASSUME NEW p \in Pulls, Reap(p) PROVE ChildPart' /\ CallerPart' /\ ApiPart'
    <3>1. UNCHANGED servers
      BY <2>5 DEF Reap
    <3> QED
      BY <1>0, <2>5, <3>1, ChildStays, ReapCaller
  <2>6. ASSUME NEW r \in Requests, Serve(r) \/ Loaded(r)
        PROVE  ChildPart' /\ CallerPart' /\ ApiPart'
    <3>1. UNCHANGED servers
      BY <2>6 DEF Serve, Ask, Create, Reread, Waited, Retry, Proceed, Loaded, OnlyRequest
    <3> QED
      BY <1>0, <2>6, <3>1, ChildStays, RequestStep
  <2>7. CASE Stop
    <3>1. UNCHANGED <<lock, caller, notifier, pulling, preloading>> /\ UNCHANGED api
      BY <2>7 DEF Stop, api
    <3> QED
      BY <1>0, <2>1, <2>7, <3>1, StopChild, CallerStays, ApiStays, ServingPartsAfter
  <2>8. CASE DeleteModel
    <3>1. UNCHANGED servers /\ UNCHANGED <<lock, caller, notifier, pulling, preloading>>
          /\ UNCHANGED api
      BY <2>8 DEF DeleteModel, servers, api
    <3> QED
      BY <1>0, <2>1, <3>1, ChildStays, CallerStays, ApiStays, ServingPartsAfter
  <2> QED
    BY <1>1, <1>2, <2>1, <2>2, <2>3, <2>4, <2>5, <2>6, <2>7, <2>8, ServingPartsAfter
       DEF ServingNext
<1>3. CASE UNCHANGED servingVars
  <2>1. /\ UNCHANGED servers /\ UNCHANGED api
        /\ UNCHANGED <<lock, caller, notifier, pulling, preloading>> /\ RestPart'
    BY <1>0, <1>3 DEF servingVars, servers, api, RestPart
  <2> QED
    BY <1>0, <2>1, ChildStays, CallerStays, ApiStays, ServingPartsAfter
<1> QED
  BY <1>2, <1>3

LEMMA AlwaysServing == ServingSpec => []ServingInv
<1> QED
  BY InitServing, StepServing, PTL DEF ServingSpec

\* The children, the callers, the requests and the progress row are well typed:
\* one server has the port, the mutex is held exactly while a child is being
\* waited for.
THEOREM ServingTypeCorrect == ServingSpec => []ServingTypeOK
  BY AlwaysServing, PTL DEF ServingInv

\* ensure_running loses no child that its launcher did not leave behind, however
\* many pulls, preloads and chats call it at once: what the others launch is in
\* OLLAMA_PROCESS, where stop finds it.
THEOREM ServerKept == ServingSpec => []NoServerLost
  BY AlwaysServing, PTL DEF ServingInv

\* The progress row shows what somebody is doing, whoever of its many writers
\* wrote last.
THEOREM RowBacked == ServingSpec => []RowIsBacked
  BY AlwaysServing, PTL DEF ServingInv

=============================================================================
