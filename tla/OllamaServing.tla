--------------------------- MODULE OllamaServing ---------------------------
(***************************************************************************)
(* The inference server and who needs it: ensure_running with its lock,    *)
(* its launch under a throttling wrapper and its direct launch, stop,      *)
(* pulls and their cancellation, chats, the preload loop, and the API's    *)
(* pull on demand with the progress row it shows.                          *)
(*                                                                         *)
(* A step is the code between two awaits, or, where two threads can meet   *)
(* in a map, between two accesses to it.  One tag is asked for.  Pulls     *)
(* are the background tasks of the API, Preloads the watcher and the       *)
(* preload commands, Chats the chat calls, Requests the clients of the     *)
(* API, each of which comes back when it was refused.  Servers are the     *)
(* children this program may have at once, Tray a server that somebody     *)
(* else started; they all want the same port.                              *)
(***************************************************************************)
EXTENDS Integers

CONSTANTS
  Pulls, Preloads, Chats, Requests,
  Waiting,      \* the requests that ask to be kept waiting (`?wait=true`)
  Scenes,       \* bound: the sets of actors that take part in a behaviour
  Servers, Tray,
  Tag,          \* the key of the tag in PULL_CANCELS
  NoServer, NoCaller, NoPull,
  MaxTrouble    \* bound: failures, cancels, quits and starts of the Tray

ASSUME ServingAssumption ==
  /\ MaxTrouble \in [Scenes -> Nat] /\ Waiting \subseteq Requests
  /\ \A who \in Scenes : who \subseteq Preloads \cup Chats \cup Requests
ASSUME ActorsAssumption ==
  /\ Pulls \cap (Preloads \cup Chats \cup Requests) = {}
  /\ Preloads \cap Chats = {} /\ Tag \notin Chats
  /\ NoCaller \notin Pulls \cup Preloads \cup Chats /\ NoPull \notin Pulls
ASSUME ServersAssumption == {Tray, NoServer} \cap Servers = {} /\ Tray # NoServer

Callers == Pulls \cup Preloads \cup Chats
Pullers == Pulls \cup Preloads
Keys == {Tag} \cup Chats

VARIABLES
  scene,      \* the actors that take part
  prefix,     \* whether the configured throttle is an argv prefix
  server,     \* server[s]: "gone", "starting" or "up"
  wrapped,    \* the children launched under the wrapper
  guard,      \* OLLAMA_PROCESS: the child that stop would kill
  lock,       \* who holds its mutex
  caller,     \* caller[c]: where it is; a chat and a preload begin as "new"
  notifier,   \* CHAT_CANCELS and PULL_CANCELS: whom a cancel of a key wakes
  has,        \* the tag is pulled
  entry,      \* pull_status: the pull listed under the tag
  pulling,    \* the pulls whose watch channel does not say `done` yet
  request,    \* request[r]: where it is and the pull it watches
  loading,    \* the requests whose report_loading_until_resident still runs
  row,        \* the progress row of the tag; "quiet": none, "ready" or "error"
  preloading, \* who holds preload_lock
  abandoned,  \* history: children whose launcher left before they were up
  trouble

servers == <<server, wrapped, guard, lock, abandoned>>
api == <<entry, pulling, request, loading, row>>
servingVars == <<scene, prefix, servers, caller, notifier, has, api, preloading, trouble>>

Waits == {"wait", "direct"}

ServingTypeOK ==
  /\ scene \in Scenes
  /\ prefix \in BOOLEAN /\ has \in BOOLEAN
  /\ server \in [Servers \cup {Tray} -> {"gone", "starting", "up"}]
  /\ wrapped \subseteq Servers /\ abandoned \subseteq Servers
  /\ guard \in Servers \cup {NoServer}
  /\ lock \in Callers \cup {NoCaller}
  /\ caller \in [Callers -> {"new", "idle", "queued", "has", "check", "lock", "stream",
                             "linger"} \cup Waits]
  /\ notifier \in [Keys -> Callers \cup {NoCaller}]
  /\ entry \in Pulls \cup {NoPull}
  /\ pulling \subseteq Pulls
  /\ request \in [Requests -> [at : {"ask", "create", "reread", "waiting", "served", "refused"},
                               on : Pulls \cup {NoPull}]]
  /\ loading \subseteq Requests
  /\ row \in {"downloading", "loading", "quiet"}
  /\ preloading \in Preloads \cup {NoCaller}
  /\ trouble \in 0 .. MaxTrouble[scene]
  \* one server has the port
  /\ \A s, t \in Servers \cup {Tray} : server[s] = "up" /\ server[t] = "up" => s = t
  \* the mutex is held exactly while a child is being waited for
  /\ \A c \in Callers : lock = c <=> caller[c] \in Waits
  \* a preload works only under preload_lock
  /\ \A w \in Preloads : caller[w] \in {"new", "idle", "queued"} \/ preloading = w

ServingInit ==
  /\ scene \in Scenes
  /\ prefix \in BOOLEAN
  /\ server = [s \in Servers \cup {Tray} |-> "gone"]
  /\ wrapped = {} /\ guard = NoServer /\ lock = NoCaller /\ abandoned = {}
  /\ caller = [c \in Callers |-> IF c \in scene THEN "new" ELSE "idle"]
  /\ notifier = [k \in Keys |-> NoCaller]
  /\ has = FALSE
  /\ entry = NoPull /\ pulling = {}
  /\ request = [r \in Requests |-> [at |-> IF r \in scene THEN "ask" ELSE "served",
                                       on |-> NoPull]]
  /\ loading = {} /\ row = "quiet" /\ preloading = NoCaller
  /\ trouble = 0

Reachable == \E s \in DOMAIN server : server[s] = "up"
\* `ollama show` needs a server that answers.
Shown == has /\ Reachable
Disturb == trouble < MaxTrouble[scene] /\ trouble' = trouble + 1
Calm == trouble' = trouble
\* The phases of the progress row; a row that has ended, lingers or is pruned is
\* all the same here.
Report(phase) == row' = phase
Forget == row' = "quiet"
Move(c, at) == caller' = [caller EXCEPT ![c] = at]

-----------------------------------------------------------------------------
(* The server processes: external, but for who spawns and who kills them.  *)

\* A child that finds the port taken ends; a free port it takes.
Boot(s) ==
  /\ server[s] = "starting"
  /\ server' = [server EXCEPT ![s] = IF Reachable THEN "gone" ELSE "up"]
  /\ wrapped' = wrapped \ {s}
  /\ abandoned' = IF Reachable THEN abandoned \ {s} ELSE abandoned
  /\ UNCHANGED <<scene, prefix, guard, lock, caller, notifier, has, api,
                 preloading, trouble>>

\* A server ends, a wrapper dies without bringing it up, the tray app starts.
ServerTrouble(s) ==
  /\ Disturb
  /\ \/ /\ s = Tray /\ server[s] = "gone" /\ ~Reachable
        /\ server' = [server EXCEPT ![s] = "up"]
     \/ /\ server[s] = "up" \/ (s \in wrapped /\ server[s] = "starting")
        /\ server' = [server EXCEPT ![s] = "gone"]
  /\ wrapped' = wrapped \ {s} /\ abandoned' = abandoned \ {s}
  /\ UNCHANGED <<scene, prefix, guard, lock, caller, notifier, has, api,
                 preloading>>

\* spawn_ollama_serve, into the guard: a child that was there is forgotten, and
\* lives on unless it was killed or has ended.  Bound: no launch without a free
\* member of Servers.
Spawn(under, killed) ==
  LET free == {x \in Servers : x = killed \/ server[x] = "gone"}
      s == CHOOSE x \in free : TRUE
  IN  /\ free # {}
      /\ server' = [x \in DOMAIN server |->
                      IF x = s THEN "starting"
                      ELSE IF x = killed THEN "gone" ELSE server[x]]
      /\ wrapped' = IF under THEN wrapped \cup {s} ELSE wrapped \ {s}
      /\ guard' = s
      /\ abandoned' = (IF Reachable THEN abandoned \cup ({guard} \cap Servers)
                                    ELSE abandoned) \ {s, killed}

-----------------------------------------------------------------------------
(* ensure_running.                                                         *)

Key(c) == IF c \in Pullers THEN Tag ELSE c

\* Once the server answers, a pull and a chat register their notifier, in place
\* of one that an earlier pull of the tag has there, and send their request.
Ensured(c) ==
  /\ notifier' = [notifier EXCEPT ![Key(c)] = c]
  /\ Move(c, "stream")

\* Mutant of Finish: a pull that ends leaves its progress row as it is.
FinishKeepsRow(c) ==
  \/ /\ c \in Pulls
     /\ Move(c, "linger")
     /\ pulling' = pulling \ {c}
     /\ UNCHANGED <<row, preloading>>
  \/ /\ c \in Preloads
     /\ Move(c, "idle") /\ preloading' = NoCaller
     /\ UNCHANGED <<pulling, row>>
  \/ /\ c \in Chats
     /\ Move(c, "idle")
     /\ UNCHANGED <<pulling, row, preloading>>

\* What follows a pull or a chat: the API's task says `done` and
\* keeps its entry for thirty seconds, a preload goes on and gives its lock back.
Finish(c) ==
  \/ /\ c \in Pulls
     /\ Move(c, "linger")
     /\ pulling' = pulling \ {c}
     /\ Forget
     /\ UNCHANGED preloading
  \/ /\ c \in Preloads
     /\ Move(c, "idle") /\ preloading' = NoCaller
     /\ UNCHANGED <<pulling, row>>
  \/ /\ c \in Chats
     /\ Move(c, "idle")
     /\ UNCHANGED <<pulling, row, preloading>>

\* The server answers within two seconds, or it is taken to be down.
Answers == Reachable /\ Calm
NoAnswer == IF Reachable THEN Disturb ELSE Calm

\* The fast path, without the lock.
Check(c) ==
  /\ caller[c] = "check"
  /\ \/ Answers /\ Ensured(c)
     \/ NoAnswer /\ Move(c, "lock") /\ UNCHANGED notifier
  /\ UNCHANGED <<scene, prefix, servers, has, api, preloading>>

\* "Check again after acquiring the lock", then spawn, under the wrapper when
\* there is one; a wrapper that is missing is left out.
Recheck(c) ==
  /\ caller[c] = "lock" /\ lock = NoCaller
  /\ \/ /\ Answers
        /\ Ensured(c)
        /\ UNCHANGED servers
     \/ /\ NoAnswer
        /\ \E under \in {prefix, FALSE} : Spawn(under, NoServer)
        /\ lock' = c /\ Move(c, "wait")
        /\ UNCHANGED notifier
  /\ UNCHANGED <<scene, prefix, has, api, preloading>>

\* The poll that finds a server up, the child or another.
Up(c) ==
  /\ caller[c] \in Waits /\ Reachable
  /\ lock' = NoCaller /\ Ensured(c)
  /\ abandoned' = IF server[guard] = "starting" THEN abandoned \cup {guard} ELSE abandoned
  /\ Calm
  /\ UNCHANGED <<scene, prefix, server, wrapped, guard, has, api, preloading>>

\* Ten seconds are over without an answer: certain when the child is dead.
TimeOver == IF Reachable \/ server[guard] # "gone" THEN Disturb ELSE Calm

\* Mutant: the wrapped child is not killed before the direct launch.
DirectWithoutKill(c) ==
  /\ caller[c] = "wait" /\ prefix
  /\ TimeOver
  /\ Spawn(FALSE, NoServer)
  /\ Move(c, "direct")
  /\ UNCHANGED <<scene, prefix, lock, notifier, has, api, preloading>>

\* The wrapped launch did not come up: kill it and launch directly.
Direct(c) ==
  /\ caller[c] = "wait" /\ prefix
  /\ TimeOver
  /\ Spawn(FALSE, guard)
  /\ Move(c, "direct")
  /\ UNCHANGED <<scene, prefix, lock, notifier, has, api, preloading>>

\* There is nothing left to try.  The child stays in the guard.
GiveUp(c) ==
  /\ caller[c] = "direct" \/ (caller[c] = "wait" /\ ~prefix)
  /\ TimeOver
  /\ lock' = NoCaller
  /\ abandoned' = abandoned \cup {guard}
  /\ Finish(c)
  /\ UNCHANGED <<scene, prefix, server, wrapped, guard, notifier, has, entry, request, loading>>

\* The browser that asked for a chat in one piece goes away: its handler is
\* dropped at whatever it was waiting for, and with it the lock it may hold.
Dropped(c) ==
  /\ c \in Chats /\ caller[c] \in {"check", "lock"} \cup Waits
  /\ Disturb
  /\ Move(c, "idle")
  /\ IF lock = c
       THEN lock' = NoCaller /\ abandoned' = abandoned \cup {guard}
       ELSE UNCHANGED <<lock, abandoned>>
  /\ UNCHANGED <<scene, prefix, server, wrapped, guard, notifier, has, api, preloading>>

\* stop: on a person's command and when the program ends.
Stop ==
  /\ lock = NoCaller /\ guard # NoServer
  /\ Disturb
  /\ guard' = NoServer
  /\ server' = [server EXCEPT ![guard] = "gone"]
  /\ abandoned' = abandoned \ {guard}
  /\ UNCHANGED <<scene, prefix, wrapped, lock, caller, notifier, has, api, preloading>>

-----------------------------------------------------------------------------
(* pull_with, chat_stream and their cancellation.                          *)

\* pull_with asks `ollama show` first.
HasModel(c) ==
  /\ caller[c] = "has"
  /\ IF Shown THEN Finish(c)
              ELSE Move(c, "check") /\ UNCHANGED <<pulling, row, preloading>>
  /\ Calm
  /\ UNCHANGED <<scene, prefix, servers, notifier, has, entry, request, loading>>

\* A frame of the stream, shown in the progress row by the API's task.
Frame(c) ==
  /\ caller[c] = "stream" /\ c \in Pulls /\ Reachable
  /\ Report("downloading")
  /\ Calm
  /\ UNCHANGED <<scene, prefix, servers, caller, notifier, has, entry, pulling, request, loading,
                 preloading>>

\* The entry of the key is removed, whose ever it is by now.
Deregister(c) == notifier' = [notifier EXCEPT ![Key(c)] = NoCaller]

\* The stream ends, and a pulled model is found to be there.
StreamEnds(c) ==
  /\ caller[c] = "stream" /\ Reachable
  /\ has' = (has \/ c \in Pullers)
  /\ Deregister(c) /\ Finish(c)
  /\ Calm
  /\ UNCHANGED <<scene, prefix, servers, entry, request, loading>>

\* An error frame, a failed request, or a pull that left no model; without a
\* server, it is bound to fail.
Break(c) ==
  /\ caller[c] = "stream"
  /\ NoAnswer
  /\ Deregister(c) /\ Finish(c)
  /\ UNCHANGED <<scene, prefix, servers, has, entry, request, loading>>

\* cancel_pull and cancel_chat.
Cancel(k) ==
  /\ notifier[k] # NoCaller
  /\ Disturb
  /\ Deregister(notifier[k]) /\ Finish(notifier[k])
  /\ UNCHANGED <<scene, prefix, servers, has, entry, request, loading>>

\* `ollama rm`
DeleteModel ==
  /\ Shown /\ Disturb
  /\ has' = FALSE
  /\ UNCHANGED <<scene, prefix, servers, caller, notifier, api, preloading>>

-----------------------------------------------------------------------------
(* Who calls.                                                              *)

StartChat(c) ==
  /\ c \in Chats /\ caller[c] = "new"
  /\ Move(c, "check")
  /\ Calm
  /\ UNCHANGED <<scene, prefix, servers, notifier, has, api, preloading>>

\* A tick of the watcher or a preload command queues for preload_lock.
StartPreload(w) ==
  /\ w \in Preloads /\ caller[w] = "new"
  /\ Move(w, "queued")
  /\ Calm
  /\ UNCHANGED <<scene, prefix, servers, notifier, has, api, preloading>>

Preload(w) ==
  /\ w \in Preloads /\ caller[w] = "queued" /\ preloading = NoCaller
  /\ preloading' = w
  /\ Move(w, "has")
  /\ Calm
  /\ UNCHANGED <<scene, prefix, servers, notifier, has, api>>

-----------------------------------------------------------------------------
(* The API: ensure_model_or_503.                                           *)

Goes(r, at, p) == request' = [request EXCEPT ![r] = [at |-> at, on |-> p]]
OnlyRequest == UNCHANGED <<scene, prefix, servers, caller, notifier, has, preloading, trouble>>

\* A client is refused, with what the pull says, or it waits.
Watch(r, p) == IF r \in Waiting THEN Goes(r, "reread", p) ELSE Goes(r, "refused", NoPull)

\* The model is there, or pull_status is looked up.
Ask(r) ==
  /\ request[r].at = "ask"
  /\ IF Shown THEN Goes(r, "served", NoPull)
     ELSE IF entry = NoPull THEN Goes(r, "create", NoPull) ELSE Watch(r, entry)
  /\ UNCHANGED <<entry, pulling, loading, row>> /\ OnlyRequest

\* The new entry replaces one that another request has made since the lookup.
Create(r) ==
  /\ request[r].at = "create"
  /\ \E p \in Pulls :
       /\ caller[p] = "idle" /\ \A x \in Requests : request[x].on # p
       /\ Move(p, "has")
       /\ entry' = p
       /\ pulling' = pulling \cup {p}
       /\ Watch(r, p)
  /\ Report("downloading")
  /\ Calm
  /\ UNCHANGED <<scene, prefix, servers, notifier, has, loading, preloading>>

\* A request that waited is let through, whatever the pull has said; a
\* background task keeps the row at "loading" until the tag is resident or two
\* minutes are over.
Proceed(r) ==
  /\ r \notin loading
  /\ loading' = loading \cup {r}
  /\ Report("loading")
  /\ Goes(r, IF Shown THEN "served" ELSE "refused", NoPull)
  /\ UNCHANGED <<entry, pulling>> /\ OnlyRequest

\* pull_status is looked up again: it may be empty or somebody else's by now.
Reread(r) ==
  /\ request[r].at = "reread"
  /\ \/ entry = NoPull /\ Proceed(r)
     \/ /\ entry # NoPull /\ Goes(r, "waiting", entry)
        /\ UNCHANGED <<entry, pulling, loading, row>> /\ OnlyRequest

Waited(r) ==
  /\ request[r].at = "waiting" /\ request[r].on \notin pulling
  /\ Proceed(r)

Loaded(r) ==
  /\ r \in loading
  /\ loading' = loading \ {r}
  /\ Forget
  /\ UNCHANGED <<entry, pulling, request>> /\ OnlyRequest

\* A refused client comes back (retry-after).
Retry(r) ==
  /\ request[r].at = "refused"
  /\ Goes(r, "ask", NoPull)
  /\ UNCHANGED <<entry, pulling, loading, row>> /\ OnlyRequest

\* Mutant: the entry of a pull that is over stays.
ReapNothing(p) ==
  /\ caller[p] = "linger"
  /\ Move(p, "idle")
  /\ Calm
  /\ UNCHANGED <<scene, prefix, servers, notifier, has, api, preloading>>

\* Thirty seconds after its end a pull removes the entry of the tag.
Reap(p) ==
  /\ caller[p] = "linger"
  /\ Move(p, "idle")
  /\ entry' = NoPull
  /\ Calm
  /\ UNCHANGED <<scene, prefix, servers, notifier, has, pulling, request, loading, row, preloading>>

-----------------------------------------------------------------------------
Call(c) ==
  \/ Check(c) \/ Recheck(c) \/ Up(c) \/ Direct(c) \/ GiveUp(c)
  \/ HasModel(c) \/ StreamEnds(c) \/ Break(c) \/ Preload(c)

Serve(r) == Ask(r) \/ Create(r) \/ Reread(r) \/ Waited(r) \/ Retry(r)

ServingNext ==
  \/ \E s \in DOMAIN server : Boot(s) \/ ServerTrouble(s)
  \/ \E c \in Callers : Call(c) \/ Frame(c) \/ Dropped(c) \/ StartChat(c) \/ StartPreload(c)
  \/ \E k \in Keys : Cancel(k)
  \/ \E p \in Pulls : Reap(p)
  \/ \E r \in Requests : Serve(r) \/ Loaded(r)
  \/ Stop \/ DeleteModel

\* The runtime runs every task, a server that starts ends starting, and a
\* client that was refused comes back.
ServingFairness ==
  /\ \A s \in Servers : WF_servingVars(Boot(s))
  /\ \A c \in Callers : WF_servingVars(Call(c))
  /\ \A p \in Pulls : WF_servingVars(Reap(p))
  /\ \A r \in Requests : WF_servingVars(Serve(r)) /\ WF_servingVars(Loaded(r))

ServingSpec == ServingInit /\ [][ServingNext]_servingVars /\ ServingFairness

-----------------------------------------------------------------------------
(***************************************************************************)
(* A child that stop would not kill is one that a caller has left behind:  *)
(* its launch was given up or dropped, or it did not answer a probe.  The  *)
(* mutex and the second probe under it see to that: two calls never launch *)
(* a server each, and the wrapper is killed before its successor starts.   *)
(***************************************************************************)
NoServerLost ==
  \A s \in Servers : server[s] # "gone" => s = guard \/ s \in abandoned

(***************************************************************************)
(* The progress row says "downloading" only while a pull of the API is     *)
(* under way, and "loading" only while a request's background task will    *)
(* still clear it.  It has several writers that know nothing of each       *)
(* other: the pulls, the waiting requests and their tasks.                 *)
(***************************************************************************)
RowIsBacked ==
  /\ row = "downloading" => pulling # {}
  /\ row = "loading" => loading # {}

(***************************************************************************)
(* Pull on demand keeps its promise: a client that was told to come back   *)
(* is served in the end, whatever has failed or been cancelled meanwhile.  *)
(* A failed pull must leave pull_status again, and a waiting request must  *)
(* see the end of the pull it waits for.                                   *)
(***************************************************************************)
RetriesAreServed == \A r \in Requests : <>(request[r].at = "served")

=============================================================================
