-------------------------- MODULE ConversationMove --------------------------
(***************************************************************************)
(* Moving and remotely editing one conversation (one guid) over the mesh:  *)
(* the four single-shot RPCs of src/src/mesh-move.ts, the conversation     *)
(* store of src/src/conversations.ts, and the chat view of                 *)
(* src/src/ui/Chat.svelte that saves the conversation it shows, on this    *)
(* device or on the peer that hosts it.                                    *)
(*                                                                         *)
(* The content of a conversation is the set of its turns; its folder, its  *)
(* title and the persona that rides along are left out.  A guid never      *)
(* meets another guid in this code, so one guid stands for all.            *)
(***************************************************************************)
CONSTANTS
  Device,        \* the devices of the network
  Turn,          \* the turns that may be written
  Call,          \* identities of the operations that use the RPC layer
  Nobody,        \* the host of a view that shows nothing
  MovesOverlap   \* may a move start while another one is under way?

ASSUME NobodyAssumption == Nobody \notin Device
ASSUME MovesOverlapAssumption == MovesOverlap \in BOOLEAN

VARIABLES
  holders,    \* the devices that have the conversation on disk
  copy,       \* copy[d]: the turns in the file of a holder d
  view,       \* view[d]: the conversation the chat view of d shows
  call,       \* call[o]: the caller's side of operation o
  net,        \* the requests and replies under way
  saved,      \* turns whose save was reported as done (history)
  raced,      \* a write replaced turns its writer never saw, or an edit was
              \* written while a move was under way (history)
  discarded   \* a person deleted a copy (history)

vars == <<holders, copy, view, call, net, saved, raced, discarded>>

Content == SUBSET Turn
Party == Device \cup {Nobody}
Closed == [host |-> Nobody, turns |-> {}]
Request == {"session_fetch", "session_save", "move_take", "move_drop"}
Reply == {"ok", "err", "conversation"}
\* Where the caller of an operation stands: not started, waiting for the
\* answer to one of the four methods, or settled (returned or thrown).
Stage == Request \cup {"unused", "settled"}
Message == [call : Call, type : Request \cup Reply, body : Content]

TypeOK ==
  /\ holders \subseteq Device
  /\ copy \in [Device -> Content]
  /\ \A d \in Device \ holders : copy[d] = {}
  /\ view \in [Device -> [host : Party, turns : Content]]
  /\ call \in [Call -> [stage : Stage, dev : Party, peer : Party]]
  /\ net \subseteq Message
  /\ saved \subseteq Turn
  /\ raced \in BOOLEAN
  /\ discarded \in BOOLEAN

Init ==
  /\ \E d \in Device : holders = {d}
  /\ copy = [d \in Device |-> {}]
  /\ view = [d \in Device |-> Closed]
  /\ call = [o \in Call |-> [stage |-> "unused", dev |-> Nobody, peer |-> Nobody]]
  /\ net = {}
  /\ saved = {}
  /\ raced = FALSE
  /\ discarded = FALSE

----------------------------------------------------------------------------
\* The parts the operations are made of.

Msg(o, type, body) == [call |-> o, type |-> type, body |-> body]

\* A move of the conversation is under way: its caller still waits, or a
\* request of it that would change the peer's disk has not been handled.
MoveUnderWay ==
  \/ \E o \in Call : call[o].stage \in {"session_fetch", "move_take", "move_drop"}
  \/ \E m \in net : m.type \in {"move_take", "move_drop"}

\* callRpc: operation o of d asks p and waits.
Ask(o, stage, d, p) ==
  call' = [call EXCEPT ![o] = [stage |-> stage, dev |-> d, peer |-> p]]

Settle(o) == call' = [call EXCEPT ![o].stage = "settled"]

\* Mutant of Save: a file that is already there is taken to be up to date.
SaveUnlessPresent(d, body) ==
  /\ holders' = holders \cup {d}
  /\ copy' = IF d \in holders THEN copy ELSE [copy EXCEPT ![d] = body]

\* saveConversation: whatever the device had is replaced by `body`.
Save(d, body) ==
  /\ holders' = holders \cup {d}
  /\ copy' = [copy EXCEPT ![d] = body]

Clobbers(d, body) == d \in holders /\ ~(copy[d] \subseteq body)

\* A save that succeeds; `late` says that a move might miss it.
Overwrite(d, body, late) ==
  /\ Save(d, body)
  /\ raced' = (raced \/ Clobbers(d, body) \/ late)

\* A save that throws: the sidecars are written after the file, so the file
\* may have been replaced all the same.
SaveThrows(d, body, late) ==
  \/ Overwrite(d, body, late)
  \/ UNCHANGED <<holders, copy, raced>>

\* deleteConversation: every error on the way is swallowed, so the caller
\* never learns whether the file is gone.
Delete(d) ==
  \/ holders' = holders \ {d} /\ copy' = [copy EXCEPT ![d] = {}]
  \/ UNCHANGED <<holders, copy>>

\* The device a request is addressed to.
Target(m) == call[m.call].peer

\* A handler answers request m; nobody hears an answer to a call that has
\* already failed.
Answer(m, type, body) ==
  net' = (net \ {m}) \cup (IF call[m.call].stage = "settled" THEN {}
                           ELSE {Msg(m.call, type, body)})

----------------------------------------------------------------------------
\* Operations of a person at device d.

\* moveConversation up to its RPC: the copy is read here and travels in the
\* request.
Push(o, d, p) ==
  /\ call[o].stage = "unused"
  /\ MovesOverlap \/ ~MoveUnderWay
  /\ d # p
  /\ d \in holders
  /\ Ask(o, "move_take", d, p)
  /\ net' = net \cup {Msg(o, "move_take", copy[d])}
  /\ UNCHANGED <<holders, copy, view, saved, raced, discarded>>

\* pullConversation up to the first RPC.
Pull(o, d, p) ==
  /\ call[o].stage = "unused"
  /\ MovesOverlap \/ ~MoveUnderWay
  /\ d # p
  /\ Ask(o, "session_fetch", d, p)
  /\ net' = net \cup {Msg(o, "session_fetch", {})}
  /\ UNCHANGED <<holders, copy, view, saved, raced, discarded>>

\* The chat view loads the conversation from its own disk or from the peer
\* that hosts it.  The fetch changes nothing on the host, so the time it
\* takes only makes the view older, which it may become in any case.
Open(d, h) ==
  /\ h \in holders
  /\ view' = [view EXCEPT ![d] = [host |-> h, turns |-> copy[h]]]
  /\ UNCHANGED <<holders, copy, call, net, saved, raced, discarded>>

Close(d) ==
  /\ view[d] # Closed
  /\ view' = [view EXCEPT ![d] = Closed]
  /\ UNCHANGED <<holders, copy, call, net, saved, raced, discarded>>

\* persist after a turn, the conversation being on this device.
EditLocal(d, t) ==
  LET body == view[d].turns \cup {t} IN
  /\ view[d].host = d
  /\ t \notin view[d].turns
  /\ view' = [view EXCEPT ![d].turns = body]
  /\ \/ Overwrite(d, body, MoveUnderWay) /\ saved' = saved \cup {t}
     \/ SaveThrows(d, body, MoveUnderWay) /\ UNCHANGED saved
  /\ UNCHANGED <<call, net, discarded>>

\* persist after a turn, the conversation being on a peer: the host is asked
\* to write what the view shows.  A view waits for its own save.
EditRemote(o, d, t) ==
  LET body == view[d].turns \cup {t} IN
  /\ call[o].stage = "unused"
  /\ view[d].host \in Device \ {d}
  /\ \A q \in Call : ~(call[q].stage = "session_save" /\ call[q].dev = d)
  /\ t \notin view[d].turns
  /\ view' = [view EXCEPT ![d].turns = body]
  /\ Ask(o, "session_save", d, view[d].host)
  /\ net' = net \cup {Msg(o, "session_save", body)}
  /\ UNCHANGED <<holders, copy, saved, raced, discarded>>

\* A person deletes the copy of a device from its sidebar; a view that shows
\* it is reset.
UserDelete(d) ==
  /\ d \in holders
  /\ Delete(d)
  /\ view' = IF view[d].host = d THEN [view EXCEPT ![d] = Closed] ELSE view
  /\ discarded' = TRUE
  /\ UNCHANGED <<call, net, saved, raced>>

----------------------------------------------------------------------------
\* Handlers.  A file that cannot be read is reported as not found.

HandleSessionFetch(m) ==
  /\ m.type = "session_fetch"
  /\ \/ Target(m) \in holders /\ Answer(m, "conversation", copy[Target(m)])
     \/ Answer(m, "err", {})
  /\ UNCHANGED <<holders, copy, view, call, saved, raced, discarded>>

\* handleSessionSave writes whatever arrives, also when the host no longer
\* has the conversation.
HandleSessionSave(m) ==
  /\ m.type = "session_save"
  /\ \/ Overwrite(Target(m), m.body, MoveUnderWay) /\ Answer(m, "ok", m.body)
     \/ SaveThrows(Target(m), m.body, MoveUnderWay) /\ Answer(m, "err", {})
  /\ UNCHANGED <<view, call, saved, discarded>>

\* Mutant of HandleMoveTake: the answer does not wait for the save to succeed.
HandleMoveTakeAnswersFirst(m) ==
  /\ m.type = "move_take"
  /\ SaveThrows(Target(m), m.body, FALSE)
  /\ Answer(m, "ok", {})
  /\ UNCHANGED <<view, call, saved, discarded>>

HandleMoveTake(m) ==
  /\ m.type = "move_take"
  /\ \/ Overwrite(Target(m), m.body, FALSE) /\ Answer(m, "ok", {})
     \/ SaveThrows(Target(m), m.body, FALSE) /\ Answer(m, "err", {})
  /\ UNCHANGED <<view, call, saved, discarded>>

HandleMoveDrop(m) ==
  /\ m.type = "move_drop"
  /\ Delete(Target(m))
  /\ Answer(m, "ok", {})
  /\ UNCHANGED <<view, call, saved, raced, discarded>>

----------------------------------------------------------------------------
\* The caller resumes after its RPC.

Waiting(o, stage) == call[o].stage = stage

\* Mutant of Accepted: any answer is taken for a success.
AnsweredAtAll(m) == m.type \in Reply

\* The peer took the conversation: `resp.ok` without `resp.error`.
Accepted(m) == m.type = "ok"

\* moveConversation: only an ok lets go of the local copy.
PushAnswered(m) ==
  LET o == m.call IN
  /\ Waiting(o, "move_take")
  /\ m.type \in Reply
  /\ IF Accepted(m) THEN Delete(call[o].dev) ELSE UNCHANGED <<holders, copy>>
  /\ Settle(o)
  /\ net' = net \ {m}
  /\ UNCHANGED <<view, saved, raced, discarded>>

\* pullConversation: the fetched copy is saved here before the source is
\* asked to drop its own; a failed save or an error ends the pull.
PullFetched(m) ==
  LET o == m.call
      d == call[o].dev IN
  /\ Waiting(o, "session_fetch")
  /\ m.type \in Reply
  /\ \/ /\ m.type = "conversation"
        /\ Overwrite(d, m.body, FALSE)
        /\ call' = [call EXCEPT ![o].stage = "move_drop"]
        /\ net' = (net \ {m}) \cup {Msg(o, "move_drop", {})}
     \/ /\ IF m.type = "conversation" THEN SaveThrows(d, m.body, FALSE)
           ELSE UNCHANGED <<holders, copy, raced>>
        /\ Settle(o)
        /\ net' = net \ {m}
  /\ UNCHANGED <<view, saved, discarded>>

\* The answer to move_drop only decides whether the person sees a warning.
PullDropped(m) ==
  /\ Waiting(m.call, "move_drop")
  /\ m.type \in Reply
  /\ Settle(m.call)
  /\ net' = net \ {m}
  /\ UNCHANGED <<holders, copy, view, saved, raced, discarded>>

SaveAnswered(m) ==
  /\ Waiting(m.call, "session_save")
  /\ m.type \in Reply
  /\ saved' = IF Accepted(m) THEN saved \cup m.body ELSE saved
  /\ Settle(m.call)
  /\ net' = net \ {m}
  /\ UNCHANGED <<holders, copy, view, raced, discarded>>

\* callRpc throws: the answer is lost, the peer is gone or slower than the
\* 30 s the control client waits, or this device restarted and forgot the
\* operation.  A request under way may still arrive.
CallFails(o) ==
  /\ call[o].stage \in Request
  /\ Settle(o)
  /\ net' = {m \in net : m.call = o => m.type \in Request}
  /\ UNCHANGED <<holders, copy, view, saved, raced, discarded>>

\* A request is lost.
Lose(m) ==
  /\ m.type \in Request
  /\ net' = net \ {m}
  /\ UNCHANGED <<holders, copy, view, call, saved, raced, discarded>>

----------------------------------------------------------------------------
User ==
  \/ \E o \in Call, d, p \in Device : Push(o, d, p) \/ Pull(o, d, p)
  \/ \E d, h \in Device : Open(d, h)
  \/ \E d \in Device : Close(d) \/ UserDelete(d)
  \/ \E d \in Device, t \in Turn : EditLocal(d, t)
  \/ \E o \in Call, d \in Device, t \in Turn : EditRemote(o, d, t)

Handle(m) ==
  \/ HandleSessionFetch(m) \/ HandleSessionSave(m)
  \/ HandleMoveTake(m) \/ HandleMoveDrop(m)

Resume(m) ==
  \/ PushAnswered(m) \/ PullFetched(m) \/ PullDropped(m) \/ SaveAnswered(m)

Next ==
  \/ User
  \/ \E m \in net : Handle(m) \/ Resume(m) \/ Lose(m)
  \/ \E o \in Call : CallFails(o)

Spec == Init /\ [][Next]_vars

----------------------------------------------------------------------------
(***************************************************************************)
(* Properties.                                                             *)
(***************************************************************************)

\* moveConversation and pullConversation never make the last copy of the
\* conversation disappear, whatever is lost, late or fails on the way: unless
\* a person deleted it, some device has it on disk.
NeverLost == discarded \/ holders # {}

\* No turn whose save was reported as done disappears because of a move.  Only
\* a write that replaced turns its writer had not seen, an edit written while
\* a move was under way, or a person's delete can lose one.
SavedTurnsKept ==
  raced \/ discarded \/
    \A t \in saved : \E d \in Device : d \in holders /\ t \in copy[d]

\* The abstract specification, with the same holders and discarded.
Ownership == INSTANCE ConversationOwnership
  WITH Device <- Device, holders <- holders, discarded <- discarded

\* Every step of the RPC protocol is a write, a release that leaves another
\* holder, a person's delete, or invisible.
ImplementsOwnership == Ownership!Spec
=============================================================================
