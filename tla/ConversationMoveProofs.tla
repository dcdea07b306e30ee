---------------------- MODULE ConversationMoveProofs ----------------------
(***************************************************************************)
(* Proofs about ConversationMove for every network, every set of turns and *)
(* every number of operations.  The type invariant holds whatever people   *)
(* do.  That no move loses the conversation or a turn of it, and that the  *)
(* protocol implements ConversationOwnership, is proved when moves do not  *)
(* overlap: two devices that push to each other at once may lose it.       *)
(***************************************************************************)
EXTENDS ConversationMove, TLAPS

MoveStage == {"session_fetch", "move_take", "move_drop"}

\* An operation that was started is between two devices, and only started
\* operations have messages under way.
Started ==
  /\ \A o \in Call : call[o].stage # "unused" =>
       /\ call[o].dev \in Device
       /\ call[o].peer \in Device
       /\ call[o].dev # call[o].peer
  /\ \A m \in net : call[m.call].stage # "unused"

\* A request travels while its caller waits for it, or after the caller went
\* on or gave up.
Matching ==
  \A m \in net : m.type \in Request =>
    \/ call[m.call].stage \in {m.type, "settled"}
    \/ m.type = "session_fetch" /\ call[m.call].stage = "move_drop"

\* Operation o is a move that waits, or one with a request to the peer's disk
\* still under way.
InMove(o) ==
  \/ call[o].stage \in MoveStage
  \/ \E m \in net : m.call = o /\ m.type \in {"move_take", "move_drop"}

OneMove == \A o1, o2 \in Call : InMove(o1) /\ InMove(o2) => o1 = o2

\* A peer that has accepted a push keeps the conversation until the pusher has
\* heard so.
PushKept ==
  \A m \in net : m.type = "ok" /\ call[m.call].stage = "move_take" =>
    discarded \/ call[m.call].peer \in holders

\* A puller has the conversation as long as its request to drop the source's
\* copy travels.
PullKept ==
  \A m \in net : m.type = "move_drop" =>
    discarded \/ call[m.call].dev \in holders

\* The inductive invariant behind NeverLost: before a move deletes a copy,
\* PushKept or PullKept names the device that has another one, and OneMove
\* says that nobody else is about to delete that one.
IInv ==
  /\ TypeOK
  /\ Started
  /\ Matching
  /\ OneMove
  /\ PushKept
  /\ PullKept
  /\ NeverLost

----------------------------------------------------------------------------
\* What the parts of the operations do to the types.

LEMMA MsgType ==
  ASSUME NEW o \in Call, NEW type \in Request \cup Reply, NEW body \in Content
  PROVE  Msg(o, type, body) \in Message
BY DEF Msg, Message

LEMMA SaveType ==
  ASSUME TypeOK, NEW d \in Device, NEW body \in Content, Save(d, body)
  PROVE  /\ holders' \subseteq Device
         /\ copy' \in [Device -> Content]
         /\ \A e \in Device \ holders' : copy'[e] = {}
         /\ d \in holders'
         /\ holders \subseteq holders'
BY DEF TypeOK, Save

LEMMA DeleteType ==
  ASSUME TypeOK, NEW d \in Device, Delete(d)
  PROVE  /\ holders' \subseteq Device
         /\ copy' \in [Device -> Content]
         /\ \A e \in Device \ holders' : copy'[e] = {}
         /\ holders \ {d} \subseteq holders'
BY DEF TypeOK, Delete, Content

LEMMA OverwriteType ==
  ASSUME TypeOK, NEW d \in Device, NEW body \in Content, NEW late \in BOOLEAN,
         Overwrite(d, body, late) \/ SaveThrows(d, body, late)
  PROVE  /\ holders' \subseteq Device
         /\ copy' \in [Device -> Content]
         /\ \A e \in Device \ holders' : copy'[e] = {}
         /\ raced' \in BOOLEAN
<1>1. CASE Overwrite(d, body, late)
  <2>1. raced' \in BOOLEAN
    BY <1>1, Zenon DEF Overwrite, Clobbers, TypeOK
  <2>. QED  BY <1>1, <2>1, SaveType DEF Overwrite
<1>2. CASE UNCHANGED <<holders, copy, raced>>
  BY <1>2 DEF TypeOK
<1>. QED  BY <1>1, <1>2 DEF SaveThrows

LEMMA MoveUnderWayType == MoveUnderWay \in BOOLEAN
BY Zenon DEF MoveUnderWay

LEMMA AnswerType ==
  ASSUME TypeOK, NEW m \in net, NEW type \in Reply, NEW body \in Content,
         Answer(m, type, body)
  PROVE  /\ net' \subseteq Message
         /\ \A n \in net' \ net : n.type \in Reply /\ n.call = m.call
<1>1. m.call \in Call
  BY DEF TypeOK, Message
<1>2. Msg(m.call, type, body) \in Message
  BY <1>1, MsgType
<1>. QED  BY <1>2 DEF TypeOK, Answer, Msg

LEMMA MessageParts ==
  ASSUME TypeOK, NEW m \in net
  PROVE  m.call \in Call /\ m.type \in Request \cup Reply /\ m.body \in Content
BY DEF TypeOK, Message

LEMMA InitType == Init => TypeOK /\ Started
<1>. SUFFICES ASSUME Init  PROVE TypeOK /\ Started
  OBVIOUS
<1>. USE DEF Party
<1>1. holders \subseteq Device /\ copy \in [Device -> Content]
      /\ \A d \in Device \ holders : copy[d] = {}
  BY DEF Init, Content
<1>2. Closed \in [host : Party, turns : Content]
  BY DEF Closed, Content
<1>3. view \in [Device -> [host : Party, turns : Content]]
  BY <1>2 DEF Init
<1>4. call \in [Call -> [stage : Stage, dev : Party, peer : Party]]
  BY DEF Init, Stage
<1>. QED  BY <1>1, <1>3, <1>4 DEF Init, TypeOK, Started

LEMMA ReplyTypes == "ok" \in Reply /\ "err" \in Reply /\ "conversation" \in Reply
                    /\ Request \cap Reply = {} /\ {} \in Content
BY DEF Reply, Request, Content

\* TypeOK is preserved by what people do.
LEMMA UserType == TypeOK /\ User => TypeOK'
<1>. SUFFICES ASSUME TypeOK, User  PROVE TypeOK'
  OBVIOUS
<1>. USE DEF Party
<1>1. ASSUME NEW o \in Call, NEW d \in Device, NEW p \in Device, Push(o, d, p)
      PROVE  TypeOK'
  <2>1. copy[d] \in Content
    BY DEF TypeOK
  <2>2. Msg(o, "move_take", copy[d]) \in Message
    BY <2>1, MsgType DEF Request
  <2>3. net' \subseteq Message
    BY <1>1, <2>2 DEF Push, TypeOK
  <2>4. call' \in [Call -> [stage : Stage, dev : Party, peer : Party]]
    BY <1>1 DEF Push, Ask, TypeOK, Stage, Request
  <2>. QED  BY <1>1, <2>3, <2>4 DEF Push, TypeOK
<1>2. ASSUME NEW o \in Call, NEW d \in Device, NEW p \in Device, Pull(o, d, p)
      PROVE  TypeOK'
  <2>1. Msg(o, "session_fetch", {}) \in Message
    BY MsgType DEF Request, Content
  <2>2. net' \subseteq Message
    BY <1>2, <2>1 DEF Pull, TypeOK
  <2>3. call' \in [Call -> [stage : Stage, dev : Party, peer : Party]]
    BY <1>2 DEF Pull, Ask, TypeOK, Stage, Request
  <2>. QED  BY <1>2, <2>2, <2>3 DEF Pull, TypeOK
<1>3. ASSUME NEW d \in Device, NEW h \in Device, Open(d, h)  PROVE TypeOK'
  BY <1>3 DEF Open, TypeOK
<1>4. ASSUME NEW d \in Device, Close(d)  PROVE TypeOK'
  BY <1>4 DEF Close, Closed, TypeOK, Content
<1>5. ASSUME NEW d \in Device, UserDelete(d)  PROVE TypeOK'
  <2>1. view' \in [Device -> [host : Party, turns : Content]]
    BY <1>5 DEF UserDelete, Closed, TypeOK, Content
  <2>. QED  BY <1>5, <2>1, DeleteType DEF UserDelete, TypeOK
<1>6. ASSUME NEW d \in Device, NEW t \in Turn, EditLocal(d, t)  PROVE TypeOK'
  <2>. DEFINE body == view[d].turns \cup {t}
  <2>1. body \in Content
    BY DEF TypeOK, Content
  <2>2. view' \in [Device -> [host : Party, turns : Content]]
    BY <1>6, <2>1 DEF EditLocal, TypeOK
  <2>3. Overwrite(d, body, MoveUnderWay) \/ SaveThrows(d, body, MoveUnderWay)
    BY <1>6 DEF EditLocal
  <2>4. saved' \subseteq Turn
    BY <1>6 DEF EditLocal, TypeOK
  <2>. HIDE DEF body
  <2>. QED  BY <1>6, <2>1, <2>2, <2>3, <2>4, OverwriteType, MoveUnderWayType
            DEF EditLocal, TypeOK
<1>7. ASSUME NEW o \in Call, NEW d \in Device, NEW t \in Turn, EditRemote(o, d, t)
      PROVE  TypeOK'
  <2>. DEFINE body == view[d].turns \cup {t}
  <2>1. body \in Content
    BY DEF TypeOK, Content
  <2>2. Msg(o, "session_save", body) \in Message
    BY <2>1, MsgType DEF Request
  <2>3. view' \in [Device -> [host : Party, turns : Content]]
    BY <1>7, <2>1 DEF EditRemote, TypeOK
  <2>4. net' \subseteq Message
    BY <1>7, <2>2 DEF EditRemote, TypeOK
  <2>5. call' \in [Call -> [stage : Stage, dev : Party, peer : Party]]
    BY <1>7 DEF EditRemote, Ask, TypeOK, Stage, Request
  <2>. QED  BY <1>7, <2>3, <2>4, <2>5 DEF EditRemote, TypeOK
<1>. QED  BY <1>1, <1>2, <1>3, <1>4, <1>5, <1>6, <1>7 DEF User

\* The device a message is for is a device, given that only started
\* operations have messages.
LEMMA TargetType ==
  ASSUME TypeOK, Started, NEW m \in net
  PROVE  /\ Target(m) \in Device
         /\ call[m.call].dev \in Device
         /\ Target(m) # call[m.call].dev
BY MessageParts DEF Started, Target

\* TypeOK is preserved by the handlers.
LEMMA HandleType ==
  ASSUME TypeOK, Started, NEW m \in net, Handle(m)
  PROVE  TypeOK'
<1>. USE MessageParts, TargetType, ReplyTypes
<1>1. CASE HandleSessionFetch(m)
  <2>1. copy[Target(m)] \in Content
    BY DEF TypeOK
  <2>2. net' \subseteq Message
    BY <1>1, <2>1, AnswerType DEF HandleSessionFetch
  <2>. QED  BY <1>1, <2>2 DEF HandleSessionFetch, TypeOK
<1>2. CASE HandleSessionSave(m)
  <2>1. net' \subseteq Message
    BY <1>2, AnswerType DEF HandleSessionSave
  <2>2. \/ Overwrite(Target(m), m.body, MoveUnderWay)
        \/ SaveThrows(Target(m), m.body, MoveUnderWay)
    BY <1>2 DEF HandleSessionSave
  <2>. QED  BY <1>2, <2>1, <2>2, OverwriteType, MoveUnderWayType
            DEF HandleSessionSave, TypeOK
<1>3. CASE HandleMoveTake(m)
  <2>1. net' \subseteq Message
    BY <1>3, AnswerType DEF HandleMoveTake
  <2>2. Overwrite(Target(m), m.body, FALSE) \/ SaveThrows(Target(m), m.body, FALSE)
    BY <1>3 DEF HandleMoveTake
  <2>. QED  BY <1>3, <2>1, <2>2, OverwriteType DEF HandleMoveTake, TypeOK
<1>4. CASE HandleMoveDrop(m)
  <2>1. net' \subseteq Message
    BY <1>4, AnswerType DEF HandleMoveDrop
  <2>. QED  BY <1>4, <2>1, DeleteType DEF HandleMoveDrop, TypeOK
<1>. QED  BY <1>1, <1>2, <1>3, <1>4 DEF Handle

\* TypeOK is preserved when a caller resumes, fails, or a request is lost.
LEMMA SettleType ==
  ASSUME TypeOK, NEW o \in Call, Settle(o)
  PROVE  call' \in [Call -> [stage : Stage, dev : Party, peer : Party]]
BY DEF TypeOK, Settle, Stage

LEMMA ResumeType ==
  ASSUME TypeOK, Started, NEW m \in net, Resume(m)
  PROVE  TypeOK'
<1>. USE MessageParts, TargetType
<1>1. CASE PushAnswered(m)
  <2>1. Delete(call[m.call].dev) \/ UNCHANGED <<holders, copy>>
    BY <1>1 DEF PushAnswered
  <2>2. net' \subseteq Message
    BY <1>1 DEF PushAnswered, TypeOK
  <2>. QED  BY <1>1, <2>1, <2>2, DeleteType, SettleType DEF PushAnswered, TypeOK
<1>2. CASE PullFetched(m)
  <2>. DEFINE d == call[m.call].dev
  <2>1. CASE /\ Overwrite(d, m.body, FALSE)
             /\ call' = [call EXCEPT ![m.call].stage = "move_drop"]
             /\ net' = (net \ {m}) \cup {Msg(m.call, "move_drop", {})}
    <3>1. Msg(m.call, "move_drop", {}) \in Message
      BY MsgType DEF Request, Content
    <3>2. net' \subseteq Message
      BY <2>1, <3>1 DEF TypeOK
    <3>3. call' \in [Call -> [stage : Stage, dev : Party, peer : Party]]
      BY <2>1 DEF TypeOK, Stage, Request
    <3>. QED  BY <1>2, <2>1, <3>2, <3>3, OverwriteType DEF PullFetched, TypeOK
  <2>2. CASE Settle(m.call) /\ net' = net \ {m} /\ SaveThrows(d, m.body, FALSE)
    BY <1>2, <2>2, SettleType, OverwriteType DEF PullFetched, TypeOK
  <2>3. CASE Settle(m.call) /\ net' = net \ {m} /\ UNCHANGED <<holders, copy, raced>>
    BY <1>2, <2>3, SettleType DEF PullFetched, TypeOK
  <2>. QED  BY <1>2, <2>1, <2>2, <2>3 DEF PullFetched
<1>3. CASE PullDropped(m)
  BY <1>3, SettleType DEF PullDropped, TypeOK
<1>4. CASE SaveAnswered(m)
  <2>1. saved' \subseteq Turn
    BY <1>4 DEF SaveAnswered, TypeOK, Content
  <2>. QED  BY <1>4, <2>1, SettleType DEF SaveAnswered, TypeOK
<1>. QED  BY <1>1, <1>2, <1>3, <1>4 DEF Resume

\* A started operation stays started, with its two devices, and a message
\* is only ever added to a started operation.
LEMMA StartedStep == TypeOK /\ Started /\ [Next]_vars => Started'
<1>. SUFFICES ASSUME TypeOK, Started, [Next]_vars  PROVE Started'
  OBVIOUS
<1>. USE MessageParts, TargetType
<1>1. ASSUME NEW o \in Call, NEW d \in Device, NEW p \in Device,
             Push(o, d, p) \/ Pull(o, d, p)
      PROVE  Started'
  <2>. DEFINE stage == IF Push(o, d, p) THEN "move_take" ELSE "session_fetch"
  <2>1. d # p /\ call' = [call EXCEPT ![o] = [stage |-> stage, dev |-> d, peer |-> p]]
    BY <1>1 DEF Push, Pull, Ask
  <2>2. \A m \in net' : m \in net \/ m.call = o
    BY <1>1 DEF Push, Pull, Msg
  <2>. QED  BY <2>1, <2>2 DEF Started, TypeOK
<1>2. ASSUME NEW o \in Call, NEW d \in Device, NEW t \in Turn, EditRemote(o, d, t)
      PROVE  Started'
  <2>1. call' = [call EXCEPT ![o] = [stage |-> "session_save", dev |-> d,
                                     peer |-> view[d].host]]
    BY <1>2 DEF EditRemote, Ask
  <2>2. \A m \in net' : m \in net \/ m.call = o
    BY <1>2 DEF EditRemote, Msg
  <2>3. view[d].host \in Device \ {d}
    BY <1>2 DEF EditRemote
  <2>. QED  BY <2>1, <2>2, <2>3 DEF Started, TypeOK
<1>3. ASSUME NEW m \in net, Handle(m)  PROVE Started'
  <2>1. UNCHANGED call
    BY <1>3 DEF Handle, HandleSessionFetch, HandleSessionSave, HandleMoveTake,
                HandleMoveDrop
  <2>2. \A n \in net' : n \in net \/ n.call = m.call
    <3>1. PICK type, body : Answer(m, type, body)
      BY <1>3 DEF Handle, HandleSessionFetch, HandleSessionSave, HandleMoveTake,
                  HandleMoveDrop
    <3>. QED  BY <3>1 DEF Answer, Msg
  <2>. QED  BY <2>1, <2>2 DEF Started
<1>4. ASSUME NEW m \in net, Resume(m)  PROVE Started'
  <2>1. Settle(m.call) \/ call' = [call EXCEPT ![m.call].stage = "move_drop"]
    BY <1>4 DEF Resume, PushAnswered, PullFetched, PullDropped, SaveAnswered
  <2>2. \A n \in net' : n \in net \/ n.call = m.call
    <3>1. \/ net' = net \ {m}
          \/ net' = (net \ {m}) \cup {Msg(m.call, "move_drop", {})}
      BY <1>4 DEF Resume, PushAnswered, PullFetched, PullDropped, SaveAnswered
    <3>. QED  BY <3>1 DEF Msg
  <2>3. call[m.call].stage # "unused"
    BY DEF Started
  <2>4. ASSUME NEW q \in Call
        PROVE  /\ call'[q].dev = call[q].dev /\ call'[q].peer = call[q].peer
               /\ call'[q].stage # "unused" <=> call[q].stage # "unused"
    <3>1. call \in [Call -> [stage : Stage, dev : Party, peer : Party]] /\ m.call \in Call
      BY DEF TypeOK
    <3>2. CASE Settle(m.call)
      BY <2>3, <3>1, <3>2 DEF Settle
    <3>3. CASE call' = [call EXCEPT ![m.call].stage = "move_drop"]
      BY <2>3, <3>1, <3>3
    <3>. QED  BY <2>1, <3>2, <3>3
  <2>. QED  BY <2>2, <2>3, <2>4 DEF Started
<1>5. ASSUME NEW o \in Call, CallFails(o)  PROVE Started'
  BY <1>5 DEF CallFails, Settle, Started, TypeOK, Request
<1>6. CASE \/ UNCHANGED <<call, net>>
           \/ \E m \in net : Lose(m)
  BY <1>6 DEF Lose, Started
<1>7. CASE User
  <2>1. ASSUME NEW d \in Device, NEW h \in Device, Open(d, h)  PROVE UNCHANGED <<call, net>>
    BY <2>1 DEF Open
  <2>2. ASSUME NEW d \in Device, Close(d) \/ UserDelete(d)  PROVE UNCHANGED <<call, net>>
    BY <2>2 DEF Close, UserDelete
  <2>3. ASSUME NEW d \in Device, NEW t \in Turn, EditLocal(d, t)
        PROVE  UNCHANGED <<call, net>>
    BY <2>3 DEF EditLocal
  <2>. QED  BY <1>1, <1>2, <1>6, <1>7, <2>1, <2>2, <2>3 DEF User
<1>8. CASE UNCHANGED vars
  BY <1>6, <1>8 DEF vars
<1>. QED  BY <1>3, <1>4, <1>5, <1>6, <1>7, <1>8 DEF Next

\* The state stays well typed whatever people do, moves overlapping or not.
THEOREM TypeCorrect == Spec => [](TypeOK /\ Started)
<1>1. TypeOK /\ Started /\ [Next]_vars => TypeOK'
  <2>. SUFFICES ASSUME TypeOK, Started, [Next]_vars  PROVE TypeOK'
    OBVIOUS
  <2>1. ASSUME NEW o \in Call, CallFails(o)  PROVE TypeOK'
    BY <2>1, SettleType DEF CallFails, TypeOK
  <2>2. ASSUME NEW m \in net, Lose(m)  PROVE TypeOK'
    BY <2>2 DEF Lose, TypeOK
  <2>3. CASE UNCHANGED vars
    BY <2>3 DEF vars, TypeOK
  <2>. QED  BY <2>1, <2>2, <2>3, UserType, HandleType, ResumeType DEF Next
<1>. QED  BY <1>1, InitType, StartedStep, PTL DEF Spec

----------------------------------------------------------------------------
\* Who may delete a copy.  Every step but these keeps all holders.

\* A step of the protocol releases the copy of `d` and of nobody else.
Releases(d) ==
  \/ \E m \in net : m.type = "move_drop" /\ d = Target(m)
  \/ \E m \in net : /\ m.type = "ok" /\ call[m.call].stage = "move_take"
                    /\ d = call[m.call].dev

LEMMA MsgFields ==
  ASSUME NEW o, NEW type, NEW body
  PROVE  /\ Msg(o, type, body).call = o
         /\ Msg(o, type, body).type = type
         /\ Msg(o, type, body).body = body
BY DEF Msg

\* A holder stays one, unless a person deletes its copy or a move releases it.
LEMMA HoldersStep ==
  ASSUME TypeOK, Started, [Next]_vars, NEW d \in holders
  PROVE  d \in holders' \/ discarded' \/ Releases(d)
<1>. USE MessageParts, TargetType
<1>1. CASE User
  BY <1>1 DEF User, Push, Pull, Open, Close, UserDelete, EditLocal, EditRemote,
              Overwrite, SaveThrows, Save
<1>2. ASSUME NEW m \in net, Handle(m)  PROVE d \in holders' \/ Releases(d)
  BY <1>2 DEF Handle, HandleSessionFetch, HandleSessionSave, HandleMoveTake,
              HandleMoveDrop, Overwrite, SaveThrows, Save, Delete, Releases
<1>3. ASSUME NEW m \in net, Resume(m)  PROVE d \in holders' \/ Releases(d)
  BY <1>3 DEF Resume, PushAnswered, PullFetched, PullDropped, SaveAnswered,
              Overwrite, SaveThrows, Save, Delete, Releases, Accepted, Waiting
<1>4. ASSUME NEW m \in net, Lose(m)  PROVE d \in holders'
  BY <1>4 DEF Lose
<1>5. ASSUME NEW o \in Call, CallFails(o)  PROVE d \in holders'
  BY <1>5 DEF CallFails
<1>6. CASE UNCHANGED vars
  BY <1>6 DEF vars
<1>. QED  BY <1>1, <1>2, <1>3, <1>4, <1>5, <1>6 DEF Next

\* Nobody takes a person's delete back.
LEMMA DiscardedStays == discarded /\ [Next]_vars => discarded'
BY DEF Next, vars, User, Push, Pull, Open, Close, UserDelete, EditLocal, EditRemote,
       Handle, HandleSessionFetch, HandleSessionSave, HandleMoveTake, HandleMoveDrop,
       Resume, PushAnswered, PullFetched, PullDropped, SaveAnswered, Lose, CallFails

\* The steps of an operation: a call changes only from unused (people), or by
\* settling, or from session_fetch to move_drop; a request is only added by
\* the operation that enters its stage.
CallStep(o) ==
  \/ call'[o] = call[o]
  \/ call[o].stage = "unused" /\ call'[o].stage = "session_save"
  \/ call[o].stage = "unused" /\ ~MoveUnderWay
       /\ call'[o].stage \in {"move_take", "session_fetch"}
  \/ /\ call'[o].stage = "settled" /\ call[o].stage \in Request
     /\ call'[o].dev = call[o].dev /\ call'[o].peer = call[o].peer
  \/ /\ call[o].stage = "session_fetch" /\ call'[o].stage = "move_drop"
     /\ call'[o].dev = call[o].dev /\ call'[o].peer = call[o].peer
     /\ call[o].dev \in holders'

NetStep(n) ==
  \/ n \in net
  \/ /\ n.type \in Request /\ n.call \in Call
     /\ call'[n.call].stage = n.type /\ call[n.call].stage # n.type
  \/ /\ n.type \in Reply /\ n.call \in Call /\ call'[n.call] = call[n.call]
     /\ \E m \in net : /\ m.call = n.call /\ m.type \in Request
                       /\ (m.type = "move_take" /\ n.type = "ok") => Target(m) \in holders'

LEMMA AnswerNet ==
  ASSUME NEW m, NEW type, NEW body, Answer(m, type, body), NEW n \in net'
  PROVE  n \in net \/ (n.call = m.call /\ n.type = type)
BY MsgFields DEF Answer

\* Every step is made of such steps, when moves do not overlap.
LEMMA StepShape ==
  ASSUME TypeOK, Started, [Next]_vars, ~MovesOverlap
  PROVE  (\A o \in Call : CallStep(o)) /\ (\A n \in net' : NetStep(n))
<1>. USE MessageParts, TargetType, ReplyTypes
<1>1. ASSUME NEW o \in Call, NEW d \in Device, NEW p \in Device,
             Push(o, d, p) \/ Pull(o, d, p)
      PROVE  (\A q \in Call : CallStep(q)) /\ (\A n \in net' : NetStep(n))
  <2>. DEFINE stage == IF Push(o, d, p) THEN "move_take" ELSE "session_fetch"
  <2>1. /\ call[o].stage = "unused" /\ ~MoveUnderWay
        /\ call' = [call EXCEPT ![o] = [stage |-> stage, dev |-> d, peer |-> p]]
    BY <1>1 DEF Push, Pull, Ask
  <2>2. \A n \in net' : n \in net \/ (n.call = o /\ n.type = stage)
    BY <1>1, MsgFields DEF Push, Pull, Ask
  <2>3. \A q \in Call : CallStep(q)
    BY <2>1 DEF CallStep, TypeOK
  <2>4. stage \in Request /\ stage # "unused"
    BY DEF Request
  <2>. HIDE DEF stage
  <2>5. \A n \in net' : NetStep(n)
    BY <2>1, <2>2, <2>4 DEF NetStep, TypeOK
  <2>. QED  BY <2>3, <2>5
<1>2. ASSUME NEW o \in Call, NEW d \in Device, NEW t \in Turn, EditRemote(o, d, t)
      PROVE  (\A q \in Call : CallStep(q)) /\ (\A n \in net' : NetStep(n))
  <2>1. /\ call[o].stage = "unused"
        /\ call' = [call EXCEPT ![o] = [stage |-> "session_save", dev |-> d,
                                        peer |-> view[d].host]]
    BY <1>2 DEF EditRemote, Ask
  <2>2. \A n \in net' : n \in net \/ (n.call = o /\ n.type = "session_save")
    BY <1>2, MsgFields DEF EditRemote
  <2>. QED  BY <2>1, <2>2 DEF CallStep, NetStep, TypeOK, Request
<1>3. ASSUME NEW m \in net, Handle(m)
      PROVE  (\A q \in Call : CallStep(q)) /\ (\A n \in net' : NetStep(n))
  <2>1. UNCHANGED call
    BY <1>3 DEF Handle, HandleSessionFetch, HandleSessionSave, HandleMoveTake,
                HandleMoveDrop
  <2>2. \A n \in net' : n \in net \/
           /\ n.type \in Reply /\ n.call = m.call /\ m.type \in Request
           /\ (m.type = "move_take" /\ n.type = "ok") => Target(m) \in holders'
    <3>1. CASE HandleSessionFetch(m)
      BY <3>1, AnswerNet DEF HandleSessionFetch, Request
    <3>2. CASE HandleSessionSave(m)
      BY <3>2, AnswerNet DEF HandleSessionSave, Request
    <3>3. CASE HandleMoveTake(m)
      <4>1. CASE Overwrite(Target(m), m.body, FALSE) /\ Answer(m, "ok", {})
        <5>1. Target(m) \in holders'
          BY <4>1 DEF Overwrite, Save
        <5>. QED  BY <3>3, <4>1, <5>1, AnswerNet DEF HandleMoveTake, Request
      <4>2. CASE Answer(m, "err", {})
        BY <3>3, <4>2, AnswerNet DEF HandleMoveTake, Request
      <4>. QED  BY <3>3, <4>1, <4>2 DEF HandleMoveTake
    <3>4. CASE HandleMoveDrop(m)
      BY <3>4, AnswerNet DEF HandleMoveDrop, Request
    <3>. QED  BY <1>3, <3>1, <3>2, <3>3, <3>4 DEF Handle
  <2>. QED  BY <2>1, <2>2 DEF CallStep, NetStep
<1>4. ASSUME NEW m \in net, Resume(m)
      PROVE  (\A q \in Call : CallStep(q)) /\ (\A n \in net' : NetStep(n))
  <2>1. CASE Settle(m.call) /\ net' = net \ {m} /\ call[m.call].stage \in Request
    BY <2>1 DEF Settle, CallStep, NetStep, TypeOK
  <2>2. CASE /\ call' = [call EXCEPT ![m.call].stage = "move_drop"]
             /\ net' = (net \ {m}) \cup {Msg(m.call, "move_drop", {})}
             /\ call[m.call].stage = "session_fetch"
             /\ Save(call[m.call].dev, m.body)
    BY <2>2, MsgFields DEF CallStep, NetStep, TypeOK, Request, Save
  <2>3. CASE PullFetched(m)
    BY <2>1, <2>2, <2>3 DEF PullFetched, Waiting, Request, Overwrite
  <2>4. CASE PushAnswered(m) \/ PullDropped(m) \/ SaveAnswered(m)
    BY <2>1, <2>4 DEF PushAnswered, PullDropped, SaveAnswered, Waiting, Request
  <2>. QED  BY <1>4, <2>3, <2>4 DEF Resume
<1>5. ASSUME NEW o \in Call, CallFails(o)
      PROVE  (\A q \in Call : CallStep(q)) /\ (\A n \in net' : NetStep(n))
  BY <1>5 DEF CallFails, Settle, CallStep, NetStep, TypeOK
<1>6. CASE UNCHANGED call /\ net' \subseteq net
  BY <1>6 DEF CallStep, NetStep
<1>7. CASE User
  <2>1. ASSUME NEW d \in Device, NEW h \in Device, Open(d, h)  PROVE UNCHANGED <<call, net>>
    BY <2>1 DEF Open
  <2>2. ASSUME NEW d \in Device, Close(d) \/ UserDelete(d)  PROVE UNCHANGED <<call, net>>
    BY <2>2 DEF Close, UserDelete
  <2>3. ASSUME NEW d \in Device, NEW t \in Turn, EditLocal(d, t)
        PROVE  UNCHANGED <<call, net>>
    BY <2>3 DEF EditLocal
  <2>. QED  BY <1>1, <1>2, <1>6, <1>7, <2>1, <2>2, <2>3 DEF User
<1>8. ASSUME NEW m \in net, Lose(m)
      PROVE  (\A q \in Call : CallStep(q)) /\ (\A n \in net' : NetStep(n))
  BY <1>6, <1>8 DEF Lose
<1>9. CASE UNCHANGED vars
  BY <1>6, <1>9 DEF vars
<1>. QED  BY <1>3, <1>4, <1>5, <1>7, <1>8, <1>9 DEF Next

\* The inductive invariant is preserved, part by part.

LEMMA MatchingStep ==
  ASSUME IInv, [Next]_vars, ~MovesOverlap
  PROVE  Matching'
<1>1. \A o \in Call : CallStep(o)
  BY StepShape DEF IInv
<1>2. \A n \in net' : NetStep(n)
  BY StepShape DEF IInv
<1>. SUFFICES ASSUME NEW n \in net', n.type \in Request
              PROVE  \/ call'[n.call].stage \in {n.type, "settled"}
                     \/ n.type = "session_fetch" /\ call'[n.call].stage = "move_drop"
  BY DEF Matching
<1>3. CASE n \in net
  <2>1. /\ n.call \in Call
        /\ call[n.call].stage # "unused"
        /\ \/ call[n.call].stage \in {n.type, "settled"}
           \/ n.type = "session_fetch" /\ call[n.call].stage = "move_drop"
    BY <1>3, MessageParts DEF IInv, Matching, Started
  <2>2. CallStep(n.call)
    BY <1>1, <2>1
  <2>. QED  BY <2>1, <2>2 DEF CallStep, Request
<1>4. CASE n \notin net
  BY <1>2, <1>4, ReplyTypes DEF NetStep
<1>. QED  BY <1>3, <1>4

\* A step concerns one operation at most.
LEMMA OneCallChanges ==
  ASSUME TypeOK, Started, [Next]_vars,
         NEW o1 \in Call, NEW o2 \in Call,
         call'[o1] # call[o1], call'[o2] # call[o2]
  PROVE  o1 = o2
<1>. USE MessageParts
<1>1. CASE User
  BY <1>1 DEF User, Push, Pull, Open, Close, UserDelete, EditLocal, EditRemote, Ask, TypeOK
<1>2. ASSUME NEW m \in net, Handle(m) \/ Resume(m) \/ Lose(m)  PROVE o1 = o2
  BY <1>2 DEF Handle, HandleSessionFetch, HandleSessionSave, HandleMoveTake,
       HandleMoveDrop, Resume, PushAnswered, PullFetched, PullDropped, SaveAnswered,
       Lose, Settle, TypeOK
<1>3. ASSUME NEW o \in Call, CallFails(o)  PROVE o1 = o2
  BY <1>3 DEF CallFails, Settle, TypeOK
<1>4. CASE UNCHANGED vars
  BY <1>4 DEF vars
<1>. QED  BY <1>1, <1>2, <1>3, <1>4 DEF Next

LEMMA InMoveIsUnderWay ==
  ASSUME NEW o \in Call, InMove(o)
  PROVE  MoveUnderWay
BY DEF InMove, MoveUnderWay, MoveStage

\* An operation becomes a move only by being started while no move is under
\* way.
LEMMA InMoveStep ==
  ASSUME IInv, [Next]_vars, ~MovesOverlap, NEW o \in Call, InMove(o)'
  PROVE  InMove(o) \/ (~MoveUnderWay /\ call'[o] # call[o])
<1>1. CallStep(o)
  BY StepShape DEF IInv
<1>2. CASE call'[o].stage \in MoveStage
  BY <1>1, <1>2 DEF CallStep, InMove, MoveStage
<1>3. ASSUME NEW n \in net', n.call = o, n.type \in {"move_take", "move_drop"}
      PROVE  InMove(o) \/ call'[o].stage \in MoveStage
  <2>1. NetStep(n)
    BY StepShape DEF IInv
  <2>. QED  BY <1>3, <2>1, ReplyTypes DEF NetStep, InMove, MoveStage, Request
<1>. QED  BY <1>2, <1>3 DEF InMove

LEMMA OneMoveStep ==
  ASSUME IInv, [Next]_vars, ~MovesOverlap
  PROVE  OneMove'
<1>. SUFFICES ASSUME NEW o1 \in Call, NEW o2 \in Call, InMove(o1)', InMove(o2)'
              PROVE  o1 = o2
  BY DEF OneMove
<1>1. CASE InMove(o1) /\ InMove(o2)
  BY <1>1 DEF IInv, OneMove
<1>2. CASE ~MoveUnderWay
  BY <1>2, InMoveStep, InMoveIsUnderWay, OneCallChanges DEF IInv
<1>. QED  BY <1>1, <1>2, InMoveStep

\* The device that PushKept or PullKept names is not the one a step releases:
\* the move that may release is the only one, and it releases its other end.
LEMMA AcceptedIsNotReleased ==
  ASSUME IInv, NEW n \in net, n.type = "ok", call[n.call].stage = "move_take"
  PROVE  ~Releases(call[n.call].peer)
<1>. USE MessageParts
<1>1. InMove(n.call)
  BY DEF InMove, MoveStage
<1>2. ASSUME NEW m \in net, m.type = "move_drop"  PROVE FALSE
  <2>1. InMove(m.call) /\ call[m.call].stage # "move_take"
    BY <1>2 DEF IInv, InMove, Matching, Request
  <2>. QED  BY <1>1, <2>1 DEF IInv, OneMove
<1>3. ASSUME NEW m \in net, m.type = "ok", call[m.call].stage = "move_take",
             call[n.call].peer = call[m.call].dev
      PROVE  FALSE
  <2>1. InMove(m.call)
    BY <1>3 DEF InMove, MoveStage
  <2>2. m.call = n.call
    BY <1>1, <2>1 DEF IInv, OneMove
  <2>. QED  BY <1>3, <2>2 DEF IInv, Started
<1>. QED  BY <1>2, <1>3 DEF Releases

LEMMA PullerIsNotReleased ==
  ASSUME IInv, NEW n \in net, n.type = "move_drop"
  PROVE  ~Releases(call[n.call].dev)
<1>. USE MessageParts
<1>1. InMove(n.call) /\ call[n.call].stage \in {"move_drop", "settled"}
      /\ call[n.call].dev # call[n.call].peer
  BY DEF IInv, InMove, Matching, Started, Request
<1>2. ASSUME NEW m \in net, m.type = "move_drop", call[n.call].dev = Target(m)
      PROVE  FALSE
  <2>1. InMove(m.call)
    BY <1>2 DEF InMove
  <2>. QED  BY <1>1, <1>2, <2>1 DEF IInv, OneMove, Target
<1>3. ASSUME NEW m \in net, m.type = "ok", call[m.call].stage = "move_take"
      PROVE  FALSE
  <2>1. InMove(m.call)
    BY <1>3 DEF InMove, MoveStage
  <2>. QED  BY <1>1, <1>3, <2>1 DEF IInv, OneMove
<1>. QED  BY <1>2, <1>3 DEF Releases

LEMMA PushKeptStep ==
  ASSUME IInv, [Next]_vars, ~MovesOverlap
  PROVE  PushKept'
<1>. SUFFICES ASSUME NEW n \in net', n.type = "ok", call'[n.call].stage = "move_take",
                     ~discarded'
              PROVE  call'[n.call].peer \in holders'
  BY DEF PushKept
<1>. DEFINE o == n.call
<1>1. NetStep(n) /\ ~discarded
  BY StepShape, DiscardedStays DEF IInv
<1>2. o \in Call
  BY <1>1, MessageParts DEF NetStep, IInv
<1>3. CallStep(o)
  BY <1>2, StepShape DEF IInv
<1>4. CASE n \in net
  <2>1. call[o].stage # "unused"
    BY <1>4 DEF IInv, Started
  <2>2. call'[o] = call[o]
    BY <1>3, <2>1 DEF CallStep
  <2>3. call[o].peer \in holders /\ call[o].stage = "move_take" /\ InMove(o)
    BY <1>1, <1>4, <2>2 DEF IInv, PushKept, InMove, MoveStage
  <2>4. ~Releases(call[o].peer)
    BY <1>4, <2>3, AcceptedIsNotReleased
  <2>. QED  BY <2>2, <2>3, <2>4, HoldersStep DEF IInv
<1>5. CASE n \notin net
  <2>1. PICK m \in net : /\ m.call = o /\ m.type \in Request
                         /\ m.type = "move_take" => Target(m) \in holders'
                         /\ call'[o] = call[o]
    BY <1>1, <1>5, ReplyTypes DEF NetStep, Reply, Request
  <2>2. m.type = "move_take"
    BY <2>1 DEF IInv, Matching, Request
  <2>. QED  BY <2>1, <2>2 DEF Target
<1>. QED  BY <1>4, <1>5

LEMMA PullKeptStep ==
  ASSUME IInv, [Next]_vars, ~MovesOverlap
  PROVE  PullKept'
<1>. SUFFICES ASSUME NEW n \in net', n.type = "move_drop", ~discarded'
              PROVE  call'[n.call].dev \in holders'
  BY DEF PullKept
<1>. DEFINE o == n.call
<1>1. NetStep(n) /\ ~discarded
  BY StepShape, DiscardedStays DEF IInv
<1>2. o \in Call
  BY <1>1, MessageParts DEF NetStep, IInv
<1>3. CallStep(o)
  BY <1>2, StepShape DEF IInv
<1>4. CASE n \in net
  <2>1. /\ call[o].stage \in {"move_drop", "settled"} /\ InMove(o)
        /\ call[o].dev \in holders
        /\ call[o].dev # call[o].peer
    BY <1>1, <1>2, <1>4 DEF IInv, Matching, Started, PullKept, InMove, Request
  <2>2. call'[o].dev = call[o].dev
    BY <1>3, <2>1 DEF CallStep
  <2>3. ~Releases(call[o].dev)
    BY <1>4, PullerIsNotReleased
  <2>. QED  BY <2>1, <2>2, <2>3, HoldersStep DEF IInv
<1>5. CASE n \notin net
  <2>1. call'[o].stage = "move_drop" /\ call[o].stage # "move_drop"
    BY <1>1, <1>5, ReplyTypes DEF NetStep, Reply
  <2>. QED  BY <1>3, <2>1 DEF CallStep
<1>. QED  BY <1>4, <1>5

\* Whatever a step releases, another device keeps.
LEMMA ReleaseLeavesOne ==
  ASSUME IInv, ~discarded, NEW d, Releases(d)
  PROVE  \E e \in holders : e # d
<1>. USE MessageParts
<1>1. ASSUME NEW m \in net, m.type = "move_drop", d = Target(m)
      PROVE  \E e \in holders : e # d
  BY <1>1 DEF IInv, PullKept, Started, Target
<1>2. ASSUME NEW m \in net, m.type = "ok", call[m.call].stage = "move_take",
             d = call[m.call].dev
      PROVE  \E e \in holders : e # d
  BY <1>2 DEF IInv, PushKept, Started
<1>. QED  BY <1>1, <1>2 DEF Releases

----------------------------------------------------------------------------
\* The steps in terms of ConversationOwnership.

LEMMA SaveIsWrite ==
  ASSUME NEW d \in Device, NEW body, NEW late, UNCHANGED discarded,
         Overwrite(d, body, late) \/ SaveThrows(d, body, late)
  PROVE  [Ownership!Next]_Ownership!vars
BY DEF Overwrite, SaveThrows, Save, Ownership!Next, Ownership!Write, Ownership!vars

LEMMA DeleteIsRelease ==
  ASSUME IInv, NEW d \in Device, Delete(d), Releases(d), UNCHANGED discarded
  PROVE  [Ownership!Next]_Ownership!vars
<1>1. CASE UNCHANGED <<holders, copy>> \/ d \notin holders
  BY <1>1 DEF Delete, Ownership!vars
<1>2. CASE d \in holders /\ holders' = holders \ {d}
  <2>1. discarded \/ holders \ {d} # {}
    BY ReleaseLeavesOne
  <2>. QED  BY <1>2, <2>1 DEF Ownership!Next, Ownership!Release
<1>. QED  BY <1>1, <1>2 DEF Delete

LEMMA OwnershipStep ==
  ASSUME IInv, [Next]_vars
  PROVE  [Ownership!Next]_Ownership!vars
<1>. USE MessageParts, TargetType DEF IInv
<1>1. ASSUME UNCHANGED <<holders, discarded>>
      PROVE  [Ownership!Next]_Ownership!vars
  BY <1>1 DEF Ownership!vars
<1>2. CASE User
  <2>1. ASSUME NEW d \in Device, UserDelete(d)  PROVE Ownership!Next
    BY <2>1 DEF UserDelete, Delete, Ownership!Next, Ownership!Discard
  <2>2. ASSUME NEW d \in Device, NEW t \in Turn, EditLocal(d, t)
        PROVE  [Ownership!Next]_Ownership!vars
    BY <1>1, <2>2, SaveIsWrite DEF EditLocal
  <2>3. ASSUME NEW o \in Call, NEW d \in Device, NEW p \in Device, NEW t \in Turn,
               \/ Push(o, d, p) \/ Pull(o, d, p) \/ Open(d, p) \/ Close(d)
               \/ EditRemote(o, d, t)
        PROVE  UNCHANGED <<holders, discarded>>
    BY <2>3 DEF Push, Pull, Open, Close, EditRemote
  <2>4. ASSUME NEW d \in Device, NEW h \in Device, Open(d, h) \/ Close(d)
        PROVE  UNCHANGED <<holders, discarded>>
    BY <2>4 DEF Open, Close
  <2>5. ASSUME NEW o \in Call, NEW d \in Device, NEW p \in Device,
               Push(o, d, p) \/ Pull(o, d, p)
        PROVE  UNCHANGED <<holders, discarded>>
    BY <2>5 DEF Push, Pull
  <2>6. ASSUME NEW o \in Call, NEW d \in Device, NEW t \in Turn, EditRemote(o, d, t)
        PROVE  UNCHANGED <<holders, discarded>>
    BY <2>6 DEF EditRemote
  <2>. QED  BY <1>1, <1>2, <2>1, <2>2, <2>4, <2>5, <2>6 DEF User
<1>3. ASSUME NEW m \in net, Handle(m)  PROVE [Ownership!Next]_Ownership!vars
  <2>1. CASE HandleSessionFetch(m)
    BY <1>1, <2>1 DEF HandleSessionFetch
  <2>2. CASE HandleSessionSave(m)
    BY <1>1, <2>2, SaveIsWrite DEF HandleSessionSave
  <2>3. CASE HandleMoveTake(m)
    BY <1>1, <2>3, SaveIsWrite DEF HandleMoveTake
  <2>4. CASE HandleMoveDrop(m)
    BY <2>4, DeleteIsRelease DEF HandleMoveDrop, Releases
  <2>. QED  BY <1>3, <2>1, <2>2, <2>3, <2>4 DEF Handle
<1>4. ASSUME NEW m \in net, Resume(m)  PROVE [Ownership!Next]_Ownership!vars
  <2>1. CASE PushAnswered(m)
    <3>1. CASE Accepted(m)
      BY <2>1, <3>1, DeleteIsRelease DEF PushAnswered, Releases, Accepted, Waiting
    <3>2. CASE ~Accepted(m)
      BY <1>1, <2>1, <3>2 DEF PushAnswered
    <3>. QED  BY <3>1, <3>2
  <2>2. CASE PullFetched(m)
    BY <1>1, <2>2, SaveIsWrite DEF PullFetched
  <2>3. CASE PullDropped(m) \/ SaveAnswered(m)
    BY <1>1, <2>3 DEF PullDropped, SaveAnswered
  <2>. QED  BY <1>4, <2>1, <2>2, <2>3 DEF Resume
<1>5. ASSUME NEW m \in net, Lose(m)  PROVE UNCHANGED <<holders, discarded>>
  BY <1>5 DEF Lose
<1>6. ASSUME NEW o \in Call, CallFails(o)  PROVE UNCHANGED <<holders, discarded>>
  BY <1>6 DEF CallFails
<1>7. CASE UNCHANGED vars
  BY <1>1, <1>7 DEF vars
<1>. QED  BY <1>1, <1>2, <1>3, <1>4, <1>5, <1>6, <1>7 DEF Next

LEMMA InitIInv == Init => IInv
<1>. SUFFICES ASSUME Init  PROVE IInv
  OBVIOUS
<1>1. Matching /\ PushKept /\ PullKept
  BY DEF Init, Matching, PushKept, PullKept
<1>2. OneMove
  BY DEF Init, OneMove, InMove, MoveStage
<1>3. NeverLost
  BY DEF Init, NeverLost
<1>. QED  BY <1>1, <1>2, <1>3, InitType DEF IInv

LEMMA NeverLostStep ==
  ASSUME NeverLost, [Ownership!Next]_Ownership!vars
  PROVE  NeverLost'
<1>1. ASSUME NEW d \in Device, Ownership!Write(d)  PROVE NeverLost'
  BY <1>1 DEF Ownership!Write, NeverLost
<1>2. ASSUME NEW d \in Device, Ownership!Release(d)  PROVE NeverLost'
  BY <1>2 DEF Ownership!Release, NeverLost
<1>3. ASSUME NEW d \in Device, Ownership!Discard(d)  PROVE NeverLost'
  BY <1>3 DEF Ownership!Discard, NeverLost
<1>4. CASE UNCHANGED Ownership!vars
  BY <1>4 DEF Ownership!vars, NeverLost
<1>. QED  BY <1>1, <1>2, <1>3, <1>4 DEF Ownership!Next

\* IInv is inductive when moves do not overlap.
LEMMA Inductive ==
  ASSUME ~MovesOverlap
  PROVE  Spec => []IInv
<1>1. TypeOK' /\ Started' /\ IInv /\ [Next]_vars => IInv'
  <2>. SUFFICES ASSUME TypeOK', Started', IInv, [Next]_vars
                PROVE  IInv'
    OBVIOUS
  <2>1. NeverLost'
    BY OwnershipStep, NeverLostStep DEF IInv
  <2>. QED  BY <2>1, MatchingStep, OneMoveStep, PushKeptStep, PullKeptStep DEF IInv
<1>. QED  BY <1>1, InitIInv, TypeCorrect, PTL DEF Spec

\* No move loses the conversation, for every network, as long as a move starts
\* only when the one before it is over.
THEOREM ConversationNeverLost ==
  ASSUME ~MovesOverlap
  PROVE  Spec => []NeverLost
<1>1. IInv => NeverLost
  BY DEF IInv
<1>. QED  BY <1>1, Inductive, PTL

\* Then the protocol also implements the abstract specification.
THEOREM OwnershipImplemented ==
  ASSUME ~MovesOverlap
  PROVE  Spec => ImplementsOwnership
<1>1. Init => Ownership!Init
  BY DEF Init, Ownership!Init
<1>2. IInv /\ [Next]_vars => [Ownership!Next]_Ownership!vars
  BY OwnershipStep
<1>. QED  BY <1>1, <1>2, Inductive, PTL DEF Spec, ImplementsOwnership, Ownership!Spec

----------------------------------------------------------------------------
(***************************************************************************)
(* The turns in the copies.                                                *)
(***************************************************************************)

\* The two requests of a move that change a disk belong to different moves: a
\* push never drops, a pull never takes.
OneWay ==
  \A m1, m2 \in net : m1.type = "move_take" /\ m2.type = "move_drop" => m1.call # m2.call

\* What a push sends has all the pusher's turns until the answer is in.
PushCovers ==
  \A m \in net : m.type = "move_take" /\ call[m.call].stage = "move_take" =>
    copy[call[m.call].dev] \subseteq m.body

\* So has the copy of a peer that accepted it.
AcceptedCovers ==
  \A m \in net : m.type = "ok" /\ call[m.call].stage = "move_take" =>
    copy[call[m.call].dev] \subseteq copy[call[m.call].peer]

\* What a pull fetched has all the source's turns,
FetchCovers ==
  \A m \in net : m.type = "conversation" /\ call[m.call].stage = "session_fetch" =>
    copy[call[m.call].peer] \subseteq m.body

\* and so has the puller's copy while the source is asked to drop its own.
PullCovers ==
  \A m \in net : m.type = "move_drop" =>
    copy[call[m.call].peer] \subseteq copy[call[m.call].dev]

Kept(t) == \E d \in holders : t \in copy[d]

\* The turns of a save on a peer that succeeded are kept from the moment the
\* peer answers, not only once the answer is heard.
AnsweredKept ==
  \A m \in net : m.type = "ok" /\ call[m.call].stage = "session_save" =>
    \A t \in m.body : Kept(t)

SavedKept == \A t \in saved : Kept(t)

\* The inductive invariant behind SavedTurnsKept, on top of IInv: whenever a
\* copy may be released, another holder has every turn that is in it.
Covered == PushCovers /\ AcceptedCovers /\ FetchCovers /\ PullCovers
TurnsInv == OneWay /\ (raced \/ discarded \/ (Covered /\ AnsweredKept /\ SavedKept))

LEMMA RacedStays ==
  ASSUME TypeOK, raced, [Next]_vars
  PROVE  raced'
<1>. USE DEF Overwrite, SaveThrows
<1>1. CASE User
  BY <1>1, Zenon DEF User, Push, Pull, Open, Close, UserDelete, EditLocal, EditRemote
<1>2. ASSUME NEW m \in net, Handle(m)  PROVE raced'
  BY <1>2, Zenon DEF Handle, HandleSessionFetch, HandleSessionSave, HandleMoveTake,
                     HandleMoveDrop
<1>3. ASSUME NEW m \in net, Resume(m)  PROVE raced'
  BY <1>3, Zenon DEF Resume, PushAnswered, PullFetched, PullDropped, SaveAnswered
<1>4. ASSUME NEW m \in net, Lose(m)  PROVE raced'
  BY <1>4 DEF Lose
<1>5. ASSUME NEW o \in Call, CallFails(o)  PROVE raced'
  BY <1>5 DEF CallFails
<1>6. CASE UNCHANGED vars
  BY <1>6 DEF vars
<1>. QED  BY <1>1, <1>2, <1>3, <1>4, <1>5, <1>6 DEF Next

\* A save that is not a race keeps what the file had, and none happens by an
\* edit while a move is under way.
LEMMA SaveGrows ==
  ASSUME TypeOK, NEW d \in Device, NEW body \in Content, NEW late \in BOOLEAN, ~raced',
         Overwrite(d, body, late) \/ SaveThrows(d, body, late)
  PROVE  /\ \A e \in holders : e \in holders' /\ copy[e] \subseteq copy'[e]
         /\ \A e \in Device : copy'[e] = copy[e] \/ (e = d /\ ~late)
<1>1. CASE Overwrite(d, body, late)
  <2>1. ~Clobbers(d, body) /\ ~late
    BY <1>1, Zenon DEF Overwrite
  <2>2. holders' = holders \cup {d} /\ copy' = [copy EXCEPT ![d] = body]
    BY <1>1 DEF Overwrite, Save
  <2>. QED  BY <2>1, <2>2 DEF Clobbers, TypeOK
<1>2. CASE UNCHANGED <<holders, copy, raced>>
  BY <1>2
<1>. QED  BY <1>1, <1>2 DEF SaveThrows

\* What a step does to the disks.
CopiesGrow == \A e \in holders : e \in holders' /\ copy[e] \subseteq copy'[e]
OnlyWrites(d) == \A e \in Device : copy'[e] = copy[e] \/ e = d
OnlyReleases(d) ==
  /\ Releases(d)
  /\ \A e \in Device : copy'[e] \subseteq copy[e] /\ (copy'[e] = copy[e] \/ e = d)
  /\ \A e \in holders : e = d \/ (e \in holders' /\ copy'[e] = copy[e])

\* The writes of a move: what a push brings to a peer's disk, and what a pull
\* brings to its own.
MoveWrites(d) ==
  \/ \E m \in net : m.type = "move_take" /\ d = Target(m)
  \/ \E m \in net : /\ m.type = "conversation" /\ call[m.call].stage = "session_fetch"
                    /\ d = call[m.call].dev

DiskStep ==
  \/ UNCHANGED <<holders, copy>>
  \/ CopiesGrow /\ ~MoveUnderWay
  \/ \E d \in Device : CopiesGrow /\ OnlyWrites(d) /\ MoveWrites(d)
  \/ \E d \in Device : OnlyReleases(d)

LEMMA DeleteReleases ==
  ASSUME TypeOK, NEW d \in Device, Delete(d), Releases(d)
  PROVE  OnlyReleases(d)
BY DEF TypeOK, Delete, OnlyReleases

LEMMA DiskShape ==
  ASSUME TypeOK, Started, [Next]_vars, ~raced', ~discarded'
  PROVE  DiskStep
<1>. USE MessageParts, TargetType, MoveUnderWayType
<1>1. ASSUME UNCHANGED <<holders, copy>>  PROVE DiskStep
  BY <1>1 DEF DiskStep
<1>2. ASSUME NEW d \in Device, NEW body \in Content,
             \/ Overwrite(d, body, MoveUnderWay)
             \/ SaveThrows(d, body, MoveUnderWay)
      PROVE  DiskStep
  <2>1. CASE ~MoveUnderWay
    BY <1>2, <2>1, SaveGrows DEF CopiesGrow, DiskStep
  <2>2. CASE MoveUnderWay
    <3>1. ~Overwrite(d, body, MoveUnderWay)
      BY <2>2, Zenon DEF Overwrite
    <3>. QED  BY <1>2, <1>1, <3>1 DEF SaveThrows
  <2>. QED  BY <2>1, <2>2
<1>3. ASSUME NEW d \in Device, NEW body \in Content, MoveWrites(d),
             Overwrite(d, body, FALSE) \/ SaveThrows(d, body, FALSE)
      PROVE  DiskStep
  <2>1. CopiesGrow /\ OnlyWrites(d)
    BY <1>3, SaveGrows DEF CopiesGrow, OnlyWrites
  <2>. QED  BY <1>3, <2>1 DEF DiskStep
<1>4. CASE User
  <2>1. ASSUME NEW d \in Device, UserDelete(d)  PROVE FALSE
    BY <2>1 DEF UserDelete
  <2>2. ASSUME NEW d \in Device, NEW t \in Turn, EditLocal(d, t)  PROVE DiskStep
    <3>1. view[d].turns \cup {t} \in Content
      BY DEF TypeOK, Content
    <3>. QED  BY <2>2, <3>1, <1>2 DEF EditLocal
  <2>3. ASSUME NEW o \in Call, NEW d \in Device, NEW p \in Device,
               Push(o, d, p) \/ Pull(o, d, p)
        PROVE  DiskStep
    BY <2>3, <1>1 DEF Push, Pull
  <2>4. ASSUME NEW d \in Device, NEW h \in Device, Open(d, h) \/ Close(d)
        PROVE  DiskStep
    BY <2>4, <1>1 DEF Open, Close
  <2>5. ASSUME NEW o \in Call, NEW d \in Device, NEW t \in Turn, EditRemote(o, d, t)
        PROVE  DiskStep
    BY <2>5, <1>1 DEF EditRemote
  <2>. QED  BY <1>4, <2>1, <2>2, <2>3, <2>4, <2>5 DEF User
<1>5. ASSUME NEW m \in net, Handle(m)  PROVE DiskStep
  <2>1. CASE HandleSessionFetch(m)
    BY <1>1, <2>1 DEF HandleSessionFetch
  <2>2. CASE HandleSessionSave(m)
    BY <1>2, <2>2 DEF HandleSessionSave
  <2>3. CASE HandleMoveTake(m)
    <3>1. MoveWrites(Target(m))
      BY <2>3 DEF HandleMoveTake, MoveWrites
    <3>. QED  BY <1>3, <2>3, <3>1 DEF HandleMoveTake
  <2>4. CASE HandleMoveDrop(m)
    <3>1. Releases(Target(m)) /\ Delete(Target(m))
      BY <2>4 DEF HandleMoveDrop, Releases
    <3>. QED  BY <3>1, DeleteReleases DEF DiskStep
  <2>. QED  BY <1>5, <2>1, <2>2, <2>3, <2>4 DEF Handle
<1>6. ASSUME NEW m \in net, Resume(m)  PROVE DiskStep
  <2>1. CASE PushAnswered(m)
    <3>1. CASE Accepted(m)
      <4>1. Releases(call[m.call].dev) /\ Delete(call[m.call].dev)
        BY <2>1, <3>1 DEF PushAnswered, Releases, Accepted, Waiting
      <4>. QED  BY <4>1, DeleteReleases DEF DiskStep
    <3>2. CASE ~Accepted(m)
      BY <1>1, <2>1, <3>2 DEF PushAnswered
    <3>. QED  BY <3>1, <3>2
  <2>2. CASE PullFetched(m)
    <3>1. CASE m.type = "conversation"
      <4>1. MoveWrites(call[m.call].dev)
        BY <2>2, <3>1 DEF PullFetched, Waiting, MoveWrites
      <4>2. \/ Overwrite(call[m.call].dev, m.body, FALSE)
            \/ SaveThrows(call[m.call].dev, m.body, FALSE)
        BY <2>2, <3>1 DEF PullFetched
      <4>. QED  BY <1>3, <4>1, <4>2
    <3>2. CASE m.type # "conversation"
      BY <1>1, <2>2, <3>2 DEF PullFetched
    <3>. QED  BY <3>1, <3>2
  <2>3. CASE PullDropped(m) \/ SaveAnswered(m)
    BY <1>1, <2>3 DEF PullDropped, SaveAnswered
  <2>. QED  BY <1>6, <2>1, <2>2, <2>3 DEF Resume
<1>7. ASSUME NEW m \in net, Lose(m)  PROVE DiskStep
  BY <1>1, <1>7 DEF Lose
<1>8. ASSUME NEW o \in Call, CallFails(o)  PROVE DiskStep
  BY <1>1, <1>8 DEF CallFails
<1>9. CASE UNCHANGED vars
  BY <1>1, <1>9 DEF vars
<1>. QED  BY <1>4, <1>5, <1>6, <1>7, <1>8, <1>9 DEF Next

\* A holder that is not released keeps what it has.
LEMMA HolderGrows ==
  ASSUME TypeOK, Started, [Next]_vars, ~raced', ~discarded',
         NEW e \in holders, ~Releases(e)
  PROVE  e \in holders' /\ copy[e] \subseteq copy'[e]
BY DiskShape DEF DiskStep, CopiesGrow, OnlyReleases

\* While a move is under way only the move itself adds to a disk.
LEMMA OthersShrink ==
  ASSUME TypeOK, Started, [Next]_vars, ~raced', ~discarded',
         NEW o \in Call, InMove(o), NEW e \in Device, ~MoveWrites(e)
  PROVE  copy'[e] \subseteq copy[e]
BY DiskShape, InMoveIsUnderWay DEF DiskStep, OnlyWrites, OnlyReleases

LEMMA WriterIsTheMove ==
  ASSUME IInv, NEW o \in Call, InMove(o), NEW d, MoveWrites(d)
  PROVE  \/ /\ d = call[o].peer
            /\ \E m \in net : m.call = o /\ m.type = "move_take"
         \/ d = call[o].dev /\ call[o].stage = "session_fetch"
<1>. USE MessageParts
<1>1. ASSUME NEW m \in net, m.type = "move_take", d = Target(m)
      PROVE  m.call = o
  BY <1>1 DEF IInv, OneMove, InMove
<1>2. ASSUME NEW m \in net, call[m.call].stage = "session_fetch"
      PROVE  m.call = o
  BY <1>2 DEF IInv, OneMove, InMove, MoveStage
<1>. QED  BY <1>1, <1>2 DEF MoveWrites, Target

\* The device that a move will let go of is not written by it.
LEMMA PusherIsNotWritten ==
  ASSUME IInv, NEW o \in Call, call[o].stage = "move_take"
  PROVE  ~MoveWrites(call[o].dev)
BY WriterIsTheMove DEF IInv, InMove, MoveStage, Started

LEMMA SourceIsNotWritten ==
  ASSUME IInv, NEW o \in Call, call[o].stage = "session_fetch"
  PROVE  ~MoveWrites(call[o].peer)
BY WriterIsTheMove DEF IInv, InMove, MoveStage, Started, Matching, Request

LEMMA DroppedIsNotWritten ==
  ASSUME IInv, OneWay, NEW m \in net, m.type = "move_drop"
  PROVE  ~MoveWrites(call[m.call].peer)
<1>1. /\ m.call \in Call /\ InMove(m.call)
      /\ call[m.call].stage \in {"move_drop", "settled"}
  BY MessageParts DEF IInv, InMove, Matching, Request
<1>. QED  BY <1>1, WriterIsTheMove DEF OneWay

\* What a message says when it is sent.
Fresh(n) ==
  LET dev == call[n.call].dev
      peer == call[n.call].peer IN
  /\ n.type = "move_take" => copy' = copy /\ n.body = copy[call'[n.call].dev]
  /\ n.type = "conversation" => copy' = copy /\ n.body = copy[peer]
  /\ n.type = "ok" /\ call[n.call].stage = "move_take" =>
       \E m \in net : /\ m.type = "move_take" /\ m.call = n.call
                      /\ copy'[peer] = m.body /\ copy'[dev] = copy[dev]
  /\ n.type = "ok" /\ call[n.call].stage = "session_save" =>
       peer \in holders' /\ copy'[peer] = n.body
  /\ n.type = "move_drop" =>
       /\ call[n.call].stage = "session_fetch"
       /\ \E m \in net : /\ m.type = "conversation" /\ m.call = n.call
                         /\ copy'[dev] = m.body /\ copy'[peer] = copy[peer]

LEMMA AnswerFields ==
  ASSUME NEW m \in net, NEW type, NEW body, Answer(m, type, body), NEW n \in net' \ net
  PROVE  n.call = m.call /\ n.type = type /\ n.body = body
BY MsgFields DEF Answer

LEMMA SavedCopy ==
  ASSUME TypeOK, NEW d \in Device, NEW body, Save(d, body)
  PROVE  d \in holders' /\ copy'[d] = body /\ \A e \in Device \ {d} : copy'[e] = copy[e]
BY DEF TypeOK, Save

\* How a save is answered: an ok says what is in the copy.
LEMMA SaveReplied ==
  ASSUME NEW m \in net, NEW d, NEW body, NEW answer, NEW n \in net' \ net,
         (Save(d, body) /\ Answer(m, "ok", answer)) \/ Answer(m, "err", {})
  PROVE  /\ n.call = m.call
         /\ n.type = "err" \/ (n.type = "ok" /\ n.body = answer /\ Save(d, body))
<1>1. CASE Save(d, body) /\ Answer(m, "ok", answer)
  BY <1>1, AnswerFields
<1>2. CASE Answer(m, "err", {})
  BY <1>2, AnswerFields
<1>. QED  BY <1>1, <1>2

LEMMA SentFresh ==
  ASSUME IInv, [Next]_vars, NEW n \in net' \ net
  PROVE  Fresh(n)
<1>. USE MessageParts, TargetType DEF IInv
<1>1. ASSUME NEW o \in Call, NEW d \in Device, NEW p \in Device, Push(o, d, p)
      PROVE  Fresh(n)
  <2>1. n.call = o /\ n.type = "move_take" /\ n.body = copy[d]
    BY <1>1, MsgFields DEF Push
  <2>2. call'[o].dev = d /\ copy' = copy
    BY <1>1 DEF Push, Ask, TypeOK
  <2>. QED  BY <2>1, <2>2 DEF Fresh
<1>2. ASSUME NEW o \in Call, NEW d \in Device, NEW p \in Device, Pull(o, d, p)
      PROVE  Fresh(n)
  BY <1>2, MsgFields DEF Pull, Fresh
<1>3. ASSUME NEW o \in Call, NEW d \in Device, NEW t \in Turn, EditRemote(o, d, t)
      PROVE  Fresh(n)
  BY <1>3, MsgFields DEF EditRemote, Fresh
<1>4. CASE User
  <2>1. ASSUME NEW d \in Device, NEW h \in Device, Open(d, h)  PROVE net' = net
    BY <2>1 DEF Open
  <2>2. ASSUME NEW d \in Device, Close(d) \/ UserDelete(d)  PROVE net' = net
    BY <2>2 DEF Close, UserDelete
  <2>3. ASSUME NEW d \in Device, NEW t \in Turn, EditLocal(d, t)  PROVE net' = net
    BY <2>3 DEF EditLocal
  <2>. QED  BY <1>1, <1>2, <1>3, <1>4, <2>1, <2>2, <2>3 DEF User
<1>5. ASSUME NEW m \in net, Handle(m)  PROVE Fresh(n)
  <2>1. CASE HandleSessionFetch(m)
    <3>1. \/ n.call = m.call /\ n.type = "conversation" /\ n.body = copy[Target(m)]
          \/ n.type = "err"
      BY <2>1, AnswerFields DEF HandleSessionFetch
    <3>. QED  BY <2>1, <3>1 DEF HandleSessionFetch, Fresh, Target
  <2>2. CASE HandleSessionSave(m)
    <3>1. /\ n.call = m.call
          /\ n.type = "err" \/ (n.type = "ok" /\ n.body = m.body /\ Save(Target(m), m.body))
      BY <2>2, SaveReplied DEF HandleSessionSave, Overwrite
    <3>2. CASE n.type = "ok"
      <4>1. Target(m) \in holders' /\ copy'[Target(m)] = m.body
        BY <3>1, <3>2, SavedCopy
      <4>2. call[m.call].stage # "move_take"
        BY <2>2 DEF HandleSessionSave, Matching, Request
      <4>. QED  BY <3>1, <3>2, <4>1, <4>2 DEF Fresh, Target
    <3>. QED  BY <3>1, <3>2 DEF Fresh
  <2>3. CASE HandleMoveTake(m)
    <3>1. /\ n.call = m.call
          /\ n.type = "err" \/ (n.type = "ok" /\ n.body = {} /\ Save(Target(m), m.body))
      BY <2>3, SaveReplied DEF HandleMoveTake, Overwrite
    <3>2. CASE n.type = "ok"
      <4>1. /\ copy'[Target(m)] = m.body
            /\ copy'[call[m.call].dev] = copy[call[m.call].dev]
        BY <3>1, <3>2, SavedCopy
      <4>2. m.type = "move_take" /\ call[m.call].stage # "session_save"
        BY <2>3 DEF HandleMoveTake, Matching, Request
      <4>. QED  BY <3>1, <3>2, <4>1, <4>2 DEF Fresh, Target
    <3>. QED  BY <3>1, <3>2 DEF Fresh
  <2>4. CASE HandleMoveDrop(m)
    <3>1. n.call = m.call /\ n.type = "ok"
      BY <2>4, AnswerFields DEF HandleMoveDrop
    <3>2. call[m.call].stage \notin {"move_take", "session_save"}
      BY <2>4 DEF HandleMoveDrop, Matching, Request
    <3>. QED  BY <3>1, <3>2 DEF Fresh
  <2>. QED  BY <1>5, <2>1, <2>2, <2>3, <2>4 DEF Handle
<1>6. ASSUME NEW m \in net, Resume(m)  PROVE Fresh(n)
  <2>1. /\ PullFetched(m) /\ m.type = "conversation" /\ Save(call[m.call].dev, m.body)
        /\ n = Msg(m.call, "move_drop", {})
    BY <1>6 DEF Resume, PushAnswered, PullFetched, PullDropped, SaveAnswered, Overwrite
  <2>2. n.call = m.call /\ n.type = "move_drop" /\ call[m.call].stage = "session_fetch"
    BY <2>1, MsgFields DEF PullFetched, Waiting
  <2>3. /\ copy'[call[m.call].dev] = m.body
        /\ copy'[call[m.call].peer] = copy[call[m.call].peer]
    BY <2>1, SavedCopy DEF Target
  <2>. QED  BY <2>1, <2>2, <2>3 DEF Fresh
<1>7. ASSUME NEW m \in net, Lose(m)  PROVE net' \subseteq net
  BY <1>7 DEF Lose
<1>8. ASSUME NEW o \in Call, CallFails(o)  PROVE net' \subseteq net
  BY <1>8 DEF CallFails
<1>9. CASE UNCHANGED vars
  BY <1>9 DEF vars
<1>. QED  BY <1>4, <1>5, <1>6, <1>7, <1>8, <1>9 DEF Next

\* Every part of TurnsInv is preserved.

\* The request or answer that a message of this step is about was already there.
LEMMA OldCall ==
  ASSUME IInv, ~MovesOverlap, [Next]_vars, NEW n \in net
  PROVE  /\ n.call \in Call
         /\ call'[n.call].dev = call[n.call].dev /\ call'[n.call].peer = call[n.call].peer
         /\ call'[n.call].stage \notin {"move_drop", "settled"} =>
              call'[n.call] = call[n.call]
<1>1. CallStep(n.call) /\ call[n.call].stage # "unused"
  BY StepShape, MessageParts DEF IInv, Started
<1>2. n.call \in Call
  BY MessageParts DEF IInv
<1>. HIDE DEF IInv
<1>3. CASE call'[n.call] = call[n.call]
  BY <1>2, <1>3
<1>4. CASE call'[n.call] # call[n.call]
  BY <1>1, <1>2, <1>4 DEF CallStep
<1>. QED  BY <1>3, <1>4

LEMMA OneWayStep ==
  ASSUME IInv, OneWay, ~MovesOverlap, [Next]_vars
  PROVE  OneWay'
<1>. SUFFICES ASSUME NEW m1 \in net', NEW m2 \in net',
                     m1.type = "move_take", m2.type = "move_drop", m1.call = m2.call
              PROVE  FALSE
  BY DEF OneWay
<1>1. NetStep(m1) /\ NetStep(m2)
  BY StepShape DEF IInv
<1>2. CASE m1 \in net /\ m2 \in net
  BY <1>2 DEF OneWay
<1>3. CASE m1 \in net /\ m2 \notin net
  <2>1. call[m2.call].stage = "session_fetch"
    BY <1>3, SentFresh DEF Fresh
  <2>. QED  BY <1>3, <2>1 DEF IInv, Matching, Request
<1>4. CASE m1 \notin net
  <2>1. call'[m1.call].stage = "move_take" /\ call[m1.call].stage # "move_take"
        /\ m1.call \in Call
    BY <1>1, <1>4, ReplyTypes DEF NetStep, Reply
  <2>2. CallStep(m1.call)
    BY <2>1, StepShape DEF IInv
  <2>3. call[m1.call].stage = "unused"
    BY <2>1, <2>2 DEF CallStep
  <2>4. m2 \notin net
    BY <2>3 DEF IInv, Started
  <2>5. call'[m2.call].stage = "move_drop"
    BY <1>1, <2>4, ReplyTypes DEF NetStep, Reply
  <2>. QED  BY <2>1, <2>5
<1>. QED  BY <1>2, <1>3, <1>4

LEMMA PushCoversStep ==
  ASSUME IInv, PushCovers, ~MovesOverlap, [Next]_vars, ~raced', ~discarded'
  PROVE  PushCovers'
<1>. SUFFICES ASSUME NEW n \in net', n.type = "move_take", call'[n.call].stage = "move_take"
              PROVE  copy'[call'[n.call].dev] \subseteq n.body
  BY DEF PushCovers
<1>1. CASE n \in net
  <2>1. n.call \in Call /\ call'[n.call] = call[n.call] /\ call[n.call].stage = "move_take"
    BY <1>1, OldCall
  <2>2. InMove(n.call) /\ call[n.call].dev \in Device /\ ~MoveWrites(call[n.call].dev)
    BY <1>1, <2>1, PusherIsNotWritten, TargetType DEF IInv, InMove, MoveStage
  <2>3. copy'[call[n.call].dev] \subseteq copy[call[n.call].dev]
    BY <2>1, <2>2, OthersShrink DEF IInv
  <2>. QED  BY <1>1, <2>1, <2>3 DEF PushCovers
<1>2. CASE n \notin net
  BY <1>2, SentFresh DEF Fresh
<1>. QED  BY <1>1, <1>2

\* An answer is about a call that goes on waiting.
LEMMA AnsweredCall ==
  ASSUME IInv, ~MovesOverlap, [Next]_vars, NEW n \in net', n.type \in Reply,
         call'[n.call].stage \notin {"move_drop", "settled"}
  PROVE  n.call \in Call /\ call'[n.call] = call[n.call]
<1>1. CASE n \in net
  BY <1>1, OldCall
<1>2. CASE n \notin net
  BY <1>2, StepShape, ReplyTypes DEF NetStep, IInv
<1>. QED  BY <1>1, <1>2

LEMMA AcceptedCoversStep ==
  ASSUME IInv, PushCovers, AcceptedCovers, ~MovesOverlap, [Next]_vars,
         ~raced', ~discarded, ~discarded'
  PROVE  AcceptedCovers'
<1>. SUFFICES ASSUME NEW n \in net', n.type = "ok", call'[n.call].stage = "move_take"
              PROVE  copy'[call'[n.call].dev] \subseteq copy'[call'[n.call].peer]
  BY DEF AcceptedCovers
<1>. DEFINE dev == call[n.call].dev
            peer == call[n.call].peer
<1>1. n.call \in Call /\ call'[n.call] = call[n.call] /\ call[n.call].stage = "move_take"
  BY AnsweredCall, ReplyTypes
<1>2. CASE n \in net
  <2>1. InMove(n.call) /\ dev \in Device /\ ~MoveWrites(dev)
    BY <1>1, <1>2, PusherIsNotWritten, TargetType DEF IInv, InMove, MoveStage
  <2>2. copy'[dev] \subseteq copy[dev]
    BY <1>1, <2>1, OthersShrink DEF IInv
  <2>3. peer \in holders /\ ~Releases(peer)
    BY <1>1, <1>2, AcceptedIsNotReleased DEF IInv, PushKept
  <2>4. copy[peer] \subseteq copy'[peer]
    BY <2>3, HolderGrows DEF IInv
  <2>5. copy[dev] \subseteq copy[peer]
    BY <1>1, <1>2 DEF AcceptedCovers
  <2>. QED  BY <1>1, <2>2, <2>4, <2>5
<1>3. CASE n \notin net
  <2>1. PICK m \in net : /\ m.type = "move_take" /\ m.call = n.call
                         /\ copy'[peer] = m.body /\ copy'[dev] = copy[dev]
    BY <1>1, <1>3, SentFresh DEF Fresh
  <2>2. copy[dev] \subseteq m.body
    BY <1>1, <2>1 DEF PushCovers
  <2>. QED  BY <1>1, <2>1, <2>2
<1>. QED  BY <1>2, <1>3

LEMMA FetchCoversStep ==
  ASSUME IInv, FetchCovers, ~MovesOverlap, [Next]_vars, ~raced', ~discarded'
  PROVE  FetchCovers'
<1>. SUFFICES ASSUME NEW n \in net', n.type = "conversation",
                     call'[n.call].stage = "session_fetch"
              PROVE  copy'[call'[n.call].peer] \subseteq n.body
  BY DEF FetchCovers
<1>. DEFINE peer == call[n.call].peer
<1>1. n.call \in Call /\ call'[n.call] = call[n.call]
      /\ call[n.call].stage = "session_fetch"
  BY AnsweredCall, ReplyTypes
<1>2. CASE n \in net
  <2>1. InMove(n.call) /\ peer \in Device /\ ~MoveWrites(peer)
    BY <1>1, <1>2, SourceIsNotWritten, TargetType DEF IInv, InMove, MoveStage, Target
  <2>2. copy'[peer] \subseteq copy[peer]
    BY <1>1, <2>1, OthersShrink DEF IInv
  <2>. QED  BY <1>1, <1>2, <2>2 DEF FetchCovers
<1>3. CASE n \notin net
  BY <1>1, <1>3, SentFresh DEF Fresh
<1>. QED  BY <1>2, <1>3

LEMMA PullCoversStep ==
  ASSUME IInv, OneWay, FetchCovers, PullCovers, ~MovesOverlap, [Next]_vars,
         ~raced', ~discarded, ~discarded'
  PROVE  PullCovers'
<1>. SUFFICES ASSUME NEW n \in net', n.type = "move_drop"
              PROVE  copy'[call'[n.call].peer] \subseteq copy'[call'[n.call].dev]
  BY DEF PullCovers
<1>. DEFINE dev == call[n.call].dev
            peer == call[n.call].peer
<1>1. CASE n \in net
  <2>1. n.call \in Call /\ call'[n.call].dev = dev /\ call'[n.call].peer = peer
    BY <1>1, OldCall
  <2>2. InMove(n.call) /\ peer \in Device /\ ~MoveWrites(peer)
    BY <1>1, DroppedIsNotWritten, TargetType DEF IInv, InMove, Target
  <2>3. copy'[peer] \subseteq copy[peer]
    BY <2>1, <2>2, OthersShrink DEF IInv
  <2>4. dev \in holders /\ ~Releases(dev)
    BY <1>1, PullerIsNotReleased DEF IInv, PullKept
  <2>5. copy[dev] \subseteq copy'[dev]
    BY <2>4, HolderGrows DEF IInv
  <2>6. copy[peer] \subseteq copy[dev]
    BY <1>1 DEF PullCovers
  <2>. QED  BY <2>1, <2>3, <2>5, <2>6
<1>2. CASE n \notin net
  <2>1. call[n.call].stage = "session_fetch"
    BY <1>2, SentFresh DEF Fresh
  <2>2. PICK m \in net : /\ m.type = "conversation" /\ m.call = n.call
                         /\ copy'[dev] = m.body /\ copy'[peer] = copy[peer]
    BY <1>2, SentFresh DEF Fresh
  <2>3. call'[n.call].dev = dev /\ call'[n.call].peer = peer
    BY <2>2, OldCall
  <2>4. copy[peer] \subseteq m.body
    BY <2>1, <2>2 DEF FetchCovers
  <2>. QED  BY <2>2, <2>3, <2>4
<1>. QED  BY <1>1, <1>2

\* No step loses a turn that some holder has: if the holder is released,
\* another one has the turn too and is not released.
LEMMA KeptStep ==
  ASSUME IInv, Covered, [Next]_vars, ~raced', ~discarded, ~discarded', NEW t, Kept(t)
  PROVE  Kept(t)'
<1>1. ASSUME NEW e \in holders, t \in copy[e], ~Releases(e)  PROVE Kept(t)'
  BY <1>1, HolderGrows DEF IInv, Kept
<1>2. PICK d \in holders : t \in copy[d]
  BY DEF Kept
<1>3. ASSUME NEW m \in net, m.type = "move_drop", d = Target(m)  PROVE Kept(t)'
  <2>1. call[m.call].dev \in holders /\ ~Releases(call[m.call].dev)
    BY <1>3, PullerIsNotReleased DEF IInv, PullKept
  <2>2. t \in copy[call[m.call].dev]
    BY <1>2, <1>3 DEF Covered, PullCovers, Target
  <2>. QED  BY <1>1, <2>1, <2>2
<1>4. ASSUME NEW m \in net, m.type = "ok", call[m.call].stage = "move_take",
             d = call[m.call].dev
      PROVE  Kept(t)'
  <2>1. call[m.call].peer \in holders /\ ~Releases(call[m.call].peer)
    BY <1>4, AcceptedIsNotReleased DEF IInv, PushKept
  <2>2. t \in copy[call[m.call].peer]
    BY <1>2, <1>4 DEF Covered, AcceptedCovers
  <2>. QED  BY <1>1, <2>1, <2>2
<1>. QED  BY <1>1, <1>2, <1>3, <1>4 DEF Releases

LEMMA AnsweredKeptStep ==
  ASSUME IInv, Covered, AnsweredKept, ~MovesOverlap, [Next]_vars,
         ~raced', ~discarded, ~discarded'
  PROVE  AnsweredKept'
<1>. SUFFICES ASSUME NEW n \in net', n.type = "ok", call'[n.call].stage = "session_save",
                     NEW t \in n.body
              PROVE  Kept(t)'
  BY DEF AnsweredKept
<1>1. n.call \in Call /\ call'[n.call] = call[n.call] /\ call[n.call].stage = "session_save"
  BY AnsweredCall, ReplyTypes
<1>2. CASE n \in net
  BY <1>1, <1>2, KeptStep DEF AnsweredKept
<1>3. CASE n \notin net
  BY <1>1, <1>3, SentFresh DEF Fresh, Kept
<1>. QED  BY <1>2, <1>3

\* A save is reported as done by the view that wrote the file itself, or by an
\* answer of the peer that wrote it.
LEMMA SavedStep ==
  ASSUME TypeOK, [Next]_vars, NEW t \in saved' \ saved
  PROVE  \/ \E d \in Device : d \in holders' /\ t \in copy'[d]
         \/ \E m \in net : /\ m.type = "ok" /\ call[m.call].stage = "session_save"
                           /\ t \in m.body
<1>1. CASE User
  <2>1. ASSUME NEW d \in Device, NEW u \in Turn, EditLocal(d, u)
        PROVE  d \in holders' /\ t \in copy'[d]
    <3>1. t = u /\ Save(d, view[d].turns \cup {u})
      BY <2>1 DEF EditLocal, Overwrite
    <3>. QED  BY <3>1, SavedCopy
  <2>. QED  BY <1>1, <2>1 DEF User, Push, Pull, Open, Close, UserDelete, EditRemote
<1>2. ASSUME NEW m \in net, Resume(m)
      PROVE  m.type = "ok" /\ call[m.call].stage = "session_save" /\ t \in m.body
  BY <1>2 DEF Resume, PushAnswered, PullFetched, PullDropped, SaveAnswered, Accepted, Waiting
<1>3. ASSUME NEW m \in net, Handle(m) \/ Lose(m)  PROVE FALSE
  BY <1>3 DEF Handle, HandleSessionFetch, HandleSessionSave, HandleMoveTake,
              HandleMoveDrop, Lose
<1>4. ASSUME NEW o \in Call, CallFails(o)  PROVE FALSE
  BY <1>4 DEF CallFails
<1>5. CASE UNCHANGED vars
  BY <1>5 DEF vars
<1>. QED  BY <1>1, <1>2, <1>3, <1>4, <1>5 DEF Next

LEMMA SavedKeptStep ==
  ASSUME IInv, Covered, AnsweredKept, SavedKept, [Next]_vars,
         ~raced', ~discarded, ~discarded'
  PROVE  SavedKept'
<1>. SUFFICES ASSUME NEW t \in saved'  PROVE Kept(t)'
  BY DEF SavedKept
<1>1. CASE t \in saved
  BY <1>1, KeptStep DEF SavedKept
<1>2. CASE t \notin saved
  <2>1. CASE \E d \in Device : d \in holders' /\ t \in copy'[d]
    BY <2>1 DEF Kept
  <2>2. CASE \E m \in net : /\ m.type = "ok" /\ call[m.call].stage = "session_save"
                            /\ t \in m.body
    BY <2>2, KeptStep DEF AnsweredKept
  <2>. QED  BY <1>2, <2>1, <2>2, SavedStep DEF IInv
<1>. QED  BY <1>1, <1>2

\* No move loses a turn whose save was reported as done, for every network, as
\* long as a move starts only when the one before it is over: unless a write
\* replaced turns its writer had not seen, a turn was saved while a move was
\* under way, or a person deleted a copy.
THEOREM TurnsKept ==
  ASSUME ~MovesOverlap
  PROVE  Spec => []SavedTurnsKept
<1>1. Init => TurnsInv
  BY DEF Init, TurnsInv, OneWay, Covered, PushCovers, AcceptedCovers, FetchCovers,
         PullCovers, AnsweredKept, SavedKept
<1>2. IInv /\ TurnsInv /\ [Next]_vars => TurnsInv'
  <2>. SUFFICES ASSUME IInv, TurnsInv, [Next]_vars  PROVE TurnsInv'
    OBVIOUS
  <2>1. OneWay'
    BY OneWayStep DEF TurnsInv
  <2>2. ASSUME ~raced', ~discarded'
        PROVE  (Covered /\ AnsweredKept /\ SavedKept)'
    <3>1. ~raced /\ ~discarded
      BY <2>2, RacedStays, DiscardedStays DEF IInv
    <3>2. OneWay /\ Covered /\ AnsweredKept /\ SavedKept
      BY <3>1 DEF TurnsInv
    <3>3. PushCovers' /\ FetchCovers'
      BY <2>2, <3>2, PushCoversStep, FetchCoversStep DEF Covered
    <3>4. AcceptedCovers' /\ PullCovers'
      BY <2>2, <3>1, <3>2, AcceptedCoversStep, PullCoversStep DEF Covered
    <3>5. AnsweredKept' /\ SavedKept'
      BY <2>2, <3>1, <3>2, AnsweredKeptStep, SavedKeptStep
    <3>. QED  BY <3>3, <3>4, <3>5 DEF Covered
  <2>. QED  BY <2>1, <2>2, Zenon DEF TurnsInv
<1>3. IInv /\ TurnsInv => SavedTurnsKept
  BY DEF IInv, TypeOK, TurnsInv, SavedKept, Kept, SavedTurnsKept
<1>. QED  BY <1>1, <1>2, <1>3, Inductive, PTL DEF Spec
=============================================================================
