------------------------- MODULE FileTransferProofs -------------------------
(***************************************************************************)
(* Proofs about what is moved in chunks: FileTransfer, for every number of *)
(* chunks and of clicks on "Save as..."; and, in the second half,          *)
(* TranscribeWorkers, for any jobs, ids, leftovers, channel and file.      *)
(***************************************************************************)
EXTENDS FileTransfer, TranscribeWorkers, WellFoundedInduction, TLAPS

\* The chunk pump never runs past the final chunk, and an assembly belongs to
\* a click.
Progress ==
  /\ sender.stage \in {"idle", "offering", "opening"} => sender.sent = 0
  /\ sender.stage = "pumping" => sender.sent <= Final
  /\ assembly.stage # "none" => assembly.of \in Click

Yes == offer.answer = "accepted"

\* Where a yes has got to: nothing that follows from one exists without it.
YesFirst ==
  /\ "accepted" \in rpcs => Yes
  /\ sender.stage \in {"opening", "pumping", "pumped"} => Yes
  /\ wire # {} => Yes
  /\ assembly.stage = "writing" => Yes
  /\ written => Yes

\* A success is reported after the file is on disk.
OkAfterWrite ==
  /\ "end_ok" \in rpcs => written
  /\ sender.settled = "ok" => written

\* The transfer's final chunk is in: its assembly has started.
FinalIn == Recorded(Final)

\* Before the decision nothing has been set up.
NothingYet ==
  offer.answer = "none" => active = None /\ \A k \in Click : state[k] = Fresh

\* An undisturbed transfer is listened to from the dialog on until its final
\* chunk is in.
Listens ==
  /\ assembly.stage # "none" => FinalIn /\ active # None
  /\ Yes /\ ~FinalIn => active # None /\ listening
  /\ \A k \in Click : accept[k] = "subscribing" /\ ~FinalIn => listening

\* A chunk is sent once and is either under way or recorded.
Once ==
  /\ \A i \in wire : i < sender.sent /\ ~Recorded(i)
  /\ \A i \in Index : Recorded(i) => i < sender.sent
  /\ ~FinalIn => \A i \in 0 .. sender.sent - 1 : i \in wire \/ Recorded(i)

\* The sender's stream is known to the receiver at most once, and an assembly
\* that ended has answered with the outcome.
Streams ==
  /\ "file_send" \in rpcs => \A k \in Click : ~state[k].stream
  /\ (\E k \in Click : state[k].stream) \/ "file_send" \in rpcs =>
       sender.stage \in {"opening", "pumping", "pumped"}
  /\ FinalIn /\ assembly.stage # "writing" => \E k \in Click : state[k].stream

\* A failure is reported by an assembly that wrote nothing.
FailedUnwritten ==
  /\ "end_error" \in rpcs \/ sender.settled = "failed" =>
       FinalIn /\ ~written /\ assembly.stage # "writing"
  /\ assembly.stage = "writing" => ~written
  /\ written => FinalIn

Undisturbed ==
  installed /\ Listens /\ Once /\ Streams /\ FailedUnwritten

IInv ==
  /\ TypeOK /\ Progress
  /\ YesFirst
  /\ NothingYet
  /\ disturbed \/ Undisturbed
----------------------------------------------------------------------------
\* Types, variable by variable.

SenderSet ==
  [stage : {"idle", "offering", "opening", "pumping", "pumped", "threw"},
   sent : 0 .. Chunks,
   settled : {"open", "ok", "failed"},
   cancelled : BOOLEAN,
   subscribed : BOOLEAN]

SenderOK ==
  /\ sender \in SenderSet
  /\ sender.stage \in {"idle", "offering", "opening"} => sender.sent = 0
  /\ sender.stage = "pumping" => sender.sent <= Final

OfferSet ==
  [pending : BOOLEAN, timer : BOOLEAN,
   answer : {"none", "accepted", "declined"}, replied : BOOLEAN]

Inbound == [chunks : SUBSET Index, stream : BOOLEAN]

AssemblyOK ==
  /\ assembly \in [of : Click \cup {None}, stage : {"none", "writing", "closing"}]
  /\ assembly.stage # "none" => assembly.of \in Click

LEMMA ChunksFact == Final \in Nat /\ Chunks = Final + 1 /\ Chunks \in Nat
BY ChunksAssumption DEF Final

LEMMA TypeParts ==
  TypeOK /\ Progress <=>
    /\ SenderOK
    /\ rpcs \subseteq Frame
    /\ wire \subseteq Index
    /\ installed \in BOOLEAN
    /\ offer \in OfferSet
    /\ accept \in [Click -> {"no", "dialog", "subscribing", "over"}]
    /\ state \in [Click -> Inbound]
    /\ active \in Click \cup {None}
    /\ listening \in BOOLEAN
    /\ AssemblyOK
    /\ written \in BOOLEAN
    /\ disturbed \in BOOLEAN
BY Zenon DEF TypeOK, Progress, SenderOK, SenderSet, OfferSet, Inbound, AssemblyOK

\* The actions that change the sender.
SenderActs ==
  \/ Offer \/ OfferAnswered \/ AnswerTooSlow \/ CallFails
  \/ StreamOpened \/ Pump \/ Cancel
  \/ \E frame \in Frame : StreamEnded(frame)

LEMMA SenderUnchanged ==
  ASSUME [Next]_vars, ~SenderActs
  PROVE  UNCHANGED sender
<1>. USE DEF senderVars
<1>1. CASE UNCHANGED vars  BY <1>1 DEF vars
<1>2. CASE Sending  BY <1>2 DEF Sending, SenderActs
<1>3. CASE Receiving
  BY <1>3 DEF Receiving, HandleOffer, Respond, HandleSendStream, NoHandler, Subscribed,
              HandleChunk, Written, Close
<1>4. CASE Person
  BY <1>4 DEF Person, SenderActs, Decline, AcceptClicked, DialogCloses
<1>5. CASE Trouble
  BY <1>5 DEF Trouble, SenderActs, WindowCloses, Teardown, Install, LinkBreaks, Lose,
              SubscribeFails
<1>. QED  BY <1>1, <1>2, <1>3, <1>4, <1>5 DEF Next

LEMMA OutcomeType ==
  ASSUME NEW s \in SenderSet, NEW how \in {"ok", "failed"}
  PROVE  /\ Outcome(s, how) \in SenderSet
         /\ Outcome(s, how).stage = s.stage
         /\ Outcome(s, how).sent = s.sent
         /\ Outcome(s, how).settled \in {how, s.settled}
BY ChunksFact DEF SenderSet, Outcome

LEMMA SenderType ==
  ASSUME SenderOK, [Next]_vars
  PROVE  SenderOK'
<1>. USE ChunksFact DEF SenderOK, SenderSet
<1>1. CASE Offer  BY <1>1 DEF Offer
<1>2. CASE OfferAnswered  BY <1>2 DEF OfferAnswered
<1>3. CASE AnswerTooSlow  BY <1>3 DEF AnswerTooSlow
<1>4. CASE CallFails  BY <1>4 DEF CallFails
<1>5. CASE StreamOpened
  <2>1. sender' = [sender EXCEPT !.stage = "pumping", !.subscribed = TRUE]
    BY <1>5 DEF StreamOpened
  <2>2. sender' \in SenderSet /\ sender'.stage = "pumping" /\ sender'.sent = sender.sent
    BY <2>1
  <2>3. sender.sent = 0
    BY <1>5 DEF StreamOpened
  <2>. QED  BY <2>2, <2>3
<1>6. CASE Pump
  <2>. DEFINE unsent == Outcome(sender, "failed")
  <2>1. /\ unsent \in SenderSet
        /\ unsent.sent = sender.sent
    BY OutcomeType
  <2>. HIDE DEF unsent
  <2>2. \/ sender' = [sender EXCEPT !.sent = @ + 1,
                        !.stage = IF sender.sent = Final THEN "pumped" ELSE @]
        \/ sender' = [unsent EXCEPT !.stage = "pumped", !.subscribed = FALSE]
    BY <1>6 DEF Pump, unsent
  <2>3. sender.stage = "pumping" /\ sender.sent \in 0 .. Final
    BY <1>6 DEF Pump
  <2>4. CASE sender' = [unsent EXCEPT !.stage = "pumped", !.subscribed = FALSE]
    BY <2>1, <2>4
  <2>5. CASE sender' = [sender EXCEPT !.sent = @ + 1,
                          !.stage = IF sender.sent = Final THEN "pumped" ELSE @]
    <3>. DEFINE stage == IF sender.sent = Final THEN "pumped" ELSE "pumping"
                sent == sender.sent + 1
    <3>1. sender' = [sender EXCEPT !.sent = sent, !.stage = stage]
      BY <2>3, <2>5
    <3>2. stage \in {"pumping", "pumped"} /\ sent \in 0 .. Chunks
      BY <2>3
    <3>3. stage = "pumping" => sent <= Final
      BY <2>3
    <3>. HIDE DEF stage, sent
    <3>4. sender' \in SenderSet /\ sender'.stage = stage /\ sender'.sent = sent
      BY <3>1, <3>2
    <3>. QED  BY <3>2, <3>3, <3>4
  <2>. QED  BY <2>2, <2>4, <2>5
<1>7. CASE Cancel  BY <1>7 DEF Cancel
<1>8. ASSUME NEW frame \in Frame, StreamEnded(frame)  PROVE SenderOK'
  <2>. DEFINE how == IF frame = "end_ok" THEN "ok" ELSE "failed"
              s == Outcome(sender, how)
  <2>1. s \in SenderSet /\ s.stage = sender.stage /\ s.sent = sender.sent
    BY OutcomeType
  <2>2. sender' = [s EXCEPT !.subscribed = FALSE] \/ sender' = sender
    BY <1>8 DEF StreamEnded
  <2>. HIDE DEF s
  <2>. QED  BY <2>1, <2>2
<1>9. CASE UNCHANGED sender  BY <1>9
<1>. QED
  BY <1>1, <1>2, <1>3, <1>4, <1>5, <1>6, <1>7, <1>8, <1>9, SenderUnchanged DEF SenderActs

\* The actions that change the offer.
OfferActs ==
  \/ HandleOffer \/ Decline \/ WindowCloses \/ Respond \/ Teardown
  \/ \E k \in Click : DialogCloses(k) \/ Subscribed(k)

LEMMA OfferUnchanged ==
  ASSUME [Next]_vars, ~OfferActs
  PROVE  UNCHANGED offer
<1>. USE DEF receiverVars
<1>1. CASE UNCHANGED vars  BY <1>1 DEF vars
<1>2. CASE Sending
  BY <1>2 DEF Sending, OfferAnswered, StreamOpened, Pump, StreamEnded
<1>3. CASE Receiving
  BY <1>3 DEF Receiving, OfferActs, HandleSendStream, NoHandler, HandleChunk, Written, Close
<1>4. CASE Person
  BY <1>4 DEF Person, OfferActs, Offer, Cancel, AcceptClicked
<1>5. CASE Trouble
  BY <1>5 DEF Trouble, OfferActs, CallFails, AnswerTooSlow, Install, LinkBreaks, Lose,
              SubscribeFails
<1>. QED  BY <1>1, <1>2, <1>3, <1>4, <1>5 DEF Next

LEMMA DecidedType ==
  ASSUME offer \in OfferSet, NEW answer \in {"accepted", "declined"}
  PROVE  /\ Decided(answer) \in OfferSet
         /\ Decided(answer).answer = IF offer.answer = "none" THEN answer ELSE offer.answer
BY DEF OfferSet, Decided

\* A decision is never revised.
LEMMA OfferStep ==
  ASSUME offer \in OfferSet, [Next]_vars
  PROVE  /\ offer' \in OfferSet
         /\ offer.answer # "none" => offer'.answer = offer.answer
<1>. DEFINE Goal == /\ offer' \in OfferSet
                    /\ offer.answer # "none" => offer'.answer = offer.answer
<1>1. ASSUME NEW answer \in {"accepted", "declined"}, offer' = Decided(answer)
      PROVE  Goal
  BY <1>1, DecidedType
<1>2. CASE HandleOffer  BY <1>2 DEF HandleOffer, OfferSet
<1>3. CASE WindowCloses
  <2>. DEFINE decided == Decided("declined")
  <2>1. \/ offer' = [decided EXCEPT !.timer = FALSE]
        \/ offer' = [offer EXCEPT !.timer = FALSE]
    BY <1>3 DEF WindowCloses
  <2>2. /\ decided \in OfferSet
        /\ decided.answer = IF offer.answer = "none" THEN "declined" ELSE offer.answer
    BY DecidedType
  <2>. HIDE DEF decided
  <2>. QED  BY <2>1, <2>2 DEF OfferSet
<1>4. CASE Respond  BY <1>4 DEF Respond, OfferSet
<1>5. CASE Teardown  BY <1>5 DEF Teardown, OfferSet
<1>6. CASE Decline  BY <1>1, <1>6 DEF Decline
<1>7. ASSUME NEW k \in Click, DialogCloses(k)  PROVE Goal
  BY <1>1, <1>7 DEF DialogCloses
<1>8. ASSUME NEW k \in Click, Subscribed(k)  PROVE Goal
  BY <1>1, <1>8 DEF Subscribed
<1>9. CASE UNCHANGED offer  BY <1>9
<1>. QED  BY <1>2, <1>3, <1>4, <1>5, <1>6, <1>7, <1>8, <1>9, OfferUnchanged DEF OfferActs

\* The actions that change what the receiver knows of the chunks.
InboundActs ==
  \/ HandleSendStream \/ Written \/ Close \/ Teardown
  \/ \E k \in Click : Subscribed(k)
  \/ \E i \in Index : HandleChunk(i)

LEMMA InboundUnchanged ==
  ASSUME [Next]_vars, ~InboundActs
  PROVE  UNCHANGED <<state, active, assembly, written>>
<1>. USE DEF receiverVars
<1>1. CASE UNCHANGED vars  BY <1>1 DEF vars
<1>2. CASE Sending
  BY <1>2 DEF Sending, OfferAnswered, StreamOpened, Pump, StreamEnded
<1>3. CASE Receiving
  BY <1>3 DEF Receiving, InboundActs, HandleOffer, Respond, NoHandler
<1>4. CASE Person
  BY <1>4 DEF Person, Offer, Cancel, Decline, AcceptClicked, DialogCloses
<1>5. CASE Trouble
  BY <1>5 DEF Trouble, InboundActs, CallFails, AnswerTooSlow, WindowCloses, Install,
              LinkBreaks, Lose, SubscribeFails
<1>. QED  BY <1>1, <1>2, <1>3, <1>4, <1>5 DEF Next

\* What a chunk changes.
LEMMA ChunkStored ==
  ASSUME NEW i, HandleChunk(i), active \in Click \cup {None}
  PROVE  \/ (~listening \/ active = None) /\ UNCHANGED <<state, assembly, rpcs, disturbed>>
         \/ /\ listening
            /\ active \in Click
            /\ state' = [state EXCEPT ![active].chunks = state[active].chunks \cup {i}]
            /\ IF i # Final THEN UNCHANGED <<assembly, rpcs, disturbed>>
               ELSE IF Whole(state[active].chunks \cup {i})
               THEN /\ assembly' = [of |-> active, stage |-> "writing"]
                    /\ UNCHANGED <<rpcs, disturbed>>
               ELSE /\ assembly' = [of |-> active, stage |-> "closing"]
                    /\ End(active, "end_error")
BY DEF HandleChunk

LEMMA InboundType ==
  ASSUME TypeOK, Progress, [Next]_vars
  PROVE  /\ state' \in [Click -> Inbound]
         /\ active' \in Click \cup {None}
         /\ AssemblyOK'
         /\ written' \in BOOLEAN
<1>. DEFINE Goal == /\ state' \in [Click -> Inbound]
                    /\ active' \in Click \cup {None}
                    /\ AssemblyOK'
                    /\ written' \in BOOLEAN
<1>0. /\ state \in [Click -> Inbound]
      /\ active \in Click \cup {None}
      /\ AssemblyOK
      /\ written \in BOOLEAN
  BY TypeParts
<1>. USE <1>0
<1>1. CASE HandleSendStream
  <2>1. UNCHANGED <<active, assembly, written>>
    BY <1>1 DEF HandleSendStream
  <2>2. \/ UNCHANGED state
        \/ active # None /\ state' = [state EXCEPT ![active].stream = TRUE]
    BY <1>1 DEF HandleSendStream
  <2>3. state' \in [Click -> Inbound]
    BY <2>2 DEF Inbound
  <2>. QED  BY <2>1, <2>3 DEF AssemblyOK
<1>2. CASE Written
  BY <1>2 DEF Written, AssemblyOK
<1>3. CASE Close
  BY <1>3 DEF Close, AssemblyOK, Idle
<1>4. CASE Teardown
  BY <1>4 DEF Teardown, AssemblyOK
<1>5. ASSUME NEW k \in Click, Subscribed(k)  PROVE Goal
  BY <1>5 DEF Subscribed, Fresh, Inbound, AssemblyOK
<1>6. ASSUME NEW i \in Index, HandleChunk(i)  PROVE Goal
  <2>. DEFINE got == state[active].chunks \cup {i}
  <2>1. UNCHANGED <<active, written>>
    BY <1>6 DEF HandleChunk
  <2>2. CASE UNCHANGED <<state, assembly>>
    BY <2>1, <2>2 DEF AssemblyOK
  <2>3. CASE /\ active \in Click
             /\ state' = [state EXCEPT ![active].chunks = got]
             /\ assembly' \in {assembly, [of |-> active, stage |-> "writing"],
                               [of |-> active, stage |-> "closing"]}
    <3>1. got \in SUBSET Index
      BY <2>3 DEF Inbound
    <3>. HIDE DEF got
    <3>2. state' \in [Click -> Inbound]
      BY <2>3, <3>1 DEF Inbound
    <3>. QED  BY <2>1, <2>3, <3>2 DEF AssemblyOK
  <2>4. \/ UNCHANGED <<state, assembly>>
        \/ /\ active \in Click
           /\ state' = [state EXCEPT ![active].chunks = got]
           /\ assembly' \in {assembly, [of |-> active, stage |-> "writing"],
                             [of |-> active, stage |-> "closing"]}
    BY <1>6, ChunkStored, Zenon
  <2>. QED  BY <2>2, <2>3, <2>4
<1>7. CASE UNCHANGED <<state, active, assembly, written>>
  BY <1>7 DEF AssemblyOK
<1>. QED  BY <1>1, <1>2, <1>3, <1>4, <1>5, <1>6, <1>7, InboundUnchanged DEF InboundActs

LEMMA RestType ==
  ASSUME TypeOK, Progress, [Next]_vars
  PROVE  /\ installed' \in BOOLEAN
         /\ accept' \in [Click -> {"no", "dialog", "subscribing", "over"}]
         /\ listening' \in BOOLEAN
         /\ disturbed' \in BOOLEAN
         /\ wire' \subseteq Index
         /\ rpcs' \subseteq Frame
<1>. DEFINE Goal == /\ installed' \in BOOLEAN
                    /\ accept' \in [Click -> {"no", "dialog", "subscribing", "over"}]
                    /\ listening' \in BOOLEAN
                    /\ disturbed' \in BOOLEAN
                    /\ wire' \subseteq Index
                    /\ rpcs' \subseteq Frame
<1>0. /\ installed \in BOOLEAN
      /\ accept \in [Click -> {"no", "dialog", "subscribing", "over"}]
      /\ listening \in BOOLEAN
      /\ disturbed \in BOOLEAN
      /\ wire \subseteq Index
      /\ rpcs \subseteq Frame
  BY TypeParts
<1>. USE <1>0 DEF receiverVars, senderVars
<1>1. CASE UNCHANGED vars  BY <1>1 DEF vars
<1>2. CASE Sending
  <2>1. CASE OfferAnswered  BY <2>1 DEF OfferAnswered, Frame
  <2>2. CASE StreamOpened  BY <2>2 DEF StreamOpened
  <2>3. CASE Pump
    <3>1. sender.sent \in Index
      BY <2>3, ChunksFact, TypeParts DEF Pump, SenderOK, SenderSet, Index
    <3>. QED  BY <2>3, <3>1 DEF Pump
  <2>4. ASSUME NEW frame \in Frame, StreamEnded(frame)  PROVE Goal
    BY <2>4 DEF StreamEnded
  <2>. QED  BY <1>2, <2>1, <2>2, <2>3, <2>4 DEF Sending
<1>3. CASE Receiving
  <2>1. CASE HandleOffer  BY <2>1 DEF HandleOffer, Frame
  <2>2. CASE Respond
    <3>1. offer.answer \in Frame
      BY <2>2, TypeParts DEF Respond, OfferSet, Frame
    <3>. QED  BY <2>2, <3>1 DEF Respond
  <2>3. CASE HandleSendStream  BY <2>3 DEF HandleSendStream, Frame
  <2>4. CASE NoHandler  BY <2>4 DEF NoHandler, Frame
  <2>5. ASSUME NEW k \in Click, Subscribed(k)  PROVE Goal
    BY <2>5, Zenon DEF Subscribed
  <2>6. ASSUME NEW i \in Index, HandleChunk(i)  PROVE Goal
    BY <2>6 DEF HandleChunk, End, Frame
  <2>7. CASE Written  BY <2>7 DEF Written, End, Frame
  <2>8. CASE Close  BY <2>8 DEF Close
  <2>. QED  BY <1>3, <2>1, <2>2, <2>3, <2>4, <2>5, <2>6, <2>7, <2>8 DEF Receiving
<1>4. CASE Person
  <2>1. CASE Offer  BY <2>1 DEF Offer, Frame
  <2>2. CASE Cancel \/ Decline  BY <2>2 DEF Cancel, Decline
  <2>3. ASSUME NEW k \in Click, AcceptClicked(k)  PROVE Goal
    BY <2>3 DEF AcceptClicked
  <2>4. ASSUME NEW k \in Click, DialogCloses(k)  PROVE Goal
    BY <2>4 DEF DialogCloses
  <2>. QED  BY <1>4, <2>1, <2>2, <2>3, <2>4 DEF Person
<1>5. CASE Trouble
  <2>1. CASE CallFails \/ AnswerTooSlow \/ WindowCloses \/ Install
    BY <2>1 DEF CallFails, AnswerTooSlow, WindowCloses, Install
  <2>2. CASE Teardown  BY <2>2, Zenon DEF Teardown
  <2>3. CASE LinkBreaks \/ Lose  BY <2>3 DEF LinkBreaks, Lose, Frame
  <2>4. ASSUME NEW k \in Click, SubscribeFails(k)  PROVE Goal
    BY <2>4 DEF SubscribeFails
  <2>. QED  BY <1>5, <2>1, <2>2, <2>3, <2>4 DEF Trouble
<1>. QED  BY <1>1, <1>2, <1>3, <1>4, <1>5 DEF Next

LEMMA TypeStep == TypeOK /\ Progress /\ [Next]_vars => TypeOK' /\ Progress'
<1>. SUFFICES ASSUME TypeOK, Progress, [Next]_vars  PROVE (TypeOK /\ Progress)'
  OBVIOUS
<1>1. SenderOK /\ offer \in OfferSet
  BY TypeParts
<1>2. SenderOK' /\ offer' \in OfferSet
  BY <1>1, SenderType, OfferStep
<1>. QED
  BY <1>2, InboundType, RestType, Zenon
  DEF TypeOK, Progress, SenderOK, SenderSet, OfferSet, Inbound, AssemblyOK

LEMMA TypeInit == Init => TypeOK /\ Progress
<1>. SUFFICES ASSUME Init  PROVE TypeOK /\ Progress
  OBVIOUS
<1>1. SenderOK
  BY ChunksFact DEF Init, SenderOK, SenderSet
<1>2. offer \in OfferSet
  BY DEF Init, OfferSet
<1>3. state \in [Click -> Inbound]
  BY DEF Init, Fresh, Inbound
<1>4. AssemblyOK
  BY DEF Init, Idle, AssemblyOK
<1>. QED  BY <1>1, <1>2, <1>3, <1>4, TypeParts DEF Init

\* Every reachable state is well typed, the chunk pump stops at the final
\* chunk, and an assembly belongs to an acceptance.
THEOREM TypeCorrect == Spec => [](TypeOK /\ Progress)
BY TypeInit, TypeStep, PTL DEF Spec

----------------------------------------------------------------------------
\* A success is the truth.

\* What has been written stays written.
LEMMA WrittenStays == written /\ [Next]_vars => written'
<1>. SUFFICES ASSUME written, [Next]_vars  PROVE written'
  OBVIOUS
<1>1. CASE Written  BY <1>1 DEF Written
<1>2. CASE InboundActs /\ ~Written
  BY <1>2 DEF InboundActs, HandleSendStream, Close, Teardown, Subscribed, HandleChunk
<1>3. CASE ~InboundActs  BY <1>3, InboundUnchanged
<1>. QED  BY <1>1, <1>2, <1>3

\* Only Written reports a success.
LEMMA OkStep ==
  ASSUME [Next]_vars, "end_ok" \in rpcs', "end_ok" \notin rpcs,
         offer \in OfferSet
  PROVE  Written /\ written'
<1>. USE DEF receiverVars, senderVars
<1>1. CASE UNCHANGED vars  BY <1>1 DEF vars
<1>2. CASE Sending
  BY <1>2 DEF Sending, OfferAnswered, StreamOpened, Pump, StreamEnded
<1>3. CASE Receiving
  <2>1. CASE HandleOffer \/ HandleSendStream \/ NoHandler
    BY <2>1 DEF HandleOffer, HandleSendStream, NoHandler
  <2>2. CASE Respond
    BY <2>2 DEF Respond, OfferSet
  <2>3. ASSUME NEW k \in Click, Subscribed(k)  PROVE FALSE
    BY <2>3 DEF Subscribed
  <2>4. ASSUME NEW i \in Index, HandleChunk(i)  PROVE FALSE
    BY <2>4 DEF HandleChunk, End
  <2>5. CASE Close  BY <2>5 DEF Close
  <2>6. CASE Written  BY <2>6 DEF Written, End
  <2>. QED  BY <1>3, <2>1, <2>2, <2>3, <2>4, <2>5, <2>6 DEF Receiving
<1>4. CASE Person
  BY <1>4 DEF Person, Offer, Cancel, Decline, AcceptClicked, DialogCloses
<1>5. CASE Trouble
  BY <1>5 DEF Trouble, CallFails, AnswerTooSlow, WindowCloses, Teardown, Install,
              LinkBreaks, Lose, SubscribeFails
<1>. QED  BY <1>1, <1>2, <1>3, <1>4, <1>5 DEF Next

\* The sender takes a success from an end frame only.
LEMMA SettledStep ==
  ASSUME SenderOK, [Next]_vars, sender'.settled = "ok", sender.settled # "ok"
  PROVE  "end_ok" \in rpcs
<1>. USE DEF SenderOK, SenderSet
<1>1. CASE Offer  BY <1>1 DEF Offer
<1>2. CASE OfferAnswered  BY <1>2 DEF OfferAnswered
<1>3. CASE AnswerTooSlow  BY <1>3 DEF AnswerTooSlow
<1>4. CASE CallFails  BY <1>4 DEF CallFails
<1>5. CASE StreamOpened  BY <1>5 DEF StreamOpened
<1>6. CASE Pump  BY <1>6 DEF Pump, Outcome
<1>7. CASE Cancel  BY <1>7 DEF Cancel
<1>8. ASSUME NEW frame \in Frame, StreamEnded(frame)  PROVE "end_ok" \in rpcs
  BY <1>8 DEF StreamEnded, Outcome
<1>. QED
  BY <1>1, <1>2, <1>3, <1>4, <1>5, <1>6, <1>7, <1>8, SenderUnchanged DEF SenderActs

LEMMA OkAfterWriteStep ==
  TypeOK /\ Progress /\ OkAfterWrite /\ [Next]_vars => OkAfterWrite'
<1>. SUFFICES ASSUME TypeOK, Progress, OkAfterWrite, [Next]_vars  PROVE OkAfterWrite'
  OBVIOUS
<1>1. SenderOK /\ offer \in OfferSet
  BY TypeParts
<1>. QED  BY <1>1, WrittenStays, OkStep, SettledStep DEF OkAfterWrite

\* `settled` resolves only for a file that was written, whatever is lost, late,
\* torn down or accepted twice.
THEOREM SuccessTrue == Spec => []SuccessIsTrue
<1>1. Init => OkAfterWrite
  BY DEF Init, OkAfterWrite
<1>2. OkAfterWrite => SuccessIsTrue
  BY DEF OkAfterWrite, SuccessIsTrue
<1>. QED  BY <1>1, <1>2, TypeInit, TypeStep, OkAfterWriteStep, PTL DEF Spec

----------------------------------------------------------------------------
\* Nothing is written that was not agreed.

\* Only Respond says yes.
LEMMA AcceptedStep ==
  ASSUME [Next]_vars, "accepted" \in rpcs', "accepted" \notin rpcs
  PROVE  Yes
<1>. USE DEF receiverVars, senderVars
<1>1. CASE UNCHANGED vars  BY <1>1 DEF vars
<1>2. CASE Sending
  BY <1>2 DEF Sending, OfferAnswered, StreamOpened, Pump, StreamEnded
<1>3. CASE Receiving
  <2>1. CASE HandleOffer \/ HandleSendStream \/ NoHandler
    BY <2>1 DEF HandleOffer, HandleSendStream, NoHandler
  <2>2. CASE Respond
    BY <2>2 DEF Respond, Yes
  <2>3. ASSUME NEW k \in Click, Subscribed(k)  PROVE FALSE
    BY <2>3 DEF Subscribed
  <2>4. ASSUME NEW i \in Index, HandleChunk(i)  PROVE FALSE
    BY <2>4 DEF HandleChunk, End
  <2>5. CASE Close  BY <2>5 DEF Close
  <2>6. CASE Written  BY <2>6 DEF Written, End
  <2>. QED  BY <1>3, <2>1, <2>2, <2>3, <2>4, <2>5, <2>6 DEF Receiving
<1>4. CASE Person
  BY <1>4 DEF Person, Offer, Cancel, Decline, AcceptClicked, DialogCloses
<1>5. CASE Trouble
  BY <1>5 DEF Trouble, CallFails, AnswerTooSlow, WindowCloses, Teardown, Install,
              LinkBreaks, Lose, SubscribeFails
<1>. QED  BY <1>1, <1>2, <1>3, <1>4, <1>5 DEF Next

\* The stages of a sender that has heard yes.
Agreed == {"opening", "pumping", "pumped"}

LEMMA StageStep ==
  ASSUME SenderOK, [Next]_vars, sender'.stage \in Agreed
  PROVE  sender.stage \in Agreed \/ "accepted" \in rpcs
<1>. USE DEF SenderOK, SenderSet, Agreed
<1>1. CASE Offer  BY <1>1 DEF Offer
<1>2. CASE OfferAnswered  BY <1>2 DEF OfferAnswered
<1>3. CASE AnswerTooSlow  BY <1>3 DEF AnswerTooSlow
<1>4. CASE CallFails  BY <1>4 DEF CallFails
<1>5. CASE StreamOpened  BY <1>5 DEF StreamOpened
<1>6. CASE Pump  BY <1>6 DEF Pump
<1>7. CASE Cancel  BY <1>7 DEF Cancel
<1>8. ASSUME NEW frame \in Frame, StreamEnded(frame)  PROVE sender.stage \in Agreed
  BY <1>8 DEF StreamEnded, Outcome
<1>. QED
  BY <1>1, <1>2, <1>3, <1>4, <1>5, <1>6, <1>7, <1>8, SenderUnchanged DEF SenderActs

\* Only the pump sends chunks.
LEMMA WireStep ==
  ASSUME [Next]_vars, wire' # {}, wire = {}
  PROVE  sender.stage = "pumping"
<1>. USE DEF receiverVars, senderVars
<1>1. CASE UNCHANGED vars  BY <1>1 DEF vars
<1>2. CASE Sending
  BY <1>2 DEF Sending, OfferAnswered, StreamOpened, Pump, StreamEnded
<1>3. CASE Receiving
  BY <1>3 DEF Receiving, HandleOffer, Respond, HandleSendStream, NoHandler, Subscribed,
              HandleChunk, Written, Close
<1>4. CASE Person
  BY <1>4 DEF Person, Offer, Cancel, Decline, AcceptClicked, DialogCloses
<1>5. CASE Trouble
  BY <1>5 DEF Trouble, CallFails, AnswerTooSlow, WindowCloses, Teardown, Install,
              LinkBreaks, Lose, SubscribeFails
<1>. QED  BY <1>1, <1>2, <1>3, <1>4, <1>5 DEF Next

\* An assembly starts with a chunk, and only an assembly writes.
LEMMA AssemblyStep ==
  ASSUME [Next]_vars
  PROVE  /\ assembly'.stage = "writing" => assembly.stage = "writing" \/ wire # {}
         /\ written' # written => assembly.stage = "writing"
<1>1. CASE HandleSendStream \/ Teardown
  BY <1>1 DEF HandleSendStream, Teardown
<1>2. CASE Written  BY <1>2 DEF Written
<1>3. CASE Close  BY <1>3 DEF Close, Idle
<1>4. ASSUME NEW k \in Click, Subscribed(k)  PROVE UNCHANGED <<assembly, written>>
  BY <1>4 DEF Subscribed
<1>5. ASSUME NEW i \in Index, HandleChunk(i)  PROVE wire # {} /\ UNCHANGED written
  BY <1>5 DEF HandleChunk
<1>. QED  BY <1>1, <1>2, <1>3, <1>4, <1>5, InboundUnchanged DEF InboundActs

LEMMA YesFirstStep ==
  TypeOK /\ Progress /\ YesFirst /\ [Next]_vars => YesFirst'
<1>. SUFFICES ASSUME TypeOK, Progress, YesFirst, [Next]_vars  PROVE YesFirst'
  OBVIOUS
<1>1. SenderOK /\ offer \in OfferSet
  BY TypeParts
<1>2. Yes => Yes'
  BY <1>1, OfferStep DEF Yes
<1>3. /\ "accepted" \in rpcs' => Yes
      /\ sender'.stage \in Agreed => Yes
      /\ wire' # {} => Yes
      /\ assembly'.stage = "writing" => Yes
      /\ written' => Yes
  BY <1>1, AcceptedStep, StageStep, WireStep, AssemblyStep DEF YesFirst, Agreed
<1>. QED  BY <1>2, <1>3 DEF YesFirst, Agreed

\* A file lands on the receiver's disk only if the decision the sender is told
\* is a yes, whatever timer or second dialog raced with it.
THEOREM WrittenAgreed == Spec => []WrittenOnlyIfAccepted
<1>1. Init => YesFirst
  BY DEF Init, YesFirst, Idle
<1>2. YesFirst => WrittenOnlyIfAccepted
  BY DEF YesFirst, Yes, WrittenOnlyIfAccepted
<1>. QED  BY <1>1, <1>2, TypeInit, TypeStep, YesFirstStep, PTL DEF Spec

----------------------------------------------------------------------------
\* Undisturbed transfers.

LEMMA DisturbedStays == disturbed /\ [Next]_vars => disturbed'
<1>. SUFFICES ASSUME disturbed, [Next]_vars  PROVE disturbed'
  OBVIOUS
<1>1. CASE UNCHANGED vars  BY <1>1 DEF vars
<1>2. CASE Sending
  BY <1>2 DEF Sending, OfferAnswered, StreamOpened, Pump, StreamEnded
<1>3. CASE Receiving
  <2>1. ASSUME NEW i \in Index, HandleChunk(i)  PROVE disturbed'
    BY <2>1 DEF HandleChunk, End
  <2>2. CASE Written  BY <2>2 DEF Written, End
  <2>. QED
    BY <1>3, <2>1, <2>2
    DEF Receiving, HandleOffer, Respond, HandleSendStream, NoHandler, Subscribed, Close
<1>4. CASE Person
  BY <1>4 DEF Person, Offer, Cancel, Decline, AcceptClicked, DialogCloses
<1>5. CASE Trouble
  BY <1>5 DEF Trouble, CallFails, AnswerTooSlow, WindowCloses, Teardown, Install,
              LinkBreaks, Lose, SubscribeFails
<1>. QED  BY <1>1, <1>2, <1>3, <1>4, <1>5 DEF Next

\* What an undisturbed step may do to the receiver ...
LEMMA CalmReceiver ==
  ASSUME installed, ~disturbed', [Next]_vars
  PROVE  /\ installed'
         /\ \/ UNCHANGED <<offer, accept, state, active, listening, assembly, written>>
            \/ /\ UNCHANGED <<state, active, listening, assembly, written>>
               /\ \/ HandleOffer \/ Respond \/ Decline \/ WindowCloses
                  \/ \E k \in Click : AcceptClicked(k)
            \/ \E k \in Click : DialogCloses(k) \/ Subscribed(k)
            \/ HandleSendStream
            \/ \E i \in Index : HandleChunk(i)
            \/ Written
            \/ Close
<1>. USE DEF receiverVars
<1>1. CASE UNCHANGED vars  BY <1>1 DEF vars
<1>2. CASE Sending
  BY <1>2 DEF Sending, OfferAnswered, StreamOpened, Pump, StreamEnded
<1>3. CASE Receiving
  BY <1>3 DEF Receiving, HandleOffer, Respond, HandleSendStream, NoHandler, Subscribed,
              HandleChunk, Written, Close
<1>4. CASE Person
  BY <1>4 DEF Person, Offer, Cancel, Decline, AcceptClicked, DialogCloses
<1>5. CASE Trouble
  BY <1>5 DEF Trouble, CallFails, AnswerTooSlow, WindowCloses, Teardown, Install,
              LinkBreaks, Lose, SubscribeFails
<1>. QED  BY <1>1, <1>2, <1>3, <1>4, <1>5 DEF Next

\* ... to the sender and its chunks ...
LEMMA CalmSender ==
  ASSUME SenderOK, ~disturbed', [Next]_vars
  PROVE  /\ \/ wire' \subseteq wire /\ sender'.sent = sender.sent
            \/ /\ wire' = wire \cup {sender.sent}
               /\ sender'.sent = sender.sent + 1
               /\ sender.stage = "pumping"
               /\ UNCHANGED receiverVars
         /\ \A i \in wire \ wire' : HandleChunk(i)
         /\ sender.stage \in Agreed => sender'.stage \in Agreed
         /\ sender'.settled = "failed" => sender.settled = "failed" \/ "end_error" \in rpcs
<1>. DEFINE Goal ==
         /\ \/ wire' \subseteq wire /\ sender'.sent = sender.sent
            \/ /\ wire' = wire \cup {sender.sent}
               /\ sender'.sent = sender.sent + 1
               /\ sender.stage = "pumping"
               /\ UNCHANGED receiverVars
         /\ \A i \in wire \ wire' : HandleChunk(i)
         /\ sender.stage \in Agreed => sender'.stage \in Agreed
         /\ sender'.settled = "failed" => sender.settled = "failed" \/ "end_error" \in rpcs
<1>0. sender \in SenderSet
  BY DEF SenderOK
<1>. USE <1>0 DEF SenderSet, Agreed
<1>1. CASE Offer  BY <1>1 DEF Offer
<1>2. CASE OfferAnswered  BY <1>2 DEF OfferAnswered
<1>3. CASE AnswerTooSlow  BY <1>3 DEF AnswerTooSlow
<1>4. CASE CallFails  BY <1>4 DEF CallFails
<1>5. CASE StreamOpened  BY <1>5 DEF StreamOpened
<1>6. CASE Pump  BY <1>6 DEF Pump
<1>7. CASE Cancel  BY <1>7 DEF Cancel
<1>8. ASSUME NEW frame \in Frame, StreamEnded(frame)  PROVE Goal
  BY <1>8 DEF StreamEnded, Outcome
<1>9. CASE ~SenderActs
  <2>1. UNCHANGED sender
    BY <1>9, SenderUnchanged
  <2>2. wire' \subseteq wire /\ \A i \in wire \ wire' : HandleChunk(i)
    <3>. USE DEF senderVars, SenderActs
    <3>1. CASE UNCHANGED vars  BY <3>1 DEF vars
    <3>2. CASE Sending  BY <1>9, <3>2 DEF Sending
    <3>3. ASSUME NEW i \in Index, HandleChunk(i)
          PROVE  wire' \subseteq wire /\ \A j \in wire \ wire' : HandleChunk(j)
      <4>1. wire' = wire \ {i}
        BY <3>3 DEF HandleChunk
      <4>. QED  BY <3>3, <4>1
    <3>4. CASE Receiving /\ ~(\E i \in Index : HandleChunk(i))
      BY <3>4 DEF Receiving, HandleOffer, Respond, HandleSendStream, NoHandler,
                  Subscribed, Written, Close
    <3>5. CASE Person
      BY <1>9, <3>5 DEF Person, Decline, AcceptClicked, DialogCloses
    <3>6. CASE Trouble
      BY <1>9, <3>6 DEF Trouble, WindowCloses, Teardown, Install, LinkBreaks, Lose,
                        SubscribeFails
    <3>. QED  BY <3>1, <3>2, <3>3, <3>4, <3>5, <3>6 DEF Next
  <2>. QED  BY <2>1, <2>2
<1>. QED
  BY <1>1, <1>2, <1>3, <1>4, <1>5, <1>6, <1>7, <1>8, <1>9 DEF SenderActs

\* ... and to the frames under way.
LEMMA CalmFrames ==
  ASSUME installed, ~disturbed', [Next]_vars, offer \in OfferSet
  PROVE  /\ "file_send" \in rpcs' /\ "file_send" \notin rpcs =>
              OfferAnswered /\ sender'.stage = "opening" /\ UNCHANGED receiverVars
         /\ "end_error" \in rpcs' /\ "end_error" \notin rpcs =>
              \/ HandleSendStream \/ Written
              \/ \E i \in Index : HandleChunk(i)
<1>. DEFINE Goal ==
         /\ "file_send" \in rpcs' /\ "file_send" \notin rpcs =>
              OfferAnswered /\ sender'.stage = "opening" /\ UNCHANGED receiverVars
         /\ "end_error" \in rpcs' /\ "end_error" \notin rpcs =>
              \/ HandleSendStream \/ Written
              \/ \E i \in Index : HandleChunk(i)
<1>. USE DEF receiverVars, senderVars
<1>1. CASE UNCHANGED vars  BY <1>1 DEF vars
<1>2. CASE OfferAnswered
  <2>1. CASE "accepted" \in rpcs /\ rpcs' = (rpcs \ {"accepted"}) \cup {"file_send"}
             /\ sender' = [sender EXCEPT !.stage = "opening"]
    BY <1>2, <2>1 DEF OfferAnswered
  <2>2. CASE rpcs' = rpcs \ {"declined"}
    BY <2>2
  <2>. QED  BY <1>2, <2>1, <2>2 DEF OfferAnswered
<1>3. CASE Sending /\ ~OfferAnswered
  BY <1>3 DEF Sending, StreamOpened, Pump, StreamEnded
<1>4. CASE Receiving
  <2>1. CASE Respond  BY <2>1 DEF Respond, OfferSet
  <2>2. ASSUME NEW i \in Index, HandleChunk(i)  PROVE Goal
    <3>1. rpcs' \subseteq rpcs \cup {"end_error"}
      BY <2>2 DEF HandleChunk, End
    <3>. QED  BY <2>2, <3>1
  <2>3. CASE Written
    <3>1. rpcs' \subseteq rpcs \cup {"end_error", "end_ok"}
      BY <2>3 DEF Written, End
    <3>. QED  BY <2>3, <3>1
  <2>4. CASE HandleOffer  BY <2>4 DEF HandleOffer
  <2>5. CASE HandleSendStream  BY <2>5 DEF HandleSendStream
  <2>6. CASE NoHandler  BY <2>6 DEF NoHandler
  <2>7. CASE Close \/ \E k \in Click : Subscribed(k)  BY <2>7 DEF Close, Subscribed
  <2>. QED  BY <1>4, <2>1, <2>2, <2>3, <2>4, <2>5, <2>6, <2>7 DEF Receiving
<1>5. CASE Person
  BY <1>5 DEF Person, Offer, Cancel, Decline, AcceptClicked, DialogCloses
<1>6. CASE Trouble
  BY <1>6 DEF Trouble, CallFails, AnswerTooSlow, WindowCloses, Teardown, Install,
              LinkBreaks, Lose, SubscribeFails
<1>. QED  BY <1>1, <1>2, <1>3, <1>4, <1>5, <1>6 DEF Next

\* An undisturbed acceptance is the decision, so it finds nothing set up.
LEMMA CalmSubscribed ==
  ASSUME TypeOK, Progress, NothingYet, NEW k \in Click, Subscribed(k), ~disturbed'
  PROVE  /\ offer.answer = "none"
         /\ active' = k
         /\ UNCHANGED <<state, listening, assembly, written, installed>>
<1>1. offer.answer = "none"
  BY Zenon DEF Subscribed
<1>2. state[k] = Fresh /\ state \in [Click -> Inbound]
  BY <1>1, TypeParts DEF NothingYet
<1>3. state' = state
  BY <1>2 DEF Subscribed
<1>. QED  BY <1>1, <1>3 DEF Subscribed

\* Before the decision nothing is set up: an acceptance decides.
LEMMA NothingYetStep ==
  TypeOK /\ Progress /\ YesFirst /\ NothingYet /\ [Next]_vars => NothingYet'
<1>. SUFFICES ASSUME TypeOK, Progress, YesFirst, NothingYet, [Next]_vars,
                     offer'.answer = "none"
              PROVE  active' = None /\ \A k \in Click : state'[k] = Fresh
  BY DEF NothingYet
<1>0. offer \in OfferSet
  BY TypeParts
<1>1. offer.answer = "none" /\ active = None /\ wire = {}
      /\ \A k \in Click : state[k] = Fresh
  BY <1>0, OfferStep DEF NothingYet, YesFirst, Yes
<1>2. CASE HandleSendStream \/ Written \/ Close \/ Teardown
  BY <1>1, <1>2 DEF HandleSendStream, Written, Close, Teardown
<1>3. ASSUME NEW k \in Click, Subscribed(k)  PROVE FALSE
  BY <1>0, <1>1, <1>3, DecidedType DEF Subscribed
<1>4. ASSUME NEW i \in Index, HandleChunk(i)  PROVE FALSE
  BY <1>1, <1>4 DEF HandleChunk
<1>. QED  BY <1>1, <1>2, <1>3, <1>4, InboundUnchanged DEF InboundActs

\* What is recorded stays so, and only chunks are recorded.
LEMMA RecordedStep ==
  ASSUME TypeOK, Progress, NothingYet, installed, ~disturbed', [Next]_vars,
         NEW i \in Index
  PROVE  /\ Recorded(i) => Recorded(i)'
         /\ Recorded(i)' => Recorded(i) \/ HandleChunk(i)
         /\ HandleChunk(i) /\ listening /\ active # None => Recorded(i)'
<1>. DEFINE Goal == /\ Recorded(i) => Recorded(i)'
                    /\ Recorded(i)' => Recorded(i) \/ HandleChunk(i)
                    /\ HandleChunk(i) /\ listening /\ active # None => Recorded(i)'
<1>0. state \in [Click -> Inbound] /\ active \in Click \cup {None}
  BY TypeParts
<1>1. ASSUME NEW j \in Index, HandleChunk(j)  PROVE Goal
  <2>. DEFINE got == state[active].chunks \cup {j}
  <2>0. i # j => ~HandleChunk(i)
    BY <1>1 DEF HandleChunk
  <2>1. CASE (~listening \/ active = None) /\ UNCHANGED state
    BY <2>1, <2>0 DEF Recorded
  <2>2. CASE active \in Click /\ state' = [state EXCEPT ![active].chunks = got]
    <3>1. state'[active].chunks = got
      BY <1>0, <2>2 DEF Inbound
    <3>2. \A k \in Click : k # active => state'[k] = state[k]
      BY <1>0, <2>2
    <3>. QED  BY <1>1, <2>0, <2>2, <3>1, <3>2 DEF Recorded
  <2>. QED  BY <1>0, <1>1, <2>1, <2>2, ChunkStored
<1>2. CASE UNCHANGED state /\ ~HandleChunk(i)
  BY <1>2 DEF Recorded
<1>3. CASE HandleSendStream
  <2>1. \A k \in Click : state'[k].chunks = state[k].chunks
    BY <1>0, <1>3 DEF HandleSendStream, Inbound
  <2>2. ~HandleChunk(i)
    BY <1>3 DEF HandleSendStream, HandleChunk
  <2>. QED  BY <2>1, <2>2 DEF Recorded
<1>4. ASSUME NEW k \in Click, DialogCloses(k) \/ Subscribed(k)  PROVE UNCHANGED state
  BY <1>4, CalmSubscribed DEF DialogCloses
<1>5. (\E j \in Index : HandleChunk(j)) \/ HandleSendStream \/ UNCHANGED state
  <2>1. CASE Written \/ Close
    BY <2>1 DEF Written, Close
  <2>. QED  BY <2>1, <1>4, CalmReceiver
<1>6. CASE \E j \in Index : HandleChunk(j)
  BY <1>1, <1>6
<1>7. CASE UNCHANGED state /\ ~\E j \in Index : HandleChunk(j)
  BY <1>2, <1>7
<1>. QED  BY <1>3, <1>5, <1>6, <1>7

LEMMA FinalStep ==
  ASSUME TypeOK, Progress, NothingYet, installed, ~disturbed', [Next]_vars
  PROVE  /\ FinalIn => FinalIn'
         /\ FinalIn' => FinalIn \/ HandleChunk(Final)
         /\ HandleChunk(Final) /\ listening /\ active # None => FinalIn'
<1>1. Final \in Index
  BY ChunksFact DEF Index
<1>. QED  BY <1>1, RecordedStep, Zenon DEF FinalIn

LEMMA ListensStep ==
  ASSUME TypeOK, Progress, NothingYet, installed, Listens, ~disturbed', [Next]_vars
  PROVE  Listens'
<1>0. /\ offer \in OfferSet
      /\ accept \in [Click -> {"no", "dialog", "subscribing", "over"}]
      /\ state \in [Click -> Inbound]
      /\ active \in Click \cup {None}
      /\ AssemblyOK
  BY TypeParts
<1>1. /\ FinalIn => FinalIn'
      /\ HandleChunk(Final) /\ listening /\ active # None => FinalIn'
  BY FinalStep
<1>2. CASE UNCHANGED <<offer, accept, active, listening, assembly>>
  BY <1>1, <1>2 DEF Listens, Yes
<1>3. CASE /\ UNCHANGED <<active, listening, assembly>>
           /\ HandleOffer \/ Respond \/ Decline \/ WindowCloses
  <2>1. Yes' => Yes
    BY <1>0, <1>3 DEF Yes, OfferSet, HandleOffer, Respond, Decline, WindowCloses, Decided
  <2>2. accept' = accept
    BY <1>3 DEF HandleOffer, Respond, Decline, WindowCloses
  <2>. QED  BY <1>1, <1>3, <2>1, <2>2 DEF Listens
<1>4. ASSUME NEW k \in Click, AcceptClicked(k)  PROVE Listens'
  <2>1. UNCHANGED <<offer, active, listening, assembly>>
    BY <1>4 DEF AcceptClicked
  <2>2. \A j \in Click : accept'[j] = "subscribing" => accept[j] = "subscribing"
    BY <1>0, <1>4 DEF AcceptClicked
  <2>. QED  BY <1>1, <2>1, <2>2 DEF Listens, Yes
<1>5. ASSUME NEW k \in Click, DialogCloses(k)  PROVE Listens'
  <2>1. UNCHANGED <<active, assembly>>
    BY <1>5 DEF DialogCloses
  <2>2. Yes' => Yes
    BY <1>0, <1>5 DEF Yes, OfferSet, DialogCloses, Decided
  <2>3. /\ listening => listening'
        /\ \A j \in Click : accept'[j] = "subscribing" =>
             listening' \/ accept[j] = "subscribing"
    BY <1>0, <1>5 DEF DialogCloses
  <2>. QED  BY <1>1, <2>1, <2>2, <2>3 DEF Listens
<1>6. ASSUME NEW k \in Click, Subscribed(k)  PROVE Listens'
  <2>1. active' = k /\ UNCHANGED <<listening, assembly>>
    BY <1>6, CalmSubscribed
  <2>2. /\ accept[k] = "subscribing"
        /\ \A j \in Click : accept'[j] = "subscribing" => accept[j] = "subscribing"
    BY <1>0, <1>6 DEF Subscribed
  <2>. QED  BY <1>1, <2>1, <2>2, NoneAssumption DEF Listens
<1>7. ASSUME NEW i \in Index, HandleChunk(i)  PROVE Listens'
  <2>1. UNCHANGED <<offer, accept, active, listening>>
    BY <1>7 DEF HandleChunk
  <2>2. \/ UNCHANGED assembly
        \/ i = Final /\ listening /\ active # None
    BY <1>7 DEF HandleChunk
  <2>. QED  BY <1>1, <1>2, <1>7, <2>1, <2>2 DEF Listens, Yes
<1>8. CASE Written
  <2>1. UNCHANGED <<offer, accept, active, listening>> /\ assembly.stage # "none"
    BY <1>8 DEF Written
  <2>. QED  BY <1>1, <2>1 DEF Listens, Yes
<1>9. CASE Close
  <2>1. assembly'.stage = "none" /\ assembly.stage # "none"
    BY <1>9 DEF Close, Idle
  <2>. QED  BY <1>1, <2>1 DEF Listens
<1>10. CASE HandleSendStream
  BY <1>2, <1>10 DEF HandleSendStream
<1>. QED
  BY <1>2, <1>3, <1>4, <1>5, <1>6, <1>7, <1>8, <1>9, <1>10, CalmReceiver

\* A chunk is sent once: it is recorded only if it was under way.
LEMMA OnceStep ==
  ASSUME TypeOK, Progress, YesFirst, NothingYet, installed, Listens, Once,
         ~disturbed', [Next]_vars
  PROVE  Once'
<1>0. SenderOK /\ wire \subseteq Index
  BY TypeParts
<1>1. sender.sent \in 0 .. Chunks
  BY <1>0 DEF SenderOK, SenderSet
<1>2. CASE /\ wire' = wire \cup {sender.sent}
           /\ sender'.sent = sender.sent + 1
           /\ sender.stage = "pumping"
           /\ UNCHANGED receiverVars
  <2>1. sender.sent \in Index
    BY <1>0, <1>1, <1>2, ChunksFact DEF SenderOK, Index
  <2>2. \A i : Recorded(i)' <=> Recorded(i)
    BY <1>2 DEF Recorded, receiverVars
  <2>3. FinalIn' <=> FinalIn
    BY <2>2 DEF FinalIn
  <2>4. \A i \in wire' : i < sender'.sent /\ ~Recorded(i)'
    BY <1>0, <1>1, <1>2, <2>1, <2>2 DEF Once, Index
  <2>5. \A i \in Index : Recorded(i)' => i < sender'.sent
    BY <1>1, <1>2, <2>2 DEF Once, Index
  <2>6. ~FinalIn' => \A i \in 0 .. sender'.sent - 1 : i \in wire' \/ Recorded(i)'
    BY <1>1, <1>2, <2>2, <2>3 DEF Once
  <2>. QED  BY <2>4, <2>5, <2>6 DEF Once
<1>3. CASE wire' \subseteq wire /\ sender'.sent = sender.sent
  <2>1. \A i \in Index : HandleChunk(i) => i \in wire /\ i \notin wire'
    BY DEF HandleChunk
  <2>2. \A i \in wire' : i < sender'.sent /\ ~Recorded(i)'
    BY <1>0, <1>3, <2>1, RecordedStep DEF Once
  <2>3. \A i \in Index : Recorded(i)' => i < sender'.sent
    BY <1>3, <2>1, RecordedStep DEF Once
  <2>4. ASSUME ~FinalIn', NEW i \in 0 .. sender.sent - 1  PROVE i \in wire' \/ Recorded(i)'
    <3>0. ~FinalIn
      BY <2>4, FinalStep
    <3>1. i \in Index /\ ~FinalIn
      BY <1>1, <3>0, ChunksFact DEF Index
    <3>2. CASE Recorded(i)
      BY <3>1, <3>2, RecordedStep
    <3>3. CASE i \in wire
      <4>1. listening /\ active # None
        BY <3>1, <3>3 DEF YesFirst, Listens
      <4>2. i \in wire \ wire' => HandleChunk(i)
        BY <1>0, CalmSender
      <4>. QED  BY <3>1, <3>3, <4>1, <4>2, RecordedStep
    <3>. QED  BY <3>1, <3>2, <3>3 DEF Once
  <2>. QED  BY <1>3, <2>2, <2>3, <2>4 DEF Once
<1>. QED  BY <1>0, <1>2, <1>3, CalmSender

\* An undisturbed end frame finds the sender's stream.
LEMMA CalmEnd ==
  ASSUME NEW k, NEW frame, End(k, frame), ~disturbed'
  PROVE  state[k].stream /\ rpcs' = rpcs \cup {frame}
BY DEF End

LEMMA StreamStep ==
  ASSUME TypeOK, Progress, NothingYet, installed, ~disturbed', [Next]_vars,
         NEW k \in Click
  PROVE  /\ state[k].stream => state'[k].stream
         /\ state'[k].stream => state[k].stream \/ HandleSendStream
<1>. DEFINE Goal == /\ state[k].stream => state'[k].stream
                    /\ state'[k].stream => state[k].stream \/ HandleSendStream
<1>0. state \in [Click -> Inbound] /\ active \in Click \cup {None}
  BY TypeParts
<1>1. CASE UNCHANGED state  BY <1>1
<1>2. CASE HandleSendStream
  <2>1. CASE UNCHANGED state  BY <2>1, <1>2
  <2>2. CASE active \in Click /\ state' = [state EXCEPT ![active].stream = TRUE]
    BY <1>0, <1>2, <2>2 DEF Inbound
  <2>. QED  BY <1>0, <1>2, <2>1, <2>2 DEF HandleSendStream
<1>3. ASSUME NEW i \in Index, HandleChunk(i)  PROVE Goal
  <2>. DEFINE got == state[active].chunks \cup {i}
  <2>1. CASE active \in Click /\ state' = [state EXCEPT ![active].chunks = got]
    BY <1>0, <2>1 DEF Inbound
  <2>. QED  BY <1>0, <1>1, <1>3, <2>1, ChunkStored
<1>4. CASE Written \/ Close \/ \E c \in Click : DialogCloses(c) \/ Subscribed(c)
  BY <1>1, <1>4, CalmSubscribed DEF Written, Close, DialogCloses
<1>. QED  BY <1>1, <1>2, <1>3, <1>4, CalmReceiver

LEMMA StreamsStep ==
  ASSUME TypeOK, Progress, YesFirst, NothingYet, installed, Streams,
         ~disturbed', [Next]_vars
  PROVE  Streams'
<1>0. /\ SenderOK /\ offer \in OfferSet
      /\ state \in [Click -> Inbound]
      /\ active \in Click \cup {None}
      /\ AssemblyOK
  BY TypeParts
<1>1. sender.stage \in Agreed => sender'.stage \in Agreed
  BY <1>0, CalmSender
<1>2. "file_send" \in rpcs' /\ "file_send" \notin rpcs =>
        /\ sender.stage = "offering" /\ sender'.stage = "opening"
        /\ state' = state
  BY <1>0, CalmFrames, Zenon DEF OfferAnswered, receiverVars
<1>3. HandleSendStream => "file_send" \in rpcs /\ "file_send" \notin rpcs'
  BY DEF HandleSendStream
<1>4. "file_send" \in rpcs' => \A k \in Click : ~state'[k].stream
  <2>1. CASE "file_send" \in rpcs
    BY <1>3, <2>1, StreamStep DEF Streams
  <2>2. CASE "file_send" \notin rpcs
    BY <1>2, <2>2 DEF Streams
  <2>. QED  BY <2>1, <2>2
<1>5. (\E k \in Click : state'[k].stream) \/ "file_send" \in rpcs' => sender'.stage \in Agreed
  BY <1>1, <1>2, <1>3, StreamStep DEF Streams, Agreed
<1>6. ASSUME FinalIn', assembly'.stage # "writing"
      PROVE  \E k \in Click : state'[k].stream
  <2>1. CASE FinalIn /\ assembly.stage # "writing"
    BY <2>1, StreamStep DEF Streams
  <2>2. CASE assembly.stage = "writing"
    <3>1. CASE Written
      <4>1. assembly.of \in Click
        BY <1>0, <2>2 DEF AssemblyOK
      <4>2. state[assembly.of].stream
        BY <3>1, CalmEnd DEF Written
      <4>. QED  BY <4>1, <4>2, StreamStep
    <3>2. ASSUME NEW i \in Index, HandleChunk(i)
          PROVE  \E k \in Click : state'[k].stream
      <4>1. active \in Click /\ End(active, "end_error")
        BY <1>0, <1>6, <2>2, <3>2 DEF HandleChunk
      <4>. QED  BY <4>1, CalmEnd, StreamStep
    <3>3. UNCHANGED assembly \/ Written \/ \E i \in Index : HandleChunk(i)
      <4>1. ~Close
        BY <2>2 DEF Close
      <4>. QED  BY <4>1, CalmReceiver, CalmSubscribed DEF DialogCloses, HandleSendStream
    <3>. QED  BY <1>6, <2>2, <3>1, <3>2, <3>3
  <2>3. CASE ~FinalIn
    <3>1. HandleChunk(Final)
      BY <1>6, <2>3, FinalStep
    <3>2. ~UNCHANGED state
      BY <1>6, <2>3 DEF FinalIn, Recorded
    <3>3. active \in Click /\ End(active, "end_error")
      BY <1>0, <1>6, <3>1, <3>2 DEF HandleChunk
    <3>. QED  BY <3>3, CalmEnd, StreamStep
  <2>. QED  BY <2>1, <2>2, <2>3
<1>. QED  BY <1>4, <1>5, <1>6 DEF Streams, Agreed

\* handleSendStream finds the transfer: no undisturbed stream is turned away.
LEMMA NotTurnedAway ==
  ASSUME TypeOK, Progress, YesFirst, Listens, Streams, HandleSendStream
  PROVE  active # None
<1>1. "file_send" \in rpcs
  BY DEF HandleSendStream
<1>2. Yes
  BY <1>1 DEF Streams, YesFirst
<1>3. CASE FinalIn
  <2>1. assembly.stage = "writing"
    BY <1>1, <1>3 DEF Streams
  <2>. QED  BY <2>1 DEF Listens
<1>. QED  BY <1>2, <1>3 DEF Listens

LEMMA FailedUnwrittenStep ==
  ASSUME TypeOK, Progress, YesFirst, NothingYet, Undisturbed, ~disturbed', [Next]_vars
  PROVE  FailedUnwritten'
<1>. USE DEF Undisturbed
<1>0. /\ SenderOK /\ offer \in OfferSet
      /\ active \in Click \cup {None}
      /\ AssemblyOK
  BY TypeParts
<1>1. HandleChunk(Final) => ~FinalIn
  BY DEF HandleChunk, Once, FinalIn
<1>2. FinalIn => FinalIn'
  BY FinalStep
<1>3. CASE Written
  <2>1. assembly.stage = "writing" /\ assembly'.stage # "writing" /\ FinalIn
    BY <1>0, <1>3 DEF Written, AssemblyOK, Listens
  <2>2. "end_error" \notin rpcs /\ sender'.settled # "failed" /\ ~written
    BY <1>0, <2>1, CalmSender DEF FailedUnwritten
  <2>3. "end_error" \in rpcs' => ~written'
    BY <1>3, <2>2, CalmEnd DEF Written
  <2>. QED  BY <1>2, <2>1, <2>2, <2>3 DEF FailedUnwritten
<1>4. CASE HandleChunk(Final)
  <2>1. ~FinalIn /\ ~written /\ written' = written
    BY <1>1, <1>4 DEF FailedUnwritten, HandleChunk
  <2>2. "end_error" \notin rpcs /\ sender'.settled # "failed"
    BY <1>0, <2>1, CalmSender DEF FailedUnwritten
  <2>3. "end_error" \in rpcs' => FinalIn' /\ assembly'.stage # "writing"
    <3>1. CASE UNCHANGED rpcs
      BY <2>2, <3>1
    <3>2. CASE /\ listening /\ active \in Click
               /\ assembly' = [of |-> active, stage |-> "closing"]
      BY <1>4, <3>2, FinalStep, NoneAssumption
    <3>. QED  BY <1>0, <1>4, <3>1, <3>2, ChunkStored
  <2>. QED  BY <2>1, <2>2, <2>3 DEF FailedUnwritten
<1>5. CASE ~Written /\ ~HandleChunk(Final)
  <2>1. written' = written
    <3>1. assembly.stage = "writing" /\ written' # written => Written
      BY CalmReceiver, CalmSubscribed DEF DialogCloses, HandleSendStream, HandleChunk, Close
    <3>. QED  BY <1>5, <3>1, AssemblyStep
  <2>2. assembly'.stage = "writing" => assembly.stage = "writing"
    <3>1. ASSUME NEW i \in Index, HandleChunk(i)  PROVE assembly' = assembly
      BY <1>5, <3>1 DEF HandleChunk
    <3>2. Close => assembly'.stage = "none"
      BY DEF Close, Idle
    <3>3. HandleSendStream => assembly' = assembly
      BY DEF HandleSendStream
    <3>4. ASSUME NEW k \in Click, DialogCloses(k) \/ Subscribed(k)
          PROVE  assembly' = assembly
      BY <3>4, CalmSubscribed DEF DialogCloses
    <3>. QED  BY <1>5, <3>1, <3>2, <3>3, <3>4, CalmReceiver
  <2>3. "end_error" \in rpcs' => "end_error" \in rpcs
    <3>1. ASSUME NEW i \in Index, HandleChunk(i)  PROVE UNCHANGED rpcs
      BY <1>5, <3>1 DEF HandleChunk
    <3>2. HandleSendStream => rpcs' \subseteq rpcs
      BY NotTurnedAway DEF HandleSendStream
    <3>. QED  BY <1>0, <1>5, <3>1, <3>2, CalmFrames
  <2>4. sender'.settled = "failed" => sender.settled = "failed" \/ "end_error" \in rpcs
    BY <1>0, CalmSender
  <2>. QED  BY <1>2, <2>1, <2>2, <2>3, <2>4 DEF FailedUnwritten
<1>. QED  BY <1>3, <1>4, <1>5

\* An undisturbed transfer stays in order.
LEMMA UndisturbedStep ==
  ASSUME TypeOK, Progress, YesFirst, NothingYet, Undisturbed, ~disturbed', [Next]_vars
  PROVE  Undisturbed'
<1>1. installed'
  BY CalmReceiver DEF Undisturbed
<1>. QED
  BY <1>1, ListensStep, OnceStep, StreamsStep, FailedUnwrittenStep DEF Undisturbed

LEMMA IInvInit == Init => IInv
<1>. SUFFICES ASSUME Init  PROVE IInv
  OBVIOUS
<1>. USE DEF Init
<1>1. \A i : ~Recorded(i)
  BY DEF Recorded, Fresh
<1>2. ~FinalIn
  BY <1>1 DEF FinalIn
<1>3. YesFirst /\ NothingYet
  BY DEF YesFirst, NothingYet, Yes, Idle, Fresh
<1>4. Listens
  BY <1>2 DEF Listens, Yes, Idle
<1>5. Once
  BY <1>1 DEF Once
<1>6. Streams
  BY <1>2 DEF Streams, Fresh
<1>7. FailedUnwritten
  BY DEF FailedUnwritten, Idle
<1>. QED  BY <1>3, <1>4, <1>5, <1>6, <1>7, TypeInit DEF IInv, Undisturbed

LEMMA IInvStep == IInv /\ [Next]_vars => IInv'
<1>. SUFFICES ASSUME IInv, [Next]_vars  PROVE IInv'
  OBVIOUS
<1>1. TypeOK' /\ Progress' /\ YesFirst' /\ NothingYet'
  BY TypeStep, YesFirstStep, NothingYetStep DEF IInv
<1>2. disturbed' \/ Undisturbed'
  BY DisturbedStays, UndisturbedStep DEF IInv
<1>. QED  BY <1>1, <1>2 DEF IInv

LEMMA IInvAlways == Spec => []IInv
BY IInvInit, IInvStep, PTL DEF Spec

\* Undisturbed, `settled` is rejected only for a file that was not written:
\* handleSendStream turns no stream away, and an assembly that reports an error
\* has written nothing.
THEOREM FailureTrue == Spec => []FailureIsTrue
<1>1. IInv => FailureIsTrue
  BY DEF IInv, Undisturbed, FailedUnwritten, FailureIsTrue
<1>. QED  BY <1>1, IInvAlways, PTL

\* Undisturbed, every chunk that was sent is under way or recorded until the
\* final chunk ends the transfer: the receiver listens before the sender can
\* hear yes.
THEOREM NoChunkLost == Spec => []NoChunkMissed
<1>1. IInv => NoChunkMissed
  BY DEF IInv, Undisturbed, Once, FinalIn, NoChunkMissed
<1>. QED  BY <1>1, IInvAlways, PTL

-----------------------------------------------------------------------------
(* The workers of transcribe.rs: the invariant.                            *)

Held == {"inbox", "warm", "open", "run", "work", "join", "ended"}

\* Only uploads have a decoder, and it sends chunks from the first on.
DecoderInv ==
  \A j \in Jobs : source[j].at # "decode" =>
    j \in Cast /\ Uploading(j) /\ (source[j].at = "send" => source[j].n # 0)

\* Who failed too often in a row has left its loop.
ErrsInv ==
  \A j \in Jobs : errs[j] = ErrorLimit => at[j] \in {"join", "ended", "unlisted", "free", "final"}

\* A recogniser at work has a chunk in hand.
HandInv ==
  \A j \in Jobs : at[j] = "work" => hold[j] # <<>>

\* Of two jobs under a key whose callers wait for each other one is over.
Alone ==
  \A j, k \in Cast :
    (Key(j) = Key(k) /\ Key(j) \notin raced /\ Kind(j) # "call" /\ ~Over(j) /\ ~Over(k)) => j = k

\* The map holds, under its key, the job that has entered and not left.
HolderInv ==
  \A j \in Cast : (Key(j) \notin raced /\ Kind(j) # "call" /\ at[j] \in Held) => holder[Key(j)] = j

\* Only remote sessions have inboxes, each the one of its id.
InboxInv ==
  /\ \A i \in Ids, j \in Cast : inbox[i] = j => Id(j) = i
  /\ \A j \in Cast :
       (Key(j) \notin raced /\ Kind(j) = "remote" /\ at[j] \in {"warm", "run", "ended", "unlisted"}) =>
         inbox[Id(j)] \in {j, Nil}
  /\ \A j \in Cast : Kind(j) = "remote" => at[j] \notin {"open", "work", "join"}
  /\ \A j \in Cast : Kind(j) # "remote" => at[j] \notin {"inbox", "unlisted"}

\* What the sweep is about to empty belongs to nobody.
SweepInv ==
  \A j \in Cast :
    (sweep.found # Nil /\ Key(j) = <<"sessions", sweep.found>> /\ Key(j) \notin raced) =>
      at[j] \notin Held \cup {"checked"}

\* A drain that runs, or ended by itself, has taken what it found or left it there.
DrainInv ==
  \A j \in Cast :
    (/\ Kind(j) = "drain" /\ Key(j) \notin raced
     /\ at[j] = "run" \/ (at[j] = "ended" /\ "cancel" \notin flags[j])) => found[j] \subseteq ToSet(out[j]) \cup disk[Id(j)]

\* Only a drain that has begun has found anything.
FoundInv ==
  \A j \in Cast : at[j] \in {"new", "checked", "inbox", "warm", "open"} => found[j] = {}

\* Only remote sessions are fed.
FedInv ==
  \A i \in Ids : {inbox[i], feed[i].to} \subseteq Of("remote") \cup {Nil}

\* s numbers its buffers from from+1 on; the audio of a job is in order when
\* what it sent, holds and has in its channel are the buffers up to the last that
\* its source handed over.
Counts(s, from) == \A i \in 1 .. Len(s) : s[i] = from + i
Sent(j) == IF source[j].at = "send" THEN source[j].n - 1 ELSE source[j].n
Counted(j) ==
  /\ Counts(out[j], 0)
  /\ Counts(hold[j], Len(out[j]))
  /\ Counts(chan[j], Len(out[j]) + Len(hold[j]))
  /\ Len(out[j]) + Len(hold[j]) + Len(chan[j]) = Sent(j)

\* What an upload keeps in order: the chunks it is through with, the one in
\* hand, those in the channel, and how far its decoder is.
Ready(j) ==
  (Uploading(j) /\ "cancel" \notin flags[j] /\ ~failed[j]) =>
    /\ Counted(j)
    /\ source[j].at = "end" => source[j].n >= Length - 1
    /\ Len(hold[j]) = IF at[j] = "work" THEN 1 ELSE 0
    /\ at[j] \in {"join", "ended"} => chan[j] = <<>> /\ source[j].at \in {"end", "error"}
    /\ at[j] = "ended" => source[j].at = "end"

UploadInv == \A j \in Cast : Ready(j)

\* A capture of a file has no channel; a capture that ends sends what is pending.
SentOn(j) ==
  /\ Kind(j) = "file" => chan[j] = <<>> /\ Counted(j)
  /\ (Kind(j) \in {"capture", "file"} /\ at[j] = "ended" /\ ~failed[j]) => hold[j] = <<>>

CaptureInv == \A j \in Cast : SentOn(j)

\* What a job is through with comes before what it holds, and that before what
\* is in its channel, although some of it may be dropped on the way; all of it
\* was handed over.  The frames of a peer carry no number here.
UpTo(s, n) == \A i \in DOMAIN s : s[i] <= n
Ahead(s, t) == \A i \in DOMAIN s, k \in DOMAIN t : s[i] < t[k]
Line(o, h, c, n) ==
  /\ InOrder(o) /\ InOrder(h) /\ InOrder(c)
  /\ Ahead(o, h) /\ Ahead(o, c) /\ Ahead(h, c)
  /\ UpTo(o, n) /\ UpTo(h, n) /\ UpTo(c, n)
InLine(j) ==
  IF Kind(j) = "remote" THEN out[j] = <<>>
  ELSE /\ Line(out[j], hold[j], chan[j], Sent(j))
       /\ Kind(j) = "drain" => hold[j] = <<>> /\ chan[j] = <<>>

LineInv == \A j \in Cast : InLine(j)

Channel == BoundedSeq(Audio, Capacity)

-----------------------------------------------------------------------------
(* Channels and directories.                                               *)

LEMMA ChannelIsSequence ==
  ASSUME NEW q
  PROVE  q \in Channel <=> q \in Seq(Audio) /\ Len(q) <= Capacity
<1>1. Capacity \in Nat
  BY WorkersAssumption
<1>2. ASSUME q \in Channel PROVE q \in Seq(Audio) /\ Len(q) <= Capacity
  <2>1. PICK m \in 0 .. Capacity : q \in [1 .. m -> Audio]
    BY <1>2 DEF Channel, BoundedSeq, SeqOf
  <2>2. q \in Seq(Audio) /\ Len(q) = m
    BY <2>1, <1>1
  <2> QED
    BY <2>1, <2>2, <1>1
<1>3. ASSUME q \in Seq(Audio), Len(q) <= Capacity PROVE q \in Channel
  <2>1. Len(q) \in 0 .. Capacity /\ q \in [1 .. Len(q) -> Audio]
    BY <1>3, <1>1
  <2> QED
    BY <2>1 DEF Channel, BoundedSeq, SeqOf
<1> QED
  BY <1>2, <1>3

LEMMA ChannelKeeps ==
  /\ <<>> \in Channel
  /\ \A q \in Channel : q # <<>> => Tail(q) \in Channel /\ Head(q) \in Audio
  /\ \A q \in Channel, n \in Audio : Len(q) < Capacity => Append(q, n) \in Channel
<1>1. <<>> \in Channel
  <2>1. <<>> \in Seq(Audio) /\ Len(<<>>) <= Capacity
    BY WorkersAssumption
  <2> QED
    BY <2>1, ChannelIsSequence
<1>2. ASSUME NEW q \in Channel, q # <<>> PROVE Tail(q) \in Channel /\ Head(q) \in Audio
  <2>1. q \in Seq(Audio) /\ Len(q) <= Capacity
    BY ChannelIsSequence
  <2>2. Tail(q) \in Seq(Audio) /\ Len(Tail(q)) <= Capacity /\ Head(q) \in Audio
    BY <1>2, <2>1, WorkersAssumption
  <2> QED
    BY <2>2, ChannelIsSequence
<1>3. ASSUME NEW q \in Channel, NEW n \in Audio, Len(q) < Capacity PROVE Append(q, n) \in Channel
  <2>1. q \in Seq(Audio)
    BY ChannelIsSequence
  <2>2. Append(q, n) \in Seq(Audio) /\ Len(Append(q, n)) = Len(q) + 1
    BY <2>1
  <2>3. Len(Append(q, n)) <= Capacity
    BY <1>3, <2>1, <2>2, WorkersAssumption
  <2> QED
    BY <2>2, <2>3, ChannelIsSequence
<1> QED
  BY <1>1, <1>2, <1>3

\* A directory with chunks in it has a lowest one.
LEMMA LowestChunk ==
  ASSUME NEW rest \in SUBSET (Audio), rest # {}
  PROVE  Min(rest) \in rest
<1>1. rest \subseteq Nat
  BY WorkersAssumption DEF Audio
<1>2. IsWellFoundedOn(OpToRel(<, Nat), Nat)
  BY NatLessThanWellFounded
<1>3. PICK x \in rest : \A y \in rest : ~ (<<y, x>> \in OpToRel(<, Nat))
  BY <1>1, <1>2, WFMin
<1>4. \A y \in rest : x <= y
  <2>1. ASSUME NEW y \in rest, y < x PROVE FALSE
    <3>1. <<y, x>> \in Nat \X Nat /\ <<y, x>>[1] < <<y, x>>[2]
      BY <1>1, <2>1
    <3>2. <<y, x>> \in OpToRel(<, Nat)
      BY <3>1 DEF OpToRel
    <3> QED
      BY <1>3, <3>2
  <2> QED
    BY <1>1, <2>1
<1> QED
  BY <1>4 DEF Min

\* emit_pcm_frames sends a part of what is pending, from its first buffer on.
LEMMA FramesFit ==
  ASSUME NEW pending \in Seq(Audio)
  PROVE  WholeFrames(pending) \in 0 .. Len(pending)
<1>1. \A a \in Nat, f \in Nat \ {0} : a - (a % f) \in 0 .. a
  <2> SUFFICES ASSUME NEW a \in Nat, NEW f \in Nat \ {0} PROVE a - (a % f) \in 0 .. a
    OBVIOUS
  <2>1. a = f * (a \div f) + (a % f) /\ a % f \in 0 .. f - 1 /\ a \div f \in Int
    BY SMT
  <2>2. a \div f >= 0
    <3>1. SUFFICES ASSUME a \div f <= -1 PROVE FALSE
      BY <2>1
    <3>2. f * (a \div f) <= -f
      BY <3>1, <2>1
    <3> QED
      BY <3>2, <2>1
  <2>3. f * (a \div f) >= 0
    BY <2>1, <2>2
  <2> QED
    BY <2>1, <2>3
<1>2. Len(pending) \in Nat /\ FrameSize \in Nat \ {0}
  BY WorkersAssumption
<1> QED
  BY <1>1, <1>2 DEF WholeFrames

-----------------------------------------------------------------------------
(* Types.                                                                  *)

Typed == WorkersTypeOK /\ DecoderInv /\ ErrsInv /\ HandInv

LEMMA CastShape ==
  ASSUME cast \in Casts, NEW j \in Cast
  PROVE  /\ j \in Jobs /\ Kind(j) \in Kinds /\ Id(j) \in Ids
         /\ MapOf(j) \in Maps /\ Key(j) \in Maps \X Ids
<1>1. j \in Jobs /\ cast[j] \in [kind : Kinds, id : Ids]
  BY JobsAssumption DEF Cast
<1>2. Kind(j) \in Kinds /\ Id(j) \in Ids
  BY <1>1 DEF Kind, Id
<1>3. MapOf(j) \in Maps
  BY DEF MapOf, Maps
<1> QED
  BY <1>1, <1>2, <1>3 DEF Key

LEMMA InitTyped == WorkersInit => Typed
<1> SUFFICES ASSUME WorkersInit PROVE Typed
  OBVIOUS
<1>1. /\ cast \in Casts
      /\ holder \in [Maps \X Ids -> Jobs \cup {Nil}] /\ inbox \in [Ids -> Jobs \cup {Nil}]
      /\ flags \in [Jobs -> SUBSET {"cancel", "draining", "paused"}]
      /\ failed \in [Jobs -> BOOLEAN] /\ ending \in [Ids -> BOOLEAN]
      /\ raced \subseteq Maps \X Ids
  BY DEF WorkersInit
<1>2. /\ at \in [Jobs -> {"new", "checked", "inbox", "warm", "open", "run", "work", "join", "ended",
                          "unlisted", "free", "final", "refused"}]
      /\ found \in [Jobs -> SUBSET Audio] /\ disk \in [Ids -> SUBSET Audio]
  BY WorkersAssumption DEF WorkersInit
<1>3. hold \in [Jobs -> Seq(Audio)] /\ out \in [Jobs -> Seq(Audio)] /\ chan \in [Jobs -> Channel]
  BY ChannelKeeps DEF WorkersInit
<1>4. errs \in [Jobs -> 0 .. ErrorLimit] /\ \A j \in Jobs : errs[j] # ErrorLimit
  BY WorkersAssumption DEF WorkersInit
<1>5. source \in [Jobs -> [at : {"decode", "send", "end", "error"}, n : 0 .. Length]]
  BY WorkersAssumption DEF WorkersInit
<1>6. feed \in [Ids -> [to : Jobs \cup {Nil}, left : 0 .. Feeds]]
  BY WorkersAssumption DEF WorkersInit
<1>7. sweep \in [left : 0 .. Sweeps, ids : SUBSET Ids, found : Ids \cup {Nil}]
  BY WorkersAssumption DEF WorkersInit
<1>8. DecoderInv
  BY DEF WorkersInit, DecoderInv
<1>9. HandInv
  BY DEF WorkersInit, HandInv
<1> QED
  BY <1>1, <1>2, <1>3, <1>4, <1>5, <1>6, <1>7, <1>8, <1>9 DEF Typed, WorkersTypeOK, ErrsInv, Channel

Places == {"new", "checked", "inbox", "warm", "open", "run", "work", "join", "ended",
           "unlisted", "free", "final", "refused"}
Outside == {"join", "ended", "unlisted", "free", "final"}
Beside(j) == Jobs \ {j}

\* A job goes from a place to another, and what else changes is well typed.
LEMMA MoveTyped ==
  ASSUME Typed, NEW j \in Cast, NEW place \in Places, Goto(j, place),
         UNCHANGED <<cast, source, errs, callers>>, at[j] \notin Outside \/ place \in Outside,
         place # "work", \A k \in Beside(j) : hold'[k] = hold[k],
         holder' \in [Maps \X Ids -> Jobs \cup {Nil}], inbox' \in [Ids -> Jobs \cup {Nil}],
         flags' = flags, failed' \in [Jobs -> BOOLEAN],
         chan' \in [Jobs -> Channel], hold' \in [Jobs -> Seq(Audio)], out' \in [Jobs -> Seq(Audio)],
         found' \in [Jobs -> SUBSET Audio], disk' \in [Ids -> SUBSET Audio],
         raced' \subseteq Maps \X Ids
  PROVE  Typed'
<1>1. j \in Jobs
  BY CastShape DEF Typed, WorkersTypeOK
<1>2. at \in [Jobs -> Places] /\ at' = [at EXCEPT ![j] = place]
  BY DEF Typed, WorkersTypeOK, Places, Goto
<1>3. at' \in [Jobs -> Places] /\ at'[j] = place /\ \A k \in Beside(j) : at'[k] = at[k]
  BY <1>1, <1>2 DEF Beside
<1>4. WorkersTypeOK'
  BY <1>3 DEF Typed, WorkersTypeOK, Places, Channel, callers
<1>5. DecoderInv'
  BY DEF Typed, DecoderInv, Cast, Uploading, Kind
<1>6. ErrsInv'
  <2>1. \A k \in Jobs : errs[k] = ErrorLimit => at[k] \in Outside
    BY DEF Typed, ErrsInv, Outside
  <2>2. \A k \in Jobs : errs'[k] = ErrorLimit => at'[k] \in Outside
    BY <1>3, <2>1 DEF Beside
  <2> QED
    BY <2>2 DEF ErrsInv, Outside
<1>7. HandInv'
  BY <1>3 DEF Typed, HandInv, Beside
<1> QED
  BY <1>4, <1>5, <1>6, <1>7 DEF Typed

LEMMA StartsTyped ==
  ASSUME Typed, NEW j \in Cast,
         Starts(j) \/ Insert(j) \/ OpenInbox(j) \/ WarmUp(j) \/ OpenFile(j) \/ OpenMicrophone(j)
  PROVE  Typed'
<1>1. /\ j \in Jobs /\ Kind(j) \in Kinds /\ Id(j) \in Ids
      /\ MapOf(j) \in Maps /\ Key(j) \in Maps \X Ids
  BY CastShape DEF Typed, WorkersTypeOK
<1>2. /\ holder \in [Maps \X Ids -> Jobs \cup {Nil}] /\ inbox \in [Ids -> Jobs \cup {Nil}]
      /\ failed \in [Jobs -> BOOLEAN] /\ found \in [Jobs -> SUBSET Audio]
      /\ chan \in [Jobs -> Channel] /\ hold \in [Jobs -> Seq(Audio)] /\ out \in [Jobs -> Seq(Audio)]
      /\ disk \in [Ids -> SUBSET Audio] /\ raced \subseteq Maps \X Ids
  BY DEF Typed, WorkersTypeOK, Channel
<1>3. CASE Starts(j)
  <2>1. /\ at[j] = "new" /\ UNCHANGED <<cast, holder, inbox, flags, failed, work, disk, callers>>
        /\ raced' \subseteq raced \cup {Key(j)}
        /\ \E place \in {"checked", "refused", "warm"} : Goto(j, place)
    BY <1>3 DEF Starts, Start, StartDrain, StartUpload, StartRemoteSession, StartCapture,
       StartDecodeFile, StartBlocking, Check
  <2>2. PICK place \in {"checked", "refused", "warm"} : Goto(j, place)
    BY <2>1
  <2>3. place \in Places /\ at[j] \notin Outside
    BY <2>1 DEF Places, Outside
  <2> QED
    BY <1>1, <1>2, <2>1, <2>2, <2>3, MoveTyped DEF work
<1>4. CASE Insert(j)
  <2>1. PICK place \in {"inbox", "open", "warm"} : Goto(j, place)
    BY <1>4 DEF Insert
  <2>2. place \in Places /\ at[j] \notin Outside
    BY <1>4 DEF Places, Outside, Insert
  <2>3. holder' \in [Maps \X Ids -> Jobs \cup {Nil}]
    BY <1>1, <1>2, <1>4 DEF Insert
  <2> QED
    BY <1>2, <1>4, <2>1, <2>2, <2>3, MoveTyped DEF Insert, work
<1>5. CASE OpenInbox(j)
  <2>1. Goto(j, "warm") /\ "warm" \in Places /\ at[j] \notin Outside
    BY <1>5 DEF OpenInbox, Places, Outside
  <2>2. inbox' \in [Ids -> Jobs \cup {Nil}]
    BY <1>1, <1>2, <1>5 DEF OpenInbox
  <2> QED
    BY <1>2, <1>5, <2>1, <2>2, MoveTyped DEF OpenInbox, work
<1>6. CASE WarmUp(j)
  <2>1. PICK place \in {"open", "run", "ended"} : Goto(j, place)
    BY <1>6 DEF WarmUp, Fails
  <2>2. place \in Places /\ at[j] \notin Outside
    BY <1>6 DEF Places, Outside, WarmUp
  <2>3. failed' \in [Jobs -> BOOLEAN]
    BY <1>1, <1>2, <1>6 DEF WarmUp, Fails
  <2>4. disk' \in [Ids -> SUBSET Audio]
    <3>1. disk' = disk \/ disk' = [disk EXCEPT ![Id(j)] = @ \cap Stuck]
      BY <1>6 DEF WarmUp
    <3> QED
      BY <1>1, <1>2, <3>1
  <2>5. found' \in [Jobs -> SUBSET Audio]
    BY <1>1, <1>2, <1>6 DEF WarmUp
  <2> QED
    BY <1>2, <1>6, <2>1, <2>2, <2>3, <2>4, <2>5, MoveTyped DEF WarmUp
<1>7. CASE OpenFile(j) \/ OpenMicrophone(j)
  <2>1. PICK place \in {"run", "ended"} : Goto(j, place)
    BY <1>7 DEF OpenFile, OpenMicrophone, Fails
  <2>2. place \in Places /\ at[j] \notin Outside
    BY <1>7 DEF Places, Outside, OpenFile, OpenMicrophone
  <2>3. failed' \in [Jobs -> BOOLEAN]
    BY <1>1, <1>2, <1>7 DEF OpenFile, OpenMicrophone, Fails
  <2> QED
    BY <1>2, <1>7, <2>1, <2>2, <2>3, MoveTyped DEF OpenFile, OpenMicrophone, work
<1> QED
  BY <1>3, <1>4, <1>5, <1>6, <1>7

LEMMA EndsTyped ==
  ASSUME Typed, NEW j \in Cast,
         \/ Unregister(j) \/ CloseInbox(j) \/ EmitFinal(j) \/ AnswerCall(j)
         \/ (\E broken \in BOOLEAN : LiveEnds(j, broken) \/ RemoteEnds(j, broken))
         \/ DrainEnds(j) \/ Join(j) \/ WorkStops(j) \/ CaptureFails(j)
  PROVE  Typed'
<1>1. /\ j \in Jobs /\ Kind(j) \in Kinds /\ Id(j) \in Ids
      /\ MapOf(j) \in Maps /\ Key(j) \in Maps \X Ids
  BY CastShape DEF Typed, WorkersTypeOK
<1>2. /\ holder \in [Maps \X Ids -> Jobs \cup {Nil}] /\ inbox \in [Ids -> Jobs \cup {Nil}]
      /\ failed \in [Jobs -> BOOLEAN] /\ found \in [Jobs -> SUBSET Audio]
      /\ chan \in [Jobs -> Channel] /\ hold \in [Jobs -> Seq(Audio)] /\ out \in [Jobs -> Seq(Audio)]
      /\ disk \in [Ids -> SUBSET Audio] /\ raced \subseteq Maps \X Ids
      /\ failed[j] \in BOOLEAN
  BY <1>1 DEF Typed, WorkersTypeOK, Channel
<1>3. CASE Unregister(j)
  <2>1. PICK place \in {"unlisted", "free"} : Goto(j, place)
    BY <1>3 DEF Unregister
  <2>2. place \in Places /\ place \in Outside
    BY DEF Places, Outside
  <2>3. holder' \in [Maps \X Ids -> Jobs \cup {Nil}]
    BY <1>1, <1>2, <1>3 DEF Unregister
  <2> QED
    BY <1>2, <1>3, <2>1, <2>2, <2>3, MoveTyped DEF Unregister, work
<1>4. CASE CloseInbox(j)
  <2>1. Goto(j, "free") /\ "free" \in Places /\ "free" \in Outside
    BY <1>4 DEF CloseInbox, Places, Outside
  <2>2. inbox' \in [Ids -> Jobs \cup {Nil}]
    BY <1>1, <1>2, <1>4 DEF CloseInbox
  <2> QED
    BY <1>2, <1>4, <2>1, <2>2, MoveTyped DEF CloseInbox, work
<1>5. CASE EmitFinal(j) \/ AnswerCall(j)
  <2>1. Goto(j, "final") /\ "final" \in Places /\ "final" \in Outside
    BY <1>5 DEF EmitFinal, AnswerCall, Places, Outside
  <2> QED
    BY <1>2, <1>5, <2>1, MoveTyped DEF EmitFinal, AnswerCall, work
<1>6. ASSUME NEW broken \in BOOLEAN, Ends(j, broken),
             UNCHANGED <<cast, holder, inbox, flags, raced, out, errs, source, callers, found>>,
             chan' \in [Jobs -> Channel], hold' = hold, disk' \in [Ids -> SUBSET Audio]
      PROVE  Typed'
  <2>1. Goto(j, "ended") /\ "ended" \in Places /\ "ended" \in Outside
    BY <1>6 DEF Ends, Places, Outside
  <2>2. failed' \in [Jobs -> BOOLEAN]
    BY <1>1, <1>2, <1>6 DEF Ends
  <2> QED
    BY <1>2, <1>6, <2>1, <2>2, MoveTyped
<1>7. CASE \E broken \in BOOLEAN : LiveEnds(j, broken) \/ RemoteEnds(j, broken)
  <2>1. PICK broken \in BOOLEAN : LiveEnds(j, broken) \/ RemoteEnds(j, broken)
    BY <1>7
  <2>2. Ends(j, broken) /\ disk' = [disk EXCEPT ![Id(j)] = @ \cap Stuck]
    BY <2>1 DEF LiveEnds, RemoteEnds
  <2>3. disk' \in [Ids -> SUBSET Audio]
    BY <1>1, <1>2, <2>2
  <2>4. chan' = chan \/ chan' = [chan EXCEPT ![j] = <<>>]
    BY <2>1 DEF LiveEnds, RemoteEnds, work
  <2>5. chan' \in [Jobs -> Channel]
    BY <1>1, <1>2, <2>4, ChannelKeeps
  <2>6. UNCHANGED <<cast, holder, inbox, flags, raced, hold, out, errs, source, callers, found>>
    BY <2>1 DEF LiveEnds, RemoteEnds, work
  <2> QED
    BY <1>2, <1>6, <2>2, <2>3, <2>5, <2>6
<1>8. CASE DrainEnds(j)
  <2>1. disk' \in [Ids -> SUBSET Audio]
    BY <1>1, <1>2, <1>8 DEF DrainEnds
  <2> QED
    BY <1>2, <1>6, <1>8, <2>1 DEF DrainEnds, work
<1>9. CASE Join(j)
  <2>1. (failed[j] \/ source[j].at = "error") \in BOOLEAN
    BY <1>2
  <2>2. PICK broken \in BOOLEAN : Ends(j, broken)
    BY <1>9, <2>1 DEF Join
  <2> QED
    BY <1>2, <1>6, <1>9, <2>2 DEF Join, work
<1>10. CASE CaptureFails(j)
  BY <1>2, <1>6, <1>10 DEF CaptureFails, work
<1>11. CASE WorkStops(j)
  <2>1. Goto(j, "join") /\ "join" \in Places /\ "join" \in Outside
    BY <1>11 DEF WorkStops, Places, Outside
  <2>2. hold' \in [Jobs -> Seq(Audio)] /\ \A k \in Beside(j) : hold'[k] = hold[k]
    BY <1>1, <1>2, <1>11 DEF WorkStops, Beside
  <2> QED
    BY <1>2, <1>11, <2>1, <2>2, MoveTyped DEF WorkStops
<1> QED
  BY <1>3, <1>4, <1>5, <1>7, <1>8, <1>9, <1>10, <1>11

\* A chunk or a buffer goes one place further; the job may go with it.
LEMMA AudioTyped ==
  ASSUME Typed, NEW j \in Cast, UNCHANGED <<cast, holder, inbox, raced, callers, found>>,
         at' \in [Jobs -> Places], \A k \in Beside(j) : at'[k] = at[k] /\ errs'[k] = errs[k],
         errs'[j] = ErrorLimit => at'[j] \in Outside,
         \A k \in Beside(j) : source'[k] = source[k],
         source'[j].at # "decode" => Uploading(j) /\ (source'[j].at = "send" => source'[j].n # 0),
         at'[j] = "work" => hold'[j] # <<>>, \A k \in Beside(j) : hold'[k] = hold[k],
         flags' \in [Jobs -> SUBSET {"cancel", "draining", "paused"}],
         failed' \in [Jobs -> BOOLEAN], errs' \in [Jobs -> 0 .. ErrorLimit],
         chan' \in [Jobs -> Channel], hold' \in [Jobs -> Seq(Audio)], out' \in [Jobs -> Seq(Audio)],
         source' \in [Jobs -> [at : {"decode", "send", "end", "error"}, n : 0 .. Length]],
         disk' \in [Ids -> SUBSET Audio]
  PROVE  Typed'
<1>1. j \in Jobs
  BY CastShape DEF Typed, WorkersTypeOK
<1>2. WorkersTypeOK'
  BY DEF Typed, WorkersTypeOK, Places, Channel, callers
<1>3. DecoderInv'
  <2>1. \A k \in Jobs : source[k].at # "decode" =>
          k \in Cast /\ Uploading(k) /\ (source[k].at = "send" => source[k].n # 0)
    BY DEF Typed, DecoderInv
  <2>2. \A k \in Jobs : source'[k].at # "decode" =>
          k \in Cast /\ Uploading(k) /\ (source'[k].at = "send" => source'[k].n # 0)
    BY <2>1 DEF Beside
  <2> QED
    BY <2>2 DEF DecoderInv, Cast, Uploading, Kind
<1>4. ErrsInv'
  <2>1. \A k \in Jobs : errs[k] = ErrorLimit => at[k] \in Outside
    BY DEF Typed, ErrsInv, Outside
  <2>2. \A k \in Jobs : errs'[k] = ErrorLimit => at'[k] \in Outside
    BY <2>1 DEF Beside
  <2> QED
    BY <2>2 DEF ErrsInv, Outside
<1>5. HandInv'
  <2>1. \A k \in Jobs : at[k] = "work" => hold[k] # <<>>
    BY DEF Typed, HandInv
  <2>2. \A k \in Jobs : at'[k] = "work" => hold'[k] # <<>>
    BY <2>1 DEF Beside
  <2> QED
    BY <2>2 DEF HandInv
<1> QED
  BY <1>2, <1>3, <1>4, <1>5 DEF Typed

\* A failure adds to the failures in a row; nothing else does.
LEMMA CountTyped ==
  ASSUME NEW j \in Jobs, errs \in [Jobs -> 0 .. ErrorLimit], errs[j] \in 0 .. ErrorLimit - 1,
         NEW outcome \in Outcomes, Count(j, outcome)
  PROVE  errs' \in [Jobs -> 0 .. ErrorLimit] /\ \A k \in Beside(j) : errs'[k] = errs[k]
<1>1. ErrorLimit \in Nat \ {0}
  BY WorkersAssumption
<1>2. PICK n \in 0 .. ErrorLimit : errs' = [errs EXCEPT ![j] = n]
  <2>1. errs[j] + 1 \in 0 .. ErrorLimit /\ 0 \in 0 .. ErrorLimit /\ errs[j] \in 0 .. ErrorLimit
    BY <1>1
  <2> QED
    BY <2>1 DEF Count
<1> QED
  BY <1>2 DEF Beside

LEMMA DrainTyped ==
  ASSUME Typed, NEW j \in Cast, Seek(j) \/ Drain(j)
  PROVE  Typed'
<1>1. j \in Jobs /\ Id(j) \in Ids /\ Kind(j) = "drain" /\ at[j] = "run"
  BY CastShape DEF Typed, WorkersTypeOK, Seek, Drain, DrainRuns
<1>2. /\ at \in [Jobs -> Places] /\ failed \in [Jobs -> BOOLEAN] /\ found \in [Jobs -> SUBSET Audio]
      /\ flags \in [Jobs -> SUBSET {"cancel", "draining", "paused"}]
      /\ chan \in [Jobs -> Channel] /\ hold \in [Jobs -> Seq(Audio)] /\ out \in [Jobs -> Seq(Audio)]
      /\ disk \in [Ids -> SUBSET Audio] /\ errs \in [Jobs -> 0 .. ErrorLimit]
      /\ source \in [Jobs -> [at : {"decode", "send", "end", "error"}, n : 0 .. Length]]
  BY DEF Typed, WorkersTypeOK, Channel, Places
<1>3. source[j].at = "decode" /\ source[j].n \in 0 .. Length /\ errs[j] \in 0 .. ErrorLimit - 1
  <2>1. source[j].at = "decode" /\ errs[j] # ErrorLimit
    BY <1>1 DEF Typed, DecoderInv, ErrsInv, Uploading
  <2> QED
    BY <1>1, <1>2, <2>1, WorkersAssumption
<1>4. Length \in Nat /\ ErrorLimit \in Nat \ {0} /\ "run" \notin Outside
  BY WorkersAssumption DEF Outside
<1>5. CASE Seek(j)
  <2>1. disk[Id(j)] \in SUBSET Audio
    BY <1>1, <1>2
  <2>2. Min(disk[Id(j)]) \in Audio
    BY <1>5, <2>1, LowestChunk DEF Seek
  <2>3. PICK n \in 0 .. Length : source' = [source EXCEPT ![j].n = n]
    <3>1. (IF Min(disk[Id(j)]) > NextSeq(j) THEN Min(disk[Id(j)]) - 1
           ELSE IF source[j].n < Length THEN source[j].n + 1 ELSE source[j].n) \in 0 .. Length
      BY <1>3, <1>4, <2>2 DEF NextSeq, Audio
    <3> QED
      BY <1>5, <3>1 DEF Seek
  <2>4. source' \in [Jobs -> [at : {"decode", "send", "end", "error"}, n : 0 .. Length]]
    BY <1>1, <1>2, <2>3
  <2>5. source'[j].at = "decode" /\ \A k \in Beside(j) : source'[k] = source[k]
    BY <1>1, <1>2, <1>3, <2>3 DEF Beside
  <2>6. UNCHANGED <<cast, holder, inbox, at, flags, failed, raced, chan, hold, out, errs, disk, callers, found>>
    BY <1>5 DEF Seek, control
  <2>7. errs'[j] # ErrorLimit
    BY <1>3, <1>4, <2>6
  <2> QED
    BY <1>1, <1>2, <2>4, <2>5, <2>6, <2>7, AudioTyped
<1>6. CASE Drain(j)
  <2>1. UNCHANGED <<cast, holder, inbox, flags, raced, chan, hold, callers, found>>
    BY <1>6 DEF Drain
  <2>2. PICK outcome \in Outcomes :
          /\ Count(j, outcome)
          /\ IF errs'[j] = ErrorLimit
             THEN Ends(j, TRUE) /\ UNCHANGED <<disk, source, out>>
             ELSE /\ Through(j, NextSeq(j))
                  /\ disk' = [disk EXCEPT ![Id(j)] = @ \ ({NextSeq(j)} \ Stuck)]
                  /\ source' = [source EXCEPT ![j].n = @ + 1]
                  /\ UNCHANGED <<at, failed>>
    BY <1>6 DEF Drain
  <2>3. errs' \in [Jobs -> 0 .. ErrorLimit] /\ \A k \in Beside(j) : errs'[k] = errs[k]
    BY <1>1, <1>2, <1>3, <1>4, <2>2, CountTyped
  <2>4. CASE errs'[j] = ErrorLimit
    <3>1. at' = [at EXCEPT ![j] = "ended"] /\ failed' = [failed EXCEPT ![j] = TRUE]
      BY <2>2, <2>4 DEF Ends, Goto
    <3>2. "ended" \in Places /\ "ended" \in Outside
      BY DEF Places, Outside
    <3>3. /\ at' \in [Jobs -> Places] /\ at'[j] \in Outside /\ at'[j] # "work" /\ failed' \in [Jobs -> BOOLEAN]
          /\ \A k \in Beside(j) : at'[k] = at[k]
      BY <1>1, <1>2, <3>1, <3>2 DEF Beside
    <3>4. UNCHANGED <<disk, source, out>>
      BY <2>2, <2>4
    <3> QED
      BY <1>1, <1>2, <1>3, <2>1, <2>3, <3>3, <3>4, AudioTyped
  <2>5. CASE errs'[j] # ErrorLimit
    <3>1. NextSeq(j) \in Audio
      BY <1>1, <1>2, <1>6 DEF Drain
    <3>2. out' \in [Jobs -> Seq(Audio)]
      <4>1. Append(out[j], NextSeq(j)) \in Seq(Audio)
        BY <1>1, <1>2, <3>1
      <4> QED
        BY <1>1, <1>2, <2>2, <2>5, <4>1 DEF Through
    <3>3. disk' \in [Ids -> SUBSET Audio]
      <4>1. disk[Id(j)] \ ({NextSeq(j)} \ Stuck) \in SUBSET Audio
        BY <1>1, <1>2
      <4> QED
        BY <1>1, <1>2, <2>2, <2>5, <4>1
    <3>4. PICK n \in 0 .. Length : n = source[j].n + 1
      BY <1>4, <3>1 DEF Audio, NextSeq
    <3>5. source' \in [Jobs -> [at : {"decode", "send", "end", "error"}, n : 0 .. Length]]
      <4>1. source' = [source EXCEPT ![j].n = n]
        BY <2>2, <2>5, <3>4
      <4> QED
        BY <1>1, <1>2, <4>1
    <3>6. source'[j].at = "decode" /\ \A k \in Beside(j) : source'[k] = source[k]
      BY <1>1, <1>2, <1>3, <2>2, <2>5 DEF Beside
    <3>7. UNCHANGED <<at, failed>>
      BY <2>2, <2>5
    <3> QED
      BY <1>1, <1>2, <2>1, <2>3, <2>5, <3>2, <3>3, <3>5, <3>6, <3>7, AudioTyped
  <2> QED
    BY <2>4, <2>5
<1> QED
  BY <1>5, <1>6

LEMMA UploadTyped ==
  ASSUME Typed, NEW j \in Cast, Decode(j) \/ DecodeStops(j) \/ Send(j) \/ Take(j) \/ Work(j)
  PROVE  Typed'
<1>1. j \in Jobs /\ Uploading(j)
  BY CastShape DEF Typed, WorkersTypeOK, Decode, DecodeStops, Decoding, Send, Take, Work
<1>2. /\ at \in [Jobs -> Places] /\ failed \in [Jobs -> BOOLEAN] /\ found \in [Jobs -> SUBSET Audio]
      /\ flags \in [Jobs -> SUBSET {"cancel", "draining", "paused"}]
      /\ chan \in [Jobs -> Channel] /\ hold \in [Jobs -> Seq(Audio)] /\ out \in [Jobs -> Seq(Audio)]
      /\ disk \in [Ids -> SUBSET Audio] /\ errs \in [Jobs -> 0 .. ErrorLimit]
      /\ source \in [Jobs -> [at : {"decode", "send", "end", "error"}, n : 0 .. Length]]
  BY DEF Typed, WorkersTypeOK, Channel, Places
<1>3. /\ errs[j] = ErrorLimit => at[j] \in Outside
      /\ source[j].at = "send" => source[j].n # 0
      /\ source[j].n \in 0 .. Length /\ (at[j] = "work" => hold[j] # <<>>)
  <2>1. errs[j] = ErrorLimit => at[j] \in Outside
    BY <1>1 DEF Typed, ErrsInv, Outside
  <2>2. source[j].at = "send" => source[j].n # 0
    BY <1>1 DEF Typed, DecoderInv
  <2>3. at[j] = "work" => hold[j] # <<>>
    BY <1>1 DEF Typed, HandInv
  <2> QED
    BY <1>1, <1>2, <2>1, <2>2, <2>3
<1>4. Length \in Nat \ {0} /\ ErrorLimit \in Nat \ {0} /\ Capacity \in Nat
  BY WorkersAssumption
<1>5. CASE Decode(j) \/ DecodeStops(j)
  <2>1. UNCHANGED <<cast, holder, inbox, at, flags, failed, raced, chan, hold, out, errs, disk, callers, found>>
    BY <1>5 DEF Decode, DecodeStops, control
  <2>2. PICK s \in [at : {"decode", "send", "end", "error"}, n : 0 .. Length] :
          source' = [source EXCEPT ![j] = s] /\ (s.at = "send" => s.n # 0)
    <3>1. CASE Decode(j)
      <4>1. \/ /\ source[j].n < Length
               /\ source' = [source EXCEPT ![j] = [at |-> "send", n |-> source[j].n + 1]]
            \/ source' = [source EXCEPT ![j] = [source[j] EXCEPT !.at = "end"]]
        BY <1>1, <1>2, <3>1 DEF Decode
      <4>2. CASE /\ source[j].n < Length
                 /\ source' = [source EXCEPT ![j] = [at |-> "send", n |-> source[j].n + 1]]
        <5>1. PICK n \in 0 .. Length : n = source[j].n + 1 /\ n # 0
          BY <1>3, <1>4, <4>2
        <5>2. [at |-> "send", n |-> n] \in [at : {"decode", "send", "end", "error"}, n : 0 .. Length]
          BY <5>1
        <5> QED
          BY <4>2, <5>1, <5>2
      <4>3. CASE source' = [source EXCEPT ![j] = [source[j] EXCEPT !.at = "end"]]
        <5>1. [source[j] EXCEPT !.at = "end"] \in [at : {"decode", "send", "end", "error"}, n : 0 .. Length]
          BY <1>1, <1>2
        <5> QED
          BY <4>3, <5>1
      <4> QED
        BY <4>1, <4>2, <4>3
    <3>2. CASE DecodeStops(j)
      <4>1. PICK end \in {"end", "error"} : source' = [source EXCEPT ![j] = [source[j] EXCEPT !.at = end]]
        BY <1>1, <1>2, <3>2 DEF DecodeStops
      <4>2. [source[j] EXCEPT !.at = end] \in [at : {"decode", "send", "end", "error"}, n : 0 .. Length]
        BY <1>1, <1>2
      <4> QED
        BY <4>1, <4>2
    <3> QED
      BY <1>5, <3>1, <3>2
  <2>3. /\ source' \in [Jobs -> [at : {"decode", "send", "end", "error"}, n : 0 .. Length]]
        /\ source'[j] = s /\ \A k \in Beside(j) : source'[k] = source[k]
    BY <1>1, <1>2, <2>2 DEF Beside
  <2> QED
    BY <1>1, <1>2, <1>3, <2>1, <2>2, <2>3, AudioTyped
<1>6. CASE Send(j)
  <2>1. UNCHANGED <<cast, holder, inbox, at, flags, failed, raced, hold, out, errs, disk, callers, found>>
    BY <1>6 DEF Send, control
  <2>2. source[j].n \in Audio
    BY <1>3, <1>4, <1>6 DEF Send, Audio
  <2>3. chan' \in [Jobs -> Channel]
    <3>1. Append(chan[j], source[j].n) \in Channel
      BY <1>1, <1>2, <1>6, <2>2, ChannelKeeps DEF Send
    <3> QED
      BY <1>1, <1>2, <1>6, <3>1 DEF Send
  <2>4. /\ source' \in [Jobs -> [at : {"decode", "send", "end", "error"}, n : 0 .. Length]]
        /\ source'[j].at = "decode" /\ \A k \in Beside(j) : source'[k] = source[k]
    BY <1>1, <1>2, <1>6 DEF Send, Beside
  <2> QED
    BY <1>1, <1>2, <1>3, <2>1, <2>3, <2>4, AudioTyped
<1>7. CASE Take(j)
  <2>1. UNCHANGED <<cast, holder, inbox, flags, failed, raced, out, errs, source, disk, callers, found>>
    BY <1>7 DEF Take
  <2>2. PICK place \in {"work", "join"} : at' = [at EXCEPT ![j] = place]
    BY <1>7 DEF Take, Goto
  <2>3. "work" \in Places /\ "join" \in Places /\ at[j] \notin Outside
    BY <1>7 DEF Take, Places, Outside
  <2>4. at' \in [Jobs -> Places] /\ \A k \in Beside(j) : at'[k] = at[k]
    BY <1>1, <1>2, <2>2, <2>3 DEF Beside
  <2>5. /\ chan' \in [Jobs -> Channel] /\ hold' \in [Jobs -> Seq(Audio)]
        /\ at'[j] = "work" => hold'[j] # <<>>
        /\ \A k \in Beside(j) : hold'[k] = hold[k]
    <3>1. CASE chan[j] # <<>> /\ hold' = [hold EXCEPT ![j] = <<Head(chan[j])>>] /\ chan' = [chan EXCEPT ![j] = Tail(@)]
      <4>1. Tail(chan[j]) \in Channel /\ Head(chan[j]) \in Audio
        BY <1>1, <1>2, <3>1, ChannelKeeps
      <4>2. <<Head(chan[j])>> \in Seq(Audio)
        BY <4>1
      <4> QED
        BY <1>1, <1>2, <3>1, <4>1, <4>2 DEF Beside
    <3>2. CASE UNCHANGED <<chan, hold>> /\ at' = [at EXCEPT ![j] = "join"]
      BY <1>1, <1>2, <3>2
    <3> QED
      BY <1>7, <3>1, <3>2 DEF Take, Goto
  <2> QED
    BY <1>1, <1>2, <1>3, <2>1, <2>3, <2>4, <2>5, AudioTyped
<1>8. CASE Work(j)
  <2>1. UNCHANGED <<cast, holder, inbox, raced, chan, source, disk, callers, found>>
    BY <1>8 DEF Work
  <2>2. PICK outcome \in Outcomes :
          /\ Count(j, outcome)
          /\ IF errs'[j] = ErrorLimit
             THEN /\ flags' = [flags EXCEPT ![j] = @ \cup {"cancel"}]
                  /\ failed' = [failed EXCEPT ![j] = TRUE]
                  /\ Goto(j, "join")
                  /\ UNCHANGED out
             ELSE Goto(j, "run") /\ Through(j, hold[j][1]) /\ UNCHANGED <<flags, failed>>
    BY <1>8 DEF Work
  <2>3. errs[j] \in 0 .. ErrorLimit - 1 /\ at[j] = "work"
    <3>1. at[j] = "work" /\ at[j] \notin Outside
      BY <1>8 DEF Work, Outside
    <3> QED
      BY <1>1, <1>2, <1>3, <1>4, <3>1
  <2>4. errs' \in [Jobs -> 0 .. ErrorLimit] /\ \A k \in Beside(j) : errs'[k] = errs[k]
    BY <1>1, <1>2, <1>4, <2>2, <2>3, CountTyped
  <2>5. hold' \in [Jobs -> Seq(Audio)] /\ \A k \in Beside(j) : hold'[k] = hold[k]
    BY <1>1, <1>2, <1>8 DEF Work, Beside
  <2>6. CASE errs'[j] = ErrorLimit
    <3>1. "join" \in Places /\ "join" \in Outside
      BY DEF Places, Outside
    <3>2. /\ at' = [at EXCEPT ![j] = "join"] /\ failed' = [failed EXCEPT ![j] = TRUE]
          /\ flags' = [flags EXCEPT ![j] = @ \cup {"cancel"}] /\ UNCHANGED out
      BY <2>2, <2>6 DEF Goto
    <3>3. /\ at' \in [Jobs -> Places] /\ at'[j] = "join"
          /\ \A k \in Beside(j) : at'[k] = at[k]
      BY <1>1, <1>2, <3>1, <3>2 DEF Beside
    <3>4. failed' \in [Jobs -> BOOLEAN]
      BY <1>1, <1>2, <3>2
    <3>5. flags' \in [Jobs -> SUBSET {"cancel", "draining", "paused"}]
      <4>1. flags[j] \cup {"cancel"} \in SUBSET {"cancel", "draining", "paused"}
        BY <1>1, <1>2
      <4> QED
        BY <1>1, <1>2, <3>2, <4>1
    <3> QED
      BY <1>1, <1>2, <1>3, <2>1, <2>4, <2>5, <3>1, <3>2, <3>3, <3>4, <3>5, AudioTyped
  <2>7. CASE errs'[j] # ErrorLimit
    <3>1. "run" \in Places
      BY DEF Places
    <3>2. /\ at' \in [Jobs -> Places] /\ at'[j] = "run"
          /\ \A k \in Beside(j) : at'[k] = at[k]
      <4>1. at' = [at EXCEPT ![j] = "run"]
        BY <2>2, <2>7 DEF Goto
      <4> QED
        BY <1>1, <1>2, <3>1, <4>1 DEF Beside
    <3>3. out' \in [Jobs -> Seq(Audio)]
      <4>1. hold[j][1] \in Audio
        <5>1. hold[j] \in Seq(Audio) /\ hold[j] # <<>>
          BY <1>1, <1>2, <2>3 DEF Typed, HandInv
        <5> QED
          BY <5>1
      <4>2. Append(out[j], hold[j][1]) \in Seq(Audio)
        BY <1>1, <1>2, <4>1
      <4> QED
        BY <1>1, <1>2, <2>2, <2>7, <4>2 DEF Through
    <3>4. UNCHANGED <<flags, failed>>
      BY <2>2, <2>7
    <3> QED
      BY <1>1, <1>2, <1>3, <2>1, <2>4, <2>5, <2>7, <3>2, <3>3, <3>4, AudioTyped
  <2> QED
    BY <2>6, <2>7
<1> QED
  BY <1>5, <1>6, <1>7, <1>8

LEMMA EmitsTyped ==
  ASSUME Typed, NEW j \in Jobs, NEW pending \in Seq(Audio), NEW n \in 0 .. Len(pending),
         Emits(j, pending, n)
  PROVE  /\ out' \in [Jobs -> Seq(Audio)] /\ hold' \in [Jobs -> Seq(Audio)]
         /\ \A k \in Beside(j) : hold'[k] = hold[k]
<1>1. hold \in [Jobs -> Seq(Audio)] /\ out \in [Jobs -> Seq(Audio)]
  BY DEF Typed, WorkersTypeOK
<1>2. SubSeq(pending, 1, n) \in Seq(Audio) /\ SubSeq(pending, n + 1, Len(pending)) \in Seq(Audio)
  OBVIOUS
<1>3. out[j] \o SubSeq(pending, 1, n) \in Seq(Audio)
  BY <1>1, <1>2
<1> QED
  BY <1>1, <1>2, <1>3 DEF Emits, Beside

LEMMA CaptureTyped ==
  ASSUME Typed, NEW j \in Cast,
         Callback(j) \/ ForwardBuffer(j) \/ ForwardPacket(j) \/ CaptureEnds(j) \/ Receive(j)
  PROVE  Typed'
<1>1. /\ j \in Jobs /\ Id(j) \in Ids /\ ~Uploading(j) /\ at[j] = "run"
      /\ "run" \notin Outside /\ "run" # "work"
  BY CastShape DEF Typed, WorkersTypeOK, Callback, ForwardBuffer, ForwardPacket, CaptureEnds, Receive,
     Capturing, Uploading, Outside
<1>2. /\ at \in [Jobs -> Places] /\ failed \in [Jobs -> BOOLEAN] /\ found \in [Jobs -> SUBSET Audio]
      /\ flags \in [Jobs -> SUBSET {"cancel", "draining", "paused"}]
      /\ chan \in [Jobs -> Channel] /\ hold \in [Jobs -> Seq(Audio)] /\ out \in [Jobs -> Seq(Audio)]
      /\ disk \in [Ids -> SUBSET Audio] /\ errs \in [Jobs -> 0 .. ErrorLimit]
      /\ source \in [Jobs -> [at : {"decode", "send", "end", "error"}, n : 0 .. Length]]
  BY DEF Typed, WorkersTypeOK, Channel, Places
<1>3. source[j].at = "decode" /\ source[j].n \in 0 .. Length /\ errs[j] # ErrorLimit
  <2>1. source[j].at = "decode" /\ errs[j] # ErrorLimit
    BY <1>1 DEF Typed, DecoderInv, ErrsInv
  <2> QED
    BY <1>1, <1>2, <2>1
<1>4. Length \in Nat \ {0}
  BY WorkersAssumption
<1>5. ASSUME source[j].n < Length, source' = [source EXCEPT ![j].n = @ + 1]
      PROVE  /\ source' \in [Jobs -> [at : {"decode", "send", "end", "error"}, n : 0 .. Length]]
             /\ source'[j].at = "decode" /\ source'[j].n \in Audio
             /\ \A k \in Beside(j) : source'[k] = source[k]
  <2>1. PICK n \in 0 .. Length : n = source[j].n + 1 /\ n \in Audio
    BY <1>3, <1>4, <1>5 DEF Audio
  <2>2. source' = [source EXCEPT ![j].n = n]
    BY <1>5, <2>1
  <2> QED
    BY <1>1, <1>2, <1>3, <2>1, <2>2 DEF Beside
<1>6. CASE Callback(j)
  <2>1. UNCHANGED <<cast, holder, inbox, at, flags, failed, raced, hold, out, errs, disk, callers, found>>
    BY <1>6 DEF Callback, control
  <2>2. /\ source' \in [Jobs -> [at : {"decode", "send", "end", "error"}, n : 0 .. Length]]
        /\ source'[j].at = "decode" /\ source'[j].n \in Audio
        /\ \A k \in Beside(j) : source'[k] = source[k]
    BY <1>5, <1>6 DEF Callback
  <2>3. chan' \in [Jobs -> Channel]
    <3>1. Len(chan[j]) < Capacity => Append(chan[j], source'[j].n) \in Channel
      BY <1>1, <1>2, <2>2, ChannelKeeps
    <3> QED
      BY <1>1, <1>2, <1>6, <3>1 DEF Callback
  <2> QED
    BY <1>1, <1>2, <1>3, <2>1, <2>2, <2>3, AudioTyped
<1>7. CASE ForwardBuffer(j)
  <2>1. UNCHANGED <<cast, holder, inbox, at, flags, failed, raced, errs, source, disk, callers, found>>
    BY <1>7 DEF ForwardBuffer, control
  <2>2. Tail(chan[j]) \in Channel /\ Head(chan[j]) \in Audio
    BY <1>1, <1>2, <1>7, ChannelKeeps DEF ForwardBuffer
  <2>3. chan' \in [Jobs -> Channel]
    BY <1>1, <1>2, <1>7, <2>2 DEF ForwardBuffer
  <2>4. Append(hold[j], Head(chan[j])) \in Seq(Audio)
    BY <1>1, <1>2, <2>2
  <2>5. /\ out' \in [Jobs -> Seq(Audio)] /\ hold' \in [Jobs -> Seq(Audio)]
        /\ \A k \in Beside(j) : hold'[k] = hold[k]
    BY <1>1, <1>7, <2>4, FramesFit, EmitsTyped DEF ForwardBuffer
  <2> QED
    BY <1>1, <1>2, <1>3, <2>1, <2>3, <2>5, AudioTyped
<1>8. CASE ForwardPacket(j)
  <2>1. UNCHANGED <<cast, holder, inbox, at, flags, failed, raced, chan, errs, disk, callers, found>>
    BY <1>8 DEF ForwardPacket, control
  <2>2. /\ source' \in [Jobs -> [at : {"decode", "send", "end", "error"}, n : 0 .. Length]]
        /\ source'[j].at = "decode" /\ source'[j].n \in Audio
        /\ \A k \in Beside(j) : source'[k] = source[k]
    BY <1>5, <1>8 DEF ForwardPacket
  <2>3. Append(hold[j], source'[j].n) \in Seq(Audio)
    BY <1>1, <1>2, <2>2
  <2>4. /\ out' \in [Jobs -> Seq(Audio)] /\ hold' \in [Jobs -> Seq(Audio)]
        /\ \A k \in Beside(j) : hold'[k] = hold[k]
    BY <1>1, <1>8, <2>3, FramesFit, EmitsTyped DEF ForwardPacket
  <2> QED
    BY <1>1, <1>2, <1>3, <2>1, <2>2, <2>4, AudioTyped
<1>9. CASE CaptureEnds(j)
  <2>1. UNCHANGED <<cast, holder, inbox, flags, raced, chan, errs, source, disk, callers, found>>
    BY <1>9 DEF CaptureEnds
  <2>2. at' = [at EXCEPT ![j] = "ended"] /\ failed' = [failed EXCEPT ![j] = FALSE]
    BY <1>9 DEF CaptureEnds, Ends, Goto
  <2>3. "ended" \in Places /\ "ended" \in Outside
    BY DEF Places, Outside
  <2>4. /\ at' \in [Jobs -> Places] /\ at'[j] = "ended" /\ failed' \in [Jobs -> BOOLEAN]
        /\ \A k \in Beside(j) : at'[k] = at[k]
    BY <1>1, <1>2, <2>2, <2>3 DEF Beside
  <2>5. hold[j] \in Seq(Audio) /\ Len(hold[j]) \in 0 .. Len(hold[j])
    BY <1>1, <1>2
  <2>6. /\ out' \in [Jobs -> Seq(Audio)] /\ hold' \in [Jobs -> Seq(Audio)]
        /\ \A k \in Beside(j) : hold'[k] = hold[k]
    BY <1>1, <1>9, <2>5, EmitsTyped DEF CaptureEnds
  <2> QED
    BY <1>2, <1>3, <2>1, <2>3, <2>4, <2>6, AudioTyped
<1>10. CASE Receive(j)
  <2>1. UNCHANGED <<cast, holder, inbox, at, flags, failed, raced, hold, out, errs, source, disk, callers, found>>
    BY <1>10 DEF Receive, control
  <2>2. Tail(chan[j]) \in Channel
    BY <1>1, <1>2, <1>10, ChannelKeeps DEF Receive
  <2>3. chan' \in [Jobs -> Channel]
    BY <1>1, <1>2, <1>10, <2>2 DEF Receive
  <2> QED
    BY <1>1, <1>2, <1>3, <2>1, <2>3, AudioTyped
<1> QED
  BY <1>6, <1>7, <1>8, <1>9, <1>10

\* Commands, the peer and the sweep move no job.
Outsider ==
  \/ \E key \in Maps \X Ids : Command(key)
  \/ \E i \in Ids : Peer(i) \/ FeedSends(i) \/ EndCancels(i) \/ SweepChecks(i)
  \/ SweepBegins \/ SweepRemoves

LEMMA FlagsTyped ==
  ASSUME Typed, NEW j \in Jobs, NEW set \in SUBSET {"cancel", "draining", "paused"},
         flags' = [flags EXCEPT ![j] = set]
  PROVE  flags' \in [Jobs -> SUBSET {"cancel", "draining", "paused"}]
BY DEF Typed, WorkersTypeOK

LEMMA OutsiderTyped ==
  ASSUME Typed, Outsider
  PROVE  Typed'
<1>1. /\ holder \in [Maps \X Ids -> Jobs \cup {Nil}] /\ inbox \in [Ids -> Jobs \cup {Nil}]
      /\ flags \in [Jobs -> SUBSET {"cancel", "draining", "paused"}]
      /\ chan \in [Jobs -> Channel] /\ disk \in [Ids -> SUBSET Audio] /\ raced \subseteq Maps \X Ids
      /\ feed \in [Ids -> [to : Jobs \cup {Nil}, left : 0 .. Feeds]] /\ ending \in [Ids -> BOOLEAN]
      /\ sweep \in [left : 0 .. Sweeps, ids : SUBSET Ids, found : Ids \cup {Nil}]
  BY DEF Typed, WorkersTypeOK, Channel
<1>2. UNCHANGED <<cast, holder, at, failed, hold, out, errs, source, found>>
  BY DEF Outsider, Command, Stop, Abort, Pause, Resume, Raise, Peer, Feed, FeedSends, EndRemoves,
     EndCancels, SweepChecks, SweepBegins, SweepRemoves, control, work
<1>3. ASSUME inbox' \in [Ids -> Jobs \cup {Nil}],
             flags' \in [Jobs -> SUBSET {"cancel", "draining", "paused"}],
             chan' \in [Jobs -> Channel], disk' \in [Ids -> SUBSET Audio], raced' \subseteq Maps \X Ids,
             feed' \in [Ids -> [to : Jobs \cup {Nil}, left : 0 .. Feeds]], ending' \in [Ids -> BOOLEAN],
             sweep' \in [left : 0 .. Sweeps, ids : SUBSET Ids, found : Ids \cup {Nil}]
      PROVE  Typed'
  <2>1. WorkersTypeOK'
    BY <1>2, <1>3 DEF Typed, WorkersTypeOK, Channel
  <2>2. DecoderInv' /\ ErrsInv' /\ HandInv'
    BY <1>2 DEF Typed, DecoderInv, ErrsInv, HandInv, Cast, Uploading, Kind
  <2> QED
    BY <2>1, <2>2 DEF Typed
<1>4. ASSUME NEW key \in Maps \X Ids, Command(key) PROVE Typed'
  <2>1. UNCHANGED <<inbox, raced, chan, disk, feed, ending, sweep>>
    BY <1>4 DEF Command, Stop, Abort, Pause, Resume, Raise, work, callers
  <2>2. holder[key] \in Jobs
    BY <1>1, <1>4 DEF Command, Stop, Abort, Pause, Resume, Raise
  <2>3. PICK raised \in SUBSET {"cancel", "draining", "paused"} :
          \/ flags' = [flags EXCEPT ![holder[key]] = flags[holder[key]] \cup (raised \cap Looks(holder[key]))]
          \/ flags' = [flags EXCEPT ![holder[key]] = flags[holder[key]] \ {"paused"}]
    BY <1>1, <1>4, <2>2 DEF Command, Stop, Abort, Pause, Resume, Raise
  <2>4. flags[holder[key]] \in SUBSET {"cancel", "draining", "paused"}
    BY <1>1, <2>2
  <2>5. PICK set \in SUBSET {"cancel", "draining", "paused"} : flags' = [flags EXCEPT ![holder[key]] = set]
    BY <2>3, <2>4
  <2>6. flags' \in [Jobs -> SUBSET {"cancel", "draining", "paused"}]
    BY <2>2, <2>5, FlagsTyped
  <2> QED
    BY <1>1, <1>3, <2>1, <2>6
<1>5. ASSUME NEW i \in Ids, Feed(i) PROVE Typed'
  <2>1. UNCHANGED <<inbox, flags, raced, chan, disk, ending, sweep>>
    BY <1>5 DEF Feed, control, work
  <2>2. feed[i].left \in 0 .. Feeds /\ feed[i].left > 0 /\ inbox[i] \in Jobs \cup {Nil}
    BY <1>1, <1>5 DEF Feed
  <2>3. PICK n \in 0 .. Feeds : n = feed[i].left - 1
    BY <2>2, WorkersAssumption
  <2>4. feed' = [feed EXCEPT ![i] = [to |-> inbox[i], left |-> n]]
    BY <1>5, <2>3 DEF Feed
  <2>5. feed' \in [Ids -> [to : Jobs \cup {Nil}, left : 0 .. Feeds]]
    BY <1>1, <2>2, <2>4
  <2> QED
    BY <1>1, <1>3, <2>1, <2>5
<1>6. ASSUME NEW i \in Ids, FeedSends(i) PROVE Typed'
  <2>1. UNCHANGED <<inbox, flags, raced, disk, ending, sweep>>
    BY <1>6 DEF FeedSends, control
  <2>2. feed' \in [Ids -> [to : Jobs \cup {Nil}, left : 0 .. Feeds]]
    <3>1. [feed[i] EXCEPT !.to = Nil] \in [to : Jobs \cup {Nil}, left : 0 .. Feeds]
      BY <1>1
    <3>2. feed' = [feed EXCEPT ![i] = [feed[i] EXCEPT !.to = Nil]]
      BY <1>6 DEF FeedSends
    <3> QED
      BY <1>1, <3>1, <3>2
  <2>3. feed[i].to \in Jobs /\ 1 \in Audio
    BY <1>1, <1>6, WorkersAssumption DEF FeedSends, Audio
  <2>4. chan' \in [Jobs -> Channel]
    <3>1. Len(chan[feed[i].to]) < Capacity => Append(chan[feed[i].to], 1) \in Channel
      BY <1>1, <2>3, ChannelKeeps
    <3> QED
      BY <1>1, <1>6, <2>3, <3>1 DEF FeedSends
  <2> QED
    BY <1>1, <1>3, <2>1, <2>2, <2>4
<1>7. ASSUME NEW i \in Ids, EndRemoves(i) PROVE Typed'
  <2>1. UNCHANGED <<flags, raced, chan, disk, feed, sweep>>
    BY <1>7 DEF EndRemoves, work
  <2>2. inbox' \in [Ids -> Jobs \cup {Nil}] /\ ending' \in [Ids -> BOOLEAN]
    BY <1>1, <1>7 DEF EndRemoves
  <2> QED
    BY <1>1, <1>3, <2>1, <2>2
<1>8. ASSUME NEW i \in Ids, EndCancels(i) PROVE Typed'
  <2>1. UNCHANGED <<inbox, raced, chan, disk, feed, sweep>>
    BY <1>8 DEF EndCancels, work
  <2>2. ending' \in [Ids -> BOOLEAN]
    BY <1>1, <1>8 DEF EndCancels
  <2>3. holder[<<"sessions", i>>] \in Jobs \cup {Nil}
    BY <1>1 DEF Maps
  <2>4. flags' \in [Jobs -> SUBSET {"cancel", "draining", "paused"}]
    <3>1. CASE holder[<<"sessions", i>>] = Nil
      BY <1>1, <1>8, <3>1 DEF EndCancels
    <3>2. CASE holder[<<"sessions", i>>] # Nil
      <4>1. flags[holder[<<"sessions", i>>]] \cup {"cancel"} \in SUBSET {"cancel", "draining", "paused"}
        BY <1>1, <2>3, <3>2
      <4> QED
        BY <1>8, <2>3, <3>2, <4>1, FlagsTyped DEF EndCancels
    <3> QED
      BY <3>1, <3>2
  <2> QED
    BY <1>1, <1>3, <2>1, <2>2, <2>4
<1>9. ASSUME NEW i \in Ids, SweepChecks(i) PROVE Typed'
  <2>1. UNCHANGED <<inbox, flags, chan, disk, feed, ending>>
    BY <1>9 DEF SweepChecks, work
  <2>2. raced' \subseteq Maps \X Ids
    BY <1>1, <1>9 DEF SweepChecks, Maps
  <2>3. sweep' \in [left : 0 .. Sweeps, ids : SUBSET Ids, found : Ids \cup {Nil}]
    <3>1. PICK f \in Ids \cup {Nil} : sweep' = [sweep EXCEPT !.ids = @ \ {i}, !.found = f]
      BY <1>9 DEF SweepChecks
    <3>2. sweep.ids \ {i} \in SUBSET Ids
      BY <1>1
    <3> QED
      BY <1>1, <3>1, <3>2
  <2> QED
    BY <1>1, <1>3, <2>1, <2>2, <2>3
<1>10. CASE SweepBegins
  <2>1. UNCHANGED <<inbox, flags, raced, chan, disk, feed, ending>>
    BY <1>10 DEF SweepBegins, control, work
  <2>2. sweep' \in [left : 0 .. Sweeps, ids : SUBSET Ids, found : Ids \cup {Nil}]
    <3>1. PICK n \in 0 .. Sweeps : n = sweep.left - 1
      BY <1>1, <1>10, WorkersAssumption DEF SweepBegins
    <3>2. PICK set \in SUBSET Ids : set = {i \in Ids : disk[i] # {}}
      OBVIOUS
    <3>3. sweep' = [left |-> n, ids |-> set, found |-> Nil]
      BY <1>10, <3>1, <3>2 DEF SweepBegins
    <3> QED
      BY <3>3
  <2> QED
    BY <1>1, <1>3, <2>1, <2>2
<1>11. CASE SweepRemoves
  <2>1. UNCHANGED <<inbox, flags, raced, chan, feed, ending>>
    BY <1>11 DEF SweepRemoves, control, work
  <2>2. sweep' \in [left : 0 .. Sweeps, ids : SUBSET Ids, found : Ids \cup {Nil}]
    BY <1>1, <1>11 DEF SweepRemoves
  <2>3. disk' \in [Ids -> SUBSET Audio]
    BY <1>1, <1>11 DEF SweepRemoves
  <2> QED
    BY <1>1, <1>3, <2>1, <2>2, <2>3
<1> QED
  BY <1>4, <1>5, <1>6, <1>7, <1>8, <1>9, <1>10, <1>11 DEF Outsider, Peer

LEMMA WorkersTyped ==
  ASSUME Typed, [WorkersNext]_workersVars
  PROVE  Typed'
<1>1. CASE UNCHANGED workersVars
  <2>1. UNCHANGED <<cast, holder, inbox, at, flags, failed, raced, chan, hold, out, errs, source,
                    found, disk, feed, ending, sweep>>
    BY <1>1 DEF workersVars, control, work, callers
  <2> QED
    BY <2>1 DEF Typed, WorkersTypeOK, DecoderInv, ErrsInv, HandInv, Cast, Uploading, Kind
<1>2. CASE Outsider
  BY <1>2, OutsiderTyped
<1>3. ASSUME NEW j \in Cast, Starts(j) \/ Thread(j) \/ Decoder(j) \/ Breaks(j) \/ Callback(j)
      PROVE  Typed'
  BY <1>3, StartsTyped, EndsTyped, DrainTyped, UploadTyped, CaptureTyped
     DEF Thread, Decoder, Breaks
<1> QED
  BY <1>1, <1>2, <1>3 DEF WorkersNext, Outsider

-----------------------------------------------------------------------------
(* Keys: who the maps hold, and who shares a key with whom.                *)

KeysInv == Typed /\ Alone /\ HolderInv /\ InboxInv /\ SweepInv

Running == {"warm", "open", "run", "work", "join"}

LEMMA SameKeys ==
  ASSUME UNCHANGED cast
  PROVE  /\ Cast' = Cast
         /\ \A j \in Cast : /\ Kind(j)' = Kind(j) /\ Id(j)' = Id(j) /\ Key(j)' = Key(j)
                            /\ Uploading(j)' = Uploading(j)
BY DEF Cast, Kind, Id, Key, MapOf, Uploading

\* A thread that runs, or ends, changes none of the maps.
LEMMA QuietShape ==
  ASSUME KeysInv, NEW j \in Cast,
         \/ WarmUp(j) \/ OpenFile(j) \/ OpenMicrophone(j)
         \/ (\E broken \in BOOLEAN : LiveEnds(j, broken) \/ RemoteEnds(j, broken))
         \/ Receive(j) \/ Seek(j) \/ Drain(j) \/ DrainEnds(j)
         \/ Take(j) \/ Work(j) \/ WorkStops(j) \/ Join(j) \/ Decoder(j)
         \/ Callback(j) \/ ForwardBuffer(j) \/ ForwardPacket(j) \/ CaptureEnds(j) \/ CaptureFails(j)
  PROVE  /\ UNCHANGED <<cast, holder, inbox, raced, callers>>
         /\ \A k \in Beside(j) : at'[k] = at[k]
         /\ \/ at'[j] = at[j]
            \/ at[j] \in Running /\ at'[j] \in Running \cup {"ended"} /\ at'[j] # "warm"
         /\ Kind(j) = "remote" => at'[j] \notin {"open", "work", "join"}
<1>1. j \in Jobs /\ at \in [Jobs -> Places]
  BY CastShape DEF KeysInv, Typed, WorkersTypeOK, Places
<1>2. UNCHANGED <<cast, holder, inbox, raced, callers>>
  BY DEF WarmUp, OpenFile, OpenMicrophone, LiveEnds, RemoteEnds, Receive, Seek, Drain, DrainEnds,
     Take, Work, WorkStops, Join, Decoder, Decode, DecodeStops, Send, Callback, ForwardBuffer,
     ForwardPacket, CaptureEnds, CaptureFails, control
<1>3. Kind(j) = "remote" => at[j] \notin {"open", "work", "join"}
  BY DEF KeysInv, InboxInv
<1>4. \/ UNCHANGED at
      \/ /\ at[j] \in Running
         /\ \E place \in (Running \cup {"ended"}) \ {"warm"} :
              /\ at' = [at EXCEPT ![j] = place]
              /\ Kind(j) = "remote" => place \notin {"open", "work", "join"}
  <2>1. CASE WarmUp(j)
    BY <2>1 DEF WarmUp, Fails, Goto, Running, Uploading
  <2>2. CASE OpenFile(j) \/ OpenMicrophone(j)
    BY <2>2 DEF OpenFile, OpenMicrophone, Fails, Goto, Running
  <2>3. CASE \E broken \in BOOLEAN : LiveEnds(j, broken) \/ RemoteEnds(j, broken)
    BY <2>3 DEF LiveEnds, RemoteEnds, Ends, Goto, Running
  <2>4. CASE Drain(j)
    BY <2>4 DEF Drain, DrainRuns, Ends, Goto, Running
  <2>5. CASE DrainEnds(j) \/ Join(j) \/ CaptureEnds(j) \/ CaptureFails(j)
    BY <2>5 DEF DrainEnds, DrainRuns, Join, CaptureEnds, CaptureFails, Capturing, Ends, Goto, Running
  <2>6. CASE Take(j) \/ Work(j) \/ WorkStops(j)
    <3>1. at[j] \in {"run", "work"} /\ Kind(j) # "remote"
      BY <2>6 DEF Take, Work, WorkStops, Uploading
    <3>2. \E place \in {"run", "work", "join"} : at' = [at EXCEPT ![j] = place]
      BY <2>6 DEF Take, Work, WorkStops, Goto
    <3> QED
      BY <3>1, <3>2 DEF Running
  <2>7. CASE Receive(j) \/ Seek(j) \/ Decoder(j) \/ Callback(j) \/ ForwardBuffer(j) \/ ForwardPacket(j)
    BY <2>7 DEF Receive, Seek, Decoder, Decode, DecodeStops, Send, Callback, ForwardBuffer,
       ForwardPacket, control
  <2> QED
    BY <2>1, <2>2, <2>3, <2>4, <2>5, <2>6, <2>7
<1> QED
  BY <1>1, <1>2, <1>3, <1>4 DEF Beside, Running

LEMMA QuietKeeps ==
  ASSUME KeysInv, Typed', NEW j \in Cast,
         UNCHANGED <<cast, holder, inbox, raced, callers>>,
         \A k \in Beside(j) : at'[k] = at[k],
         \/ at'[j] = at[j]
         \/ at[j] \in Running /\ at'[j] \in Running \cup {"ended"} /\ at'[j] # "warm",
         Kind(j) = "remote" => at'[j] \notin {"open", "work", "join"}
  PROVE  KeysInv'
<1>1. /\ Cast' = Cast /\ Cast \subseteq Jobs
      /\ \A k \in Cast : Kind(k)' = Kind(k) /\ Id(k)' = Id(k) /\ Key(k)' = Key(k)
  BY SameKeys, CastShape DEF KeysInv, Typed, WorkersTypeOK
<1>2. \A k \in Cast : \/ at'[k] = at[k]
                      \/ at[k] \in Running /\ at'[k] \in Running \cup {"ended"} /\ at'[k] # "warm"
  BY <1>1 DEF Beside
<1>3. \A k \in Cast : Kind(k) = "remote" => at'[k] \notin {"open", "work", "join"}
  BY <1>1 DEF Beside, KeysInv, InboxInv
<1>4. Alone'
  <2>1. \A k \in Cast : Over(k)' <=> Over(k)
    BY <1>2 DEF Over, Running
  <2> QED
    BY <1>1, <2>1 DEF KeysInv, Alone
<1>5. HolderInv'
  <2>1. \A k \in Cast : at'[k] \in Held => at[k] \in Held
    BY <1>2 DEF Held, Running
  <2> QED
    BY <1>1, <2>1 DEF KeysInv, HolderInv
<1>6. InboxInv'
  <2>1. \A k \in Cast : Kind(k) = "remote" => at[k] \notin {"open", "work", "join"}
    BY DEF KeysInv, InboxInv
  <2>2. \A k \in Cast :
          (Kind(k) = "remote" /\ at'[k] \in {"warm", "run", "ended", "unlisted"}) =>
             at[k] \in {"warm", "run", "ended", "unlisted"}
    BY <1>2, <2>1 DEF Running
  <2>3. \A k \in Cast : Kind(k) # "remote" => at'[k] \notin {"inbox", "unlisted"}
    BY <1>2 DEF Running, KeysInv, InboxInv
  <2> QED
    BY <1>1, <1>3, <2>2, <2>3 DEF KeysInv, InboxInv
<1>7. SweepInv'
  <2>1. \A k \in Cast : at[k] \notin Held \cup {"checked"} => at'[k] \notin Held \cup {"checked"}
    BY <1>2 DEF Running, Held
  <2> QED
    BY <1>1, <2>1 DEF KeysInv, SweepInv, callers
<1> QED
  BY <1>4, <1>5, <1>6, <1>7 DEF KeysInv

\* A start enters a key that nobody else has, or is noted for it.
LEMMA CheckKeeps ==
  ASSUME KeysInv, Typed', NEW j \in Cast, Starts(j)
  PROVE  KeysInv'
<1>1. /\ Cast \subseteq Jobs /\ at \in [Jobs -> Places] /\ Id(j) \in Ids /\ Nil \notin Ids
      /\ Key(j) = <<MapOf(j), Id(j)>>
  BY CastShape, JobsAssumption DEF KeysInv, Typed, WorkersTypeOK, Places, Key
<1>2. /\ at[j] = "new" /\ UNCHANGED <<cast, holder, inbox, sweep>>
      /\ raced \subseteq raced'
      /\ Kind(j) # "call" => raced' = IF \/ \E k \in Cast \ {j} : Key(k) = Key(j) /\ ~Over(k)
                                         \/ ending[Id(j)] \/ sweep.found = Id(j)
                                      THEN raced \cup {Key(j)} ELSE raced
      /\ Kind(j) = "call" => raced' = raced
      /\ \E place \in {"checked", "refused", "warm"} :
           /\ at' = [at EXCEPT ![j] = place]
           /\ place = "warm" => Kind(j) = "call"
  BY DEF Starts, Start, StartDrain, StartUpload, StartRemoteSession, StartCapture,
     StartDecodeFile, StartBlocking, Check, Goto, callers
<1>3. /\ Cast' = Cast
      /\ \A k \in Cast : Kind(k)' = Kind(k) /\ Id(k)' = Id(k) /\ Key(k)' = Key(k)
  BY <1>2, SameKeys
<1>4. /\ at'[j] \in {"checked", "refused", "warm"} /\ (at'[j] = "warm" => Kind(j) = "call")
      /\ \A k \in Beside(j) : at'[k] = at[k]
  BY <1>1, <1>2 DEF Beside
<1>5. \A k \in Cast : k # j => at'[k] = at[k]
  BY <1>1, <1>4 DEF Beside
<1>6. Alone'
  <2> SUFFICES ASSUME NEW k \in Cast, NEW l \in Cast, Key(k) = Key(l), Key(k) \notin raced',
                      Kind(k) # "call", ~Over(k)', ~Over(l)'
               PROVE  k = l
    BY <1>3 DEF Alone
  <2>1. Kind(l) # "call"
    <3>1. MapOf(k) = MapOf(l)
      BY DEF Key
    <3> QED
      BY <3>1 DEF MapOf
  <2>2. CASE k # j /\ l # j
    BY <1>2, <1>5, <2>2 DEF KeysInv, Alone, Over
  <2>3. CASE k = j
    BY <1>2, <1>5, <2>3 DEF Over
  <2>4. CASE l = j
    BY <1>2, <1>5, <2>1, <2>4 DEF Over
  <2> QED
    BY <2>2, <2>3, <2>4
<1>7. HolderInv'
  <2>1. \A k \in Cast : (Kind(k) # "call" /\ at'[k] \in Held) => k # j
    BY <1>4 DEF Held
  <2> QED
    BY <1>2, <1>3, <1>5, <2>1 DEF KeysInv, HolderInv
<1>8. InboxInv'
  <2>1. Kind(j) = "remote" => at'[j] \in {"checked", "refused"}
    BY <1>4
  <2>2. at'[j] \notin {"inbox", "unlisted"}
    BY <1>4
  <2> QED
    BY <1>2, <1>3, <1>5, <2>1, <2>2 DEF KeysInv, InboxInv
<1>9. SweepInv'
  <2> SUFFICES ASSUME NEW k \in Cast, sweep.found # Nil, Key(k) = <<"sessions", sweep.found>>,
                      Key(k) \notin raced'
               PROVE  at'[k] \notin Held \cup {"checked"}
    BY <1>2, <1>3 DEF SweepInv
  <2>1. CASE k # j
    BY <1>2, <1>5, <2>1 DEF KeysInv, SweepInv
  <2>2. CASE k = j
    <3>1. Id(j) = sweep.found /\ MapOf(j) = "sessions"
      BY <1>1, <2>2
    <3>2. Kind(j) # "call"
      BY <3>1 DEF MapOf
    <3> QED
      BY <1>2, <2>2, <3>1, <3>2
  <2> QED
    BY <2>1, <2>2
<1> QED
  BY <1>6, <1>7, <1>8, <1>9 DEF KeysInv

LEMMA KeyMaps ==
  ASSUME NEW j \in Cast, NEW k \in Cast, Key(j) = Key(k)
  PROVE  /\ Id(j) = Id(k) /\ (Kind(j) = "call" <=> Kind(k) = "call")
         /\ Kind(k) = "remote" => MapOf(j) = "sessions"
<1>1. MapOf(j) = MapOf(k) /\ Id(j) = Id(k)
  BY DEF Key
<1> QED
  BY <1>1 DEF MapOf

\* The entries of the maps come and go with a job that has its key for itself.
LEMMA EntryKeeps ==
  ASSUME KeysInv, Typed', NEW j \in Cast,
         Insert(j) \/ OpenInbox(j) \/ Unregister(j) \/ CloseInbox(j) \/ EmitFinal(j) \/ AnswerCall(j)
  PROVE  KeysInv'
<1>1. /\ Cast \subseteq Jobs /\ at \in [Jobs -> Places] /\ j \in Jobs
      /\ holder \in [Maps \X Ids -> Jobs \cup {Nil}] /\ inbox \in [Ids -> Jobs \cup {Nil}]
      /\ Nil \notin Jobs
      /\ \A k \in Cast : Key(k) \in Maps \X Ids /\ Id(k) \in Ids /\ Key(k) = <<MapOf(k), Id(k)>>
  BY CastShape, JobsAssumption DEF KeysInv, Typed, WorkersTypeOK, Places, Key
<1>2. UNCHANGED <<cast, raced, sweep>>
  BY DEF Insert, OpenInbox, Unregister, CloseInbox, EmitFinal, AnswerCall, callers
<1>3. /\ Cast' = Cast
      /\ \A k \in Cast : Kind(k)' = Kind(k) /\ Id(k)' = Id(k) /\ Key(k)' = Key(k)
  BY <1>2, SameKeys
<1>4. PICK place \in Places : at' = [at EXCEPT ![j] = place]
  BY DEF Insert, OpenInbox, Unregister, CloseInbox, EmitFinal, AnswerCall, Goto, Places
<1>5. at'[j] = place /\ \A k \in Cast : k # j => at'[k] = at[k]
  BY <1>1, <1>4
<1>6. ~Over(j)
  BY DEF Insert, OpenInbox, Unregister, CloseInbox, EmitFinal, AnswerCall, Over
\* Who else has the key is over.
<1>7. \A k \in Cast : (k # j /\ Key(k) = Key(j) /\ Key(k) \notin raced /\ Kind(k) # "call") =>
        Over(k) /\ Over(k)' /\ at'[k] \notin Held /\ at'[k] # "unlisted"
  BY <1>5, <1>6 DEF KeysInv, Alone, Over, Held
<1>8. Alone'
  <2>1. \A k \in Cast : ~Over(k)' => ~Over(k)
    BY <1>5, <1>6 DEF Over
  <2> QED
    BY <1>2, <1>3, <2>1 DEF KeysInv, Alone
<1>9. HolderInv'
  <2> SUFFICES ASSUME NEW k \in Cast, Key(k) \notin raced, Kind(k) # "call", at'[k] \in Held
               PROVE  holder'[Key(k)] = k
    BY <1>2, <1>3 DEF HolderInv
  <2>1. CASE k = j
    <3>1. CASE Insert(j)
      BY <1>1, <2>1, <3>1 DEF Insert
    <3>2. CASE OpenInbox(j)
      <4>1. at[j] \in Held /\ holder' = holder
        BY <3>2 DEF OpenInbox, Held
      <4> QED
        BY <2>1, <4>1 DEF KeysInv, HolderInv
    <3>3. CASE Unregister(j) \/ CloseInbox(j) \/ EmitFinal(j) \/ AnswerCall(j)
      <4>1. at'[j] \in {"unlisted", "free", "final"}
        BY <1>1, <3>3 DEF Unregister, CloseInbox, EmitFinal, AnswerCall, Goto
      <4> QED
        BY <2>1, <4>1 DEF Held
    <3> QED
      BY <3>1, <3>2, <3>3
  <2>2. CASE k # j
    <3>1. at[k] \in Held /\ holder[Key(k)] = k
      BY <1>5, <2>2 DEF KeysInv, HolderInv
    <3>2. Key(k) # Key(j)
      BY <1>7, <2>2
    <3>3. holder' = holder \/ \E x \in Jobs \cup {Nil} : holder' = [holder EXCEPT ![Key(j)] = x]
      BY <1>1 DEF Insert, OpenInbox, Unregister, CloseInbox, EmitFinal, AnswerCall
    <3> QED
      BY <1>1, <3>1, <3>2, <3>3
  <2> QED
    BY <2>1, <2>2
<1>10. InboxInv'
  <2>1. inbox' = inbox \/ (OpenInbox(j) /\ inbox' = [inbox EXCEPT ![Id(j)] = j])
        \/ (CloseInbox(j) /\ inbox' = [inbox EXCEPT ![Id(j)] = Nil])
    BY DEF Insert, OpenInbox, Unregister, CloseInbox, EmitFinal, AnswerCall
  <2>2. \A i \in Ids, k \in Cast : inbox'[i] = k => Id(k) = i
    <3> SUFFICES ASSUME NEW i \in Ids, NEW k \in Cast, inbox'[i] = k PROVE Id(k) = i
      OBVIOUS
    <3>1. inbox[i] = k => Id(k) = i
      BY DEF KeysInv, InboxInv
    <3> QED
      BY <1>1, <2>1, <3>1
  <2>3. ASSUME NEW k \in Cast, Key(k) \notin raced, Kind(k) = "remote",
               at'[k] \in {"warm", "run", "ended", "unlisted"}
        PROVE  inbox'[Id(k)] \in {k, Nil}
    <3>1. CASE k = j
      <4>1. CASE OpenInbox(j)
        BY <1>1, <3>1, <4>1 DEF OpenInbox
      <4>2. CASE Unregister(j)
        <5>1. at[j] \in {"warm", "run", "ended", "unlisted"} /\ inbox' = inbox
          BY <4>2 DEF Unregister
        <5> QED
          BY <2>3, <3>1, <5>1 DEF KeysInv, InboxInv
      <4>3. CASE Insert(j) \/ CloseInbox(j) \/ EmitFinal(j) \/ AnswerCall(j)
        <5>1. at'[j] \in {"inbox", "free", "final"}
          <6>1. Insert(j) => at' = [at EXCEPT ![j] = "inbox"]
            BY <2>3, <3>1 DEF Insert, Goto
          <6> QED
            BY <1>1, <4>3, <6>1 DEF CloseInbox, EmitFinal, AnswerCall, Goto
        <5> QED
          BY <2>3, <3>1, <5>1
      <4> QED
        BY <4>1, <4>2, <4>3
    <3>2. CASE k # j
      <4>1. inbox[Id(k)] \in {k, Nil}
        BY <1>5, <2>3, <3>2 DEF KeysInv, InboxInv
      <4>2. CASE OpenInbox(j)
        <5>1. Kind(j) = "remote"
          BY <4>2 DEF OpenInbox, KeysInv, InboxInv
        <5>2. Id(k) = Id(j) => Key(k) = Key(j)
          BY <2>3, <5>1 DEF Key, MapOf
        <5>3. Id(k) # Id(j)
          <6>1. at'[k] \notin {"new", "final", "refused"}
            BY <2>3
          <6>2. ~Over(k)'
            BY <6>1 DEF Over
          <6> QED
            BY <1>7, <2>3, <3>2, <5>2, <6>2
        <5> QED
          BY <1>1, <2>1, <4>1, <4>2, <5>3
      <4> QED
        BY <1>1, <2>1, <4>1, <4>2
    <3> QED
      BY <3>1, <3>2
  <2>4. \A k \in Cast : Kind(k) = "remote" => at'[k] \notin {"open", "work", "join"}
    <3>1. at'[j] = "open" => Kind(j) # "remote"
      <4>1. CASE Insert(j)
        <5>1. at' = [at EXCEPT ![j] =
                CASE Kind(j) = "remote" -> "inbox" [] MapOf(j) = "captures" -> "open" [] OTHER -> "warm"]
          BY <4>1 DEF Insert, Goto
        <5>2. Kind(j) = "remote" => MapOf(j) # "captures"
          BY DEF MapOf
        <5>3. Kind(j) = "remote" => at'[j] = "inbox"
          BY <1>1, <5>1, <5>2
        <5> QED
          BY <5>3
      <4>2. CASE OpenInbox(j) \/ Unregister(j) \/ CloseInbox(j) \/ EmitFinal(j) \/ AnswerCall(j)
        BY <1>1, <4>2 DEF OpenInbox, Unregister, CloseInbox, EmitFinal, AnswerCall, Goto
      <4> QED
        BY <4>1, <4>2
    <3>2. at'[j] \notin {"work", "join"}
      BY <1>1 DEF Insert, OpenInbox, Unregister, CloseInbox, EmitFinal, AnswerCall, Goto
    <3> QED
      BY <1>5, <3>1, <3>2 DEF KeysInv, InboxInv
  <2>5. \A k \in Cast : Kind(k) # "remote" => at'[k] \notin {"inbox", "unlisted"}
    <3>1. at'[j] \in {"inbox", "unlisted"} => Kind(j) = "remote"
      <4>1. CASE Insert(j)
        <5>1. at' = [at EXCEPT ![j] =
                CASE Kind(j) = "remote" -> "inbox" [] MapOf(j) = "captures" -> "open" [] OTHER -> "warm"]
          BY <4>1 DEF Insert, Goto
        <5> QED
          BY <1>1, <5>1
      <4>2. CASE Unregister(j)
        BY <1>1, <4>2 DEF Unregister, Goto
      <4>3. CASE OpenInbox(j) \/ CloseInbox(j) \/ EmitFinal(j) \/ AnswerCall(j)
        BY <1>1, <4>3 DEF OpenInbox, CloseInbox, EmitFinal, AnswerCall, Goto
      <4> QED
        BY <4>1, <4>2, <4>3
    <3> QED
      BY <1>5, <3>1 DEF KeysInv, InboxInv
  <2>6. \A k \in Cast :
          (Key(k) \notin raced /\ Kind(k) = "remote" /\ at'[k] \in {"warm", "run", "ended", "unlisted"}) =>
             inbox'[Id(k)] \in {k, Nil}
    BY <2>3
  <2> QED
    BY <1>2, <1>3, <2>2, <2>4, <2>5, <2>6 DEF InboxInv
<1>11. SweepInv'
  <2>1. \A k \in Cast : at[k] \notin Held \cup {"checked"} => at'[k] \notin Held \cup {"checked"}
    <3>1. CASE Insert(j) \/ OpenInbox(j) \/ Unregister(j)
      BY <1>5, <3>1 DEF Insert, OpenInbox, Unregister, Held
    <3>2. CASE CloseInbox(j) \/ EmitFinal(j) \/ AnswerCall(j)
      <4>1. at'[j] \in {"free", "final"}
        BY <1>1, <3>2 DEF CloseInbox, EmitFinal, AnswerCall, Goto
      <4> QED
        BY <1>5, <4>1 DEF Held
    <3> QED
      BY <3>1, <3>2
  <2> QED
    BY <1>2, <1>3, <2>1 DEF KeysInv, SweepInv
<1> QED
  BY <1>8, <1>9, <1>10, <1>11 DEF KeysInv

LEMMA OutsiderKeeps ==
  ASSUME KeysInv, Typed', Outsider
  PROVE  KeysInv'
<1>1. /\ Cast \subseteq Jobs /\ inbox \in [Ids -> Jobs \cup {Nil}] /\ Nil \notin Jobs
  BY CastShape, JobsAssumption DEF KeysInv, Typed, WorkersTypeOK
<1>2. UNCHANGED <<cast, holder, at>> /\ raced \subseteq raced'
  BY DEF Outsider, Command, Stop, Abort, Pause, Resume, Raise, Peer, Feed, FeedSends, EndRemoves,
     EndCancels, SweepChecks, SweepBegins, SweepRemoves, control, work
<1>3. /\ Cast' = Cast
      /\ \A k \in Cast : Kind(k)' = Kind(k) /\ Id(k)' = Id(k) /\ Key(k)' = Key(k)
  BY <1>2, SameKeys
<1>4. \A k \in Cast : Key(k) \notin raced' => Key(k) \notin raced
  BY <1>2
<1>5. Alone' /\ HolderInv'
  BY <1>2, <1>3, <1>4 DEF KeysInv, Alone, HolderInv, Over
<1>6. \A i \in Ids : inbox'[i] \in {inbox[i], Nil}
  BY <1>1 DEF Outsider, Command, Stop, Abort, Pause, Resume, Raise, Peer, Feed, FeedSends, EndRemoves,
     EndCancels, SweepChecks, SweepBegins, SweepRemoves, control
<1>7. InboxInv'
  <2>1. \A k \in Cast : Id(k) \in Ids
    BY CastShape DEF KeysInv, Typed, WorkersTypeOK
  <2> QED
    BY <1>1, <1>2, <1>3, <1>4, <1>6, <2>1 DEF KeysInv, InboxInv
<1>8. SweepInv'
  <2>1. CASE \E i \in Ids : SweepChecks(i)
    <3>1. PICK i \in Ids : SweepChecks(i)
      BY <2>1
    <3> SUFFICES ASSUME NEW k \in Cast, sweep'.found # Nil, Key(k) = <<"sessions", sweep'.found>>,
                        Key(k) \notin raced'
                 PROVE  at[k] \notin Held \cup {"checked"}
      BY <1>2, <1>3 DEF SweepInv
    <3>2. sweep'.found = i /\ holder[<<"sessions", i>>] = Nil
      BY <3>1 DEF SweepChecks, KeysInv, Typed, WorkersTypeOK
    <3>3. at[k] # "checked"
      BY <3>1, <3>2 DEF SweepChecks
    <3>4. Kind(k) # "call"
      BY DEF Key, MapOf
    <3>5. at[k] \notin Held
      BY <1>1, <1>4, <3>2, <3>4 DEF KeysInv, HolderInv
    <3> QED
      BY <3>3, <3>5
  <2>2. CASE ~ \E i \in Ids : SweepChecks(i)
    <3>1. raced' = raced
      BY <2>2 DEF Outsider, Command, Stop, Abort, Pause, Resume, Raise, Peer, Feed, FeedSends, EndRemoves,
         EndCancels, SweepBegins, SweepRemoves, control
    <3>2. sweep' = sweep \/ SweepBegins \/ SweepRemoves
      BY <2>2 DEF Outsider, Command, Stop, Abort, Pause, Resume, Raise, Peer, Feed, FeedSends, EndRemoves,
         EndCancels, callers
    <3>3. sweep'.found \in {sweep.found, Nil}
      BY <3>2 DEF SweepBegins, SweepRemoves, KeysInv, Typed, WorkersTypeOK
    <3> QED
      BY <1>2, <1>3, <3>1, <3>3 DEF KeysInv, SweepInv
  <2> QED
    BY <2>1, <2>2
<1> QED
  BY <1>5, <1>7, <1>8 DEF KeysInv

LEMMA KeysKept ==
  ASSUME KeysInv, [WorkersNext]_workersVars
  PROVE  KeysInv'
<1>1. Typed'
  BY WorkersTyped DEF KeysInv
<1>2. CASE UNCHANGED workersVars
  BY <1>1, <1>2, SameKeys DEF KeysInv, Alone, HolderInv, InboxInv, SweepInv, Over, workersVars, control, callers
<1>3. CASE Outsider
  BY <1>1, <1>3, OutsiderKeeps
<1>4. ASSUME NEW j \in Cast, Starts(j) \/ Thread(j) \/ Decoder(j) \/ Breaks(j) \/ Callback(j)
      PROVE  KeysInv'
  <2>1. CASE Starts(j)
    BY <1>1, <2>1, CheckKeeps
  <2>2. CASE Insert(j) \/ OpenInbox(j) \/ Unregister(j) \/ CloseInbox(j) \/ EmitFinal(j) \/ AnswerCall(j)
    BY <1>1, <2>2, EntryKeeps
  <2>3. CASE \/ WarmUp(j) \/ OpenFile(j) \/ OpenMicrophone(j)
             \/ (\E broken \in BOOLEAN : LiveEnds(j, broken) \/ RemoteEnds(j, broken))
             \/ Receive(j) \/ Seek(j) \/ Drain(j) \/ DrainEnds(j)
             \/ Take(j) \/ Work(j) \/ WorkStops(j) \/ Join(j) \/ Decoder(j)
             \/ Callback(j) \/ ForwardBuffer(j) \/ ForwardPacket(j) \/ CaptureEnds(j) \/ CaptureFails(j)
    BY <1>1, <2>3, QuietShape, QuietKeeps
  <2> QED
    BY <1>4, <2>1, <2>2, <2>3 DEF Thread, Breaks
<1> QED
  BY <1>2, <1>3, <1>4 DEF WorkersNext, Outsider

-----------------------------------------------------------------------------
(* Audio: what a step leaves of the other jobs'.                           *)

Worker(j) == Starts(j) \/ Thread(j) \/ Decoder(j) \/ Breaks(j) \/ Callback(j)

LEMMA CastKept ==
  ASSUME KeysInv, [WorkersNext]_workersVars
  PROVE  cast' = cast /\ raced \subseteq raced'
<1>1. CASE UNCHANGED workersVars
  BY <1>1 DEF workersVars, control
<1>2. CASE Outsider
  BY <1>2 DEF Outsider, Command, Stop, Abort, Pause, Resume, Raise, Peer, Feed, FeedSends, EndRemoves,
     EndCancels, SweepChecks, SweepBegins, SweepRemoves, control
<1>3. ASSUME NEW j \in Cast, Worker(j) PROVE cast' = cast /\ raced \subseteq raced'
  <2>1. CASE Starts(j)
    BY <2>1 DEF Starts, Start, StartDrain, StartUpload,
     StartRemoteSession, StartCapture, StartDecodeFile, StartBlocking, Check
  <2>2. CASE Insert(j) \/ OpenInbox(j) \/ Unregister(j) \/ CloseInbox(j) \/ EmitFinal(j) \/ AnswerCall(j)
    BY <2>2 DEF Insert, OpenInbox, Unregister, CloseInbox, EmitFinal, AnswerCall
  <2>3. CASE \/ WarmUp(j) \/ OpenFile(j) \/ OpenMicrophone(j)
             \/ (\E broken \in BOOLEAN : LiveEnds(j, broken) \/ RemoteEnds(j, broken))
             \/ Receive(j) \/ Seek(j) \/ Drain(j) \/ DrainEnds(j)
             \/ Take(j) \/ Work(j) \/ WorkStops(j) \/ Join(j) \/ Decoder(j)
             \/ Callback(j) \/ ForwardBuffer(j) \/ ForwardPacket(j) \/ CaptureEnds(j) \/ CaptureFails(j)
    BY <2>3, QuietShape
  <2> QED
    BY <1>3, <2>1, <2>2, <2>3 DEF Worker, Thread, Breaks
<1> QED
  BY <1>1, <1>2, <1>3 DEF WorkersNext, Outsider, Worker

LEMMA FedKept ==
  ASSUME KeysInv, FedInv, [WorkersNext]_workersVars
  PROVE  FedInv'
<1>1. /\ inbox \in [Ids -> Jobs \cup {Nil}]
      /\ feed \in [Ids -> [to : Jobs \cup {Nil}, left : 0 .. Feeds]]
      /\ \A j \in Cast : Id(j) \in Ids
  BY CastShape DEF KeysInv, Typed, WorkersTypeOK
<1>2. UNCHANGED cast
  BY CastKept
<1>3. Of("remote")' = Of("remote")
  BY <1>2, SameKeys DEF Of
<1>4. ASSUME NEW i \in Ids, Feed(i) \/ FeedSends(i) \/ EndRemoves(i) PROVE FedInv'
  BY <1>1, <1>3, <1>4 DEF Feed, FeedSends, EndRemoves, FedInv, control
<1>5. ASSUME NEW j \in Cast, OpenInbox(j) PROVE FedInv'
  <2>1. j \in Of("remote")
    BY <1>5 DEF OpenInbox, Of, KeysInv, InboxInv
  <2> QED
    BY <1>1, <1>3, <1>5, <2>1 DEF OpenInbox, FedInv, callers
<1>6. ASSUME NEW j \in Cast, CloseInbox(j) PROVE FedInv'
  BY <1>1, <1>3, <1>6 DEF CloseInbox, FedInv, callers
<1>7. CASE UNCHANGED <<inbox, feed>>
  BY <1>3, <1>7 DEF FedInv
<1>8. ASSUME NEW j \in Cast, Starts(j) \/ Thread(j) \/ Decoder(j) \/ Breaks(j) \/ Callback(j),
             ~OpenInbox(j), ~CloseInbox(j)
      PROVE  UNCHANGED <<inbox, feed>>
  <2>1. CASE Starts(j)
    BY <2>1 DEF Starts, Start, StartDrain, StartUpload,
     StartRemoteSession, StartCapture, StartDecodeFile, StartBlocking, Check, callers
  <2>2. CASE Insert(j) \/ Unregister(j) \/ EmitFinal(j) \/ AnswerCall(j)
    BY <2>2 DEF Insert, Unregister, EmitFinal, AnswerCall, callers
  <2>3. CASE \/ WarmUp(j) \/ OpenFile(j) \/ OpenMicrophone(j)
             \/ (\E broken \in BOOLEAN : LiveEnds(j, broken) \/ RemoteEnds(j, broken))
             \/ Receive(j) \/ Seek(j) \/ Drain(j) \/ DrainEnds(j)
             \/ Take(j) \/ Work(j) \/ WorkStops(j) \/ Join(j) \/ Decoder(j)
             \/ Callback(j) \/ ForwardBuffer(j) \/ ForwardPacket(j) \/ CaptureEnds(j) \/ CaptureFails(j)
    BY <2>3, QuietShape DEF callers
  <2> QED
    BY <1>8, <2>1, <2>2, <2>3 DEF Thread, Breaks
<1>9. CASE Outsider
  <2>1. UNCHANGED <<inbox, feed>> \/ \E i \in Ids : Feed(i) \/ FeedSends(i) \/ EndRemoves(i)
    BY <1>9 DEF Outsider, Command, Stop, Abort, Pause, Resume, Raise, Peer, EndCancels,
       SweepChecks, SweepBegins, SweepRemoves, control, callers
  <2> QED
    BY <1>4, <1>7, <2>1
<1> QED
  BY <1>4, <1>5, <1>6, <1>7, <1>8, <1>9 DEF WorkersNext, Outsider, workersVars, control, callers

Same(k) ==
  /\ cast' = cast /\ at'[k] = at[k] /\ flags'[k] = flags[k] /\ failed'[k] = failed[k]
  /\ chan'[k] = chan[k] /\ hold'[k] = hold[k] /\ out'[k] = out[k]
  /\ source'[k] = source[k] /\ found'[k] = found[k]

LEMMA OthersSame ==
  ASSUME Typed, NEW j \in Cast, Worker(j), NEW k \in Jobs, k # j
  PROVE  Same(k)
<1>1. /\ at \in [Jobs -> Places] /\ failed \in [Jobs -> BOOLEAN] /\ found \in [Jobs -> SUBSET Audio]
      /\ flags \in [Jobs -> SUBSET {"cancel", "draining", "paused"}]
      /\ chan \in [Jobs -> Channel] /\ hold \in [Jobs -> Seq(Audio)] /\ out \in [Jobs -> Seq(Audio)]
      /\ source \in [Jobs -> [at : {"decode", "send", "end", "error"}, n : 0 .. Length]]
  BY DEF Typed, WorkersTypeOK, Channel, Places
<1>2. CASE Starts(j) \/ Insert(j) \/ OpenInbox(j) \/ Unregister(j) \/ CloseInbox(j) \/ EmitFinal(j) \/ AnswerCall(j)
  BY <1>1, <1>2 DEF Starts, Start, StartDrain, StartUpload, StartRemoteSession, StartCapture,
     StartDecodeFile, StartBlocking, Check, Insert, OpenInbox, Unregister, CloseInbox, EmitFinal,
     AnswerCall, Goto, Same, work
<1>3. CASE WarmUp(j) \/ OpenFile(j) \/ OpenMicrophone(j)
  BY <1>1, <1>3 DEF WarmUp, OpenFile, OpenMicrophone, Fails, Goto, Same, work
<1>4. CASE \E broken \in BOOLEAN : LiveEnds(j, broken) \/ RemoteEnds(j, broken)
  BY <1>1, <1>4 DEF LiveEnds, RemoteEnds, Ends, Goto, Same, work
<1>5. CASE Receive(j) \/ Seek(j) \/ Drain(j) \/ DrainEnds(j)
  BY <1>1, <1>5 DEF Receive, Seek, Drain, DrainEnds, Through, Ends, Goto, Same, work, control
<1>6. CASE Take(j) \/ Work(j) \/ WorkStops(j) \/ Join(j)
  BY <1>1, <1>6 DEF Take, Work, WorkStops, Join, Through, Ends, Goto, Same, work
<1>7. CASE Decoder(j) \/ Callback(j)
  BY <1>1, <1>7 DEF Decoder, Decode, DecodeStops, Send, Callback, Same, control
<1>8. CASE ForwardBuffer(j) \/ ForwardPacket(j) \/ CaptureEnds(j) \/ CaptureFails(j)
  BY <1>1, <1>8 DEF ForwardBuffer, ForwardPacket, CaptureEnds, CaptureFails, Emits, Ends, Goto, Same, control, work
<1> QED
  BY <1>2, <1>3, <1>4, <1>5, <1>6, <1>7, <1>8 DEF Worker, Thread, Breaks

\* Whoever is not a worker sends nothing but a peer's audio, and takes no
\* cancel back.
LEMMA OutsiderAudio ==
  ASSUME KeysInv, FedInv, Outsider, NEW k \in Cast
  PROVE  /\ UNCHANGED <<cast, at, failed, hold, out, source, found>>
         /\ "cancel" \in flags[k] => "cancel" \in flags'[k]
         /\ Kind(k) # "remote" => chan'[k] = chan[k]
<1>1. /\ k \in Jobs /\ holder \in [Maps \X Ids -> Jobs \cup {Nil}]
      /\ flags \in [Jobs -> SUBSET {"cancel", "draining", "paused"}] /\ chan \in [Jobs -> Channel]
  BY CastShape DEF KeysInv, Typed, WorkersTypeOK, Channel
<1>2. UNCHANGED <<cast, at, failed, hold, out, source, found>>
  BY DEF Outsider, Command, Stop, Abort, Pause, Resume, Raise, Peer, Feed, FeedSends, EndRemoves,
     EndCancels, SweepChecks, SweepBegins, SweepRemoves, control, work
<1>3. \A j \in Jobs : "cancel" \in flags[j] => "cancel" \in flags'[j]
  <2>1. UNCHANGED flags \/ (\E key \in Maps \X Ids : Command(key)) \/ \E i \in Ids : EndCancels(i)
    BY DEF Outsider, Peer, Feed, FeedSends, EndRemoves, SweepChecks, SweepBegins, SweepRemoves, control
  <2>2. ASSUME NEW key \in Maps \X Ids, Command(key)
        PROVE  \A j \in Jobs : "cancel" \in flags[j] => "cancel" \in flags'[j]
    <3>1. holder[key] \in Jobs
      BY <1>1, <2>2 DEF Command, Stop, Abort, Pause, Resume, Raise
    <3>2. PICK set : /\ flags' = [flags EXCEPT ![holder[key]] = set]
                     /\ "cancel" \in flags[holder[key]] => "cancel" \in set
      BY <2>2 DEF Command, Stop, Abort, Pause, Resume, Raise
    <3> QED
      BY <1>1, <3>1, <3>2
  <2>3. ASSUME NEW i \in Ids, EndCancels(i)
        PROVE  \A j \in Jobs : "cancel" \in flags[j] => "cancel" \in flags'[j]
    BY <1>1, <2>3 DEF EndCancels
  <2> QED
    BY <2>1, <2>2, <2>3
<1>4. Kind(k) # "remote" => chan'[k] = chan[k]
  <2>1. UNCHANGED chan \/ \E i \in Ids : FeedSends(i)
    BY DEF Outsider, Command, Stop, Abort, Pause, Resume, Raise, Peer, Feed, EndRemoves,
       EndCancels, SweepChecks, SweepBegins, SweepRemoves, work
  <2>2. ASSUME NEW i \in Ids, FeedSends(i), Kind(k) # "remote" PROVE chan'[k] = chan[k]
    <3>1. feed[i].to # k
      BY <1>1, <2>2, JobsAssumption DEF FedInv, Of
    <3> QED
      BY <1>1, <2>2, <3>1 DEF FeedSends
  <2> QED
    BY <2>1, <2>2
<1> QED
  BY <1>1, <1>2, <1>3, <1>4

\* Whatever numbers a sequence of buffers carries, from+1 is its first.
LEMMA CountsAppend ==
  ASSUME NEW s \in Seq(Audio), NEW from \in Nat, NEW x \in Audio, Counts(s, from),
         x = from + Len(s) + 1
  PROVE  Counts(Append(s, x), from)
<1>1. Len(Append(s, x)) = Len(s) + 1 /\ Len(s) \in Nat
  OBVIOUS
<1>2. ASSUME NEW i \in 1 .. Len(s) + 1 PROVE Append(s, x)[i] = from + i
  <2>1. CASE i = Len(s) + 1
    BY <2>1, <1>1
  <2>2. CASE i \in 1 .. Len(s)
    BY <2>2 DEF Counts
  <2> QED
    BY <1>1, <2>1, <2>2
<1> QED
  BY <1>1, <1>2 DEF Counts

LEMMA CountsTail ==
  ASSUME NEW s \in Seq(Audio), NEW from \in Nat, s # <<>>, Counts(s, from)
  PROVE  /\ Head(s) \in Audio /\ Head(s) = from + 1 /\ Tail(s) \in Seq(Audio)
         /\ Len(Tail(s)) = Len(s) - 1 /\ Counts(Tail(s), from + 1)
<1>1. Len(s) \in Nat \ {0} /\ Len(Tail(s)) = Len(s) - 1 /\ Tail(s) \in Seq(Audio) /\ Head(s) \in Audio
  OBVIOUS
<1>2. Head(s) = from + 1
  BY <1>1 DEF Counts
<1>3. ASSUME NEW i \in 1 .. Len(s) - 1 PROVE Tail(s)[i] = from + 1 + i
  <2>1. Tail(s)[i] = s[i + 1] /\ i + 1 \in 1 .. Len(s)
    BY <1>1
  <2>2. s[i + 1] = from + (i + 1)
    BY <2>1 DEF Counts
  <2> QED
    BY <2>1, <2>2
<1> QED
  BY <1>1, <1>2, <1>3 DEF Counts

LEMMA CountsSplit ==
  ASSUME NEW s \in Seq(Audio), NEW from \in Nat, Counts(s, from), NEW n \in 0 .. Len(s)
  PROVE  /\ Counts(SubSeq(s, 1, n), from) /\ Len(SubSeq(s, 1, n)) = n
         /\ Counts(SubSeq(s, n + 1, Len(s)), from + n)
         /\ Len(SubSeq(s, n + 1, Len(s))) = Len(s) - n
<1>1. Len(s) \in Nat /\ n \in Nat
  OBVIOUS
<1>2. Len(SubSeq(s, 1, n)) = n /\ \A i \in 1 .. n : SubSeq(s, 1, n)[i] = s[i]
  BY <1>1
<1>3. /\ Len(SubSeq(s, n + 1, Len(s))) = Len(s) - n
      /\ \A i \in 1 .. Len(s) - n : SubSeq(s, n + 1, Len(s))[i] = s[n + i]
  BY <1>1
<1>4. Counts(SubSeq(s, 1, n), from)
  BY <1>1, <1>2 DEF Counts
<1>5. Counts(SubSeq(s, n + 1, Len(s)), from + n)
  <2>1. ASSUME NEW i \in 1 .. Len(s) - n PROVE s[n + i] = from + n + i
    <3>1. n + i \in 1 .. Len(s)
      BY <1>1
    <3>2. s[n + i] = from + (n + i)
      BY <3>1 DEF Counts
    <3> QED
      BY <1>1, <3>2
  <2> QED
    BY <1>3, <2>1 DEF Counts
<1> QED
  BY <1>2, <1>3, <1>4, <1>5

LEMMA CountsConcat ==
  ASSUME NEW s \in Seq(Audio), NEW t \in Seq(Audio), NEW from \in Nat,
         Counts(s, from), Counts(t, from + Len(s))
  PROVE  Counts(s \o t, from) /\ Len(s \o t) = Len(s) + Len(t)
<1>1. Len(s \o t) = Len(s) + Len(t) /\ Len(s) \in Nat /\ Len(t) \in Nat
  OBVIOUS
<1>2. ASSUME NEW i \in 1 .. Len(s) + Len(t) PROVE (s \o t)[i] = from + i
  <2>1. CASE i \in 1 .. Len(s)
    BY <1>1, <2>1 DEF Counts
  <2>2. CASE i > Len(s)
    <3>1. (s \o t)[i] = t[i - Len(s)] /\ i - Len(s) \in 1 .. Len(t)
      BY <1>1, <2>2
    <3>2. t[i - Len(s)] = (from + Len(s)) + (i - Len(s))
      BY <3>1 DEF Counts
    <3> QED
      BY <1>1, <3>1, <3>2
  <2> QED
    BY <1>1, <2>1, <2>2
<1> QED
  BY <1>1, <1>2 DEF Counts

LEMMA AppendHas ==
  ASSUME NEW s \in Seq(Audio), NEW x \in Audio
  PROVE  ToSet(Append(s, x)) = ToSet(s) \cup {x}
<1>1. /\ DOMAIN s = 1 .. Len(s) /\ Len(s) \in Nat
      /\ DOMAIN Append(s, x) = 1 .. Len(s) + 1
      /\ \A i \in 1 .. Len(s) : Append(s, x)[i] = s[i]
      /\ Append(s, x)[Len(s) + 1] = x
  OBVIOUS
<1>2. ASSUME NEW y \in ToSet(Append(s, x)) PROVE y \in ToSet(s) \cup {x}
  BY <1>1 DEF ToSet
<1>3. ASSUME NEW y \in ToSet(s) PROVE y \in ToSet(Append(s, x))
  BY <1>1 DEF ToSet
<1>4. x \in ToSet(Append(s, x))
  BY <1>1 DEF ToSet
<1> QED
  BY <1>2, <1>3, <1>4

\* Nobody else touches the directory of a drain that runs, unless it raced.
LEMMA DiskKept ==
  ASSUME KeysInv, NEW k \in Cast, Kind(k) = "drain", Key(k) \notin raced, at[k] \in {"run", "ended"},
         Outsider \/ \E j \in Cast \ {k} : Worker(j)
  PROVE  disk'[Id(k)] = disk[Id(k)]
<1>1. /\ disk \in [Ids -> SUBSET Audio] /\ Id(k) \in Ids /\ \A j \in Cast : Id(j) \in Ids
      /\ Key(k) = <<"sessions", Id(k)>>
      /\ sweep.found \in Ids \cup {Nil}
  BY CastShape DEF KeysInv, Typed, WorkersTypeOK, Key, MapOf
<1>2. CASE Outsider
  <2>1. disk' = disk \/ SweepRemoves
    BY <1>2 DEF Outsider, Command, Stop, Abort, Pause, Resume, Raise, Peer, Feed, FeedSends, EndRemoves,
       EndCancels, SweepChecks, SweepBegins
  <2>2. CASE SweepRemoves
    <3>1. sweep.found # Id(k)
      BY <1>1, <2>2 DEF SweepRemoves, KeysInv, SweepInv, Held
    <3> QED
      BY <1>1, <2>2, <3>1 DEF SweepRemoves
  <2> QED
    BY <2>1, <2>2
<1>3. ASSUME NEW j \in Cast \ {k}, Worker(j) PROVE disk'[Id(k)] = disk[Id(k)]
  <2>1. \/ disk' = disk
        \/ /\ Kind(j) \in {"live", "remote", "drain"} /\ at[j] \in {"warm", "run"}
           /\ \E set : disk' = [disk EXCEPT ![Id(j)] = set]
    <3>1. CASE Starts(j) \/ Insert(j) \/ OpenInbox(j) \/ Unregister(j) \/ CloseInbox(j) \/ EmitFinal(j)
               \/ AnswerCall(j)
      BY <3>1 DEF Starts, Start, StartDrain, StartUpload, StartRemoteSession, StartCapture,
         StartDecodeFile, StartBlocking, Check, Insert, OpenInbox, Unregister, CloseInbox, EmitFinal,
         AnswerCall
    <3>2. CASE WarmUp(j)
      BY <3>2 DEF WarmUp
    <3>3. CASE \E broken \in BOOLEAN : LiveEnds(j, broken) \/ RemoteEnds(j, broken)
      BY <3>3 DEF LiveEnds, RemoteEnds
    <3>4. CASE Drain(j) \/ DrainEnds(j)
      BY <3>4 DEF Drain, DrainEnds, DrainRuns
    <3>5. CASE OpenFile(j) \/ OpenMicrophone(j) \/ Receive(j) \/ Seek(j)
               \/ Take(j) \/ Work(j) \/ WorkStops(j) \/ Join(j) \/ Decoder(j)
      BY <3>5 DEF OpenFile, OpenMicrophone, Receive, Seek, Take, Work, WorkStops, Join, Decoder,
         Decode, DecodeStops, Send
    <3>6. CASE Callback(j) \/ ForwardBuffer(j) \/ ForwardPacket(j) \/ CaptureEnds(j) \/ CaptureFails(j)
      BY <3>6 DEF Callback, ForwardBuffer, ForwardPacket, CaptureEnds, CaptureFails
    <3> QED
      BY <1>3, <3>1, <3>2, <3>3, <3>4, <3>5, <3>6 DEF Worker, Thread, Breaks
  <2>2. CASE /\ Kind(j) \in {"live", "remote", "drain"} /\ at[j] \in {"warm", "run"}
             /\ \E set : disk' = [disk EXCEPT ![Id(j)] = set]
    <3>1. Id(j) # Id(k)
      <4>1. Key(j) = <<"sessions", Id(j)>>
        BY <2>2 DEF Key, MapOf
      <4>2. ~Over(j) /\ ~Over(k)
        BY <2>2 DEF Over
      <4>3. Kind(k) # "call"
        OBVIOUS
      <4> QED
        BY <1>1, <4>1, <4>2, <4>3 DEF KeysInv, Alone
    <3> QED
      BY <1>1, <2>2, <3>1
  <2> QED
    BY <2>1, <2>2
<1> QED
  BY <1>2, <1>3

LEMMA FoundKept ==
  ASSUME KeysInv, FedInv, FoundInv, [WorkersNext]_workersVars
  PROVE  FoundInv'
<1>1. /\ Cast' = Cast /\ Cast \subseteq Jobs
      /\ at \in [Jobs -> Places] /\ found \in [Jobs -> SUBSET Audio]
  BY CastKept, SameKeys, CastShape DEF KeysInv, Typed, WorkersTypeOK, Places
<1>2. CASE UNCHANGED workersVars
  BY <1>1, <1>2 DEF FoundInv, workersVars, control, work
<1>3. CASE Outsider
  BY <1>1, <1>3, OutsiderAudio DEF FoundInv
<1>4. ASSUME NEW j \in Cast, Worker(j) PROVE FoundInv'
  <2>1. \A k \in Cast : k # j => at'[k] = at[k] /\ found'[k] = found[k]
    BY <1>1, <1>4, OthersSame DEF KeysInv, Same
  <2>2. at'[j] \in {"new", "checked", "inbox", "warm", "open"} => found'[j] = {}
    <3>1. CASE Starts(j)
      BY <1>1, <3>1 DEF FoundInv, Starts, Start, StartDrain, StartUpload, StartRemoteSession, StartCapture,
         StartDecodeFile, StartBlocking, Check, work
    <3>2. CASE Insert(j) \/ OpenInbox(j)
      BY <1>1, <3>2 DEF FoundInv, Insert, OpenInbox, work
    <3>3. CASE Unregister(j) \/ CloseInbox(j) \/ EmitFinal(j) \/ AnswerCall(j)
      BY <1>1, <3>3 DEF Unregister, CloseInbox, EmitFinal, AnswerCall, Goto
    <3>4. CASE WarmUp(j)
      <4>1. at[j] = "warm" /\ found[j] = {} /\ at'[j] \in {"open", "run", "ended"}
        BY <1>1, <3>4 DEF WarmUp, Fails, Goto, FoundInv
      <4>2. at'[j] = "open" => Uploading(j)
        BY <1>1, <3>4 DEF WarmUp, Fails, Goto
      <4>3. Uploading(j) => found' = found
        BY <3>4 DEF WarmUp, Uploading
      <4> QED
        BY <4>1, <4>2, <4>3
    <3>5. CASE OpenFile(j) \/ OpenMicrophone(j)
      BY <1>1, <3>5 DEF OpenFile, OpenMicrophone, Fails, Goto
    <3>6. CASE \/ (\E broken \in BOOLEAN : LiveEnds(j, broken) \/ RemoteEnds(j, broken))
               \/ Receive(j) \/ Seek(j) \/ Drain(j) \/ DrainEnds(j)
               \/ Take(j) \/ Work(j) \/ WorkStops(j) \/ Join(j) \/ Decoder(j)
               \/ Callback(j) \/ ForwardBuffer(j) \/ ForwardPacket(j) \/ CaptureEnds(j) \/ CaptureFails(j)
      <4>1. found' = found
        BY <3>6 DEF LiveEnds, RemoteEnds, Receive, Seek, Drain, DrainEnds,
           Take, Work, WorkStops, Join, Decoder, Decode, DecodeStops, Send, Callback, ForwardBuffer,
           ForwardPacket, CaptureEnds, CaptureFails, work
      <4>2. at'[j] = at[j] \/ at'[j] \in {"run", "work", "join", "ended"}
        BY <1>1, <3>6 DEF LiveEnds, RemoteEnds, Receive, Seek, Drain, DrainEnds, Take, Work, WorkStops,
           Join, Decoder, Decode, DecodeStops, Send, Callback, ForwardBuffer, ForwardPacket, CaptureEnds,
           CaptureFails, Ends, Goto, control
      <4> QED
        BY <4>1, <4>2 DEF FoundInv
    <3> QED
      BY <1>4, <3>1, <3>2, <3>3, <3>4, <3>5, <3>6 DEF Worker, Thread, Breaks
  <2> QED
    BY <1>1, <2>1, <2>2 DEF FoundInv
<1> QED
  BY <1>2, <1>3, <1>4 DEF WorkersNext, Outsider, Worker

\* What a drain found is taken, or still there.
LEMMA DrainKept ==
  ASSUME KeysInv, FedInv, FoundInv, DrainInv, [WorkersNext]_workersVars
  PROVE  DrainInv'
<1>1. /\ Cast' = Cast /\ Cast \subseteq Jobs /\ raced \subseteq raced'
      /\ at \in [Jobs -> Places] /\ found \in [Jobs -> SUBSET Audio] /\ disk \in [Ids -> SUBSET Audio]
      /\ out \in [Jobs -> Seq(Audio)]
      /\ \A k \in Cast : Kind(k)' = Kind(k) /\ Id(k)' = Id(k) /\ Key(k)' = Key(k) /\ Id(k) \in Ids
  BY CastKept, SameKeys, CastShape DEF KeysInv, Typed, WorkersTypeOK, Places
<1>2. SUFFICES ASSUME NEW k \in Cast, Kind(k) = "drain", Key(k) \notin raced,
                      at'[k] = "run" \/ (at'[k] = "ended" /\ "cancel" \notin flags'[k])
               PROVE  found'[k] \subseteq ToSet(out'[k]) \cup disk'[Id(k)]
  BY <1>1 DEF DrainInv
<1>3. (at[k] = "run" \/ (at[k] = "ended" /\ "cancel" \notin flags[k])) =>
        found[k] \subseteq ToSet(out[k]) \cup disk[Id(k)]
  BY <1>2 DEF DrainInv
<1>4. CASE UNCHANGED workersVars
  BY <1>2, <1>3, <1>4 DEF workersVars, control, work
<1>5. CASE Outsider
  <2>1. /\ UNCHANGED <<at, out, found>>
        /\ "cancel" \in flags[k] => "cancel" \in flags'[k]
    BY <1>5, OutsiderAudio
  <2>2. disk'[Id(k)] = disk[Id(k)]
    BY <1>2, <1>5, <2>1, DiskKept
  <2> QED
    BY <1>2, <1>3, <2>1, <2>2
<1>6. ASSUME NEW j \in Cast, Worker(j), j # k PROVE found'[k] \subseteq ToSet(out'[k]) \cup disk'[Id(k)]
  <2>1. Same(k)
    BY <1>1, <1>6, OthersSame DEF KeysInv
  <2>2. disk'[Id(k)] = disk[Id(k)]
    BY <1>2, <1>6, <2>1, DiskKept DEF Same
  <2> QED
    BY <1>2, <1>3, <2>1, <2>2 DEF Same
<1>7. CASE Worker(k)
  <2>1. CASE Starts(k) \/ Insert(k) \/ OpenInbox(k) \/ Unregister(k) \/ CloseInbox(k) \/ EmitFinal(k)
             \/ AnswerCall(k)
    <3>1. \E place \in {"checked", "refused", "warm", "inbox", "open", "unlisted", "free", "final"} :
            at' = [at EXCEPT ![k] = place]
      BY <2>1 DEF Starts, Start, StartDrain, StartUpload, StartRemoteSession, StartCapture,
         StartDecodeFile, StartBlocking, Check, Insert, OpenInbox, Unregister, CloseInbox, EmitFinal,
         AnswerCall, Goto
    <3> QED
      BY <1>1, <1>2, <3>1
  <2>2. CASE WarmUp(k)
    <3>1. \/ found' = [found EXCEPT ![k] = disk[Id(k)]] /\ disk' = disk
          \/ found' = found
      BY <1>2, <2>2 DEF WarmUp
    <3>2. found[k] = {}
      BY <2>2 DEF WarmUp, FoundInv
    <3>3. found'[k] = {} \/ (found'[k] = disk[Id(k)] /\ disk' = disk)
      BY <1>1, <3>1, <3>2
    <3> QED
      BY <3>3
  <2>3. CASE Seek(k)
    BY <1>2, <1>3, <2>3 DEF Seek, control
  <2>4. CASE Drain(k)
    <3>1. /\ at[k] = "run" /\ found' = found /\ NextSeq(k) \in disk[Id(k)]
          /\ \/ out' = out /\ disk' = disk
             \/ /\ out' = [out EXCEPT ![k] = Append(out[k], NextSeq(k))]
                /\ disk' = [disk EXCEPT ![Id(k)] = disk[Id(k)] \ ({NextSeq(k)} \ Stuck)]
      BY <2>4 DEF Drain, DrainRuns, Through
    <3>2. NextSeq(k) \in Audio
      BY <1>1, <3>1
    <3>3. ToSet(Append(out[k], NextSeq(k))) = ToSet(out[k]) \cup {NextSeq(k)}
      BY <1>1, <3>2, AppendHas
    <3>4. CASE out' = out /\ disk' = disk
      BY <1>3, <3>1, <3>4
    <3>5. CASE /\ out' = [out EXCEPT ![k] = Append(out[k], NextSeq(k))]
               /\ disk' = [disk EXCEPT ![Id(k)] = disk[Id(k)] \ ({NextSeq(k)} \ Stuck)]
      <4>1. out'[k] = Append(out[k], NextSeq(k)) /\ disk'[Id(k)] = disk[Id(k)] \ ({NextSeq(k)} \ Stuck)
        BY <1>1, <3>5
      <4> QED
        BY <1>3, <3>1, <3>3, <4>1
    <3> QED
      BY <3>1, <3>4, <3>5
  <2>5. CASE DrainEnds(k)
    <3>1. /\ at[k] = "run" /\ UNCHANGED <<found, out, flags>> /\ at' = [at EXCEPT ![k] = "ended"]
          /\ "cancel" \in flags[k] \/ disk[Id(k)] = {}
      BY <1>2, <2>5 DEF DrainEnds, DrainRuns, Ends, Goto, Told, work
    <3> QED
      BY <1>1, <1>2, <1>3, <3>1
  <2>6. CASE OpenFile(k) \/ OpenMicrophone(k)
    <3>1. Kind(k) = "drain" /\ at[k] = "open" /\ found' = found
      BY <1>2, <2>6 DEF OpenFile, OpenMicrophone, work
    <3>2. found[k] = {}
      BY <3>1 DEF FoundInv
    <3> QED
      BY <3>1, <3>2
  <2>7. CASE \/ (\E broken \in BOOLEAN : LiveEnds(k, broken) \/ RemoteEnds(k, broken))
             \/ Receive(k)
             \/ Take(k) \/ Work(k) \/ WorkStops(k) \/ Join(k) \/ Decoder(k)
             \/ Callback(k) \/ ForwardBuffer(k) \/ ForwardPacket(k) \/ CaptureEnds(k) \/ CaptureFails(k)
    <3>1. FALSE
      BY <1>2, <2>7 DEF LiveEnds, RemoteEnds, Receive, Take, Work, WorkStops, Join, Decoder, Decode,
         DecodeStops, Send, Decoding, Uploading, Callback, ForwardBuffer, ForwardPacket, CaptureEnds,
         CaptureFails, Capturing
    <3> QED
      BY <3>1
  <2> QED
    BY <1>7, <2>1, <2>2, <2>3, <2>4, <2>5, <2>6, <2>7 DEF Worker, Thread, Breaks
<1> QED
  BY <1>4, <1>5, <1>6, <1>7 DEF WorkersNext, Outsider, Worker

LEMMA AudioShape ==
  ASSUME Typed, NEW j \in Cast
  PROVE  /\ j \in Jobs
         /\ chan[j] \in Seq(Audio) /\ Len(chan[j]) \in Nat
         /\ hold[j] \in Seq(Audio) /\ Len(hold[j]) \in Nat
         /\ out[j] \in Seq(Audio) /\ Len(out[j]) \in Nat
         /\ source[j] \in [at : {"decode", "send", "end", "error"}, n : 0 .. Length]
         /\ source[j].n \in 0 .. Length /\ Length \in Nat
<1>1. j \in Jobs /\ Length \in Nat
  BY CastShape, WorkersAssumption DEF Typed, WorkersTypeOK
<1>2. /\ chan[j] \in Channel /\ hold[j] \in Seq(Audio) /\ out[j] \in Seq(Audio)
      /\ source[j] \in [at : {"decode", "send", "end", "error"}, n : 0 .. Length]
  BY <1>1 DEF Typed, WorkersTypeOK, Channel
<1>3. chan[j] \in Seq(Audio)
  BY <1>2, ChannelIsSequence
<1> QED
  BY <1>1, <1>2, <1>3

LEMMA DecodeReady ==
  ASSUME Typed, NEW j \in Cast, Ready(j), Decode(j) \/ DecodeStops(j)
  PROVE  Ready(j)'
<1>1. /\ j \in Jobs /\ source[j].n \in 0 .. Length /\ Length \in Nat
      /\ source \in [Jobs -> [at : {"decode", "send", "end", "error"}, n : 0 .. Length]]
  BY AudioShape DEF Typed, WorkersTypeOK
<1>2. /\ UNCHANGED <<cast, at, flags, failed, chan, hold, out>> /\ source[j].at = "decode"
      /\ Uploading(j) /\ at[j] \in {"run", "work", "join"}
  BY DEF Decode, DecodeStops, Decoding, control
<1>3. Uploading(j)' = Uploading(j)
  BY <1>2, SameKeys
<1>4. SUFFICES ASSUME "cancel" \notin flags[j], ~failed[j]
               PROVE  /\ Counted(j)'
                      /\ source'[j].at = "end" => source'[j].n >= Length - 1
                      /\ Len(hold[j]) = IF at[j] = "work" THEN 1 ELSE 0
                      /\ at[j] \notin {"join", "ended"}
  BY <1>2, <1>3 DEF Ready
<1>5. /\ Counted(j) /\ at[j] \notin {"join", "ended"}
      /\ Len(hold[j]) = IF at[j] = "work" THEN 1 ELSE 0
  BY <1>2, <1>4 DEF Ready
<1>6. \/ source[j].n < Length /\ source'[j] = [at |-> "send", n |-> source[j].n + 1]
      \/ source[j].n >= Length - 1 /\ source'[j].at = "end" /\ source'[j].n = source[j].n
      \/ source'[j].at = "error" /\ source'[j].n = source[j].n
  <2>1. CASE Decode(j)
    BY <1>1, <2>1 DEF Decode
  <2>2. CASE DecodeStops(j)
    BY <1>1, <1>4, <2>2 DEF DecodeStops
  <2> QED
    BY <2>1, <2>2
<1>7. Sent(j)' = Sent(j)
  BY <1>1, <1>2, <1>6 DEF Sent
<1>8. Counted(j)'
  BY <1>2, <1>5, <1>7 DEF Counted, Counts
<1>9. source'[j].at = "end" => source'[j].n >= Length - 1
  BY <1>6
<1> QED
  BY <1>5, <1>8, <1>9

LEMMA SumOfThree ==
  ASSUME NEW a \in Nat, NEW b \in Nat, NEW c \in Nat, NEW n \in Nat, a + b + c = n - 1
  PROVE  n = a + b + c + 1 /\ a + b + (c + 1) = n /\ a + b \in Nat
OBVIOUS

LEMMA SendReady ==
  ASSUME Typed, NEW j \in Cast, Ready(j), Send(j)
  PROVE  Ready(j)'
<1>1. /\ j \in Jobs /\ source[j].n \in 0 .. Length /\ Length \in Nat /\ source[j].n \in Nat
      /\ chan[j] \in Seq(Audio) /\ Len(chan[j]) \in Nat /\ Len(hold[j]) \in Nat /\ Len(out[j]) \in Nat
      /\ source \in [Jobs -> [at : {"decode", "send", "end", "error"}, n : 0 .. Length]]
      /\ chan \in [Jobs -> Channel]
  BY AudioShape DEF Typed, WorkersTypeOK, Channel
<1>2. /\ UNCHANGED <<cast, at, flags, failed, hold, out>> /\ source[j].at = "send" /\ Uploading(j)
      /\ source[j].n # 0
  BY <1>1 DEF Send, control, Typed, DecoderInv
<1>3. Uploading(j)' = Uploading(j)
  BY <1>2, SameKeys
<1>4. SUFFICES ASSUME "cancel" \notin flags[j], ~failed[j]
               PROVE  /\ Counted(j)' /\ source'[j].at = "decode"
                      /\ Len(hold[j]) = IF at[j] = "work" THEN 1 ELSE 0
                      /\ at[j] \notin {"join", "ended"}
  BY <1>2, <1>3 DEF Ready
<1>5. /\ Counted(j) /\ at[j] \notin {"join", "ended"}
      /\ Len(hold[j]) = IF at[j] = "work" THEN 1 ELSE 0
  BY <1>2, <1>4 DEF Ready
<1>6. source'[j].at = "decode" /\ source'[j].n = source[j].n /\ chan'[j] = Append(chan[j], source[j].n)
  BY <1>1 DEF Send
<1>7. Len(out[j]) + Len(hold[j]) + Len(chan[j]) = source[j].n - 1
  BY <1>2, <1>5 DEF Counted, Sent
<1>8. source[j].n \in Audio
  BY <1>1, <1>2 DEF Audio
<1>9. Counts(Append(chan[j], source[j].n), Len(out[j]) + Len(hold[j]))
  <2>1. Len(out[j]) + Len(hold[j]) \in Nat /\ source[j].n = Len(out[j]) + Len(hold[j]) + Len(chan[j]) + 1
    <3>1. PICK a \in Nat, b \in Nat, c \in Nat, n \in Nat :
            a = Len(out[j]) /\ b = Len(hold[j]) /\ c = Len(chan[j]) /\ n = source[j].n
      BY <1>1
    <3>2. a + b + c = n - 1
      BY <1>7, <3>1
    <3>3. n = a + b + c + 1 /\ a + b \in Nat
      BY <3>2, SumOfThree
    <3> QED
      BY <3>1, <3>3
  <2> QED
    BY <1>1, <1>5, <1>8, <2>1, CountsAppend DEF Counted
<1>10. Sent(j)' = source[j].n /\ Len(Append(chan[j], source[j].n)) = Len(chan[j]) + 1
  BY <1>1, <1>6, <1>8 DEF Sent
<1>11. Len(out[j]) + Len(hold[j]) + Len(chan'[j]) = Sent(j)'
  <2>1. Len(chan'[j]) = Len(chan[j]) + 1
    BY <1>6, <1>10
  <2> QED
    <3>1. Len(out[j]) + Len(hold[j]) + (Len(chan[j]) + 1) = source[j].n
      <4>1. PICK a \in Nat, b \in Nat, c \in Nat, n \in Nat :
              a = Len(out[j]) /\ b = Len(hold[j]) /\ c = Len(chan[j]) /\ n = source[j].n
        BY <1>1
      <4>2. a + b + c = n - 1
        BY <1>7, <4>1
      <4>3. a + b + (c + 1) = n
        BY <4>2, SumOfThree
      <4> QED
        BY <4>1, <4>3
    <3> QED
      BY <1>10, <2>1, <3>1
<1>12. Counted(j)'
  <2>1. Counts(out[j], 0) /\ Counts(hold[j], Len(out[j]))
    BY <1>5 DEF Counted
  <2> QED
    BY <1>2, <1>6, <1>9, <1>11, <2>1 DEF Counted, Counts
<1> QED
  BY <1>5, <1>6, <1>12

LEMMA TakeReady ==
  ASSUME Typed, NEW j \in Cast, Ready(j), Take(j)
  PROVE  Ready(j)'
<1>1. /\ j \in Jobs /\ chan \in [Jobs -> Channel] /\ hold \in [Jobs -> Seq(Audio)] /\ at \in [Jobs -> Places]
      /\ chan[j] \in Seq(Audio) /\ Len(chan[j]) \in Nat /\ Len(hold[j]) \in Nat /\ Len(out[j]) \in Nat
      /\ hold[j] \in Seq(Audio)
  BY AudioShape DEF Typed, WorkersTypeOK, Channel, Places
<1>2. UNCHANGED <<cast, flags, failed, out, source>> /\ at[j] = "run" /\ Uploading(j)
  BY DEF Take
<1>3. Uploading(j)' = Uploading(j)
  BY <1>2, SameKeys
<1>4. SUFFICES ASSUME "cancel" \notin flags[j], ~failed[j]
               PROVE  /\ Counted(j)'
                      /\ source[j].at = "end" => source[j].n >= Length - 1
                      /\ Len(hold'[j]) = IF at'[j] = "work" THEN 1 ELSE 0
                      /\ at'[j] \in {"join", "ended"} => chan'[j] = <<>> /\ source[j].at \in {"end", "error"}
                      /\ at'[j] = "ended" => source[j].at = "end"
  BY <1>2, <1>3 DEF Ready
<1>5. /\ Counted(j) /\ Len(hold[j]) = 0
      /\ source[j].at = "end" => source[j].n >= Length - 1
  BY <1>2, <1>4 DEF Ready
<1>6. Sent(j)' = Sent(j)
  BY <1>2 DEF Sent
<1>7. CASE chan[j] = <<>>
  <2>1. /\ UNCHANGED <<chan, hold>> /\ at' = [at EXCEPT ![j] = "join"] /\ source[j].at \in {"end", "error"}
    BY <1>7 DEF Take, Goto
  <2>2. at'[j] = "join"
    BY <1>1, <2>1
  <2>3. Counted(j)'
    BY <1>2, <1>5, <1>6, <2>1 DEF Counted, Counts
  <2> QED
    BY <1>4, <1>5, <1>7, <2>1, <2>2, <2>3 DEF Ready
<1>8. CASE chan[j] # <<>>
  <2>1. /\ hold' = [hold EXCEPT ![j] = <<Head(chan[j])>>] /\ chan' = [chan EXCEPT ![j] = Tail(chan[j])]
        /\ at' = [at EXCEPT ![j] = "work"]
    BY <1>8 DEF Take, Goto
  <2>2. hold'[j] = <<Head(chan[j])>> /\ chan'[j] = Tail(chan[j]) /\ at'[j] = "work"
    BY <1>1, <2>1
  <2>3. Counts(chan[j], Len(out[j])) /\ Counts(out[j], 0)
        /\ Len(out[j]) + Len(chan[j]) = Sent(j)
    BY <1>1, <1>5 DEF Counted
  <2>4. /\ Head(chan[j]) = Len(out[j]) + 1 /\ Len(Tail(chan[j])) = Len(chan[j]) - 1
        /\ Counts(Tail(chan[j]), Len(out[j]) + 1)
    BY <1>1, <1>8, <2>3, CountsTail
  <2>5. Len(hold'[j]) = 1 /\ hold'[j][1] = Len(out[j]) + 1
    BY <2>2, <2>4
  <2>6. Counts(hold'[j], Len(out[j]))
    BY <2>5 DEF Counts
  <2>7. Len(out[j]) + Len(hold'[j]) + Len(chan'[j]) = Sent(j)
    <3>1. \A a, b \in Nat : a + 1 + (b - 1) = a + b
      OBVIOUS
    <3>2. Len(out[j]) + Len(hold'[j]) + Len(chan'[j]) = Len(out[j]) + 1 + (Len(chan[j]) - 1)
      BY <2>2, <2>4, <2>5
    <3> QED
      BY <1>1, <2>3, <3>1, <3>2
  <2>8. Counts(chan'[j], Len(out[j]) + Len(hold'[j]))
    BY <2>2, <2>4, <2>5
  <2>9. Counted(j)'
    BY <1>2, <1>6, <2>3, <2>6, <2>7, <2>8 DEF Counted, Counts
  <2> QED
    BY <1>5, <2>2, <2>5, <2>9
<1> QED
  BY <1>7, <1>8

LEMMA WorkReady ==
  ASSUME Typed, NEW j \in Cast, Ready(j), Work(j) \/ WorkStops(j)
  PROVE  Ready(j)'
<1>1. /\ j \in Jobs /\ hold \in [Jobs -> Seq(Audio)] /\ out \in [Jobs -> Seq(Audio)] /\ at \in [Jobs -> Places]
      /\ chan[j] \in Seq(Audio) /\ Len(chan[j]) \in Nat /\ Len(hold[j]) \in Nat /\ Len(out[j]) \in Nat
      /\ hold[j] \in Seq(Audio) /\ out[j] \in Seq(Audio) /\ failed \in [Jobs -> BOOLEAN]
      /\ flags \in [Jobs -> SUBSET {"cancel", "draining", "paused"}]
  BY AudioShape DEF Typed, WorkersTypeOK, Channel, Places
<1>2. UNCHANGED <<cast, chan, source>> /\ at[j] = "work" /\ Uploading(j)
  BY DEF Work, WorkStops
<1>3. Uploading(j)' = Uploading(j)
  BY <1>2, SameKeys
<1>4. SUFFICES ASSUME "cancel" \notin flags'[j], ~failed'[j]
               PROVE  /\ Counted(j)'
                      /\ source[j].at = "end" => source[j].n >= Length - 1
                      /\ Len(hold'[j]) = 0 /\ at'[j] = "run"
  BY <1>2, <1>3 DEF Ready
<1>5. /\ at' = [at EXCEPT ![j] = "run"] /\ out' = [out EXCEPT ![j] = Append(out[j], hold[j][1])]
      /\ hold' = [hold EXCEPT ![j] = <<>>] /\ UNCHANGED <<flags, failed>>
  <2>1. CASE WorkStops(j)
    <3>1. "cancel" \in flags[j] /\ flags' = flags
      BY <1>2, <2>1 DEF WorkStops, Told, Uploading
    <3> QED
      BY <1>4, <3>1
  <2>2. CASE Work(j)
    <3>1. errs'[j] # ErrorLimit
      BY <1>1, <1>4, <2>2 DEF Work
    <3> QED
      BY <2>2, <3>1 DEF Work, Goto, Through
  <2> QED
    BY <2>1, <2>2
<1>6. at'[j] = "run" /\ out'[j] = Append(out[j], hold[j][1]) /\ hold'[j] = <<>>
  BY <1>1, <1>5
<1>7. /\ Counted(j) /\ Len(hold[j]) = 1
      /\ source[j].at = "end" => source[j].n >= Length - 1
  BY <1>2, <1>4, <1>5 DEF Ready
<1>8. Sent(j)' = Sent(j)
  BY <1>2 DEF Sent
<1>9. hold[j][1] \in Audio /\ hold[j][1] = Len(out[j]) + 1
  <2>1. 1 \in 1 .. Len(hold[j])
    BY <1>7
  <2>2. hold[j][1] = Len(out[j]) + 1
    BY <1>1, <1>7, <2>1 DEF Counted, Counts
  <2>3. hold[j][1] \in Audio
    BY <1>1, <2>1
  <2> QED
    BY <2>2, <2>3
<1>10. Counts(out'[j], 0) /\ Len(out'[j]) = Len(out[j]) + 1
  <2>1. Counts(out[j], 0) /\ hold[j][1] = 0 + Len(out[j]) + 1
    BY <1>1, <1>7, <1>9 DEF Counted
  <2> QED
    BY <1>1, <1>6, <1>9, <2>1, CountsAppend
<1>11. Counts(chan[j], Len(out[j]) + 1) /\ Len(out[j]) + 1 + Len(chan[j]) = Sent(j)
  BY <1>1, <1>7 DEF Counted
<1>12. Counts(hold'[j], Len(out'[j])) /\ Len(hold'[j]) = 0
  BY <1>6 DEF Counts
<1>13. Counts(chan[j], Len(out'[j]) + Len(hold'[j])) /\ Len(out'[j]) + Len(hold'[j]) + Len(chan[j]) = Sent(j)
  <2>1. Len(out'[j]) + Len(hold'[j]) = Len(out[j]) + 1
    BY <1>1, <1>10, <1>12
  <2> QED
    BY <1>11, <2>1
<1>14. Counted(j)'
  BY <1>2, <1>8, <1>10, <1>12, <1>13 DEF Counted, Counts
<1> QED
  BY <1>6, <1>7, <1>12, <1>14

\* Audio that stays where it is stays in order.
LEMMA StaysReady ==
  ASSUME NEW k \in Cast, Ready(k), UNCHANGED cast,
         "cancel" \in flags[k] => "cancel" \in flags'[k],
         \/ failed'[k]
         \/ /\ failed'[k] = failed[k] /\ chan'[k] = chan[k] /\ hold'[k] = hold[k]
            /\ out'[k] = out[k] /\ source'[k] = source[k]
            /\ \/ at'[k] = at[k]
               \/ at[k] # "work" /\ at'[k] \notin {"work", "join", "ended"}
  PROVE  Ready(k)'
<1>1. Uploading(k)' = Uploading(k)
  BY SameKeys
<1>2. CASE failed'[k]
  BY <1>2 DEF Ready
<1>3. CASE /\ failed'[k] = failed[k] /\ chan'[k] = chan[k] /\ hold'[k] = hold[k]
           /\ out'[k] = out[k] /\ source'[k] = source[k]
           /\ \/ at'[k] = at[k]
              \/ at[k] # "work" /\ at'[k] \notin {"work", "join", "ended"}
  <2>1. Counted(k) => Counted(k)'
    BY <1>3 DEF Counted, Counts, Sent
  <2> SUFFICES ASSUME Uploading(k), "cancel" \notin flags'[k], ~failed[k]
               PROVE  /\ Counted(k)'
                      /\ source[k].at = "end" => source[k].n >= Length - 1
                      /\ Len(hold[k]) = IF at'[k] = "work" THEN 1 ELSE 0
                      /\ at'[k] \in {"join", "ended"} => chan[k] = <<>> /\ source[k].at \in {"end", "error"}
                      /\ at'[k] = "ended" => source[k].at = "end"
    BY <1>1, <1>3 DEF Ready
  <2>2. /\ Counted(k)
        /\ source[k].at = "end" => source[k].n >= Length - 1
        /\ Len(hold[k]) = IF at[k] = "work" THEN 1 ELSE 0
        /\ at[k] \in {"join", "ended"} => chan[k] = <<>> /\ source[k].at \in {"end", "error"}
        /\ at[k] = "ended" => source[k].at = "end"
    BY DEF Ready
  <2> QED
    BY <1>3, <2>1, <2>2
<1> QED
  BY <1>2, <1>3

LEMMA JoinReady ==
  ASSUME Typed, NEW j \in Cast, Ready(j), Join(j)
  PROVE  Ready(j)'
<1>1. j \in Jobs /\ at \in [Jobs -> Places] /\ failed \in [Jobs -> BOOLEAN]
  BY AudioShape DEF Typed, WorkersTypeOK, Places
<1>2. /\ UNCHANGED <<cast, flags, chan, hold, out, source>> /\ at[j] = "join" /\ Uploading(j)
      /\ at' = [at EXCEPT ![j] = "ended"]
      /\ failed' = [failed EXCEPT ![j] = failed[j] \/ source[j].at = "error"]
      /\ source[j].at \in {"end", "error"}
  BY DEF Join, Ends, Goto, work
<1>3. Uploading(j)' = Uploading(j)
  BY <1>2, SameKeys
<1>4. at'[j] = "ended"
  BY <1>1, <1>2
<1>5. failed'[j] = (failed[j] \/ source[j].at = "error")
  BY <1>1, <1>2
<1>6. CASE failed'[j]
  BY <1>6 DEF Ready
<1>7. CASE ~failed'[j] /\ "cancel" \notin flags[j]
  <2>1. ~failed[j] /\ source[j].at = "end"
    BY <1>2, <1>5, <1>7
  <2>2. Counted(j) => Counted(j)'
    BY <1>2 DEF Counted, Counts, Sent
  <2>3. /\ Counted(j) /\ source[j].n >= Length - 1 /\ Len(hold[j]) = 0 /\ chan[j] = <<>>
    BY <1>2, <1>7, <2>1 DEF Ready
  <2> QED
    BY <1>2, <1>3, <1>4, <2>1, <2>2, <2>3 DEF Ready
<1>8. CASE "cancel" \in flags[j]
  BY <1>2, <1>8 DEF Ready
<1> QED
  BY <1>6, <1>7, <1>8

LEMMA UploadKept ==
  ASSUME KeysInv, FedInv, UploadInv, [WorkersNext]_workersVars
  PROVE  UploadInv'
<1>1. /\ Cast' = Cast /\ Cast \subseteq Jobs /\ cast' = cast /\ Typed
      /\ at \in [Jobs -> Places] /\ failed \in [Jobs -> BOOLEAN]
  BY CastKept, SameKeys, CastShape DEF KeysInv, Typed, WorkersTypeOK, Places
<1>2. SUFFICES ASSUME NEW k \in Cast, Ready(k) PROVE Ready(k)'
  BY <1>1 DEF UploadInv
<1>3. CASE UNCHANGED workersVars
  BY <1>1, <1>2, <1>3, StaysReady DEF workersVars, control, work
<1>4. CASE ~Uploading(k)
  <2>1. ~Uploading(k)'
    BY <1>1, <1>4, SameKeys
  <2> QED
    BY <2>1 DEF Ready
<1>5. ASSUME Outsider, Uploading(k) PROVE Ready(k)'
  <2>1. Kind(k) # "remote"
    BY <1>5 DEF Uploading
  <2>2. /\ UNCHANGED <<cast, at, failed, hold, out, source, found>>
        /\ "cancel" \in flags[k] => "cancel" \in flags'[k]
        /\ chan'[k] = chan[k]
    BY <1>5, <2>1, OutsiderAudio
  <2> QED
    BY <1>2, <2>2, StaysReady
<1>6. ASSUME NEW j \in Cast, Worker(j), j # k PROVE Ready(k)'
  <2>1. Same(k)
    BY <1>1, <1>6, OthersSame
  <2> QED
    BY <1>2, <2>1, StaysReady DEF Same
<1>7. ASSUME Worker(k), Uploading(k) PROVE Ready(k)'
  <2>1. CASE Starts(k) \/ Insert(k) \/ OpenInbox(k) \/ Unregister(k) \/ CloseInbox(k) \/ EmitFinal(k)
             \/ AnswerCall(k)
    <3>1. /\ at[k] # "work" /\ UNCHANGED <<cast, flags, failed, chan, hold, out, source>>
          /\ \E place \in {"checked", "refused", "warm", "inbox", "open", "unlisted", "free", "final"} :
               at' = [at EXCEPT ![k] = place]
      BY <2>1 DEF Starts, Start, StartDrain, StartUpload, StartRemoteSession, StartCapture,
         StartDecodeFile, StartBlocking, Check, Insert, OpenInbox, Unregister, CloseInbox, EmitFinal,
         AnswerCall, Goto, work
    <3>2. at'[k] \notin {"work", "join", "ended"}
      BY <1>1, <3>1
    <3> QED
      BY <1>2, <3>1, <3>2, StaysReady
  <2>2. CASE WarmUp(k) \/ OpenFile(k) \/ OpenMicrophone(k)
    <3>1. /\ at[k] # "work" /\ UNCHANGED <<cast, flags, chan, hold, out, source>>
          /\ \/ failed' = [failed EXCEPT ![k] = TRUE]
             \/ failed' = failed /\ \E place \in {"open", "run"} : at' = [at EXCEPT ![k] = place]
      BY <2>2 DEF WarmUp, OpenFile, OpenMicrophone, Fails, Goto, work
    <3>2. failed'[k] \/ (failed'[k] = failed[k] /\ at'[k] \notin {"work", "join", "ended"})
      BY <1>1, <3>1
    <3> QED
      BY <1>2, <3>1, <3>2, StaysReady
  <2>3. CASE Take(k)
    BY <1>1, <1>2, <2>3, TakeReady
  <2>4. CASE Work(k) \/ WorkStops(k)
    BY <1>1, <1>2, <2>4, WorkReady
  <2>5. CASE Join(k)
    BY <1>1, <1>2, <2>5, JoinReady
  <2>6. CASE Decoder(k)
    BY <1>1, <1>2, <2>6, DecodeReady, SendReady DEF Decoder
  <2>7. CASE \/ (\E broken \in BOOLEAN : LiveEnds(k, broken) \/ RemoteEnds(k, broken))
             \/ Receive(k) \/ Seek(k) \/ Drain(k) \/ DrainEnds(k)
             \/ Callback(k) \/ ForwardBuffer(k) \/ ForwardPacket(k) \/ CaptureEnds(k) \/ CaptureFails(k)
    <3>1. FALSE
      BY <1>7, <2>7 DEF LiveEnds, RemoteEnds, Receive, Seek, Drain, DrainEnds, DrainRuns, Uploading,
         Callback, ForwardBuffer, ForwardPacket, CaptureEnds, CaptureFails, Capturing
    <3> QED
      BY <3>1
  <2> QED
    BY <1>7, <2>1, <2>2, <2>3, <2>4, <2>5, <2>6, <2>7 DEF Worker, Thread, Breaks
<1> QED
  BY <1>3, <1>4, <1>5, <1>6, <1>7 DEF WorkersNext, Outsider, Worker

\* emit_pcm_frames sends the first buffers of what is pending, and keeps the others.
LEMMA EmitsCounted ==
  ASSUME Typed, NEW j \in Cast, NEW pending \in Seq(Audio), NEW n \in 0 .. Len(pending),
         Emits(j, pending, n), Counts(out[j], 0), Counts(pending, Len(out[j]))
  PROVE  /\ Counts(out'[j], 0) /\ Counts(hold'[j], Len(out'[j]))
         /\ Len(out'[j]) + Len(hold'[j]) = Len(out[j]) + Len(pending)
<1>1. /\ j \in Jobs /\ out[j] \in Seq(Audio) /\ Len(out[j]) \in Nat /\ Len(pending) \in Nat /\ n \in Nat
      /\ hold \in [Jobs -> Seq(Audio)] /\ out \in [Jobs -> Seq(Audio)]
  <2>1. j \in Jobs /\ out[j] \in Seq(Audio) /\ Len(out[j]) \in Nat
    BY AudioShape
  <2>2. Len(pending) \in Nat
    OBVIOUS
  <2>3. n \in Nat
    BY <2>2
  <2>4. hold \in [Jobs -> Seq(Audio)] /\ out \in [Jobs -> Seq(Audio)]
    BY DEF Typed, WorkersTypeOK
  <2> QED
    BY <2>1, <2>2, <2>3, <2>4
<1>2. out'[j] = out[j] \o SubSeq(pending, 1, n) /\ hold'[j] = SubSeq(pending, n + 1, Len(pending))
  BY <1>1 DEF Emits
<1>3. /\ Counts(SubSeq(pending, 1, n), Len(out[j])) /\ Len(SubSeq(pending, 1, n)) = n
      /\ Counts(SubSeq(pending, n + 1, Len(pending)), Len(out[j]) + n)
      /\ Len(SubSeq(pending, n + 1, Len(pending))) = Len(pending) - n
  BY <1>1, CountsSplit
<1>4. SubSeq(pending, 1, n) \in Seq(Audio)
  BY <1>1
<1>5. Counts(SubSeq(pending, 1, n), 0 + Len(out[j]))
  BY <1>1, <1>3
<1>6. Counts(out'[j], 0) /\ Len(out'[j]) = Len(out[j]) + n
  BY <1>1, <1>2, <1>3, <1>4, <1>5, CountsConcat
<1>7. Len(out'[j]) + Len(hold'[j]) = Len(out[j]) + Len(pending)
  <2>1. \A a, b \in Nat : \A m \in Nat : (a + m) + (b - m) = a + b
    OBVIOUS
  <2>2. Len(out'[j]) + Len(hold'[j]) = (Len(out[j]) + n) + (Len(pending) - n)
    BY <1>2, <1>3, <1>6
  <2> QED
    BY <1>1, <2>1, <2>2
<1> QED
  BY <1>2, <1>3, <1>6, <1>7

LEMMA StaysSent ==
  ASSUME NEW k \in Cast, SentOn(k), UNCHANGED cast,
         chan'[k] = chan[k] /\ hold'[k] = hold[k] /\ out'[k] = out[k] /\ source'[k] = source[k],
         failed'[k] \/ at'[k] # "ended" \/ (at'[k] = at[k] /\ failed'[k] = failed[k])
  PROVE  SentOn(k)'
<1>1. Kind(k)' = Kind(k)
  BY SameKeys
<1>2. Counted(k) => Counted(k)'
  BY DEF Counted, Counts, Sent
<1> QED
  BY <1>1, <1>2 DEF SentOn

\* The decoder of a file hands over one packet after the other.
LEMMA PacketSent ==
  ASSUME Typed, NEW j \in Cast, SentOn(j), ForwardPacket(j)
  PROVE  SentOn(j)'
<1>1. /\ j \in Jobs /\ hold[j] \in Seq(Audio) /\ Len(hold[j]) \in Nat /\ Len(out[j]) \in Nat
      /\ source \in [Jobs -> [at : {"decode", "send", "end", "error"}, n : 0 .. Length]]
      /\ source[j].n \in Nat /\ source[j].n \in 0 .. Length /\ Length \in Nat
      /\ chan \in [Jobs -> Channel]
  BY AudioShape DEF Typed, WorkersTypeOK, Channel
<1>2. /\ Kind(j) = "file" /\ UNCHANGED <<cast, at, failed, chan>> /\ at[j] = "run" /\ source[j].n < Length
      /\ source' = [source EXCEPT ![j].n = @ + 1]
  BY DEF ForwardPacket, control
<1>3. source[j].at = "decode" /\ source'[j].at = "decode" /\ source'[j].n = source[j].n + 1
  <2>1. source[j].at = "decode"
    BY <1>1, <1>2 DEF Typed, DecoderInv, Uploading
  <2> QED
    BY <1>1, <1>2, <2>1
<1>4. chan[j] = <<>> /\ Counted(j) /\ Len(chan[j]) = 0
  BY <1>2 DEF SentOn
<1>5. /\ Counts(out[j], 0) /\ Counts(hold[j], Len(out[j]))
      /\ Len(out[j]) + Len(hold[j]) = source[j].n
  <2>1. Counts(out[j], 0) /\ Counts(hold[j], Len(out[j]))
    BY <1>4 DEF Counted
  <2>2. Len(out[j]) + Len(hold[j]) + Len(chan[j]) = source[j].n
    BY <1>3, <1>4 DEF Counted, Sent
  <2>3. Len(out[j]) + Len(hold[j]) + 0 = source[j].n
    BY <1>4, <2>2
  <2>4. \A a, b \in Nat : a + b + 0 = a + b
    OBVIOUS
  <2> QED
    BY <1>1, <2>1, <2>3, <2>4
<1>6. source[j].n + 1 \in Audio
  BY <1>1, <1>2 DEF Audio
<1> DEFINE pending == Append(hold[j], source[j].n + 1)
<1>7. pending \in Seq(Audio) /\ Len(pending) = Len(hold[j]) + 1
  BY <1>1, <1>6
<1>8. Counts(pending, Len(out[j]))
  <2>1. source[j].n + 1 = Len(out[j]) + Len(hold[j]) + 1
    BY <1>5
  <2> QED
    BY <1>1, <1>5, <1>6, <2>1, CountsAppend
<1>9. Emits(j, pending, WholeFrames(pending))
  BY <1>3 DEF ForwardPacket
<1> HIDE DEF pending
<1>10. WholeFrames(pending) \in 0 .. Len(pending)
  BY <1>7, FramesFit
<1>11. /\ Counts(out'[j], 0) /\ Counts(hold'[j], Len(out'[j]))
       /\ Len(out'[j]) + Len(hold'[j]) = Len(out[j]) + Len(pending)
  BY <1>5, <1>7, <1>8, <1>9, <1>10, EmitsCounted
<1>12. Len(out'[j]) + Len(hold'[j]) = source[j].n + 1
  <2>1. \A a, b \in Nat : a + (b + 1) = (a + b) + 1
    OBVIOUS
  <2>2. Len(out'[j]) + Len(hold'[j]) = Len(out[j]) + (Len(hold[j]) + 1)
    BY <1>7, <1>11
  <2> QED
    BY <1>1, <1>5, <2>1, <2>2
<1>13. Kind(j)' = Kind(j)
  BY <1>2, SameKeys
<1>14. Counts(chan'[j], Len(out'[j]) + Len(hold'[j])) /\ Len(chan'[j]) = 0
  BY <1>2, <1>4 DEF Counts
<1>15. Counted(j)'
  <2>1. Len(out'[j]) + Len(hold'[j]) + Len(chan'[j]) = source[j].n + 1
    <3>1. \A a \in Nat : a + 0 = a
      OBVIOUS
    <3>2. source[j].n + 1 \in Nat
      BY <1>1
    <3> QED
      BY <1>12, <1>14, <3>1, <3>2
  <2>2. Sent(j)' = source[j].n + 1
    BY <1>3 DEF Sent
  <2> QED
    BY <1>11, <1>14, <2>1, <2>2 DEF Counted, Counts
<1> QED
  BY <1>2, <1>4, <1>13, <1>15 DEF SentOn

\* A capture that is told to stop, or whose file is over, sends what is pending.
LEMMA EndSent ==
  ASSUME Typed, NEW j \in Cast, SentOn(j), CaptureEnds(j)
  PROVE  SentOn(j)'
<1>1. /\ j \in Jobs /\ hold[j] \in Seq(Audio) /\ Len(hold[j]) \in Nat /\ Len(out[j]) \in Nat
      /\ hold \in [Jobs -> Seq(Audio)]
  BY AudioShape DEF Typed, WorkersTypeOK
<1>2. UNCHANGED <<cast, chan, source>> /\ Emits(j, hold[j], Len(hold[j]))
  BY DEF CaptureEnds
<1>3. Kind(j)' = Kind(j)
  BY <1>2, SameKeys
<1>4. hold'[j] = <<>>
  <2>1. hold'[j] = SubSeq(hold[j], Len(hold[j]) + 1, Len(hold[j]))
    BY <1>1, <1>2 DEF Emits
  <2> QED
    BY <1>1, <2>1
<1>5. ASSUME Kind(j) = "file" PROVE chan'[j] = <<>> /\ Counted(j)'
  <2>1. chan[j] = <<>> /\ Counted(j)
    BY <1>5 DEF SentOn
  <2>2. Counts(out[j], 0) /\ Counts(hold[j], Len(out[j])) /\ Len(out[j]) + Len(hold[j]) + Len(chan[j]) = Sent(j)
    BY <2>1 DEF Counted
  <2>3. Len(hold[j]) \in 0 .. Len(hold[j])
    BY <1>1
  <2>4. /\ Counts(out'[j], 0) /\ Counts(hold'[j], Len(out'[j]))
        /\ Len(out'[j]) + Len(hold'[j]) = Len(out[j]) + Len(hold[j])
    BY <1>1, <1>2, <2>2, <2>3, EmitsCounted
  <2>5. chan'[j] = <<>> /\ Sent(j)' = Sent(j)
    BY <1>2, <2>1 DEF Sent
  <2>6. Len(out'[j]) + Len(hold'[j]) + Len(chan'[j]) = Sent(j)'
    BY <1>2, <2>2, <2>4, <2>5
  <2>7. Counts(chan'[j], Len(out'[j]) + Len(hold'[j]))
    BY <2>5 DEF Counts
  <2> QED
    BY <2>4, <2>5, <2>6, <2>7 DEF Counted, Counts
<1> QED
  BY <1>3, <1>4, <1>5 DEF SentOn

LEMMA CaptureKept ==
  ASSUME KeysInv, FedInv, CaptureInv, [WorkersNext]_workersVars
  PROVE  CaptureInv'
<1>1. /\ Cast' = Cast /\ Cast \subseteq Jobs /\ cast' = cast /\ Typed
      /\ at \in [Jobs -> Places] /\ failed \in [Jobs -> BOOLEAN]
  BY CastKept, SameKeys, CastShape DEF KeysInv, Typed, WorkersTypeOK, Places
<1>2. SUFFICES ASSUME NEW k \in Cast, SentOn(k) PROVE SentOn(k)'
  BY <1>1 DEF CaptureInv
<1>3. CASE UNCHANGED workersVars
  BY <1>1, <1>2, <1>3, StaysSent DEF workersVars, control, work
<1>4. CASE Kind(k) \notin {"capture", "file"}
  <2>1. Kind(k)' \notin {"capture", "file"}
    BY <1>1, <1>4, SameKeys
  <2> QED
    BY <2>1 DEF SentOn
<1>5. ASSUME Outsider, Kind(k) \in {"capture", "file"} PROVE SentOn(k)'
  <2>1. UNCHANGED <<cast, at, failed, hold, out, source, found>> /\ chan'[k] = chan[k]
    BY <1>5, OutsiderAudio
  <2> QED
    BY <1>2, <2>1, StaysSent
<1>6. ASSUME NEW j \in Cast, Worker(j), j # k PROVE SentOn(k)'
  <2>1. Same(k)
    BY <1>1, <1>6, OthersSame
  <2> QED
    BY <1>2, <2>1, StaysSent DEF Same
<1>7. ASSUME Worker(k), Kind(k) \in {"capture", "file"} PROVE SentOn(k)'
  <2>1. CASE Starts(k) \/ Insert(k) \/ OpenInbox(k) \/ Unregister(k) \/ CloseInbox(k) \/ EmitFinal(k)
             \/ AnswerCall(k)
    <3>1. /\ UNCHANGED <<cast, failed, chan, hold, out, source>>
          /\ \E place \in {"checked", "refused", "warm", "inbox", "open", "unlisted", "free", "final"} :
               at' = [at EXCEPT ![k] = place]
      BY <2>1 DEF Starts, Start, StartDrain, StartUpload, StartRemoteSession, StartCapture,
         StartDecodeFile, StartBlocking, Check, Insert, OpenInbox, Unregister, CloseInbox, EmitFinal,
         AnswerCall, Goto, work
    <3>2. at'[k] # "ended"
      BY <1>1, <3>1
    <3> QED
      BY <1>2, <3>1, <3>2, StaysSent
  <2>2. CASE WarmUp(k) \/ OpenFile(k) \/ OpenMicrophone(k) \/ CaptureFails(k)
    <3>1. /\ UNCHANGED <<cast, chan, hold, out, source>>
          /\ \/ failed' = [failed EXCEPT ![k] = TRUE]
             \/ \E place \in {"open", "run"} : at' = [at EXCEPT ![k] = place]
      BY <2>2 DEF WarmUp, OpenFile, OpenMicrophone, CaptureFails, Ends, Fails, Goto, work
    <3>2. failed'[k] \/ at'[k] # "ended"
      BY <1>1, <3>1
    <3> QED
      BY <1>2, <3>1, <3>2, StaysSent
  <2>3. CASE ForwardPacket(k)
    BY <1>1, <1>2, <2>3, PacketSent
  <2>4. CASE CaptureEnds(k)
    BY <1>1, <1>2, <2>4, EndSent
  <2>5. CASE Callback(k) \/ ForwardBuffer(k)
    <3>1. Kind(k) = "capture" /\ at[k] = "run" /\ UNCHANGED <<cast, at>>
      BY <2>5 DEF Callback, ForwardBuffer, control
    <3>2. Kind(k)' = Kind(k)
      BY <3>1, SameKeys
    <3> QED
      BY <3>1, <3>2 DEF SentOn
  <2>6. CASE \/ (\E broken \in BOOLEAN : LiveEnds(k, broken) \/ RemoteEnds(k, broken))
             \/ Receive(k) \/ Seek(k) \/ Drain(k) \/ DrainEnds(k)
             \/ Take(k) \/ Work(k) \/ WorkStops(k) \/ Join(k) \/ Decoder(k)
    <3>1. ~Uploading(k)
      BY <1>7 DEF Uploading
    <3>2. FALSE
      BY <1>7, <2>6, <3>1 DEF LiveEnds, RemoteEnds, Receive, Seek, Drain, DrainEnds, DrainRuns,
         Take, Work, WorkStops, Join, Decoder, Decode, DecodeStops, Send, Decoding
    <3> QED
      BY <3>2
  <2> QED
    BY <1>7, <2>1, <2>2, <2>3, <2>4, <2>5, <2>6 DEF Worker, Thread, Breaks
<1> QED
  BY <1>3, <1>4, <1>5, <1>6, <1>7 DEF WorkersNext, Outsider, Worker

-----------------------------------------------------------------------------
(* The order of what goes through a job, whatever is dropped on the way.   *)

\* A sequence that is empty, or one buffer, is in order.
LEMMA ShortInOrder ==
  ASSUME NEW x
  PROVE  InOrder(<<>>) /\ InOrder(<<x>>)
BY DEF InOrder

\* What is appended to a sequence comes after what is in it.
LEMMA AppendInOrder ==
  ASSUME NEW s \in Seq(Audio), NEW x \in Audio, InOrder(s), UpTo(s, x - 1)
  PROVE  InOrder(Append(s, x)) /\ UpTo(Append(s, x), x)
<1>1. /\ DOMAIN s = 1 .. Len(s) /\ Len(s) \in Nat
      /\ DOMAIN Append(s, x) = 1 .. Len(s) + 1
      /\ \A i \in 1 .. Len(s) : Append(s, x)[i] = s[i] /\ s[i] \in Audio
      /\ Append(s, x)[Len(s) + 1] = x
  OBVIOUS
<1>2. \A i \in 1 .. Len(s) : s[i] < x
  <2>1. Length \in Nat
    BY WorkersAssumption
  <2>2. \A i \in 1 .. Len(s) : s[i] \in Int /\ s[i] <= x - 1
    BY <1>1, <2>1 DEF UpTo, Audio
  <2>3. x \in Int
    BY <2>1 DEF Audio
  <2> QED
    BY <2>2, <2>3
<1>3. x \in Int /\ \A i \in 1 .. Len(s) + 1 : i \in 1 .. Len(s) \/ i = Len(s) + 1
  BY <1>1, WorkersAssumption DEF Audio
<1>4. UpTo(Append(s, x), x)
  <2>1. \A i \in 1 .. Len(s) : s[i] \in Int /\ s[i] <= x
    BY <1>1, <1>2, <1>3, WorkersAssumption DEF Audio
  <2> QED
    BY <1>1, <1>3, <2>1 DEF UpTo
<1>5. InOrder(Append(s, x))
  <2> SUFFICES ASSUME NEW m \in 1 .. Len(s) + 1, NEW n \in 1 .. Len(s) + 1, m < n
               PROVE  Append(s, x)[m] < Append(s, x)[n]
    BY <1>1 DEF InOrder
  <2>1. m \in 1 .. Len(s)
    BY <1>1
  <2>2. CASE n = Len(s) + 1
    BY <1>1, <1>2, <2>1, <2>2
  <2>3. CASE n \in 1 .. Len(s)
    BY <1>1, <2>1, <2>3 DEF InOrder
  <2> QED
    BY <1>3, <2>2, <2>3
<1> QED
  BY <1>4, <1>5

LEMMA TailInOrder ==
  ASSUME NEW s \in Seq(Audio), s # <<>>, InOrder(s)
  PROVE  /\ InOrder(Tail(s)) /\ Ahead(<<Head(s)>>, Tail(s))
         /\ Head(s) \in Audio /\ Head(s) = s[1] /\ 1 \in DOMAIN s
         /\ \A i \in DOMAIN Tail(s) : i + 1 \in DOMAIN s /\ Tail(s)[i] = s[i + 1]
<1>1. /\ Len(s) \in Nat \ {0} /\ DOMAIN s = 1 .. Len(s) /\ DOMAIN Tail(s) = 1 .. Len(s) - 1
      /\ \A i \in 1 .. Len(s) - 1 : Tail(s)[i] = s[i + 1] /\ i + 1 \in 1 .. Len(s)
      /\ Head(s) = s[1] /\ Head(s) \in Audio /\ 1 \in 1 .. Len(s)
  OBVIOUS
<1>2. InOrder(Tail(s))
  BY <1>1 DEF InOrder
<1>3. Ahead(<<Head(s)>>, Tail(s))
  BY <1>1 DEF InOrder, Ahead
<1> QED
  BY <1>1, <1>2, <1>3

\* A part of a sequence in order is in order, and what is cut off comes after it.
LEMMA CutInOrder ==
  ASSUME NEW s \in Seq(Audio), InOrder(s), NEW n \in 0 .. Len(s)
  PROVE  /\ InOrder(SubSeq(s, 1, n)) /\ InOrder(SubSeq(s, n + 1, Len(s)))
         /\ Ahead(SubSeq(s, 1, n), SubSeq(s, n + 1, Len(s)))
         /\ \A i \in DOMAIN SubSeq(s, 1, n) : \E k \in DOMAIN s : SubSeq(s, 1, n)[i] = s[k]
         /\ \A i \in DOMAIN SubSeq(s, n + 1, Len(s)) :
              \E k \in DOMAIN s : SubSeq(s, n + 1, Len(s))[i] = s[k]
<1>1. Len(s) \in Nat /\ n \in Nat /\ DOMAIN s = 1 .. Len(s) /\ n <= Len(s)
  OBVIOUS
<1>2. /\ DOMAIN SubSeq(s, 1, n) = 1 .. n
      /\ \A i \in 1 .. n : SubSeq(s, 1, n)[i] = s[i] /\ i \in 1 .. Len(s)
  BY <1>1
<1>3. /\ DOMAIN SubSeq(s, n + 1, Len(s)) = 1 .. Len(s) - n
      /\ \A i \in 1 .. Len(s) - n : SubSeq(s, n + 1, Len(s))[i] = s[n + i] /\ n + i \in 1 .. Len(s)
  BY <1>1
<1>4. InOrder(SubSeq(s, 1, n))
  BY <1>1, <1>2 DEF InOrder
<1>5. InOrder(SubSeq(s, n + 1, Len(s)))
  BY <1>1, <1>3 DEF InOrder
<1>6. Ahead(SubSeq(s, 1, n), SubSeq(s, n + 1, Len(s)))
  <2>1. \A i \in 1 .. n, k \in 1 .. Len(s) - n : i < n + k
    BY <1>1
  <2> QED
    BY <1>1, <1>2, <1>3, <2>1 DEF InOrder, Ahead
<1> QED
  BY <1>1, <1>2, <1>3, <1>4, <1>5, <1>6

LEMMA ConcatInOrder ==
  ASSUME NEW s \in Seq(Audio), NEW t \in Seq(Audio), InOrder(s), InOrder(t), Ahead(s, t)
  PROVE  /\ InOrder(s \o t)
         /\ \A i \in DOMAIN (s \o t) : \/ \E k \in DOMAIN s : (s \o t)[i] = s[k]
                                       \/ \E k \in DOMAIN t : (s \o t)[i] = t[k]
<1>1. /\ Len(s) \in Nat /\ Len(t) \in Nat /\ DOMAIN s = 1 .. Len(s) /\ DOMAIN t = 1 .. Len(t)
      /\ DOMAIN (s \o t) = 1 .. Len(s) + Len(t)
  OBVIOUS
<1>2. \A i \in 1 .. Len(s) : (s \o t)[i] = s[i]
  BY <1>1
<1>3. \A i \in 1 .. Len(s) + Len(t) : i > Len(s) => (s \o t)[i] = t[i - Len(s)] /\ i - Len(s) \in 1 .. Len(t)
  BY <1>1
<1>4. \A i \in 1 .. Len(s) + Len(t) : i \in 1 .. Len(s) \/ i > Len(s)
  BY <1>1
<1>5. InOrder(s \o t)
  <2> SUFFICES ASSUME NEW m \in 1 .. Len(s) + Len(t), NEW n \in 1 .. Len(s) + Len(t), m < n
               PROVE  (s \o t)[m] < (s \o t)[n]
    BY <1>1 DEF InOrder
  <2>1. CASE n \in 1 .. Len(s)
    <3>1. m \in 1 .. Len(s)
      BY <1>1, <2>1
    <3> QED
      BY <1>1, <1>2, <2>1, <3>1 DEF InOrder
  <2>2. CASE m > Len(s)
    <3>1. n > Len(s) /\ m - Len(s) < n - Len(s)
      BY <1>1, <2>2
    <3> QED
      BY <1>1, <1>3, <2>2, <3>1 DEF InOrder
  <2>3. CASE m \in 1 .. Len(s) /\ n > Len(s)
    BY <1>1, <1>2, <1>3, <2>3 DEF Ahead
  <2> QED
    BY <1>4, <2>1, <2>2, <2>3
<1> QED
  BY <1>1, <1>2, <1>3, <1>4, <1>5

LEMMA AudioIsInt ==
  ASSUME NEW s \in Seq(Audio)
  PROVE  \A i \in DOMAIN s : s[i] \in Audio /\ s[i] \in Int
<1>1. Length \in Nat
  BY WorkersAssumption
<1> QED
  BY <1>1 DEF Audio

LEMMA AppendElements ==
  ASSUME NEW s \in Seq(Audio), NEW x \in Audio
  PROVE  \A i \in DOMAIN Append(s, x) : Append(s, x)[i] = x \/ \E k \in DOMAIN s : Append(s, x)[i] = s[k]
<1>1. /\ DOMAIN s = 1 .. Len(s) /\ Len(s) \in Nat /\ DOMAIN Append(s, x) = 1 .. Len(s) + 1
      /\ \A i \in 1 .. Len(s) : Append(s, x)[i] = s[i]
      /\ Append(s, x)[Len(s) + 1] = x
  OBVIOUS
<1>2. \A i \in 1 .. Len(s) + 1 : i \in 1 .. Len(s) \/ i = Len(s) + 1
  BY <1>1
<1> QED
  BY <1>1, <1>2

\* More is handed over.
LEMMA LineMore ==
  ASSUME NEW o \in Seq(Audio), NEW h \in Seq(Audio), NEW c \in Seq(Audio), NEW m \in Int, NEW n \in Int,
         Line(o, h, c, m), m <= n
  PROVE  Line(o, h, c, n)
<1>1. \A s \in Seq(Audio) : UpTo(s, m) => UpTo(s, n)
  BY AudioIsInt DEF UpTo
<1> QED
  BY <1>1 DEF Line

\* What is held is dropped.
LEMMA LineDrops ==
  ASSUME NEW o, NEW h, NEW c, NEW n, Line(o, h, c, n)
  PROVE  Line(o, <<>>, c, n)
BY DEF Line, InOrder, Ahead, UpTo

\* What was handed over last goes to the end of the channel.
LEMMA LineSends ==
  ASSUME NEW o \in Seq(Audio), NEW h \in Seq(Audio), NEW c \in Seq(Audio), NEW x \in Audio,
         Line(o, h, c, x - 1)
  PROVE  Line(o, h, Append(c, x), x)
<1>1. x \in Int
  BY WorkersAssumption DEF Audio
<1>2. InOrder(Append(c, x)) /\ UpTo(Append(c, x), x)
  BY AppendInOrder DEF Line
<1>3. UpTo(o, x) /\ UpTo(h, x)
  BY <1>1, AudioIsInt DEF Line, UpTo
<1>4. (\A i \in DOMAIN o : o[i] < x) /\ (\A i \in DOMAIN h : h[i] < x)
  BY <1>1, AudioIsInt DEF Line, UpTo
<1>5. Ahead(o, Append(c, x)) /\ Ahead(h, Append(c, x))
  BY <1>4, AppendElements DEF Line, Ahead
<1> QED
  BY <1>2, <1>3, <1>5 DEF Line

\* The first of the channel is taken in hand, where nothing was.
LEMMA LineTakes ==
  ASSUME NEW o \in Seq(Audio), NEW h, NEW c \in Seq(Audio), NEW n, c # <<>>, Line(o, h, c, n)
  PROVE  Line(o, <<Head(c)>>, Tail(c), n)
<1>1. /\ InOrder(Tail(c)) /\ Ahead(<<Head(c)>>, Tail(c))
      /\ Head(c) = c[1] /\ 1 \in DOMAIN c
      /\ \A i \in DOMAIN Tail(c) : i + 1 \in DOMAIN c /\ Tail(c)[i] = c[i + 1]
  BY TailInOrder DEF Line
<1>2. InOrder(<<Head(c)>>)
  BY ShortInOrder
<1>3. Ahead(o, <<Head(c)>>) /\ UpTo(<<Head(c)>>, n)
  BY <1>1 DEF Line, Ahead, UpTo
<1>4. Ahead(o, Tail(c)) /\ UpTo(Tail(c), n)
  BY <1>1 DEF Line, Ahead, UpTo
<1> QED
  BY <1>1, <1>2, <1>3, <1>4 DEF Line

\* What is in hand is through.
LEMMA LineDone ==
  ASSUME NEW o \in Seq(Audio), NEW h \in Seq(Audio), NEW c \in Seq(Audio), NEW n, h # <<>>,
         Line(o, h, c, n)
  PROVE  Line(Append(o, h[1]), <<>>, c, n)
<1>1. 1 \in DOMAIN h
  OBVIOUS
<1>2. h[1] \in Audio /\ h[1] \in Int
  BY <1>1, AudioIsInt
<1>3. UpTo(o, h[1] - 1)
  BY <1>1, <1>2, AudioIsInt DEF Line, Ahead, UpTo
<1>4. InOrder(Append(o, h[1]))
  BY <1>2, <1>3, AppendInOrder DEF Line
<1>5. \A i \in DOMAIN Append(o, h[1]) : \/ Append(o, h[1])[i] = h[1]
                                        \/ \E k \in DOMAIN o : Append(o, h[1])[i] = o[k]
  BY <1>2, AppendElements
<1>6. Ahead(Append(o, h[1]), c) /\ UpTo(Append(o, h[1]), n)
  BY <1>1, <1>5 DEF Line, Ahead, UpTo
<1> QED
  BY <1>4, <1>6 DEF Line, InOrder, Ahead, UpTo

\* The first of the channel joins what is pending.
LEMMA LinePending ==
  ASSUME NEW o \in Seq(Audio), NEW h \in Seq(Audio), NEW c \in Seq(Audio), NEW n, c # <<>>,
         Line(o, h, c, n)
  PROVE  Line(o, Append(h, Head(c)), Tail(c), n)
<1>1. Line(o, <<Head(c)>>, Tail(c), n)
  BY LineTakes
<1>2. Head(c) \in Audio /\ Head(c) = c[1] /\ 1 \in DOMAIN c /\ Head(c) \in Int
      /\ \A i \in DOMAIN Tail(c) : i + 1 \in DOMAIN c /\ Tail(c)[i] = c[i + 1]
  BY TailInOrder, AudioIsInt DEF Line
<1>3. UpTo(h, Head(c) - 1)
  BY <1>2, AudioIsInt DEF Line, Ahead, UpTo
<1>4. InOrder(Append(h, Head(c)))
  BY <1>2, <1>3, AppendInOrder DEF Line
<1>5. \A i \in DOMAIN Append(h, Head(c)) : \/ Append(h, Head(c))[i] = Head(c)
                                           \/ \E k \in DOMAIN h : Append(h, Head(c))[i] = h[k]
  BY <1>2, AppendElements
<1>6. Ahead(o, Append(h, Head(c)))
  BY <1>2, <1>5 DEF Line, Ahead
<1>7. UpTo(Append(h, Head(c)), n)
  BY <1>2, <1>5 DEF Line, UpTo
<1>8. Ahead(Append(h, Head(c)), Tail(c))
  <2>1. \A k \in DOMAIN Tail(c) : Head(c) < Tail(c)[k]
    BY <1>1 DEF Line, Ahead
  <2>2. \A i \in DOMAIN h, k \in DOMAIN Tail(c) : h[i] < Tail(c)[k]
    BY <1>2 DEF Line, Ahead
  <2> QED
    BY <1>5, <2>1, <2>2 DEF Ahead
<1> QED
  BY <1>1, <1>4, <1>6, <1>7, <1>8 DEF Line

\* A packet joins what is pending, where there is no channel.
LEMMA LinePacket ==
  ASSUME NEW o \in Seq(Audio), NEW h \in Seq(Audio), NEW x \in Audio, Line(o, h, <<>>, x - 1)
  PROVE  Line(o, Append(h, x), <<>>, x)
<1>1. <<>> \in Seq(Audio) /\ x \in Int
  BY WorkersAssumption DEF Audio
<1>2. InOrder(Append(h, x)) /\ UpTo(Append(h, x), x)
  BY AppendInOrder DEF Line
<1>3. UpTo(o, x) /\ \A i \in DOMAIN o : o[i] < x
  BY <1>1, AudioIsInt DEF Line, UpTo
<1>4. Ahead(o, Append(h, x))
  BY <1>3, AppendElements DEF Line, Ahead
<1> QED
  BY <1>2, <1>3, <1>4 DEF Line, InOrder, Ahead, UpTo

\* A drain is through with the chunk that it found next.
LEMMA LineChunk ==
  ASSUME NEW o \in Seq(Audio), NEW x \in Audio, Line(o, <<>>, <<>>, x - 1)
  PROVE  Line(Append(o, x), <<>>, <<>>, x)
<1>1. InOrder(Append(o, x)) /\ UpTo(Append(o, x), x)
  BY AppendInOrder DEF Line
<1> QED
  BY <1>1 DEF Line, InOrder, Ahead, UpTo

\* The first of what is pending are sent on.
LEMMA LineEmits ==
  ASSUME NEW o \in Seq(Audio), NEW h \in Seq(Audio), NEW c, NEW n, NEW k \in 0 .. Len(h),
         Line(o, h, c, n)
  PROVE  Line(o \o SubSeq(h, 1, k), SubSeq(h, k + 1, Len(h)), c, n)
<1> DEFINE a == SubSeq(h, 1, k)
           b == SubSeq(h, k + 1, Len(h))
<1>1. a \in Seq(Audio) /\ b \in Seq(Audio)
  OBVIOUS
<1>2. /\ InOrder(a) /\ InOrder(b) /\ Ahead(a, b)
      /\ \A i \in DOMAIN a : \E l \in DOMAIN h : a[i] = h[l]
      /\ \A i \in DOMAIN b : \E l \in DOMAIN h : b[i] = h[l]
  BY CutInOrder DEF Line
<1> HIDE DEF a, b
<1>3. Ahead(o, a) /\ Ahead(o, b) /\ Ahead(a, c) /\ Ahead(b, c) /\ UpTo(a, n) /\ UpTo(b, n)
  BY <1>2 DEF Line, Ahead, UpTo
<1>4. /\ InOrder(o \o a)
      /\ \A i \in DOMAIN (o \o a) : \/ \E l \in DOMAIN o : (o \o a)[i] = o[l]
                                    \/ \E l \in DOMAIN a : (o \o a)[i] = a[l]
  BY <1>1, <1>2, <1>3, ConcatInOrder DEF Line
<1>5. Ahead(o \o a, b)
  BY <1>2, <1>3, <1>4 DEF Ahead
<1>6. Ahead(o \o a, c) /\ UpTo(o \o a, n)
  BY <1>3, <1>4 DEF Line, Ahead, UpTo
<1>7. Line(o \o a, b, c, n)
  BY <1>2, <1>3, <1>4, <1>5, <1>6 DEF Line
<1> QED
  BY <1>7 DEF a, b

LEMMA SentIsCount ==
  ASSUME Typed, NEW j \in Cast
  PROVE  Sent(j) \in Int
BY AudioShape DEF Sent

LEMMA InLineNext ==
  ASSUME NEW j \in Cast, UNCHANGED cast, Kind(j) # "remote",
         Line(out'[j], hold'[j], chan'[j], Sent(j)'),
         Kind(j) = "drain" => hold'[j] = <<>> /\ chan'[j] = <<>>
  PROVE  InLine(j)'
<1>1. Kind(j)' = Kind(j)
  BY SameKeys
<1> QED
  BY <1>1 DEF InLine, Line, InOrder, Ahead, UpTo

\* A job that hands nothing on keeps its line.
LEMMA StaysInLine ==
  ASSUME Typed, NEW k \in Cast, InLine(k), UNCHANGED cast,
         Kind(k) # "remote" => chan'[k] = chan[k], hold'[k] = hold[k] \/ hold'[k] = <<>>,
         out'[k] = out[k], Sent(k)' \in Int, Sent(k) <= Sent(k)'
  PROVE  InLine(k)'
<1>1. Kind(k)' = Kind(k)
  BY SameKeys
<1>2. CASE Kind(k) = "remote"
  BY <1>1, <1>2 DEF InLine
<1>3. CASE Kind(k) # "remote"
  <2>1. out[k] \in Seq(Audio) /\ hold[k] \in Seq(Audio) /\ chan[k] \in Seq(Audio) /\ Sent(k) \in Int
    BY AudioShape, SentIsCount
  <2>2. Line(out[k], hold[k], chan[k], Sent(k))
    BY <1>3 DEF InLine
  <2>3. Line(out[k], hold[k], chan[k], Sent(k)')
    BY <2>1, <2>2, LineMore
  <2>4. Line(out[k], <<>>, chan[k], Sent(k)')
    BY <2>3, LineDrops
  <2>5. Line(out'[k], hold'[k], chan'[k], Sent(k)')
    BY <1>3, <2>3, <2>4
  <2>6. Kind(k) = "drain" => hold'[k] = <<>> /\ chan'[k] = <<>>
    BY <1>3 DEF InLine
  <2> QED
    BY <1>1, <1>3, <2>5, <2>6, InLineNext
<1> QED
  BY <1>2, <1>3

LEMMA WorkInLine ==
  ASSUME Typed, NEW j \in Cast, InLine(j), Decoder(j) \/ Take(j) \/ Work(j) \/ WorkStops(j)
  PROVE  InLine(j)'
<1>1. /\ j \in Jobs /\ Uploading(j) /\ Kind(j) \notin {"remote", "drain"}
      /\ out[j] \in Seq(Audio) /\ hold[j] \in Seq(Audio) /\ chan[j] \in Seq(Audio)
      /\ source[j].n \in 0 .. Length /\ Length \in Nat
      /\ source \in [Jobs -> [at : {"decode", "send", "end", "error"}, n : 0 .. Length]]
      /\ chan \in [Jobs -> Channel] /\ hold \in [Jobs -> Seq(Audio)] /\ out \in [Jobs -> Seq(Audio)]
  BY AudioShape DEF Typed, WorkersTypeOK, Channel, Uploading, Decoder, Decode, DecodeStops, Decoding,
     Send, Take, Work, WorkStops
<1>2. Line(out[j], hold[j], chan[j], Sent(j)) /\ Sent(j) \in Int
  BY <1>1, SentIsCount DEF InLine
<1>3. CASE Decode(j) \/ DecodeStops(j)
  <2>1. UNCHANGED <<cast, chan, hold, out>> /\ source[j].at = "decode"
    BY <1>3 DEF Decode, DecodeStops, Decoding, control
  <2>2. \/ source'[j] = [at |-> "send", n |-> source[j].n + 1]
        \/ source'[j].at # "send" /\ source'[j].n = source[j].n
    BY <1>1, <1>3 DEF Decode, DecodeStops
  <2>3. Sent(j)' = Sent(j)
    BY <1>1, <2>1, <2>2 DEF Sent
  <2> QED
    BY <1>2, <2>1, <2>3, StaysInLine
<1>4. CASE Send(j)
  <2>1. UNCHANGED <<cast, hold, out>> /\ source[j].at = "send" /\ source[j].n # 0
    BY <1>1, <1>4 DEF Send, control, Typed, DecoderInv
  <2>2. source[j].n \in Audio /\ Sent(j) = source[j].n - 1
    BY <1>1, <2>1 DEF Audio, Sent
  <2>3. chan'[j] = Append(chan[j], source[j].n) /\ Sent(j)' = source[j].n
    BY <1>1, <1>4 DEF Send, Sent
  <2>4. Line(out[j], hold[j], Append(chan[j], source[j].n), source[j].n)
    BY <1>1, <1>2, <2>2, LineSends
  <2> QED
    BY <1>1, <2>1, <2>3, <2>4, InLineNext
<1>5. CASE Take(j)
  <2>1. UNCHANGED <<cast, out, source>>
    BY <1>5 DEF Take
  <2>2. Sent(j)' = Sent(j)
    BY <2>1 DEF Sent
  <2>3. CASE UNCHANGED <<chan, hold>>
    BY <1>2, <2>1, <2>2, <2>3, StaysInLine
  <2>4. CASE /\ chan[j] # <<>> /\ hold' = [hold EXCEPT ![j] = <<Head(chan[j])>>]
             /\ chan' = [chan EXCEPT ![j] = Tail(@)]
    <3>1. hold'[j] = <<Head(chan[j])>> /\ chan'[j] = Tail(chan[j]) /\ out'[j] = out[j]
      BY <1>1, <2>1, <2>4
    <3>2. Line(out[j], <<Head(chan[j])>>, Tail(chan[j]), Sent(j))
      BY <1>1, <1>2, <2>4, LineTakes
    <3> QED
      BY <1>1, <2>1, <2>2, <3>1, <3>2, InLineNext
  <2> QED
    BY <1>5, <2>3, <2>4 DEF Take
<1>6. CASE Work(j) \/ WorkStops(j)
  <2>1. UNCHANGED <<cast, chan, source>> /\ hold' = [hold EXCEPT ![j] = <<>>] /\ at[j] = "work"
    BY <1>6 DEF Work, WorkStops
  <2>2. Sent(j)' = Sent(j) /\ hold'[j] = <<>> /\ hold[j] # <<>>
    BY <1>1, <2>1 DEF Sent, Typed, HandInv
  <2>3. CASE UNCHANGED out
    BY <1>2, <2>1, <2>2, <2>3, StaysInLine
  <2>4. CASE Through(j, hold[j][1])
    <3>1. out'[j] = Append(out[j], hold[j][1])
      BY <1>1, <2>4 DEF Through
    <3>2. Line(Append(out[j], hold[j][1]), <<>>, chan[j], Sent(j))
      BY <1>1, <1>2, <2>2, LineDone
    <3> QED
      BY <1>1, <2>1, <2>2, <3>1, <3>2, InLineNext
  <2> QED
    BY <1>6, <2>3, <2>4 DEF Work, WorkStops
<1> QED
  BY <1>3, <1>4, <1>5, <1>6 DEF Decoder

\* A drain goes on to a chunk beyond all it has taken.
LEMMA DrainInLine ==
  ASSUME Typed, NEW j \in Cast, InLine(j), Seek(j) \/ Drain(j)
  PROVE  InLine(j)'
<1>1. /\ j \in Jobs /\ out[j] \in Seq(Audio) /\ Id(j) \in Ids /\ disk \in [Ids -> SUBSET Audio]
      /\ source[j].n \in Nat /\ out \in [Jobs -> Seq(Audio)]
      /\ source \in [Jobs -> [at : {"decode", "send", "end", "error"}, n : 0 .. Length]]
  BY AudioShape, CastShape DEF Typed, WorkersTypeOK
<1>2. Kind(j) = "drain" /\ UNCHANGED <<cast, chan, hold>>
  BY DEF Seek, Drain, DrainRuns, control
<1>3. source[j].at = "decode" /\ Sent(j) = source[j].n
  BY <1>1, <1>2 DEF Typed, DecoderInv, Uploading, Sent
<1>4. CASE Seek(j)
  <2>1. PICK n : source' = [source EXCEPT ![j].n = n] /\ n \in Nat /\ source[j].n <= n
    <3>1. disk[Id(j)] \in SUBSET Audio /\ disk[Id(j)] # {}
      BY <1>1, <1>4 DEF Seek
    <3>2. Min(disk[Id(j)]) \in Nat
      BY <3>1, LowestChunk, WorkersAssumption DEF Audio
    <3> DEFINE next == IF Min(disk[Id(j)]) > NextSeq(j) THEN Min(disk[Id(j)]) - 1
                       ELSE IF source[j].n < Length THEN source[j].n + 1 ELSE source[j].n
    <3>3. next \in Nat /\ source[j].n <= next
      BY <1>1, <3>2, WorkersAssumption DEF NextSeq
    <3>4. source' = [source EXCEPT ![j].n = next]
      BY <1>4 DEF Seek
    <3> QED
      BY <3>3, <3>4
  <2>2. Sent(j)' = n
    BY <1>1, <1>3, <2>1 DEF Sent
  <2>3. UNCHANGED out
    BY <1>4 DEF Seek
  <2> QED
    BY <1>1, <1>2, <1>3, <2>1, <2>2, <2>3, StaysInLine
<1>5. CASE UNCHANGED <<source, out>>
  <2>1. Sent(j)' = Sent(j)
    BY <1>5 DEF Sent
  <2> QED
    BY <1>1, <1>2, <1>3, <1>5, <2>1, StaysInLine
<1>6. CASE NextSeq(j) \in disk[Id(j)] /\ Through(j, NextSeq(j)) /\ source' = [source EXCEPT ![j].n = @ + 1]
  <2>1. NextSeq(j) \in Audio
    BY <1>1, <1>6
  <2>2. out'[j] = Append(out[j], NextSeq(j)) /\ Sent(j)' = NextSeq(j) /\ Sent(j) = NextSeq(j) - 1
    BY <1>1, <1>3, <1>6 DEF Through, Sent, NextSeq
  <2>3. hold[j] = <<>> /\ chan[j] = <<>> /\ Line(out[j], <<>>, <<>>, NextSeq(j) - 1)
    BY <1>2, <2>2 DEF InLine
  <2>4. Line(Append(out[j], NextSeq(j)), <<>>, <<>>, NextSeq(j))
    BY <1>1, <2>1, <2>3, LineChunk
  <2> QED
    BY <1>2, <2>2, <2>3, <2>4, InLineNext
<1> QED
  BY <1>4, <1>5, <1>6 DEF Drain

\* A capture sends on what it took, frame by frame.
LEMMA CaptureInLine ==
  ASSUME Typed, NEW j \in Cast, InLine(j), SentOn(j),
         Callback(j) \/ ForwardBuffer(j) \/ ForwardPacket(j) \/ CaptureEnds(j)
  PROVE  InLine(j)'
<1>1. /\ j \in Jobs /\ Kind(j) \in {"capture", "file"}
      /\ out[j] \in Seq(Audio) /\ hold[j] \in Seq(Audio) /\ chan[j] \in Seq(Audio)
      /\ source[j].n \in Nat /\ source[j].n \in 0 .. Length /\ Length \in Nat
      /\ source \in [Jobs -> [at : {"decode", "send", "end", "error"}, n : 0 .. Length]]
      /\ chan \in [Jobs -> Channel] /\ hold \in [Jobs -> Seq(Audio)] /\ out \in [Jobs -> Seq(Audio)]
  <2>1. Kind(j) \in {"capture", "file"}
    BY DEF Callback, ForwardBuffer, ForwardPacket, CaptureEnds, Capturing
  <2> QED
    BY <2>1, AudioShape DEF Typed, WorkersTypeOK, Channel
<1>2. Line(out[j], hold[j], chan[j], Sent(j)) /\ Sent(j) \in Int /\ Sent(j) = source[j].n
  <2>1. source[j].at # "send"
    BY <1>1 DEF Typed, DecoderInv, Uploading
  <2> QED
    BY <1>1, <2>1, SentIsCount DEF InLine, Sent
<1>3. ASSUME NEW c \in Seq(Audio), NEW pending \in Seq(Audio), NEW n \in 0 .. Len(pending), NEW m,
             Line(out[j], pending, c, m), Emits(j, pending, n), chan'[j] = c, Sent(j)' = m, UNCHANGED cast
      PROVE  InLine(j)'
  <2>1. /\ out'[j] = out[j] \o SubSeq(pending, 1, n)
        /\ hold'[j] = SubSeq(pending, n + 1, Len(pending))
    BY <1>1, <1>3 DEF Emits
  <2>2. Line(out'[j], hold'[j], c, m)
    BY <1>1, <1>3, <2>1, LineEmits
  <2> QED
    BY <1>1, <1>3, <2>2, InLineNext
<1>4. CASE Callback(j)
  <2>1. UNCHANGED <<cast, hold, out>> /\ source' = [source EXCEPT ![j].n = @ + 1] /\ source[j].n < Length
    BY <1>4 DEF Callback, control
  <2>2. Sent(j)' = source[j].n + 1 /\ source'[j].n = source[j].n + 1
    <3>1. source[j].at # "send"
      BY <1>1 DEF Typed, DecoderInv, Uploading
    <3> QED
      BY <1>1, <2>1, <3>1 DEF Sent
  <2>3. CASE chan' = chan
    BY <1>1, <1>2, <2>1, <2>2, <2>3, StaysInLine
  <2>4. CASE chan' = [chan EXCEPT ![j] = Append(@, source'[j].n)]
    <3>1. chan'[j] = Append(chan[j], source[j].n + 1) /\ source[j].n + 1 \in Audio
      BY <1>1, <2>1, <2>2, <2>4 DEF Audio
    <3>2. (source[j].n + 1) - 1 = source[j].n
      BY <1>1
    <3>3. Line(out[j], hold[j], Append(chan[j], source[j].n + 1), source[j].n + 1)
      BY <1>1, <1>2, <3>1, <3>2, LineSends
    <3> QED
      BY <1>1, <2>1, <2>2, <3>1, <3>3, InLineNext
  <2> QED
    BY <1>4, <2>3, <2>4 DEF Callback
<1>5. CASE ForwardBuffer(j)
  <2>1. /\ UNCHANGED <<cast, source>> /\ chan[j] # <<>>
        /\ Emits(j, Append(hold[j], Head(chan[j])), WholeFrames(Append(hold[j], Head(chan[j]))))
        /\ chan' = [chan EXCEPT ![j] = Tail(@)]
    BY <1>5 DEF ForwardBuffer, control
  <2>2. chan'[j] = Tail(chan[j]) /\ Sent(j)' = Sent(j) /\ Tail(chan[j]) \in Seq(Audio)
    BY <1>1, <2>1 DEF Sent
  <2>3. Append(hold[j], Head(chan[j])) \in Seq(Audio)
    BY <1>1, <2>1
  <2>4. Line(out[j], Append(hold[j], Head(chan[j])), Tail(chan[j]), Sent(j))
    BY <1>1, <1>2, <2>1, LinePending
  <2>5. WholeFrames(Append(hold[j], Head(chan[j]))) \in 0 .. Len(Append(hold[j], Head(chan[j])))
    BY <2>3, FramesFit
  <2> QED
    BY <1>3, <2>1, <2>2, <2>3, <2>4, <2>5
<1>6. CASE ForwardPacket(j)
  <2>1. UNCHANGED <<cast, chan>> /\ Kind(j) = "file" /\ source[j].n < Length
        /\ source' = [source EXCEPT ![j].n = @ + 1]
        /\ Emits(j, Append(hold[j], source'[j].n), WholeFrames(Append(hold[j], source'[j].n)))
    BY <1>6 DEF ForwardPacket, control
  <2>2. source'[j].n = source[j].n + 1 /\ Sent(j)' = source[j].n + 1 /\ source[j].n + 1 \in Audio
    <3>1. source[j].at # "send"
      BY <1>1 DEF Typed, DecoderInv, Uploading
    <3> QED
      BY <1>1, <2>1, <3>1 DEF Sent, Audio
  <2>3. chan[j] = <<>> /\ chan'[j] = <<>> /\ (source[j].n + 1) - 1 = source[j].n
    BY <1>1, <2>1 DEF SentOn
  <2>4. Line(out[j], Append(hold[j], source[j].n + 1), <<>>, source[j].n + 1)
    BY <1>1, <1>2, <2>2, <2>3, LinePacket
  <2>5. Append(hold[j], source[j].n + 1) \in Seq(Audio)
    BY <1>1, <2>2
  <2>6. WholeFrames(Append(hold[j], source[j].n + 1)) \in 0 .. Len(Append(hold[j], source[j].n + 1))
    BY <2>5, FramesFit
  <2> QED
    BY <1>1, <1>3, <2>1, <2>2, <2>3, <2>4, <2>5, <2>6
<1>7. CASE CaptureEnds(j)
  <2>1. UNCHANGED <<cast, chan, source>> /\ Emits(j, hold[j], Len(hold[j]))
    BY <1>7 DEF CaptureEnds
  <2>2. chan'[j] = chan[j] /\ Sent(j)' = Sent(j)
    BY <2>1 DEF Sent
  <2>3. Len(hold[j]) \in 0 .. Len(hold[j])
    BY <1>1
  <2> QED
    BY <1>1, <1>2, <1>3, <2>1, <2>2, <2>3
<1> QED
  BY <1>4, <1>5, <1>6, <1>7

LEMMA LineKept ==
  ASSUME KeysInv, FedInv, CaptureInv, LineInv, [WorkersNext]_workersVars
  PROVE  LineInv'
<1>1. /\ Cast' = Cast /\ Cast \subseteq Jobs /\ cast' = cast /\ Typed
      /\ chan \in [Jobs -> Channel]
  BY CastKept, SameKeys, CastShape DEF KeysInv, Typed, WorkersTypeOK, Channel
<1>2. SUFFICES ASSUME NEW k \in Cast, InLine(k), SentOn(k) PROVE InLine(k)'
  BY <1>1 DEF LineInv, CaptureInv
<1>3. Sent(k) \in Int
  BY <1>1, SentIsCount
<1>4. ASSUME hold'[k] = hold[k] \/ hold'[k] = <<>>, out'[k] = out[k], source'[k] = source[k],
             Kind(k) # "remote" => chan'[k] = chan[k]
      PROVE  InLine(k)'
  <2>1. Sent(k)' = Sent(k)
    BY <1>4 DEF Sent
  <2> QED
    BY <1>1, <1>2, <1>3, <1>4, <2>1, StaysInLine
<1>5. CASE UNCHANGED workersVars
  BY <1>4, <1>5 DEF workersVars, work
<1>6. CASE Outsider
  BY <1>4, <1>6, OutsiderAudio
<1>7. ASSUME NEW j \in Cast, Worker(j), j # k PROVE InLine(k)'
  <2>1. Same(k)
    BY <1>1, <1>7, OthersSame
  <2> QED
    BY <1>4, <2>1 DEF Same
<1>8. CASE Worker(k)
  <2>1. CASE Starts(k) \/ Insert(k) \/ OpenInbox(k) \/ Unregister(k) \/ CloseInbox(k) \/ EmitFinal(k)
             \/ AnswerCall(k)
    BY <1>4, <2>1 DEF Starts, Start, StartDrain, StartUpload, StartRemoteSession, StartCapture,
       StartDecodeFile, StartBlocking, Check, Insert, OpenInbox, Unregister, CloseInbox, EmitFinal,
       AnswerCall, work
  <2>2. CASE \/ WarmUp(k) \/ OpenFile(k) \/ OpenMicrophone(k) \/ CaptureFails(k) \/ DrainEnds(k) \/ Join(k)
             \/ \E broken \in BOOLEAN : LiveEnds(k, broken)
    BY <1>4, <2>2 DEF WarmUp, OpenFile, OpenMicrophone, CaptureFails, DrainEnds, Join, LiveEnds, work
  <2>3. CASE Receive(k) \/ \E broken \in BOOLEAN : RemoteEnds(k, broken)
    BY <1>4, <2>3 DEF Receive, RemoteEnds
  <2>4. CASE Seek(k) \/ Drain(k)
    BY <1>1, <1>2, <2>4, DrainInLine
  <2>5. CASE Decoder(k) \/ Take(k) \/ Work(k) \/ WorkStops(k)
    BY <1>1, <1>2, <2>5, WorkInLine
  <2>6. CASE Callback(k) \/ ForwardBuffer(k) \/ ForwardPacket(k) \/ CaptureEnds(k)
    BY <1>1, <1>2, <2>6, CaptureInLine
  <2> QED
    BY <1>8, <2>1, <2>2, <2>3, <2>4, <2>5, <2>6 DEF Worker, Thread, Breaks
<1> QED
  BY <1>5, <1>6, <1>7, <1>8 DEF WorkersNext, Outsider, Worker

-----------------------------------------------------------------------------
(* The workers, whatever the jobs, the ids and the audio.                  *)

WorkersInv == KeysInv /\ FedInv /\ FoundInv /\ DrainInv /\ UploadInv /\ CaptureInv /\ LineInv

LEMMA WorkersBegin == WorkersInit => WorkersInv
<1> SUFFICES ASSUME WorkersInit PROVE WorkersInv
  OBVIOUS
<1>1. Typed
  BY InitTyped
<1>2. /\ Nil \notin Jobs \cup Ids /\ Cast \subseteq Jobs
      /\ \A j \in Cast : /\ j \in Jobs /\ Id(j) \in Ids /\ at[j] = "new" /\ failed[j] = FALSE
                         /\ chan[j] = <<>> /\ hold[j] = <<>> /\ out[j] = <<>> /\ found[j] = {}
                         /\ source[j].at = "decode" /\ source[j].n = 0
  <2>1. cast \in Casts
    BY DEF WorkersInit
  <2>2. \A j \in Cast : j \in Jobs /\ Id(j) \in Ids
    BY <2>1, CastShape
  <2> QED
    BY <2>2, JobsAssumption DEF WorkersInit
<1>3. Alone /\ HolderInv /\ SweepInv /\ FoundInv /\ DrainInv
  BY <1>2 DEF Alone, HolderInv, SweepInv, FoundInv, DrainInv, Over, Held
<1>4. InboxInv
  BY <1>2 DEF WorkersInit, InboxInv
<1>5. FedInv
  BY DEF WorkersInit, FedInv
<1>6. \A j \in Cast : Counted(j)
  <2> SUFFICES ASSUME NEW j \in Cast PROVE Counted(j)
    OBVIOUS
  <2>1. chan[j] = <<>> /\ hold[j] = <<>> /\ out[j] = <<>> /\ Sent(j) = 0
    BY <1>2 DEF Sent
  <2>2. Counts(<<>>, 0) /\ Len(<<>>) = 0 /\ 0 + 0 = 0
    BY DEF Counts
  <2> QED
    BY <2>1, <2>2 DEF Counted
<1>7. UploadInv /\ CaptureInv
  BY <1>2, <1>6 DEF UploadInv, Ready, CaptureInv, SentOn
<1>8. LineInv
  BY <1>2 DEF LineInv, InLine, Line, InOrder, Ahead, UpTo
<1> QED
  BY <1>1, <1>3, <1>4, <1>5, <1>7, <1>8 DEF WorkersInv, KeysInv

LEMMA WorkersGoOn ==
  ASSUME WorkersInv, [WorkersNext]_workersVars
  PROVE  WorkersInv'
BY KeysKept, FedKept, FoundKept, DrainKept, UploadKept, CaptureKept, LineKept DEF WorkersInv

LEMMA WorkersHold == WorkersSpec => []WorkersInv
<1>1. WorkersInit => WorkersInv
  BY WorkersBegin
<1>2. WorkersInv /\ [WorkersNext]_workersVars => WorkersInv'
  BY WorkersGoOn
<1> QED
  BY <1>1, <1>2, PTL DEF WorkersSpec

\* Every state of transcribe.rs's workers is well typed, among them: no channel
\* holds more than its capacity, and no worker goes on after the last failure it
\* is allowed.
THEOREM WorkersTypeCorrect == WorkersSpec => []WorkersTypeOK
<1>1. WorkersInv => WorkersTypeOK
  BY DEF WorkersInv, KeysInv, Typed
<1> QED
  BY <1>1, WorkersHold, PTL

\* Callers that wait for each other reach what runs: the maps hold it, so stop,
\* abort, pause and the peer's audio find it, although start looks into the map
\* before it enters, and a thread that ends removes whatever its key holds.
THEOREM RunningIsReachable == WorkersSpec => []Reachable
<1>1. WorkersInv => Reachable
  <2> SUFFICES ASSUME WorkersInv, NEW j \in Cast, Key(j) \notin raced,
                      at[j] \in {"warm", "open", "run", "work", "join"}
               PROVE  /\ MapOf(j) # "none" => holder[Key(j)] = j
                      /\ \A i \in Ids : inbox[i] = j => i = Id(j)
                      /\ Kind(j) = "remote" => inbox[Id(j)] \in {j, Nil}
    BY DEF Reachable
  <2>1. MapOf(j) # "none" => holder[Key(j)] = j
    <3>1. MapOf(j) # "none" => Kind(j) # "call"
      BY DEF MapOf
    <3> QED
      BY <3>1 DEF WorkersInv, KeysInv, HolderInv, Held
  <2>2. \A i \in Ids : inbox[i] = j => i = Id(j)
    BY DEF WorkersInv, KeysInv, InboxInv
  <2>3. Kind(j) = "remote" => inbox[Id(j)] \in {j, Nil}
    BY DEF WorkersInv, KeysInv, InboxInv
  <2> QED
    BY <2>1, <2>2, <2>3
<1> QED
  BY <1>1, WorkersHold, PTL

\* No chunk or buffer is skipped by a drain, an upload or a capture that ends
\* without an error but for a short tail, and none is gone through twice or out
\* of order, whatever is dropped on the way and however the job ends.
THEOREM AudioKept == WorkersSpec => []NothingSkipped
<1>1. WorkersInv => NothingSkipped
  <2> SUFFICES ASSUME WorkersInv, NEW j \in Cast, at[j] = "ended"
               PROVE  /\ InOrder(out[j])
                      /\ (Kind(j) = "drain" /\ "cancel" \notin flags[j] /\ Key(j) \notin raced) =>
                            found[j] \subseteq ToSet(out[j]) \cup disk[Id(j)]
                      /\ (Uploading(j) /\ ~failed[j] /\ "cancel" \notin flags[j]) =>
                            source[j].n >= Length - 1 /\ out[j] = [n \in 1 .. source[j].n |-> n]
                      /\ (Kind(j) \in {"capture", "file"} /\ ~failed[j]) =>
                            hold[j] = <<>> /\ (Kind(j) = "file" => out[j] = [n \in 1 .. source[j].n |-> n])
    BY DEF NothingSkipped, Uploading
  <2>1. /\ out[j] \in Seq(Audio) /\ Len(out[j]) \in Nat /\ source[j].n \in Nat /\ j \in Jobs
    <3>1. Typed
      BY DEF WorkersInv, KeysInv
    <3> QED
      BY <3>1, AudioShape
  <2>2. ASSUME NEW n \in Nat, Counts(out[j], 0), Len(out[j]) = n PROVE out[j] = [i \in 1 .. n |-> i]
    <3>1. out[j] = [i \in 1 .. Len(out[j]) |-> out[j][i]]
      BY <2>1
    <3>2. \A i \in 1 .. n : out[j][i] = i
      BY <2>2 DEF Counts
    <3> QED
      BY <2>2, <3>1, <3>2
  <2>3. (Kind(j) = "drain" /\ "cancel" \notin flags[j] /\ Key(j) \notin raced) =>
          found[j] \subseteq ToSet(out[j]) \cup disk[Id(j)]
    BY DEF WorkersInv, DrainInv
  <2>4. ASSUME Uploading(j), ~failed[j], "cancel" \notin flags[j]
        PROVE  source[j].n >= Length - 1 /\ out[j] = [n \in 1 .. source[j].n |-> n]
    <3>1. Ready(j)
      BY DEF WorkersInv, UploadInv
    <3>2. /\ Counted(j) /\ Len(hold[j]) = 0 /\ Len(chan[j]) = 0 /\ Sent(j) = source[j].n /\ source[j].n >= Length - 1
      BY <2>4, <3>1 DEF Ready, Sent
    <3>3. Counts(out[j], 0) /\ Len(out[j]) + 0 + 0 = source[j].n
      BY <3>2 DEF Counted
    <3>4. Len(out[j]) = source[j].n
      BY <2>1, <3>3
    <3> QED
      BY <2>1, <2>2, <3>2, <3>3, <3>4
  <2>5. ASSUME Kind(j) \in {"capture", "file"}, ~failed[j]
        PROVE  hold[j] = <<>> /\ (Kind(j) = "file" => out[j] = [n \in 1 .. source[j].n |-> n])
    <3>1. SentOn(j)
      BY DEF WorkersInv, CaptureInv
    <3>2. hold[j] = <<>>
      BY <2>5, <3>1 DEF SentOn
    <3>3. ASSUME Kind(j) = "file" PROVE out[j] = [n \in 1 .. source[j].n |-> n]
      <4>1. source[j].at = "decode"
        BY <2>1, <3>3 DEF WorkersInv, KeysInv, Typed, WorkersTypeOK, DecoderInv, Uploading
      <4>2. Counted(j) /\ Len(hold[j]) = 0 /\ Len(chan[j]) = 0 /\ Sent(j) = source[j].n
        BY <3>1, <3>2, <3>3, <4>1 DEF SentOn, Sent
      <4>3. Counts(out[j], 0) /\ Len(out[j]) + 0 + 0 = source[j].n
        BY <4>2 DEF Counted
      <4>4. Len(out[j]) = source[j].n
        BY <2>1, <4>3
      <4> QED
        BY <2>1, <2>2, <4>3, <4>4
    <3> QED
      BY <3>2, <3>3
  <2>6. InOrder(out[j])
    <3>1. InLine(j)
      BY DEF WorkersInv, LineInv
    <3> QED
      BY <3>1 DEF InLine, Line, InOrder
  <2> QED
    BY <2>3, <2>4, <2>5, <2>6
<1> QED
  BY <1>1, WorkersHold, PTL

=============================================================================
