---------------------------- MODULE FileTransfer ----------------------------
(***************************************************************************)
(* One file transfer between two devices (src/src/mesh-file.ts): the       *)
(* offer, the receiver's decision, the chunks that ride on a typed         *)
(* channel, and the degenerate file_send stream whose end tells the sender *)
(* how it went.  Ids are random, so transfers share nothing but the        *)
(* handlers' lifetime and one transfer stands for all.                     *)
(*                                                                         *)
(* RPC frames and channel frames travel independently, in any order, and   *)
(* may be lost: nothing in src/ says more about the external daemon.       *)
(***************************************************************************)
EXTENDS Naturals

CONSTANTS
  Chunks,   \* the number of chunks of the file
  Click,    \* the clicks on "Save as..." of the receiver's person
  None      \* no click

ASSUME ChunksAssumption == Chunks \in Nat \ {0}
ASSUME NoneAssumption == None \notin Click

VARIABLES
  sender,     \* sendFile: its stage, the chunks sent, how `settled` stands
  rpcs,       \* RPC frames under way, both directions
  wire,       \* chunks under way
  installed,  \* are the receiver's RPC handlers registered?
  offer,      \* inboundOffersPending and the promise handleOffer awaits
  accept,     \* accept[k]: where the acceptInboundFile of click k stands
  state,      \* state[k]: the InboundState that click k made
  active,     \* whose InboundState is in inboundActive
  listening,  \* is a handler subscribed to the chunk channel?
  assembly,   \* the assembly that the final chunk started
  written,    \* the whole file is at the path the person picked
  disturbed   \* something outside the protocol's control happened (history):
              \* a lost frame, a failed control request, a cancel, a teardown,
              \* an acceptance after the decision, or a final chunk that
              \* overtook file_send

vars == <<sender, rpcs, wire, installed, offer, accept, state, active,
          listening, assembly, written, disturbed>>
senderVars == <<sender>>
receiverVars == <<installed, offer, accept, state, active, listening,
                  assembly, written>>

Index == 0 .. Chunks - 1
Final == Chunks - 1
Frame == {"file_offer", "accepted", "declined", "file_send", "end_ok", "end_error"}
Fresh == [chunks |-> {}, stream |-> FALSE]
Idle == [of |-> None, stage |-> "none"]

TypeOK ==
  /\ sender \in [stage : {"idle", "offering", "opening", "pumping", "pumped", "threw"},
                 sent : 0 .. Chunks,
                 settled : {"open", "ok", "failed"},
                 cancelled : BOOLEAN,
                 subscribed : BOOLEAN]
  /\ rpcs \subseteq Frame
  /\ wire \subseteq Index
  /\ installed \in BOOLEAN
  /\ offer \in [pending : BOOLEAN, timer : BOOLEAN,
                answer : {"none", "accepted", "declined"}, replied : BOOLEAN]
  /\ accept \in [Click -> {"no", "dialog", "subscribing", "over"}]
  /\ state \in [Click -> [chunks : SUBSET Index, stream : BOOLEAN]]
  /\ active \in Click \cup {None}
  /\ listening \in BOOLEAN
  /\ assembly \in [of : Click \cup {None}, stage : {"none", "writing", "closing"}]
  /\ written \in BOOLEAN
  /\ disturbed \in BOOLEAN

Init ==
  /\ sender = [stage |-> "idle", sent |-> 0, settled |-> "open",
               cancelled |-> FALSE, subscribed |-> FALSE]
  /\ rpcs = {}
  /\ wire = {}
  /\ installed = TRUE
  /\ offer = [pending |-> FALSE, timer |-> FALSE, answer |-> "none", replied |-> FALSE]
  /\ accept = [k \in Click |-> "no"]
  /\ state = [k \in Click |-> Fresh]
  /\ active = None
  /\ listening = FALSE
  /\ assembly = Idle
  /\ written = FALSE
  /\ disturbed = FALSE

----------------------------------------------------------------------------
\* The sender.

\* A promise keeps the first outcome it is given.
Outcome(s, how) == IF s.settled = "open" THEN [s EXCEPT !.settled = how] ELSE s

\* sendFile up to its first await: the offer goes out.
Offer ==
  /\ sender.stage = "idle"
  /\ sender' = [sender EXCEPT !.stage = "offering"]
  /\ rpcs' = rpcs \cup {"file_offer"}
  /\ UNCHANGED <<wire, receiverVars, disturbed>>

\* Mutant of OfferAnswered: any reply is a yes.
OfferAnsweredAnyhow ==
  /\ sender.stage = "offering"
  /\ \E answer \in rpcs \cap {"accepted", "declined"} :
       /\ rpcs' = (rpcs \ {answer}) \cup {"file_send"}
       /\ sender' = [sender EXCEPT !.stage = "opening"]
  /\ UNCHANGED <<wire, receiverVars, disturbed>>

\* The reply to the offer: a decline throws; an acceptance opens the stream.
OfferAnswered ==
  /\ sender.stage = "offering"
  /\ \/ /\ "accepted" \in rpcs
        /\ rpcs' = (rpcs \ {"accepted"}) \cup {"file_send"}
        /\ sender' = [sender EXCEPT !.stage = "opening"]
     \/ /\ "declined" \in rpcs
        /\ rpcs' = rpcs \ {"declined"}
        /\ sender' = [sender EXCEPT !.stage = "threw"]
  /\ UNCHANGED <<wire, receiverVars, disturbed>>

\* callRpc throws because the decision took longer than the 30 s that the
\* control client waits for any answer; the offer stays open at the receiver.
AnswerTooSlow ==
  /\ sender.stage = "offering"
  /\ rpcs \cap {"accepted", "declined"} = {}
  /\ sender' = [sender EXCEPT !.stage = "threw"]
  /\ UNCHANGED <<rpcs, wire, receiverVars, disturbed>>

\* callRpc or callRpcStream throws because the control request failed.
CallFails ==
  /\ sender.stage \in {"offering", "opening"}
  /\ sender' = [sender EXCEPT !.stage = "threw"]
  /\ disturbed' = TRUE
  /\ UNCHANGED <<rpcs, wire, receiverVars>>

\* The daemon has named the stream; only now is the subscriber registered.  The
\* pump starts and sendFile returns.
StreamOpened ==
  /\ sender.stage = "opening"
  /\ sender' = [sender EXCEPT !.stage = "pumping", !.subscribed = TRUE]
  /\ UNCHANGED <<rpcs, wire, receiverVars, disturbed>>

\* One round of the chunk pump.  A failed send rejects `settled`, drops the
\* subscriber and ends the pump.
Pump ==
  /\ sender.stage = "pumping"
  /\ ~sender.cancelled
  /\ \/ /\ wire' = wire \cup {sender.sent}
        /\ sender' = [sender EXCEPT !.sent = @ + 1,
                        !.stage = IF sender.sent = Final THEN "pumped" ELSE @]
        /\ UNCHANGED disturbed
     \/ /\ sender' = [Outcome(sender, "failed") EXCEPT
                        !.stage = "pumped", !.subscribed = FALSE]
        /\ disturbed' = TRUE
        /\ wire' \in {wire, wire \cup {sender.sent}}
  /\ UNCHANGED <<rpcs, receiverVars>>

\* cancel: the receiver is not told, and `settled` stays as it is.
Cancel ==
  /\ sender.stage \in {"pumping", "pumped"}
  /\ ~sender.cancelled
  /\ sender' = [sender EXCEPT !.cancelled = TRUE, !.subscribed = FALSE,
                              !.stage = "pumped"]
  /\ disturbed' = TRUE
  /\ UNCHANGED <<rpcs, wire, receiverVars>>

\* An end frame finds the subscriber, or is dropped.
StreamEnded(frame) ==
  /\ frame \in rpcs \cap {"end_ok", "end_error"}
  /\ rpcs' = rpcs \ {frame}
  /\ sender' = IF sender.subscribed
               THEN [Outcome(sender, IF frame = "end_ok" THEN "ok" ELSE "failed")
                       EXCEPT !.subscribed = FALSE]
               ELSE sender
  /\ UNCHANGED <<wire, receiverVars, disturbed>>

----------------------------------------------------------------------------
\* The receiver.

\* An RPC frame that no handler waits for is answered with an error.
NoHandler ==
  /\ ~installed
  /\ \/ "file_offer" \in rpcs /\ rpcs' = (rpcs \ {"file_offer"}) \cup {"declined"}
     \/ "file_send" \in rpcs /\ rpcs' = (rpcs \ {"file_send"}) \cup {"end_error"}
  /\ UNCHANGED <<senderVars, wire, receiverVars, disturbed>>

\* handleOffer up to the decision.  A malformed or oversized offer is refused.
HandleOffer ==
  /\ installed
  /\ "file_offer" \in rpcs
  /\ \/ /\ rpcs' = rpcs \ {"file_offer"}
        /\ offer' = [offer EXCEPT !.pending = TRUE, !.timer = TRUE]
     \/ /\ rpcs' = (rpcs \ {"file_offer"}) \cup {"declined"}
        /\ UNCHANGED offer
  /\ UNCHANGED <<senderVars, wire, installed, accept, state, active, listening,
                 assembly, written, disturbed>>

\* pending.resolve(...) followed by inboundOffersPending.delete(id).
Decided(answer) ==
  [offer EXCEPT !.answer = IF @ = "none" THEN answer ELSE @, !.pending = FALSE]

\* declineInboundFile, and the 5-minute timer: both only if still pending.
Decline ==
  /\ offer.pending
  /\ offer' = Decided("declined")
  /\ UNCHANGED <<senderVars, rpcs, wire, installed, accept, state, active,
                 listening, assembly, written, disturbed>>

WindowCloses ==
  /\ offer.timer
  /\ offer' = [IF offer.pending THEN Decided("declined") ELSE offer EXCEPT !.timer = FALSE]
  /\ UNCHANGED <<senderVars, rpcs, wire, installed, accept, state, active,
                 listening, assembly, written, disturbed>>

\* handleOffer resumes with the decision and answers the sender.
Respond ==
  /\ offer.answer # "none"
  /\ ~offer.replied
  /\ offer' = [offer EXCEPT !.replied = TRUE]
  /\ rpcs' = rpcs \cup {offer.answer}
  /\ UNCHANGED <<senderVars, wire, installed, accept, state, active, listening,
                 assembly, written, disturbed>>

\* acceptInboundFile up to the save dialog; the offer stays pending.
AcceptClicked(k) ==
  /\ accept[k] = "no"
  /\ offer.pending
  /\ accept' = [accept EXCEPT ![k] = "dialog"]
  /\ UNCHANGED <<senderVars, rpcs, wire, installed, offer, state, active,
                 listening, assembly, written, disturbed>>

\* The dialog returns a path (the handler subscribes), or no path.
DialogCloses(k) ==
  /\ accept[k] = "dialog"
  /\ \/ /\ accept' = [accept EXCEPT ![k] = "subscribing"]
        /\ listening' = TRUE
        /\ UNCHANGED offer
     \/ /\ accept' = [accept EXCEPT ![k] = "over"]
        /\ offer' = Decided("declined")
        /\ UNCHANGED listening
  /\ UNCHANGED <<senderVars, rpcs, wire, installed, state, active, assembly,
                 written, disturbed>>

\* Mutant of Subscribed: the sender hears yes, the state is never set up.
SubscribedRepliesFirst(k) ==
  /\ accept[k] = "subscribing"
  /\ accept' = [accept EXCEPT ![k] = "over"]
  /\ offer' = Decided("accepted")
  /\ disturbed' = (disturbed \/ offer.answer # "none")
  /\ UNCHANGED <<senderVars, rpcs, wire, installed, state, active, listening,
                 assembly, written>>

\* The subscription is confirmed: the state is in place before the sender can
\* hear yes.  Nothing looks again whether the offer is still pending.
Subscribed(k) ==
  /\ accept[k] = "subscribing"
  /\ accept' = [accept EXCEPT ![k] = "over"]
  /\ state' = [state EXCEPT ![k] = Fresh]
  /\ active' = k
  /\ offer' = Decided("accepted")
  /\ disturbed' = (disturbed \/ offer.answer # "none")
  /\ UNCHANGED <<senderVars, rpcs, wire, installed, listening, assembly, written>>

\* subscribeChannel throws: the acceptance ends, the handler stays, and the
\* offer stays pending until its window closes.
SubscribeFails(k) ==
  /\ accept[k] = "subscribing"
  /\ accept' = [accept EXCEPT ![k] = "over"]
  /\ disturbed' = TRUE
  /\ UNCHANGED <<senderVars, rpcs, wire, installed, offer, state, active,
                 listening, assembly, written>>

\* handleSendStream.
HandleSendStream ==
  /\ installed
  /\ "file_send" \in rpcs
  /\ IF active # None
     THEN /\ state' = [state EXCEPT ![active].stream = TRUE]
          /\ rpcs' = rpcs \ {"file_send"}
     ELSE /\ rpcs' = (rpcs \ {"file_send"}) \cup {"end_error"}
          /\ UNCHANGED state
  /\ UNCHANGED <<senderVars, wire, installed, offer, accept, active, listening,
                 assembly, written, disturbed>>

\* streamRpcEnd, if the sender's stream is known by now.  When it throws for
\* a success, the catch block reports an error for the same file.
End(k, frame) ==
  IF state[k].stream
  THEN \/ rpcs' = rpcs \cup {frame} /\ UNCHANGED disturbed
       \/ rpcs' \in {rpcs, rpcs \cup {"end_error"}} /\ disturbed' = TRUE
  ELSE disturbed' = TRUE /\ UNCHANGED rpcs

\* The file is whole when the final chunk is in.
Whole(chunks) == chunks = Index

\* handleChunk: stores the chunk; the final one starts the assembly, which
\* fails at once if a chunk is missing.
HandleChunk(i) ==
  /\ i \in wire
  /\ wire' = wire \ {i}
  /\ IF listening /\ active # None
     THEN LET got == state[active].chunks \cup {i} IN
          /\ state' = [state EXCEPT ![active].chunks = got]
          /\ IF i # Final
             THEN UNCHANGED <<assembly, rpcs, disturbed>>
             ELSE IF Whole(got)
             THEN /\ assembly' = [of |-> active, stage |-> "writing"]
                  /\ UNCHANGED <<rpcs, disturbed>>
             ELSE /\ assembly' = [of |-> active, stage |-> "closing"]
                  /\ End(active, "end_error")
     ELSE UNCHANGED <<state, assembly, rpcs, disturbed>>
  /\ UNCHANGED <<senderVars, installed, offer, accept, active, listening, written>>

\* Mutant of Written: the end of the stream does not wait for the disk.
WrittenEndsFirst ==
  /\ assembly.stage = "writing"
  /\ assembly' = [assembly EXCEPT !.stage = "closing"]
  /\ written' \in {TRUE, written}
  /\ End(assembly.of, "end_ok")
  /\ UNCHANGED <<senderVars, wire, installed, offer, accept, state, active, listening>>

\* Mutant of Written: the hash is verified after the write.
WrittenThenVerified ==
  /\ assembly.stage = "writing"
  /\ assembly' = [assembly EXCEPT !.stage = "closing"]
  /\ written' = TRUE
  /\ End(assembly.of, "end_ok") \/ End(assembly.of, "end_error")
  /\ UNCHANGED <<senderVars, wire, installed, offer, accept, state, active, listening>>

\* The hash matches and the file is written, or an error ends the assembly.
\* The sender's stream is looked up only now.
Written ==
  /\ assembly.stage = "writing"
  /\ assembly' = [assembly EXCEPT !.stage = "closing"]
  /\ \/ written' = TRUE /\ End(assembly.of, "end_ok")
     \/ UNCHANGED written /\ End(assembly.of, "end_error")
  /\ UNCHANGED <<senderVars, wire, installed, offer, accept, state, active, listening>>

\* Mutant of Close: the transfer is unsubscribed but not forgotten.
CloseKeepsState ==
  /\ assembly.stage = "closing"
  /\ assembly' = Idle
  /\ listening' = FALSE
  /\ UNCHANGED <<senderVars, rpcs, wire, installed, offer, accept, state,
                 active, written, disturbed>>

\* The finally block: unsubscribe, then forget the transfer, whoever's it is.
Close ==
  /\ assembly.stage = "closing"
  /\ assembly' = Idle
  /\ listening' = FALSE
  /\ active' = None
  /\ UNCHANGED <<senderVars, rpcs, wire, installed, offer, accept, state,
                 written, disturbed>>

\* The release function of installFileHandlers: pending offers are forgotten
\* without an answer.
Teardown ==
  /\ installed
  /\ installed' = FALSE
  /\ offer' = [offer EXCEPT !.pending = FALSE]
  /\ active' = None
  /\ listening' = (listening /\ active = None)
  /\ disturbed' = TRUE
  /\ UNCHANGED <<senderVars, rpcs, wire, accept, state, assembly, written>>

Install ==
  /\ ~installed
  /\ installed' = TRUE
  /\ UNCHANGED <<senderVars, rpcs, wire, offer, accept, state, active,
                 listening, assembly, written, disturbed>>

----------------------------------------------------------------------------
\* The daemons and the link between the devices.

\* An error end of the daemon's own, when it notices that the peer is gone.
LinkBreaks ==
  /\ sender.subscribed
  /\ "end_error" \notin rpcs
  /\ rpcs' = rpcs \cup {"end_error"}
  /\ disturbed' = TRUE
  /\ UNCHANGED <<senderVars, wire, receiverVars>>

Lose ==
  /\ \/ \E frame \in rpcs : rpcs' = rpcs \ {frame} /\ UNCHANGED wire
     \/ \E i \in wire : wire' = wire \ {i} /\ UNCHANGED rpcs
  /\ disturbed' = TRUE
  /\ UNCHANGED <<senderVars, receiverVars>>

----------------------------------------------------------------------------
Sending ==
  \/ OfferAnswered \/ StreamOpened \/ Pump
  \/ \E frame \in Frame : StreamEnded(frame)

Receiving ==
  \/ HandleOffer \/ Respond \/ HandleSendStream \/ NoHandler
  \/ \E k \in Click : Subscribed(k)
  \/ \E i \in Index : HandleChunk(i)
  \/ Written \/ Close

Person ==
  \/ Offer \/ Cancel \/ Decline
  \/ \E k \in Click : AcceptClicked(k) \/ DialogCloses(k)

Trouble ==
  \/ CallFails \/ AnswerTooSlow \/ WindowCloses \/ Teardown \/ Install \/ LinkBreaks \/ Lose
  \/ \E k \in Click : SubscribeFails(k)

Next == Sending \/ Receiving \/ Person \/ Trouble

\* The event loops run and undisturbed frames arrive.  Nothing obliges a
\* person to decide or to close a dialog.
Fairness ==
  /\ WF_vars(OfferAnswered) /\ WF_vars(StreamOpened) /\ WF_vars(Pump)
  /\ \A frame \in Frame : WF_vars(StreamEnded(frame))
  /\ WF_vars(HandleOffer) /\ WF_vars(Respond) /\ WF_vars(HandleSendStream)
  /\ \A k \in Click : WF_vars(Subscribed(k))
  /\ \A i \in Index : WF_vars(HandleChunk(i))
  /\ WF_vars(Written) /\ WF_vars(Close)

Spec == Init /\ [][Next]_vars /\ Fairness

----------------------------------------------------------------------------
(***************************************************************************)
(* Properties.                                                             *)
(***************************************************************************)

\* `settled` resolves only for a file that arrived, whatever was lost, torn
\* down, accepted twice or reported by a failing handler.
SuccessIsTrue == sender.settled = "ok" => written

\* When nothing disturbed the transfer, a failure is the truth as well.
FailureIsTrue == sender.settled = "failed" /\ ~disturbed => ~written

\* A file lands on the receiver's disk only if the sender was told yes: a
\* decision that lost against the timer or against another dialog writes
\* nothing.
WrittenOnlyIfAccepted == written => offer.answer = "accepted"

\* The receiver listens before the sender can hear yes, so no chunk arrives
\* before its state does: undisturbed, every chunk that was sent is under way
\* or recorded, until the final chunk ends the transfer.
Recorded(i) == \E k \in Click : i \in state[k].chunks

NoChunkMissed ==
  disturbed \/ Recorded(Final) \/
    \A i \in 0 .. sender.sent - 1 : i \in wire \/ Recorded(i)

\* An undisturbed accepted transfer comes to an end on both sides: `settled`
\* settles and the receiver forgets the transfer.  A sender that gave up waiting
\* for the decision leaves the receiver waiting, and a final chunk that overtakes
\* file_send (which counts as disturbed) leaves `settled` open.  No
\* caller is told: sendFile does not await `settled`, against its comment
\* (mesh-file.ts:197-202).
TransferEnds ==
  offer.answer = "accepted" ~>
    \/ disturbed
    \/ sender.stage = "threw"
    \/ sender.settled # "open" /\ active = None
=============================================================================
