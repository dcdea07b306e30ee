-------------------------- MODULE TranscribeSession --------------------------
(***************************************************************************)
(* One live transcription session of src/src-tauri/src/transcribe.rs: the  *)
(* audio callback of the microphone (or the feed of a remote peer), the    *)
(* bounded queue, the streaming decode loop, the recorder, the commands    *)
(* that pause, stop and abort the session.                                 *)
(*                                                                         *)
(* Audio is the sequence of buffers 1, 2, ... the source delivers.  What a *)
(* buffer sounds like and what the recogniser makes of it are choices;     *)
(* text is known by the buffers it was decoded from, a word for each.      *)
(* Speaker names, times and perf counters are left out.                    *)
(***************************************************************************)
EXTENDS Integers, Sequences, FiniteSets, FiniteSetsExt, SequencesExt

CONSTANTS
  Buffers,     \* how many buffers the source delivers (a bound)
  QueueSize,   \* capacity of the inference queue
  Hop,         \* buffers that make a decode hop
  Window,      \* buffers the context window holds
  Silence,     \* quiet hops that end an utterance (endpoint_silence_ms)
  ErrorLimit   \* ASR_CONSECUTIVE_ERROR_LIMIT

ASSUME BoundsAssumption ==
  /\ {Buffers, QueueSize, Hop, Window, Silence, ErrorLimit} \subseteq Nat \ {0}
  /\ Hop <= Window

Buffer == 1..Buffers

VARIABLES
  source,      \* "mic" or "peer": where the audio comes from
  flags,       \* the session's atomics [cancel, paused, draining]
  inbox,       \* the queue still has a sender
  cb,          \* the audio callback [at, buf]
  next,        \* the next buffer the source delivers
  queue,       \* the inference queue
  recorder,    \* what the recorder was handed, and whether it still writes
  loop,        \* where the session thread is
  win,         \* buffers in the StreamWindow
  fresh,       \* new_samples, in buffers
  gate,        \* the HopGate [silero, speech, quiet]: which detector decides,
               \* whether it saw speech, quiet hops since
  utt,         \* [id, agreed]: cur_seg_id and the buffers behind its tokens
  nextId,      \* next_seg_id
  errors,      \* consecutive_errors
  ids,         \* [shown, final]: segment ids sent as partial and as final
  heard,       \* buffers decoded or judged silent (history)
  written,     \* buffers behind final segments (history)
  pushed,      \* buffers the loop put in its window (history)
  late         \* buffers queued after Stop (history)

audio == <<inbox, cb, next, queue, recorder, late>>
asr == <<win, fresh, gate, utt, nextId, errors, ids, heard, written, pushed>>
vars == <<source, flags, audio, loop, asr>>

Ended == {"failed", "done", "final"}

TypeOK ==
  /\ source \in {"mic", "peer"}
  /\ flags \in [cancel : BOOLEAN, paused : BOOLEAN, draining : BOOLEAN]
  /\ inbox \in BOOLEAN
  /\ cb \in [at : {"idle", "passed", "recorded"}, buf : 0..Buffers]
  /\ next \in 1..Buffers + 1
  /\ queue \in BoundedSeq(Buffer, QueueSize)
  /\ recorder \in [captured : SUBSET Buffer, blocks : SUBSET Buffer, open : BOOLEAN]
  /\ loop \in {"starting", "top", "recv", "hop", "flush", "teardown", "finish"} \cup Ended
  /\ win \subseteq Buffer /\ Cardinality(win) <= Window
  /\ fresh \in 0..Hop
  /\ gate \in [silero : BOOLEAN, speech : BOOLEAN, quiet : 0..Silence - 1]
  /\ utt \in [id : 0..2 * Buffers, agreed : SUBSET Buffer]
  /\ nextId \in 1..2 * Buffers + 1
  /\ errors \in 0..ErrorLimit
  /\ ids \in [shown : SUBSET (1..2 * Buffers), final : SUBSET (1..2 * Buffers)]
  /\ {heard, written, pushed, late} \subseteq SUBSET Buffer

NoUtterance == [id |-> 0, agreed |-> {}]

\* HopGate.reset: a detector that heard nothing yet.
Reset(silero) == [silero |-> silero, speech |-> FALSE, quiet |-> 0]

Init ==
  /\ source \in {"mic", "peer"}
  /\ flags = [cancel |-> FALSE, paused |-> FALSE, draining |-> FALSE]
  /\ inbox = TRUE
  /\ cb = [at |-> "idle", buf |-> 0]
  /\ next = 1
  /\ queue = <<>>
  /\ recorder = [captured |-> {}, blocks |-> {}, open |-> TRUE]
  /\ loop = "starting"
  /\ win = {} /\ fresh = 0
  /\ gate \in {Reset(silero) : silero \in BOOLEAN}
  /\ utt = NoUtterance
  /\ nextId = 1
  /\ errors = 0
  /\ ids = [shown |-> {}, final |-> {}]
  /\ heard = {} /\ written = {} /\ pushed = {} /\ late = {}

----------------------------------------------------------------------------
\* The microphone.  It delivers buffers from stream.play until the stream is
\* dropped; when it breaks it just delivers no more.

MicOpen == source = "mic" /\ loop \in {"top", "recv", "hop", "flush", "teardown"}

\* The callback looks at the three flags once.
CallbackStarts ==
  /\ MicOpen
  /\ cb.at = "idle"
  /\ next <= Buffers
  /\ next' = next + 1
  /\ IF flags.cancel \/ flags.paused \/ flags.draining
     THEN UNCHANGED <<cb, recorder>>
     ELSE /\ cb' = [at |-> "passed", buf |-> next]
          /\ recorder' = [recorder EXCEPT !.captured = @ \cup {next}]
  /\ UNCHANGED <<source, flags, inbox, queue, late, loop, asr>>

\* Record first, and without loss.
CallbackRecords ==
  /\ cb.at = "passed"
  /\ cb' = [cb EXCEPT !.at = "recorded"]
  /\ recorder' = IF recorder.open
                 THEN [recorder EXCEPT !.blocks = @ \cup {cb.buf}] ELSE recorder
  /\ UNCHANGED <<source, flags, inbox, next, queue, late, loop, asr>>

\* try_send: a full queue drops the buffer.
CallbackQueues ==
  /\ cb.at = "recorded"
  /\ cb' = [at |-> "idle", buf |-> 0]
  /\ queue' = IF Len(queue) < QueueSize THEN Append(queue, cb.buf) ELSE queue
  /\ late' = IF flags.draining THEN late \cup {cb.buf} ELSE late
  /\ UNCHANGED <<source, flags, inbox, next, recorder, loop, asr>>

\* feed_remote_audio: a full queue makes the peer's feed wait; without a
\* receiver the send fails.
Feed ==
  /\ source = "peer"
  /\ inbox
  /\ loop \in {"starting", "top", "recv", "hop", "flush"}
  /\ next <= Buffers
  /\ Len(queue) < QueueSize
  /\ queue' = Append(queue, next)
  /\ next' = next + 1
  /\ UNCHANGED <<source, flags, inbox, cb, recorder, late, loop, asr>>

\* end_remote_audio drops the sender ...
FeedEnds ==
  /\ source = "peer"
  /\ inbox
  /\ inbox' = FALSE
  /\ UNCHANGED <<source, flags, cb, next, queue, recorder, late, loop, asr>>

\* ... and then cancels the session if it still runs.
FeedEndCancels ==
  /\ source = "peer"
  /\ ~inbox /\ ~flags.cancel
  /\ loop \notin Ended
  /\ flags' = [flags EXCEPT !.cancel = TRUE]
  /\ UNCHANGED <<source, audio, loop, asr>>

----------------------------------------------------------------------------
\* The commands of the person; they do nothing once the session is gone.

Running == source = "mic" /\ loop \notin Ended

Pause ==
  /\ Running /\ ~flags.paused
  /\ flags' = [flags EXCEPT !.paused = TRUE]
  /\ UNCHANGED <<source, audio, loop, asr>>

Unpause ==
  /\ Running /\ flags.paused
  /\ flags' = [flags EXCEPT !.paused = FALSE]
  /\ UNCHANGED <<source, audio, loop, asr>>

Stop ==
  /\ Running /\ ~flags.draining
  /\ flags' = [flags EXCEPT !.draining = TRUE]
  /\ UNCHANGED <<source, audio, loop, asr>>

\* abort sets both flags, draining first; abort_all does so the other way
\* round for every session when the program exits.
Abort ==
  /\ Running /\ ~flags.cancel
  /\ flags' = [flags EXCEPT !.draining = TRUE, !.cancel = TRUE]
  /\ UNCHANGED <<source, audio, loop, asr>>

----------------------------------------------------------------------------
\* The session thread.

\* run_session up to stream.play; building the backends or opening the
\* microphone may fail, and then the session ends with an error.
Begin ==
  /\ loop = "starting"
  /\ loop' \in {"top", "failed"}
  /\ UNCHANGED <<source, flags, audio, asr>>

\* Mutant of Top: a graceful stop ends the loop whatever is still queued.
TopForgetsBacklog ==
  /\ loop = "top"
  /\ loop' = IF flags.cancel \/ (source = "mic" /\ flags.draining)
             THEN "flush" ELSE "recv"
  /\ UNCHANGED <<source, flags, audio, asr>>

\* The head of the loop: a hard abort leaves at once, a graceful stop when
\* nothing is queued.  A remote session is given a drain flag of its own
\* that nobody sets.
Top ==
  /\ loop = "top"
  /\ loop' = IF \/ flags.cancel
                \/ source = "mic" /\ flags.draining /\ queue = <<>>
             THEN "flush" ELSE "recv"
  /\ UNCHANGED <<source, flags, audio, asr>>

\* StreamWindow.push: the oldest buffer spills when the window is full.
Pushed(w, b) == IF Cardinality(w) < Window THEN w \cup {b}
                ELSE (w \ {Min(w)}) \cup {b}

\* Mutant of Receive: the loop waits for audio without a timeout.
ReceiveBlocks ==
  /\ loop = "recv"
  /\ queue # <<>>
  /\ queue' = Tail(queue)
  /\ IF flags.paused
     THEN loop' = "top" /\ UNCHANGED <<win, fresh, pushed>>
     ELSE /\ pushed' = pushed \cup {Head(queue)}
          /\ win' = Pushed(win, Head(queue))
          /\ fresh' = IF fresh + 1 < Hop THEN fresh + 1 ELSE 0
          /\ loop' = IF fresh + 1 < Hop THEN "top" ELSE "hop"
  /\ UNCHANGED <<source, flags, inbox, cb, next, recorder, late, gate,
                 utt, nextId, errors, ids, heard, written>>

\* recv_timeout: a buffer, a timeout, or no sender any more.  A paused
\* session throws away what it takes; a full hop goes on to be decoded.
Receive ==
  /\ loop = "recv"
  /\ IF queue = <<>>
     THEN /\ loop' = IF inbox THEN "top" ELSE "flush"
          /\ UNCHANGED <<queue, win, fresh, pushed>>
     ELSE /\ queue' = Tail(queue)
          /\ IF flags.paused
             THEN loop' = "top" /\ UNCHANGED <<win, fresh, pushed>>
             ELSE /\ pushed' = pushed \cup {Head(queue)}
                  /\ win' = Pushed(win, Head(queue))
                  /\ fresh' = IF fresh + 1 < Hop THEN fresh + 1 ELSE 0
                  /\ loop' = IF fresh + 1 < Hop THEN "top" ELSE "hop"
  /\ UNCHANGED <<source, flags, inbox, cb, next, recorder, late, gate,
                 utt, nextId, errors, ids, heard, written>>

----------------------------------------------------------------------------
\* A hop.

\* The detectors a hop may be judged by: the one so far, or, when Silero fails
\* for the first time, the RMS endpointer that was kept in reserve.
Judges == {gate} \cup (IF gate.silero THEN {Reset(FALSE)} ELSE {})

\* HopGate.observe: speech restarts the quiet; Silence quiet hops after speech
\* are an endpoint, which is reported once.
Loud(g) == [g EXCEPT !.speech = TRUE, !.quiet = 0]
Endpoint(g) == g.speech /\ g.quiet + 1 >= Silence
Quiet(g) == IF Endpoint(g) THEN Reset(g.silero)
            ELSE IF g.speech THEN [g EXCEPT !.quiet = @ + 1] ELSE g

\* emit_stream_segment: the caption of the open utterance, all of it a word or
\* more.
Caption(u, tokens) == IF tokens = {} THEN ids.shown ELSE ids.shown \cup {u.id}

\* beam_final_tokens: the window decoded once more, or the tokens agreed so far
\* when that fails or yields nothing.
FinalTokens(u) == IF win = {} THEN {u.agreed} ELSE {u.agreed, win}

\* split_tokens_by_speaker: how many runs of one speaker some words can make.
\* Two stand for more.
RunCounts(text) == {n \in 1..2 : n <= Cardinality(text)}

\* emit_diarized_runs: one final segment per speaker run; the first keeps the
\* id of the utterance, the others take fresh ones from `free` on.
EmitRuns(u, free, shown, n) ==
  /\ ids' = [shown |-> shown,
             final |-> ids.final \cup {u.id} \cup (free..free + n - 2)]
  /\ nextId' = free + n - 1

\* Mutant of NextUtterance: the window is not reset.
NextUtteranceKeepsAudio == utt' = NoUtterance /\ UNCHANGED win

NextUtterance == utt' = NoUtterance /\ win' = {}

\* The utterance becomes final segments.  `h` is what the hop decoded.
Finalize(u, free, shown, h) ==
  /\ \E text \in FinalTokens(u) :
       /\ \E n \in RunCounts(text) : EmitRuns(u, free, shown, n)
       /\ written' = written \cup text
       /\ heard' = heard \cup h \cup text
  /\ NextUtterance

\* The end of a hop in speech, after which the detector is at `g`: an open
\* utterance that fills the window is closed by force.
HopEnds(g, u, free, shown, h) ==
  /\ loop' = "top"
  /\ IF u.id # 0 /\ Cardinality(win) = Window
     THEN /\ Finalize(u, free, shown, h)
          /\ gate' = Reset(g.silero)
     ELSE /\ utt' = u
          /\ gate' = Loud(g)
          /\ nextId' = free
          /\ ids' = [ids EXCEPT !.shown = shown]
          /\ heard' = heard \cup h
          /\ UNCHANGED <<win, written>>

\* A hypothesis with tokens opens an utterance or refines the open one, and
\* is shown as its caption.
DecodeText ==
  LET open == utt.id # 0
      u == [id |-> IF open THEN utt.id ELSE nextId, agreed |-> utt.agreed \cup win] IN
  /\ loop = "hop"
  /\ errors' = 0
  /\ \E g \in Judges :
       HopEnds(g, u, IF open THEN nextId ELSE nextId + 1, Caption(u, u.agreed), win)
  /\ UNCHANGED <<source, flags, audio, fresh, pushed>>

DecodeNothing ==
  /\ loop = "hop"
  /\ errors' = 0
  /\ \E g \in Judges : HopEnds(g, utt, nextId, ids.shown, win)
  /\ UNCHANGED <<source, flags, audio, fresh, pushed>>

\* The recogniser fails: a cancelled session leaves the loop, too many
\* failures in a row end the session with an error.
DecodeFails ==
  /\ loop = "hop"
  /\ IF flags.cancel
     THEN loop' = "flush" /\ UNCHANGED <<win, gate, utt, nextId, ids, heard, written, errors>>
     ELSE /\ errors' = errors + 1
          /\ IF errors' = ErrorLimit
             THEN loop' = "teardown" /\ UNCHANGED <<win, gate, utt, nextId, ids, heard, written>>
             ELSE \E g \in Judges : HopEnds(g, utt, nextId, ids.shown, {})
  /\ UNCHANGED <<source, flags, audio, fresh, pushed>>

\* A quiet hop is not decoded.  The endpoint, or a full window, closes the open
\* utterance; without one the window is emptied.
QuietHop ==
  /\ loop = "hop"
  /\ loop' = "top"
  /\ \E g \in Judges :
       IF utt.id # 0 /\ (Endpoint(g) \/ Cardinality(win) = Window)
       THEN /\ Finalize(utt, nextId, ids.shown, win)
            /\ gate' = Reset(g.silero)
       ELSE /\ gate' = Quiet(g)
            /\ heard' = heard \cup win
            /\ win' = IF utt.id = 0 THEN {} ELSE win
            /\ UNCHANGED <<utt, nextId, ids, written>>
  /\ UNCHANGED <<source, flags, audio, fresh, pushed, errors>>

\* Mutant of Flush: the utterance in flight is dropped at the end.
FlushNothing ==
  /\ loop = "flush"
  /\ loop' = "teardown"
  /\ UNCHANGED <<source, flags, audio, asr>>

\* After the loop the utterance in flight is finalized.
Flush ==
  /\ loop = "flush"
  /\ loop' = "teardown"
  /\ IF utt.id # 0 THEN Finalize(utt, nextId, ids.shown, {})
     ELSE UNCHANGED <<win, utt, nextId, ids, heard, written>>
  /\ UNCHANGED <<source, flags, audio, fresh, gate, pushed, errors>>

\* Mutant of Teardown: the recorder is finished before the stream is dropped.
TeardownRecorderFirst ==
  /\ loop = "teardown"
  /\ loop' = "finish"
  /\ recorder' = [recorder EXCEPT !.open = FALSE]
  /\ UNCHANGED <<source, flags, inbox, cb, next, queue, late, asr>>

\* drop(stream): returns when no callback runs, and none will.
Teardown ==
  /\ loop = "teardown"
  /\ cb.at = "idle"
  /\ loop' = "finish"
  /\ UNCHANGED <<source, flags, audio, asr>>

\* The recorder writes what it was handed and closes the file; the session is
\* removed from the map.
Finish ==
  /\ loop = "finish"
  /\ loop' = "done"
  /\ recorder' = [recorder EXCEPT !.open = FALSE]
  /\ UNCHANGED <<source, flags, inbox, cb, next, queue, late, asr>>

EmitFinal ==
  /\ loop \in {"failed", "done"}
  /\ loop' = "final"
  /\ UNCHANGED <<source, flags, audio, asr>>

----------------------------------------------------------------------------
Mic == CallbackStarts \/ CallbackRecords \/ CallbackQueues

Peer == Feed \/ FeedEnds \/ FeedEndCancels

Person == Pause \/ Unpause \/ Stop \/ Abort

Session ==
  \/ Begin \/ Top \/ Receive
  \/ DecodeText \/ DecodeNothing \/ DecodeFails \/ QuietHop
  \/ Flush \/ Teardown \/ Finish \/ EmitFinal

Next == Mic \/ Peer \/ Person \/ Session

\* Threads run, and a callback or an end_remote_audio that started returns.
\* Nobody has to speak, feed, stop or abort.
Fairness ==
  /\ WF_vars(Session)
  /\ WF_vars(CallbackRecords \/ CallbackQueues)
  /\ WF_vars(FeedEndCancels)

Spec == Init /\ [][Next]_vars /\ Fairness

----------------------------------------------------------------------------
(***************************************************************************)
(* Properties.                                                             *)
(***************************************************************************)

AsrGaveUp == errors = ErrorLimit

\* The recording has every buffer the callback let in, whatever the decode
\* loop missed, dropped or failed on, and is whole once the session ends.
RecordingComplete ==
  loop \in Ended => recorder.captured \subseteq recorder.blocks

\* A stopped session that nobody aborts leaves the queue empty, but for
\* buffers a callback that had already looked at the flags queued after Stop.
BacklogReceived ==
  (source = "mic" /\ loop \in Ended /\ ~flags.cancel /\ ~AsrGaveUp) =>
    ToSet(queue) \subseteq late

\* An utterance whose caption was shown ends as a final segment with the same
\* id, also when the session is aborted; only a recogniser that keeps failing
\* loses it.  The id of a final segment is not used again: the frontend drops
\* its caption when that segment arrives, and a later caption with the id
\* would be pushed for the same one.
CaptionKept ==
  /\ (loop \in Ended /\ ~AsrGaveUp) => ids.shown \subseteq ids.final
  /\ utt.id \notin ids.final

\* No buffer is behind the text of two final segments: what is written comes
\* from the window and from the tokens agreed so far.
NothingWrittenTwice ==
  [][(written' # written) => ((win \cup utt.agreed) \cap written = {})]_vars

\* A session that is stopped, aborted or fed to its end sends its final frame.
StopEnds == (flags.draining \/ ~inbox) ~> (loop = "final")
=============================================================================
