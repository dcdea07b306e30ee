------------------------- MODULE TranscribeWorkers -------------------------
(***************************************************************************)
(* The workers of src/src-tauri/src/transcribe.rs and the maps they are    *)
(* found in: live recordings, drains of chunks that an earlier process     *)
(* left on disk, uploads of a file (a decoder thread and a recogniser that *)
(* share a bounded channel), sessions fed by a peer, and the captures that *)
(* feed a peer.  Callers start, stop, abort and pause them, feed them and  *)
(* sweep the directories nobody owns.                                      *)
(*                                                                         *)
(* The loop inside a live recording is TranscribeSession's; here it runs   *)
(* until it is told to end or fails.  Audio is numbered chunks or buffers. *)
(***************************************************************************)
EXTENDS Integers, Sequences, FiniteSets, FiniteSetsExt, SequencesExt

CONSTANTS
  Jobs,        \* calls of the start functions, each with the thread it starts
  Ids,         \* stream ids
  Casts,       \* bound: functions from some of the jobs to [kind, id]
  Leftover,    \* Leftover[id]: the chunks found on disk at launch
  Stuck,       \* chunks that cannot be deleted
  Length,      \* chunks of a file, and buffers a microphone delivers (a bound)
  Capacity,    \* of a worker's channel
  FrameSize,   \* buffers in a captured frame
  Feeds,       \* bound: feeds of each peer
  Sweeps,      \* bound: sweeps
  ErrorLimit,  \* ASR_CONSECUTIVE_ERROR_LIMIT
  Nil

Audio == 1 .. Length

\* "call" is an upload that a caller of the HTTP API waits for; no map lists it.
Kinds == {"live", "drain", "upload", "call", "remote", "capture", "file"}

ASSUME WorkersAssumption ==
  /\ {Length, Capacity, FrameSize, ErrorLimit} \subseteq Nat \ {0}
  /\ {Feeds, Sweeps} \subseteq Nat
  /\ Leftover \in [Ids -> SUBSET Audio] /\ Stuck \subseteq Audio
ASSUME JobsAssumption ==
  /\ Nil \notin Jobs \cup Ids
  /\ \A c \in Casts :
       DOMAIN c \subseteq Jobs /\ \A j \in DOMAIN c : c[j] \in [kind : Kinds, id : Ids]

Maps == {"sessions", "captures", "none"}

VARIABLES
  cast,
  holder,     \* holder[<<m, id>>]: whose flags map m holds under id
  inbox,      \* inbox[id]: the remote session that audio for id reaches
  at,         \* at[j]: where job j is
  flags,      \* flags[j]: those of "cancel", "draining", "paused" that are set
  failed,     \* failed[j]: its final frame carries an error
  chan,       \* chan[j]: its channel
  hold,       \* hold[j]: what it took: a chunk, or the buffers of a partial frame
  out,        \* out[j]: the chunks it is through with, the buffers it sent on
  errs,       \* errs[j]: failures in a row
  found,      \* found[j]: the chunks a drain found when it began
  source,     \* source[j]: the decoder or the microphone, and how far it is
  disk,       \* disk[id]: chunks in the stream's directory
  feed,       \* feed[id]: the session a feed holds the inbox entry of, and feeds left
  ending,     \* ending[id]: end_remote_audio is between its two maps
  sweep,      \* the sweep: directories to look at, the one it found unowned
  raced       \* history: keys whose callers did not wait for each other

control == <<cast, holder, inbox, at, flags, failed, raced>>
work == <<chan, hold, out, errs, source, found>>
callers == <<feed, ending, sweep>>
workersVars == <<control, work, disk, callers>>

Cast == DOMAIN cast
Kind(j) == cast[j].kind
Id(j) == cast[j].id
MapOf(j) == CASE Kind(j) \in {"capture", "file"} -> "captures"
              [] Kind(j) = "call" -> "none"
              [] OTHER -> "sessions"
Key(j) == <<MapOf(j), Id(j)>>
Uploading(j) == Kind(j) \in {"upload", "call"}
Of(kind) == {j \in Cast : Kind(j) = kind}

WorkersTypeOK ==
  /\ cast \in Casts
  /\ holder \in [Maps \X Ids -> Jobs \cup {Nil}]
  /\ inbox \in [Ids -> Jobs \cup {Nil}]
  /\ at \in [Jobs -> {"new", "checked", "inbox", "warm", "open", "run", "work", "join", "ended",
                      "unlisted", "free", "final", "refused"}]
  /\ flags \in [Jobs -> SUBSET {"cancel", "draining", "paused"}]
  /\ failed \in [Jobs -> BOOLEAN]
  /\ chan \in [Jobs -> BoundedSeq(Audio, Capacity)]
  /\ hold \in [Jobs -> Seq(Audio)] /\ out \in [Jobs -> Seq(Audio)]
  /\ errs \in [Jobs -> 0 .. ErrorLimit]
  /\ found \in [Jobs -> SUBSET Audio]
  /\ source \in [Jobs -> [at : {"decode", "send", "end", "error"}, n : 0 .. Length]]
  /\ disk \in [Ids -> SUBSET Audio]
  /\ feed \in [Ids -> [to : Jobs \cup {Nil}, left : 0 .. Feeds]]
  /\ ending \in [Ids -> BOOLEAN]
  /\ sweep \in [left : 0 .. Sweeps, ids : SUBSET Ids, found : Ids \cup {Nil}]
  /\ raced \subseteq Maps \X Ids

WorkersInit ==
  /\ cast \in Casts
  /\ holder = [k \in Maps \X Ids |-> Nil] /\ inbox = [i \in Ids |-> Nil]
  /\ at = [j \in Jobs |-> IF j \in Cast THEN "new" ELSE "refused"]
  /\ flags = [j \in Jobs |-> {}] /\ failed = [j \in Jobs |-> FALSE]
  /\ chan = [j \in Jobs |-> <<>>] /\ hold = [j \in Jobs |-> <<>>] /\ out = [j \in Jobs |-> <<>>]
  /\ errs = [j \in Jobs |-> 0]
  /\ source = [j \in Jobs |-> [at |-> "decode", n |-> 0]]
  /\ found = [j \in Jobs |-> {}]
  /\ disk = Leftover
  /\ feed = [i \in Ids |-> [to |-> Nil, left |-> IF Of("remote") = {} THEN 0 ELSE Feeds]]
  /\ ending = [i \in Ids |-> FALSE]
  /\ sweep = [left |-> IF Of("drain") = {} THEN 0 ELSE Sweeps, ids |-> {}, found |-> Nil]
  /\ raced = {}

-----------------------------------------------------------------------------
(* Starting and ending, the same for every kind.                           *)

Goto(j, place) == at' = [at EXCEPT ![j] = place]
Over(j) == at[j] \in {"new", "final", "refused"}

\* A start function looks into its map, at the models and for the file.
Check(j) ==
  /\ at[j] = "new"
  /\ \/ holder[Key(j)] = Nil /\ Goto(j, "checked")
     \/ Goto(j, "refused")
  /\ raced' = IF \/ \E k \in Cast \ {j} : Key(k) = Key(j) /\ ~Over(k)
                 \/ ending[Id(j)] \/ sweep.found = Id(j)
              THEN raced \cup {Key(j)} ELSE raced
  /\ UNCHANGED <<cast, holder, inbox, flags, failed, work, disk, callers>>

\* list_pending_streams: what a drain may be started for.
Pending(i) == disk[i] # {} /\ holder[<<"sessions", i>>] = Nil

Start(j) == Kind(j) = "live" /\ Check(j)
StartDrain(j) == Kind(j) = "drain" /\ Pending(Id(j)) /\ Check(j)
StartUpload(j) == Kind(j) = "upload" /\ Check(j)
StartRemoteSession(j) == Kind(j) = "remote" /\ Check(j)
StartCapture(j) == Kind(j) = "capture" /\ Check(j)
StartDecodeFile(j) == Kind(j) = "file" /\ Check(j)

\* The request handler wrote the body to a file and waits.
StartBlocking(j) ==
  /\ Kind(j) = "call" /\ at[j] = "new"
  /\ Goto(j, "warm") \/ Goto(j, "refused")
  /\ UNCHANGED <<cast, holder, inbox, flags, failed, raced, work, disk, callers>>

Insert(j) ==
  /\ at[j] = "checked"
  /\ holder' = [holder EXCEPT ![Key(j)] = j]
  /\ Goto(j, CASE Kind(j) = "remote" -> "inbox"
               [] MapOf(j) = "captures" -> "open"
               [] OTHER -> "warm")
  /\ UNCHANGED <<cast, inbox, flags, failed, raced, work, disk, callers>>

\* A feed holds its entry of the inboxes while it sends: who changes the entry
\* waits.
InboxFree(i) == feed[i].to = Nil

OpenInbox(j) ==
  /\ at[j] = "inbox" /\ InboxFree(Id(j))
  /\ inbox' = [inbox EXCEPT ![Id(j)] = j]
  /\ Goto(j, "warm")
  /\ UNCHANGED <<cast, holder, flags, failed, raced, work, disk, callers>>

Fails(j) == Goto(j, "ended") /\ failed' = [failed EXCEPT ![j] = TRUE]

\* build_backends; a session that takes live audio then empties the directory
\* of its stream, a drain counts what it finds there.
WarmUp(j) ==
  /\ at[j] = "warm"
  /\ \/ /\ "cancel" \notin flags[j]
        /\ Goto(j, IF Uploading(j) THEN "open" ELSE "run")
        /\ disk' = IF Kind(j) \in {"live", "remote"} THEN [disk EXCEPT ![Id(j)] = @ \cap Stuck]
                   ELSE disk
        /\ found' = IF Kind(j) = "drain" THEN [found EXCEPT ![j] = disk[Id(j)]] ELSE found
        /\ UNCHANGED failed
     \/ Fails(j) /\ UNCHANGED <<disk, found>>
  /\ UNCHANGED <<cast, holder, inbox, flags, raced, chan, hold, out, errs, source, callers>>

\* The file is opened, probed and given a decoder.
OpenFile(j) ==
  /\ at[j] = "open" /\ Kind(j) # "capture"
  /\ \/ Goto(j, "run") /\ UNCHANGED failed
     \/ Fails(j)
  /\ UNCHANGED <<cast, holder, inbox, flags, raced, work, disk, callers>>

\* The device is found and its stream plays.
OpenMicrophone(j) ==
  /\ at[j] = "open" /\ Kind(j) = "capture"
  /\ \/ Goto(j, "run") /\ UNCHANGED failed
     \/ Fails(j)
  /\ UNCHANGED <<cast, holder, inbox, flags, raced, work, disk, callers>>

Ends(j, broken) ==
  /\ Goto(j, "ended")
  /\ failed' = [failed EXCEPT ![j] = broken]

\* Mutant of Unregister: an upload is taken off the map before its decoder ends.
UnregisterEarly(j) ==
  /\ at[j] \in {"join", "ended"} /\ Kind(j) # "call"
  /\ holder' = [holder EXCEPT ![Key(j)] = Nil]
  /\ Goto(j, CASE at[j] = "join" -> "join" [] Kind(j) = "remote" -> "unlisted" [] OTHER -> "free")
  /\ UNCHANGED <<cast, inbox, flags, failed, raced, work, disk, callers>>

\* The thread removes whatever its key holds ...
Unregister(j) ==
  /\ at[j] = "ended" /\ Kind(j) # "call"
  /\ holder' = [holder EXCEPT ![Key(j)] = Nil]
  /\ Goto(j, IF Kind(j) = "remote" THEN "unlisted" ELSE "free")
  /\ UNCHANGED <<cast, inbox, flags, failed, raced, work, disk, callers>>

\* ... a remote session its inbox as well ...
CloseInbox(j) ==
  /\ at[j] = "unlisted" /\ InboxFree(Id(j))
  /\ inbox' = [inbox EXCEPT ![Id(j)] = Nil]
  /\ Goto(j, "free")
  /\ UNCHANGED <<cast, holder, flags, failed, raced, work, disk, callers>>

\* ... and then sends the final frame.
EmitFinal(j) ==
  /\ at[j] = "free"
  /\ Goto(j, "final")
  /\ UNCHANGED <<cast, holder, inbox, flags, failed, raced, work, disk, callers>>

\* The handler of a call deletes the file and answers.
AnswerCall(j) ==
  /\ at[j] = "ended" /\ Kind(j) = "call"
  /\ Goto(j, "final")
  /\ UNCHANGED <<cast, holder, inbox, flags, failed, raced, work, disk, callers>>

-----------------------------------------------------------------------------
(* Commands, by key: they reach the job that the map holds.                *)

\* The flags that the thread looks at (a recording also at "paused", within its
\* loop); the others are set for nothing.
Looks(j) == {"cancel"} \cup (CASE Kind(j) = "live" -> {"draining"}
                               [] Kind(j) \in {"upload", "capture", "file"} -> {"paused"}
                               [] OTHER -> {})

Raise(key, raised) ==
  /\ holder[key] # Nil
  /\ flags' = [flags EXCEPT ![holder[key]] = @ \cup (raised \cap Looks(holder[key]))]
  /\ flags' # flags
  /\ UNCHANGED <<cast, holder, inbox, at, failed, raced, work, disk, callers>>

\* stop lets a session drain; stop_capture cancels.
Stop(key) == Raise(key, IF key[1] = "sessions" THEN {"draining"} ELSE {"cancel"})
Abort(key) == key[1] = "sessions" /\ Raise(key, {"draining", "cancel"})
Pause(key) == Raise(key, {"paused"})

Resume(key) ==
  /\ holder[key] # Nil /\ "paused" \in flags[holder[key]]
  /\ flags' = [flags EXCEPT ![holder[key]] = @ \ {"paused"}]
  /\ UNCHANGED <<cast, holder, inbox, at, failed, raced, work, disk, callers>>

Command(key) == Stop(key) \/ Abort(key) \/ Pause(key) \/ Resume(key)

Told(j) == "cancel" \in flags[j] \/ (Kind(j) = "live" /\ "draining" \in flags[j])
Open(j) == ~("cancel" \in flags[j] \/ "paused" \in flags[j])

-----------------------------------------------------------------------------
(* A live recording.                                                       *)

LiveEnds(j, broken) ==
  /\ Kind(j) = "live" /\ at[j] = "run"
  /\ broken \/ Told(j)
  /\ Ends(j, broken)
  /\ disk' = [disk EXCEPT ![Id(j)] = @ \cap Stuck]
  /\ UNCHANGED <<cast, holder, inbox, flags, raced, work, callers>>

-----------------------------------------------------------------------------
(* A session fed by a peer.                                                *)

HasSender(j) == inbox[Id(j)] = j \/ feed[Id(j)].to = j
HasReceiver(j) == at[j] \in {"warm", "run"}

Receive(j) ==
  /\ Kind(j) = "remote" /\ at[j] = "run" /\ chan[j] # <<>>
  /\ "cancel" \notin flags[j]
  /\ chan' = [chan EXCEPT ![j] = Tail(@)]
  /\ UNCHANGED <<control, hold, out, errs, source, disk, callers, found>>

RemoteEnds(j, broken) ==
  /\ Kind(j) = "remote" /\ at[j] = "run"
  /\ broken \/ Told(j) \/ (chan[j] = <<>> /\ ~HasSender(j))
  /\ Ends(j, broken)
  /\ chan' = [chan EXCEPT ![j] = <<>>]
  /\ disk' = [disk EXCEPT ![Id(j)] = @ \cap Stuck]
  /\ UNCHANGED <<cast, holder, inbox, flags, raced, hold, out, errs, source, callers, found>>

\* feed_remote_audio finds the inbox and keeps hold of its entry ...
Feed(i) ==
  /\ InboxFree(i) /\ feed[i].left > 0 /\ inbox[i] # Nil
  /\ feed' = [feed EXCEPT ![i] = [to |-> inbox[i], left |-> @.left - 1]]
  /\ UNCHANGED <<control, work, disk, ending, sweep>>

\* ... until there is room, or nobody to receive.
FeedSends(i) ==
  LET j == feed[i].to IN
  /\ j # Nil
  /\ \/ ~HasReceiver(j) /\ UNCHANGED chan
     \/ /\ HasReceiver(j) /\ Len(chan[j]) < Capacity
        /\ chan' = [chan EXCEPT ![j] = Append(@, 1)]
  /\ feed' = [feed EXCEPT ![i].to = Nil]
  /\ UNCHANGED <<control, hold, out, errs, source, disk, ending, sweep, found>>

\* end_remote_audio removes the inbox, if there is one, and then cancels whom
\* the sessions list.
EndRemoves(i) ==
  /\ Of("remote") # {} /\ ~ending[i] /\ InboxFree(i)
  /\ inbox' = [inbox EXCEPT ![i] = Nil]
  /\ ending' = [ending EXCEPT ![i] = TRUE]
  /\ UNCHANGED <<cast, holder, at, flags, failed, raced, work, disk, feed, sweep>>

EndCancels(i) ==
  /\ ending[i]
  /\ ending' = [ending EXCEPT ![i] = FALSE]
  /\ LET j == holder[<<"sessions", i>>] IN
       flags' = IF j = Nil THEN flags ELSE [flags EXCEPT ![j] = @ \cup {"cancel"}]
  /\ UNCHANGED <<cast, holder, inbox, at, failed, raced, work, disk, feed, sweep>>

-----------------------------------------------------------------------------
(* A drain of leftover chunks.  source[j].n is the chunk before next_seq.   *)

DrainRuns(j) == Kind(j) = "drain" /\ at[j] = "run"
NextSeq(j) == source[j].n + 1
Through(j, n) == out' = [out EXCEPT ![j] = Append(@, n)]

\* The chunk is missing: on to the lowest there is; one that is lower, because
\* it could not be deleted, makes the drain count on for ever.
Seek(j) ==
  LET rest == disk[Id(j)] IN
  /\ DrainRuns(j) /\ ~Told(j) /\ rest # {} /\ NextSeq(j) \notin rest
  /\ source' = [source EXCEPT ![j].n = IF Min(rest) > NextSeq(j) THEN Min(rest) - 1
                                       ELSE IF @ < Length THEN @ + 1 ELSE @]
  /\ UNCHANGED <<control, chan, hold, out, errs, disk, callers, found>>

\* What becomes of a chunk: it cannot be read, is silent, is recognised, or the
\* recogniser fails on it.
Outcomes == {"unreadable", "silent", "recognised", "failure"}

\* Failures in a row: only a recognised chunk ends the row.
Count(j, outcome) ==
  errs' = [errs EXCEPT ![j] = CASE outcome = "failure" -> @ + 1
                                [] outcome = "recognised" -> 0
                                [] OTHER -> @]

\* Mutant of Drain: the chunk is deleted before the recogniser has it.
DrainDeletesFirst(j) ==
  /\ DrainRuns(j) /\ ~Told(j) /\ NextSeq(j) \in disk[Id(j)]
  /\ disk' = [disk EXCEPT ![Id(j)] = @ \ ({NextSeq(j)} \ Stuck)]
  /\ source' = [source EXCEPT ![j].n = @ + 1]
  /\ \E outcome \in Outcomes :
       /\ Count(j, outcome)
       /\ IF errs'[j] = ErrorLimit
          THEN Ends(j, TRUE) /\ UNCHANGED out
          ELSE Through(j, NextSeq(j)) /\ UNCHANGED <<at, failed>>
  /\ UNCHANGED <<cast, holder, inbox, flags, raced, chan, hold, callers, found>>

\* The chunk is deleted whatever becomes of it, except with the failure that
\* ends the drain.
Drain(j) ==
  /\ DrainRuns(j) /\ ~Told(j) /\ NextSeq(j) \in disk[Id(j)]
  /\ \E outcome \in Outcomes :
       /\ Count(j, outcome)
       /\ IF errs'[j] = ErrorLimit
          THEN Ends(j, TRUE) /\ UNCHANGED <<disk, source, out>>
          ELSE /\ Through(j, NextSeq(j))
               /\ disk' = [disk EXCEPT ![Id(j)] = @ \ ({NextSeq(j)} \ Stuck)]
               /\ source' = [source EXCEPT ![j].n = @ + 1]
               /\ UNCHANGED <<at, failed>>
  /\ UNCHANGED <<cast, holder, inbox, flags, raced, chan, hold, callers, found>>

\* Nothing is left or it is cancelled: the directory goes, with what is in it.
DrainEnds(j) ==
  /\ DrainRuns(j) /\ (Told(j) \/ disk[Id(j)] = {})
  /\ Ends(j, FALSE)
  /\ disk' = [disk EXCEPT ![Id(j)] = @ \cap Stuck]
  /\ UNCHANGED <<cast, holder, inbox, flags, raced, work, callers>>

-----------------------------------------------------------------------------
(* clear_buffer_orphans, for the Storage tab and after every launch.       *)

SweepBegins ==
  /\ sweep.left > 0 /\ sweep.ids = {} /\ sweep.found = Nil
  /\ sweep' = [left |-> sweep.left - 1, ids |-> {i \in Ids : disk[i] # {}}, found |-> Nil]
  /\ UNCHANGED <<control, work, disk, feed, ending>>

\* A stream that a session owns is left alone.
SweepChecks(i) ==
  /\ i \in sweep.ids /\ sweep.found = Nil
  /\ sweep' = [sweep EXCEPT !.ids = @ \ {i},
                            !.found = IF holder[<<"sessions", i>>] = Nil THEN i ELSE Nil]
  /\ raced' = IF \E j \in Cast : Key(j) = <<"sessions", i>> /\ at[j] = "checked"
              THEN raced \cup {<<"sessions", i>>} ELSE raced
  /\ UNCHANGED <<cast, holder, inbox, at, flags, failed, work, disk, feed, ending>>

SweepRemoves ==
  /\ sweep.found # Nil
  /\ disk' = [disk EXCEPT ![sweep.found] = @ \cap Stuck]
  /\ sweep' = [sweep EXCEPT !.found = Nil]
  /\ UNCHANGED <<control, work, feed, ending>>

-----------------------------------------------------------------------------
(* An upload: the decoder thread sends chunks to the recogniser.           *)

Decoding(j) == Uploading(j) /\ at[j] \in {"run", "work", "join"} /\ source[j].at = "decode"

\* The next chunk, or the end of the file.  The last chunk is a tail, which is
\* dropped when it is shorter than min_tail_seconds.
Decode(j) ==
  /\ Decoding(j) /\ Open(j)
  /\ \/ /\ source[j].n < Length
        /\ source' = [source EXCEPT ![j] = [at |-> "send", n |-> @.n + 1]]
     \/ /\ source[j].n >= Length - 1
        /\ source' = [source EXCEPT ![j].at = "end"]
  /\ UNCHANGED <<control, chan, hold, out, errs, disk, callers, found>>

\* Mutant of DecodeStops: the decoder does not look at cancel.
DecodeBreaks(j) ==
  /\ Decoding(j) /\ Open(j)
  /\ source' = [source EXCEPT ![j].at = "error"]
  /\ UNCHANGED <<control, chan, hold, out, errs, disk, callers, found>>

\* The decoder is cancelled, or fails.
DecodeStops(j) ==
  /\ Decoding(j)
  /\ \/ "cancel" \in flags[j] /\ source' = [source EXCEPT ![j].at = "end"]
     \/ Open(j) /\ source' = [source EXCEPT ![j].at = "error"]
  /\ UNCHANGED <<control, chan, hold, out, errs, disk, callers, found>>

\* send waits for room, whatever the flags say by now.
Send(j) ==
  /\ Uploading(j) /\ source[j].at = "send" /\ Len(chan[j]) < Capacity
  /\ chan' = [chan EXCEPT ![j] = Append(@, source[j].n)]
  /\ source' = [source EXCEPT ![j].at = "decode"]
  /\ UNCHANGED <<control, hold, out, errs, disk, callers, found>>

\* recv: a chunk, or the end once the decoder dropped its side.
Take(j) ==
  /\ Uploading(j) /\ at[j] = "run"
  /\ \/ /\ chan[j] # <<>>
        /\ hold' = [hold EXCEPT ![j] = <<Head(chan[j])>>]
        /\ chan' = [chan EXCEPT ![j] = Tail(@)]
        /\ Goto(j, "work")
     \/ /\ chan[j] = <<>> /\ source[j].at \in {"end", "error"}
        /\ Goto(j, "join")
        /\ UNCHANGED <<chan, hold>>
  /\ UNCHANGED <<cast, holder, inbox, flags, failed, raced, out, errs, source, disk, callers, found>>

\* The chunk is silent, recognised, or failed on; too many failures in a row
\* cancel the upload.
Work(j) ==
  /\ Uploading(j) /\ at[j] = "work" /\ Open(j)
  /\ \E outcome \in Outcomes \ {"unreadable"} :
       /\ Count(j, outcome)
       /\ IF errs'[j] = ErrorLimit
          THEN /\ flags' = [flags EXCEPT ![j] = @ \cup {"cancel"}]
               /\ failed' = [failed EXCEPT ![j] = TRUE]
               /\ Goto(j, "join")
               /\ UNCHANGED out
          ELSE Goto(j, "run") /\ Through(j, hold[j][1]) /\ UNCHANGED <<flags, failed>>
  /\ hold' = [hold EXCEPT ![j] = <<>>]
  /\ UNCHANGED <<cast, holder, inbox, raced, chan, source, disk, callers, found>>

\* A cancelled upload leaves its loop with the chunk in hand.
WorkStops(j) ==
  /\ Uploading(j) /\ at[j] = "work" /\ Told(j)
  /\ Goto(j, "join")
  /\ hold' = [hold EXCEPT ![j] = <<>>]
  /\ UNCHANGED <<cast, holder, inbox, flags, failed, raced, chan, out, errs, source, disk, callers, found>>

\* The decoder is waited for; the channel is not dropped before.
Join(j) ==
  /\ Uploading(j) /\ at[j] = "join" /\ source[j].at \in {"end", "error"}
  /\ Ends(j, failed[j] \/ source[j].at = "error")
  /\ UNCHANGED <<cast, holder, inbox, flags, raced, work, disk, callers>>

-----------------------------------------------------------------------------
(* A capture for a remote host, of the microphone or of a file.            *)

Capturing(j) == Kind(j) \in {"capture", "file"} /\ at[j] = "run"

\* The callback: a full channel drops the buffer.
Callback(j) ==
  /\ Kind(j) = "capture" /\ at[j] = "run" /\ source[j].n < Length
  /\ source' = [source EXCEPT ![j].n = @ + 1]
  /\ chan' = IF Open(j) /\ Len(chan[j]) < Capacity
             THEN [chan EXCEPT ![j] = Append(@, source'[j].n)] ELSE chan
  /\ UNCHANGED <<control, hold, out, errs, disk, callers, found>>

\* emit_pcm_frames: whole frames, or everything.
WholeFrames(pending) == Len(pending) - (Len(pending) % FrameSize)
Emits(j, pending, n) ==
  /\ out' = [out EXCEPT ![j] = @ \o SubSeq(pending, 1, n)]
  /\ hold' = [hold EXCEPT ![j] = SubSeq(pending, n + 1, Len(pending))]

ForwardBuffer(j) ==
  /\ Kind(j) = "capture" /\ at[j] = "run" /\ "cancel" \notin flags[j] /\ chan[j] # <<>>
  /\ LET pending == Append(hold[j], Head(chan[j])) IN Emits(j, pending, WholeFrames(pending))
  /\ chan' = [chan EXCEPT ![j] = Tail(@)]
  /\ UNCHANGED <<control, errs, source, disk, callers, found>>

ForwardPacket(j) ==
  /\ Kind(j) = "file" /\ at[j] = "run" /\ Open(j) /\ source[j].n < Length
  /\ source' = [source EXCEPT ![j].n = @ + 1]
  /\ LET pending == Append(hold[j], source'[j].n) IN Emits(j, pending, WholeFrames(pending))
  /\ UNCHANGED <<control, chan, errs, disk, callers, found>>

\* Told to stop, or the file is over: what is pending is sent.
CaptureEnds(j) ==
  /\ Capturing(j)
  /\ Told(j) \/ (Kind(j) = "file" /\ source[j].n = Length)
  /\ Ends(j, FALSE)
  /\ Emits(j, hold[j], Len(hold[j]))
  /\ UNCHANGED <<cast, holder, inbox, flags, raced, chan, errs, source, disk, callers, found>>

\* The microphone or the decoder reports an error.
CaptureFails(j) ==
  /\ Capturing(j)
  /\ Ends(j, TRUE)
  /\ UNCHANGED <<cast, holder, inbox, flags, raced, work, disk, callers>>

-----------------------------------------------------------------------------
Thread(j) ==
  \/ Insert(j) \/ OpenInbox(j) \/ WarmUp(j) \/ OpenFile(j) \/ OpenMicrophone(j)
  \/ Unregister(j) \/ CloseInbox(j) \/ EmitFinal(j) \/ AnswerCall(j)
  \/ LiveEnds(j, FALSE) \/ Receive(j) \/ RemoteEnds(j, FALSE)
  \/ Seek(j) \/ Drain(j) \/ DrainEnds(j)
  \/ Take(j) \/ Work(j) \/ WorkStops(j) \/ Join(j)
  \/ ForwardBuffer(j) \/ ForwardPacket(j) \/ CaptureEnds(j)

Decoder(j) == Decode(j) \/ DecodeStops(j) \/ Send(j)

Breaks(j) == LiveEnds(j, TRUE) \/ RemoteEnds(j, TRUE) \/ CaptureFails(j)

Starts(j) ==
  \/ Start(j) \/ StartDrain(j) \/ StartUpload(j) \/ StartRemoteSession(j)
  \/ StartCapture(j) \/ StartDecodeFile(j) \/ StartBlocking(j)

\* Who feeds a session ends it too.
Peer(i) == Feed(i) \/ EndRemoves(i)

WorkersNext ==
  \/ \E j \in Cast : Starts(j) \/ Thread(j) \/ Decoder(j) \/ Breaks(j) \/ Callback(j)
  \/ \E key \in Maps \X Ids : Command(key)
  \/ \E i \in Ids : Peer(i) \/ FeedSends(i) \/ EndCancels(i) \/ SweepChecks(i)
  \/ SweepBegins \/ SweepRemoves

\* Threads run and calls that began go on; nobody has to call.
WorkersFairness ==
  /\ \A j \in Jobs : WF_workersVars(j \in Cast /\ Thread(j)) /\ WF_workersVars(j \in Cast /\ Decoder(j))
  /\ \A i \in Ids : WF_workersVars(FeedSends(i)) /\ WF_workersVars(EndCancels(i))

WorkersSpec == WorkersInit /\ [][WorkersNext]_workersVars /\ WorkersFairness

-----------------------------------------------------------------------------
(***************************************************************************)
(* Callers that wait for each other, that is, start a stream only when the *)
(* last one under its id has sent its final frame, and do not sweep while  *)
(* a start is between its look and its entry, can always reach what runs:  *)
(* the maps hold the job that runs under the id, so stop, abort and the    *)
(* peer's audio find it, and no later job loses its entry to an earlier.   *)
(***************************************************************************)
Reachable ==
  \A j \in Cast : (Key(j) \notin raced /\ at[j] \in {"warm", "open", "run", "work", "join"}) =>
    /\ MapOf(j) # "none" => holder[Key(j)] = j
    /\ \A i \in Ids : inbox[i] = j => i = Id(j)
    /\ Kind(j) = "remote" => inbox[Id(j)] \in {j, Nil}

InOrder(audio) == \A m, n \in DOMAIN audio : m < n => audio[m] < audio[n]

(***************************************************************************)
(* No audio is skipped, and none is gone through twice or out of order.  A *)
(* drain that nobody aborts has taken every chunk it found, and one that   *)
(* gives up has left the others on disk; an upload that ends without an    *)
(* error has gone through the whole file but for a short tail; a capture   *)
(* that ends without an error has sent on all it took, that is, not what   *)
(* the microphone delivered into a full channel, while it was paused, or   *)
(* after the last buffer it took.                                          *)
(***************************************************************************)
NothingSkipped ==
  \A j \in Cast : at[j] = "ended" =>
    /\ InOrder(out[j])
    /\ CASE Kind(j) = "drain" ->
              ("cancel" \notin flags[j] /\ Key(j) \notin raced) =>
                found[j] \subseteq ToSet(out[j]) \cup disk[Id(j)]
         [] Uploading(j) ->
              (~failed[j] /\ "cancel" \notin flags[j]) =>
                /\ source[j].n >= Length - 1
                /\ out[j] = [n \in 1 .. source[j].n |-> n]
         [] Kind(j) \in {"capture", "file"} ->
              ~failed[j] => /\ hold[j] = <<>>
                            /\ Kind(j) = "file" => out[j] = [n \in 1 .. source[j].n |-> n]
         [] OTHER -> TRUE

\* The one way to hang: the loop of an upload was left while the decoder waits
\* for room in the channel.
Wedged(j) == at[j] = "join" /\ source[j].at = "send" /\ Len(chan[j]) = Capacity

Finite(j) == Uploading(j) \/ Kind(j) \in {"drain", "file"}

(***************************************************************************)
(* A worker that is told to end, or whose input is finite, sends its final *)
(* frame, unless it is paused, or counts past a chunk that it cannot       *)
(* delete, or is wedged; a feed that waits for room returns, and so does   *)
(* who waits for its entry of the inboxes.                                 *)
(***************************************************************************)
WorkersEnd ==
  /\ \A j \in Jobs :
       (j \in Cast /\ ~Over(j) /\ (Told(j) \/ Finite(j)))
         ~> (at[j] \in {"final", "refused"} \/ "paused" \in flags[j] \/ Wedged(j)
             \/ (Kind(j) = "drain" /\ disk[Id(j)] \cap Stuck # {}))
  /\ \A i \in Ids : feed[i].to # Nil ~> feed[i].to = Nil

=============================================================================
