------------------------------ MODULE ChatSlot ------------------------------
(***************************************************************************)
(* The one chat model of a device and who may use it                       *)
(* (src/src/ui/chat-slot.svelte.ts): chats, the Talking Points loop that   *)
(* condenses a live transcript, and its one-shot regeneration.  Everything *)
(* runs on one event loop; an action ends where the code awaits.           *)
(*                                                                         *)
(* A stored transcript is a number of segments; its text has Width         *)
(* characters per segment, joining spaces included.                        *)
(***************************************************************************)
EXTENDS Naturals, FiniteSetsExt

CONSTANTS
  Conversation,
  Recorded,  \* the conversations with a transcript
  Runs,      \* bound: calls of doSend at the same time
  Cycle,     \* bound: Talking Points cycles under way at the same time
  None,
  Width,     \* characters per segment
  Segments,  \* bound: segments of a transcript
  Timers,    \* bound: intervals that tick at the same time
  Stops      \* bound: stops under way at the same time

ASSUME WidthAssumption == Width \in Nat \ {0}
ASSUME BoundsAssumption == Segments \in Nat /\ Timers \in Nat /\ Stops \in Nat
ASSUME RecordedAssumption == Recorded \subseteq Conversation
ASSUME NoneAssumption == None \notin Conversation \cup Cycle

VARIABLES
  slot,       \* chatSlot
  chat,       \* chat[c]: how many calls of doSend prepare, and how many run
  regen,      \* does regenerateTalkingPoints await the model's reply?
  said,       \* said[c]: segments of the stored transcript
  loop,       \* is tpInterval set, is there a pin, tpProcessedLen
  timers,     \* intervals that tick, tpInterval's and forgotten ones
  seeding,    \* the conversation that seedProcessedFromTranscript reads
  inflight,   \* tpInFlightStreamId
  ear,        \* the cycle whose listener tpInFlightUnlisten drops
  cycle,      \* cycle[k]: a call of maybeRunTpCycle; cut: its stream was
              \* cancelled or its listener dropped
  stops,      \* stopTalkingPoints calls that await the cancel
  disturbed   \* a tick overtook the seed's or another tick's read, a loop was
              \* started while an older one's cycle was under way, or
              \* regeneration took the slot from a loop (history)

vars == <<slot, chat, regen, said, loop, timers, seeding, inflight, ear,
          cycle, stops, disturbed>>
loopVars == <<loop, timers, seeding>>
cycleVars == <<inflight, ear, cycle>>

Text(n) == Width * n
Free == [kind |-> "none", conv |-> None, status |-> "idle"]
NoCycle == [stage |-> "none", conv |-> None, from |-> 0, end |-> 0, cut |-> FALSE]
Busy == {k \in Cycle : cycle[k].stage # "none"}

TypeOK ==
  /\ slot \in [kind : {"none", "chat", "tp"}, conv : Conversation \cup {None},
               status : {"idle", "running", "paused"}]
  /\ chat \in [Conversation -> [preparing : Nat, running : Nat]]
  /\ regen \in BOOLEAN
  /\ said \in [Recorded -> 0 .. Segments]
  /\ loop \in [set : BOOLEAN, pin : BOOLEAN, processed : 0 .. Text(Segments)]
  /\ timers \in 0 .. Timers
  /\ seeding \in Recorded \cup {None}
  /\ inflight \in Cycle \cup {None}
  /\ ear \in Cycle \cup {None}
  /\ cycle \in [Cycle -> [stage : {"none", "checking", "loading", "opening", "inferring",
                                   "merging"},
                          conv : Conversation \cup {None}, from : 0 .. Text(Segments),
                          end : 0 .. Text(Segments), cut : BOOLEAN]]
  /\ stops \in 0 .. Stops
  /\ disturbed \in BOOLEAN

Init ==
  /\ slot = Free
  /\ chat = [c \in Conversation |-> [preparing |-> 0, running |-> 0]]
  /\ regen = FALSE
  /\ said = [c \in Recorded |-> 0]
  /\ loop = [set |-> FALSE, pin |-> FALSE, processed |-> 0]
  /\ timers = 0
  /\ seeding = None
  /\ inflight = None
  /\ ear = None
  /\ cycle = [k \in Cycle |-> NoCycle]
  /\ stops = 0
  /\ disturbed = FALSE

----------------------------------------------------------------------------
\* The transcript that is being recorded grows.
Stored(c) ==
  /\ said[c] < Segments
  /\ said' = [said EXCEPT ![c] = @ + 1]
  /\ UNCHANGED <<slot, chat, regen, loopVars, cycleVars, stops, disturbed>>

----------------------------------------------------------------------------
\* Chats.

\* doSend starts to prepare a run.  A composer that streams refuses another
\* send, but one that is mounted anew or still prepares does not, so runs of one
\* conversation may overlap.
Prepare(c) ==
  /\ MapThenSumSet(LAMBDA d : chat[d].preparing + chat[d].running, Conversation) < Runs
  /\ chat' = [chat EXCEPT ![c].preparing = @ + 1]

\* send, while the slot is free or this chat's.  Talking Points hides the composer.
Send(c) ==
  /\ slot.kind = "none" \/ (slot.kind = "chat" /\ slot.conv = c)
  /\ Prepare(c)
  /\ UNCHANGED <<slot, regen, said, loopVars, cycleVars, stops, disturbed>>

\* Another chat holds the slot and the person confirms "Stop & continue".
StopAndSend(c) ==
  /\ slot.kind = "chat" /\ slot.conv # c
  /\ slot' = Free
  /\ Prepare(c)
  /\ UNCHANGED <<regen, said, loopVars, cycleVars, stops, disturbed>>

\* A run is prepared and claims the slot, whoever has it by now; if the user
\* turn could not be saved, it runs without.
Claim(c) ==
  /\ chat[c].preparing > 0
  /\ chat' = [chat EXCEPT ![c] = [preparing |-> @.preparing - 1, running |-> @.running + 1]]
  /\ slot' \in {slot, [kind |-> "chat", conv |-> c, status |-> "running"]}
  /\ UNCHANGED <<regen, said, loopVars, cycleVars, stops, disturbed>>

\* An agent loop has ended (a reply, an error, the abort of its controller), the
\* chat is saved or could not be, and releaseChat is called.
Release(c) ==
  /\ chat[c].running > 0
  /\ chat' = [chat EXCEPT ![c].running = @ - 1]
  /\ slot' = IF slot.kind = "chat" /\ slot.conv = c THEN Free ELSE slot
  /\ UNCHANGED <<regen, said, loopVars, cycleVars, stops, disturbed>>

\* forceStopChat: the slot is free before the run has unwound.
ForceStop ==
  /\ slot.kind = "chat"
  /\ slot' = Free
  /\ UNCHANGED <<chat, regen, said, loopVars, cycleVars, stops, disturbed>>

----------------------------------------------------------------------------
\* regenerateTalkingPoints.

\* The slot is looked at, then the transcript is read, and if there is one the
\* slot is taken without another look: what it was before the reads says
\* nothing about it now.
Regenerate(c) ==
  /\ ~regen
  /\ said[c] > 0
  /\ regen' = TRUE
  /\ slot' = [slot EXCEPT !.kind = "tp", !.conv = c, !.status = "running"]
  /\ disturbed' = (disturbed \/ loop.set)
  /\ UNCHANGED <<chat, said, loopVars, cycleVars, stops>>

\* Mutant of RegenEnds: the slot is reset only after a success.
RegenEndsUnlessError ==
  /\ regen
  /\ regen' = FALSE
  /\ slot' \in {slot, Free}
  /\ UNCHANGED <<chat, said, loopVars, cycleVars, stops, disturbed>>

\* The reply is stored or an error is shown; the slot is reset, whoever has it.
RegenEnds ==
  /\ regen
  /\ regen' = FALSE
  /\ slot' = Free
  /\ UNCHANGED <<chat, said, loopVars, cycleVars, stops, disturbed>>

----------------------------------------------------------------------------
\* The Talking Points loop: start, pause, stop.

\* startTalkingPoints, on a slot that the caller has freed; an interval that a
\* former start left ticking is forgotten.  (Bound: the previous start has been
\* seeded.)
Started(c) ==
  /\ seeding = None
  /\ timers < Timers
  /\ timers' = timers + 1
  /\ slot' = [Free EXCEPT !.kind = "tp", !.conv = c, !.status = "running"]
  /\ loop' \in [set : {TRUE}, pin : BOOLEAN, processed : {0}]
  /\ seeding' = c
  /\ disturbed' = (disturbed \/ Busy # {})

\* The slot is free, or a chat holds it and the person confirms "Stop & activate".
Activate(c) ==
  /\ slot.kind # "tp"
  /\ Started(c)
  /\ UNCHANGED <<chat, regen, said, cycleVars, stops>>

\* seedProcessedFromTranscript: the length it takes is the number of segments.
Seeded ==
  /\ seeding # None
  /\ seeding' = None
  /\ loop' \in {loop, [loop EXCEPT !.processed = said[seeding]]}
  /\ UNCHANGED <<slot, chat, regen, said, timers, cycleVars, stops, disturbed>>

\* pauseTalkingPoints and resumeTalkingPoints, on a click.
Pause ==
  /\ slot.kind = "tp" /\ slot.status = "running"
  /\ slot' = [slot EXCEPT !.status = "paused"]
  /\ UNCHANGED <<chat, regen, said, loopVars, cycleVars, stops, disturbed>>

Resume ==
  /\ slot.kind = "tp" /\ slot.status = "paused"
  /\ slot' = [slot EXCEPT !.status = "running"]
  /\ UNCHANGED <<chat, regen, said, loopVars, cycleVars, stops, disturbed>>

\* The reply of cycle k is cut short, if it is still under way.
Cut(k) == IF k = None THEN cycle ELSE [cycle EXCEPT ![k].cut = @ \/ cycle[k].stage # "none"]

\* stopTalkingPoints up to its first await: the interval stops; a stream under
\* way is cancelled and awaited, otherwise the slot is free at once.
Stop ==
  /\ slot.kind = "tp"
  /\ timers' = IF loop.set THEN timers - 1 ELSE timers
  /\ \/ /\ inflight # None
        /\ stops < Stops
        /\ stops' = stops + 1
        /\ loop' = [loop EXCEPT !.set = FALSE]
        /\ cycle' = Cut(inflight)
        /\ UNCHANGED slot
     \/ /\ inflight = None
        /\ slot' = Free
        /\ loop' = [loop EXCEPT !.set = FALSE, !.pin = FALSE]
        /\ UNCHANGED <<stops, cycle>>
  /\ UNCHANGED <<chat, regen, said, seeding, inflight, ear, disturbed>>

\* The cancel is answered: the listener and the slot go, whoever's they are by
\* now.  If the person asked for "Stop & activate", the loop starts again.
StopResumes ==
  /\ stops > 0
  /\ stops' = stops - 1
  /\ inflight' = None
  /\ ear' = None
  /\ cycle' = Cut(ear)
  /\ \/ \E c \in Recorded : Started(c)
     \/ /\ slot' = Free
        /\ loop' = [loop EXCEPT !.pin = FALSE]
        /\ UNCHANGED <<timers, seeding, disturbed>>
  /\ UNCHANGED <<chat, regen, said>>

----------------------------------------------------------------------------
\* The Talking Points loop: ticks and cycles.

\* One tick of an interval, up to the read of the transcript.  A pinned peer
\* that is away pauses the loop.
Tick(k) ==
  /\ timers > 0
  /\ slot.kind = "tp" /\ slot.status = "running"
  /\ inflight = None
  /\ cycle[k].stage = "none"
  /\ \/ /\ loop.pin
        /\ slot' = [slot EXCEPT !.status = "paused"]
        /\ UNCHANGED <<cycle, disturbed>>
     \/ /\ cycle' = [cycle EXCEPT ![k] = [NoCycle EXCEPT !.stage = "checking",
                                                         !.conv = slot.conv]]
        /\ disturbed' = (disturbed \/ seeding # None \/
             \E j \in Cycle : cycle[j].stage \in {"checking", "loading"})
        /\ UNCHANGED slot
  /\ UNCHANGED <<chat, regen, said, loopVars, inflight, ear, stops>>

Ended(k) == [cycle EXCEPT ![k] = NoCycle]

\* The read of a tick or a cycle fails; nothing has been touched yet.
ReadFails(k) ==
  /\ cycle[k].stage \in {"checking", "loading"}
  /\ cycle' = Ended(k)
  /\ UNCHANGED <<slot, chat, regen, said, loopVars, inflight, ear, stops,
                 disturbed>>

\* The tick has read the transcript.  If there is something to condense and it
\* is time (two new frames, or silence), a cycle starts with a read of its own.
\* What tpProcessedLen is compared with here is the number of segments.
Checked(k, due) ==
  /\ cycle[k].stage = "checking"
  /\ cycle' = IF due /\ said[cycle[k].conv] > loop.processed
                   /\ slot.kind = "tp" /\ inflight = None
              THEN [cycle EXCEPT ![k].stage = "loading", ![k].conv = slot.conv]
              ELSE Ended(k)
  /\ UNCHANGED <<slot, chat, regen, said, loopVars, inflight, ear, stops, disturbed>>

\* The cycle has its slice of text: it is empty, the pinned peer has gone, or
\* the slice goes to the model.
Loaded(k) ==
  LET end == Text(said[cycle[k].conv]) IN
  /\ cycle[k].stage = "loading"
  /\ \/ /\ end <= loop.processed
        /\ loop' = [loop EXCEPT !.processed = end]
        /\ cycle' = Ended(k)
        /\ UNCHANGED <<slot, inflight, ear>>
     \/ /\ end > loop.processed /\ loop.pin
        /\ slot' = [slot EXCEPT !.status = "paused"]
        /\ cycle' = [Cut(ear) EXCEPT ![k] = NoCycle]
        /\ inflight' = None /\ ear' = None
        /\ UNCHANGED loop
     \/ /\ end > loop.processed
        /\ inflight' = k
        /\ cycle' = [cycle EXCEPT ![k] =
             [@ EXCEPT !.stage = IF loop.pin THEN "inferring" ELSE "opening",
                       !.from = loop.processed, !.end = end]]
        /\ UNCHANGED <<slot, loop, ear>>
  /\ UNCHANGED <<chat, regen, said, timers, seeding, stops,
                 disturbed>>

\* A local cycle listens to its stream.
Listens(k) ==
  /\ cycle[k].stage = "opening"
  /\ cycle' = [cycle EXCEPT ![k].stage = "inferring"]
  /\ ear' = k
  /\ UNCHANGED <<slot, chat, regen, said, loopVars, inflight, stops,
                 disturbed>>

\* The finally block of a cycle: it drops the listener and the stream id,
\* whoever's they are.
Finally(k) ==
  /\ cycle' = [Cut(ear) EXCEPT ![k] = NoCycle]
  /\ inflight' = None
  /\ ear' = None

\* Mutant of Advance: the marker moves to where the transcript ends by now.
AdvanceToLive(k) ==
  /\ loop' = [loop EXCEPT !.processed = Text(said[cycle[k].conv])]
  /\ Finally(k)

\* A slice is dealt with: both markers move, to where they stood at its start.
Advance(k) ==
  /\ loop' = [loop EXCEPT !.processed = cycle[k].end]
  /\ Finally(k)

Fail(k) == UNCHANGED loop /\ Finally(k)

\* The stream ends: with bullets to merge, with none, or with an error.  A
\* cancelled stream ends like a finished one.
Inferred(k) ==
  /\ cycle[k].stage = "inferring"
  /\ \/ /\ cycle' = [cycle EXCEPT ![k].stage = "merging"]
        /\ UNCHANGED <<loop, inflight, ear>>
     \/ Advance(k)
     \/ Fail(k)
  /\ UNCHANGED <<slot, chat, regen, said, timers, seeding, stops, disturbed>>

\* The bullets are saved with the conversation that was summarised, or the
\* save fails.
Merged(k) ==
  /\ cycle[k].stage = "merging"
  /\ Advance(k) \/ Fail(k)
  /\ UNCHANGED <<slot, chat, regen, said, timers, seeding, stops, disturbed>>

----------------------------------------------------------------------------
Chats ==
  \/ \E c \in Conversation : Send(c) \/ StopAndSend(c) \/ Claim(c) \/ Release(c)
  \/ ForceStop

TalkingPoints ==
  \/ Seeded \/ Pause \/ Resume \/ Stop \/ StopResumes
  \/ \E c \in Recorded : Activate(c)
  \/ \E k \in Cycle : \/ Tick(k) \/ Loaded(k) \/ Listens(k) \/ Inferred(k) \/ Merged(k)
                      \/ \E due \in BOOLEAN : Checked(k, due)
                      \/ ReadFails(k)

Regeneration == RegenEnds \/ \E c \in Recorded : Regenerate(c)

Next == Chats \/ TalkingPoints \/ Regeneration \/ \E c \in Recorded : Stored(c)

Spec == Init /\ [][Next]_vars

----------------------------------------------------------------------------
(***************************************************************************)
(* Properties.                                                             *)
(***************************************************************************)

\* The slot never stays taken by nobody: whatever claims and releases overlap,
\* behind a taken slot there is a run that will release it, a loop that ticks,
\* a regeneration, or a stop that is about to free it.
TakenByLiveWork ==
  /\ slot.kind = "chat" => chat[slot.conv].running > 0
  /\ slot.kind = "tp" => timers > 0 \/ regen \/ stops > 0

\* No speech is passed over: while no start and no other read overlaps, the
\* marker of a loop moves only over the slice that starts at it and that the
\* model's whole reply, merged or empty, has condensed.
NothingSkipped ==
  [][loop'.processed # loop.processed
     /\ slot.kind = "tp" /\ loop.set /\ loop'.set /\ seeding' = seeding /\ ~disturbed' =>
       \E k \in Cycle : /\ cycle[k].stage \in {"inferring", "merging"}
                        /\ ~cycle[k].cut
                        /\ cycle[k].conv = slot.conv
                        /\ cycle[k].from = loop.processed
                        /\ cycle[k].end = loop'.processed]_vars
=============================================================================
