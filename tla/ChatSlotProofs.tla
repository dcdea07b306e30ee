-------------------------- MODULE ChatSlotProofs --------------------------
(***************************************************************************)
(* Proofs about ChatSlot for every number of conversations, runs, cycles,  *)
(* intervals and segments, and every width of a segment: who stands behind *)
(* a taken slot, and that the Talking Points loop passes no speech over.   *)
(***************************************************************************)
EXTENDS ChatSlot, TLAPS

SlotRecord == [kind : {"none", "chat", "tp"}, conv : Conversation \cup {None},
               status : {"idle", "running", "paused"}]
LoopRecord == [set : BOOLEAN, pin : BOOLEAN, processed : 0 .. Text(Segments)]
CycleRecord == [stage : {"none", "checking", "loading", "opening", "inferring", "merging"},
                conv : Conversation \cup {None}, from : 0 .. Text(Segments),
                end : 0 .. Text(Segments), cut : BOOLEAN]

\* The stages of a cycle that has its slice of the transcript.
Slicing == {"opening", "inferring", "merging"}

\* An interval ticks for a loop that is set.
TimersInv == loop.set => timers > 0

\* A listener belongs to a cycle whose stream is open.
EarInv == ear # None => cycle[ear].stage \in {"inferring", "merging"}

\* Cycles read recorded conversations, and no slice ends behind the transcript.
CycleInv ==
  /\ \A k \in Busy : cycle[k].conv \in Recorded
  /\ \A k \in Cycle : cycle[k].stage \in Slicing =>
       cycle[k].end <= Text(said[cycle[k].conv])

\* Whose the slot can be.
SlotInv ==
  /\ slot.kind = "chat" => slot.conv \in Conversation
  /\ slot.kind = "tp" => slot.conv \in Recorded

\* The loop that has the slot, as long as no start, tick or regeneration
\* overlaps another: it has one cycle at most, which is about its conversation
\* and its marker, and which nobody has cut short; until it is seeded it has
\* none; and its marker is not behind the end of the transcript.
LoopInv ==
  slot.kind = "tp" /\ loop.set /\ ~disturbed =>
    /\ seeding # None => Busy = {} /\ seeding = slot.conv
    /\ loop.processed <= Text(said[slot.conv])
    /\ \A j, k \in Busy : j = k
    /\ \A k \in Busy : cycle[k].conv = slot.conv /\ ~cycle[k].cut
    /\ \A k \in Cycle : cycle[k].stage \in Slicing =>
         inflight = k /\ cycle[k].from = loop.processed

----------------------------------------------------------------------------
\* Helpers.

LEMMA TextMonotone ==
  ASSUME NEW a \in Nat, NEW b \in Nat, a <= b
  PROVE  Text(a) \in Nat /\ Text(a) <= Text(b) /\ a <= Text(a)
<1>1. PICK w \in Nat : Width = w + 1
  BY WidthAssumption
<1>2. PICK d \in Nat : b = a + d
  BY b - a \in Nat
<1>3. w * a \in Nat /\ w * d \in Nat
  OBVIOUS
<1>4. Text(a) = w * a + a
  BY <1>1 DEF Text
<1>5. Text(b) = (w * a + a) + (w * d + d)
  BY <1>1, <1>2 DEF Text
<1>. QED  BY <1>3, <1>4, <1>5

\* The text of a transcript is no longer than the longest.
LEMMA SaidText ==
  ASSUME TypeOK, NEW c \in Recorded
  PROVE  /\ said[c] \in Nat /\ said[c] <= Segments
         /\ Text(said[c]) \in 0 .. Text(Segments)
         /\ said[c] \in 0 .. Text(Segments)
         /\ said[c] <= Text(said[c])
<1>1. said[c] \in Nat /\ said[c] <= Segments
  BY BoundsAssumption DEF TypeOK
<1>2. Text(said[c]) \in Nat /\ Text(said[c]) <= Text(Segments) /\ said[c] <= Text(said[c])
  BY <1>1, TextMonotone, BoundsAssumption
<1>3. Text(Segments) \in Nat
  BY TextMonotone, BoundsAssumption
<1>. QED  BY <1>1, <1>2, <1>3

LEMMA ZeroType == Text(Segments) \in Nat /\ 0 \in 0 .. Text(Segments)
BY TextMonotone, BoundsAssumption

LEMMA FreeType == Free \in SlotRecord /\ Free.kind = "none"
BY DEF Free, SlotRecord

LEMMA NoCycleType == NoCycle \in CycleRecord /\ NoCycle.stage = "none"
BY ZeroType DEF NoCycle, CycleRecord

\* The types of the state, one variable at a time.
LEMMA Types ==
  TypeOK <=> /\ slot \in SlotRecord
             /\ chat \in [Conversation -> [preparing : Nat, running : Nat]]
             /\ regen \in BOOLEAN
             /\ said \in [Recorded -> 0 .. Segments]
             /\ loop \in LoopRecord
             /\ timers \in 0 .. Timers
             /\ seeding \in Recorded \cup {None}
             /\ inflight \in Cycle \cup {None}
             /\ ear \in Cycle \cup {None}
             /\ cycle \in [Cycle -> CycleRecord]
             /\ stops \in 0 .. Stops
             /\ disturbed \in BOOLEAN
BY DEF TypeOK, SlotRecord, LoopRecord, CycleRecord

LEMMA TypesAfter ==
  ASSUME slot' \in SlotRecord,
         chat' \in [Conversation -> [preparing : Nat, running : Nat]],
         regen' \in BOOLEAN, said' \in [Recorded -> 0 .. Segments], loop' \in LoopRecord,
         timers' \in 0 .. Timers, seeding' \in Recorded \cup {None},
         inflight' \in Cycle \cup {None}, ear' \in Cycle \cup {None},
         cycle' \in [Cycle -> CycleRecord], stops' \in 0 .. Stops, disturbed' \in BOOLEAN
  PROVE  TypeOK'
BY DEF TypeOK, SlotRecord, LoopRecord, CycleRecord

LEMMA PrepareStep ==
  ASSUME NEW c, Prepare(c)
  PROVE  chat' = [chat EXCEPT ![c].preparing = @ + 1]
BY Zenon DEF Prepare

\* Cutting a cycle short leaves everything but its flag.
LEMMA CutShort ==
  ASSUME TypeOK, NEW k \in Cycle \cup {None}
  PROVE  /\ Cut(k) \in [Cycle -> CycleRecord]
         /\ \A j \in Cycle : /\ Cut(k)[j].stage = cycle[j].stage
                             /\ Cut(k)[j].conv = cycle[j].conv
                             /\ Cut(k)[j].from = cycle[j].from
                             /\ Cut(k)[j].end = cycle[j].end
                             /\ j # k => Cut(k)[j].cut = cycle[j].cut
<1>1. CASE k = None
  BY <1>1, Types, NoneAssumption DEF Cut
<1>2. CASE k # None
  <2>1. k \in Cycle /\ cycle \in [Cycle -> CycleRecord]
    BY <1>2, Types
  <2>2. PICK cut \in BOOLEAN : Cut(k) = [cycle EXCEPT ![k].cut = cut]
    <3>1. (cycle[k].cut \/ cycle[k].stage # "none") \in BOOLEAN
      OBVIOUS
    <3>2. Cut(k) = [cycle EXCEPT ![k].cut = cycle[k].cut \/ cycle[k].stage # "none"]
      BY <1>2, <2>1 DEF Cut
    <3>. QED  BY <3>1, <3>2
  <2>. QED  BY <2>1, <2>2 DEF CycleRecord
<1>. QED  BY <1>1, <1>2

----------------------------------------------------------------------------
\* The types.

LEMMA InitType == Init => TypeOK
<1>. SUFFICES ASSUME Init  PROVE TypeOK
  OBVIOUS
<1>1. loop \in LoopRecord
  BY ZeroType DEF Init, LoopRecord
<1>2. said \in [Recorded -> 0 .. Segments] /\ timers \in 0 .. Timers /\ stops \in 0 .. Stops
  BY BoundsAssumption DEF Init
<1>3. slot \in SlotRecord /\ cycle \in [Cycle -> CycleRecord]
  BY FreeType, NoCycleType DEF Init
<1>4. chat \in [Conversation -> [preparing : Nat, running : Nat]]
  BY DEF Init
<1>. QED  BY <1>1, <1>2, <1>3, <1>4, Types DEF Init

LEMMA ChatsType ==
  ASSUME TypeOK, Chats
  PROVE  TypeOK'
<1>. USE Types, FreeType
<1>1. slot' \in SlotRecord
  <2>1. ASSUME NEW c \in Conversation
        PROVE  [kind |-> "chat", conv |-> c, status |-> "running"] \in SlotRecord
    BY DEF SlotRecord
  <2>. QED  BY <2>1 DEF Chats, Send, StopAndSend, Claim, Release, ForceStop
<1>2. chat' \in [Conversation -> [preparing : Nat, running : Nat]]
  <2>1. ASSUME NEW c \in Conversation, Send(c) \/ StopAndSend(c)
        PROVE  chat' \in [Conversation -> [preparing : Nat, running : Nat]]
    BY <2>1, PrepareStep DEF Send, StopAndSend
  <2>2. ASSUME NEW c \in Conversation, Claim(c)
        PROVE  chat' \in [Conversation -> [preparing : Nat, running : Nat]]
    BY <2>2 DEF Claim
  <2>3. ASSUME NEW c \in Conversation, Release(c)
        PROVE  chat' \in [Conversation -> [preparing : Nat, running : Nat]]
    BY <2>3 DEF Release
  <2>. QED  BY <2>1, <2>2, <2>3 DEF Chats, ForceStop
<1>3. UNCHANGED <<regen, said, loopVars, cycleVars, stops, disturbed>>
  BY DEF Chats, Send, StopAndSend, Claim, Release, ForceStop
<1>. QED  BY <1>1, <1>2, <1>3, TypesAfter DEF loopVars, cycleVars

LEMMA RegenerationType ==
  ASSUME TypeOK, Regeneration
  PROVE  TypeOK'
<1>. USE Types, FreeType
<1>1. ASSUME NEW c \in Recorded, Regenerate(c)  PROVE TypeOK'
  <2>1. slot' \in SlotRecord
    BY <1>1, RecordedAssumption DEF Regenerate, SlotRecord
  <2>2. disturbed' \in BOOLEAN
    BY <1>1, Zenon DEF Regenerate, LoopRecord
  <2>. QED  BY <1>1, <2>1, <2>2, TypesAfter DEF Regenerate, loopVars, cycleVars
<1>2. CASE RegenEnds
  BY <1>2, TypesAfter DEF RegenEnds, loopVars, cycleVars
<1>. QED  BY <1>1, <1>2 DEF Regeneration

LEMMA StoredType ==
  ASSUME TypeOK, NEW c \in Recorded, Stored(c)
  PROVE  TypeOK'
<1>1. said' \in [Recorded -> 0 .. Segments]
  BY Types, BoundsAssumption DEF Stored
<1>. QED  BY <1>1, Types, TypesAfter DEF Stored, loopVars, cycleVars

\* What a start does.
LEMMA StartedType ==
  ASSUME TypeOK, NEW c \in Recorded, Started(c)
  PROVE  /\ slot' \in SlotRecord /\ slot'.kind = "tp" /\ slot'.conv = c
         /\ loop' \in LoopRecord /\ loop'.set = TRUE /\ loop'.processed = 0
         /\ timers' = timers + 1 /\ timers' \in 0 .. Timers
         /\ seeding' = c /\ disturbed' \in BOOLEAN
         /\ ~disturbed' => ~disturbed /\ Busy = {}
<1>. USE Types
<1>1. slot' \in SlotRecord /\ slot'.kind = "tp" /\ slot'.conv = c
  BY RecordedAssumption DEF Started, Free, SlotRecord
<1>2. loop' \in LoopRecord /\ loop'.set = TRUE /\ loop'.processed = 0
  BY ZeroType DEF Started, LoopRecord
<1>3. timers' = timers + 1 /\ timers' \in 0 .. Timers
  BY BoundsAssumption DEF Started
<1>4. seeding' = c
  BY DEF Started
<1>5. disturbed' = (disturbed \/ Busy # {})
  BY DEF Started
<1>. HIDE DEF Busy
<1>6. disturbed' \in BOOLEAN /\ (~disturbed' => ~disturbed /\ Busy = {})
  BY <1>5
<1>. QED  BY <1>1, <1>2, <1>3, <1>4, <1>6

\* A start, a pause and a stop.
LEMMA ControlType ==
  ASSUME TypeOK, TimersInv,
         \/ Seeded \/ Pause \/ Resume \/ Stop \/ StopResumes
         \/ \E c \in Recorded : Activate(c)
  PROVE  TypeOK'
<1>. USE Types, FreeType
<1>1. CASE Seeded
  <2>1. loop' \in LoopRecord
    BY <1>1, SaidText, NoneAssumption DEF Seeded, LoopRecord
  <2>. QED  BY <1>1, <2>1, TypesAfter DEF Seeded, cycleVars
<1>2. CASE Pause \/ Resume
  <2>1. slot' \in SlotRecord
    BY <1>2 DEF Pause, Resume, SlotRecord
  <2>. QED  BY <1>2, <2>1, TypesAfter DEF Pause, Resume, loopVars, cycleVars
<1>3. CASE Stop
  <2>1. timers' \in 0 .. Timers
    BY <1>3, BoundsAssumption DEF Stop, TimersInv
  <2>2. loop' \in LoopRecord /\ slot' \in SlotRecord
    BY <1>3 DEF Stop, LoopRecord
  <2>3. stops' \in 0 .. Stops
    BY <1>3, BoundsAssumption DEF Stop
  <2>4. cycle' \in [Cycle -> CycleRecord]
    BY <1>3, CutShort DEF Stop
  <2>. QED  BY <1>3, <2>1, <2>2, <2>3, <2>4, TypesAfter DEF Stop
<1>4. CASE StopResumes
  <2>1. cycle' \in [Cycle -> CycleRecord]
    BY <1>4, CutShort DEF StopResumes
  <2>2. stops' \in 0 .. Stops
    BY <1>4, BoundsAssumption DEF StopResumes
  <2>3. ASSUME NEW c \in Recorded, Started(c)  PROVE TypeOK'
    BY <1>4, <2>1, <2>2, <2>3, StartedType, TypesAfter DEF StopResumes
  <2>4. ASSUME slot' = Free, loop' = [loop EXCEPT !.pin = FALSE],
               UNCHANGED <<timers, seeding, disturbed>>
        PROVE  TypeOK'
    <3>1. loop' \in LoopRecord
      BY <2>4 DEF LoopRecord
    <3>. QED  BY <1>4, <2>1, <2>2, <2>4, <3>1, TypesAfter DEF StopResumes
  <2>. QED  BY <1>4, <2>3, <2>4 DEF StopResumes
<1>5. ASSUME NEW c \in Recorded, Activate(c)  PROVE TypeOK'
  BY <1>5, StartedType, TypesAfter DEF Activate, cycleVars
<1>. QED  BY <1>1, <1>2, <1>3, <1>4, <1>5

\* What a cycle does when it ends.
LEMMA EndedType ==
  ASSUME TypeOK, NEW k \in Cycle
  PROVE  /\ Ended(k) \in [Cycle -> CycleRecord]
         /\ Ended(k)[k] = NoCycle
         /\ \A j \in Cycle \ {k} : Ended(k)[j] = cycle[j]
BY Types, NoCycleType DEF Ended

LEMMA FinallyType ==
  ASSUME TypeOK, NEW k \in Cycle, cycle' = [Cut(ear) EXCEPT ![k] = NoCycle]
  PROVE  /\ cycle' \in [Cycle -> CycleRecord]
         /\ cycle'[k] = NoCycle
         /\ \A j \in Cycle \ {k} : /\ cycle'[j].stage = cycle[j].stage
                                   /\ cycle'[j].conv = cycle[j].conv
                                   /\ cycle'[j].from = cycle[j].from
                                   /\ cycle'[j].end = cycle[j].end
                                   /\ j # ear => cycle'[j].cut = cycle[j].cut
<1>1. ear \in Cycle \cup {None}
  BY Types
<1>2. Cut(ear) \in [Cycle -> CycleRecord]
  BY <1>1, CutShort
<1>. HIDE DEF Cut
<1>3. /\ cycle' \in [Cycle -> CycleRecord] /\ cycle'[k] = NoCycle
      /\ \A j \in Cycle \ {k} : cycle'[j] = Cut(ear)[j]
  BY <1>2, NoCycleType
<1>. QED  BY <1>1, <1>3, CutShort

\* A tick starts a cycle that reads, or pauses the loop.
LEMMA TickStep ==
  ASSUME TypeOK, NEW k \in Cycle, Tick(k)
  PROVE  /\ TypeOK'
         /\ slot'.kind = slot.kind /\ slot'.conv = slot.conv
         /\ cycle[k].stage = "none" /\ inflight = None /\ slot.kind = "tp"
         /\ cycle' = cycle
              \/ /\ cycle'[k].stage = "checking" /\ cycle'[k].conv = slot.conv
                 /\ cycle'[k].cut = FALSE
                 /\ \A j \in Cycle \ {k} : cycle'[j] = cycle[j]
                 /\ ~disturbed' => seeding = None /\
                      \A j \in Cycle : cycle[j].stage \notin {"checking", "loading"}
         /\ ~disturbed' => ~disturbed
<1>. USE Types
<1>1. CASE slot' = [slot EXCEPT !.status = "paused"] /\ UNCHANGED <<cycle, disturbed>>
  <2>1. slot' \in SlotRecord
    BY <1>1 DEF SlotRecord
  <2>2. slot'.kind = slot.kind /\ slot'.conv = slot.conv
    BY <1>1 DEF SlotRecord
  <2>3. TypeOK'
    BY <1>1, <2>1, TypesAfter DEF Tick, loopVars
  <2>. QED  BY <1>1, <2>2, <2>3 DEF Tick
<1>2. CASE /\ cycle' = [cycle EXCEPT ![k] = [NoCycle EXCEPT !.stage = "checking",
                                                           !.conv = slot.conv]]
           /\ disturbed' = (disturbed \/ seeding # None \/
                \E j \in Cycle : cycle[j].stage \in {"checking", "loading"})
           /\ UNCHANGED slot
  <2>. DEFINE new == [NoCycle EXCEPT !.stage = "checking", !.conv = slot.conv]
  <2>1. /\ new \in CycleRecord /\ new.stage = "checking" /\ new.conv = slot.conv
        /\ new.cut = FALSE
    BY ZeroType DEF NoCycle, CycleRecord, SlotRecord
  <2>. HIDE DEF new
  <2>2. cycle' = [cycle EXCEPT ![k] = new]
    BY <1>2 DEF new
  <2>3. /\ cycle' \in [Cycle -> CycleRecord] /\ cycle'[k] = new
        /\ \A j \in Cycle \ {k} : cycle'[j] = cycle[j]
    BY <2>1, <2>2
  <2>4. disturbed' \in BOOLEAN
    BY <1>2, Zenon
  <2>5. ~disturbed' => ~disturbed /\ seeding = None /\
          \A j \in Cycle : cycle[j].stage \notin {"checking", "loading"}
    BY <1>2, Zenon
  <2>6. TypeOK'
    BY <1>2, <2>3, <2>4, TypesAfter DEF Tick, loopVars
  <2>. QED  BY <1>2, <2>1, <2>3, <2>5, <2>6 DEF Tick
<1>. QED  BY <1>1, <1>2 DEF Tick

\* The reads of a cycle.
LEMMA ReadStep ==
  ASSUME TypeOK, NEW k \in Cycle, ReadFails(k) \/ \E due \in BOOLEAN : Checked(k, due)
  PROVE  /\ TypeOK'
         /\ UNCHANGED <<slot, loopVars, inflight, ear, disturbed, said>>
         /\ cycle[k].stage \in {"checking", "loading"}
         /\ \A j \in Cycle \ {k} : cycle'[j] = cycle[j]
         /\ \/ cycle'[k] = NoCycle
            \/ /\ cycle'[k].stage = "loading" /\ cycle'[k].conv = slot.conv
               /\ slot.kind = "tp" /\ cycle'[k].cut = cycle[k].cut
<1>. USE Types
<1>1. CASE cycle' = Ended(k)
  <2>1. TypeOK'
    BY <1>1, EndedType, TypesAfter DEF ReadFails, Checked, loopVars
  <2>. QED  BY <1>1, <2>1, EndedType DEF ReadFails, Checked
<1>2. CASE /\ cycle' = [cycle EXCEPT ![k].stage = "loading", ![k].conv = slot.conv]
           /\ slot.kind = "tp" /\ \E due \in BOOLEAN : Checked(k, due)
  <2>1. slot.conv \in Conversation \cup {None}
    BY DEF SlotRecord
  <2>2. PICK conv \in Conversation \cup {None} : conv = slot.conv
    BY <2>1
  <2>3. cycle' = [cycle EXCEPT ![k].stage = "loading", ![k].conv = conv]
    BY <1>2, <2>2
  <2>4. /\ cycle' \in [Cycle -> CycleRecord]
        /\ cycle'[k].stage = "loading" /\ cycle'[k].conv = conv
        /\ cycle'[k].cut = cycle[k].cut
        /\ \A j \in Cycle \ {k} : cycle'[j] = cycle[j]
    BY <2>3 DEF CycleRecord
  <2>5. UNCHANGED <<slot, chat, regen, said, loopVars, inflight, ear, stops, disturbed>>
        /\ cycle[k].stage = "checking"
    BY <1>2 DEF Checked
  <2>6. TypeOK'
    BY <2>4, <2>5, TypesAfter DEF loopVars
  <2>. QED  BY <1>2, <2>2, <2>4, <2>5, <2>6
<1>. QED  BY <1>1, <1>2 DEF ReadFails, Checked

\* A cycle has its slice.
LEMMA SliceStep ==
  ASSUME TypeOK, CycleInv, NEW k \in Cycle, Loaded(k)
  PROVE  /\ TypeOK'
         /\ slot'.kind = slot.kind /\ slot'.conv = slot.conv
         /\ loop'.set = loop.set /\ UNCHANGED <<timers, seeding, disturbed, said>>
         /\ cycle[k].stage = "loading" /\ cycle[k].conv \in Recorded
         /\ \/ /\ Text(said[cycle[k].conv]) <= loop.processed
               /\ loop'.processed = Text(said[cycle[k].conv])
               /\ cycle'[k] = NoCycle /\ UNCHANGED ear
               /\ \A j \in Cycle \ {k} : cycle'[j] = cycle[j]
            \/ /\ cycle' = [Cut(ear) EXCEPT ![k] = NoCycle]
               /\ UNCHANGED loop /\ ear' = None
            \/ /\ inflight' = k /\ UNCHANGED <<loop, ear>>
               /\ cycle'[k].stage \in Slicing /\ cycle'[k].conv = cycle[k].conv
               /\ (cycle'[k].stage = "inferring" \/ cycle'[k].stage = "opening")
               /\ cycle'[k].cut = cycle[k].cut
               /\ cycle'[k].from = loop.processed
               /\ cycle'[k].end = Text(said[cycle[k].conv])
               /\ \A j \in Cycle \ {k} : cycle'[j] = cycle[j]
<1>. USE Types
<1>. DEFINE end == Text(said[cycle[k].conv])
<1>1. cycle[k].stage = "loading" /\ cycle[k].conv \in Recorded
  BY DEF Loaded, CycleInv, Busy
<1>2. end \in 0 .. Text(Segments)
  BY <1>1, SaidText
<1>3. PICK e \in 0 .. Text(Segments) : e = end
  BY <1>2
<1>. HIDE DEF end
<1>4. CASE /\ end <= loop.processed
           /\ loop' = [loop EXCEPT !.processed = end]
           /\ cycle' = Ended(k)
           /\ UNCHANGED <<slot, inflight, ear>>
  <2>1. loop' \in LoopRecord /\ loop'.set = loop.set /\ loop'.processed = end
    BY <1>3, <1>4 DEF LoopRecord
  <2>2. TypeOK'
    BY <1>4, <2>1, EndedType, TypesAfter DEF Loaded
  <2>. QED  BY <1>1, <1>4, <2>1, <2>2, EndedType DEF Loaded, end
<1>5. CASE /\ slot' = [slot EXCEPT !.status = "paused"]
           /\ cycle' = [Cut(ear) EXCEPT ![k] = NoCycle]
           /\ inflight' = None /\ ear' = None
           /\ UNCHANGED loop
  <2>1. slot' \in SlotRecord /\ slot'.kind = slot.kind /\ slot'.conv = slot.conv
    BY <1>5 DEF SlotRecord
  <2>2. TypeOK'
    BY <1>5, <2>1, FinallyType, TypesAfter DEF Loaded
  <2>. QED  BY <1>1, <1>5, <2>1, <2>2 DEF Loaded
<1>6. CASE /\ inflight' = k
           /\ cycle' = [cycle EXCEPT ![k] =
                [@ EXCEPT !.stage = IF loop.pin THEN "inferring" ELSE "opening",
                          !.from = loop.processed, !.end = end]]
           /\ UNCHANGED <<slot, loop, ear>>
  <2>1. PICK from \in 0 .. Text(Segments) : from = loop.processed
    BY DEF LoopRecord
  <2>2. PICK stage \in {"inferring", "opening"} :
          stage = IF loop.pin THEN "inferring" ELSE "opening"
    OBVIOUS
  <2>. DEFINE new == [cycle[k] EXCEPT !.stage = stage, !.from = from, !.end = e]
  <2>3. /\ new \in CycleRecord /\ new.stage = stage /\ new.from = from /\ new.end = e
        /\ new.conv = cycle[k].conv /\ new.cut = cycle[k].cut
    BY DEF CycleRecord
  <2>4. cycle' = [cycle EXCEPT ![k] = new]
    BY <1>3, <1>6, <2>1, <2>2
  <2>. HIDE DEF new
  <2>5. /\ cycle' \in [Cycle -> CycleRecord] /\ cycle'[k] = new
        /\ \A j \in Cycle \ {k} : cycle'[j] = cycle[j]
    BY <2>3, <2>4
  <2>6. TypeOK'
    BY <1>6, <2>5, TypesAfter DEF Loaded
  <2>. QED  BY <1>1, <1>3, <1>6, <2>1, <2>2, <2>3, <2>5, <2>6 DEF Loaded, Slicing, end
<1>. QED  BY <1>4, <1>5, <1>6 DEF Loaded, end

LEMMA ListenStep ==
  ASSUME TypeOK, NEW k \in Cycle, Listens(k)
  PROVE  /\ TypeOK'
         /\ UNCHANGED <<slot, loopVars, inflight, disturbed, said>> /\ ear' = k
         /\ cycle[k].stage = "opening" /\ cycle'[k] = [cycle[k] EXCEPT !.stage = "inferring"]
         /\ \A j \in Cycle \ {k} : cycle'[j] = cycle[j]
<1>. USE Types
<1>1. cycle' \in [Cycle -> CycleRecord]
  BY DEF Listens, CycleRecord
<1>2. TypeOK'
  BY <1>1, TypesAfter DEF Listens, loopVars
<1>. QED  BY <1>2 DEF Listens

\* A stream ends, or the bullets have been merged.
LEMMA ReplyStep ==
  ASSUME TypeOK, NEW k \in Cycle, Inferred(k) \/ Merged(k)
  PROVE  /\ TypeOK'
         /\ UNCHANGED <<slot, timers, seeding, disturbed, said>> /\ loop'.set = loop.set
         /\ cycle[k].stage \in {"inferring", "merging"}
         /\ \/ /\ cycle'[k] = [cycle[k] EXCEPT !.stage = "merging"]
               /\ UNCHANGED <<loop, inflight, ear>>
               /\ \A j \in Cycle \ {k} : cycle'[j] = cycle[j]
            \/ /\ cycle' = [Cut(ear) EXCEPT ![k] = NoCycle] /\ ear' = None
               /\ loop' = loop \/ loop'.processed = cycle[k].end
<1>. USE Types
<1>1. UNCHANGED <<slot, chat, regen, said, timers, seeding, stops, disturbed>>
      /\ cycle[k].stage \in {"inferring", "merging"}
  BY DEF Inferred, Merged
<1>2. CASE cycle' = [cycle EXCEPT ![k].stage = "merging"] /\ UNCHANGED <<loop, inflight, ear>>
  <2>1. cycle' \in [Cycle -> CycleRecord]
    BY <1>2 DEF CycleRecord
  <2>2. TypeOK'
    BY <1>1, <1>2, <2>1, TypesAfter
  <2>. QED  BY <1>1, <1>2, <2>2
<1>3. CASE Advance(k) \/ Fail(k)
  <2>1. PICK end \in 0 .. Text(Segments) : end = cycle[k].end
    BY DEF CycleRecord
  <2>2. loop' = loop \/ loop' = [loop EXCEPT !.processed = end]
    BY <1>3, <2>1 DEF Advance, Fail
  <2>3. loop' \in LoopRecord /\ loop'.set = loop.set
        /\ (loop' = loop \/ loop'.processed = end)
    BY <2>2 DEF LoopRecord
  <2>4. cycle' = [Cut(ear) EXCEPT ![k] = NoCycle] /\ inflight' = None /\ ear' = None
    BY <1>3 DEF Advance, Fail, Finally
  <2>5. TypeOK'
    BY <1>1, <2>3, <2>4, FinallyType, TypesAfter
  <2>. QED  BY <1>1, <2>1, <2>3, <2>4, <2>5
<1>. QED  BY <1>2, <1>3 DEF Inferred, Merged

----------------------------------------------------------------------------
\* The invariants are preserved.

LoopIInv ==
  /\ TypeOK
  /\ TimersInv
  /\ EarInv
  /\ CycleInv
  /\ SlotInv
  /\ TakenByLiveWork
  /\ LoopInv

LEMMA InitLoopIInv == Init => LoopIInv
<1>. SUFFICES ASSUME Init  PROVE LoopIInv
  OBVIOUS
<1>1. TimersInv /\ EarInv /\ SlotInv /\ TakenByLiveWork /\ LoopInv
  BY DEF Init, TimersInv, EarInv, SlotInv, TakenByLiveWork, LoopInv, Free
<1>2. CycleInv
  BY DEF Init, CycleInv, Busy, NoCycle, Slicing
<1>. QED  BY <1>1, <1>2, InitType DEF LoopIInv

\* The cycles that there are do not depend on the flag.
LEMMA BusyAfter ==
  ASSUME \A j \in Cycle : cycle'[j].stage = cycle[j].stage
  PROVE  Busy' = Busy
BY DEF Busy

\* A chat only takes the slot or leaves it.
LEMMA ChatsStep ==
  ASSUME LoopIInv, Chats
  PROVE  LoopIInv'
<1>1. TypeOK'
  BY ChatsType DEF LoopIInv
<1>2. UNCHANGED <<regen, said, loop, timers, seeding, inflight, ear, cycle, stops, disturbed>>
  BY DEF Chats, Send, StopAndSend, Claim, Release, ForceStop, loopVars, cycleVars
<1>3. TimersInv' /\ EarInv' /\ CycleInv'
  BY <1>2 DEF LoopIInv, TimersInv, EarInv, CycleInv, Busy
<1>4. /\ slot'.kind = "tp" => slot' = slot
      /\ slot'.kind = "chat" => slot'.conv \in Conversation /\ chat'[slot'.conv].running > 0
  <2>. USE Types DEF LoopIInv
  <2>1. ASSUME NEW c \in Conversation, Send(c)
        PROVE  slot' = slot /\ (slot.kind = "chat" => chat'[slot.conv].running > 0)
    BY <2>1, PrepareStep DEF Send, SlotInv, TakenByLiveWork
  <2>2. ASSUME NEW c \in Conversation, StopAndSend(c)
        PROVE  slot'.kind = "none"
    BY <2>2, FreeType DEF StopAndSend
  <2>3. ASSUME NEW c \in Conversation, Claim(c)
        PROVE  /\ slot'.kind = "tp" => slot' = slot
               /\ slot'.kind = "chat" => slot'.conv \in Conversation
                                         /\ chat'[slot'.conv].running > 0
    <3>1. /\ chat'[c].running > 0
          /\ \A e \in Conversation : chat[e].running > 0 => chat'[e].running > 0
      BY <2>3 DEF Claim
    <3>2. slot' = slot \/ slot' = [kind |-> "chat", conv |-> c, status |-> "running"]
      BY <2>3 DEF Claim
    <3>. QED  BY <3>1, <3>2 DEF SlotInv, TakenByLiveWork
  <2>4. ASSUME NEW c \in Conversation, Release(c)
        PROVE  /\ slot' = slot \/ slot'.kind = "none"
               /\ slot'.kind = "chat" => slot'.conv \in Conversation
                                         /\ chat'[slot'.conv].running > 0
    <3>1. \A e \in Conversation \ {c} : chat'[e] = chat[e]
      BY <2>4 DEF Release
    <3>2. slot' = IF slot.kind = "chat" /\ slot.conv = c THEN Free ELSE slot
      BY <2>4 DEF Release
    <3>. QED  BY <3>1, <3>2, FreeType DEF SlotInv, TakenByLiveWork
  <2>5. CASE ForceStop
    BY <2>5, FreeType DEF ForceStop
  <2>. QED  BY <2>1, <2>2, <2>3, <2>4, <2>5 DEF Chats, SlotInv
<1>5. SlotInv' /\ TakenByLiveWork'
  BY <1>2, <1>4 DEF LoopIInv, SlotInv, TakenByLiveWork
<1>6. LoopInv'
  BY <1>2, <1>4 DEF LoopIInv, LoopInv, Busy
<1>. QED  BY <1>1, <1>3, <1>5, <1>6 DEF LoopIInv

\* Regeneration takes the slot for a conversation of its own; if a loop is set,
\* that disturbs it.
LEMMA RegenerationStep ==
  ASSUME LoopIInv, Regeneration
  PROVE  LoopIInv'
<1>1. TypeOK'
  BY RegenerationType DEF LoopIInv
<1>2. UNCHANGED <<said, loop, timers, seeding, inflight, ear, cycle, stops, chat>>
  BY DEF Regeneration, Regenerate, RegenEnds, loopVars, cycleVars
<1>3. TimersInv' /\ EarInv' /\ CycleInv'
  BY <1>2 DEF LoopIInv, TimersInv, EarInv, CycleInv, Busy
<1>4. ASSUME NEW c \in Recorded, Regenerate(c)
      PROVE  SlotInv' /\ TakenByLiveWork' /\ LoopInv'
  <2>1. slot'.kind = "tp" /\ slot'.conv = c /\ regen' = TRUE
    BY <1>4, Types DEF LoopIInv, Regenerate, SlotRecord
  <2>2. ~disturbed' => ~loop.set
    BY <1>4, Zenon DEF Regenerate
  <2>. QED  BY <1>2, <2>1, <2>2 DEF SlotInv, TakenByLiveWork, LoopInv
<1>5. CASE RegenEnds
  <2>1. slot'.kind = "none"
    BY <1>5, FreeType DEF RegenEnds
  <2>. QED  BY <1>1, <1>3, <2>1 DEF LoopIInv, SlotInv, TakenByLiveWork, LoopInv
<1>. QED  BY <1>1, <1>3, <1>4, <1>5 DEF Regeneration, LoopIInv

\* The transcript only grows.
LEMMA StoredStep ==
  ASSUME LoopIInv, NEW c \in Recorded, Stored(c)
  PROVE  LoopIInv'
<1>. USE DEF LoopIInv
<1>1. TypeOK'
  BY StoredType
<1>2. UNCHANGED <<slot, chat, regen, loop, timers, seeding, inflight, ear, cycle, stops,
                  disturbed>>
  BY DEF Stored, loopVars, cycleVars
<1>3. ASSUME NEW e \in Recorded
      PROVE  Text(said[e]) \in Nat /\ Text(said'[e]) \in Nat /\ Text(said[e]) <= Text(said'[e])
  <2>1. said[e] \in Nat /\ said'[e] \in Nat /\ said[e] <= said'[e]
    BY SaidText, Types DEF Stored
  <2>. QED  BY <2>1, TextMonotone
<1>4. CycleInv'
  <2>1. ASSUME NEW k \in Cycle, cycle[k].stage \in Slicing
        PROVE  cycle[k].end <= Text(said'[cycle[k].conv])
    <3>1. cycle[k].conv \in Recorded /\ cycle[k].end <= Text(said[cycle[k].conv])
      BY <2>1 DEF CycleInv, Busy, Slicing
    <3>2. cycle[k].end \in Nat
      BY Types, ZeroType DEF CycleRecord
    <3>. QED  BY <1>3, <3>1, <3>2
  <2>. QED  BY <1>2, <2>1 DEF CycleInv, Busy
<1>5. LoopInv'
  <2>1. slot.kind = "tp" /\ loop.processed <= Text(said[slot.conv]) =>
          loop.processed <= Text(said'[slot.conv])
    <3>1. loop.processed \in Nat
      BY Types, ZeroType DEF LoopRecord
    <3>. QED  BY <1>3, <3>1 DEF SlotInv
  <2>. QED  BY <1>2, <2>1 DEF LoopInv, Busy
<1>. QED  BY <1>1, <1>2, <1>4, <1>5 DEF TimersInv, EarInv, SlotInv, TakenByLiveWork

\* A fresh loop has no cycle and has condensed nothing, or is disturbed.
LEMMA FreshLoop ==
  ASSUME LoopIInv, NEW c \in Recorded, Started(c), UNCHANGED said,
         \A j \in Cycle : cycle'[j].stage = cycle[j].stage
  PROVE  TimersInv' /\ SlotInv' /\ LoopInv'
         /\ slot'.kind = "tp" /\ timers' > 0
<1>. USE StartedType DEF LoopIInv
<1>1. timers' > 0
  <2>1. timers' = timers + 1 /\ timers \in 0 .. Timers
    BY Types
  <2>. QED  BY <2>1, BoundsAssumption, SMT
<1>2. TimersInv' /\ SlotInv'
  BY <1>1 DEF TimersInv, SlotInv
<1>3. ASSUME ~disturbed'
      PROVE  /\ Busy' = {} /\ seeding' = slot'.conv
             /\ loop'.processed <= Text(said'[slot'.conv])
             /\ \A k \in Cycle : cycle'[k].stage = "none"
  <2>1. Busy' = {}
    BY <1>3, BusyAfter
  <2>2. 0 <= Text(said[c])
    BY SaidText
  <2>. QED  BY <2>1, <2>2 DEF Busy
<1>4. LoopInv'
  BY <1>3 DEF LoopInv, Slicing
<1>. QED  BY <1>1, <1>2, <1>4

LEMMA ControlStep ==
  ASSUME LoopIInv,
         \/ Seeded \/ Pause \/ Resume \/ Stop \/ StopResumes
         \/ \E c \in Recorded : Activate(c)
  PROVE  LoopIInv'
<1>. USE DEF LoopIInv
<1>1. TypeOK'
  BY ControlType
<1>2. CASE Seeded
  <2>1. UNCHANGED <<slot, chat, regen, said, timers, cycle, inflight, ear, stops, disturbed>>
        /\ seeding' = None /\ seeding \in Recorded /\ loop'.set = loop.set
        /\ (loop' = loop \/ loop'.processed = said[seeding])
    BY <1>2, Types DEF Seeded, cycleVars, LoopRecord
  <2>2. TimersInv' /\ EarInv' /\ CycleInv' /\ SlotInv' /\ TakenByLiveWork'
    BY <2>1 DEF TimersInv, EarInv, CycleInv, SlotInv, TakenByLiveWork, Busy
  <2>3. ASSUME slot.kind = "tp", loop.set, ~disturbed
        PROVE  /\ Busy = {}
               /\ loop'.processed <= Text(said[slot.conv])
    BY <2>1, <2>3, NoneAssumption, RecordedAssumption, SaidText DEF LoopInv
  <2>4. LoopInv'
    BY <2>1, <2>3 DEF LoopInv, Busy, Slicing
  <2>. QED  BY <1>1, <2>2, <2>4
<1>3. CASE Pause \/ Resume
  <2>1. UNCHANGED <<chat, regen, said, loop, timers, seeding, cycle, inflight, ear, stops,
                    disturbed>>
        /\ slot'.kind = slot.kind /\ slot'.conv = slot.conv
    BY <1>3, Types DEF Pause, Resume, loopVars, cycleVars, SlotRecord
  <2>. QED  BY <1>1, <2>1 DEF TimersInv, EarInv, CycleInv, SlotInv, TakenByLiveWork, LoopInv, Busy
<1>4. CASE Stop
  <2>1. loop'.set = FALSE /\ UNCHANGED <<said, ear, chat, regen>>
    BY <1>4, Types DEF Stop, LoopRecord
  <2>2. TimersInv' /\ LoopInv'
    BY <2>1 DEF TimersInv, LoopInv
  <2>3. ASSUME NEW j \in Cycle
        PROVE  /\ cycle'[j].stage = cycle[j].stage /\ cycle'[j].conv = cycle[j].conv
               /\ cycle'[j].end = cycle[j].end
    BY <1>4, CutShort, Types DEF Stop
  <2>4. EarInv' /\ CycleInv'
    <3>1. ear \in Cycle \cup {None}
      BY Types
    <3>. QED  BY <2>1, <2>3, <3>1, BusyAfter DEF EarInv, CycleInv, Busy
  <2>5. \/ slot' = slot /\ slot.kind = "tp" /\ stops' > 0
        \/ slot'.kind = "none"
    BY <1>4, FreeType, Types DEF Stop
  <2>6. SlotInv' /\ TakenByLiveWork'
    BY <2>5 DEF SlotInv, TakenByLiveWork
  <2>. QED  BY <1>1, <2>2, <2>4, <2>6
<1>5. CASE StopResumes
  <2>1. ear' = None /\ UNCHANGED said
    BY <1>5 DEF StopResumes
  <2>2. ASSUME NEW j \in Cycle
        PROVE  /\ cycle'[j].stage = cycle[j].stage /\ cycle'[j].conv = cycle[j].conv
               /\ cycle'[j].end = cycle[j].end
    BY <1>5, CutShort, Types DEF StopResumes
  <2>3. EarInv' /\ CycleInv'
    BY <2>1, <2>2 DEF EarInv, CycleInv, Busy
  <2>4. ASSUME NEW c \in Recorded, Started(c)  PROVE LoopIInv'
    <3>1. TimersInv' /\ SlotInv' /\ LoopInv' /\ slot'.kind = "tp" /\ timers' > 0
      BY <2>1, <2>2, <2>4, FreshLoop
    <3>. QED  BY <1>1, <2>3, <3>1 DEF TakenByLiveWork
  <2>5. ASSUME slot' = Free, loop' = [loop EXCEPT !.pin = FALSE],
               UNCHANGED <<timers, seeding, disturbed>>
        PROVE  LoopIInv'
    <3>1. slot'.kind = "none" /\ loop'.set = loop.set
      BY <2>5, FreeType, Types DEF LoopRecord
    <3>. QED  BY <1>1, <2>3, <2>5, <3>1 DEF TimersInv, SlotInv, TakenByLiveWork, LoopInv
  <2>. QED  BY <1>5, <2>4, <2>5 DEF StopResumes
<1>6. ASSUME NEW c \in Recorded, Activate(c)  PROVE LoopIInv'
  <2>1. Started(c) /\ UNCHANGED <<said, cycle, inflight, ear>>
    BY <1>6 DEF Activate, cycleVars
  <2>2. TimersInv' /\ SlotInv' /\ LoopInv' /\ slot'.kind = "tp" /\ timers' > 0
    BY <2>1, FreshLoop
  <2>3. EarInv' /\ CycleInv'
    BY <2>1 DEF EarInv, CycleInv, Busy
  <2>. QED  BY <1>1, <2>2, <2>3 DEF TakenByLiveWork
<1>. QED  BY <1>2, <1>3, <1>4, <1>5, <1>6

LEMMA TickKeeps ==
  ASSUME LoopIInv, NEW k \in Cycle, Tick(k)
  PROVE  LoopIInv'
<1>. USE DEF LoopIInv
<1>1. /\ TypeOK'
      /\ slot'.kind = slot.kind /\ slot'.conv = slot.conv
      /\ cycle[k].stage = "none" /\ inflight = None /\ slot.kind = "tp"
      /\ ~disturbed' => ~disturbed
      /\ UNCHANGED <<chat, regen, said, loop, timers, seeding, inflight, ear, stops>>
  BY TickStep DEF Tick, loopVars
<1>2. TimersInv' /\ SlotInv' /\ TakenByLiveWork'
  BY <1>1 DEF TimersInv, SlotInv, TakenByLiveWork
<1>3. CASE cycle' = cycle
  BY <1>1, <1>2, <1>3 DEF EarInv, CycleInv, LoopInv, Busy
<1>4. CASE cycle' # cycle
  <2>1. /\ cycle'[k].stage = "checking" /\ cycle'[k].conv = slot.conv
        /\ cycle'[k].cut = FALSE
        /\ \A j \in Cycle \ {k} : cycle'[j] = cycle[j]
        /\ ~disturbed' => seeding = None /\
             \A j \in Cycle : cycle[j].stage \notin {"checking", "loading"}
    BY <1>4, TickStep
  <2>2. EarInv'
    BY <1>1, <2>1, Types DEF EarInv
  <2>3. CycleInv'
    BY <1>1, <2>1 DEF CycleInv, Busy, Slicing, SlotInv
  <2>4. ASSUME loop.set, ~disturbed'
        PROVE  \A j \in Cycle \ {k} : cycle[j].stage = "none"
    <3>1. SUFFICES ASSUME NEW j \in Cycle \ {k}, cycle[j].stage # "none"  PROVE FALSE
      OBVIOUS
    <3>2. cycle[j].stage \in Slicing
      BY <2>1, <2>4, <3>1, Types DEF CycleRecord, Slicing
    <3>. QED  BY <1>1, <2>4, <3>2, NoneAssumption DEF LoopInv
  <2>5. LoopInv'
    BY <1>1, <2>1, <2>4 DEF LoopInv, Busy, Slicing
  <2>. QED  BY <1>1, <1>2, <2>2, <2>3, <2>5
<1>. QED  BY <1>3, <1>4

LEMMA ReadKeeps ==
  ASSUME LoopIInv, NEW k \in Cycle, ReadFails(k) \/ \E due \in BOOLEAN : Checked(k, due)
  PROVE  LoopIInv'
<1>. USE DEF LoopIInv
<1>1. TypeOK'
      /\ UNCHANGED <<slot, loop, timers, seeding, inflight, ear, disturbed, said, chat, regen,
                     stops>>
  BY ReadStep DEF ReadFails, Checked, loopVars
<1>2. TimersInv' /\ SlotInv' /\ TakenByLiveWork'
  BY <1>1 DEF TimersInv, SlotInv, TakenByLiveWork
<1>3. /\ cycle[k].stage \in {"checking", "loading"}
      /\ \A j \in Cycle \ {k} : cycle'[j] = cycle[j]
      /\ \/ cycle'[k].stage = "none"
         \/ /\ cycle'[k].stage = "loading" /\ cycle'[k].conv = slot.conv
            /\ slot.kind = "tp" /\ cycle'[k].cut = cycle[k].cut
  BY ReadStep, NoCycleType
<1>4. EarInv'
  BY <1>1, <1>3, Types DEF EarInv
<1>5. CycleInv'
  BY <1>1, <1>3 DEF CycleInv, Busy, Slicing, SlotInv
<1>6. LoopInv'
  BY <1>1, <1>3 DEF LoopInv, Busy, Slicing
<1>. QED  BY <1>1, <1>2, <1>4, <1>5, <1>6

LEMMA SliceKeeps ==
  ASSUME LoopIInv, NEW k \in Cycle, Loaded(k)
  PROVE  LoopIInv'
<1>. USE DEF LoopIInv
<1>1. /\ TypeOK'
      /\ slot'.kind = slot.kind /\ slot'.conv = slot.conv /\ loop'.set = loop.set
      /\ UNCHANGED <<timers, seeding, disturbed, said, chat, regen, stops>>
      /\ cycle[k].stage = "loading" /\ cycle[k].conv \in Recorded
  BY SliceStep DEF Loaded
<1>2. TimersInv' /\ SlotInv' /\ TakenByLiveWork'
  BY <1>1 DEF TimersInv, SlotInv, TakenByLiveWork
<1>. DEFINE end == Text(said[cycle[k].conv])
<1>3. /\ end \in Nat
      /\ loop.processed \in Nat
  BY <1>1, SaidText, Types, ZeroType DEF LoopRecord
<1>4. CASE /\ end <= loop.processed /\ loop'.processed = end
           /\ cycle'[k] = NoCycle /\ UNCHANGED ear
           /\ \A j \in Cycle \ {k} : cycle'[j] = cycle[j]
  <2>1. EarInv' /\ CycleInv'
    BY <1>1, <1>4, NoCycleType, Types DEF EarInv, CycleInv, Busy, Slicing
  <2>2. ASSUME slot.kind = "tp", loop.set, ~disturbed
        PROVE  /\ loop'.processed <= Text(said[slot.conv])
               /\ seeding = None
               /\ \A j \in Cycle : cycle'[j].stage = "none"
    <3>1. k \in Busy
      BY <1>1 DEF Busy
    <3>2. \A j \in Cycle \ {k} : j \notin Busy
      BY <2>2, <3>1 DEF LoopInv
    <3>3. cycle[k].conv = slot.conv /\ seeding = None
      BY <2>2, <3>1 DEF LoopInv
    <3>. QED  BY <1>3, <1>4, <3>2, <3>3, NoCycleType DEF Busy
  <2>3. LoopInv'
    BY <1>1, <2>2 DEF LoopInv, Busy, Slicing
  <2>. QED  BY <1>1, <1>2, <2>1, <2>3
<1>5. CASE /\ cycle' = [Cut(ear) EXCEPT ![k] = NoCycle]
           /\ UNCHANGED loop /\ ear' = None
  <2>1. /\ cycle'[k] = NoCycle
        /\ \A j \in Cycle \ {k} : /\ cycle'[j].stage = cycle[j].stage
                                  /\ cycle'[j].conv = cycle[j].conv
                                  /\ cycle'[j].end = cycle[j].end
    BY <1>5, FinallyType
  <2>2. EarInv' /\ CycleInv'
    BY <1>1, <1>5, <2>1, NoCycleType DEF EarInv, CycleInv, Busy, Slicing
  <2>3. ASSUME slot.kind = "tp", loop.set, ~disturbed
        PROVE  seeding = None /\ \A j \in Cycle : cycle'[j].stage = "none"
    <3>1. k \in Busy
      BY <1>1 DEF Busy
    <3>2. \A j \in Cycle \ {k} : j \notin Busy
      BY <2>3, <3>1 DEF LoopInv
    <3>. QED  BY <2>1, <2>3, <3>1, <3>2, NoCycleType DEF LoopInv, Busy
  <2>4. LoopInv'
    BY <1>1, <1>5, <2>3 DEF LoopInv, Busy, Slicing
  <2>. QED  BY <1>1, <1>2, <2>2, <2>4
<1>6. CASE /\ inflight' = k /\ UNCHANGED <<loop, ear>>
           /\ cycle'[k].stage \in Slicing /\ cycle'[k].conv = cycle[k].conv
           /\ (cycle'[k].stage = "inferring" \/ cycle'[k].stage = "opening")
           /\ cycle'[k].cut = cycle[k].cut
           /\ cycle'[k].from = loop.processed
           /\ cycle'[k].end = end
           /\ \A j \in Cycle \ {k} : cycle'[j] = cycle[j]
  <2>1. EarInv'
    BY <1>1, <1>6, Types DEF EarInv
  <2>2. CycleInv'
    BY <1>1, <1>3, <1>6 DEF CycleInv, Busy, Slicing
  <2>3. ASSUME slot.kind = "tp", loop.set, ~disturbed
        PROVE  /\ seeding = None /\ cycle[k].conv = slot.conv /\ ~cycle[k].cut
               /\ \A j \in Cycle \ {k} : cycle[j].stage = "none"
    BY <1>1, <2>3 DEF LoopInv, Busy
  <2>4. LoopInv'
    BY <1>1, <1>6, <2>3 DEF LoopInv, Busy, Slicing
  <2>. QED  BY <1>1, <1>2, <2>1, <2>2, <2>4
<1>. QED  BY <1>4, <1>5, <1>6, SliceStep

LEMMA ListenKeeps ==
  ASSUME LoopIInv, NEW k \in Cycle, Listens(k)
  PROVE  LoopIInv'
<1>. USE DEF LoopIInv
<1>1. /\ TypeOK' /\ ear' = k
      /\ UNCHANGED <<slot, loop, timers, seeding, inflight, disturbed, said, chat, regen, stops>>
      /\ \A j \in Cycle \ {k} : cycle'[j] = cycle[j]
  BY ListenStep DEF Listens, loopVars
<1>2. /\ cycle[k].stage = "opening" /\ cycle'[k].stage = "inferring"
      /\ cycle'[k].conv = cycle[k].conv /\ cycle'[k].from = cycle[k].from
      /\ cycle'[k].end = cycle[k].end /\ cycle'[k].cut = cycle[k].cut
  <2>1. cycle[k] \in CycleRecord
    BY Types
  <2>2. cycle[k].stage = "opening" /\ cycle'[k] = [cycle[k] EXCEPT !.stage = "inferring"]
    BY ListenStep
  <2>. HIDE DEF LoopIInv
  <2>. QED  BY <2>1, <2>2 DEF CycleRecord
<1>3. TimersInv' /\ SlotInv' /\ TakenByLiveWork' /\ EarInv'
  BY <1>1, <1>2 DEF TimersInv, SlotInv, TakenByLiveWork, EarInv
<1>4. CycleInv'
  BY <1>1, <1>2 DEF CycleInv, Busy, Slicing
<1>5. LoopInv'
  BY <1>1, <1>2 DEF LoopInv, Busy, Slicing
<1>. QED  BY <1>1, <1>3, <1>4, <1>5

LEMMA ReplyKeeps ==
  ASSUME LoopIInv, NEW k \in Cycle, Inferred(k) \/ Merged(k)
  PROVE  LoopIInv'
<1>. USE DEF LoopIInv
<1>1. /\ TypeOK' /\ loop'.set = loop.set
      /\ UNCHANGED <<slot, timers, seeding, disturbed, said, chat, regen, stops>>
      /\ cycle[k].stage \in {"inferring", "merging"}
  BY ReplyStep DEF Inferred, Merged
<1>2. TimersInv' /\ SlotInv' /\ TakenByLiveWork'
  BY <1>1 DEF TimersInv, SlotInv, TakenByLiveWork
<1>3. CASE /\ cycle'[k] = [cycle[k] EXCEPT !.stage = "merging"]
           /\ UNCHANGED <<loop, inflight, ear>>
           /\ \A j \in Cycle \ {k} : cycle'[j] = cycle[j]
  <2>1. /\ cycle'[k].stage = "merging"
        /\ cycle'[k].conv = cycle[k].conv /\ cycle'[k].from = cycle[k].from
        /\ cycle'[k].end = cycle[k].end /\ cycle'[k].cut = cycle[k].cut
    BY <1>3, Types DEF CycleRecord
  <2>2. EarInv'
    BY <1>3, <2>1, Types DEF EarInv
  <2>3. CycleInv'
    BY <1>1, <1>3, <2>1 DEF CycleInv, Busy, Slicing
  <2>4. LoopInv'
    <3>1. /\ Busy' = Busy
          /\ \A j \in Cycle : /\ cycle'[j].conv = cycle[j].conv
                              /\ cycle'[j].cut = cycle[j].cut
                              /\ cycle'[j].from = cycle[j].from
                              /\ cycle'[j].stage \in Slicing => cycle[j].stage \in Slicing
      BY <1>1, <1>3, <2>1 DEF Busy, Slicing
    <3>2. \A j \in Busy : j \in Cycle
      BY DEF Busy
    <3>. QED  BY <1>1, <1>3, <3>1, <3>2, Zenon DEF LoopInv
  <2>. QED  BY <1>1, <1>2, <2>2, <2>3, <2>4
<1>4. CASE /\ cycle' = [Cut(ear) EXCEPT ![k] = NoCycle] /\ ear' = None
           /\ loop' = loop \/ loop'.processed = cycle[k].end
  <2>1. /\ cycle'[k] = NoCycle
        /\ \A j \in Cycle \ {k} : /\ cycle'[j].stage = cycle[j].stage
                                  /\ cycle'[j].conv = cycle[j].conv
                                  /\ cycle'[j].end = cycle[j].end
    BY <1>4, FinallyType
  <2>2. EarInv' /\ CycleInv'
    BY <1>1, <1>4, <2>1, NoCycleType DEF EarInv, CycleInv, Busy, Slicing
  <2>3. ASSUME slot.kind = "tp", loop.set, ~disturbed
        PROVE  /\ seeding = None /\ loop'.processed <= Text(said[slot.conv])
               /\ \A j \in Cycle : cycle'[j].stage = "none"
    <3>1. k \in Busy /\ cycle[k].stage \in Slicing
      BY <1>1 DEF Busy, Slicing
    <3>2. \A j \in Cycle \ {k} : j \notin Busy
      BY <2>3, <3>1 DEF LoopInv
    <3>3. cycle[k].conv = slot.conv /\ seeding = None /\ loop.processed <= Text(said[slot.conv])
      BY <2>3, <3>1 DEF LoopInv
    <3>4. cycle[k].end <= Text(said[slot.conv])
      BY <3>1, <3>3 DEF CycleInv
    <3>. QED  BY <1>4, <2>1, <3>2, <3>3, <3>4, NoCycleType DEF Busy
  <2>4. LoopInv'
    BY <1>1, <2>3 DEF LoopInv, Busy, Slicing
  <2>. QED  BY <1>1, <1>2, <2>2, <2>4
<1>. QED  BY <1>3, <1>4, ReplyStep

LEMMA LoopInductive == Spec => []LoopIInv
<1>1. LoopIInv /\ [Next]_vars => LoopIInv'
  <2>. SUFFICES ASSUME LoopIInv, [Next]_vars  PROVE LoopIInv'
    OBVIOUS
  <2>1. CASE TalkingPoints
    BY <2>1, ControlStep, TickKeeps, ReadKeeps, SliceKeeps, ListenKeeps, ReplyKeeps
       DEF TalkingPoints
  <2>2. CASE UNCHANGED vars
    BY <2>2 DEF vars, loopVars, cycleVars, LoopIInv, TypeOK, TimersInv, EarInv, CycleInv,
                SlotInv, TakenByLiveWork, LoopInv, Busy
  <2>. QED  BY <2>1, <2>2, ChatsStep, RegenerationStep, StoredStep DEF Next
<1>. QED  BY <1>1, InitLoopIInv, PTL DEF Spec

----------------------------------------------------------------------------
\* The state stays well typed: no start, stop or slice leads out of the ranges.
THEOREM TypeCorrect == Spec => []TypeOK
<1>1. LoopIInv => TypeOK
  BY DEF LoopIInv
<1>. QED  BY <1>1, LoopInductive, PTL

\* A taken slot is never left behind: chatSlot is a chat's only while one of
\* its runs will call releaseChat, and the Talking Points loop's only while an
\* interval ticks, a regeneration awaits its reply or a stop awaits its cancel.
THEOREM SlotBacked == Spec => []TakenByLiveWork
<1>1. LoopIInv => TakenByLiveWork
  BY DEF LoopIInv
<1>. QED  BY <1>1, LoopInductive, PTL

\* The step that moves tpProcessedLen is the end of the one cycle there is.
LEMMA MarkerStep ==
  ASSUME LoopIInv, [Next]_vars, loop'.processed # loop.processed,
         slot.kind = "tp", loop.set, loop'.set, seeding' = seeding, ~disturbed'
  PROVE  \E k \in Cycle : /\ cycle[k].stage \in {"inferring", "merging"}
                          /\ ~cycle[k].cut
                          /\ cycle[k].conv = slot.conv
                          /\ cycle[k].from = loop.processed
                          /\ cycle[k].end = loop'.processed
<1>. USE DEF LoopIInv
<1>1. CASE Chats \/ Regeneration \/ \E c \in Recorded : Stored(c)
  BY <1>1 DEF Chats, Send, StopAndSend, Claim, Release, ForceStop, Regeneration, Regenerate,
              RegenEnds, Stored, loopVars
<1>2. CASE Pause \/ Resume \/ Stop \/ UNCHANGED vars
  <2>1. CASE Stop
    BY <2>1, Types DEF Stop, LoopRecord
  <2>. QED  BY <1>2, <2>1 DEF Pause, Resume, vars, loopVars
<1>3. CASE Seeded
  BY <1>3 DEF Seeded
<1>4. ASSUME NEW c \in Recorded, Started(c)  PROVE FALSE
  BY <1>4, RecordedAssumption, NoneAssumption DEF Started
<1>5. CASE StopResumes
  <2>1. ASSUME loop' = [loop EXCEPT !.pin = FALSE]  PROVE loop'.processed = loop.processed
    BY <2>1, Types DEF LoopRecord
  <2>. QED  BY <1>4, <1>5, <2>1 DEF StopResumes
<1>6. ASSUME NEW c \in Recorded, Activate(c)  PROVE FALSE
  BY <1>4, <1>6 DEF Activate
<1>7. ASSUME NEW k \in Cycle, Tick(k) \/ Listens(k) \/ ReadFails(k)
      PROVE  loop'.processed = loop.processed
  BY <1>7 DEF Tick, Listens, ReadFails, loopVars
<1>8. ASSUME NEW k \in Cycle, NEW due \in BOOLEAN, Checked(k, due)
      PROVE  loop'.processed = loop.processed
  BY <1>8 DEF Checked, loopVars
<1>9. ASSUME NEW k \in Cycle, Loaded(k)  PROVE loop'.processed = loop.processed
  <2>1. ~disturbed /\ k \in Busy /\ cycle[k].conv \in Recorded
    BY <1>9, SliceStep DEF Busy
  <2>2. cycle[k].conv = slot.conv /\ loop.processed <= Text(said[cycle[k].conv])
    BY <2>1 DEF LoopInv
  <2>3. loop.processed \in Nat /\ Text(said[cycle[k].conv]) \in Nat
    BY <2>1, SaidText, Types, ZeroType DEF LoopRecord
  <2>4. \/ UNCHANGED loop
        \/ /\ Text(said[cycle[k].conv]) <= loop.processed
           /\ loop'.processed = Text(said[cycle[k].conv])
    BY <1>9, SliceStep
  <2>. QED  BY <2>2, <2>3, <2>4
<1>10. ASSUME NEW k \in Cycle, Inferred(k) \/ Merged(k)
       PROVE  /\ cycle[k].stage \in {"inferring", "merging"}
              /\ ~cycle[k].cut
              /\ cycle[k].conv = slot.conv
              /\ cycle[k].from = loop.processed
              /\ cycle[k].end = loop'.processed
  <2>1. /\ cycle[k].stage \in {"inferring", "merging"} /\ UNCHANGED disturbed
        /\ loop'.processed = cycle[k].end
    BY <1>10, ReplyStep
  <2>2. k \in Busy /\ cycle[k].stage \in Slicing
    BY <2>1 DEF Busy, Slicing
  <2>. QED  BY <2>1, <2>2 DEF LoopInv
<1>. QED  BY <1>1, <1>2, <1>3, <1>5, <1>6, <1>7, <1>8, <1>9, <1>10
          DEF Next, TalkingPoints

\* No speech is passed over by the Talking Points loop: see NothingSkipped.
THEOREM SpeechCondensed == Spec => NothingSkipped
<1>1. LoopIInv /\ [Next]_vars =>
        [loop'.processed # loop.processed
         /\ slot.kind = "tp" /\ loop.set /\ loop'.set /\ seeding' = seeding /\ ~disturbed' =>
           \E k \in Cycle : /\ cycle[k].stage \in {"inferring", "merging"}
                            /\ ~cycle[k].cut
                            /\ cycle[k].conv = slot.conv
                            /\ cycle[k].from = loop.processed
                            /\ cycle[k].end = loop'.processed]_vars
  BY MarkerStep
<1>. QED  BY <1>1, LoopInductive, PTL DEF Spec, NothingSkipped
=============================================================================
