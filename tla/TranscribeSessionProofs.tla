---------------------- MODULE TranscribeSessionProofs ----------------------
(***************************************************************************)
(* Proofs about TranscribeSession, for any number of buffers, any queue,   *)
(* hop, window and limits: the recording is whole, a stopped session       *)
(* receives its backlog, a caption that was shown becomes a segment, and   *)
(* nothing is written twice.  In the second half, about Speakers, for any  *)
(* sessions, commands, voices, distances and limits: the means stay those  *)
(* of the clips, the listed clips have their files, and nobody is asked    *)
(* for twice.                                                              *)
(***************************************************************************)
EXTENDS TranscribeSession, Speakers, FiniteSetTheorems, SequenceTheorems, WellFoundedInduction, TLAPS

-----------------------------------------------------------------------------
(* The invariant.                                                          *)

\* A callback runs between stream.play and the end of drop(stream), with the
\* recorder open; what it let in is recorded, but for the buffer in its hands.
MicInv ==
  /\ cb.at # "idle" => source = "mic" /\ loop \in {"top", "recv", "hop", "flush", "teardown"}
  /\ ~recorder.open => loop \in {"done", "final"}
  /\ recorder.captured \subseteq recorder.blocks \cup IF cb.at = "passed" THEN {cb.buf} ELSE {}

\* A microphone's loop ends by a stop that found the queue empty, by a cancel
\* or because the recogniser gave up.
BacklogInv ==
  /\ AsrGaveUp => loop \in {"teardown", "finish", "done", "final"}
  /\ source = "mic" =>
       /\ inbox
       /\ loop \in {"starting", "failed"} => queue = <<>>
       /\ (loop \in {"flush", "teardown", "finish", "done", "final"} /\ ~flags.cancel /\ ~AsrGaveUp) =>
            /\ ToSet(queue) \subseteq late
            /\ loop \in {"flush", "teardown"} => flags.draining

\* Ids are taken in order, and only the open utterance has a caption that is
\* no segment yet.
CaptionInv ==
  /\ ids.shown \cup ids.final \subseteq 1..nextId - 1
  /\ utt.id < nextId /\ utt.id \notin ids.final
  /\ ids.shown \subseteq ids.final \cup {utt.id}
  /\ loop \in {"starting", "failed", "teardown", "finish", "done", "final"} /\ ~AsrGaveUp => utt.id = 0

\* What is written leaves the window and the open utterance.
TextInv ==
  /\ win \cup utt.agreed \cup written \subseteq pushed
  /\ (win \cup utt.agreed) \cap written = {}

\* The members of q lie between l and n, in order.
Between(q, l, n) ==
  /\ \A i \in 1..Len(q) : l < q[i] /\ q[i] < n
  /\ \A i, j \in 1..Len(q) : i < j => q[i] < q[j]

\* Buffers come in order: those up to l have been put in the window, or are
\* gone, those behind it have not.  Two ids per buffer are enough.
Order(l) ==
  /\ pushed \subseteq 1..l
  /\ l < next
  /\ cb.at # "idle" => l < cb.buf /\ cb.buf < next
  /\ Between(queue, l, IF cb.at = "idle" THEN next ELSE cb.buf)
  /\ nextId + (IF utt.id = 0 THEN 0 ELSE 1) <= (IF loop = "hop" THEN 2 * l - 1 ELSE 2 * l + 1)

OrderInv == \E l \in 0..Buffers : Order(l)

SessionInv == TypeOK /\ MicInv /\ BacklogInv /\ CaptionInv /\ TextInv /\ OrderInv

-----------------------------------------------------------------------------
(* The queue, and the window.                                              *)

LEMMA QueueIsSequence ==
  ASSUME NEW q
  PROVE  q \in BoundedSeq(Buffer, QueueSize) <=> q \in Seq(Buffer) /\ Len(q) <= QueueSize
<1>1. QueueSize \in Nat
  BY BoundsAssumption
<1>2. ASSUME q \in BoundedSeq(Buffer, QueueSize) PROVE q \in Seq(Buffer) /\ Len(q) <= QueueSize
  <2>1. PICK m \in 0..QueueSize : q \in [1..m -> Buffer]
    BY <1>2 DEF BoundedSeq, SeqOf
  <2>2. q \in Seq(Buffer) /\ Len(q) = m
    BY <2>1, <1>1
  <2> QED
    BY <2>1, <2>2, <1>1
<1>3. ASSUME q \in Seq(Buffer), Len(q) <= QueueSize PROVE q \in BoundedSeq(Buffer, QueueSize)
  <2>1. Len(q) \in 0..QueueSize /\ q \in [1..Len(q) -> Buffer]
    BY <1>3, <1>1
  <2> QED
    BY <2>1 DEF BoundedSeq, SeqOf
<1> QED
  BY <1>2, <1>3

LEMMA EmptyQueue == <<>> \in BoundedSeq(Buffer, QueueSize)
<1>1. <<>> \in Seq(Buffer) /\ Len(<<>>) <= QueueSize
  BY BoundsAssumption
<1> QED
  BY <1>1, QueueIsSequence

LEMMA QueueAppend ==
  ASSUME NEW q \in BoundedSeq(Buffer, QueueSize), Len(q) < QueueSize, NEW b \in Buffer
  PROVE  Append(q, b) \in BoundedSeq(Buffer, QueueSize)
<1>1. q \in Seq(Buffer)
  BY QueueIsSequence
<1>2. Append(q, b) \in Seq(Buffer) /\ Len(Append(q, b)) = Len(q) + 1
  BY <1>1
<1>3. Len(Append(q, b)) <= QueueSize
  BY <1>1, <1>2, BoundsAssumption
<1> QED
  BY <1>2, <1>3, QueueIsSequence

LEMMA QueueTail ==
  ASSUME NEW q \in BoundedSeq(Buffer, QueueSize), q # <<>>
  PROVE  Tail(q) \in BoundedSeq(Buffer, QueueSize) /\ Head(q) \in Buffer
<1>1. q \in Seq(Buffer) /\ Len(q) <= QueueSize
  BY QueueIsSequence
<1>2. Tail(q) \in Seq(Buffer) /\ Len(Tail(q)) <= QueueSize /\ Head(q) \in Buffer
  BY <1>1, BoundsAssumption
<1> QED
  BY <1>2, QueueIsSequence

\* What is queued behind everything else keeps the order.
LEMMA BetweenAppend ==
  ASSUME NEW q \in Seq(Nat), NEW l \in Nat, NEW b \in Nat, NEW n \in Nat,
         Between(q, l, b), l < b, b < n
  PROVE  Between(Append(q, b), l, n)
<1> DEFINE r == Append(q, b)
<1>1. Len(r) = Len(q) + 1 /\ Len(q) \in Nat /\ r[Len(q) + 1] = b
  OBVIOUS
<1>2. \A i \in 1..Len(q) : r[i] = q[i] /\ q[i] \in Nat
  OBVIOUS
<1>3. \A i \in 1..Len(q) : l < q[i] /\ q[i] < b
  BY DEF Between
<1>4. \A i \in 1..Len(r) : l < r[i] /\ r[i] < n
  BY <1>1, <1>2, <1>3
<1>5. \A i, j \in 1..Len(q) : i < j => q[i] < q[j]
  BY DEF Between
<1>6. \A i, j \in 1..Len(r) : i < j => r[i] < r[j]
  <2> SUFFICES ASSUME NEW i \in 1..Len(r), NEW j \in 1..Len(r), i < j PROVE r[i] < r[j]
    OBVIOUS
  <2>1. i \in 1..Len(q)
    BY <1>1
  <2>2. CASE j \in 1..Len(q)
    BY <1>2, <1>5, <2>1, <2>2
  <2>3. CASE j = Len(q) + 1
    <3> HIDE DEF r
    <3> QED
      BY <1>1, <1>2, <1>3, <2>1, <2>3
  <2>4. j \in 1..Len(q) \/ j = Len(q) + 1
    <3> HIDE DEF r
    <3> QED
      BY <1>1
  <2> QED
    BY <2>2, <2>3, <2>4
<1> QED
  BY <1>4, <1>6 DEF Between

\* Everything behind the head comes after it.
LEMMA BetweenTail ==
  ASSUME NEW q \in Seq(Nat), q # <<>>, NEW l \in Nat, NEW n \in Nat, Between(q, l, n)
  PROVE  Between(Tail(q), Head(q), n) /\ l < Head(q) /\ Head(q) < n
<1> DEFINE r == Tail(q)
<1>1. Len(q) \in Nat \ {0} /\ Len(r) = Len(q) - 1 /\ Head(q) = q[1]
  OBVIOUS
<1>2. \A i \in 1..Len(r) : r[i] = q[i + 1] /\ i + 1 \in 1..Len(q) /\ 1 < i + 1
  BY <1>1
<1>3. 1 \in 1..Len(q)
  BY <1>1
<1>4. \A i \in 1..Len(q) : l < q[i] /\ q[i] < n
  BY DEF Between
<1>5. \A i, j \in 1..Len(q) : i < j => q[i] < q[j]
  BY DEF Between
<1>6. \A i \in 1..Len(r) : Head(q) < r[i] /\ r[i] < n
  BY <1>1, <1>2, <1>3, <1>4, <1>5
<1>7. \A i, j \in 1..Len(r) : i < j => r[i] < r[j]
  <2> SUFFICES ASSUME NEW i \in 1..Len(r), NEW j \in 1..Len(r), i < j PROVE r[i] < r[j]
    OBVIOUS
  <2>1. i + 1 < j + 1
    OBVIOUS
  <2> QED
    BY <1>2, <1>5, <2>1
<1> QED
  BY <1>1, <1>3, <1>4, <1>6, <1>7 DEF Between

LEMMA BetweenMono ==
  ASSUME NEW q \in Seq(Nat), NEW l \in Nat, NEW n \in Nat, NEW m \in Nat, n <= m, Between(q, l, n)
  PROVE  Between(q, l, m)
BY DEF Between

\* A set of buffers that is not empty has a least one.
LEMMA LeastBuffer ==
  ASSUME NEW w \in SUBSET Buffer, w # {}
  PROVE  Min(w) \in w
<1>1. w \subseteq Nat
  BY BoundsAssumption DEF Buffer
<1>2. IsWellFoundedOn(OpToRel(<, Nat), Nat)
  BY NatLessThanWellFounded
<1>3. PICK x \in w : \A y \in w : ~ (<<y, x>> \in OpToRel(<, Nat))
  BY <1>1, <1>2, WFMin
<1>4. \A y \in w : x <= y
  <2>1. ASSUME NEW y \in w, y < x PROVE FALSE
    <3>1. <<y, x>> \in Nat \X Nat /\ <<y, x>>[1] < <<y, x>>[2]
      BY <1>1, <2>1
    <3>2. <<y, x>> \in OpToRel(<, Nat)
      BY <3>1 DEF OpToRel
    <3> QED
      BY <1>3, <3>2
  <2> QED
    BY <1>1, <2>1
<1> QED
  BY <1>4 DEF Min

\* StreamWindow.push never holds more than the window.
LEMMA PushedFits ==
  ASSUME NEW w \in SUBSET Buffer, Cardinality(w) <= Window, NEW b \in Buffer
  PROVE  /\ Pushed(w, b) \subseteq w \cup {b}
         /\ Cardinality(Pushed(w, b)) <= Window
<1>1. Window \in Nat \ {0} /\ Buffers \in Nat
  BY BoundsAssumption
<1>2. IsFiniteSet(w) /\ Cardinality(w) \in Nat
  <2>1. IsFiniteSet(Buffer)
    BY <1>1, FS_Interval DEF Buffer
  <2> QED
    BY <2>1, FS_Subset, FS_CardinalityType
<1>3. CASE Cardinality(w) < Window
  <2>1. Cardinality(w \cup {b}) <= Cardinality(w) + 1
    BY <1>2, FS_AddElement
  <2> QED
    <3>1. Pushed(w, b) = w \cup {b}
      BY <1>3 DEF Pushed
    <3>2. Cardinality(Pushed(w, b)) <= Window
      <4>1. Cardinality(w \cup {b}) \in Nat
        BY <1>2, FS_AddElement, FS_CardinalityType
      <4> QED
        BY <1>1, <1>2, <1>3, <2>1, <3>1, <4>1
    <3> QED
      BY <3>1, <3>2
<1>4. CASE ~(Cardinality(w) < Window)
  <2>1. w # {}
    BY <1>1, <1>4, FS_EmptySet
  <2>2. Min(w) \in w
    BY <2>1, LeastBuffer
  <2> DEFINE v == w \ {Min(w)}
  <2>3. IsFiniteSet(v) /\ Cardinality(v) = Cardinality(w) - 1
    BY <1>2, <2>2, FS_RemoveElement
  <2>4. Cardinality(v \cup {b}) <= Cardinality(v) + 1
    <3> HIDE DEF v
    <3>1. Cardinality(v) \in Nat
      BY <2>3, FS_CardinalityType
    <3> QED
      BY <2>3, <3>1, FS_AddElement
  <2>5. Pushed(w, b) = v \cup {b}
    BY <1>4 DEF Pushed
  <2> QED
    <3>1. Pushed(w, b) \subseteq w \cup {b}
      BY <2>5
    <3>2. Cardinality(v \cup {b}) \in Nat
      <4> HIDE DEF v
      <4> QED
        BY <2>3, FS_AddElement, FS_CardinalityType
    <3>3. Cardinality(Pushed(w, b)) <= Window
      <4> HIDE DEF v
      <4> QED
        BY <1>1, <1>2, <2>3, <2>4, <2>5, <3>2
    <3> QED
      BY <3>1, <3>3
<1> QED
  BY <1>3, <1>4

-----------------------------------------------------------------------------
(* What the hops, and the flush after them, do to the utterance.           *)

TextStep == DecodeText \/ DecodeNothing \/ DecodeFails \/ QuietHop \/ Flush

\* The utterance as a hop finds it or makes it: u, the next id, the captions.
Spoken(u, free, shown) ==
  \/ u = utt /\ free = nextId /\ shown = ids.shown
  \/ /\ loop = "hop"
     /\ u = [id |-> IF utt.id # 0 THEN utt.id ELSE nextId, agreed |-> utt.agreed \cup win]
     /\ free = (IF utt.id # 0 THEN nextId ELSE nextId + 1)
     /\ shown \subseteq ids.shown \cup {u.id}

\* The utterance stays open, or there is none and the window may be emptied.
StaysOpen(u, free, shown) ==
  /\ utt' = u /\ nextId' = free /\ written' = written
  /\ ids' = [ids EXCEPT !.shown = shown]
  /\ win' = win \/ (utt' = utt /\ utt.id = 0 /\ win' = {})

\* The utterance becomes segments with its own id and the n - 1 ids from free.
Closes(u, free, shown) ==
  /\ u.id # 0
  /\ utt' = NoUtterance /\ win' = {}
  /\ \E n \in 1..2 : EmitRuns(u, free, shown, n)
  /\ \E text \in SUBSET (win \cup utt.agreed) : written' = written \cup text

\* How the thread goes on.
Goes ==
  \/ loop = "hop" /\ loop' = "top" /\ errors' # ErrorLimit
  \/ loop = "hop" /\ loop' = "flush" /\ flags.cancel /\ errors' = errors
  \/ loop = "hop" /\ loop' = "teardown" /\ errors' = ErrorLimit
  \/ loop = "flush" /\ loop' = "teardown" /\ errors' = errors /\ utt'.id = 0

LEMMA FinalizeCloses ==
  ASSUME TypeOK, NEW u, NEW free, NEW shown, NEW h, u.id # 0,
         u.agreed \subseteq utt.agreed \cup win, h \subseteq win, Finalize(u, free, shown, h)
  PROVE  /\ Closes(u, free, shown)
         /\ heard' \subseteq heard \cup win \cup utt.agreed
<1>1. PICK text \in FinalTokens(u) :
        /\ \E n \in RunCounts(text) : EmitRuns(u, free, shown, n)
        /\ written' = written \cup text
        /\ heard' = heard \cup h \cup text
  BY DEF Finalize
<1>2. text \subseteq win \cup utt.agreed
  BY <1>1 DEF FinalTokens
<1>3. \E n \in 1..2 : EmitRuns(u, free, shown, n)
  BY <1>1 DEF RunCounts
<1>4. utt' = NoUtterance /\ win' = {}
  BY DEF Finalize, NextUtterance
<1> QED
  BY <1>1, <1>2, <1>3, <1>4 DEF Closes

LEMMA HopEndsForm ==
  ASSUME TypeOK, loop = "hop", NEW g, NEW u, NEW free, NEW shown, NEW h,
         u.agreed \subseteq utt.agreed \cup win, h \subseteq win, HopEnds(g, u, free, shown, h)
  PROVE  /\ StaysOpen(u, free, shown) \/ Closes(u, free, shown)
         /\ heard' \subseteq heard \cup win \cup utt.agreed
         /\ gate' \in {Reset(g.silero), Loud(g)}
         /\ loop' = "top"
<1>1. CASE u.id # 0 /\ Cardinality(win) = Window
  <2>1. Finalize(u, free, shown, h) /\ gate' = Reset(g.silero) /\ loop' = "top"
    BY <1>1 DEF HopEnds
  <2> QED
    BY <1>1, <2>1, FinalizeCloses
<1>2. CASE ~(u.id # 0 /\ Cardinality(win) = Window)
  BY <1>2 DEF HopEnds, StaysOpen
<1> QED
  BY <1>1, <1>2

\* The detectors keep their type.
LEMMA JudgesTyped ==
  ASSUME TypeOK, NEW g \in Judges
  PROVE  {g, Reset(g.silero), Loud(g), Quiet(g)}
           \subseteq [silero : BOOLEAN, speech : BOOLEAN, quiet : 0..Silence - 1]
<1> DEFINE G == [silero : BOOLEAN, speech : BOOLEAN, quiet : 0..Silence - 1]
<1>1. Silence \in Nat \ {0}
  BY BoundsAssumption
<1>2. g \in G
  <2>1. gate \in G
    BY DEF TypeOK
  <2>2. Reset(FALSE) \in G
    BY <1>1 DEF Reset
  <2> QED
    BY <2>1, <2>2 DEF Judges
<1>3. Reset(g.silero) \in G
  BY <1>1, <1>2 DEF Reset
<1>4. Loud(g) \in G
  <2>1. 0 \in 0..Silence - 1 /\ TRUE \in BOOLEAN
    BY <1>1
  <2> QED
    BY <1>2, <2>1 DEF Loud
<1>5. Quiet(g) \in G
  <2>1. CASE Endpoint(g)
    BY <1>3, <2>1 DEF Quiet
  <2>2. CASE ~Endpoint(g) /\ g.speech
    <3>1. g.quiet + 1 \in 0..Silence - 1
      BY <1>1, <1>2, <2>2 DEF Endpoint
    <3> QED
      BY <1>2, <2>2, <3>1 DEF Quiet
  <2>3. CASE ~Endpoint(g) /\ ~g.speech
    BY <1>2, <2>3 DEF Quiet
  <2> QED
    BY <2>1, <2>2, <2>3
<1> QED
  BY <1>2, <1>3, <1>4, <1>5

LEMMA TextStepForm ==
  ASSUME TypeOK, errors # ErrorLimit, TextStep
  PROVE  /\ UNCHANGED <<source, flags, audio, fresh, pushed>>
         /\ heard' \subseteq heard \cup win \cup utt.agreed
         /\ gate' \in [silero : BOOLEAN, speech : BOOLEAN, quiet : 0..Silence - 1]
         /\ errors' \in 0..ErrorLimit
         /\ Goes
         /\ \E u, free, shown : /\ Spoken(u, free, shown)
                                /\ StaysOpen(u, free, shown) \/ Closes(u, free, shown)
<1> DEFINE Form == \E u, free, shown : /\ Spoken(u, free, shown)
                                       /\ StaysOpen(u, free, shown) \/ Closes(u, free, shown)
<1>1. ErrorLimit \in Nat \ {0} /\ errors \in 0..ErrorLimit
  BY BoundsAssumption DEF TypeOK
<1>2. ASSUME UNCHANGED <<win, utt, nextId, ids, written>> PROVE Form
  <2>1. ids \in [shown : SUBSET (1..2 * Buffers), final : SUBSET (1..2 * Buffers)]
    BY DEF TypeOK
  <2>2. ids' = [ids EXCEPT !.shown = ids.shown]
    BY <1>2, <2>1
  <2>3. Spoken(utt, nextId, ids.shown) /\ StaysOpen(utt, nextId, ids.shown)
    BY <1>2, <2>2 DEF Spoken, StaysOpen
  <2> QED
    BY <2>3
<1>3. CASE DecodeText
  <2> DEFINE u == [id |-> IF utt.id # 0 THEN utt.id ELSE nextId, agreed |-> utt.agreed \cup win]
             free == IF utt.id # 0 THEN nextId ELSE nextId + 1
             shown == Caption(u, u.agreed)
  <2>1. PICK g \in Judges : HopEnds(g, u, free, shown, win)
    BY <1>3 DEF DecodeText
  <2>2. loop = "hop" /\ errors' = 0 /\ UNCHANGED <<source, flags, audio, fresh, pushed>>
    BY <1>3 DEF DecodeText
  <2>3. Spoken(u, free, shown)
    BY <2>2 DEF Spoken, Caption
  <2>4. u.agreed \subseteq utt.agreed \cup win
    OBVIOUS
  <2> HIDE DEF u, free, shown
  <2>5. /\ StaysOpen(u, free, shown) \/ Closes(u, free, shown)
        /\ heard' \subseteq heard \cup win \cup utt.agreed
        /\ gate' \in {Reset(g.silero), Loud(g)}
        /\ loop' = "top"
    BY <2>1, <2>2, <2>4, HopEndsForm
  <2>6. Goes /\ errors' \in 0..ErrorLimit
    BY <1>1, <2>2, <2>5 DEF Goes
  <2> QED
    BY <2>2, <2>3, <2>5, <2>6, JudgesTyped
<1>4. CASE DecodeNothing
  <2>1. PICK g \in Judges : HopEnds(g, utt, nextId, ids.shown, win)
    BY <1>4 DEF DecodeNothing
  <2>2. loop = "hop" /\ errors' = 0 /\ UNCHANGED <<source, flags, audio, fresh, pushed>>
    BY <1>4 DEF DecodeNothing
  <2>3. Spoken(utt, nextId, ids.shown)
    BY DEF Spoken
  <2>4. /\ StaysOpen(utt, nextId, ids.shown) \/ Closes(utt, nextId, ids.shown)
        /\ heard' \subseteq heard \cup win \cup utt.agreed
        /\ gate' \in {Reset(g.silero), Loud(g)}
        /\ loop' = "top"
    BY <2>1, <2>2, HopEndsForm
  <2>5. Goes /\ errors' \in 0..ErrorLimit
    BY <1>1, <2>2, <2>4 DEF Goes
  <2> QED
    BY <2>2, <2>3, <2>4, <2>5, JudgesTyped
<1>5. CASE DecodeFails
  <2>1. loop = "hop" /\ UNCHANGED <<source, flags, audio, fresh, pushed>>
    BY <1>5 DEF DecodeFails
  <2>2. CASE flags.cancel
    <3>1. loop' = "flush" /\ UNCHANGED <<win, gate, utt, nextId, ids, heard, written, errors>>
      BY <1>5, <2>2 DEF DecodeFails
    <3>2. Form /\ Goes
      BY <1>2, <2>1, <2>2, <3>1 DEF Goes
    <3>3. gate' \in [silero : BOOLEAN, speech : BOOLEAN, quiet : 0..Silence - 1]
      BY <3>1 DEF TypeOK
    <3> QED
      BY <1>1, <2>1, <3>1, <3>2, <3>3
  <2>3. CASE ~flags.cancel /\ errors' = ErrorLimit
    <3>1. loop' = "teardown" /\ UNCHANGED <<win, gate, utt, nextId, ids, heard, written>>
      BY <1>5, <2>3 DEF DecodeFails
    <3>2. Form /\ Goes
      BY <1>2, <2>1, <2>3, <3>1 DEF Goes
    <3>3. gate' \in [silero : BOOLEAN, speech : BOOLEAN, quiet : 0..Silence - 1]
      BY <3>1 DEF TypeOK
    <3> QED
      BY <1>1, <2>1, <2>3, <3>1, <3>2, <3>3
  <2>4. CASE ~flags.cancel /\ errors' # ErrorLimit
    <3>1. PICK g \in Judges : HopEnds(g, utt, nextId, ids.shown, {})
      BY <1>5, <2>4 DEF DecodeFails
    <3>2. errors' \in 0..ErrorLimit
      <4>1. errors' = errors + 1 /\ errors # ErrorLimit
        BY <1>5, <2>1, <2>4 DEF DecodeFails
      <4> QED
        BY <1>1, <4>1
    <3>3. Spoken(utt, nextId, ids.shown)
      BY DEF Spoken
    <3>4. /\ StaysOpen(utt, nextId, ids.shown) \/ Closes(utt, nextId, ids.shown)
          /\ heard' \subseteq heard \cup win \cup utt.agreed
          /\ gate' \in {Reset(g.silero), Loud(g)}
          /\ loop' = "top"
      BY <2>1, <3>1, HopEndsForm
    <3>5. Goes
      BY <2>1, <2>4, <3>4 DEF Goes
    <3> QED
      BY <2>1, <3>2, <3>3, <3>4, <3>5, JudgesTyped
  <2> QED
    BY <2>2, <2>3, <2>4
<1>6. CASE QuietHop
  <2>1. loop = "hop" /\ loop' = "top" /\ UNCHANGED <<source, flags, audio, fresh, pushed, errors>>
    BY <1>6 DEF QuietHop
  <2>2. PICK g \in Judges :
          IF utt.id # 0 /\ (Endpoint(g) \/ Cardinality(win) = Window)
          THEN /\ Finalize(utt, nextId, ids.shown, win)
               /\ gate' = Reset(g.silero)
          ELSE /\ gate' = Quiet(g)
               /\ heard' = heard \cup win
               /\ win' = IF utt.id = 0 THEN {} ELSE win
               /\ UNCHANGED <<utt, nextId, ids, written>>
    BY <1>6 DEF QuietHop
  <2>3. gate' \in {Reset(g.silero), Quiet(g)}
    BY <2>2
  <2>4. Spoken(utt, nextId, ids.shown)
    BY DEF Spoken
  <2>5. /\ StaysOpen(utt, nextId, ids.shown) \/ Closes(utt, nextId, ids.shown)
        /\ heard' \subseteq heard \cup win \cup utt.agreed
    <3>1. CASE utt.id # 0 /\ (Endpoint(g) \/ Cardinality(win) = Window)
      <4>1. Finalize(utt, nextId, ids.shown, win)
        BY <2>2, <3>1
      <4> QED
        BY <3>1, <4>1, FinalizeCloses
    <3>2. CASE ~(utt.id # 0 /\ (Endpoint(g) \/ Cardinality(win) = Window))
      <4>1. /\ heard' = heard \cup win
            /\ win' = IF utt.id = 0 THEN {} ELSE win
            /\ UNCHANGED <<utt, nextId, ids, written>>
        BY <2>2, <3>2
      <4>2. ids' = [ids EXCEPT !.shown = ids.shown]
        <5>1. ids \in [shown : SUBSET (1..2 * Buffers), final : SUBSET (1..2 * Buffers)]
          BY DEF TypeOK
        <5> QED
          BY <4>1, <5>1
      <4> QED
        BY <4>1, <4>2 DEF StaysOpen
    <3> QED
      BY <3>1, <3>2
  <2>6. Goes /\ errors' \in 0..ErrorLimit
    BY <1>1, <2>1 DEF Goes
  <2> QED
    BY <2>1, <2>3, <2>4, <2>5, <2>6, JudgesTyped
<1>7. CASE Flush
  <2>1. /\ loop = "flush" /\ loop' = "teardown"
        /\ UNCHANGED <<source, flags, audio, fresh, gate, pushed, errors>>
    BY <1>7 DEF Flush
  <2>2. gate' \in [silero : BOOLEAN, speech : BOOLEAN, quiet : 0..Silence - 1]
    BY <2>1 DEF TypeOK
  <2>3. CASE utt.id # 0
    <3>1. Finalize(utt, nextId, ids.shown, {})
      BY <1>7, <2>3 DEF Flush
    <3>2. Closes(utt, nextId, ids.shown) /\ heard' \subseteq heard \cup win \cup utt.agreed
      BY <2>3, <3>1, FinalizeCloses
    <3>3. Spoken(utt, nextId, ids.shown)
      BY DEF Spoken
    <3>4. Goes
      BY <2>1, <3>2 DEF Goes, Closes, NoUtterance
    <3> QED
      BY <1>1, <2>1, <2>2, <3>2, <3>3, <3>4
  <2>4. CASE utt.id = 0
    <3>1. UNCHANGED <<win, utt, nextId, ids, heard, written>>
      BY <1>7, <2>4 DEF Flush
    <3>2. Goes
      BY <2>1, <2>4, <3>1 DEF Goes
    <3>3. Form
      BY <1>2, <3>1
    <3> QED
      BY <1>1, <2>1, <2>2, <3>1, <3>2, <3>3
  <2> QED
    BY <2>3, <2>4
<1> QED
  BY <1>3, <1>4, <1>5, <1>6, <1>7 DEF TextStep

-----------------------------------------------------------------------------
(* The steps that leave the utterance alone.                               *)

\* Those of the session thread.
PlainStep == Begin \/ Top \/ Teardown \/ Finish \/ EmitFinal

segments == <<gate, utt, nextId, errors, ids, heard, written>>

LEMMA NextSplits ==
  ASSUME Next
  PROVE  \/ Mic \/ Peer \/ Person \/ PlainStep \/ Receive
         \/ TextStep
BY DEF Next, Session, PlainStep, TextStep

LEMMA TextFrame ==
  ASSUME Mic \/ Peer \/ Person \/ PlainStep \/ Receive
  PROVE  UNCHANGED segments
BY DEF Mic, CallbackStarts, CallbackRecords, CallbackQueues, Peer, Feed, FeedEnds, FeedEndCancels,
       Person, Pause, Unpause, Stop, Abort, PlainStep, Begin, Top, Teardown, Finish, EmitFinal,
       Receive, audio, asr, segments

LEMMA WindowFrame ==
  ASSUME Mic \/ Peer \/ Person \/ PlainStep
  PROVE  UNCHANGED <<win, fresh, pushed>>
BY DEF Mic, CallbackStarts, CallbackRecords, CallbackQueues, Peer, Feed, FeedEnds, FeedEndCancels,
       Person, Pause, Unpause, Stop, Abort, PlainStep, Begin, Top, Teardown, Finish, EmitFinal,
       audio, asr

\* The thread goes on from where it is.
LEMMA LoopMoves ==
  ASSUME Next
  PROVE  \/ UNCHANGED loop
         \/ loop = "starting" /\ loop' \in {"top", "failed"}
         \/ loop = "top" /\ loop' \in {"recv", "flush"}
         \/ loop = "recv" /\ loop' \in {"top", "hop", "flush"}
         \/ TextStep
         \/ loop = "teardown" /\ loop' = "finish" /\ cb.at = "idle"
         \/ loop = "finish" /\ loop' = "done"
         \/ loop \in {"failed", "done"} /\ loop' = "final"
<1>1. CASE Mic \/ Peer \/ Person
  BY <1>1 DEF Mic, CallbackStarts, CallbackRecords, CallbackQueues, Peer, Feed, FeedEnds,
     FeedEndCancels, Person, Pause, Unpause, Stop, Abort
<1>2. CASE PlainStep
  BY <1>2 DEF PlainStep, Begin, Top, Teardown, Finish, EmitFinal
<1>3. CASE Receive
  BY <1>3 DEF Receive
<1> QED
  BY <1>1, <1>2, <1>3, NextSplits

\* A recogniser that gave up is not asked again.
LEMMA Hopes ==
  ASSUME BacklogInv, TextStep
  PROVE  errors # ErrorLimit
<1>1. loop \in {"hop", "flush"}
  BY DEF TextStep, DecodeText, DecodeNothing, DecodeFails, QuietHop, Flush
<1> QED
  BY <1>1 DEF BacklogInv, AsrGaveUp

-----------------------------------------------------------------------------
(* The recording.                                                          *)

LEMMA MicKept ==
  ASSUME TypeOK, MicInv, BacklogInv, [Next]_vars
  PROVE  MicInv'
<1>1. /\ cb \in [at : {"idle", "passed", "recorded"}, buf : 0..Buffers]
      /\ recorder \in [captured : SUBSET Buffer, blocks : SUBSET Buffer, open : BOOLEAN]
  BY DEF TypeOK
<1>2. CASE CallbackStarts
  <2>1. source' = source /\ loop' = loop /\ MicOpen /\ cb.at = "idle" /\ recorder.open
    BY <1>2 DEF CallbackStarts, MicOpen, MicInv
  <2>2. CASE UNCHANGED <<cb, recorder>>
    BY <2>1, <2>2 DEF MicInv
  <2>3. CASE /\ cb' = [at |-> "passed", buf |-> next]
             /\ recorder' = [recorder EXCEPT !.captured = @ \cup {next}]
    <3>1. cb'.at = "passed" /\ cb'.buf = next
      BY <2>3
    <3>2. /\ recorder'.captured = recorder.captured \cup {next}
          /\ recorder'.blocks = recorder.blocks /\ recorder'.open
      BY <1>1, <2>1, <2>3
    <3>3. recorder.captured \subseteq recorder.blocks
      BY <2>1 DEF MicInv
    <3> QED
      BY <2>1, <3>1, <3>2, <3>3 DEF MicInv, MicOpen
  <2> QED
    BY <1>2, <2>2, <2>3 DEF CallbackStarts
<1>3. CASE CallbackRecords
  <2>1. source' = source /\ loop' = loop /\ cb.at = "passed"
    BY <1>3 DEF CallbackRecords
  <2>2. recorder.open /\ source = "mic" /\ loop \in {"top", "recv", "hop", "flush", "teardown"}
    BY <2>1 DEF MicInv
  <2>3. /\ recorder'.captured = recorder.captured /\ recorder'.open
        /\ recorder'.blocks = recorder.blocks \cup {cb.buf}
    BY <1>1, <1>3, <2>2 DEF CallbackRecords
  <2>4. cb'.at = "recorded"
    BY <1>1, <1>3 DEF CallbackRecords
  <2>5. recorder.captured \subseteq recorder.blocks \cup {cb.buf}
    BY <2>1 DEF MicInv
  <2> QED
    BY <2>1, <2>2, <2>3, <2>4, <2>5 DEF MicInv
<1>4. CASE CallbackQueues
  BY <1>4 DEF CallbackQueues, MicInv
<1>5. CASE Peer \/ Person
  <2>1. UNCHANGED <<source, cb, recorder, loop>>
    BY <1>5 DEF Peer, Feed, FeedEnds, FeedEndCancels, Person, Pause, Unpause, Stop, Abort, audio
  <2> QED
    BY <2>1 DEF MicInv
<1>6. CASE PlainStep
  <2>1. UNCHANGED <<source, cb>> /\ recorder'.captured = recorder.captured
                                 /\ recorder'.blocks = recorder.blocks
    BY <1>1, <1>6 DEF PlainStep, Begin, Top, Teardown, Finish, EmitFinal, audio
  <2>2. recorder'.open = recorder.open \/ loop' = "done"
    BY <1>6 DEF PlainStep, Begin, Top, Teardown, Finish, EmitFinal, audio
  <2>3. cb.at # "idle" => loop' \in {"top", "recv", "hop", "flush", "teardown"}
    BY <1>6 DEF PlainStep, Begin, Top, Teardown, Finish, EmitFinal, MicInv
  <2>4. ~recorder.open => loop' \in {"done", "final"}
    BY <1>6 DEF PlainStep, Begin, Top, Teardown, Finish, EmitFinal, MicInv
  <2> QED
    BY <2>1, <2>2, <2>3, <2>4 DEF MicInv
<1>7. CASE Receive
  <2>1. UNCHANGED <<source, cb, recorder>> /\ loop = "recv" /\ loop' \in {"top", "hop", "flush"}
    BY <1>7 DEF Receive
  <2> QED
    BY <2>1 DEF MicInv
<1>8. CASE TextStep
  <2>1. UNCHANGED <<source, cb, recorder>> /\ Goes
    BY <1>8, Hopes, TextStepForm DEF audio
  <2>2. loop \in {"hop", "flush"} /\ loop' \in {"top", "flush", "teardown"}
    BY <2>1 DEF Goes
  <2> QED
    BY <2>1, <2>2 DEF MicInv
<1>9. CASE UNCHANGED vars
  BY <1>9 DEF vars, audio, MicInv
<1> QED
  BY <1>2, <1>3, <1>4, <1>5, <1>6, <1>7, <1>8, <1>9, NextSplits DEF Mic

-----------------------------------------------------------------------------
(* The backlog.                                                            *)

LEMMA BacklogKept ==
  ASSUME TypeOK, MicInv, BacklogInv, [Next]_vars
  PROVE  BacklogInv'
<1>1. /\ flags \in [cancel : BOOLEAN, paused : BOOLEAN, draining : BOOLEAN]
      /\ errors \in 0..ErrorLimit /\ ErrorLimit \in Nat
      /\ queue \in Seq(Buffer)
  BY QueueIsSequence, BoundsAssumption DEF TypeOK
<1>2. ToSet(<<>>) = {}
  BY DEF ToSet
<1>3. CASE CallbackStarts \/ CallbackRecords
  <2>1. UNCHANGED <<source, flags, inbox, queue, late, loop, errors>>
    BY <1>3 DEF CallbackStarts, CallbackRecords, asr
  <2> QED
    BY <2>1 DEF BacklogInv, AsrGaveUp
<1>4. CASE CallbackQueues
  <2>1. /\ UNCHANGED <<source, flags, inbox, loop, errors>> /\ cb.at = "recorded"
        /\ late' = IF flags.draining THEN late \cup {cb.buf} ELSE late
        /\ queue' = IF Len(queue) < QueueSize THEN Append(queue, cb.buf) ELSE queue
    BY <1>4 DEF CallbackQueues, asr
  <2>2. loop \in {"top", "recv", "hop", "flush", "teardown"}
    BY <2>1 DEF MicInv
  <2>3. ToSet(queue') \subseteq ToSet(queue) \cup {cb.buf}
    <3>1. ToSet(Append(queue, cb.buf)) \subseteq ToSet(queue) \cup {cb.buf}
      BY <1>1 DEF ToSet
    <3> QED
      BY <2>1, <3>1
  <2> QED
    BY <2>1, <2>2, <2>3 DEF BacklogInv, AsrGaveUp
<1>5. CASE Peer
  <2>1. source = "peer" /\ source' = source /\ UNCHANGED <<loop, errors>>
    BY <1>5 DEF Peer, Feed, FeedEnds, FeedEndCancels, asr
  <2> QED
    BY <2>1 DEF BacklogInv, AsrGaveUp
<1>6. CASE Person
  <2>1. UNCHANGED <<source, inbox, queue, late, loop, errors>>
    BY <1>6 DEF Person, Pause, Unpause, Stop, Abort, audio, asr
  <2>2. (flags.cancel => flags'.cancel) /\ (flags.draining => flags'.draining)
    BY <1>1, <1>6 DEF Person, Pause, Unpause, Stop, Abort
  <2> QED
    BY <2>1, <2>2 DEF BacklogInv, AsrGaveUp
<1>7. CASE PlainStep
  <2>1. UNCHANGED <<source, flags, inbox, queue, late, errors>>
    BY <1>7 DEF PlainStep, Begin, Top, Teardown, Finish, EmitFinal, audio, asr
  <2>2. CASE Begin
    BY <1>2, <2>1, <2>2 DEF Begin, BacklogInv, AsrGaveUp
  <2>3. CASE Top
    BY <1>2, <2>1, <2>3 DEF Top, BacklogInv, AsrGaveUp
  <2>4. CASE Teardown \/ Finish
    BY <2>1, <2>4 DEF Teardown, Finish, BacklogInv, AsrGaveUp
  <2>5. CASE EmitFinal
    BY <1>2, <2>1, <2>5 DEF EmitFinal, BacklogInv, AsrGaveUp
  <2> QED
    BY <1>7, <2>2, <2>3, <2>4, <2>5 DEF PlainStep
<1>8. CASE Receive
  <2>1. /\ UNCHANGED <<source, flags, inbox, late, errors>> /\ loop = "recv"
        /\ loop' \in {"top", "hop", "flush"}
        /\ inbox => loop' # "flush"
    BY <1>8 DEF Receive
  <2> QED
    BY <2>1 DEF BacklogInv, AsrGaveUp
<1>9. CASE TextStep
  <2>1. errors # ErrorLimit
    BY <1>9, Hopes
  <2>2. UNCHANGED <<source, flags, inbox, queue, late>> /\ Goes
    BY <1>9, <2>1, TextStepForm DEF audio
  <2> QED
    BY <2>1, <2>2 DEF Goes, BacklogInv, AsrGaveUp
<1>10. CASE UNCHANGED vars
  BY <1>10 DEF vars, audio, asr, BacklogInv, AsrGaveUp
<1> QED
  BY <1>3, <1>4, <1>5, <1>6, <1>7, <1>8, <1>9, <1>10, NextSplits DEF Mic

-----------------------------------------------------------------------------
(* Captions and segments.                                                  *)

\* What a text step does to the ids: n of them, from the utterance's on.
LEMMA SpokenIds ==
  ASSUME TypeOK, CaptionInv, NEW u, NEW free, NEW shown, Spoken(u, free, shown)
  PROVE  /\ u.id \in Nat /\ free \in Nat /\ nextId <= free /\ u.id < free
         /\ u.id \notin ids.final
         /\ shown \subseteq 1..free - 1
         /\ shown \subseteq ids.final \cup {u.id}
<1>1. /\ utt \in [id : 0..2 * Buffers, agreed : SUBSET Buffer]
      /\ nextId \in 1..2 * Buffers + 1 /\ Buffers \in Nat
  BY BoundsAssumption DEF TypeOK
<1>2. CASE u = utt /\ free = nextId /\ shown = ids.shown
  BY <1>1, <1>2 DEF CaptionInv
<1>3. CASE /\ u = [id |-> IF utt.id # 0 THEN utt.id ELSE nextId, agreed |-> utt.agreed \cup win]
           /\ free = (IF utt.id # 0 THEN nextId ELSE nextId + 1)
           /\ shown \subseteq ids.shown \cup {u.id}
  <2>1. u.id = IF utt.id # 0 THEN utt.id ELSE nextId
    BY <1>3
  <2>2. u.id \in Nat \ {0} /\ free \in Nat /\ nextId <= free /\ u.id < free
    BY <1>1, <1>3, <2>1 DEF CaptionInv
  <2>3. nextId \notin ids.final /\ 0 \notin ids.shown
    BY <1>1 DEF CaptionInv
  <2>4. u.id \notin ids.final
    BY <2>1, <2>3 DEF CaptionInv
  <2>5. ids.shown \subseteq ids.final \cup {u.id}
    BY <2>1, <2>3 DEF CaptionInv
  <2>6. ids.shown \subseteq 1..free - 1 /\ u.id \in 1..free - 1
    BY <1>1, <2>2 DEF CaptionInv
  <2> QED
    BY <1>3, <2>2, <2>4, <2>5, <2>6
<1> QED
  BY <1>2, <1>3 DEF Spoken

LEMMA LongerInterval ==
  ASSUME NEW a \in Nat, NEW b \in Nat, a <= b
  PROVE  1..a - 1 \subseteq 1..b - 1
OBVIOUS

LEMMA CaptionsKept ==
  ASSUME TypeOK, MicInv, BacklogInv, CaptionInv, [Next]_vars
  PROVE  CaptionInv'
<1>1. /\ utt \in [id : 0..2 * Buffers, agreed : SUBSET Buffer]
      /\ nextId \in 1..2 * Buffers + 1 /\ Buffers \in Nat
      /\ ids \in [shown : SUBSET (1..2 * Buffers), final : SUBSET (1..2 * Buffers)]
      /\ ErrorLimit \in Nat \ {0} /\ errors \in 0..ErrorLimit
  BY BoundsAssumption DEF TypeOK
<1> DEFINE Quiescent == loop \in {"starting", "failed", "teardown", "finish", "done", "final"}
<1>2. CASE UNCHANGED <<utt, nextId, errors, ids>> /\ (Quiescent' => Quiescent)
  BY <1>2 DEF CaptionInv, AsrGaveUp
<1>3. CASE (Mic \/ Peer \/ Person \/ PlainStep \/ Receive)
  <2>1. UNCHANGED <<utt, nextId, errors, ids>>
    BY <1>3, TextFrame DEF segments
  <2>2. Quiescent' => Quiescent
    BY <1>3 DEF Mic, CallbackStarts, CallbackRecords, CallbackQueues, Peer, Feed, FeedEnds,
       FeedEndCancels, Person, Pause, Unpause, Stop, Abort, PlainStep, Begin, Top, Teardown,
       Finish, EmitFinal, Receive
  <2> QED
    BY <1>2, <2>1, <2>2
<1>4. CASE TextStep
  <2>1. Goes
    BY <1>4, Hopes, TextStepForm
  <2>2. PICK u, free, shown : /\ Spoken(u, free, shown)
                              /\ StaysOpen(u, free, shown) \/ Closes(u, free, shown)
    BY <1>4, Hopes, TextStepForm
  <2>3. /\ u.id \in Nat /\ free \in Nat /\ nextId <= free /\ u.id < free
        /\ u.id \notin ids.final
        /\ shown \subseteq 1..free - 1
        /\ shown \subseteq ids.final \cup {u.id}
    BY <2>2, SpokenIds
  <2>4. ids.final \subseteq 1..nextId - 1
    BY DEF CaptionInv
  <2>5. CASE StaysOpen(u, free, shown)
    <3>1. utt' = u /\ nextId' = free /\ ids'.shown = shown /\ ids'.final = ids.final
      BY <1>1, <2>5 DEF StaysOpen
    <3>2. ids.final \subseteq 1..free - 1
      BY <1>1, <2>3, <2>4
    <3>3. (Quiescent /\ ~AsrGaveUp)' => utt'.id = 0
      BY <2>1 DEF Goes, AsrGaveUp
    <3> QED
      BY <2>3, <3>1, <3>2, <3>3 DEF CaptionInv
  <2>6. CASE Closes(u, free, shown)
    <3>1. PICK n \in 1..2 : EmitRuns(u, free, shown, n)
      BY <2>6 DEF Closes
    <3>2. /\ ids'.shown = shown /\ nextId' = free + n - 1
          /\ ids'.final = ids.final \cup {u.id} \cup (free..free + n - 2)
      BY <3>1 DEF EmitRuns
    <3>3. utt'.id = 0 /\ u.id # 0
      BY <2>6 DEF Closes, NoUtterance
    <3>4. nextId' \in Nat /\ free <= nextId'
      BY <2>3, <3>2
    <3>5. ids'.final \subseteq 1..nextId' - 1
      <4>1. ids.final \subseteq 1..nextId' - 1
        BY <1>1, <2>3, <2>4, <3>4
      <4>2. u.id \in 1..nextId' - 1
        BY <2>3, <3>3, <3>4
      <4>3. free..free + n - 2 \subseteq 1..nextId' - 1
        BY <1>1, <2>3, <3>2
      <4> QED
        BY <3>2, <4>1, <4>2, <4>3
    <3>6. shown \subseteq 1..nextId' - 1
      <4>1. shown \subseteq 1..free - 1 /\ free \in Nat
        BY <2>3
      <4>2. 1..free - 1 \subseteq 1..nextId' - 1
        <5>1. nextId' \in Nat /\ free <= nextId'
          BY <3>4
        <5> QED
          BY <4>1, <5>1, LongerInterval
      <4> QED
        BY <4>1, <4>2
    <3>7. utt'.id < nextId' /\ utt'.id \notin ids'.final
      BY <1>1, <2>3, <3>3, <3>4, <3>5
    <3>8. ids'.shown \subseteq ids'.final
      BY <2>3, <3>2
    <3> QED
      BY <3>2, <3>3, <3>5, <3>6, <3>7, <3>8 DEF CaptionInv
  <2> QED
    BY <2>2, <2>5, <2>6
<1>5. CASE UNCHANGED vars
  BY <1>2, <1>5 DEF vars, asr
<1> QED
  BY <1>3, <1>4, <1>5, NextSplits

-----------------------------------------------------------------------------
(* The words.                                                              *)

\* A buffer the loop takes is new to it.
LEMMA HeadIsNew ==
  ASSUME TypeOK, OrderInv, queue # <<>>
  PROVE  Head(queue) \in Buffer \ pushed
<1>1. PICK l \in 0..Buffers : Order(l)
  BY DEF OrderInv
<1>2. Head(queue) \in Buffer /\ Len(queue) \in Nat \ {0}
  BY QueueIsSequence DEF TypeOK
<1>3. 1 \in 1..Len(queue) /\ Head(queue) = queue[1]
  BY <1>2
<1>4. l < Head(queue)
  BY <1>1, <1>3 DEF Order, Between
<1> QED
  BY <1>1, <1>2, <1>4 DEF Order, Buffer

LEMMA TextKept ==
  ASSUME TypeOK, BacklogInv, TextInv, OrderInv, [Next]_vars
  PROVE  TextInv'
<1>1. CASE UNCHANGED <<win, utt, written, pushed>>
  BY <1>1 DEF TextInv
<1>2. CASE Mic \/ Peer \/ Person \/ PlainStep
  BY <1>1, <1>2, TextFrame, WindowFrame DEF segments
<1>3. CASE Receive
  <2>1. UNCHANGED <<utt, written>>
    BY <1>3 DEF Receive
  <2>2. CASE UNCHANGED <<win, pushed>>
    BY <1>1, <2>1, <2>2
  <2>3. CASE /\ queue # <<>> /\ pushed' = pushed \cup {Head(queue)}
             /\ win' = Pushed(win, Head(queue))
    <3>1. Head(queue) \in Buffer \ pushed
      BY <2>3, HeadIsNew
    <3>2. win' \subseteq win \cup {Head(queue)}
      BY <2>3, <3>1, PushedFits DEF TypeOK
    <3> QED
      BY <2>1, <2>3, <3>1, <3>2 DEF TextInv
  <2> QED
    BY <1>3, <2>2, <2>3 DEF Receive
<1>4. CASE TextStep
  <2>1. pushed' = pushed
    BY <1>4, Hopes, TextStepForm
  <2>2. PICK u, free, shown : /\ Spoken(u, free, shown)
                              /\ StaysOpen(u, free, shown) \/ Closes(u, free, shown)
    BY <1>4, Hopes, TextStepForm
  <2>3. CASE StaysOpen(u, free, shown)
    <3>1. u.agreed \subseteq utt.agreed \cup win
      BY <2>2 DEF Spoken
    <3>2. utt' = u /\ written' = written /\ win' \subseteq win
      BY <2>3 DEF StaysOpen
    <3> QED
      BY <2>1, <3>1, <3>2 DEF TextInv
  <2>4. CASE Closes(u, free, shown)
    <3>1. utt'.agreed = {} /\ win' = {} /\ written' \subseteq written \cup win \cup utt.agreed
      BY <2>4 DEF Closes, NoUtterance
    <3> QED
      BY <2>1, <3>1 DEF TextInv
  <2> QED
    BY <2>2, <2>3, <2>4
<1>5. CASE UNCHANGED vars
  BY <1>1, <1>5 DEF vars, asr
<1> QED
  BY <1>2, <1>3, <1>4, <1>5, NextSplits

-----------------------------------------------------------------------------
(* The order of the buffers.                                               *)

LEMMA OrderTyped ==
  ASSUME TypeOK
  PROVE  /\ queue \in Seq(Buffer) /\ queue \in Seq(Nat)
         /\ next \in Nat \ {0} /\ nextId \in Nat /\ cb.buf \in Nat /\ Buffers \in Nat
         /\ cb.at \in {"idle", "passed", "recorded"}
<1>1. queue \in Seq(Buffer)
  BY QueueIsSequence DEF TypeOK
<1>2. Buffer \subseteq Nat /\ Buffers \in Nat
  BY BoundsAssumption DEF Buffer
<1>3. queue \in Seq(Nat)
  <2>1. PICK m \in 0..QueueSize : queue \in [1..m -> Buffer]
    BY DEF TypeOK, BoundedSeq, SeqOf
  <2>2. queue \in [1..m -> Nat]
    BY <1>2, <2>1
  <2>3. m \in Nat
    BY BoundsAssumption
  <2> QED
    BY <2>2, <2>3
<1> QED
  BY <1>1, <1>2, <1>3 DEF TypeOK

LEMMA OrderStays ==
  ASSUME TypeOK, OrderInv, UNCHANGED <<pushed, next, cb, queue, nextId, utt>>, loop' # "hop" \/ loop = "hop"
  PROVE  OrderInv'
<1>1. PICK l \in 0..Buffers : Order(l)
  BY DEF OrderInv
<1>2. Order(l)'
  <2>1. CASE loop' = loop
    BY <1>1, <2>1 DEF Order, Between
  <2>2. CASE loop' # loop
    <3> DEFINE k == nextId + (IF utt.id = 0 THEN 0 ELSE 1)
    <3>1. k \in Nat /\ k' = k /\ l \in Nat
      BY <1>1, OrderTyped
    <3>2. k <= 2 * l + 1
      BY <1>1, <3>1 DEF Order
    <3>3. k' <= (IF loop' = "hop" THEN 2 * l - 1 ELSE 2 * l + 1)
      BY <1>1, <2>2, <3>1, <3>2 DEF Order
    <3> QED
      BY <1>1, <3>3 DEF Order, Between
  <2> QED
    BY <2>1, <2>2
<1> QED
  BY <1>2 DEF OrderInv

LEMMA OrderKept ==
  ASSUME TypeOK, MicInv, BacklogInv, CaptionInv, OrderInv, [Next]_vars
  PROVE  OrderInv'
<1>1. /\ queue \in Seq(Buffer) /\ queue \in Seq(Nat)
      /\ next \in Nat \ {0} /\ nextId \in Nat /\ cb.buf \in Nat /\ Buffers \in Nat
      /\ cb.at \in {"idle", "passed", "recorded"}
  BY OrderTyped
<1>2. PICK l \in 0..Buffers : Order(l)
  BY DEF OrderInv
<1>3. /\ l \in Nat /\ pushed \subseteq 1..l /\ l < next
      /\ cb.at # "idle" => l < cb.buf /\ cb.buf < next
      /\ Between(queue, l, IF cb.at = "idle" THEN next ELSE cb.buf)
  BY <1>2 DEF Order
<1> DEFINE ids2 == nextId + (IF utt.id = 0 THEN 0 ELSE 1)
<1>4. ids2 \in Nat /\ ids2 <= (IF loop = "hop" THEN 2 * l - 1 ELSE 2 * l + 1)
  BY <1>1, <1>2 DEF Order
<1>5. CASE CallbackStarts
  <2>1. /\ UNCHANGED <<pushed, queue, nextId, utt, loop>> /\ next' = next + 1 /\ cb.at = "idle"
        /\ cb' = cb \/ cb' = [at |-> "passed", buf |-> next]
    BY <1>5 DEF CallbackStarts, asr
  <2>2. l < next' /\ Between(queue, l, next) /\ Between(queue, l, next')
    BY <1>1, <1>3, <2>1, BetweenMono
  <2>3. /\ cb'.at # "idle" => l < cb'.buf /\ cb'.buf < next'
        /\ Between(queue', l, IF cb'.at = "idle" THEN next' ELSE cb'.buf)
    BY <1>1, <1>3, <2>1, <2>2
  <2>4. Order(l)'
    BY <1>3, <1>4, <2>1, <2>2, <2>3 DEF Order
  <2> QED
    BY <2>4 DEF OrderInv
<1>6. CASE CallbackRecords
  <2>1. /\ UNCHANGED <<pushed, queue, nextId, utt, loop, next>>
        /\ cb.at # "idle" /\ cb'.at # "idle" /\ cb'.buf = cb.buf
    <3>1. cb \in [at : {"idle", "passed", "recorded"}, buf : 0..Buffers]
      BY DEF TypeOK
    <3> QED
      BY <1>6, <3>1 DEF CallbackRecords, asr
  <2>2. Order(l)'
    BY <1>3, <1>4, <2>1 DEF Order
  <2> QED
    BY <2>2 DEF OrderInv
<1>7. CASE CallbackQueues
  <2>1. /\ UNCHANGED <<pushed, nextId, utt, loop, next>> /\ cb.at = "recorded" /\ cb'.at = "idle"
        /\ queue' = IF Len(queue) < QueueSize THEN Append(queue, cb.buf) ELSE queue
    BY <1>7 DEF CallbackQueues, asr
  <2>2. l < cb.buf /\ cb.buf < next /\ Between(queue, l, cb.buf)
    BY <1>3, <2>1
  <2>3. Between(queue', l, next)
    <3>1. Between(Append(queue, cb.buf), l, next)
      BY <1>1, <1>3, <2>2, BetweenAppend
    <3>2. Between(queue, l, next)
      BY <1>1, <1>3, <2>2, BetweenMono
    <3> QED
      BY <2>1, <3>1, <3>2
  <2>4. Order(l)'
    BY <1>3, <1>4, <2>1, <2>3 DEF Order
  <2> QED
    BY <2>4 DEF OrderInv
<1>8. CASE Feed
  <2>1. /\ UNCHANGED <<pushed, nextId, utt, loop, cb>> /\ source = "peer"
        /\ queue' = Append(queue, next) /\ next' = next + 1
    BY <1>8 DEF Feed, asr
  <2>2. cb.at = "idle"
    BY <2>1 DEF MicInv
  <2>3. l < next' /\ Between(queue', l, next')
    <3>1. Between(queue, l, next) /\ next + 1 \in Nat /\ next < next + 1
      BY <1>1, <1>3, <2>2
    <3> QED
      BY <1>1, <1>3, <2>1, <3>1, BetweenAppend
  <2>4. Order(l)'
    BY <1>3, <1>4, <2>1, <2>2, <2>3 DEF Order
  <2> QED
    BY <2>4 DEF OrderInv
<1>9. CASE FeedEnds \/ FeedEndCancels \/ Person \/ PlainStep
  <2>1. UNCHANGED <<pushed, next, cb, queue, nextId, utt>>
    BY <1>9 DEF FeedEnds, FeedEndCancels, Person, Pause, Unpause, Stop, Abort, PlainStep, Begin,
       Top, Teardown, Finish, EmitFinal, audio, asr
  <2>2. loop' # "hop" \/ loop = "hop"
    BY <1>9 DEF FeedEnds, FeedEndCancels, Person, Pause, Unpause, Stop, Abort, PlainStep, Begin,
       Top, Teardown, Finish, EmitFinal
  <2> QED
    BY <2>1, <2>2, OrderStays
<1>10. CASE Receive
  <2>1. UNCHANGED <<cb, next, nextId, utt>> /\ loop = "recv"
    BY <1>10 DEF Receive
  <2>2. CASE queue = <<>>
    <3>1. UNCHANGED <<pushed, queue>> /\ loop' # "hop"
      BY <1>10, <2>2 DEF Receive
    <3> QED
      BY <2>1, <3>1, OrderStays
  <2>3. CASE queue # <<>>
    <3>1. PICK h \in Buffer : h = Head(queue)
      BY <1>1, <2>3
    <3> DEFINE top == IF cb.at = "idle" THEN next ELSE cb.buf
    <3>2. h \in Buffer /\ h \in Nat
      BY <3>1 DEF Buffer
    <3>3. queue' = Tail(queue) /\ pushed' \subseteq pushed \cup {h}
      BY <1>10, <2>3, <3>1 DEF Receive
    <3>4. top \in Nat /\ top <= next
      BY <1>1, <1>3
    <3>5. Between(Tail(queue), h, top) /\ l < h /\ h < top
      BY <1>1, <1>3, <2>3, <3>1, <3>4, BetweenTail
    <3>6. pushed' \subseteq 1..h
      BY <1>3, <3>2, <3>3, <3>5
    <3>7. ids2' = ids2 /\ ids2 <= 2 * h - 1
      <4>1. ids2 <= 2 * l + 1
        BY <1>4, <2>1
      <4> HIDE DEF ids2
      <4>2. ids2 <= 2 * h - 1
        BY <1>3, <1>4, <3>2, <3>5, <4>1
      <4> QED
        BY <2>1, <4>2 DEF ids2
    <3>8. ids2' <= (IF loop' = "hop" THEN 2 * h - 1 ELSE 2 * h + 1)
      <4> HIDE DEF ids2
      <4> QED
        BY <1>4, <3>2, <3>7
    <3>9. h < next /\ (cb.at # "idle" => h < cb.buf /\ cb.buf < next)
      BY <1>1, <1>3, <3>2, <3>4, <3>5
    <3>10. Order(h)'
      BY <2>1, <3>3, <3>5, <3>6, <3>8, <3>9 DEF Order
    <3>11. h \in 0..Buffers
      BY <1>1, <3>2 DEF Buffer
    <3> QED
      BY <3>10, <3>11 DEF OrderInv
  <2> QED
    BY <2>2, <2>3
<1>11. CASE TextStep
  <2>1. UNCHANGED <<pushed, next, cb, queue>> /\ Goes
    BY <1>11, Hopes, TextStepForm DEF audio
  <2>2. PICK u, free, shown : /\ Spoken(u, free, shown)
                              /\ StaysOpen(u, free, shown) \/ Closes(u, free, shown)
    BY <1>11, Hopes, TextStepForm
  <2>3. loop' # "hop" /\ loop \in {"hop", "flush"}
    BY <2>1 DEF Goes
  <2>4. u.id \in Nat /\ free \in Nat /\ nextId <= free
    BY <2>2, SpokenIds
  <2>5. free + (IF u.id = 0 THEN 0 ELSE 1) <= 2 * l + 1
    <3>1. CASE u = utt /\ free = nextId
      BY <1>3, <1>4, <3>1
    <3>2. CASE loop = "hop" /\ free + 1 <= ids2 + 2
      <4>1. ids2 <= 2 * l - 1
        BY <1>4, <3>2
      <4> HIDE DEF ids2
      <4> QED
        BY <1>3, <1>4, <2>4, <3>2, <4>1
    <3>3. CASE loop = "hop" /\ free = (IF utt.id # 0 THEN nextId ELSE nextId + 1)
      BY <1>1, <3>2, <3>3
    <3> QED
      BY <2>2, <3>1, <3>3 DEF Spoken
  <2>6. ids2' <= 2 * l + 1
    <3>1. CASE StaysOpen(u, free, shown)
      BY <2>5, <3>1 DEF StaysOpen
    <3>2. CASE Closes(u, free, shown)
      <4>1. utt'.id = 0 /\ u.id # 0
        BY <3>2 DEF Closes, NoUtterance
      <4>2. PICK n \in 1..2 : nextId' = free + n - 1
        BY <3>2 DEF Closes, EmitRuns
      <4>3. nextId' <= free + 1
        BY <2>4, <4>2
      <4> QED
        BY <1>3, <2>4, <2>5, <4>1, <4>2, <4>3
    <3> QED
      BY <2>2, <3>1, <3>2
  <2>7. Order(l)'
    BY <1>3, <2>1, <2>3, <2>6 DEF Order
  <2> QED
    BY <2>7 DEF OrderInv
<1>12. CASE UNCHANGED vars
  BY <1>12, OrderStays DEF vars, audio, asr
<1> QED
  BY <1>5, <1>6, <1>7, <1>8, <1>9, <1>10, <1>11, <1>12, NextSplits DEF Mic, Peer

-----------------------------------------------------------------------------
(* Types.                                                                  *)

AudioOK ==
  /\ source \in {"mic", "peer"}
  /\ flags \in [cancel : BOOLEAN, paused : BOOLEAN, draining : BOOLEAN]
  /\ inbox \in BOOLEAN
  /\ cb \in [at : {"idle", "passed", "recorded"}, buf : 0..Buffers]
  /\ next \in 1..Buffers + 1
  /\ queue \in BoundedSeq(Buffer, QueueSize)
  /\ recorder \in [captured : SUBSET Buffer, blocks : SUBSET Buffer, open : BOOLEAN]
  /\ late \subseteq Buffer

LEMMA AudioTyped ==
  ASSUME TypeOK, MicInv, BacklogInv, OrderInv, [Next]_vars
  PROVE  AudioOK'
<1>1. AudioOK /\ Buffers \in Nat \ {0}
  BY BoundsAssumption DEF TypeOK, AudioOK
<1>2. CASE UNCHANGED <<source, flags, audio>>
  BY <1>1, <1>2 DEF audio, AudioOK
<1>3. CASE CallbackStarts
  <2>1. next \in Buffer /\ next' \in 1..Buffers + 1
    BY <1>1, <1>3 DEF CallbackStarts, AudioOK, Buffer
  <2>2. cb' \in [at : {"idle", "passed", "recorded"}, buf : 0..Buffers]
    <3>1. next \in 0..Buffers
      BY <1>1, <2>1 DEF Buffer
    <3> QED
      BY <1>1, <1>3, <3>1 DEF CallbackStarts, AudioOK
  <2>3. recorder' \in [captured : SUBSET Buffer, blocks : SUBSET Buffer, open : BOOLEAN]
    BY <1>1, <1>3, <2>1 DEF CallbackStarts, AudioOK
  <2> QED
    BY <1>1, <1>3, <2>1, <2>2, <2>3 DEF CallbackStarts, AudioOK
<1>4. ASSUME cb.at # "idle" PROVE cb.buf \in Buffer
  <2>1. PICK l \in 0..Buffers : l < cb.buf /\ cb.buf < next
    BY <1>4 DEF OrderInv, Order
  <2> QED
    BY <1>1, <2>1 DEF AudioOK, Buffer
<1>5. CASE CallbackRecords
  <2>1. cb.buf \in Buffer
    BY <1>4, <1>5 DEF CallbackRecords
  <2>2. cb' \in [at : {"idle", "passed", "recorded"}, buf : 0..Buffers]
    BY <1>1, <1>5 DEF CallbackRecords, AudioOK
  <2>3. recorder' \in [captured : SUBSET Buffer, blocks : SUBSET Buffer, open : BOOLEAN]
    BY <1>1, <1>5, <2>1 DEF CallbackRecords, AudioOK
  <2> QED
    BY <1>1, <1>5, <2>2, <2>3 DEF CallbackRecords, AudioOK
<1>6. CASE CallbackQueues
  <2>1. cb.buf \in Buffer
    BY <1>4, <1>6 DEF CallbackQueues
  <2>2. cb' \in [at : {"idle", "passed", "recorded"}, buf : 0..Buffers]
    BY <1>1, <1>6 DEF CallbackQueues
  <2>3. queue' \in BoundedSeq(Buffer, QueueSize)
    <3>1. CASE Len(queue) < QueueSize
      BY <1>1, <1>6, <2>1, <3>1, QueueAppend DEF CallbackQueues, AudioOK
    <3>2. CASE ~(Len(queue) < QueueSize)
      BY <1>1, <1>6, <3>2 DEF CallbackQueues, AudioOK
    <3> QED
      BY <3>1, <3>2
  <2>4. late' \subseteq Buffer
    BY <1>1, <1>6, <2>1 DEF CallbackQueues, AudioOK
  <2> QED
    BY <1>1, <1>6, <2>2, <2>3, <2>4 DEF CallbackQueues, AudioOK
<1>7. CASE Feed
  <2>1. next \in Buffer /\ next' \in 1..Buffers + 1
    BY <1>1, <1>7 DEF Feed, AudioOK, Buffer
  <2>2. queue' \in BoundedSeq(Buffer, QueueSize)
    BY <1>1, <1>7, <2>1, QueueAppend DEF Feed, AudioOK
  <2> QED
    BY <1>1, <1>7, <2>1, <2>2 DEF Feed, AudioOK
<1>8. CASE FeedEnds
  BY <1>1, <1>8 DEF FeedEnds, AudioOK
<1>9. CASE FeedEndCancels \/ Person
  <2>1. UNCHANGED <<source, audio>>
    BY <1>9 DEF FeedEndCancels, Person, Pause, Unpause, Stop, Abort
  <2>2. flags' \in [cancel : BOOLEAN, paused : BOOLEAN, draining : BOOLEAN]
    BY <1>1, <1>9 DEF FeedEndCancels, Person, Pause, Unpause, Stop, Abort, AudioOK
  <2> QED
    BY <1>1, <2>1, <2>2 DEF AudioOK, audio
<1>10. CASE PlainStep
  <2>1. UNCHANGED <<source, flags, inbox, cb, next, queue, late>>
    BY <1>10 DEF PlainStep, Begin, Top, Teardown, Finish, EmitFinal, audio
  <2>2. recorder' \in [captured : SUBSET Buffer, blocks : SUBSET Buffer, open : BOOLEAN]
    BY <1>1, <1>10 DEF PlainStep, Begin, Top, Teardown, Finish, EmitFinal, audio, AudioOK
  <2> QED
    BY <1>1, <2>1, <2>2 DEF AudioOK
<1>11. CASE Receive
  <2>1. UNCHANGED <<source, flags, inbox, cb, next, recorder, late>>
    BY <1>11 DEF Receive
  <2>2. queue' \in BoundedSeq(Buffer, QueueSize)
    <3>1. CASE queue = <<>>
      BY <1>1, <1>11, <3>1 DEF Receive, AudioOK
    <3>2. CASE queue # <<>>
      BY <1>1, <1>11, <3>2, QueueTail DEF Receive, AudioOK
    <3> QED
      BY <3>1, <3>2
  <2> QED
    BY <1>1, <2>1, <2>2 DEF AudioOK
<1>12. CASE TextStep /\ errors # ErrorLimit
  BY <1>2, <1>12, TextStepForm
<1>13. CASE UNCHANGED vars
  BY <1>2, <1>13 DEF vars
<1> QED
  BY <1>3, <1>5, <1>6, <1>7, <1>8, <1>9, <1>10, <1>11, <1>12, <1>13, Hopes, NextSplits
     DEF Mic, Peer

LoopOK == loop \in {"starting", "top", "recv", "hop", "flush", "teardown", "finish"} \cup Ended

WindowOK ==
  /\ win \subseteq Buffer /\ Cardinality(win) <= Window
  /\ fresh \in 0..Hop
  /\ pushed \subseteq Buffer

LEMMA WindowTyped ==
  ASSUME TypeOK, BacklogInv, [Next]_vars
  PROVE  LoopOK' /\ WindowOK'
<1>1. WindowOK /\ LoopOK /\ Hop \in Nat \ {0} /\ Window \in Nat \ {0}
  BY BoundsAssumption DEF TypeOK, WindowOK, LoopOK
<1>2. LoopOK'
  <2>1. CASE TextStep
    BY <2>1, Hopes, TextStepForm DEF Goes, LoopOK
  <2>2. CASE UNCHANGED vars
    BY <1>1, <2>2 DEF vars, LoopOK
  <2> QED
    BY <1>1, <2>1, <2>2, LoopMoves DEF LoopOK, Ended
<1>3. CASE UNCHANGED <<win, fresh, pushed>>
  BY <1>1, <1>2, <1>3 DEF WindowOK
<1>4. CASE Receive
  <2>1. CASE UNCHANGED <<win, fresh, pushed>>
    BY <1>3, <2>1
  <2>2. CASE /\ queue # <<>> /\ pushed' = pushed \cup {Head(queue)}
             /\ win' = Pushed(win, Head(queue))
             /\ fresh' = IF fresh + 1 < Hop THEN fresh + 1 ELSE 0
    <3>1. Head(queue) \in Buffer
      BY <2>2, QueueTail DEF TypeOK
    <3>2. win' \subseteq Buffer /\ Cardinality(win') <= Window
      BY <1>1, <2>2, <3>1, PushedFits DEF WindowOK
    <3>3. fresh' \in 0..Hop
      BY <1>1, <2>2 DEF WindowOK
    <3> QED
      BY <1>1, <1>2, <2>2, <3>1, <3>2, <3>3 DEF WindowOK
  <2> QED
    BY <1>4, <2>1, <2>2 DEF Receive
<1>5. CASE TextStep
  <2>1. UNCHANGED <<fresh, pushed>> /\ win' \in {win, {}}
    BY <1>5, Hopes, TextStepForm DEF StaysOpen, Closes
  <2>2. Cardinality(win') <= Window
    BY <1>1, <2>1, FS_EmptySet DEF WindowOK
  <2> QED
    BY <1>1, <1>2, <2>1, <2>2 DEF WindowOK
<1>6. CASE UNCHANGED vars
  BY <1>3, <1>6 DEF vars, asr
<1> QED
  BY <1>2, <1>3, <1>4, <1>5, <1>6, WindowFrame, NextSplits

TextOK ==
  /\ gate \in [silero : BOOLEAN, speech : BOOLEAN, quiet : 0..Silence - 1]
  /\ utt \in [id : 0..2 * Buffers, agreed : SUBSET Buffer]
  /\ nextId \in 1..2 * Buffers + 1
  /\ errors \in 0..ErrorLimit
  /\ ids \in [shown : SUBSET (1..2 * Buffers), final : SUBSET (1..2 * Buffers)]
  /\ {heard, written} \subseteq SUBSET Buffer

LEMMA ShorterInterval ==
  ASSUME NEW b \in Nat, NEW a \in 1..b + 1
  PROVE  1..a - 1 \subseteq 1..b
OBVIOUS

LEMMA Budget ==
  ASSUME NEW n \in Nat, NEW l \in Nat, NEW id, NEW at,
         n + (IF id = 0 THEN 0 ELSE 1) <= (IF at = "hop" THEN 2 * l - 1 ELSE 2 * l + 1)
  PROVE  n <= 2 * l + 1
<1>1. CASE id = 0 /\ at = "hop"
  BY <1>1
<1>2. CASE id # 0 /\ at = "hop"
  BY <1>2
<1>3. CASE id = 0 /\ at # "hop"
  BY <1>3
<1>4. CASE id # 0 /\ at # "hop"
  BY <1>4
<1> QED
  BY <1>1, <1>2, <1>3, <1>4

LEMMA TextTyped ==
  ASSUME TypeOK, BacklogInv, CaptionInv, CaptionInv', OrderInv', [Next]_vars
  PROVE  TextOK'
<1>1. TextOK /\ Buffers \in Nat \ {0} /\ win \subseteq Buffer
  BY BoundsAssumption DEF TypeOK, TextOK
<1>2. CASE UNCHANGED segments
  BY <1>1, <1>2 DEF segments, TextOK
<1>3. CASE TextStep
  <2>1. PICK u, free, shown : /\ Spoken(u, free, shown)
                              /\ StaysOpen(u, free, shown) \/ Closes(u, free, shown)
    BY <1>3, Hopes, TextStepForm
  <2>2. /\ gate' \in [silero : BOOLEAN, speech : BOOLEAN, quiet : 0..Silence - 1]
        /\ errors' \in 0..ErrorLimit
        /\ heard' \subseteq heard \cup win \cup utt.agreed
    BY <1>3, Hopes, TextStepForm
  <2>3. u.id \in Nat /\ free \in Nat /\ nextId <= free
    BY <2>1, SpokenIds
  <2>4. nextId' \in 1..2 * Buffers + 1
    <3>1. nextId' \in Nat /\ nextId <= nextId'
      <4>1. CASE StaysOpen(u, free, shown)
        BY <2>3, <4>1 DEF StaysOpen
      <4>2. CASE Closes(u, free, shown)
        <5>1. PICK n \in 1..2 : nextId' = free + n - 1
          BY <4>2 DEF Closes, EmitRuns
        <5> QED
          BY <1>1, <2>3, <5>1 DEF TextOK
      <4> QED
        BY <2>1, <4>1, <4>2
    <3>2. PICK l \in 0..Buffers :
            nextId' + (IF utt'.id = 0 THEN 0 ELSE 1) <= (IF loop' = "hop" THEN 2 * l - 1 ELSE 2 * l + 1)
      BY DEF OrderInv, Order
    <3>3. nextId' <= 2 * l + 1
      <4>1. l \in Nat
        BY <1>1
      <4>2. PICK n \in Nat : n = nextId'
        BY <3>1
      <4>3. PICK id, at : id = utt'.id /\ at = loop'
        OBVIOUS
      <4>4. n + (IF id = 0 THEN 0 ELSE 1) <= (IF at = "hop" THEN 2 * l - 1 ELSE 2 * l + 1)
        BY <3>2, <4>2, <4>3
      <4>5. n <= 2 * l + 1
        BY <4>1, <4>4, Budget
      <4> QED
        BY <4>2, <4>5
    <3> QED
      BY <1>1, <3>1, <3>3 DEF TextOK
  <2>5. utt' \in [id : 0..2 * Buffers, agreed : SUBSET Buffer]
    <3>1. utt' \in [id : Nat, agreed : SUBSET Buffer]
      <4>1. CASE StaysOpen(u, free, shown)
        <5>1. u \in [id : Nat, agreed : SUBSET Buffer]
          BY <1>1, <2>1 DEF Spoken, TextOK
        <5> QED
          BY <4>1, <5>1 DEF StaysOpen
      <4>2. CASE Closes(u, free, shown)
        BY <4>2 DEF Closes, NoUtterance
      <4> QED
        BY <2>1, <4>1, <4>2
    <3>2. utt'.id \in Nat /\ utt'.id < nextId'
      BY <3>1 DEF CaptionInv
    <3>3. utt'.id \in 0..2 * Buffers
      BY <1>1, <2>4, <3>2
    <3> QED
      BY <3>1, <3>3
  <2>6. ids' \in [shown : SUBSET (1..2 * Buffers), final : SUBSET (1..2 * Buffers)]
    <3>1. 1..nextId' - 1 \subseteq 1..2 * Buffers
      <4>1. PICK b \in Nat : b = 2 * Buffers
        BY <1>1
      <4>2. PICK a \in 1..b + 1 : a = nextId'
        BY <2>4, <4>1
      <4> QED
        BY <4>1, <4>2, ShorterInterval
    <3>2. ids'.shown \subseteq 1..2 * Buffers /\ ids'.final \subseteq 1..2 * Buffers
      BY <3>1 DEF CaptionInv
    <3>3. ids' = [shown |-> ids'.shown, final |-> ids'.final]
      <4>1. CASE StaysOpen(u, free, shown)
        BY <1>1, <4>1 DEF StaysOpen, TextOK
      <4>2. CASE Closes(u, free, shown)
        BY <4>2 DEF Closes, EmitRuns
      <4> QED
        BY <2>1, <4>1, <4>2
    <3> QED
      BY <3>2, <3>3
  <2>7. heard' \subseteq Buffer /\ written' \subseteq Buffer
    <3>1. utt.agreed \subseteq Buffer
      BY <1>1 DEF TextOK
    <3>2. written' \subseteq written \cup win \cup utt.agreed
      BY <2>1 DEF StaysOpen, Closes
    <3> QED
      BY <1>1, <2>2, <3>1, <3>2 DEF TextOK
  <2> QED
    BY <2>2, <2>4, <2>5, <2>6, <2>7 DEF TextOK
<1>4. CASE UNCHANGED vars
  BY <1>2, <1>4 DEF vars, asr, segments
<1> QED
  BY <1>2, <1>3, <1>4, TextFrame, NextSplits

-----------------------------------------------------------------------------
(* The invariant holds.                                                    *)

LEMMA SessionStarts == Init => SessionInv
<1> SUFFICES ASSUME Init PROVE SessionInv
  OBVIOUS
<1>1. {Buffers, QueueSize, Hop, Window, Silence, ErrorLimit} \subseteq Nat \ {0}
  BY BoundsAssumption
<1>2. TypeOK
  <2>1. AudioOK
    BY <1>1, EmptyQueue DEF Init, AudioOK
  <2>2. WindowOK /\ LoopOK
    BY <1>1, FS_EmptySet DEF Init, WindowOK, LoopOK
  <2>3. gate \in [silero : BOOLEAN, speech : BOOLEAN, quiet : 0..Silence - 1]
    <3>1. 0 \in 0..Silence - 1 /\ FALSE \in BOOLEAN
      BY <1>1
    <3>2. PICK silero \in BOOLEAN : gate = [silero |-> silero, speech |-> FALSE, quiet |-> 0]
      BY DEF Init, Reset
    <3> QED
      BY <3>1, <3>2
  <2>4. /\ utt \in [id : 0..2 * Buffers, agreed : SUBSET Buffer]
        /\ ids \in [shown : SUBSET (1..2 * Buffers), final : SUBSET (1..2 * Buffers)]
    BY <1>1 DEF Init, NoUtterance
  <2>5. nextId \in 1..2 * Buffers + 1 /\ errors \in 0..ErrorLimit
    BY <1>1 DEF Init
  <2>6. {heard, written} \subseteq SUBSET Buffer
    BY DEF Init
  <2> QED
    BY <2>1, <2>2, <2>3, <2>4, <2>5, <2>6 DEF TypeOK, AudioOK, WindowOK, LoopOK
<1>3. MicInv
  BY DEF Init, MicInv
<1>4. BacklogInv
  BY <1>1 DEF Init, BacklogInv, AsrGaveUp
<1>5. CaptionInv
  BY DEF Init, CaptionInv, NoUtterance
<1>6. TextInv
  BY DEF Init, TextInv, NoUtterance
<1>7. OrderInv
  <2>1. Order(0)
    BY DEF Init, Order, Between, NoUtterance
  <2> QED
    BY <1>1, <2>1 DEF OrderInv
<1> QED
  BY <1>2, <1>3, <1>4, <1>5, <1>6, <1>7 DEF SessionInv

LEMMA SessionGoesOn == SessionInv /\ [Next]_vars => SessionInv'
<1> SUFFICES ASSUME SessionInv, [Next]_vars PROVE SessionInv'
  OBVIOUS
<1>1. TypeOK /\ MicInv /\ BacklogInv /\ CaptionInv /\ TextInv /\ OrderInv
  BY DEF SessionInv
<1>2. MicInv' /\ BacklogInv' /\ CaptionInv' /\ TextInv' /\ OrderInv'
  BY <1>1, MicKept, BacklogKept, CaptionsKept, TextKept, OrderKept
<1>3. AudioOK' /\ LoopOK' /\ WindowOK' /\ TextOK'
  BY <1>1, <1>2, AudioTyped, WindowTyped, TextTyped
<1>4. TypeOK'
  BY <1>3 DEF TypeOK, AudioOK, LoopOK, WindowOK, TextOK
<1> QED
  BY <1>2, <1>4 DEF SessionInv

LEMMA SessionHolds == Spec => []SessionInv
<1>1. Init => SessionInv
  BY SessionStarts
<1>2. SessionInv /\ [Next]_vars => SessionInv'
  BY SessionGoesOn
<1> QED
  BY <1>1, <1>2, PTL DEF Spec

-----------------------------------------------------------------------------
(* The theorems.                                                           *)

\* The variables of a session keep their types; in particular the window
\* never holds more than it has room for, and a buffer opens at most two ids.
THEOREM TypeCorrect == Spec => []TypeOK
BY SessionHolds, PTL DEF SessionInv

\* The recorder gets every buffer the callback let in, whatever queue, window
\* and recogniser do: drop(stream) waits for the callback before the recorder
\* finishes.
THEOREM RecordingWhole == Spec => []RecordingComplete
<1>1. SessionInv => RecordingComplete
  BY DEF SessionInv, MicInv, RecordingComplete, Ended
<1> QED
  BY <1>1, SessionHolds, PTL

\* A session that was stopped, not aborted, leaves no buffer in the queue but
\* those queued after the stop: the loop leaves by the empty queue only.
THEOREM BacklogTaken == Spec => []BacklogReceived
<1>1. SessionInv => BacklogReceived
  <2> SUFFICES ASSUME SessionInv, source = "mic", loop \in Ended, ~flags.cancel, ~AsrGaveUp
               PROVE  ToSet(queue) \subseteq late
    BY DEF BacklogReceived
  <2>1. CASE loop = "failed"
    <3>1. queue = <<>>
      BY <2>1 DEF SessionInv, BacklogInv
    <3> QED
      BY <3>1 DEF ToSet
  <2>2. CASE loop \in {"done", "final"} 
    BY <2>2 DEF SessionInv, BacklogInv
  <2> QED
    BY <2>1, <2>2 DEF Ended
<1> QED
  BY <1>1, SessionHolds, PTL

\* A caption that was shown becomes a segment with its id, and an id is not
\* used again once its segment was sent.
THEOREM CaptionBecomesFinal == Spec => []CaptionKept
<1>1. SessionInv => CaptionKept
  <2> SUFFICES ASSUME SessionInv PROVE CaptionKept
    OBVIOUS
  <2>1. utt.id \notin ids.final /\ ids.shown \subseteq ids.final \cup {utt.id}
    BY DEF SessionInv, CaptionInv
  <2>2. 0 \notin ids.shown
    BY DEF SessionInv, TypeOK
  <2>3. (loop \in Ended /\ ~AsrGaveUp) => utt.id = 0
    BY DEF SessionInv, CaptionInv, Ended
  <2> QED
    BY <2>1, <2>2, <2>3 DEF CaptionKept
<1> QED
  BY <1>1, SessionHolds, PTL

\* What becomes the text of a segment is in no segment yet: window and open
\* utterance are given up when they are written.
THEOREM WrittenOnce == Spec => NothingWrittenTwice
<1>1. SessionInv => ((written' # written) => ((win \cup utt.agreed) \cap written = {}))
  BY DEF SessionInv, TextInv
<1> QED
  BY <1>1, SessionHolds, PTL DEF NothingWrittenTwice
-----------------------------------------------------------------------------
(* Speakers.                                                               *)

\* What a registry promises, when its clips are among those with the given ids.
FileIds(d) == {w.id : w \in ClipsOf(d)}
Sound(d, among) == Registry(d) /\ NamedApart(d) /\ Verified(d) /\ FileIds(d) \subseteq among

\* The registry in memory and the one on disk, which a crash brings back, keep
\* their promises, and their clips have been made.
\* A file about to be added is there and nobody else's; one about to be deleted
\* is listed no more.
FilesInv ==
  /\ Sound(doc, 1 .. clips) /\ Sound(disk, 1 .. clips)
  /\ FileIds(doc) \subseteq wavs \cup cut
  /\ \A c \in Commands : call[c].at = "add" =>
       /\ call[c].clip.id \in wavs /\ call[c].clip.id \in 1 .. clips
       /\ call[c].clip.id \notin FileIds(doc)
       /\ \A b \in Commands \ {c} : call[b].at = "add" => call[b].clip.id # call[c].clip.id
       /\ \A b \in Commands : call[b].at = "delete" => call[c].clip.id \notin call[b].del
  /\ \A c \in Commands : call[c].at = "delete" =>
       call[c].del \subseteq 1 .. clips /\ call[c].del \cap FileIds(doc) = {}

\* Until a session is over, its strip, who is resolved and the commands for it
\* are about speakers it has a clip of.
Listening(s) == session[s].at \in {"off", "run", "over"}
For(c, s) == call[c].key = s /\ call[c].at # "done"
StripInv ==
  \A s \in Sessions :
    Listening(s) =>
      /\ DOMAIN review[s] \cup resolved[s] \subseteq DOMAIN session[s].best
      /\ \A c \in Commands : For(c, s) => call[c].speaker \in DOMAIN session[s].best

\* Unless a session crossed with a command for it, who is resolved is asked for
\* no more: the strip is made of what was read when nobody was at work.
AskedInv ==
  \A s \in Sessions \ crossed :
    /\ DOMAIN review[s] \cap resolved[s] = {}
    /\ \A c \in Commands :
         call[c].key = s /\ call[c].at = "mark" => call[c].speaker \notin DOMAIN review[s]
    /\ session[s].at = "stash" =>
         session[s].seen = resolved[s] /\ \A c \in Commands : ~For(c, s)

RegistryInv == SpeakersTypeOK /\ FilesInv /\ StripInv /\ AskedInv
-----------------------------------------------------------------------------
(* Numbers and sums.                                                       *)

\* A set of numbers that is not empty has a least one.
LEMMA LeastNumber ==
  ASSUME NEW T \in SUBSET Nat, T # {}
  PROVE  \E n \in T : \A m \in T : n <= m
<1>1. IsWellFoundedOn(OpToRel(<, Nat), Nat)
  BY NatLessThanWellFounded
<1>2. PICK n \in T : \A m \in T : ~ (<<m, n>> \in OpToRel(<, Nat))
  BY <1>1, WFMin
<1>3. ASSUME NEW m \in T, m < n PROVE FALSE
  <2>1. <<m, n>> \in Nat \X Nat /\ <<m, n>>[1] < <<m, n>>[2]
    BY <1>3
  <2>2. <<m, n>> \in OpToRel(<, Nat)
    BY <2>1 DEF OpToRel
  <2> QED
    BY <1>2, <2>2
<1> QED
  BY <1>3

\* What MapThenSumSet adds up for the subsets of cs with at most n members.
First(s) == CHOOSE x \in s : TRUE
Upto(cs, n) == {s \in SUBSET cs : Cardinality(s) <= n}
Summed(cs, n, it) ==
  it = [s \in Upto(cs, n) |-> IF s = {} THEN 0 ELSE First(s).emb + it[s \ {First(s)}]]

LEMMA FirstOut ==
  ASSUME NEW cs \in SUBSET Clip, IsFiniteSet(cs), NEW s \in SUBSET cs, s # {}
  PROVE  /\ First(s) \in cs /\ First(s).emb \in Nat
         /\ s \ {First(s)} \in SUBSET cs
         /\ Cardinality(s \ {First(s)}) = Cardinality(s) - 1
         /\ Cardinality(s) \in Nat \ {0}
<1>1. First(s) \in s
  BY DEF First
<1>2. First(s) \in cs
  BY <1>1
<1>3. First(s).emb \in Nat
  BY <1>2 DEF Clip
<1>4. IsFiniteSet(s)
  BY FS_Subset
<1>5. Cardinality(s \ {First(s)}) = Cardinality(s) - 1
  BY <1>1, <1>4, FS_RemoveElement
<1>6. Cardinality(s) \in Nat \ {0}
  BY <1>4, FS_CardinalityType, FS_EmptySet
<1> QED
  BY <1>2, <1>3, <1>5, <1>6

LEMMA SumExists ==
  ASSUME NEW cs \in SUBSET Clip, IsFiniteSet(cs)
  PROVE  \A n \in Nat : \E it : Summed(cs, n, it)
<1> DEFINE Without0 == {n \in Nat : ~ \E it : Summed(cs, n, it)}
<1>1. SUFFICES ASSUME Without0 # {} PROVE FALSE
  OBVIOUS
<1>2. PICK n \in Without0 : \A m \in Without0 : n <= m
  BY <1>1, LeastNumber
<1>3. n # 0
  <2> SUFFICES ASSUME n = 0 PROVE FALSE
    OBVIOUS
  <2> DEFINE it == [s \in Upto(cs, 0) |-> 0]
  <2>1. ASSUME NEW s \in Upto(cs, 0) PROVE s = {}
    <3>1. s \in SUBSET cs /\ Cardinality(s) <= 0
      BY DEF Upto
    <3>2. s # {} => Cardinality(s) \in Nat \ {0}
      BY <3>1, FirstOut
    <3> QED
      BY <3>1, <3>2
  <2>2. Summed(cs, 0, it)
    BY <2>1 DEF Summed
  <2> QED
    BY <1>2, <2>2
<1>4. n \in Nat /\ n - 1 \in Nat /\ n - 1 \notin Without0
  BY <1>2, <1>3
<1>5. PICK g : Summed(cs, n - 1, g)
  BY <1>4
<1> DEFINE it == [s \in Upto(cs, n) |-> IF s = {} THEN 0 ELSE First(s).emb + g[s \ {First(s)}]]
<1>6. ASSUME NEW s \in Upto(cs, n - 1) PROVE it[s] = g[s]
  <2>1. Cardinality(s) \in Nat
    BY FS_Subset, FS_CardinalityType DEF Upto
  <2>2. s \in Upto(cs, n)
    BY <1>4, <2>1 DEF Upto
  <2>3. g[s] = IF s = {} THEN 0 ELSE First(s).emb + g[s \ {First(s)}]
    BY <1>5 DEF Summed
  <2> QED
    BY <2>2, <2>3
<1>7. ASSUME NEW s \in Upto(cs, n), s # {} PROVE s \ {First(s)} \in Upto(cs, n - 1)
  BY <1>4, <1>7, FirstOut DEF Upto
<1>8. it = [s \in Upto(cs, n) |-> IF s = {} THEN 0 ELSE First(s).emb + it[s \ {First(s)}]]
  <2>1. \A s \in Upto(cs, n) : s # {} => it[s \ {First(s)}] = g[s \ {First(s)}]
    BY <1>6, <1>7
  <2> QED
    BY <2>1
<1>9. Summed(cs, n, it)
  BY <1>8 DEF Summed
<1> QED
  BY <1>2, <1>9

LEMMA SumIsNat ==
  ASSUME NEW cs \in SUBSET Clip, IsFiniteSet(cs), NEW it, Summed(cs, Cardinality(cs), it)
  PROVE  it[cs] \in Nat
<1> DEFINE Odd == {n \in Nat : \E s \in SUBSET cs : Cardinality(s) = n /\ it[s] \notin Nat}
<1>1. \A s \in SUBSET cs : IsFiniteSet(s) /\ Cardinality(s) \in Nat /\ Cardinality(s) <= Cardinality(cs)
  BY FS_Subset, FS_CardinalityType
<1>2. SUFFICES ASSUME Odd # {} PROVE FALSE
  BY <1>1
<1>3. PICK n \in Odd : \A m \in Odd : n <= m
  BY <1>2, LeastNumber
<1>4. PICK s \in SUBSET cs : Cardinality(s) = n /\ it[s] \notin Nat
  BY <1>3
<1>5. it[s] = IF s = {} THEN 0 ELSE First(s).emb + it[s \ {First(s)}]
  BY <1>1 DEF Summed, Upto
<1>6. s # {}
  BY <1>4, <1>5
<1>7. First(s).emb \in Nat /\ s \ {First(s)} \in SUBSET cs
      /\ Cardinality(s \ {First(s)}) = n - 1 /\ n \in Nat \ {0}
  BY <1>4, <1>6, FirstOut
<1>8. n - 1 \notin Odd
  BY <1>3, <1>7
<1>9. it[s \ {First(s)}] \in Nat
  BY <1>7, <1>8
<1> QED
  BY <1>4, <1>5, <1>6, <1>7, <1>9

\* The mean of clips is an embedding.
LEMMA MeanIsNat ==
  ASSUME NEW cs \in SUBSET Clip, IsFiniteSet(cs), cs # {}
  PROVE  Mean(cs) \in Nat
<1> DEFINE it == CHOOSE f : Summed(cs, Cardinality(cs), f)
           total == MapThenSumSet(LAMBDA c : c.emb, cs)
<1>1. Cardinality(cs) \in Nat \ {0}
  BY FS_CardinalityType, FS_EmptySet
<1>2. Summed(cs, Cardinality(cs), it)
  BY <1>1, SumExists
<1>3. Upto(cs, Cardinality(cs)) = SUBSET cs
  BY FS_Subset, FS_CardinalityType DEF Upto
<1>4. total = it[cs]
  BY <1>3 DEF MapThenSumSet, MapThenFoldSet, Summed, First
<1>5. total \in Nat
  BY <1>2, <1>4, SumIsNat
<1>6. \A a \in Nat, b \in Nat \ {0} : a \div b \in Nat
  OBVIOUS
<1> HIDE DEF total
<1>7. total \div Cardinality(cs) \in Nat
  BY <1>1, <1>5, <1>6
<1> QED
  BY <1>7 DEF Mean, total
-----------------------------------------------------------------------------
(* The registry.                                                           *)

LEMMA PutShape ==
  ASSUME NEW d, Registry(d), NEW id, NEW p
  PROVE  Put(d, id, p) = [next |-> d.next, speakers |-> Updated(d.speakers, id, p)]
<1>1. d = [next |-> d.next, speakers |-> d.speakers]
  BY DEF Registry
<1>2. [d EXCEPT !.speakers = Updated(@, id, p)] =
        [next |-> d.next, speakers |-> Updated(d.speakers, id, p)]
  BY <1>1
<1> QED
  BY <1>2 DEF Put

\* A profile may be put in when it keeps the promises and no other has its clips.
LEMMA PutSound ==
  ASSUME NEW d, NEW among, Sound(d, among), NEW id \in 0 .. d.next - 1, NEW p \in SpeakerProfile,
         IsFiniteSet(p.clips), Anchored(p) => p.mean = Mean(p.clips),
         \A v, w \in p.clips : v.id = w.id => v = w,
         \A q \in DOMAIN d.speakers \ {id} : \A v \in p.clips, w \in d.speakers[q].clips : v.id # w.id,
         \A v \in p.clips : v.id \in among
  PROVE  Sound(Put(d, id, p), among)
<1> DEFINE e == Put(d, id, p)
           f == Updated(d.speakers, id, p)
<1>0. f = [x \in {id} \cup DOMAIN d.speakers |-> IF x = id THEN p ELSE d.speakers[x]]
  BY DEF Updated
<1>1. e = [next |-> d.next, speakers |-> f]
  BY PutShape DEF Sound
<1>2. e.next = d.next /\ e.speakers = f
  BY <1>1
<1>3. DOMAIN f = {id} \cup DOMAIN d.speakers /\ f[id] = p
      /\ \A x \in DOMAIN f : x # id => x \in DOMAIN d.speakers /\ f[x] = d.speakers[x]
  BY <1>0
<1> HIDE DEF e, f
<1>4. Registry(d) /\ d.next \in Nat
  BY DEF Sound, Registry
<1>5. Registry(e)
  <2>1. DOMAIN e.speakers \subseteq 0 .. e.next - 1
    BY <1>2, <1>3, <1>4 DEF Registry
  <2>2. f \in [DOMAIN f -> SpeakerProfile]
    <3>1. \A x \in DOMAIN f : f[x] \in SpeakerProfile
      BY <1>3, <1>4 DEF Registry
    <3> QED
      BY <1>0, <3>1
  <2>3. \A x \in DOMAIN f : IsFiniteSet(f[x].clips)
    BY <1>3, <1>4 DEF Registry
  <2>4. e = [next |-> e.next, speakers |-> e.speakers]
    BY <1>1, <1>2
  <2> QED
    BY <1>2, <1>4, <2>1, <2>2, <2>3, <2>4 DEF Registry
<1>6. NamedApart(e)
  <2> SUFFICES ASSUME NEW a \in DOMAIN f, NEW b \in DOMAIN f, NEW v \in f[a].clips, NEW w \in f[b].clips,
                      v.id = w.id
               PROVE  a = b /\ v = w
    BY <1>2 DEF NamedApart
  <2>1. CASE a = id /\ b = id
    BY <1>3, <2>1
  <2>2. CASE a # id /\ b # id
    BY <1>3, <2>2 DEF Sound, NamedApart
  <2>3. CASE a = id /\ b # id
    BY <1>3, <2>3
  <2>4. CASE a # id /\ b = id
    BY <1>3, <2>4
  <2> QED
    BY <2>1, <2>2, <2>3, <2>4
<1>7. Verified(e)
  BY <1>2, <1>3 DEF Verified, Sound
<1>8. FileIds(e) \subseteq among
  <2> SUFFICES ASSUME NEW a \in DOMAIN f, NEW v \in f[a].clips PROVE v.id \in among
    BY <1>2 DEF FileIds, ClipsOf
  <2>1. CASE a = id
    BY <1>3, <2>1
  <2>2. CASE a # id
    BY <1>3, <2>2 DEF Sound, FileIds, ClipsOf
  <2> QED
    BY <2>1, <2>2
<1> QED
  BY <1>5, <1>6, <1>7, <1>8 DEF Sound, e

\* A profile that changes but for its clips, or gives clips up, or takes what is
\* nobody's.
LEMMA ChangedSound ==
  ASSUME NEW d, NEW among, Sound(d, among), NEW id \in DOMAIN d.speakers, NEW p \in SpeakerProfile,
         p.clips \subseteq d.speakers[id].clips, Anchored(p) => p.mean = Mean(p.clips)
  PROVE  Sound(Put(d, id, p), among)
<1>1. id \in 0 .. d.next - 1 /\ IsFiniteSet(d.speakers[id].clips)
  BY DEF Sound, Registry
<1>2. IsFiniteSet(p.clips)
  BY <1>1, FS_Subset
<1>3. \A v, w \in p.clips : v.id = w.id => v = w
  BY DEF Sound, NamedApart
<1>4. \A q \in DOMAIN d.speakers \ {id} : \A v \in p.clips, w \in d.speakers[q].clips : v.id # w.id
  BY DEF Sound, NamedApart
<1>5. \A v \in p.clips : v.id \in among
  BY DEF Sound, FileIds, ClipsOf
<1> QED
  BY <1>1, <1>2, <1>3, <1>4, <1>5, PutSound

LEMMA CreatedSound ==
  ASSUME NEW d, NEW among, Sound(d, among), NEW p \in SpeakerProfile, p.clips = {}
  PROVE  Sound(Created(d, p), among)
<1> DEFINE up == [next |-> d.next + 1, speakers |-> d.speakers]
<1>1. Registry(d) /\ d.next \in Nat
  BY DEF Sound, Registry
<1>2. Sound(up, among)
  <2>1. up.next = d.next + 1 /\ up.speakers = d.speakers
    OBVIOUS
  <2>2. DOMAIN up.speakers \subseteq 0 .. up.next - 1
    BY <1>1, <2>1 DEF Registry
  <2>3. Registry(up)
    BY <1>1, <2>1, <2>2 DEF Registry
  <2>4. NamedApart(up) /\ Verified(up) /\ FileIds(up) \subseteq among
    BY <2>1 DEF Sound, NamedApart, Verified, FileIds, ClipsOf
  <2> QED
    BY <2>3, <2>4 DEF Sound
<1>3. up.next = d.next + 1 /\ up.speakers = d.speakers
  OBVIOUS
<1>4. Created(d, p) = Put(up, d.next, p)
  <2>1. Put(d, d.next, p) = [next |-> d.next, speakers |-> Updated(d.speakers, d.next, p)]
    BY <1>1, PutShape
  <2>2. Put(up, d.next, p) = [next |-> d.next + 1, speakers |-> Updated(d.speakers, d.next, p)]
    BY <1>2, <1>3, PutShape DEF Sound
  <2> QED
    BY <2>1, <2>2 DEF Created
<1>5. d.next \in 0 .. up.next - 1 /\ IsFiniteSet(p.clips) /\ ~Anchored(p)
  BY <1>1, <1>3, FS_EmptySet DEF Anchored
<1> HIDE DEF up
<1>6. Sound(Put(up, d.next, p), among)
  BY <1>2, <1>5, PutSound
<1> QED
  BY <1>4, <1>6

\* Profiles go, or change but for their clips and means.
LEMMA MappedSound ==
  ASSUME NEW d, NEW among, Sound(d, among), NEW S \in SUBSET DOMAIN d.speakers,
         NEW f \in [S -> SpeakerProfile],
         \A x \in S : f[x].clips = d.speakers[x].clips /\ f[x].mean = d.speakers[x].mean
  PROVE  Sound([d EXCEPT !.speakers = f], among)
<1> DEFINE e == [d EXCEPT !.speakers = f]
<1>1. Registry(d) /\ d.next \in Nat
  BY DEF Sound, Registry
<1>2. e = [next |-> d.next, speakers |-> f]
  BY <1>1 DEF Registry
<1>3. e.next = d.next /\ e.speakers = f
  BY <1>2
<1>4. DOMAIN f = S /\ \A x \in S : x \in DOMAIN d.speakers
  OBVIOUS
<1> HIDE DEF e
<1>5. Registry(e)
  <2>1. \A x \in DOMAIN f : IsFiniteSet(f[x].clips)
    BY <1>1, <1>4 DEF Registry
  <2>2. DOMAIN f \subseteq 0 .. d.next - 1
    BY <1>1, <1>4 DEF Registry
  <2>3. e = [next |-> e.next, speakers |-> e.speakers]
    BY <1>2, <1>3
  <2> QED
    BY <1>1, <1>3, <1>4, <2>1, <2>2, <2>3 DEF Registry
<1>6. NamedApart(e)
  BY <1>3, <1>4 DEF Sound, NamedApart
<1>7. Verified(e)
  BY <1>3, <1>4 DEF Sound, Verified, Anchored
<1>8. FileIds(e) \subseteq among
  BY <1>3, <1>4 DEF Sound, FileIds, ClipsOf
<1> QED
  BY <1>5, <1>6, <1>7, <1>8 DEF Sound, e

LEMMA RestrictedSound ==
  ASSUME NEW d, NEW among, Sound(d, among), NEW S \in SUBSET DOMAIN d.speakers
  PROVE  Sound([d EXCEPT !.speakers = Restrict(@, S)], among)
<1> DEFINE f == [x \in S |-> d.speakers[x]]
<1>1. f \in [S -> SpeakerProfile] /\ \A x \in S : f[x] = d.speakers[x]
  BY DEF Sound, Registry
<1>2. [d EXCEPT !.speakers = Restrict(@, S)] = [d EXCEPT !.speakers = f]
  BY DEF Restrict
<1> HIDE DEF f
<1> QED
  BY <1>1, <1>2, MappedSound
-----------------------------------------------------------------------------
(* Commits.                                                                *)

LEMMA TowardIsNat ==
  ASSUME NEW a \in Nat, NEW b \in Nat
  PROVE  Toward(a, b) \in Nat
BY DEF Toward

LEMMA CommitOneSound ==
  ASSUME NEW d, NEW among, Sound(d, among), NEW c \in Cluster
  PROVE  Sound(CommitOne(d, c), among)
<1>1. c.mean \in Nat /\ c.heard \in BOOLEAN
  BY DEF Cluster
<1>2. CASE ~c.heard
  BY <1>2 DEF CommitOne
<1>3. CASE c.heard /\ Recognised(d, c.mean) = {}
  <2>1. Profile(c.mean, TRUE, FALSE) \in SpeakerProfile /\ Profile(c.mean, TRUE, FALSE).clips = {}
    BY <1>1 DEF Profile, SpeakerProfile
  <2>2. Sound(Created(d, Profile(c.mean, TRUE, FALSE)), among)
    BY <2>1, CreatedSound
  <2> QED
    BY <1>3, <2>2 DEF CommitOne
<1>4. CASE c.heard /\ Recognised(d, c.mean) # {}
  <2> DEFINE p == CHOOSE q \in Recognised(d, c.mean) : TRUE
             old == d.speakers[p]
             mean == IF Anchored(old) THEN old.mean ELSE Toward(old.mean, c.mean)
             new == [old EXCEPT !.mean = mean, !.heard = TRUE, !.recent = TRUE]
  <2>1. p \in DOMAIN d.speakers
    BY <1>4 DEF Recognised
  <2> HIDE DEF p
  <2>2. old \in SpeakerProfile
    BY <2>1 DEF Sound, Registry
  <2>3. old.mean \in Nat
    BY <2>2 DEF SpeakerProfile
  <2>4. mean \in Nat
    BY <1>1, <2>3, TowardIsNat
  <2> HIDE DEF mean
  <2>5. new \in SpeakerProfile /\ new.clips = old.clips /\ new.mean = mean
    BY <2>2, <2>4 DEF SpeakerProfile
  <2>6. Anchored(new) => new.mean = Mean(new.clips)
    BY <2>1, <2>5 DEF Anchored, Sound, Verified, mean
  <2>7. Sound(Put(d, p, new), among)
    BY <2>1, <2>5, <2>6, ChangedSound
  <2>8. CommitOne(d, c) = Put(d, p, new)
    BY <1>4 DEF CommitOne, p, mean
  <2> QED
    BY <2>7, <2>8
<1> QED
  BY <1>1, <1>2, <1>3, <1>4

\* The clusters one after the other.
Chain(d, cs, n, f) ==
  f = [i \in 0 .. n |-> IF i = 0 THEN d ELSE CommitOne(f[i - 1], cs[i])]

LEMMA ChainExists ==
  ASSUME NEW d, NEW cs
  PROVE  \A n \in Nat : \E f : Chain(d, cs, n, f)
<1> DEFINE Without0 == {n \in Nat : ~ \E f : Chain(d, cs, n, f)}
<1>1. SUFFICES ASSUME Without0 # {} PROVE FALSE
  OBVIOUS
<1>2. PICK n \in Without0 : \A m \in Without0 : n <= m
  BY <1>1, LeastNumber
<1>3. n # 0
  <2> SUFFICES ASSUME n = 0 PROVE FALSE
    OBVIOUS
  <2>1. Chain(d, cs, 0, [i \in 0 .. 0 |-> d])
    BY DEF Chain
  <2> QED
    BY <1>2, <2>1
<1>4. n \in Nat /\ n - 1 \in Nat /\ n - 1 \notin Without0
  BY <1>2, <1>3
<1>5. PICK g : Chain(d, cs, n - 1, g)
  BY <1>4
<1> DEFINE f == [i \in 0 .. n |-> IF i = 0 THEN d ELSE CommitOne(g[i - 1], cs[i])]
<1>6. ASSUME NEW i \in 0 .. n - 1 PROVE f[i] = g[i]
  BY <1>4, <1>5 DEF Chain
<1>7. \A i \in 0 .. n : i # 0 => f[i - 1] = g[i - 1]
  <2> HIDE DEF f
  <2>1. \A i \in 0 .. n : i # 0 => i - 1 \in 0 .. n - 1
    BY <1>4
  <2> QED
    BY <1>6, <2>1
<1>8. f = [i \in 0 .. n |-> IF i = 0 THEN d ELSE CommitOne(f[i - 1], cs[i])]
  BY <1>7
<1>9. Chain(d, cs, n, f)
  BY <1>8 DEF Chain
<1> QED
  BY <1>2, <1>9

LEMMA ChainSound ==
  ASSUME NEW d, NEW among, Sound(d, among), NEW cs \in Seq(Cluster), NEW f, Chain(d, cs, Len(cs), f)
  PROVE  Sound(f[Len(cs)], among)
<1> DEFINE Odd == {n \in 0 .. Len(cs) : ~Sound(f[n], among)}
<1>1. Len(cs) \in Nat
  OBVIOUS
<1>2. SUFFICES ASSUME Odd # {} PROVE FALSE
  BY <1>1
<1>3. Odd \in SUBSET Nat
  OBVIOUS
<1>4. PICK n \in Odd : \A m \in Odd : n <= m
  BY <1>2, <1>3, LeastNumber
<1>5. f[n] = IF n = 0 THEN d ELSE CommitOne(f[n - 1], cs[n])
  BY <1>4 DEF Chain
<1>6. n # 0
  BY <1>4, <1>5
<1>7. n - 1 \in 0 .. Len(cs) /\ n - 1 \notin Odd /\ n \in 1 .. Len(cs)
  BY <1>1, <1>4, <1>6
<1>8. Sound(f[n - 1], among) /\ cs[n] \in Cluster
  BY <1>7
<1>9. Sound(CommitOne(f[n - 1], cs[n]), among)
  BY <1>8, CommitOneSound
<1> QED
  BY <1>4, <1>5, <1>6, <1>9

\* A session's commit keeps what the registry promises and adds no clip.
LEMMA CommittedSound ==
  ASSUME NEW d, NEW among, Sound(d, among), NEW cs \in Seq(Cluster)
  PROVE  Sound(Committed(d, cs), among)
<1> DEFINE f == CHOOSE g : Chain(d, cs, Len(cs), g)
<1>1. Len(cs) \in Nat
  OBVIOUS
<1>2. Chain(d, cs, Len(cs), f)
  BY <1>1, ChainExists
<1>3. Committed(d, cs) = f[Len(cs)]
  BY DEF Committed, Chain
<1> HIDE DEF f
<1> QED
  BY <1>2, <1>3, ChainSound

LEMMA EvictSound ==
  ASSUME NEW d, NEW among, Sound(d, among)
  PROVE  Sound(EvictStale(d), among)
<1> DEFINE S == {x \in DOMAIN d.speakers : Anchored(d.speakers[x]) \/ d.speakers[x].recent}
<1>1. EvictStale(d) = [d EXCEPT !.speakers = Restrict(@, S)]
  BY DEF EvictStale, RestrictValues, Sound, Registry
<1>2. S \in SUBSET DOMAIN d.speakers
  OBVIOUS
<1> HIDE DEF S
<1> QED
  BY <1>1, <1>2, RestrictedSound

LEMMA ReanchorShape ==
  ASSUME NEW p \in SpeakerProfile, IsFiniteSet(p.clips)
  PROVE  /\ Reanchor(p) \in SpeakerProfile /\ Reanchor(p).clips = p.clips
         /\ Anchored(Reanchor(p)) => Reanchor(p).mean = Mean(Reanchor(p).clips)
<1>1. CASE p.clips = {}
  BY <1>1 DEF Reanchor, Anchored
<1>2. CASE p.clips # {}
  <2>1. PICK m \in Nat : m = Mean(p.clips)
    BY <1>2, MeanIsNat DEF SpeakerProfile
  <2>2. Reanchor(p) = [p EXCEPT !.mean = m]
    BY <1>2, <2>1 DEF Reanchor, Anchored
  <2> QED
    BY <2>1, <2>2 DEF SpeakerProfile
<1> QED
  BY <1>1, <1>2
-----------------------------------------------------------------------------
(* Clusters.                                                               *)

LEMMA DistIsNat ==
  ASSUME NEW a \in Nat, NEW b \in Nat
  PROVE  Dist(a, b) \in Nat
BY DEF Dist

LEMMA ClusterAt ==
  ASSUME NEW cs \in Seq(Cluster), NEW i \in DOMAIN cs
  PROVE  /\ cs[i] \in Cluster /\ cs[i].id \in Nat /\ cs[i].mean \in Nat /\ cs[i].heard \in BOOLEAN
         /\ i \in Nat \ {0} /\ i <= Len(cs)
<1>1. cs[i] \in Cluster /\ i \in 1 .. Len(cs) /\ Len(cs) \in Nat
  OBVIOUS
<1> QED
  BY <1>1 DEF Cluster

LEMMA NearestIsThere ==
  ASSUME NEW cs \in Seq(Cluster), cs # <<>>, NEW e \in Nat
  PROVE  Nearest(cs, e) \in DOMAIN cs
<1> DEFINE far == [j \in DOMAIN cs |-> Dist(cs[j].mean, e)]
           T == {far[j] : j \in DOMAIN cs}
<1>1. \A j \in DOMAIN cs : far[j] \in Nat /\ j \in Nat
  BY ClusterAt, DistIsNat
<1>2. T # {}
  <2>1. 1 \in DOMAIN cs
    OBVIOUS
  <2> QED
    BY <2>1
<1> HIDE DEF far
<1>3. T \in SUBSET Nat
  BY <1>1
<1>4. PICK m \in T : \A k \in T : m <= k
  BY <1>2, <1>3, LeastNumber
<1> DEFINE J == {j \in DOMAIN cs : far[j] = m}
<1>5. J # {} /\ J \in SUBSET Nat
  BY <1>1, <1>4
<1>6. PICK i \in J : \A j \in J : i <= j
  BY <1>5, LeastNumber
<1>7. \A j \in DOMAIN cs : far[i] < far[j] \/ (far[i] = far[j] /\ i <= j)
  <2>1. far[i] = m /\ \A j \in DOMAIN cs : far[j] = m => i <= j
    BY <1>6
  <2>2. \A j \in DOMAIN cs : m <= far[j] /\ m \in Nat /\ far[j] \in Nat
    BY <1>1, <1>3, <1>4
  <2> QED
    BY <2>1, <2>2
<1>8. i \in DOMAIN cs
  OBVIOUS
<1> QED
  BY <1>7, <1>8 DEF Nearest, far

LEMMA ClosestIsThere ==
  ASSUME NEW cs \in Seq(Cluster), Len(cs) >= 2
  PROVE  Closest(cs)[1] \in DOMAIN cs /\ Closest(cs)[2] \in DOMAIN cs
<1> DEFINE gap(p) == Dist(cs[p[1]].mean, cs[p[2]].mean)
           P == {p \in (DOMAIN cs) \X (DOMAIN cs) : p[1] < p[2]}
           T == {gap(p) : p \in P}
<1>1. \A p \in P : gap(p) \in Nat
  BY ClusterAt, DistIsNat
<1>2. <<1, 2>> \in P
  OBVIOUS
<1>3. T # {}
  BY <1>2
<1> HIDE DEF gap
<1>4. T \in SUBSET Nat
  BY <1>1
<1>5. PICK m \in T : \A k \in T : m <= k
  BY <1>3, <1>4, LeastNumber
<1>6. PICK p \in P : gap(p) = m
  BY <1>5
<1>7. \A q \in P : gap(p) <= gap(q)
  BY <1>5, <1>6
<1>8. p \in (DOMAIN cs) \X (DOMAIN cs) /\ p[1] < p[2]
      /\ \A q \in (DOMAIN cs) \X (DOMAIN cs) : q[1] < q[2] => gap(p) <= gap(q)
  BY <1>7
<1>9. Closest(cs) \in (DOMAIN cs) \X (DOMAIN cs)
  BY <1>8 DEF Closest, gap
<1> QED
  BY <1>9

LEMMA AbsorbIsCluster ==
  ASSUME NEW c \in Cluster, NEW e \in Nat
  PROVE  Absorb(c, e) \in Cluster
<1>1. c.mean \in Nat /\ c.heard \in BOOLEAN
  BY DEF Cluster
<1>2. PICK m \in Nat : m = IF c.heard THEN Toward(c.mean, e) ELSE e
  BY <1>1, TowardIsNat
<1>3. Absorb(c, e) = [c EXCEPT !.mean = m, !.heard = TRUE]
  BY <1>2 DEF Absorb
<1> QED
  BY <1>3 DEF Cluster

LEMMA ReplacedIsSeq ==
  ASSUME NEW cs \in Seq(Cluster), NEW i, NEW c \in Cluster
  PROVE  [cs EXCEPT ![i] = c] \in Seq(Cluster) /\ Len([cs EXCEPT ![i] = c]) = Len(cs)
<1> DEFINE r == [cs EXCEPT ![i] = c]
<1>1. cs \in [1 .. Len(cs) -> Cluster] /\ Len(cs) \in Nat
  OBVIOUS
<1>2. r \in [1 .. Len(cs) -> Cluster]
  BY <1>1
<1> HIDE DEF r
<1>3. r \in Seq(Cluster)
  BY <1>1, <1>2
<1>4. Len(r) = Len(cs)
  BY <1>1, <1>2
<1> QED
  BY <1>3, <1>4 DEF r

LEMMA ForceMergeIsSeq ==
  ASSUME NEW cs \in Seq(Cluster)
  PROVE  ForceMerge(cs) \in Seq(Cluster)
<1>1. CASE Len(cs) < 2
  BY <1>1 DEF ForceMerge
<1>2. CASE ~(Len(cs) < 2)
  <2>1. Len(cs) >= 2
    BY <1>2
  <2>2. PICK a \in DOMAIN cs, b \in DOMAIN cs : a = Closest(cs)[1] /\ b = Closest(cs)[2]
    BY <2>1, ClosestIsThere
  <2>3. cs[a] \in Cluster /\ cs[b].mean \in Nat /\ b \in Nat \ {0} /\ b <= Len(cs)
    BY ClusterAt
  <2>4. PICK c \in Cluster : c = IF cs[b].heard THEN Absorb(cs[a], cs[b].mean) ELSE cs[a]
    BY <2>3, AbsorbIsCluster
  <2>5. PICK merged \in Seq(Cluster) : merged = [cs EXCEPT ![a] = c] /\ Len(merged) = Len(cs)
    BY ReplacedIsSeq
  <2>6. SubSeq(merged, 1, b - 1) \o SubSeq(merged, b + 1, Len(merged)) \in Seq(Cluster)
    <3>1. SubSeq(merged, 1, b - 1) \in Seq(Cluster) /\ SubSeq(merged, b + 1, Len(merged)) \in Seq(Cluster)
      <4>1. b - 1 \in Nat /\ b - 1 <= Len(merged) /\ b + 1 \in Nat /\ Len(merged) \in Nat
        BY <2>3, <2>5
      <4>2. \A i \in 1 .. b - 1 : merged[i] \in Cluster
        BY <4>1
      <4>3. \A i \in b + 1 .. Len(merged) : merged[i] \in Cluster
        BY <4>1
      <4> QED
        BY <4>1, <4>2, <4>3, SubSeqProperties
    <3> QED
      BY <3>1
  <2>7. ForceMerge(cs) = cs \/ ForceMerge(cs) = RemoveAt(merged, b)
    BY <1>2, <2>2, <2>4, <2>5 DEF ForceMerge
  <2> QED
    BY <2>6, <2>7 DEF RemoveAt
<1> QED
  BY <1>1, <1>2

\* Whatever assign does, clusters stay clusters and the answer is a number.
LEMMA AssignShape ==
  ASSUME NEW cs \in Seq(Cluster), NEW free \in Nat, NEW e \in Nat, NEW lock \in BOOLEAN
  PROVE  /\ Assign(cs, free, e, lock).clusters \in Seq(Cluster)
         /\ Assign(cs, free, e, lock).id \in Nat /\ Assign(cs, free, e, lock).dist \in Int
<1> DEFINE i == Nearest(cs, e)
           far == Dist(cs[i].mean, e)
           room == IF Len(cs) >= MaxClusters THEN ForceMerge(cs) ELSE cs
           new == [id |-> free, mean |-> e, heard |-> TRUE]
           a == Assign(cs, free, e, lock)
           Shaped(r) == r.clusters \in Seq(Cluster) /\ r.id \in Nat /\ r.dist \in Int
<1>1. ASSUME NEW r \in Seq(Cluster), NEW id \in Nat, NEW n \in Int
      PROVE  Shaped(Assigned(r, id, n)) /\ Shaped([Assigned(r, 0, n) EXCEPT !.panics = TRUE])
  BY DEF Assigned
<1>2. cs # <<>> => i \in DOMAIN cs /\ cs[i] \in Cluster /\ cs[i].id \in Nat /\ cs[i].mean \in Nat
                   /\ i \in Nat \ {0}
  BY NearestIsThere, ClusterAt
<1>3. cs # <<>> => far \in Nat
  BY <1>2, DistIsNat
<1>4. room \in Seq(Cluster) /\ new \in Cluster
  BY ForceMergeIsSeq DEF Cluster
<1>5. MaxClusters \in Nat \ {0}
  BY SpeakersAssumption
<1> HIDE DEF i, far, room, new, Shaped
<1>6. CASE cs # <<>> /\ (far <= Join \/ lock)
  <2>1. PICK r \in Seq(Cluster) : r = IF lock THEN cs ELSE [cs EXCEPT ![i] = Absorb(@, e)]
    <3>1. Absorb(cs[i], e) \in Cluster
      BY <1>2, <1>6, AbsorbIsCluster
    <3>2. [cs EXCEPT ![i] = Absorb(cs[i], e)] \in Seq(Cluster)
      BY <3>1, ReplacedIsSeq
    <3> QED
      BY <3>2
  <2>2. ~(cs # <<>> /\ far > Join /\ far <= Create /\ ~lock)
    BY <1>3, <1>6, SpeakersAssumption
  <2>3. a = Assigned(r, cs[i].id, far)
    BY <1>6, <2>1, <2>2 DEF Assign, i, far
  <2> QED
    BY <1>1, <1>2, <1>3, <1>6, <2>3 DEF Shaped
<1>7. CASE cs # <<>> /\ far > Join /\ far <= Create /\ ~lock
  <2>1. PICK r \in Seq(Cluster) : r = IF far = Create THEN cs ELSE [cs EXCEPT ![i].mean = Toward(@, e)]
    <3>1. PICK m \in Nat : m = Toward(cs[i].mean, e)
      BY <1>2, <1>7, TowardIsNat
    <3>2. [cs[i] EXCEPT !.mean = m] \in Cluster
      BY <1>2, <1>7 DEF Cluster
    <3>3. [cs EXCEPT ![i] = [cs[i] EXCEPT !.mean = m]] \in Seq(Cluster)
      BY <3>2, ReplacedIsSeq
    <3>4. [cs EXCEPT ![i].mean = Toward(@, e)] = [cs EXCEPT ![i] = [cs[i] EXCEPT !.mean = m]]
      BY <3>1
    <3> QED
      BY <3>3, <3>4
  <2>2. ~(far <= Join \/ lock)
    BY <1>3, <1>7, SpeakersAssumption
  <2>3. a = Assigned(r, cs[i].id, far)
    BY <1>7, <2>1, <2>2 DEF Assign, i, far
  <2> QED
    BY <1>1, <1>2, <1>3, <1>7, <2>3 DEF Shaped
<1>8. CASE ~(cs # <<>> /\ (far <= Join \/ lock)) /\ ~(cs # <<>> /\ far > Join /\ far <= Create /\ ~lock)
  <2>1. a = IF Len(room) >= MaxClusters THEN Crowded(room, i, far) ELSE Assigned(Append(room, new), free, 0)
    BY <1>8 DEF Assign, i, far, room, new
  <2>2. CASE Len(room) >= MaxClusters
    <3>1. cs # <<>>
      <4> SUFFICES ASSUME cs = <<>> PROVE FALSE
        OBVIOUS
      <4>1. Len(cs) = 0
        OBVIOUS
      <4>2. room = cs
        BY <1>5, <4>1 DEF room
      <4> QED
        BY <1>5, <2>2, <4>1, <4>2
    <3>2. CASE i > Len(room)
      BY <1>1, <1>3, <1>4, <2>1, <2>2, <3>1, <3>2 DEF Crowded, Shaped
    <3>3. CASE ~(i > Len(room))
      <4>1. i \in DOMAIN room
        BY <1>2, <1>4, <3>1, <3>3
      <4>2. room[i].id \in Nat
        BY <1>4, <4>1, ClusterAt
      <4>3. a = Assigned(room, room[i].id, far)
        BY <2>1, <2>2, <3>3 DEF Crowded
      <4> QED
        BY <1>1, <1>3, <1>4, <3>1, <4>2, <4>3 DEF Shaped
    <3> QED
      BY <3>2, <3>3
  <2>3. CASE ~(Len(room) >= MaxClusters)
    <3>1. Append(room, new) \in Seq(Cluster)
      BY <1>4
    <3>2. \A r \in Seq(Cluster) : Shaped(Assigned(r, free, 0))
      BY <1>1 DEF Shaped
    <3>3. Shaped(Assigned(Append(room, new), free, 0))
      BY <3>1, <3>2 DEF Shaped
    <3> QED
      BY <2>1, <2>3, <3>3 DEF Shaped
  <2> QED
    BY <2>2, <2>3
<1> QED
  BY <1>6, <1>7, <1>8
-----------------------------------------------------------------------------
(* What leaves the invariant alone.                                        *)

\* A registry promises the same when its own clips are all that may be in it.
LEMMA OwnClips ==
  ASSUME NEW d, NEW among, Sound(d, among)
  PROVE  Sound(d, FileIds(d))
BY DEF Sound

LEMMA WiderClips ==
  ASSUME NEW d, NEW some, NEW among, Sound(d, some), some \subseteq among
  PROVE  Sound(d, among)
BY DEF Sound

\* Clips may leave the registry, with their files listed for deletion; no file
\* is made, none is deleted yet.
LEMMA FilesShrink ==
  ASSUME FilesInv, Sound(doc', FileIds(doc)), Sound(disk', 1 .. clips),
         UNCHANGED <<wavs, clips, cut>>,
         \A c \in Commands : call'[c].at = "add" => call[c].at = "add" /\ call'[c].clip = call[c].clip,
         \A c \in Commands : call'[c].at = "delete" =>
           \/ call[c].at = "delete" /\ call'[c].del = call[c].del
           \/ call'[c].del \subseteq FileIds(doc) /\ call'[c].del \cap FileIds(doc') = {}
  PROVE  FilesInv'
<1>1. FileIds(doc') \subseteq FileIds(doc) /\ FileIds(doc) \subseteq 1 .. clips
  BY DEF FilesInv, Sound
<1>2. Sound(doc', 1 .. clips)
  BY <1>1, WiderClips
<1>3. FileIds(doc') \subseteq wavs \cup cut
  BY <1>1 DEF FilesInv
<1>4. ASSUME NEW c \in Commands, call'[c].at = "add"
      PROVE  /\ call'[c].clip.id \in wavs /\ call'[c].clip.id \in 1 .. clips
             /\ call'[c].clip.id \notin FileIds(doc')
             /\ \A b \in Commands \ {c} : call'[b].at = "add" => call'[b].clip.id # call'[c].clip.id
             /\ \A b \in Commands : call'[b].at = "delete" => call'[c].clip.id \notin call'[b].del
  <2>1. call[c].at = "add" /\ call'[c].clip = call[c].clip
    BY <1>4
  <2>2. call[c].clip.id \in wavs /\ call[c].clip.id \in 1 .. clips /\ call[c].clip.id \notin FileIds(doc)
    BY <2>1 DEF FilesInv
  <2>3. \A b \in Commands \ {c} : call'[b].at = "add" => call'[b].clip.id # call'[c].clip.id
    BY <2>1 DEF FilesInv
  <2>4. \A b \in Commands : call'[b].at = "delete" => call'[c].clip.id \notin call'[b].del
    BY <2>1, <2>2 DEF FilesInv
  <2> QED
    BY <1>1, <2>1, <2>2, <2>3, <2>4
<1>5. ASSUME NEW c \in Commands, call'[c].at = "delete"
      PROVE  call'[c].del \subseteq 1 .. clips /\ call'[c].del \cap FileIds(doc') = {}
  <2>1. CASE call[c].at = "delete" /\ call'[c].del = call[c].del
    <3>1. call[c].del \subseteq 1 .. clips /\ call[c].del \cap FileIds(doc) = {}
      BY <2>1 DEF FilesInv
    <3> QED
      BY <1>1, <2>1, <3>1
  <2>2. CASE call'[c].del \subseteq FileIds(doc) /\ call'[c].del \cap FileIds(doc') = {}
    BY <1>1, <2>2
  <2> QED
    BY <1>5, <2>1, <2>2
<1>6. FileIds(doc)' = FileIds(doc') /\ Sound(doc, 1 .. clips)' = Sound(doc', 1 .. clips)
      /\ Sound(disk, 1 .. clips)' = Sound(disk', 1 .. clips)
  BY DEF FileIds, ClipsOf, Sound, Registry, NamedApart, Verified
<1> QED
  BY <1>2, <1>3, <1>4, <1>5, <1>6 DEF FilesInv

LEMMA FilesSame ==
  ASSUME FilesInv, UNCHANGED <<doc, disk, wavs, clips, cut>>,
         \A c \in Commands : call'[c].at = "add" => call[c].at = "add" /\ call'[c].clip = call[c].clip,
         \A c \in Commands : call'[c].at = "delete" => call[c].at = "delete" /\ call'[c].del = call[c].del
  PROVE  FilesInv'
<1>1. Sound(doc', FileIds(doc)) /\ Sound(disk', 1 .. clips)
  BY OwnClips DEF FilesInv
<1> QED
  BY <1>1, FilesShrink

\* A command takes a step.
LEMMA CallMoves ==
  ASSUME call \in [Commands -> CallState], NEW c \in Commands, NEW r \in CallState,
         call' = [call EXCEPT ![c] = r]
  PROVE  /\ call' \in [Commands -> CallState] /\ call'[c] = r
         /\ \A b \in Commands \ {c} : call'[b] = call[b]
OBVIOUS

\* The strip is untouched by a command that stays at work for its speaker, or
\* is done, and has not come to resolve it.
LEMMA StripSame ==
  ASSUME StripInv, AskedInv, call \in [Commands -> CallState],
         UNCHANGED <<session, review, resolved, crossed>>,
         NEW c \in Commands, NEW r \in CallState, call' = [call EXCEPT ![c] = r],
         r.at # "mark", call[c].at # "done",
         r.at = "done" \/ (r.key = call[c].key /\ r.speaker = call[c].speaker)
  PROVE  StripInv' /\ AskedInv'
<1>1. call'[c] = r /\ \A b \in Commands \ {c} : call'[b] = call[b]
  BY CallMoves
<1>2. \A b \in Commands, s \in Sessions :
        For(b, s)' => For(b, s) /\ call'[b].speaker = call[b].speaker
  BY <1>1 DEF For
<1>3. StripInv'
  BY <1>2 DEF StripInv, Listening
<1>4. \A b \in Commands : call'[b].at = "mark" => call[b] = call'[b]
  BY <1>1
<1>5. AskedInv'
  BY <1>2, <1>4 DEF AskedInv
<1> QED
  BY <1>3, <1>5

\* A session takes a step that leaves strip and commands alone.
LEMMA SessionMoves ==
  ASSUME session \in [Sessions -> SessionState], NEW s \in Sessions, NEW r \in SessionState,
         session' = [session EXCEPT ![s] = r]
  PROVE  /\ session' \in [Sessions -> SessionState] /\ session'[s] = r
         /\ \A q \in Sessions \ {s} : session'[q] = session[q]
OBVIOUS

LEMMA SessionSame ==
  ASSUME StripInv, AskedInv, session \in [Sessions -> SessionState],
         UNCHANGED <<call, review, resolved, crossed>>,
         NEW s \in Sessions, NEW r \in SessionState, session' = [session EXCEPT ![s] = r],
         r.at # "stash", r.at \in {"off", "run", "over"} => Listening(s) /\ r.best = session[s].best
  PROVE  StripInv' /\ AskedInv'
<1>1. session'[s] = r /\ \A q \in Sessions \ {s} : session'[q] = session[q]
  BY SessionMoves
<1>2. \A q \in Sessions : Listening(q)' => Listening(q) /\ session'[q].best = session[q].best
  BY <1>1 DEF Listening
<1>3. StripInv'
  BY <1>2 DEF StripInv, For
<1>4. \A q \in Sessions : session'[q].at = "stash" => session'[q] = session[q]
  BY <1>1
<1>5. AskedInv'
  BY <1>4 DEF AskedInv, For
<1> QED
  BY <1>3, <1>5
-----------------------------------------------------------------------------
(* The steps of a session.                                                 *)

LEMMA InvTypes ==
  ASSUME RegistryInv
  PROVE  /\ session \in [Sessions -> SessionState] /\ call \in [Commands -> CallState]
         /\ review \in [Sessions -> Samples] /\ resolved \in [Sessions -> SUBSET Nat]
         /\ offered \in [Sessions -> UNION {[S -> SUBSET Nat] : S \in SUBSET Nat}]
         /\ Registry(doc) /\ Sound(doc, 1 .. clips) /\ Sound(disk, 1 .. clips) /\ clips \in Nat
         /\ Sound(doc, FileIds(doc)) /\ doc.next \in Nat
         /\ FilesInv /\ StripInv /\ AskedInv /\ SpeakersTypeOK
BY OwnClips DEF RegistryInv, SpeakersTypeOK, FilesInv, Registry

\* The places of a session.
Places == {"off", "run", "over", "stash", "commit", "save", "done"}
Stages == {"idle", "create", "write", "add", "delete", "save", "clear", "mark", "done"}

LEMMA AtMoves ==
  ASSUME session \in [Sessions -> SessionState], NEW s \in Sessions, NEW place \in Places,
         At(s, place)
  PROVE  \E r \in SessionState :
           /\ session' = [session EXCEPT ![s] = r] /\ r.at = place
           /\ r.best = session[s].best /\ r.seen = session[s].seen
<1> DEFINE r == [session[s] EXCEPT !.at = place]
<1>1. r \in SessionState /\ r.at = place /\ r.best = session[s].best /\ r.seen = session[s].seen
  BY DEF SessionState, Places
<1>2. session' = [session EXCEPT ![s] = r]
  BY DEF At
<1> QED
  BY <1>1, <1>2

LEMMA StepMoves ==
  ASSUME call \in [Commands -> CallState], NEW c \in Commands, NEW place \in Stages, Step(c, place)
  PROVE  \E r \in CallState :
           /\ call' = [call EXCEPT ![c] = r] /\ r.at = place /\ r.key = call[c].key
           /\ r.speaker = call[c].speaker /\ r.clip = call[c].clip /\ r.del = call[c].del
<1> DEFINE r == [call[c] EXCEPT !.at = place]
<1>1. r \in CallState /\ r.at = place /\ r.key = call[c].key
      /\ r.speaker = call[c].speaker /\ r.clip = call[c].clip /\ r.del = call[c].del
  BY DEF CallState, Stages
<1>2. call' = [call EXCEPT ![c] = r]
  BY DEF Step
<1> QED
  BY <1>1, <1>2

\* A session's step that touches neither registry nor strip nor commands.
LEMMA SessionOnly ==
  ASSUME RegistryInv, NEW s \in Sessions, NEW r \in SessionState, session' = [session EXCEPT ![s] = r],
         r.at # "stash", r.at \in {"off", "run", "over"} => Listening(s) /\ r.best = session[s].best,
         UNCHANGED <<turns, registry, strip, call, history>>
  PROVE  RegistryInv'
<1>1. UNCHANGED <<doc, disk, wavs, clips, turns, review, resolved, offered, call, trouble, cut, crossed>>
  BY DEF registry, strip, history
<1>2. session' \in [Sessions -> SessionState]
  BY InvTypes, SessionMoves
<1>3. SpeakersTypeOK'
  BY <1>1, <1>2, InvTypes DEF SpeakersTypeOK, Registry
<1>4. FilesInv'
  BY <1>1, InvTypes, FilesSame
<1>5. StripInv' /\ AskedInv'
  BY <1>1, InvTypes, SessionSame
<1> QED
  BY <1>3, <1>4, <1>5 DEF RegistryInv

LEMMA SeedIsSeq ==
  ASSUME Registry(doc), NEW among \in [1 .. Cardinality(Ids) -> Ids]
  PROVE  Seed(among) \in Seq(Cluster)
<1>1. doc.next \in Nat /\ Ids \subseteq 0 .. doc.next - 1
  BY DEF Registry, Ids
<1>2. IsFiniteSet(Ids)
  <2>1. doc.next - 1 \in Int
    BY <1>1
  <2>2. IsFiniteSet(0 .. doc.next - 1)
    BY <2>1, FS_Interval
  <2> QED
    BY <1>1, <2>2, FS_Subset
<1>3. Cardinality(Ids) \in Nat
  BY <1>2, FS_CardinalityType
<1>4. \A i \in 1 .. Cardinality(Ids) :
        [id |-> among[i], mean |-> doc.speakers[among[i]].mean, heard |-> doc.speakers[among[i]].heard] \in Cluster
  BY <1>1 DEF Registry, Ids, SpeakerProfile, Cluster
<1>5. DOMAIN among = 1 .. Cardinality(Ids)
  OBVIOUS
<1>6. Seed(among) \in [1 .. Cardinality(Ids) -> Cluster]
  BY <1>4, <1>5 DEF Seed
<1> QED
  BY <1>3, <1>6

LEMMA WarmUpStep ==
  ASSUME RegistryInv, NEW s \in Sessions, WarmUp(s)
  PROVE  RegistryInv'
<1>1. session[s].at = "off" /\ UNCHANGED <<turns, registry, strip, call, history>>
  BY DEF WarmUp
<1>2. CASE At(s, "done")
  BY <1>1, <1>2, InvTypes, AtMoves, SessionOnly DEF Places
<1>3. ASSUME NEW among \in [1 .. Cardinality(Ids) -> Ids],
             session' = [session EXCEPT ![s].at = "run", ![s].clusters = Seed(among), ![s].next = doc.next]
      PROVE  RegistryInv'
  <2>1. PICK seeds \in Seq(Cluster), n \in Nat : seeds = Seed(among) /\ n = doc.next
    BY InvTypes, SeedIsSeq
  <2> DEFINE r == [session[s] EXCEPT !.at = "run", !.clusters = seeds, !.next = n]
  <2>2. r \in SessionState /\ r.at = "run" /\ r.best = session[s].best
    BY InvTypes DEF SessionState
  <2>3. session' = [session EXCEPT ![s] = r]
    BY <1>3, <2>1
  <2>4. Listening(s)
    BY <1>1 DEF Listening
  <2> HIDE DEF r
  <2> QED
    BY <1>1, <2>2, <2>3, <2>4, SessionOnly
<1> QED
  BY <1>2, <1>3 DEF WarmUp

LEMMA StopsStep ==
  ASSUME RegistryInv, NEW s \in Sessions, Stops(s)
  PROVE  RegistryInv'
<1>1. Listening(s) /\ UNCHANGED <<turns, registry, strip, call, history>>
  BY DEF Stops, Listening
<1>2. CASE At(s, "over")
  BY <1>1, <1>2, InvTypes, AtMoves, SessionOnly DEF Places
<1>3. CASE At(s, "commit")
  BY <1>1, <1>3, InvTypes, AtMoves, SessionOnly DEF Places
<1> QED
  BY <1>2, <1>3 DEF Stops

LEMMA CommitStep ==
  ASSUME RegistryInv, NEW s \in Sessions, Commit(s)
  PROVE  RegistryInv'
<1>1. UNCHANGED <<turns, disk, wavs, clips, review, resolved, offered, call, trouble, cut, crossed>>
  BY DEF Commit, strip, history
<1>2. PICK r \in SessionState : session' = [session EXCEPT ![s] = r] /\ r.at \in {"save", "done"}
  <2>1. At(s, "save") \/ At(s, "done")
    BY DEF Commit
  <2> QED
    BY <2>1, InvTypes, AtMoves DEF Places
<1>3. Sound(doc', FileIds(doc))
  <2>1. session[s].clusters \in Seq(Cluster)
    BY InvTypes DEF SessionState
  <2>2. Sound(EvictStale(Committed(doc, session[s].clusters)), FileIds(doc))
    BY <2>1, InvTypes, CommittedSound, EvictSound
  <2>3. doc' = EvictStale(Committed(doc, session[s].clusters)) \/ doc' = doc
    BY DEF Commit
  <2> QED
    BY <2>2, <2>3, InvTypes
<1>4. FilesInv'
  BY <1>1, <1>3, InvTypes, FilesShrink
<1>5. session' \in [Sessions -> SessionState]
  BY <1>2, InvTypes, SessionMoves
<1>6. SpeakersTypeOK'
  BY <1>1, <1>3, <1>5, InvTypes DEF SpeakersTypeOK, Sound
<1>7. StripInv' /\ AskedInv'
  BY <1>1, <1>2, InvTypes, SessionSame
<1> QED
  BY <1>4, <1>6, <1>7 DEF RegistryInv

LEMMA SaveShape ==
  ASSUME RegistryInv, NEW fails \in BOOLEAN, Save(fails)
  PROVE  /\ trouble' \in Nat /\ Sound(disk', 1 .. clips)
         /\ UNCHANGED <<doc, wavs, clips, cut, crossed>>
<1>1. trouble \in Nat
  BY InvTypes DEF SpeakersTypeOK
<1> QED
  BY <1>1, InvTypes DEF Save

LEMMA SaveSessionStep ==
  ASSUME RegistryInv, NEW s \in Sessions, SaveSession(s)
  PROVE  RegistryInv'
<1>1. PICK fails \in BOOLEAN : Save(fails)
  BY DEF SaveSession
<1>2. UNCHANGED <<turns, review, resolved, offered, call>>
  BY DEF SaveSession, strip
<1>3. /\ trouble' \in Nat /\ Sound(disk', 1 .. clips)
      /\ UNCHANGED <<doc, wavs, clips, cut, crossed>>
  BY <1>1, SaveShape
<1>4. PICK r \in SessionState : session' = [session EXCEPT ![s] = r] /\ r.at = "done"
  BY InvTypes, AtMoves DEF SaveSession, Places
<1>5. FilesInv'
  BY <1>2, <1>3, InvTypes, FilesShrink
<1>6. session' \in [Sessions -> SessionState]
  BY <1>4, InvTypes, SessionMoves
<1>7. SpeakersTypeOK'
  BY <1>2, <1>3, <1>6, InvTypes DEF SpeakersTypeOK, Sound
<1>8. StripInv' /\ AskedInv'
  BY <1>2, <1>3, <1>4, InvTypes, SessionSame
<1> QED
  BY <1>5, <1>7, <1>8 DEF RegistryInv
-----------------------------------------------------------------------------
(* Clips on the strip.                                                     *)

LEMMA SamplesIs ==
  ASSUME NEW f
  PROVE  f \in Samples <=> DOMAIN f \in SUBSET Nat /\ f \in [DOMAIN f -> Sample]
BY DEF Samples

LEMMA UpdatedSamples ==
  ASSUME NEW f \in Samples, NEW x \in Nat, NEW v \in Sample
  PROVE  Updated(f, x, v) \in Samples /\ DOMAIN Updated(f, x, v) = {x} \cup DOMAIN f
<1>1. DOMAIN f \in SUBSET Nat /\ f \in [DOMAIN f -> Sample]
  BY SamplesIs
<1> DEFINE S == {x} \cup DOMAIN f
<1>2. S \in SUBSET Nat
  BY <1>1
<1>3. Updated(f, x, v) \in [S -> Sample]
  BY <1>1 DEF Updated
<1>4. DOMAIN Updated(f, x, v) = S
  BY DEF Updated
<1> HIDE DEF S
<1>5. Updated(f, x, v) \in Samples
  BY <1>2, <1>3 DEF Samples
<1> QED
  BY <1>4, <1>5 DEF S

LEMMA RestrictedSamples ==
  ASSUME NEW f \in Samples, NEW S \in SUBSET DOMAIN f
  PROVE  Restrict(f, S) \in Samples /\ DOMAIN Restrict(f, S) = S
<1>1. S \in SUBSET Nat /\ Restrict(f, S) \in [S -> Sample]
  BY SamplesIs DEF Restrict
<1> QED
  BY <1>1 DEF Samples

LEMMA NoSamples ==
  /\ <<>> \in Samples /\ DOMAIN <<>> = {}
  /\ <<>> \in UNION {[S -> SUBSET Nat] : S \in SUBSET Nat}
<1>1. DOMAIN <<>> = {} /\ <<>> \in [{} -> Sample] /\ <<>> \in [{} -> SUBSET Nat]
  OBVIOUS
<1>2. {} \in SUBSET Nat
  OBVIOUS
<1> QED
  BY <1>1, <1>2 DEF Samples

LEMMA IdsAreNat ==
  ASSUME Registry(doc)
  PROVE  Ids \in SUBSET Nat
BY DEF Registry, Ids

\* A speaker has one clip more, which the strip may show.
LEMMA TurnStep ==
  ASSUME RegistryInv, NEW s \in Sessions, NEW e \in Voices, NEW lock \in BOOLEAN, NEW long \in BOOLEAN,
         NEW last \in BOOLEAN, Turn(s, e, lock, long, last)
  PROVE  RegistryInv'
<1> DEFINE S == session[s]
           a == Assign(S.clusters, S.next, e, lock)
           cand == [emb |-> e, conf |-> -a.dist]
           takes == Takes(S.best, a.id, a.dist, lock, long)
           chip == takes /\ a.id \notin DOMAIN S.best /\ ~last
<1>1. /\ S.at = "run" /\ turns' = turns + 1
      /\ UNCHANGED <<doc, disk, wavs, clips, call, trouble, cut, crossed>>
  BY DEF Turn, registry, history
<1>2. /\ S \in SessionState /\ S.best \in Samples /\ S.next \in Nat /\ S.clusters \in Seq(Cluster)
  BY InvTypes DEF SessionState
<1>3. e \in Nat
  BY SpeakersAssumption
<1>4. a.clusters \in Seq(Cluster) /\ a.id \in Nat /\ cand \in Sample
  <2>1. a.clusters \in Seq(Cluster) /\ a.id \in Nat /\ a.dist \in Int
    BY <1>2, <1>3, AssignShape
  <2> QED
    BY <1>3, <2>1 DEF Sample
<1>5. turns' \in Nat
  BY <1>1, InvTypes DEF SpeakersTypeOK
<1>6. FilesInv'
  BY <1>1, InvTypes, FilesSame
<1> HIDE DEF a, cand, takes, chip
<1>7. CASE a.panics
  <2>1. At(s, "commit") /\ UNCHANGED <<review, resolved, offered>>
    BY <1>7 DEF Turn, strip, a
  <2>2. PICK r \in SessionState : session' = [session EXCEPT ![s] = r] /\ r.at = "commit"
    BY <2>1, InvTypes, AtMoves DEF Places
  <2>3. session' \in [Sessions -> SessionState]
    BY <2>2, InvTypes, SessionMoves
  <2>4. SpeakersTypeOK'
    BY <1>1, <1>5, <2>1, <2>3, InvTypes DEF SpeakersTypeOK, Registry
  <2>5. StripInv' /\ AskedInv'
    BY <1>1, <2>1, <2>2, InvTypes, SessionSame
  <2> QED
    BY <1>6, <2>4, <2>5 DEF RegistryInv
<1>8. CASE ~a.panics
  <2> DEFINE best == IF takes THEN Updated(S.best, a.id, cand) ELSE S.best
             free == IF a.id = S.next THEN S.next + 1 ELSE S.next
             place == IF last THEN "over" ELSE "run"
             r == [S EXCEPT !.at = place, !.heard = TRUE, !.clusters = a.clusters, !.next = free,
                            !.best = best]
  <2>1. /\ session' = [session EXCEPT ![s] = r]
        /\ review' = IF chip THEN [review EXCEPT ![s] = Updated(@, a.id, cand)] ELSE review
        /\ offered' = IF chip /\ Recognised(doc, e) # {}
                      THEN [offered EXCEPT ![s] = Updated(@, a.id, Ids)] ELSE offered
        /\ resolved' = resolved
    BY <1>8 DEF Turn, a, cand, takes, chip
  <2>2. best \in Samples /\ DOMAIN S.best \subseteq DOMAIN best /\ (chip => a.id \in DOMAIN best)
    <3>1. CASE takes
      <4>1. Updated(S.best, a.id, cand) \in Samples
            /\ DOMAIN Updated(S.best, a.id, cand) = {a.id} \cup DOMAIN S.best
        BY <1>2, <1>4, UpdatedSamples
      <4>2. best = Updated(S.best, a.id, cand)
        BY <3>1
      <4> HIDE DEF best
      <4> QED
        BY <4>1, <4>2
    <3>2. CASE ~takes
      BY <1>2, <3>2 DEF chip
    <3> QED
      BY <3>1, <3>2
  <2>3. free \in Nat /\ place \in {"over", "run"}
    BY <1>2, <1>4
  <2> HIDE DEF best, free, place
  <2>4. r \in SessionState /\ r.at = place /\ r.best = best
    BY <1>2, <1>4, <2>2, <2>3 DEF SessionState
  <2> HIDE DEF r
  <2>5. session' \in [Sessions -> SessionState] /\ session'[s] = r
        /\ \A q \in Sessions \ {s} : session'[q] = session[q]
    BY <2>1, <2>4, InvTypes, SessionMoves
  <2>6. /\ review' \in [Sessions -> Samples]
        /\ \A q \in Sessions \ {s} : review'[q] = review[q]
        /\ DOMAIN review'[s] = IF chip THEN {a.id} \cup DOMAIN review[s] ELSE DOMAIN review[s]
    <3>1. PICK new \in Samples : new = Updated(review[s], a.id, cand)
                                 /\ DOMAIN new = {a.id} \cup DOMAIN review[s]
      BY <1>4, InvTypes, UpdatedSamples
    <3>2. review' = IF chip THEN [review EXCEPT ![s] = new] ELSE review
      BY <2>1, <3>1
    <3> QED
      BY <3>1, <3>2, InvTypes
  <2>7. offered' \in [Sessions -> UNION {[T -> SUBSET Nat] : T \in SUBSET Nat}]
    <3> DEFINE Offers == UNION {[T -> SUBSET Nat] : T \in SUBSET Nat}
    <3>1. offered[s] \in Offers
      BY InvTypes
    <3>2. PICK T \in SUBSET Nat : offered[s] \in [T -> SUBSET Nat]
      BY <3>1
    <3> DEFINE T2 == {a.id} \cup T
    <3>3. T2 \in SUBSET Nat
      BY <1>4
    <3>4. Updated(offered[s], a.id, Ids) \in [T2 -> SUBSET Nat]
      BY <3>2, InvTypes, IdsAreNat DEF Updated
    <3> HIDE DEF T2
    <3>5. PICK new \in Offers : new = Updated(offered[s], a.id, Ids)
      BY <3>3, <3>4
    <3>6. offered' = IF chip /\ Recognised(doc, e) # {} THEN [offered EXCEPT ![s] = new] ELSE offered
      BY <2>1, <3>5
    <3> QED
      BY <3>5, <3>6, InvTypes
  <2>8. SpeakersTypeOK'
    BY <1>1, <1>5, <2>1, <2>5, <2>6, <2>7, InvTypes DEF SpeakersTypeOK, Registry
  <2>9. StripInv'
    <3>1. ASSUME NEW q \in Sessions, Listening(q)'
          PROVE  /\ DOMAIN review'[q] \cup resolved'[q] \subseteq DOMAIN session'[q].best
                 /\ \A c \in Commands : For(c, q)' => call'[c].speaker \in DOMAIN session'[q].best
      <4>1. CASE q = s
        <5>1. Listening(s)
          BY <1>1 DEF Listening
        <5>2. DOMAIN review[s] \cup resolved[s] \subseteq DOMAIN S.best
              /\ \A c \in Commands : For(c, s) => call[c].speaker \in DOMAIN S.best
          BY <5>1, InvTypes DEF StripInv
        <5> QED
          BY <1>1, <2>1, <2>2, <2>4, <2>5, <2>6, <4>1, <5>2 DEF For
      <4>2. CASE q # s
        BY <1>1, <2>1, <2>5, <2>6, <3>1, <4>2, InvTypes DEF StripInv, Listening, For
      <4> QED
        BY <4>1, <4>2
    <3> QED
      BY <3>1 DEF StripInv
  <2>10. AskedInv'
    <3>1. ASSUME NEW q \in Sessions \ crossed
          PROVE  /\ DOMAIN review'[q] \cap resolved[q] = {}
                 /\ \A c \in Commands :
                      call[c].key = q /\ call[c].at = "mark" => call[c].speaker \notin DOMAIN review'[q]
                 /\ session'[q].at = "stash" =>
                      session'[q].seen = resolved[q] /\ \A c \in Commands : ~For(c, q)
      <4>1. /\ DOMAIN review[q] \cap resolved[q] = {}
            /\ \A c \in Commands :
                 call[c].key = q /\ call[c].at = "mark" => call[c].speaker \notin DOMAIN review[q]
            /\ session[q].at = "stash" => session[q].seen = resolved[q] /\ \A c \in Commands : ~For(c, q)
        BY InvTypes DEF AskedInv
      <4>2. CASE q = s /\ chip
        <5>1. Listening(s) /\ a.id \notin DOMAIN S.best
          BY <1>1, <4>2 DEF Listening, chip
        <5>2. a.id \notin resolved[s] /\ \A c \in Commands : For(c, s) => call[c].speaker # a.id
          BY <5>1, InvTypes DEF StripInv
        <5>3. DOMAIN review'[s] = {a.id} \cup DOMAIN review[s]
          BY <2>6, <4>2
        <5>4. \A c \in Commands : call[c].key = s /\ call[c].at = "mark" => For(c, s)
          BY DEF For
        <5>5. session'[s].at # "stash"
          BY <2>3, <2>4, <2>5
        <5> QED
          BY <4>1, <4>2, <5>2, <5>3, <5>4, <5>5
      <4>3. CASE q = s /\ ~chip
        <5>1. session'[s].at # "stash"
          BY <2>3, <2>4, <2>5
        <5> QED
          BY <2>6, <4>1, <4>3, <5>1
      <4>4. CASE q # s
        BY <2>5, <2>6, <4>1, <4>4
      <4> QED
        BY <4>2, <4>3, <4>4
    <3> QED
      BY <1>1, <2>1, <3>1 DEF AskedInv, For
  <2> QED
    BY <1>6, <2>8, <2>9, <2>10 DEF RegistryInv
<1> QED
  BY <1>7, <1>8
LEMMA ReadResolvedStep ==
  ASSUME RegistryInv, NEW s \in Sessions, ReadResolved(s)
  PROVE  RegistryInv'
<1> DEFINE place == IF session[s].best = <<>> THEN "commit" ELSE "stash"
           r == [session[s] EXCEPT !.seen = resolved[s], !.at = place]
<1>1. /\ UNCHANGED <<doc, disk, wavs, clips, turns, review, resolved, offered, call, trouble, cut>>
      /\ crossed' = IF Attaching(s) THEN crossed \cup {s} ELSE crossed
  BY DEF ReadResolved, registry, strip
<1>2. place \in {"commit", "stash"}
  OBVIOUS
<1> HIDE DEF place
<1>3. r \in SessionState /\ r.at = place /\ r.best = session[s].best /\ r.seen = resolved[s]
  BY <1>2, InvTypes DEF SessionState
<1>4. session' = [session EXCEPT ![s] = r]
  BY DEF ReadResolved, place
<1> HIDE DEF r
<1>5. session' \in [Sessions -> SessionState] /\ session'[s] = r
      /\ \A q \in Sessions \ {s} : session'[q] = session[q]
  BY <1>3, <1>4, InvTypes, SessionMoves
<1>6. FilesInv'
  BY <1>1, InvTypes, FilesSame
<1>7. crossed \subseteq crossed' /\ crossed' \subseteq Sessions
  BY <1>1, InvTypes DEF SpeakersTypeOK
<1>8. SpeakersTypeOK'
  BY <1>1, <1>5, <1>7, InvTypes DEF SpeakersTypeOK, Registry
<1>9. StripInv'
  <2>1. \A q \in Sessions : Listening(q)' => Listening(q) /\ session'[q].best = session[q].best
    BY <1>2, <1>3, <1>5 DEF Listening
  <2> QED
    BY <1>1, <2>1, InvTypes DEF StripInv, For
<1>10. AskedInv'
  <2>1. ASSUME NEW q \in Sessions \ crossed', session'[q].at = "stash"
        PROVE  session'[q].seen = resolved[q] /\ \A c \in Commands : ~For(c, q)
    <3>1. CASE q = s
      <4>1. ~Attaching(s)
        BY <1>1, <2>1, <3>1
      <4> QED
        BY <1>3, <1>5, <3>1, <4>1 DEF Attaching, For
    <3>2. CASE q # s
      BY <1>5, <1>7, <2>1, <3>2, InvTypes DEF AskedInv
    <3> QED
      BY <3>1, <3>2
  <2>2. \A q \in Sessions \ crossed' :
          /\ DOMAIN review[q] \cap resolved[q] = {}
          /\ \A c \in Commands :
               call[c].key = q /\ call[c].at = "mark" => call[c].speaker \notin DOMAIN review[q]
    BY <1>7, InvTypes DEF AskedInv
  <2> QED
    BY <1>1, <2>1, <2>2 DEF AskedInv, For
<1> QED
  BY <1>6, <1>8, <1>9, <1>10 DEF RegistryInv

\* The strip is made of whom nobody resolved.
LEMMA StashStep ==
  ASSUME RegistryInv, NEW s \in Sessions, Stash(s)
  PROVE  RegistryInv'
<1> DEFINE open == DOMAIN session[s].best \ session[s].seen
<1>1. /\ UNCHANGED <<doc, disk, wavs, clips, turns, resolved, call, trouble, cut, crossed>>
      /\ session[s].at = "stash"
      /\ review' = [review EXCEPT ![s] = Restrict(session[s].best, open)]
      /\ offered' = IF open = {} THEN offered ELSE [offered EXCEPT ![s] = Offer(open)]
  BY DEF Stash, registry, history
<1>2. session[s].best \in Samples
  BY InvTypes DEF SessionState
<1>3. open \in SUBSET Nat /\ open \in SUBSET DOMAIN session[s].best
  BY <1>2, SamplesIs
<1>4. open \cap session[s].seen = {}
  OBVIOUS
<1> HIDE DEF open
<1>5. PICK new \in Samples : new = Restrict(session[s].best, open) /\ DOMAIN new = open
  BY <1>2, <1>3, RestrictedSamples
<1>6. /\ review' \in [Sessions -> Samples] /\ DOMAIN review'[s] = open
      /\ \A q \in Sessions \ {s} : review'[q] = review[q]
  BY <1>1, <1>5, InvTypes
<1>7. offered' \in [Sessions -> UNION {[T -> SUBSET Nat] : T \in SUBSET Nat}]
  <2> DEFINE Offers == UNION {[T -> SUBSET Nat] : T \in SUBSET Nat}
  <2>1. Offer(open) \in [open -> SUBSET Nat]
    BY InvTypes, IdsAreNat DEF Offer
  <2>2. PICK more \in Offers : more = Offer(open)
    BY <1>3, <2>1
  <2>3. offered' = IF open = {} THEN offered ELSE [offered EXCEPT ![s] = more]
    BY <1>1, <2>2
  <2> QED
    BY <2>2, <2>3, InvTypes
<1>8. PICK r \in SessionState : session' = [session EXCEPT ![s] = r] /\ r.at = "commit"
  BY InvTypes, AtMoves DEF Stash, Places
<1>9. session' \in [Sessions -> SessionState] /\ session'[s] = r
      /\ \A q \in Sessions \ {s} : session'[q] = session[q]
  BY <1>8, InvTypes, SessionMoves
<1>10. FilesInv'
  BY <1>1, InvTypes, FilesSame
<1>11. SpeakersTypeOK'
  BY <1>1, <1>6, <1>7, <1>9, InvTypes DEF SpeakersTypeOK, Registry
<1>12. StripInv'
  <2>1. \A q \in Sessions : Listening(q)' => q # s /\ Listening(q) /\ session'[q] = session[q]
    BY <1>8, <1>9 DEF Listening
  <2> QED
    BY <1>1, <1>6, <2>1, InvTypes DEF StripInv, For
<1>13. AskedInv'
  <2>1. ASSUME NEW q \in Sessions \ crossed
        PROVE  /\ DOMAIN review'[q] \cap resolved[q] = {}
               /\ \A c \in Commands :
                    call[c].key = q /\ call[c].at = "mark" => call[c].speaker \notin DOMAIN review'[q]
               /\ session'[q].at = "stash" =>
                    session'[q].seen = resolved[q] /\ \A c \in Commands : ~For(c, q)
    <3>1. CASE q = s
      <4>1. session[s].seen = resolved[s] /\ \A c \in Commands : ~For(c, s)
        BY <1>1, <3>1, InvTypes DEF AskedInv
      <4>2. \A c \in Commands : ~(call[c].key = s /\ call[c].at = "mark")
        BY <4>1 DEF For
      <4> QED
        BY <1>4, <1>6, <1>8, <1>9, <3>1, <4>1, <4>2
    <3>2. CASE q # s
      BY <1>6, <1>9, <3>2, InvTypes DEF AskedInv
    <3> QED
      BY <3>1, <3>2
  <2> QED
    BY <1>1, <2>1 DEF AskedInv, For
<1> QED
  BY <1>10, <1>11, <1>12, <1>13 DEF RegistryInv

LEMMA DismissStep ==
  ASSUME RegistryInv, NEW s \in Sessions, Dismiss(s)
  PROVE  RegistryInv'
<1>1. /\ UNCHANGED <<doc, disk, wavs, clips, turns, session, call, trouble, cut, crossed>>
      /\ session[s].at \in {"commit", "save", "done"}
      /\ review' = [review EXCEPT ![s] = <<>>] /\ resolved' = [resolved EXCEPT ![s] = {}]
      /\ offered' = [offered EXCEPT ![s] = <<>>]
  BY DEF Dismiss, registry, history
<1>2. /\ review' \in [Sessions -> Samples] /\ DOMAIN review'[s] = {}
      /\ \A q \in Sessions \ {s} : review'[q] = review[q]
  BY <1>1, NoSamples, InvTypes
<1>3. /\ resolved' \in [Sessions -> SUBSET Nat] /\ resolved'[s] = {}
      /\ \A q \in Sessions \ {s} : resolved'[q] = resolved[q]
  BY <1>1, InvTypes
<1>4. offered' \in [Sessions -> UNION {[T -> SUBSET Nat] : T \in SUBSET Nat}]
  BY <1>1, NoSamples, InvTypes
<1>5. FilesInv'
  BY <1>1, InvTypes, FilesSame
<1>6. SpeakersTypeOK'
  BY <1>1, <1>2, <1>3, <1>4, InvTypes DEF SpeakersTypeOK, Registry
<1>7. StripInv'
  <2>1. ~Listening(s)
    BY <1>1 DEF Listening
  <2> QED
    BY <1>1, <1>2, <1>3, <2>1, InvTypes DEF StripInv, For, Listening
<1>8. AskedInv'
  <2>1. ASSUME NEW q \in Sessions \ crossed
        PROVE  /\ DOMAIN review'[q] \cap resolved'[q] = {}
               /\ \A c \in Commands :
                    call[c].key = q /\ call[c].at = "mark" => call[c].speaker \notin DOMAIN review'[q]
               /\ session[q].at = "stash" =>
                    session[q].seen = resolved'[q] /\ \A c \in Commands : ~For(c, q)
    <3>1. CASE q = s
      BY <1>1, <1>2, <1>3, <3>1
    <3>2. CASE q # s
      BY <1>2, <1>3, <3>2, InvTypes DEF AskedInv
    <3> QED
      BY <3>1, <3>2
  <2> QED
    BY <1>1, <2>1 DEF AskedInv, For
<1> QED
  BY <1>5, <1>6, <1>7, <1>8 DEF RegistryInv
-----------------------------------------------------------------------------
(* The steps of review_attach.                                             *)

\* A command's step that leaves registry, files, sessions and strip alone.
LEMMA CommandOnly ==
  ASSUME RegistryInv, NEW c \in Commands, NEW r \in CallState, call' = [call EXCEPT ![c] = r],
         r.at \notin {"add", "delete", "mark"}, call[c].at # "done",
         r.at = "done" \/ (r.key = call[c].key /\ r.speaker = call[c].speaker),
         UNCHANGED <<doc, disk, wavs, clips, turns, session, review, resolved, offered, cut, crossed>>,
         trouble' \in Nat
  PROVE  RegistryInv'
<1>1. /\ call' \in [Commands -> CallState] /\ call'[c] = r
      /\ \A b \in Commands \ {c} : call'[b] = call[b]
  BY InvTypes, CallMoves
<1>2. SpeakersTypeOK'
  BY <1>1, InvTypes DEF SpeakersTypeOK, Registry
<1>3. \A b \in Commands : call'[b].at \in {"add", "delete"} => call'[b] = call[b]
  BY <1>1
<1>4. FilesInv'
  BY <1>3, InvTypes, FilesSame
<1>5. StripInv' /\ AskedInv'
  BY InvTypes, StripSame
<1> QED
  BY <1>2, <1>4, <1>5 DEF RegistryInv

LEMMA IdleIsCall == Idle \in CallState
<1>1. [id |-> 0, emb |-> 0, conf |-> 0] \in Clip
  BY DEF Clip
<1>2. {} \in SUBSET Nat
  OBVIOUS
<1> QED
  BY <1>1, <1>2 DEF Idle, CallState

LEMMA AttachLooksStep ==
  ASSUME RegistryInv, NEW c \in Commands, NEW s \in Sessions,
         NEW speaker \in DOMAIN review[s] \cap DOMAIN offered[s],
         NEW target \in offered[s][speaker] \cup {None}, AttachLooks(c, s, speaker, target)
  PROVE  RegistryInv'
<1> DEFINE place == IF target = None THEN "create" ELSE "write"
           clip == [id |-> 0, emb |-> review[s][speaker].emb, conf |-> review[s][speaker].conf]
           r == [Idle EXCEPT !.at = place, !.key = s, !.speaker = speaker, !.target = target,
                             !.clip = clip]
<1>1. /\ call[c].at = "idle" /\ call' = [call EXCEPT ![c] = r]
      /\ crossed' = IF session[s].at = "stash" THEN crossed \cup {s} ELSE crossed
      /\ UNCHANGED <<doc, disk, wavs, clips, turns, session, review, resolved, offered, trouble, cut>>
  BY DEF AttachLooks, registry, strip
<1>2. speaker \in Nat /\ review[s][speaker] \in Sample
  BY InvTypes, SamplesIs
<1>3. target \in Nat \cup {None}
  <2>1. offered[s] \in UNION {[T -> SUBSET Nat] : T \in SUBSET Nat}
    BY InvTypes
  <2>2. PICK T \in SUBSET Nat : offered[s] \in [T -> SUBSET Nat]
    BY <2>1
  <2>3. offered[s][speaker] \in SUBSET Nat
    BY <2>2
  <2> QED
    BY <2>3
<1>4. clip \in Clip
  BY <1>2 DEF Clip, Sample
<1>5. place \in {"create", "write"}
  OBVIOUS
<1> HIDE DEF clip, place
<1>6. r \in CallState /\ r.at = place /\ r.key = s /\ r.speaker = speaker
  <2> QED
    BY <1>2, <1>3, <1>4, <1>5, IdleIsCall DEF CallState
<1> HIDE DEF r
<1>7. /\ call' \in [Commands -> CallState] /\ call'[c] = r
      /\ \A b \in Commands \ {c} : call'[b] = call[b]
  BY <1>1, <1>6, InvTypes, CallMoves
<1>8. crossed \subseteq crossed' /\ crossed' \subseteq Sessions
  BY <1>1, InvTypes DEF SpeakersTypeOK
<1>9. SpeakersTypeOK'
  BY <1>1, <1>7, <1>8, InvTypes DEF SpeakersTypeOK, Registry
<1>10. FilesInv'
  <2>1. \A b \in Commands : call'[b].at \in {"add", "delete"} => call'[b] = call[b]
    BY <1>5, <1>6, <1>7
  <2> QED
    BY <1>1, <2>1, InvTypes, FilesSame
<1>11. StripInv'
  <2>1. ASSUME NEW q \in Sessions, Listening(q), NEW b \in Commands, For(b, q)'
        PROVE  call'[b].speaker \in DOMAIN session[q].best
    <3>1. CASE b = c
      <4>1. q = s
        BY <1>6, <1>7, <2>1, <3>1 DEF For
      <4>2. speaker \in DOMAIN session[s].best
        BY <2>1, <4>1, InvTypes DEF StripInv
      <4> QED
        BY <1>6, <1>7, <3>1, <4>1, <4>2
    <3>2. CASE b # c
      BY <1>7, <2>1, <3>2, InvTypes DEF StripInv, For
    <3> QED
      BY <3>1, <3>2
  <2> QED
    BY <1>1, <2>1, InvTypes DEF StripInv, Listening
<1>12. AskedInv'
  <2>1. ASSUME NEW q \in Sessions \ crossed'
        PROVE  /\ DOMAIN review[q] \cap resolved[q] = {}
               /\ \A b \in Commands :
                    call'[b].key = q /\ call'[b].at = "mark" => call'[b].speaker \notin DOMAIN review[q]
               /\ session[q].at = "stash" =>
                    session[q].seen = resolved[q] /\ \A b \in Commands : ~For(b, q)'
    <3>1. /\ DOMAIN review[q] \cap resolved[q] = {}
          /\ \A b \in Commands :
               call[b].key = q /\ call[b].at = "mark" => call[b].speaker \notin DOMAIN review[q]
          /\ session[q].at = "stash" =>
               session[q].seen = resolved[q] /\ \A b \in Commands : ~For(b, q)
      BY <1>8, InvTypes DEF AskedInv
    <3>2. \A b \in Commands : call'[b].at = "mark" => call'[b] = call[b]
      BY <1>5, <1>6, <1>7
    <3>3. session[q].at = "stash" => q # s
      BY <1>1, <2>1
    <3>4. \A b \in Commands : For(b, q)' => For(b, q) \/ q = s
      BY <1>6, <1>7 DEF For
    <3> QED
      BY <3>1, <3>2, <3>3, <3>4
  <2> QED
    BY <1>1, <2>1 DEF AskedInv, For
<1> QED
  BY <1>9, <1>10, <1>11, <1>12 DEF RegistryInv

\* The document changes by a command that then may delete files it no longer lists.
LEMMA CommandChanges ==
  ASSUME RegistryInv, NEW c \in Commands, NEW r \in CallState, call' = [call EXCEPT ![c] = r],
         r.at \notin {"add", "mark"}, call[c].at # "done",
         r.at = "done" \/ (r.key = call[c].key /\ r.speaker = call[c].speaker),
         Sound(doc', FileIds(doc)),
         r.at = "delete" => r.del \subseteq FileIds(doc) /\ r.del \cap FileIds(doc') = {},
         UNCHANGED <<disk, wavs, clips, turns, session, review, resolved, offered, trouble, cut, crossed>>
  PROVE  RegistryInv'
<1>1. /\ call' \in [Commands -> CallState] /\ call'[c] = r
      /\ \A b \in Commands \ {c} : call'[b] = call[b]
  BY InvTypes, CallMoves
<1>2. FilesInv'
  <2>1. \A b \in Commands : call'[b].at = "add" => call'[b] = call[b]
    BY <1>1
  <2>2. \A b \in Commands : call'[b].at = "delete" =>
          \/ call'[b] = call[b]
          \/ call'[b].del \subseteq FileIds(doc) /\ call'[b].del \cap FileIds(doc') = {}
    BY <1>1
  <2> QED
    BY <2>1, <2>2, InvTypes, FilesShrink
<1>3. SpeakersTypeOK'
  BY <1>1, InvTypes DEF SpeakersTypeOK, Sound, Registry
<1>4. StripInv' /\ AskedInv'
  BY InvTypes, StripSame
<1> QED
  BY <1>2, <1>3, <1>4 DEF RegistryInv

LEMMA CreateProfileStep ==
  ASSUME RegistryInv, NEW c \in Commands, CreateProfile(c)
  PROVE  RegistryInv'
<1>1. /\ call[c].at = "create"
      /\ doc' = Created(doc, Profile(call[c].clip.emb, FALSE, TRUE))
      /\ call' = [call EXCEPT ![c].target = doc.next, ![c].at = "write"]
      /\ UNCHANGED <<disk, wavs, clips, turns, session, review, resolved, offered, trouble, cut, crossed>>
  BY DEF CreateProfile, strip, history
<1>2. call[c].clip.emb \in Nat
  BY InvTypes DEF CallState, Clip
<1>3. Profile(call[c].clip.emb, FALSE, TRUE) \in SpeakerProfile
      /\ Profile(call[c].clip.emb, FALSE, TRUE).clips = {}
  BY <1>2 DEF Profile, SpeakerProfile
<1>4. Sound(doc', FileIds(doc))
  BY <1>1, <1>3, InvTypes, CreatedSound
<1>5. PICK n \in Nat : n = doc.next
  BY InvTypes
<1> DEFINE r == [call[c] EXCEPT !.target = n, !.at = "write"]
<1>6. r \in CallState /\ r.at = "write" /\ r.key = call[c].key /\ r.speaker = call[c].speaker
  BY InvTypes DEF CallState
<1>7. call' = [call EXCEPT ![c] = r]
  BY <1>1, <1>5
<1> HIDE DEF r
<1> QED
  BY <1>1, <1>4, <1>6, <1>7, CommandChanges

LEMMA WriteClipStep ==
  ASSUME RegistryInv, NEW c \in Commands, WriteClip(c)
  PROVE  RegistryInv'
<1>1. /\ call[c].at = "write"
      /\ UNCHANGED <<doc, disk, turns, session, review, resolved, offered, cut, crossed>>
  BY DEF WriteClip, strip
<1>2. CASE trouble' = trouble + 1 /\ Step(c, "done") /\ UNCHANGED <<clips, wavs>>
  <2>1. trouble' \in Nat
    BY <1>2, InvTypes DEF SpeakersTypeOK
  <2>2. PICK r \in CallState : call' = [call EXCEPT ![c] = r] /\ r.at = "done"
    BY <1>2, InvTypes, StepMoves DEF Stages
  <2> QED
    BY <1>1, <1>2, <2>1, <2>2, CommandOnly
<1>3. CASE /\ clips' = clips + 1 /\ wavs' = wavs \cup {clips'}
           /\ call' = [call EXCEPT ![c].clip.id = clips', ![c].at = "add"]
           /\ UNCHANGED trouble
  <2>1. PICK n \in Nat : n = clips + 1
    BY InvTypes
  <2> DEFINE clip == [call[c].clip EXCEPT !.id = n]
             r == [call[c] EXCEPT !.clip = clip, !.at = "add"]
  <2>2. clip \in Clip /\ clip.id = n
    BY <2>1, InvTypes DEF CallState, Clip
  <2> HIDE DEF clip
  <2>3. r \in CallState /\ r.at = "add" /\ r.key = call[c].key /\ r.speaker = call[c].speaker
        /\ r.clip = clip
    BY <2>2, InvTypes DEF CallState
  <2>4. call' = [call EXCEPT ![c] = r]
    BY <1>3, <2>1 DEF clip
  <2> HIDE DEF r
  <2>5. /\ call' \in [Commands -> CallState] /\ call'[c] = r
        /\ \A b \in Commands \ {c} : call'[b] = call[b]
    BY <2>3, <2>4, InvTypes, CallMoves
  <2>6. 1 .. clips \subseteq 1 .. n /\ n \notin 1 .. clips /\ n \in 1 .. n
    BY <2>1, InvTypes
  <2>7. clips' = n /\ wavs' = wavs \cup {n}
    BY <1>3, <2>1
  <2>8. SpeakersTypeOK'
    BY <1>1, <1>3, <2>5, <2>7, InvTypes DEF SpeakersTypeOK, Registry
  <2>9. Sound(doc, 1 .. n) /\ Sound(disk, 1 .. n) /\ FileIds(doc) \subseteq 1 .. clips
        /\ FileIds(doc) \subseteq wavs \cup cut
    BY <2>6, InvTypes, WiderClips DEF Sound, FilesInv
  <2>10. FilesInv'
    <3>1. ASSUME NEW b \in Commands, call'[b].at = "add"
          PROVE  /\ call'[b].clip.id \in wavs' /\ call'[b].clip.id \in 1 .. n
                 /\ call'[b].clip.id \notin FileIds(doc)
                 /\ \A a \in Commands \ {b} : call'[a].at = "add" => call'[a].clip.id # call'[b].clip.id
                 /\ \A a \in Commands : call'[a].at = "delete" => call'[b].clip.id \notin call'[a].del
      <4>1. \A a \in Commands \ {c} : call'[a].at = "add" => call'[a].clip.id \in 1 .. clips
        BY <2>5 DEF FilesInv, RegistryInv
      <4>2. \A a \in Commands : call'[a].at = "delete" => a # c /\ call'[a].del \subseteq 1 .. clips
        BY <2>3, <2>5 DEF FilesInv, RegistryInv
      <4>3. CASE b = c
        <5>1. call'[b].clip.id = n
          BY <2>2, <2>3, <2>5, <4>3
        <5> QED
          BY <2>6, <2>7, <2>9, <4>1, <4>2, <4>3, <5>1
      <4>4. CASE b # c
        <5>1. call'[b] = call[b] /\ call[b].at = "add"
          BY <2>5, <3>1, <4>4
        <5>2. /\ call[b].clip.id \in wavs /\ call[b].clip.id \in 1 .. clips
              /\ call[b].clip.id \notin FileIds(doc)
              /\ \A a \in Commands \ {b} : call[a].at = "add" => call[a].clip.id # call[b].clip.id
              /\ \A a \in Commands : call[a].at = "delete" => call[b].clip.id \notin call[a].del
          BY <5>1 DEF FilesInv, RegistryInv
        <5>3. call'[c].clip.id = n
          BY <2>2, <2>3, <2>5
        <5>4. \A a \in Commands \ {b} : call'[a].at = "add" => call'[a].clip.id # call'[b].clip.id
          BY <2>5, <2>6, <5>1, <5>2, <5>3
        <5>5. \A a \in Commands : call'[a].at = "delete" => call'[b].clip.id \notin call'[a].del
          BY <2>5, <4>2, <5>1, <5>2
        <5> QED
          BY <2>6, <2>7, <5>1, <5>2, <5>4, <5>5
      <4> QED
        BY <4>3, <4>4
    <3>2. \A b \in Commands : call'[b].at = "delete" =>
            call'[b].del \subseteq 1 .. n /\ call'[b].del \cap FileIds(doc) = {}
      BY <2>3, <2>5, <2>6 DEF FilesInv, RegistryInv
    <3>3. FileIds(doc) \subseteq wavs' \cup cut
      BY <2>7, <2>9
    <3>4. doc' = doc /\ disk' = disk /\ cut' = cut
      BY <1>1
    <3>5. FileIds(doc)' = FileIds(doc) /\ Sound(doc, 1 .. clips)' = Sound(doc, 1 .. n)
          /\ Sound(disk, 1 .. clips)' = Sound(disk, 1 .. n)
      BY <2>7, <3>4 DEF FileIds, ClipsOf, Sound, Registry, NamedApart, Verified
    <3> QED
      BY <2>7, <2>9, <3>1, <3>2, <3>3, <3>4, <3>5 DEF FilesInv
  <2>11. StripInv' /\ AskedInv'
    BY <1>1, <2>3, <2>4, InvTypes, StripSame
  <2> QED
    BY <2>8, <2>10, <2>11 DEF RegistryInv
<1> QED
  BY <1>2, <1>3 DEF WriteClip

\* Clips of a registry with the same id are the same.
LEMMA OneClip ==
  ASSUME NEW d, NamedApart(d), NEW v \in ClipsOf(d), NEW w \in ClipsOf(d), v.id = w.id
  PROVE  v = w
BY DEF NamedApart, ClipsOf

LEMMA ClipsOfPut ==
  ASSUME NEW d, Registry(d), NEW id, NEW p, NEW w \in ClipsOf(Put(d, id, p))
  PROVE  w \in p.clips \/ \E q \in DOMAIN d.speakers \ {id} : w \in d.speakers[q].clips
<1>1. Put(d, id, p).speakers = Updated(d.speakers, id, p)
  BY PutShape
<1>2. PICK x \in {id} \cup DOMAIN d.speakers : w \in Updated(d.speakers, id, p)[x].clips
  BY <1>1 DEF ClipsOf, Updated
<1>3. CASE x = id
  BY <1>2, <1>3 DEF Updated
<1>4. CASE x # id
  BY <1>2, <1>4 DEF Updated
<1> QED
  BY <1>3, <1>4

LEMMA AddClipStep ==
  ASSUME RegistryInv, NEW c \in Commands, AddClip(c)
  PROVE  RegistryInv'
<1> DEFINE clip == call[c].clip
           t == call[c].target
           p == doc.speakers[t]
           out == IF Cardinality(p.clips) >= MaxClips THEN Weakest(p.clips) ELSE {}
           q == [p EXCEPT !.clips = (@ \ out) \cup {clip}, !.recent = TRUE]
<1>1. /\ UNCHANGED <<disk, wavs, clips, turns, session, review, resolved, offered, trouble, cut, crossed>>
      /\ call[c].at = "add"
  BY DEF AddClip, strip, history
<1>2. CASE Step(c, "save") /\ UNCHANGED doc
  <2>1. PICK r \in CallState :
          call' = [call EXCEPT ![c] = r] /\ r.at = "save" /\ r.key = call[c].key
          /\ r.speaker = call[c].speaker
    BY <1>2, InvTypes, StepMoves DEF Stages
  <2>2. Sound(doc', FileIds(doc))
    BY <1>2, InvTypes
  <2> QED
    BY <1>1, <2>1, <2>2, CommandChanges
<1>3. CASE /\ t \in Ids /\ doc' = Put(doc, t, Reanchor(q))
           /\ call' = [call EXCEPT ![c].at = "delete", ![c].del = {w.id : w \in out}]
  <2>1. t \in DOMAIN doc.speakers /\ t \in 0 .. doc.next - 1
    BY <1>3, InvTypes DEF Ids, Registry
  <2>2. p \in SpeakerProfile /\ IsFiniteSet(p.clips) /\ clip \in Clip
    BY <2>1, InvTypes DEF Registry, CallState
  <2>3. p.clips \in SUBSET Clip /\ p.clips \subseteq ClipsOf(doc)
    BY <2>1, <2>2 DEF SpeakerProfile, ClipsOf
  <2>4. out \subseteq p.clips
    BY DEF Weakest
  <2>5. /\ clip.id \in wavs /\ clip.id \in 1 .. clips /\ clip.id \notin FileIds(doc)
        /\ \A b \in Commands \ {c} : call[b].at = "add" => call[b].clip.id # clip.id
        /\ \A b \in Commands : call[b].at = "delete" => clip.id \notin call[b].del
    BY <1>1, InvTypes DEF FilesInv
  <2> HIDE DEF clip, out, p, t
  <2>6. q \in SpeakerProfile /\ q.clips = (p.clips \ out) \cup {clip}
    BY <2>2, <2>3 DEF SpeakerProfile
  <2> HIDE DEF q
  <2>7. IsFiniteSet(q.clips)
    <3>1. IsFiniteSet(p.clips \ out)
      BY <2>2, FS_Subset
    <3> QED
      BY <2>6, <3>1, FS_AddElement
  <2> DEFINE z == Reanchor(q)
  <2>8. z \in SpeakerProfile /\ z.clips = q.clips /\ (Anchored(z) => z.mean = Mean(z.clips))
    BY <2>6, <2>7, ReanchorShape
  <2> HIDE DEF z
  <2>9. NamedApart(doc) /\ Registry(doc) /\ FileIds(doc) \subseteq 1 .. clips
    BY InvTypes DEF Sound
  <2>10. \A v \in ClipsOf(doc) : v.id \in FileIds(doc)
    BY DEF FileIds
  <2>11. Sound(doc', 1 .. clips)
    <3>1. \A v, w \in z.clips : v.id = w.id => v = w
      <4> SUFFICES ASSUME NEW v \in z.clips, NEW w \in z.clips, v.id = w.id PROVE v = w
        OBVIOUS
      <4>1. CASE v = clip \/ w = clip
        BY <2>3, <2>5, <2>6, <2>8, <2>10, <4>1
      <4>2. CASE v # clip /\ w # clip
        <5>1. v \in ClipsOf(doc) /\ w \in ClipsOf(doc)
          BY <2>3, <2>6, <2>8, <4>2
        <5> QED
          BY <2>9, <5>1, OneClip
      <4> QED
        BY <4>1, <4>2
    <3>2. \A x \in DOMAIN doc.speakers \ {t} : \A v \in z.clips, w \in doc.speakers[x].clips : v.id # w.id
      <4> SUFFICES ASSUME NEW x \in DOMAIN doc.speakers \ {t}, NEW v \in z.clips,
                          NEW w \in doc.speakers[x].clips, v.id = w.id
                   PROVE  FALSE
        OBVIOUS
      <4>1. w \in ClipsOf(doc)
        BY DEF ClipsOf
      <4>2. v # clip
        BY <2>5, <2>10, <4>1
      <4>3. v \in doc.speakers[t].clips
        BY <2>6, <2>8, <4>2 DEF p
      <4> QED
        BY <2>1, <2>9, <4>3 DEF NamedApart
    <3>3. \A v \in z.clips : v.id \in 1 .. clips
      BY <2>3, <2>5, <2>6, <2>8, <2>9, <2>10
    <3>4. IsFiniteSet(z.clips)
      BY <2>7, <2>8
    <3>5. Sound(Put(doc, t, z), 1 .. clips)
      BY <2>1, <2>8, <3>1, <3>2, <3>3, <3>4, InvTypes, PutSound
    <3> QED
      BY <1>3, <3>5 DEF z
  <2>12. \A w \in ClipsOf(doc') : w = clip \/ w \in ClipsOf(doc) \ out
    <3> SUFFICES ASSUME NEW w \in ClipsOf(doc') PROVE w = clip \/ w \in ClipsOf(doc) \ out
      OBVIOUS
    <3>1. doc' = Put(doc, t, z)
      BY <1>3 DEF z
    <3>2. w \in z.clips \/ \E x \in DOMAIN doc.speakers \ {t} : w \in doc.speakers[x].clips
      BY <2>9, <3>1, ClipsOfPut
    <3>3. CASE w \in z.clips
      BY <2>3, <2>6, <2>8, <3>3
    <3>4. ASSUME NEW x \in DOMAIN doc.speakers \ {t}, w \in doc.speakers[x].clips
          PROVE  w \in ClipsOf(doc) \ out
      <4>1. w \notin doc.speakers[t].clips
        BY <2>1, <2>9, <3>4 DEF NamedApart
      <4>2. w \in ClipsOf(doc)
        BY <3>4 DEF ClipsOf
      <4> QED
        BY <2>4, <4>1, <4>2 DEF p
    <3> QED
      BY <3>2, <3>3, <3>4
  <2>13. \A i \in FileIds(doc') : i = clip.id \/ i \in FileIds(doc)
    BY <2>12 DEF FileIds
  <2> DEFINE del == {w.id : w \in out}
  <2>14. del \subseteq FileIds(doc)
    BY <2>3, <2>4, <2>10
  <2>15. del \cap FileIds(doc') = {}
    <3> SUFFICES ASSUME NEW v \in out, NEW w \in ClipsOf(doc'), v.id = w.id PROVE FALSE
      BY DEF FileIds
    <3>1. v \in ClipsOf(doc)
      BY <2>3, <2>4
    <3>2. w # clip
      BY <2>5, <2>10, <3>1
    <3>3. w \in ClipsOf(doc) \ out
      BY <2>12, <3>2
    <3> QED
      BY <2>9, <3>1, <3>3, OneClip
  <2> HIDE DEF del
  <2>16. del \in SUBSET Nat
    BY <2>9, <2>14
  <2> DEFINE r == [call[c] EXCEPT !.at = "delete", !.del = del]
  <2>17. r \in CallState /\ r.at = "delete" /\ r.key = call[c].key /\ r.speaker = call[c].speaker
         /\ r.del = del
    BY <2>16, InvTypes DEF CallState
  <2>18. call' = [call EXCEPT ![c] = r]
    BY <1>3 DEF del
  <2> HIDE DEF r
  <2>19. /\ call' \in [Commands -> CallState] /\ call'[c] = r
         /\ \A b \in Commands \ {c} : call'[b] = call[b]
    BY <2>17, <2>18, InvTypes, CallMoves
  <2>20. SpeakersTypeOK'
    BY <1>1, <2>11, <2>19, InvTypes DEF SpeakersTypeOK, Sound, Registry
  <2>21. StripInv' /\ AskedInv'
    BY <1>1, <2>17, <2>18, InvTypes, StripSame
  <2>22. FilesInv'
    <3>1. FileIds(doc') \subseteq wavs \cup cut
      BY <2>5, <2>13, InvTypes DEF FilesInv
    <3>2. ASSUME NEW b \in Commands, call'[b].at = "add"
          PROVE  /\ call'[b].clip.id \in wavs /\ call'[b].clip.id \in 1 .. clips
                 /\ call'[b].clip.id \notin FileIds(doc')
                 /\ \A a \in Commands \ {b} : call'[a].at = "add" => call'[a].clip.id # call'[b].clip.id
                 /\ \A a \in Commands : call'[a].at = "delete" => call'[b].clip.id \notin call'[a].del
      <4>1. b # c /\ call'[b] = call[b] /\ call[b].at = "add"
        BY <2>17, <2>19, <3>2
      <4>2. /\ call[b].clip.id \in wavs /\ call[b].clip.id \in 1 .. clips
            /\ call[b].clip.id \notin FileIds(doc)
            /\ \A a \in Commands \ {b} : call[a].at = "add" => call[a].clip.id # call[b].clip.id
            /\ \A a \in Commands : call[a].at = "delete" => call[b].clip.id \notin call[a].del
        BY <4>1, InvTypes DEF FilesInv
      <4>3. call[b].clip.id # clip.id
        BY <2>5, <4>1
      <4>4. \A a \in Commands \ {b} : call'[a].at = "add" => call'[a].clip.id # call'[b].clip.id
        BY <2>17, <2>19, <4>1, <4>2
      <4>5. \A a \in Commands : call'[a].at = "delete" => call'[b].clip.id \notin call'[a].del
        BY <2>14, <2>17, <2>19, <4>1, <4>2
      <4> QED
        BY <2>13, <4>1, <4>2, <4>3, <4>4, <4>5
    <3>3. ASSUME NEW b \in Commands, call'[b].at = "delete"
          PROVE  call'[b].del \subseteq 1 .. clips /\ call'[b].del \cap FileIds(doc') = {}
      <4>1. CASE b = c
        BY <2>9, <2>14, <2>15, <2>17, <2>19, <4>1
      <4>2. CASE b # c
        <5>1. call'[b] = call[b] /\ call[b].at = "delete"
          BY <2>19, <3>3, <4>2
        <5>2. call[b].del \subseteq 1 .. clips /\ call[b].del \cap FileIds(doc) = {}
          BY <5>1, InvTypes DEF FilesInv
        <5> QED
          BY <2>5, <2>13, <5>1, <5>2
      <4> QED
        BY <4>1, <4>2
    <3>4. FileIds(doc)' = FileIds(doc') /\ Sound(doc, 1 .. clips)' = Sound(doc', 1 .. clips)
          /\ Sound(disk, 1 .. clips)' = Sound(disk, 1 .. clips)
      BY <1>1 DEF FileIds, ClipsOf, Sound, Registry, NamedApart, Verified
    <3> QED
      BY <1>1, <2>11, <3>1, <3>2, <3>3, <3>4, InvTypes DEF FilesInv
  <2> QED
    BY <2>20, <2>21, <2>22 DEF RegistryInv
<1> QED
  <2>1. \/ Step(c, "save") /\ UNCHANGED doc
        \/ /\ t \in Ids /\ doc' = Put(doc, t, Reanchor(q))
           /\ call' = [call EXCEPT ![c].at = "delete", ![c].del = {w.id : w \in out}]
    BY DEF AddClip
  <2> QED
    BY <1>2, <1>3, <2>1

LEMMA DeleteFilesStep ==
  ASSUME RegistryInv, NEW c \in Commands, DeleteFiles(c)
  PROVE  RegistryInv'
<1>1. /\ UNCHANGED <<doc, disk, clips, turns, session, review, resolved, offered, trouble, cut, crossed>>
      /\ call[c].at = "delete" /\ wavs' = wavs \ call[c].del
  BY DEF DeleteFiles, strip, history
<1>2. PICK r \in CallState :
        /\ call' = [call EXCEPT ![c] = r] /\ r.at = "save" /\ r.key = call[c].key
        /\ r.speaker = call[c].speaker
  BY InvTypes, StepMoves DEF DeleteFiles, Stages
<1>3. /\ call' \in [Commands -> CallState] /\ call'[c] = r
      /\ \A b \in Commands \ {c} : call'[b] = call[b]
  BY <1>2, InvTypes, CallMoves
<1>4. SpeakersTypeOK'
  BY <1>1, <1>3, InvTypes DEF SpeakersTypeOK, Registry
<1>5. StripInv' /\ AskedInv'
  BY <1>1, <1>2, InvTypes, StripSame
<1>6. FilesInv'
  <2>1. FileIds(doc) \subseteq wavs' \cup cut
    BY <1>1, InvTypes DEF FilesInv
  <2>2. \A b \in Commands : call'[b].at \in {"add", "delete"} => call'[b] = call[b]
    BY <1>2, <1>3
  <2>3. \A b \in Commands : call[b].at = "add" => call[b].clip.id \in wavs'
    BY <1>1, InvTypes DEF FilesInv
  <2>4. FileIds(doc)' = FileIds(doc) /\ Sound(doc, 1 .. clips)' = Sound(doc, 1 .. clips)
        /\ Sound(disk, 1 .. clips)' = Sound(disk, 1 .. clips)
    BY <1>1 DEF FileIds, ClipsOf, Sound, Registry, NamedApart, Verified
  <2>5. ASSUME NEW b \in Commands, call'[b].at = "add"
        PROVE  /\ call'[b].clip.id \in wavs' /\ call'[b].clip.id \in 1 .. clips
               /\ call'[b].clip.id \notin FileIds(doc)
               /\ \A a \in Commands \ {b} : call'[a].at = "add" => call'[a].clip.id # call'[b].clip.id
               /\ \A a \in Commands : call'[a].at = "delete" => call'[b].clip.id \notin call'[a].del
    BY <2>2, <2>3, <2>5, InvTypes DEF FilesInv
  <2>6. \A b \in Commands : call'[b].at = "delete" =>
          call'[b].del \subseteq 1 .. clips /\ call'[b].del \cap FileIds(doc) = {}
    BY <2>2, InvTypes DEF FilesInv
  <2> QED
    BY <1>1, <2>1, <2>4, <2>5, <2>6, InvTypes DEF FilesInv
<1> QED
  BY <1>4, <1>5, <1>6 DEF RegistryInv

LEMMA SaveCallStep ==
  ASSUME RegistryInv, NEW c \in Commands, SaveCall(c)
  PROVE  RegistryInv'
<1>1. PICK fails \in BOOLEAN, place \in {"done", "clear"} : Save(fails) /\ Step(c, place)
  BY DEF SaveCall
<1>2. UNCHANGED <<turns, session, review, resolved, offered>> /\ call[c].at = "save"
  BY DEF SaveCall, strip
<1>3. /\ trouble' \in Nat /\ Sound(disk', 1 .. clips)
      /\ UNCHANGED <<doc, wavs, clips, cut, crossed>>
  BY <1>1, SaveShape
<1>4. PICK r \in CallState :
        /\ call' = [call EXCEPT ![c] = r] /\ r.at \in {"done", "clear"} /\ r.key = call[c].key
        /\ r.speaker = call[c].speaker
  BY <1>1, InvTypes, StepMoves DEF Stages
<1>5. /\ call' \in [Commands -> CallState] /\ call'[c] = r
      /\ \A b \in Commands \ {c} : call'[b] = call[b]
  BY <1>4, InvTypes, CallMoves
<1>6. SpeakersTypeOK'
  BY <1>2, <1>3, <1>5, InvTypes DEF SpeakersTypeOK, Sound
<1>7. StripInv' /\ AskedInv'
  BY <1>2, <1>3, <1>4, InvTypes, StripSame
<1>8. FilesInv'
  <2>1. \A b \in Commands : call'[b].at \in {"add", "delete"} => call'[b] = call[b]
    BY <1>4, <1>5
  <2>2. Sound(doc', FileIds(doc))
    BY <1>3, InvTypes
  <2> QED
    BY <1>3, <2>1, <2>2, InvTypes, FilesShrink
<1> QED
  BY <1>6, <1>7, <1>8 DEF RegistryInv

\* What is put away is asked no more ...
LEMMA ClearPendingStep ==
  ASSUME RegistryInv, NEW c \in Commands, ClearPending(c)
  PROVE  RegistryInv'
<1> DEFINE s == call[c].key
           speaker == call[c].speaker
<1>1. /\ UNCHANGED <<doc, disk, wavs, clips, turns, session, resolved, offered, trouble, cut, crossed>>
      /\ call[c].at = "clear"
      /\ review' = [review EXCEPT ![s] = Restrict(@, DOMAIN @ \ {speaker})]
  BY DEF ClearPending, registry, history
<1>2. PICK r \in CallState :
        /\ call' = [call EXCEPT ![c] = r] /\ r.at = "mark" /\ r.key = call[c].key
        /\ r.speaker = call[c].speaker
  BY InvTypes, StepMoves DEF ClearPending, Stages
<1>3. /\ call' \in [Commands -> CallState] /\ call'[c] = r
      /\ \A b \in Commands \ {c} : call'[b] = call[b]
  BY <1>2, InvTypes, CallMoves
<1> HIDE DEF s, speaker
<1>4. /\ review' \in [Sessions -> Samples]
      /\ s \in Sessions => DOMAIN review'[s] = DOMAIN review[s] \ {speaker}
      /\ \A q \in Sessions \ {s} : review'[q] = review[q]
  <2>1. CASE s \in Sessions
    <3>1. PICK new \in Samples :
            /\ new = Restrict(review[s], DOMAIN review[s] \ {speaker})
            /\ DOMAIN new = DOMAIN review[s] \ {speaker}
      BY <2>1, InvTypes, RestrictedSamples
    <3>2. review' = [review EXCEPT ![s] = new]
      BY <1>1, <3>1
    <3> QED
      BY <2>1, <3>1, <3>2, InvTypes
  <2>2. CASE s \notin Sessions
    BY <1>1, <2>2, InvTypes
  <2> QED
    BY <2>1, <2>2
<1>5. \A q \in Sessions : DOMAIN review'[q] \subseteq DOMAIN review[q]
  BY <1>4
<1>6. SpeakersTypeOK'
  BY <1>1, <1>3, <1>4, InvTypes DEF SpeakersTypeOK, Registry
<1>7. FilesInv'
  <2>1. \A b \in Commands : call'[b].at \in {"add", "delete"} => call'[b] = call[b]
    BY <1>2, <1>3
  <2> QED
    BY <1>1, <2>1, InvTypes, FilesSame
<1>8. \A b \in Commands, q \in Sessions :
        For(b, q)' => For(b, q) /\ call'[b].speaker = call[b].speaker
  BY <1>1, <1>2, <1>3 DEF For
<1>9. StripInv'
  BY <1>1, <1>5, <1>8, InvTypes DEF StripInv, Listening
<1>10. AskedInv'
  <2>1. ASSUME NEW q \in Sessions \ crossed
        PROVE  /\ DOMAIN review'[q] \cap resolved[q] = {}
               /\ \A b \in Commands :
                    call'[b].key = q /\ call'[b].at = "mark" => call'[b].speaker \notin DOMAIN review'[q]
               /\ session[q].at = "stash" =>
                    session[q].seen = resolved[q] /\ \A b \in Commands : ~For(b, q)'
    <3>1. /\ DOMAIN review[q] \cap resolved[q] = {}
          /\ \A b \in Commands :
               call[b].key = q /\ call[b].at = "mark" => call[b].speaker \notin DOMAIN review[q]
          /\ session[q].at = "stash" =>
               session[q].seen = resolved[q] /\ \A b \in Commands : ~For(b, q)
      BY <2>1, InvTypes DEF AskedInv
    <3>2. DOMAIN review'[q] \cap resolved[q] = {}
      BY <1>5, <3>1
    <3>3. ASSUME NEW b \in Commands, call'[b].key = q, call'[b].at = "mark"
          PROVE  call'[b].speaker \notin DOMAIN review'[q]
      <4>1. CASE b = c
        BY <1>2, <1>3, <1>4, <3>3, <4>1 DEF s, speaker
      <4>2. CASE b # c
        BY <1>3, <1>5, <3>1, <3>3, <4>2
      <4> QED
        BY <4>1, <4>2
    <3> QED
      BY <1>8, <3>1, <3>2, <3>3
  <2> QED
    BY <1>1, <2>1 DEF AskedInv, For
<1> QED
  BY <1>6, <1>7, <1>9, <1>10 DEF RegistryInv

\* ... and then remembered as resolved.
LEMMA MarkResolvedStep ==
  ASSUME RegistryInv, NEW c \in Commands, MarkResolved(c)
  PROVE  RegistryInv'
<1> DEFINE s == call[c].key
           speaker == call[c].speaker
<1>1. /\ UNCHANGED <<doc, disk, wavs, clips, turns, session, review, offered, trouble, cut, crossed>>
      /\ call[c].at = "mark"
      /\ resolved' = [resolved EXCEPT ![s] = @ \cup {speaker}]
  BY DEF MarkResolved, registry, history
<1>2. PICK r \in CallState :
        /\ call' = [call EXCEPT ![c] = r] /\ r.at = "done" /\ r.key = call[c].key
        /\ r.speaker = call[c].speaker
  BY InvTypes, StepMoves DEF MarkResolved, Stages
<1>3. /\ call' \in [Commands -> CallState] /\ call'[c] = r
      /\ \A b \in Commands \ {c} : call'[b] = call[b]
  BY <1>2, InvTypes, CallMoves
<1>4. speaker \in Nat
  BY InvTypes DEF CallState
<1> HIDE DEF s, speaker
<1>5. /\ resolved' \in [Sessions -> SUBSET Nat]
      /\ s \in Sessions => resolved'[s] = resolved[s] \cup {speaker}
      /\ \A q \in Sessions \ {s} : resolved'[q] = resolved[q]
  BY <1>1, <1>4, InvTypes
<1>6. SpeakersTypeOK'
  BY <1>1, <1>3, <1>5, InvTypes DEF SpeakersTypeOK, Registry
<1>7. FilesInv'
  <2>1. \A b \in Commands : call'[b].at \in {"add", "delete"} => call'[b] = call[b]
    BY <1>2, <1>3
  <2> QED
    BY <1>1, <2>1, InvTypes, FilesSame
<1>8. \A b \in Commands, q \in Sessions :
        For(b, q)' => For(b, q) /\ call'[b] = call[b]
  BY <1>2, <1>3 DEF For
<1>9. s \in Sessions => For(c, s)
  BY <1>1 DEF For, s
<1>10. StripInv'
  <2>1. ASSUME NEW q \in Sessions, Listening(q)
        PROVE  DOMAIN review[q] \cup resolved'[q] \subseteq DOMAIN session[q].best
    <3>1. DOMAIN review[q] \cup resolved[q] \subseteq DOMAIN session[q].best
      BY <2>1, InvTypes DEF StripInv
    <3>2. q = s => speaker \in DOMAIN session[q].best
      BY <1>9, <2>1, InvTypes DEF StripInv, speaker
    <3> QED
      BY <1>5, <3>1, <3>2
  <2> QED
    BY <1>1, <1>8, <2>1, InvTypes DEF StripInv, Listening
<1>11. AskedInv'
  <2>1. ASSUME NEW q \in Sessions \ crossed
        PROVE  /\ DOMAIN review[q] \cap resolved'[q] = {}
               /\ \A b \in Commands :
                    call'[b].key = q /\ call'[b].at = "mark" => call'[b].speaker \notin DOMAIN review[q]
               /\ session[q].at = "stash" =>
                    session[q].seen = resolved'[q] /\ \A b \in Commands : ~For(b, q)'
    <3>1. /\ DOMAIN review[q] \cap resolved[q] = {}
          /\ \A b \in Commands :
               call[b].key = q /\ call[b].at = "mark" => call[b].speaker \notin DOMAIN review[q]
          /\ session[q].at = "stash" =>
               session[q].seen = resolved[q] /\ \A b \in Commands : ~For(b, q)
      BY <2>1, InvTypes DEF AskedInv
    <3>2. q = s => speaker \notin DOMAIN review[q] /\ session[q].at # "stash"
      BY <1>1, <1>9, <3>1 DEF s, speaker
    <3>3. \A b \in Commands : call'[b].at = "mark" => call'[b] = call[b]
      BY <1>2, <1>3
    <3> QED
      BY <1>5, <1>8, <3>1, <3>2, <3>3
  <2> QED
    BY <1>1, <2>1 DEF AskedInv, For
<1> QED
  BY <1>6, <1>7, <1>10, <1>11 DEF RegistryInv
-----------------------------------------------------------------------------
(* The Speakers tab.                                                       *)

LEMMA ChangesStep ==
  ASSUME RegistryInv, NEW c \in Commands, NEW d, NEW gone, NEW place \in {"delete", "save"},
         Changes(c, d, gone, place), Sound(d, FileIds(doc)),
         gone \subseteq ClipsOf(doc), ClipsOf(d) \subseteq ClipsOf(doc) \ gone
  PROVE  RegistryInv'
<1> DEFINE del == {w.id : w \in gone}
<1>1. /\ UNCHANGED <<disk, wavs, clips, turns, session, review, resolved, offered, trouble, cut, crossed>>
      /\ call[c].at = "idle" /\ doc' = d
      /\ call' = [call EXCEPT ![c].at = place, ![c].del = del]
  BY DEF Changes, strip, history
<1>2. NamedApart(doc) /\ FileIds(doc) \subseteq 1 .. clips
  BY InvTypes DEF Sound
<1>3. del \subseteq FileIds(doc)
  BY DEF FileIds
<1>4. del \cap FileIds(doc') = {}
  <2> SUFFICES ASSUME NEW v \in gone, NEW w \in ClipsOf(d), v.id = w.id PROVE FALSE
    BY <1>1 DEF FileIds
  <2> QED
    BY <1>2, OneClip
<1> HIDE DEF del
<1>5. del \in SUBSET Nat
  BY <1>2, <1>3
<1> DEFINE r == [call[c] EXCEPT !.at = place, !.del = del]
<1>6. r \in CallState /\ r.at = place /\ r.key = call[c].key /\ r.speaker = call[c].speaker
      /\ r.del = del
  BY <1>5, InvTypes DEF CallState
<1>7. call' = [call EXCEPT ![c] = r]
  BY <1>1
<1> HIDE DEF r
<1>8. Sound(doc', FileIds(doc))
  BY <1>1
<1> QED
  BY <1>1, <1>3, <1>4, <1>6, <1>7, <1>8, CommandChanges

\* A profile gives clips up.
LEMMA GivenUp ==
  ASSUME NEW d, Registry(d), NamedApart(d), NEW id \in DOMAIN d.speakers,
         NEW gone \in SUBSET d.speakers[id].clips, NEW p, p.clips \subseteq d.speakers[id].clips \ gone
  PROVE  gone \subseteq ClipsOf(d) /\ ClipsOf(Put(d, id, p)) \subseteq ClipsOf(d) \ gone
<1>1. gone \subseteq ClipsOf(d)
  BY DEF ClipsOf
<1> SUFFICES ASSUME NEW w \in ClipsOf(Put(d, id, p)) PROVE w \in ClipsOf(d) \ gone
  BY <1>1
<1>2. w \in p.clips \/ \E q \in DOMAIN d.speakers \ {id} : w \in d.speakers[q].clips
  BY ClipsOfPut
<1>3. CASE w \in p.clips
  BY <1>3 DEF ClipsOf
<1>4. ASSUME NEW q \in DOMAIN d.speakers \ {id}, w \in d.speakers[q].clips
      PROVE  w \in ClipsOf(d) \ gone
  <2>1. w \notin d.speakers[id].clips
    BY <1>4 DEF NamedApart
  <2> QED
    BY <1>4, <2>1 DEF ClipsOf
<1> QED
  BY <1>2, <1>3, <1>4

LEMMA ProfileTypes ==
  ASSUME RegistryInv, NEW id \in Ids
  PROVE  /\ id \in DOMAIN doc.speakers /\ id \in 0 .. doc.next - 1
         /\ doc.speakers[id] \in SpeakerProfile /\ doc.speakers[id].clips \in SUBSET Clip
         /\ IsFiniteSet(doc.speakers[id].clips) /\ doc.speakers[id].clips \subseteq ClipsOf(doc)
         /\ Registry(doc) /\ NamedApart(doc) /\ Verified(doc)
<1>1. id \in DOMAIN doc.speakers /\ Registry(doc) /\ NamedApart(doc) /\ Verified(doc)
  BY InvTypes DEF Ids, Sound
<1>2. doc.speakers[id] \in SpeakerProfile /\ IsFiniteSet(doc.speakers[id].clips)
      /\ id \in 0 .. doc.next - 1
  BY <1>1 DEF Registry
<1> QED
  BY <1>1, <1>2 DEF SpeakerProfile, ClipsOf

LEMMA RemoveClipStep ==
  ASSUME RegistryInv, NEW c \in Commands, NEW id \in Ids, NEW clip \in doc.speakers[id].clips,
         RemoveClip(c, id, clip)
  PROVE  RegistryInv'
<1> DEFINE p == doc.speakers[id]
           q == [p EXCEPT !.clips = @ \ {clip}]
           z == Reanchor(q)
<1>1. q \in SpeakerProfile /\ q.clips = p.clips \ {clip}
  BY ProfileTypes DEF SpeakerProfile
<1>2. IsFiniteSet(q.clips)
  BY <1>1, ProfileTypes, FS_Subset
<1> HIDE DEF q
<1>3. z \in SpeakerProfile /\ z.clips = q.clips /\ (Anchored(z) => z.mean = Mean(z.clips))
  BY <1>1, <1>2, ReanchorShape
<1>4. Changes(c, Put(doc, id, z), {clip}, "delete")
  BY DEF RemoveClip, q
<1> HIDE DEF z
<1>5. Sound(Put(doc, id, z), FileIds(doc))
  BY <1>1, <1>3, InvTypes, ProfileTypes, ChangedSound
<1>6. {clip} \subseteq ClipsOf(doc) /\ ClipsOf(Put(doc, id, z)) \subseteq ClipsOf(doc) \ {clip}
  <2>1. {clip} \in SUBSET p.clips /\ z.clips \subseteq p.clips \ {clip}
    BY <1>1, <1>3
  <2>2. Registry(doc) /\ NamedApart(doc) /\ id \in DOMAIN doc.speakers
    BY ProfileTypes
  <2> QED
    BY <2>1, <2>2, GivenUp
<1> QED
  BY <1>4, <1>5, <1>6, ChangesStep

LEMMA RenameStep ==
  ASSUME RegistryInv, NEW c \in Commands, NEW id \in Ids, NEW named \in BOOLEAN, Rename(c, id, named)
  PROVE  RegistryInv'
<1> DEFINE p == doc.speakers[id]
           z == [p EXCEPT !.named = named]
<1>1. z \in SpeakerProfile /\ z.clips = p.clips /\ z.mean = p.mean
  BY ProfileTypes DEF SpeakerProfile
<1>2. Changes(c, Put(doc, id, z), {}, "save")
  BY DEF Rename
<1> HIDE DEF z
<1>3. Anchored(z) => z.mean = Mean(z.clips)
  BY <1>1, ProfileTypes DEF Verified, Anchored
<1>4. Sound(Put(doc, id, z), FileIds(doc))
  BY <1>1, <1>3, InvTypes, ProfileTypes, ChangedSound
<1>5. {} \subseteq ClipsOf(doc) /\ ClipsOf(Put(doc, id, z)) \subseteq ClipsOf(doc) \ {}
  <2>1. {} \in SUBSET p.clips /\ z.clips \subseteq p.clips \ {}
    BY <1>1
  <2>2. Registry(doc) /\ NamedApart(doc) /\ id \in DOMAIN doc.speakers
    BY ProfileTypes
  <2> HIDE DEF p
  <2> QED
    BY <2>1, <2>2, GivenUp DEF p
<1> QED
  BY <1>2, <1>4, <1>5, ChangesStep

\* A profile goes with its clips.
LEMMA WithoutShape ==
  ASSUME RegistryInv, NEW id \in Ids
  PROVE  /\ Sound(Without(doc, id), FileIds(doc)) /\ Without(doc, id).next = doc.next
         /\ DOMAIN Without(doc, id).speakers = DOMAIN doc.speakers \ {id}
         /\ \A q \in DOMAIN doc.speakers \ {id} : Without(doc, id).speakers[q] = doc.speakers[q]
<1> DEFINE S == DOMAIN doc.speakers \ {id}
<1>1. Without(doc, id) = [doc EXCEPT !.speakers = Restrict(@, S)]
  BY DEF Without
<1>2. S \in SUBSET DOMAIN doc.speakers
  OBVIOUS
<1>3. [doc EXCEPT !.speakers = Restrict(@, S)] =
        [next |-> doc.next, speakers |-> [x \in S |-> doc.speakers[x]]]
  BY ProfileTypes DEF Registry, Restrict
<1>4. /\ Without(doc, id).next = doc.next /\ DOMAIN Without(doc, id).speakers = S
      /\ \A q \in S : Without(doc, id).speakers[q] = doc.speakers[q]
  BY <1>1, <1>3
<1> HIDE DEF S
<1>5. Sound([doc EXCEPT !.speakers = Restrict(@, S)], FileIds(doc))
  BY <1>2, InvTypes, RestrictedSound
<1> QED
  BY <1>1, <1>4, <1>5 DEF S

LEMMA ForgetStep ==
  ASSUME RegistryInv, NEW c \in Commands, NEW id \in Ids, Forget(c, id)
  PROVE  RegistryInv'
<1> DEFINE gone == doc.speakers[id].clips
           d == Without(doc, id)
<1>1. Changes(c, d, gone, "delete")
  BY DEF Forget
<1>2. /\ Sound(d, FileIds(doc)) /\ DOMAIN d.speakers = DOMAIN doc.speakers \ {id}
      /\ \A q \in DOMAIN doc.speakers \ {id} : d.speakers[q] = doc.speakers[q]
  BY WithoutShape
<1>3. gone \subseteq ClipsOf(doc) /\ NamedApart(doc) /\ id \in DOMAIN doc.speakers
  BY ProfileTypes
<1> HIDE DEF d
<1>4. ClipsOf(d) \subseteq ClipsOf(doc) \ gone
  <2> SUFFICES ASSUME NEW q \in DOMAIN doc.speakers \ {id}, NEW w \in doc.speakers[q].clips
               PROVE  w \in ClipsOf(doc) \ gone
    BY <1>2 DEF ClipsOf
  <2>1. w \notin gone
    BY <1>3 DEF NamedApart
  <2> QED
    BY <2>1 DEF ClipsOf
<1> QED
  BY <1>1, <1>2, <1>3, <1>4, ChangesStep

LEMMA MergeStep ==
  ASSUME RegistryInv, NEW c \in Commands, NEW dst \in Ids, NEW src \in Ids, dst # src, NEW best,
         Merge(c, dst, src, best)
  PROVE  RegistryInv'
<1> DEFINE to == doc.speakers[dst]
           from == doc.speakers[src]
           all == to.clips \cup from.clips
           q == [to EXCEPT !.heard = @ \/ from.heard, !.recent = @ \/ from.recent,
                           !.named = @ \/ from.named, !.clips = best]
           e == Without(doc, src)
           z == Reanchor(q)
<1>1. best \subseteq all /\ Changes(c, Put(e, dst, z), all \ best, "delete")
  BY DEF Merge
<1>2. /\ to \in SpeakerProfile /\ to.clips \in SUBSET Clip /\ to.clips \subseteq ClipsOf(doc)
      /\ dst \in DOMAIN doc.speakers /\ dst \in 0 .. doc.next - 1 /\ NamedApart(doc)
      /\ IsFiniteSet(to.clips)
  BY ProfileTypes
<1>3. /\ from \in SpeakerProfile /\ from.clips \in SUBSET Clip /\ from.clips \subseteq ClipsOf(doc)
      /\ src \in DOMAIN doc.speakers /\ IsFiniteSet(from.clips)
  BY ProfileTypes
<1>4. IsFiniteSet(best)
  BY <1>1, <1>2, <1>3, FS_Union, FS_Subset
<1>5. best \in SUBSET Clip /\ all \subseteq ClipsOf(doc)
  BY <1>1, <1>2, <1>3
<1>6. q \in SpeakerProfile /\ q.clips = best
  BY <1>2, <1>3, <1>5 DEF SpeakerProfile
<1>7. z \in SpeakerProfile /\ z.clips = best /\ (Anchored(z) => z.mean = Mean(z.clips))
  <2> HIDE DEF q
  <2> QED
    BY <1>4, <1>6, ReanchorShape
<1>8. /\ Sound(e, FileIds(doc)) /\ e.next = doc.next
      /\ DOMAIN e.speakers = DOMAIN doc.speakers \ {src}
      /\ \A x \in DOMAIN doc.speakers \ {src} : e.speakers[x] = doc.speakers[x]
  BY WithoutShape
<1> HIDE DEF z, e
<1>9. \A x \in DOMAIN e.speakers \ {dst} : \A v \in all, w \in e.speakers[x].clips : v.id # w.id
  <2> SUFFICES ASSUME NEW x \in DOMAIN doc.speakers, x # src, x # dst,
                      NEW v \in all, NEW w \in doc.speakers[x].clips
               PROVE  v.id # w.id
    BY <1>8
  <2>1. CASE v \in to.clips
    BY <1>2, <2>1 DEF NamedApart
  <2>2. CASE v \in from.clips
    BY <1>2, <1>3, <2>2 DEF NamedApart
  <2> QED
    BY <2>1, <2>2
<1>10. Sound(Put(e, dst, z), FileIds(doc))
  <2>1. \A v, w \in z.clips : v.id = w.id => v = w
    BY <1>1, <1>2, <1>5, <1>7, OneClip
  <2>2. \A x \in DOMAIN e.speakers \ {dst} : \A v \in z.clips, w \in e.speakers[x].clips : v.id # w.id
    BY <1>1, <1>7, <1>9
  <2>3. \A v \in z.clips : v.id \in FileIds(doc)
    BY <1>1, <1>5, <1>7 DEF FileIds
  <2>4. dst \in 0 .. e.next - 1 /\ IsFiniteSet(z.clips)
    BY <1>2, <1>4, <1>7, <1>8
  <2> QED
    BY <1>7, <1>8, <2>1, <2>2, <2>3, <2>4, PutSound
<1>11. ClipsOf(Put(e, dst, z)) \subseteq ClipsOf(doc) \ (all \ best)
  <2> SUFFICES ASSUME NEW w \in ClipsOf(Put(e, dst, z)) PROVE w \in ClipsOf(doc) \ (all \ best)
    OBVIOUS
  <2>1. w \in z.clips \/ \E x \in DOMAIN e.speakers \ {dst} : w \in e.speakers[x].clips
    BY <1>8, ClipsOfPut DEF Sound
  <2>2. CASE w \in z.clips
    BY <1>1, <1>5, <1>7, <2>2
  <2>3. ASSUME NEW x \in DOMAIN e.speakers \ {dst}, w \in e.speakers[x].clips
        PROVE  w \in ClipsOf(doc) \ (all \ best)
    <3>1. w \notin all
      BY <1>9, <2>3
    <3>2. w \in ClipsOf(doc)
      BY <1>8, <2>3 DEF ClipsOf
    <3> QED
      BY <3>1, <3>2
  <2> QED
    BY <2>1, <2>2, <2>3
<1>12. all \ best \subseteq ClipsOf(doc)
  BY <1>5
<1> HIDE DEF all
<1> QED
  BY <1>1, <1>10, <1>11, <1>12, ChangesStep
-----------------------------------------------------------------------------
(* Trouble, and all steps.                                                 *)

LEMMA AgedSound ==
  ASSUME NEW d, NEW among, Sound(d, among)
  PROVE  Sound([d EXCEPT !.speakers = [p \in DOMAIN @ |-> [@[p] EXCEPT !.recent = FALSE]]], among)
<1> DEFINE f == [p \in DOMAIN d.speakers |-> [d.speakers[p] EXCEPT !.recent = FALSE]]
<1>1. \A p \in DOMAIN d.speakers :
        /\ f[p] \in SpeakerProfile /\ f[p].clips = d.speakers[p].clips
        /\ f[p].mean = d.speakers[p].mean
  BY DEF Sound, Registry, SpeakerProfile
<1>2. f \in [DOMAIN d.speakers -> SpeakerProfile]
  BY <1>1
<1>3. [d EXCEPT !.speakers = [p \in DOMAIN @ |-> [@[p] EXCEPT !.recent = FALSE]]] =
        [d EXCEPT !.speakers = f]
  OBVIOUS
<1> HIDE DEF f
<1> QED
  BY <1>1, <1>2, <1>3, MappedSound

LEMMA AgeStep ==
  ASSUME RegistryInv, Age
  PROVE  RegistryInv'
<1>1. /\ UNCHANGED <<wavs, clips, turns, session, review, resolved, offered, call, cut, crossed>>
      /\ trouble' = trouble + 1
  BY DEF Age, strip
<1>2. Sound(doc', FileIds(doc))
  <2>1. doc' = [doc EXCEPT !.speakers = [p \in DOMAIN @ |-> [@[p] EXCEPT !.recent = FALSE]]]
    BY DEF Age
  <2> QED
    BY <2>1, InvTypes, AgedSound
<1>3. Sound(disk', 1 .. clips)
  <2>1. disk' = [disk EXCEPT !.speakers = [p \in DOMAIN @ |-> [@[p] EXCEPT !.recent = FALSE]]]
    BY DEF Age
  <2> QED
    BY <2>1, InvTypes, AgedSound
<1>4. trouble' \in Nat
  BY <1>1, InvTypes DEF SpeakersTypeOK
<1>5. SpeakersTypeOK'
  BY <1>1, <1>2, <1>3, <1>4, InvTypes DEF SpeakersTypeOK, Sound
<1>6. FilesInv'
  BY <1>1, <1>2, <1>3, InvTypes, FilesShrink
<1>7. StripInv' /\ AskedInv'
  BY <1>1, InvTypes DEF StripInv, AskedInv, Listening, For
<1> QED
  BY <1>5, <1>6, <1>7 DEF RegistryInv

LEMMA FreshIsSession == Fresh \in SessionState
<1>1. <<>> \in Seq(Cluster) /\ <<>> \in Samples /\ {} \in SUBSET Nat
  BY NoSamples
<1> QED
  BY <1>1 DEF Fresh, SessionState

LEMMA CrashStep ==
  ASSUME RegistryInv, Crash
  PROVE  RegistryInv'
<1>1. /\ UNCHANGED <<turns, disk, wavs, clips, crossed>>
      /\ trouble' = trouble + 1 /\ doc' = disk
      /\ cut' = cut \cup (FileIds(disk) \ wavs)
      /\ review' = [s \in Sessions |-> <<>>] /\ resolved' = [s \in Sessions |-> {}]
      /\ offered' = [s \in Sessions |-> <<>>]
  BY DEF Crash, FileIds
<1>2. /\ session' \in [Sessions -> SessionState]
      /\ \A s \in Sessions : session'[s].at \in {"off", "done"}
  <2>1. [Fresh EXCEPT !.at = "done"] \in SessionState /\ [Fresh EXCEPT !.at = "done"].at = "done"
    BY FreshIsSession DEF SessionState
  <2>2. PICK blank \in SessionState : blank = [Fresh EXCEPT !.at = "done"] /\ blank.at = "done"
    BY <2>1
  <2>3. session' = [s \in Sessions |-> IF session[s].at = "off" THEN session[s] ELSE blank]
    BY <2>2 DEF Crash
  <2> QED
    BY <2>2, <2>3, InvTypes
<1>3. /\ call' \in [Commands -> CallState]
      /\ \A c \in Commands :
           call'[c].at \in {"idle", "done"} /\ (call'[c].at = "idle" => call'[c].key = None)
  <2>1. /\ [Idle EXCEPT !.at = "done"] \in CallState /\ [Idle EXCEPT !.at = "done"].at = "done"
        /\ Idle.at = "idle" /\ Idle.key = None
    BY IdleIsCall DEF CallState, Idle
  <2>2. PICK none \in CallState, done \in CallState :
          /\ done = [Idle EXCEPT !.at = "done"] /\ done.at = "done"
          /\ none = Idle /\ none.at = "idle" /\ none.key = None
    BY <2>1, IdleIsCall
  <2>3. call' = [c \in Commands |-> IF call[c].at = "idle" THEN none ELSE done]
    BY <2>2 DEF Crash
  <2> QED
    BY <2>2, <2>3
<1>4. /\ review' \in [Sessions -> Samples] /\ resolved' \in [Sessions -> SUBSET Nat]
      /\ offered' \in [Sessions -> UNION {[S -> SUBSET Nat] : S \in SUBSET Nat}]
      /\ \A s \in Sessions : DOMAIN review'[s] = {} /\ resolved'[s] = {}
  BY <1>1, NoSamples
<1>5. Registry(disk) /\ FileIds(disk) \subseteq 1 .. clips /\ Sound(disk, 1 .. clips)
  BY InvTypes DEF Sound
<1>6. SpeakersTypeOK'
  <2>1. cut' \subseteq Nat /\ trouble' \in Nat
    BY <1>1, <1>5, InvTypes DEF SpeakersTypeOK
  <2> QED
    BY <1>1, <1>2, <1>3, <1>4, <1>5, <2>1, InvTypes DEF SpeakersTypeOK, Registry
<1>7. FilesInv'
  <2>1. FileIds(disk) \subseteq wavs \cup cut'
    BY <1>1
  <2>2. FileIds(doc)' = FileIds(disk) /\ Sound(doc, 1 .. clips)' = Sound(disk, 1 .. clips)
        /\ Sound(disk, 1 .. clips)' = Sound(disk, 1 .. clips)
    BY <1>1 DEF FileIds, ClipsOf, Sound, Registry, NamedApart, Verified
  <2>3. \A c \in Commands : call'[c].at # "add" /\ call'[c].at # "delete"
    BY <1>3
  <2> QED
    BY <1>1, <1>5, <2>1, <2>2, <2>3 DEF FilesInv
<1>8. StripInv' /\ AskedInv'
  <2>1. \A c \in Commands, s \in Sessions : ~For(c, s)'
    BY <1>3, SpeakersAssumption DEF For
  <2> QED
    BY <1>2, <1>4, <2>1 DEF StripInv, AskedInv, For
<1> QED
  BY <1>6, <1>7, <1>8 DEF RegistryInv

LEMMA FiniteClips ==
  ASSUME NEW d, Registry(d)
  PROVE  Cardinality(ClipsOf(d)) \in Nat
<1> DEFINE S == DOMAIN d.speakers
           f == [p \in S |-> d.speakers[p].clips]
           T == {d.speakers[p].clips : p \in S}
<1>1. IsFiniteSet(S)
  <2>1. d.next - 1 \in Int
    BY DEF Registry
  <2>2. IsFiniteSet(0 .. d.next - 1)
    BY <2>1, FS_Interval
  <2> QED
    BY <2>2, FS_Subset DEF Registry
<1>2. f \in Surjection(S, T)
  BY DEF Surjection
<1>3. IsFiniteSet(T)
  <2> HIDE DEF S, f, T
  <2> QED
    BY <1>1, <1>2, FS_Surjection
<1>4. \A t \in T : IsFiniteSet(t)
  BY DEF Registry
<1>5. IsFiniteSet(UNION T)
  <2> HIDE DEF T
  <2> QED
    BY <1>3, <1>4, FS_UNION
<1> QED
  BY <1>5, FS_CardinalityType DEF ClipsOf

LEMMA InitHolds ==
  ASSUME SpeakersInit
  PROVE  RegistryInv
<1>1. /\ Registry(doc) /\ NamedApart(doc) /\ Verified(doc)
      /\ FileIds(doc) = 1 .. clips /\ disk = doc /\ wavs = FileIds(doc)
      /\ clips = Cardinality(ClipsOf(doc))
  BY CastsAssumption DEF SpeakersInit, FileIds
<1>2. clips \in Nat
  BY <1>1, FiniteClips
<1>3. Sound(doc, 1 .. clips) /\ Sound(disk, 1 .. clips)
  BY <1>1 DEF Sound
<1>4. /\ session \in [Sessions -> SessionState]
      /\ \A s \in Sessions : session[s].at \in {"off", "done"}
  <2>1. /\ [Fresh EXCEPT !.at = "done"] \in SessionState /\ [Fresh EXCEPT !.at = "done"].at = "done"
        /\ Fresh.at = "off"
    BY FreshIsSession DEF SessionState, Fresh
  <2>2. PICK blank \in SessionState, done \in SessionState :
          /\ blank = Fresh /\ blank.at = "off"
          /\ done = [Fresh EXCEPT !.at = "done"] /\ done.at = "done"
    BY <2>1, FreshIsSession
  <2>3. session = [s \in Sessions |-> IF s \in cast.who THEN blank ELSE done]
    BY <2>2 DEF SpeakersInit
  <2> QED
    BY <2>2, <2>3
<1>5. /\ call \in [Commands -> CallState]
      /\ \A c \in Commands :
           call[c].at \in {"idle", "done"} /\ (call[c].at = "idle" => call[c].key = None)
  <2>1. /\ [Idle EXCEPT !.at = "done"] \in CallState /\ [Idle EXCEPT !.at = "done"].at = "done"
        /\ Idle.at = "idle" /\ Idle.key = None
    BY IdleIsCall DEF CallState, Idle
  <2>2. PICK none \in CallState, done \in CallState :
          /\ done = [Idle EXCEPT !.at = "done"] /\ done.at = "done"
          /\ none = Idle /\ none.at = "idle" /\ none.key = None
    BY <2>1, IdleIsCall
  <2>3. call = [c \in Commands |-> IF c \in cast.who THEN none ELSE done]
    BY <2>2 DEF SpeakersInit
  <2> QED
    BY <2>2, <2>3
<1>6. /\ review \in [Sessions -> Samples] /\ resolved \in [Sessions -> SUBSET Nat]
      /\ offered \in [Sessions -> UNION {[S -> SUBSET Nat] : S \in SUBSET Nat}]
      /\ \A s \in Sessions : DOMAIN review[s] = {} /\ resolved[s] = {}
  BY NoSamples DEF SpeakersInit
<1>7. SpeakersTypeOK
  <2>1. turns \in Nat /\ trouble \in Nat /\ cut \subseteq Nat /\ crossed \subseteq Sessions
    BY DEF SpeakersInit
  <2>2. wavs \subseteq Nat
    BY <1>1, <1>2
  <2> QED
    BY <1>1, <1>2, <1>4, <1>5, <1>6, <2>1, <2>2 DEF SpeakersTypeOK
<1>8. FilesInv
  <2>1. \A c \in Commands : call[c].at # "add" /\ call[c].at # "delete"
    BY <1>5
  <2> QED
    BY <1>1, <1>3, <2>1 DEF FilesInv
<1>9. StripInv /\ AskedInv
  <2>1. \A c \in Commands, s \in Sessions : ~For(c, s)
    BY <1>5, SpeakersAssumption DEF For
  <2> QED
    BY <1>4, <1>6, <2>1 DEF StripInv, AskedInv, For
<1> QED
  BY <1>7, <1>8, <1>9 DEF RegistryInv

LEMMA SessionStepKeeps ==
  ASSUME RegistryInv, NEW s \in Sessions, SessionStep(s)
  PROVE  RegistryInv'
<1>1. ASSUME NEW e \in Voices, NEW lock \in BOOLEAN, NEW long \in BOOLEAN, NEW last \in BOOLEAN,
             Turn(s, e, lock, long, last)
      PROVE  RegistryInv'
  BY <1>1, TurnStep
<1> QED
  BY <1>1, WarmUpStep, StopsStep, ReadResolvedStep, StashStep, CommitStep, SaveSessionStep
  DEF SessionStep

LEMMA AttachKeeps ==
  ASSUME RegistryInv, NEW c \in Commands, Attach(c)
  PROVE  RegistryInv'
<1>1. ASSUME NEW s \in Sessions, NEW speaker \in DOMAIN review[s] \cap DOMAIN offered[s],
             NEW target \in offered[s][speaker] \cup {None}, AttachLooks(c, s, speaker, target)
      PROVE  RegistryInv'
  BY <1>1, AttachLooksStep
<1> QED
  BY <1>1, CreateProfileStep, WriteClipStep, AddClipStep, DeleteFilesStep, SaveCallStep,
     ClearPendingStep, MarkResolvedStep DEF Attach

LEMMA TabKeeps ==
  ASSUME RegistryInv, NEW c \in Commands, Tab(c)
  PROVE  RegistryInv'
<1>1. CASE \E id \in Ids : Forget(c, id)
  BY <1>1, ForgetStep
<1>2. CASE \E id \in Ids : \E named \in BOOLEAN : Rename(c, id, named)
  BY <1>2, RenameStep
<1>3. CASE \E id \in Ids : \E clip \in doc.speakers[id].clips : RemoveClip(c, id, clip)
  BY <1>3, RemoveClipStep
<1>4. CASE \E dst, src \in Ids : /\ dst # src
                                 /\ \E best \in SUBSET (doc.speakers[dst].clips \cup doc.speakers[src].clips) :
                                      Merge(c, dst, src, best)
  BY <1>4, MergeStep
<1> QED
  BY <1>1, <1>2, <1>3, <1>4 DEF Tab

LEMMA RegistryInvHolds == SpeakersSpec => []RegistryInv
<1>1. SpeakersInit => RegistryInv
  BY InitHolds
<1>2. RegistryInv /\ [SpeakersNext]_speakersVars => RegistryInv'
  <2> SUFFICES ASSUME RegistryInv, [SpeakersNext]_speakersVars PROVE RegistryInv'
    OBVIOUS
  <2>1. ASSUME NEW s \in Sessions, SessionStep(s) \/ Dismiss(s) PROVE RegistryInv'
    BY <2>1, SessionStepKeeps, DismissStep
  <2>2. ASSUME NEW c \in Commands, Attach(c) \/ Tab(c) PROVE RegistryInv'
    BY <2>2, AttachKeeps, TabKeeps
  <2>3. CASE Age \/ Crash
    BY <2>3, AgeStep, CrashStep
  <2>4. CASE UNCHANGED speakersVars
    <3>1. UNCHANGED <<doc, disk, wavs, clips, turns, session, review, resolved, offered, call,
                      trouble, cut, crossed>>
      BY <2>4 DEF speakersVars, registry, strip, history
    <3>2. SpeakersTypeOK'
      BY <3>1, InvTypes DEF SpeakersTypeOK, Registry
    <3>3. FilesInv'
      BY <3>1, InvTypes, FilesSame
    <3>4. StripInv' /\ AskedInv'
      BY <3>1, InvTypes DEF StripInv, AskedInv, Listening, For
    <3> QED
      BY <3>2, <3>3, <3>4 DEF RegistryInv
  <2> QED
    BY <2>1, <2>2, <2>3, <2>4 DEF SpeakersNext
<1> QED
  BY <1>1, <1>2, PTL DEF SpeakersSpec

(***************************************************************************)
(* Clusters, clips and the registries in memory and on disk stay well      *)
(* formed through sessions, attaches, merges, evictions and crashes.       *)
(***************************************************************************)
THEOREM SpeakersTypeCorrect == SpeakersSpec => []SpeakersTypeOK
<1>1. RegistryInv => SpeakersTypeOK
  BY DEF RegistryInv
<1> QED
  BY <1>1, RegistryInvHolds, PTL

(***************************************************************************)
(* A session is always seeded, for a profile that has clips, with the mean *)
(* of those clips: no commit moves it (registry.rs commit_session), and    *)
(* add_clip, remove_clip and merge compute it again.                       *)
(***************************************************************************)
THEOREM MeansAnchored == SpeakersSpec => []AnchorHolds
<1>1. RegistryInv => AnchorHolds
  BY DEF RegistryInv, FilesInv, Sound, AnchorHolds
<1> QED
  BY <1>1, RegistryInvHolds, PTL

(***************************************************************************)
(* A clip the Speakers tab lists has its file, however the deletions of    *)
(* one command fall between the steps of another, unless a crash or a      *)
(* failed save brought its entry back.                                     *)
(***************************************************************************)
THEOREM ClipsKept == SpeakersSpec => []ClipsBacked
<1>1. RegistryInv => ClipsBacked
  BY DEF RegistryInv, FilesInv, FileIds, ClipsBacked
<1> QED
  BY <1>1, RegistryInvHolds, PTL

(***************************************************************************)
(* Who was attributed while a session ran is not put up for review at its  *)
(* end, unless the attach and the end crossed (diarize/commands.rs).       *)
(***************************************************************************)
THEOREM AskedOnlyOnce == SpeakersSpec => []AskedOnce
<1>1. RegistryInv => AskedOnce
  BY DEF RegistryInv, AskedInv, AskedOnce
<1> QED
  BY <1>1, RegistryInvHolds, PTL
=============================================================================
