----------------------------- MODULE Speakers ------------------------------
(***************************************************************************)
(* The speaker profiles of src/src-tauri/src/diarize: sessions seed their  *)
(* clusters from the registry, group turns, capture clips and commit their *)
(* clusters; commands attach, remove, merge, rename and forget.  The       *)
(* registry is one document behind a lock; each change is saved by a call  *)
(* of its own, and the clips are files beside it.                          *)
(*                                                                         *)
(* An embedding is a point of a line, similar means near; a mean that      *)
(* takes one in moves a point toward it.                                   *)
(***************************************************************************)
EXTENDS Integers, Sequences, FiniteSets, FiniteSetsExt, SequencesExt, Functions

CONSTANTS
  Sessions,     \* diarized sessions; the review key is the session's
  Commands,     \* calls of the speaker commands
  Casts,        \* bound: who takes part, [who, found], and the registry on disk
  Span,         \* embeddings are 0 .. Span
  Voices,       \* bound: those that occur
  Join, Create, \* distances of ClusterConfig
  Match,        \* distance within which a profile is recognised (MATCH_SIM)
  MaxClusters,  \* clusters of a session
  MaxClips,     \* MAX_CLIPS_PER_PROFILE
  MaxTurns,     \* bound: turns of all sessions
  MaxTrouble,   \* bound: crashes and failed writes
  None

ASSUME SpeakersAssumption ==
  /\ {Span, Join, Create, Match, MaxTurns, MaxTrouble} \subseteq Nat /\ Join <= Create
  /\ {MaxClusters, MaxClips} \subseteq Nat \ {0}
  /\ Voices \subseteq 0 .. Span
  /\ None \notin Sessions

\* A profile and its clips, a registry and what it promises: clips are named
\* apart, and the mean of a profile with clips is theirs.
Clip == [id : Nat, emb : Nat, conf : Int]
SpeakerProfile ==
  [mean : Nat, heard : BOOLEAN, named : BOOLEAN, recent : BOOLEAN, clips : SUBSET Clip]
Sample == [emb : Nat, conf : Int]
Samples == UNION {[S -> Sample] : S \in SUBSET Nat}
Cluster == [id : Nat, mean : Nat, heard : BOOLEAN]
ClipsOf(d) == UNION {d.speakers[p].clips : p \in DOMAIN d.speakers}
Registry(d) ==
  /\ d = [next |-> d.next, speakers |-> d.speakers] /\ d.next \in Nat
  /\ DOMAIN d.speakers \subseteq 0 .. d.next - 1
  /\ d.speakers \in [DOMAIN d.speakers -> SpeakerProfile]
  /\ \A p \in DOMAIN d.speakers : IsFiniteSet(d.speakers[p].clips)
NamedApart(d) ==
  \A p, q \in DOMAIN d.speakers : \A v \in d.speakers[p].clips, w \in d.speakers[q].clips :
    v.id = w.id => p = q /\ v = w

Anchored(p) == p.clips # {}
Mean(cs) == MapThenSumSet(LAMBDA c : c.emb, cs) \div Cardinality(cs)
Verified(d) ==
  \A p \in DOMAIN d.speakers :
    Anchored(d.speakers[p]) => d.speakers[p].mean = Mean(d.speakers[p].clips)

Updated(f, x, v) == [y \in {x} \cup DOMAIN f |-> IF y = x THEN v ELSE f[y]]

\* The registry on disk is one that a program saved.
ASSUME CastsAssumption ==
  \A c \in Casts :
    /\ Registry(c.found) /\ NamedApart(c.found) /\ Verified(c.found)
    /\ {w.id : w \in ClipsOf(c.found)} = 1 .. Cardinality(ClipsOf(c.found))

VARIABLES
  cast,
  doc,       \* the registry in memory: [next, speakers: id -> profile]
  disk,      \* the registry on disk
  wavs,      \* clip files, by clip
  clips,     \* clips made so far
  session,   \* session[s]: where it is, its clusters and its clips
  turns,     \* turns so far
  review,    \* review_store: review[s][speaker] is a captured clip
  resolved,  \* resolved_store: speakers attributed during session s
  offered,   \* offered[s][speaker]: profiles the strip suggests
  call,      \* call[c]: where a command is and what it carries
  trouble,   \* crashes and failed writes so far
  cut,       \* history: clips whose file went and whose entry came back
  crossed    \* history: sessions that ended while an attach for them ran

registry == <<doc, disk, wavs, clips>>
strip == <<review, resolved, offered>>
history == <<trouble, cut, crossed>>
speakersVars == <<cast, registry, session, turns, strip, call, history>>

Idle == [at |-> "idle", key |-> None, speaker |-> 0, target |-> None,
         clip |-> [id |-> 0, emb |-> 0, conf |-> 0], del |-> {}]
Fresh == [at |-> "off", clusters |-> <<>>, next |-> 0, best |-> <<>>, seen |-> {},
          heard |-> FALSE]

SpeakersInit ==
  /\ cast \in Casts
  /\ doc = cast.found /\ disk = doc
  /\ wavs = {c.id : c \in ClipsOf(doc)}
  /\ clips = Cardinality(ClipsOf(doc))
  /\ turns = 0
  /\ session = [s \in Sessions |-> IF s \in cast.who THEN Fresh ELSE [Fresh EXCEPT !.at = "done"]]
  /\ review = [s \in Sessions |-> <<>>] /\ resolved = [s \in Sessions |-> {}]
  /\ offered = [s \in Sessions |-> <<>>]
  /\ call = [c \in Commands |-> IF c \in cast.who THEN Idle ELSE [Idle EXCEPT !.at = "done"]]
  /\ trouble = 0 /\ cut = {} /\ crossed = {}

-----------------------------------------------------------------------------
(* Clusters: a sequence of [id, mean, heard], heard when turns count for it. *)

Dist(a, b) == IF a < b THEN b - a ELSE a - b
Toward(a, b) == IF a < b THEN a + 1 ELSE IF a > b THEN a - 1 ELSE a

Nearest(cs, e) ==
  CHOOSE i \in DOMAIN cs : \A j \in DOMAIN cs :
    \/ Dist(cs[i].mean, e) < Dist(cs[j].mean, e)
    \/ Dist(cs[i].mean, e) = Dist(cs[j].mean, e) /\ i <= j

Closest(cs) ==
  CHOOSE p \in (DOMAIN cs) \X (DOMAIN cs) :
    /\ p[1] < p[2]
    /\ \A q \in (DOMAIN cs) \X (DOMAIN cs) :
         q[1] < q[2] => Dist(cs[p[1]].mean, cs[p[2]].mean) <= Dist(cs[q[1]].mean, cs[q[2]].mean)

Absorb(c, e) == [c EXCEPT !.mean = IF c.heard THEN Toward(@, e) ELSE e, !.heard = TRUE]

\* force_merge_if_close
ForceMerge(cs) ==
  IF Len(cs) < 2 THEN cs
  ELSE LET p == Closest(cs)
           src == cs[p[2]]
       IN IF Dist(cs[p[1]].mean, src.mean) * 5 > Join * 4 THEN cs
          ELSE RemoveAt([cs EXCEPT ![p[1]] = IF src.heard THEN Absorb(@, src.mean) ELSE @], p[2])

Assigned(cs, id, dist) == [clusters |-> cs, id |-> id, dist |-> dist, panics |-> FALSE]

\* A seed may hold more than MaxClusters: then the index found before a merge
\* is used after it.
Crowded(cs, i, dist) ==
  IF i > Len(cs) THEN [Assigned(cs, 0, dist) EXCEPT !.panics = TRUE]
  ELSE Assigned(cs, cs[i].id, dist)

\* assign; a locked embedding, of two voices at once, moves nothing.
Assign(cs, next, e, lock) ==
  LET i == Nearest(cs, e)
      d == Dist(cs[i].mean, e)
      room == IF Len(cs) >= MaxClusters THEN ForceMerge(cs) ELSE cs
      new == [id |-> next, mean |-> e, heard |-> TRUE]
  IN CASE cs # <<>> /\ (d <= Join \/ lock) ->
            Assigned(IF lock THEN cs ELSE [cs EXCEPT ![i] = Absorb(@, e)], cs[i].id, d)
       [] cs # <<>> /\ d > Join /\ d <= Create /\ ~lock ->
            Assigned(IF d = Create THEN cs ELSE [cs EXCEPT ![i].mean = Toward(@, e)], cs[i].id, d)
       [] OTHER -> IF Len(room) >= MaxClusters THEN Crowded(room, i, d)
                   ELSE Assigned(Append(room, new), next, 0)

-----------------------------------------------------------------------------
(* The registry.                                                           *)

Ids == DOMAIN doc.speakers
Reanchor(p) == IF Anchored(p) THEN [p EXCEPT !.mean = Mean(p.clips)] ELSE p

Profile(mean, heard, named) ==
  [mean |-> mean, heard |-> heard, named |-> named, recent |-> TRUE, clips |-> {}]
Put(d, id, p) == [d EXCEPT !.speakers = Updated(@, id, p)]
Created(d, p) == [Put(d, d.next, p) EXCEPT !.next = @ + 1]
Without(d, id) == [d EXCEPT !.speakers = Restrict(@, DOMAIN @ \ {id})]

\* best_match
Recognised(d, e) ==
  {p \in DOMAIN d.speakers :
     /\ Dist(d.speakers[p].mean, e) <= Match
     /\ \A q \in DOMAIN d.speakers :
          \/ Dist(d.speakers[p].mean, e) < Dist(d.speakers[q].mean, e)
          \/ Dist(d.speakers[p].mean, e) = Dist(d.speakers[q].mean, e) /\ p <= q}

\* Mutant of CommitOne: the clips do not pin the mean.
CommitDrifts(d, c) ==
  IF ~c.heard THEN d
  ELSE IF Recognised(d, c.mean) = {} THEN Created(d, Profile(c.mean, TRUE, FALSE))
  ELSE LET p == CHOOSE q \in Recognised(d, c.mean) : TRUE IN
       Put(d, p, [d.speakers[p] EXCEPT !.mean = Toward(@, c.mean), !.heard = TRUE, !.recent = TRUE])

\* A cluster goes to the profile it resembles, whatever its id, or becomes one;
\* a seeded one that nobody spoke for counts as heard.
CommitOne(d, c) ==
  IF ~c.heard THEN d
  ELSE IF Recognised(d, c.mean) = {} THEN Created(d, Profile(c.mean, TRUE, FALSE))
  ELSE LET p == CHOOSE q \in Recognised(d, c.mean) : TRUE IN
       Put(d, p, [d.speakers[p] EXCEPT !.mean = IF Anchored(d.speakers[p]) THEN @ ELSE Toward(@, c.mean),
                                       !.heard = TRUE, !.recent = TRUE])

EvictStale(d) ==
  [d EXCEPT !.speakers = RestrictValues(@, LAMBDA p : Anchored(p) \/ p.recent)]

Committed(d, cs) ==
  LET upTo[n \in 0 .. Len(cs)] == IF n = 0 THEN d ELSE CommitOne(upTo[n - 1], cs[n])
  IN upTo[Len(cs)]

\* Seeds come in the order of the document, which is that of the ids.
Seed(ids) ==
  [i \in DOMAIN ids |-> [id |-> ids[i], mean |-> doc.speakers[ids[i]].mean,
                         heard |-> doc.speakers[ids[i]].heard]]

-----------------------------------------------------------------------------
(* A session.                                                              *)

At(s, place) == session' = [session EXCEPT ![s].at = place]

\* The backend is loaded and seeded, or the session is cancelled before.
WarmUp(s) ==
  /\ session[s].at = "off"
  /\ \/ \E ids \in [1 .. Cardinality(Ids) -> Ids] :
          /\ \A i, j \in DOMAIN ids : i < j => ids[i] < ids[j]
          /\ session' = [session EXCEPT ![s].at = "run", ![s].clusters = Seed(ids),
                                        ![s].next = doc.next]
     \/ At(s, "done")
  /\ UNCHANGED <<cast, turns, registry, strip, call, history>>

\* consider: whether the turn's clip is taken, or replaces a weaker one.
Takes(best, id, dist, lock, long) ==
  ~lock /\ long /\ dist <= Join /\ (id \in DOMAIN best => best[id].conf < -dist)

Offer(speakers) == [sp \in speakers |-> Ids]

\* A turn of an utterance is clustered and its clip considered.  The first clip
\* of a speaker goes to the strip, unless the session ends with the utterance.
Turn(s, e, lock, long, last) ==
  LET S == session[s]
      a == Assign(S.clusters, S.next, e, lock)
      cand == [emb |-> e, conf |-> -a.dist]
      takes == Takes(S.best, a.id, a.dist, lock, long)
      chip == takes /\ a.id \notin DOMAIN S.best /\ ~last
  IN
  /\ S.at = "run" /\ turns < MaxTurns /\ turns' = turns + 1
  /\ IF a.panics
     THEN At(s, "commit") /\ UNCHANGED strip
     ELSE /\ session' = [session EXCEPT ![s] =
               [S EXCEPT !.at = IF last THEN "over" ELSE "run", !.heard = TRUE,
                         !.clusters = a.clusters, !.next = IF a.id = @ THEN @ + 1 ELSE @,
                         !.best = IF takes THEN Updated(@, a.id, cand) ELSE @]]
          /\ review' = IF chip THEN [review EXCEPT ![s] = Updated(@, a.id, cand)] ELSE review
          /\ offered' = IF chip /\ Recognised(doc, e) # {}
                        THEN [offered EXCEPT ![s] = Updated(@, a.id, Ids)] ELSE offered
          /\ UNCHANGED resolved
  /\ UNCHANGED <<cast, registry, call, history>>

\* The loop ends, or fails and leaves the strip as it is.
Stops(s) ==
  /\ session[s].at = "run"
  /\ At(s, "over") \/ At(s, "commit")
  /\ UNCHANGED <<cast, turns, registry, strip, call, history>>

Attaching(s) == \E c \in Commands : call[c].key = s /\ call[c].at # "done"

\* Mutant of ReadResolved: who was confirmed during the session is asked again.
ReadNothing(s) ==
  /\ session[s].at = "over"
  /\ At(s, IF session[s].best = <<>> THEN "commit" ELSE "stash")
  /\ crossed' = IF Attaching(s) THEN crossed \cup {s} ELSE crossed
  /\ UNCHANGED <<cast, turns, registry, strip, call, trouble, cut>>

\* stash_review_candidates reads who is resolved ...
ReadResolved(s) ==
  /\ session[s].at = "over"
  /\ session' = [session EXCEPT ![s].seen = resolved[s],
                                ![s].at = IF session[s].best = <<>> THEN "commit" ELSE "stash"]
  /\ crossed' = IF Attaching(s) THEN crossed \cup {s} ELSE crossed
  /\ UNCHANGED <<cast, turns, registry, strip, call, trouble, cut>>

\* ... and puts the others up for review.
Stash(s) ==
  LET open == DOMAIN session[s].best \ session[s].seen IN
  /\ session[s].at = "stash"
  /\ At(s, "commit")
  /\ review' = [review EXCEPT ![s] = Restrict(session[s].best, open)]
  /\ offered' = IF open = {} THEN offered ELSE [offered EXCEPT ![s] = Offer(open)]
  /\ UNCHANGED <<cast, turns, registry, resolved, call, history>>

\* The backend is dropped: commit_session ...
Commit(s) ==
  LET S == session[s] IN
  /\ S.at = "commit"
  /\ IF S.heard /\ S.clusters # <<>>
     THEN doc' = EvictStale(Committed(doc, S.clusters)) /\ At(s, "save")
     ELSE At(s, "done") /\ UNCHANGED doc
  /\ UNCHANGED <<cast, turns, disk, wavs, clips, strip, call, history>>

\* ... and save, which writes whatever the document is by now.
Save(fails) ==
  /\ trouble' = IF fails THEN trouble + 1 ELSE trouble
  /\ disk' = IF fails THEN disk ELSE doc
  /\ UNCHANGED <<doc, wavs, clips, cut, crossed>>

SaveSession(s) ==
  /\ session[s].at = "save" /\ At(s, "done")
  /\ \E fails \in BOOLEAN : (fails => trouble < MaxTrouble) /\ Save(fails)
  /\ UNCHANGED <<cast, turns, strip, call>>

-----------------------------------------------------------------------------
(* review_attach.                                                          *)

Step(c, place) == call' = [call EXCEPT ![c].at = place]

AttachLooks(c, s, speaker, target) ==
  /\ call[c].at = "idle"
  /\ speaker \in DOMAIN review[s] \cap DOMAIN offered[s]
  /\ target \in offered[s][speaker] \cup {None}
  /\ call' = [call EXCEPT ![c] =
       [Idle EXCEPT !.at = IF target = None THEN "create" ELSE "write", !.key = s,
                    !.speaker = speaker, !.target = target,
                    !.clip = [id |-> 0, emb |-> review[s][speaker].emb,
                              conf |-> review[s][speaker].conf]]]
  /\ crossed' = IF session[s].at = "stash" THEN crossed \cup {s} ELSE crossed
  /\ UNCHANGED <<cast, turns, registry, session, strip, trouble, cut>>

CreateProfile(c) ==
  /\ call[c].at = "create"
  /\ doc' = Created(doc, Profile(call[c].clip.emb, FALSE, TRUE))
  /\ call' = [call EXCEPT ![c].target = doc.next, ![c].at = "write"]
  /\ UNCHANGED <<cast, turns, disk, wavs, clips, session, strip, history>>

\* When the file cannot be written, a profile just created stays, unsaved.
WriteClip(c) ==
  /\ call[c].at = "write"
  /\ \/ /\ clips' = clips + 1 /\ wavs' = wavs \cup {clips'}
        /\ call' = [call EXCEPT ![c].clip.id = clips', ![c].at = "add"]
        /\ UNCHANGED trouble
     \/ /\ trouble < MaxTrouble /\ trouble' = trouble + 1
        /\ Step(c, "done")
        /\ UNCHANGED <<clips, wavs>>
  /\ UNCHANGED <<cast, turns, doc, disk, session, strip, cut, crossed>>

Weakest(cs) ==
  {w \in cs : \A o \in cs : w.conf < o.conf \/ (w.conf = o.conf /\ w.id <= o.id)}

\* add_clip: a full profile gives up its weakest clip, or refuses a weaker one,
\* whose file stays; a profile that is gone refuses too.
AddClip(c) ==
  LET clip == call[c].clip
      p == doc.speakers[call[c].target]
      full == Cardinality(p.clips) >= MaxClips
      out == IF full THEN Weakest(p.clips) ELSE {}
  IN
  /\ call[c].at = "add"
  /\ IF call[c].target \notin Ids \/ (\E w \in out : clip.conf < w.conf)
     THEN Step(c, "save") /\ UNCHANGED doc
     ELSE /\ doc' = Put(doc, call[c].target,
                        Reanchor([p EXCEPT !.clips = (@ \ out) \cup {clip}, !.recent = TRUE]))
          /\ call' = [call EXCEPT ![c].at = "delete", ![c].del = {w.id : w \in out}]
  /\ UNCHANGED <<cast, turns, disk, wavs, clips, session, strip, history>>

DeleteFiles(c) ==
  /\ call[c].at = "delete" /\ Step(c, "save")
  /\ wavs' = wavs \ call[c].del
  /\ UNCHANGED <<cast, turns, doc, disk, clips, session, strip, history>>

SaveCall(c) ==
  /\ call[c].at = "save"
  /\ \/ Save(FALSE) /\ Step(c, IF call[c].key = None THEN "done" ELSE "clear")
     \/ trouble < MaxTrouble /\ Save(TRUE) /\ Step(c, "done")
  /\ UNCHANGED <<cast, turns, session, strip>>

ClearPending(c) ==
  /\ call[c].at = "clear" /\ Step(c, "mark")
  /\ review' = [review EXCEPT ![call[c].key] = Restrict(@, DOMAIN @ \ {call[c].speaker})]
  /\ UNCHANGED <<cast, turns, registry, session, resolved, offered, history>>

MarkResolved(c) ==
  /\ call[c].at = "mark" /\ Step(c, "done")
  /\ resolved' = [resolved EXCEPT ![call[c].key] = @ \cup {call[c].speaker}]
  /\ UNCHANGED <<cast, turns, registry, session, review, offered, history>>

\* review_dismiss, which the strip offers when the session is over.
Dismiss(s) ==
  /\ session[s].at \in {"commit", "save", "done"} /\ DOMAIN review[s] # {}
  /\ review' = [review EXCEPT ![s] = <<>>]
  /\ resolved' = [resolved EXCEPT ![s] = {}]
  /\ offered' = [offered EXCEPT ![s] = <<>>]
  /\ UNCHANGED <<cast, turns, registry, session, call, history>>

-----------------------------------------------------------------------------
(* The Speakers tab.                                                       *)

Changes(c, d, del, place) ==
  /\ call[c].at = "idle"
  /\ doc' = d
  /\ call' = [call EXCEPT ![c].at = place, ![c].del = {w.id : w \in del}]
  /\ UNCHANGED <<cast, turns, disk, wavs, clips, session, strip, history>>

RemoveClip(c, id, clip) ==
  Changes(c, Put(doc, id, Reanchor([doc.speakers[id] EXCEPT !.clips = @ \ {clip}])), {clip}, "delete")

\* Mutant of Merge: the clips that did not fit stay, their files go.
MergeKeepsAll(c, dst, src, best) ==
  LET to == doc.speakers[dst]
      from == doc.speakers[src]
      all == to.clips \cup from.clips
      merged == [to EXCEPT !.heard = @ \/ from.heard, !.recent = @ \/ from.recent,
                           !.named = @ \/ from.named, !.clips = all]
  IN Changes(c, Put(Without(doc, src), dst, Reanchor(merged)), all \ best, "delete")

\* The best clips of both stay, the files of the others go.
Merge(c, dst, src, best) ==
  LET to == doc.speakers[dst]
      from == doc.speakers[src]
      all == to.clips \cup from.clips
      merged == [to EXCEPT !.heard = @ \/ from.heard, !.recent = @ \/ from.recent,
                           !.named = @ \/ from.named, !.clips = best]
  IN /\ best \subseteq all /\ Cardinality(best) = Min({MaxClips, Cardinality(all)})
     /\ \A in \in best, out \in all \ best : in.conf >= out.conf
     /\ Changes(c, Put(Without(doc, src), dst, Reanchor(merged)), all \ best, "delete")

Rename(c, id, named) ==
  Changes(c, Put(doc, id, [doc.speakers[id] EXCEPT !.named = named]), {}, "save")

Forget(c, id) == Changes(c, Without(doc, id), doc.speakers[id].clips, "delete")

-----------------------------------------------------------------------------
(* Trouble.                                                                *)

\* Half a year passes in which nobody is heard.
Age ==
  LET Aged(d) == [d EXCEPT !.speakers = [p \in DOMAIN @ |-> [@[p] EXCEPT !.recent = FALSE]]] IN
  /\ trouble < MaxTrouble /\ trouble' = trouble + 1
  /\ \A s \in Sessions : session[s].at \in {"off", "done"}
  /\ \A c \in Commands : call[c].at \in {"idle", "done"}
  /\ doc' = Aged(doc) /\ disk' = Aged(disk)
  /\ UNCHANGED <<cast, turns, wavs, clips, session, strip, call, cut, crossed>>

\* The process ends; the next one loads what was saved.
Crash ==
  /\ trouble < MaxTrouble /\ trouble' = trouble + 1
  /\ doc' = disk
  /\ cut' = cut \cup ({c.id : c \in ClipsOf(disk)} \ wavs)
  /\ session' = [s \in Sessions |-> IF session[s].at = "off" THEN session[s]
                                    ELSE [Fresh EXCEPT !.at = "done"]]
  /\ call' = [c \in Commands |-> IF call[c].at = "idle" THEN Idle ELSE [Idle EXCEPT !.at = "done"]]
  /\ review' = [s \in Sessions |-> <<>>] /\ resolved' = [s \in Sessions |-> {}]
  /\ offered' = [s \in Sessions |-> <<>>]
  /\ UNCHANGED <<cast, turns, disk, wavs, clips, crossed>>

-----------------------------------------------------------------------------
SessionStep(s) ==
  \/ WarmUp(s) \/ Stops(s) \/ ReadResolved(s) \/ Stash(s) \/ Commit(s) \/ SaveSession(s)
  \/ \E e \in Voices, lock, long, last \in BOOLEAN : Turn(s, e, lock, long, last)

Attach(c) ==
  \/ \E s \in Sessions : \E speaker \in DOMAIN review[s] \cap DOMAIN offered[s] :
       \E target \in offered[s][speaker] \cup {None} : AttachLooks(c, s, speaker, target)
  \/ CreateProfile(c) \/ WriteClip(c) \/ AddClip(c) \/ DeleteFiles(c) \/ SaveCall(c)
  \/ ClearPending(c) \/ MarkResolved(c)

Tab(c) ==
  \/ \E id \in Ids : \/ Forget(c, id)
                     \/ \E named \in BOOLEAN : Rename(c, id, named)
                     \/ \E clip \in doc.speakers[id].clips : RemoveClip(c, id, clip)
  \/ \E dst, src \in Ids : /\ dst # src
                           /\ \E best \in SUBSET (doc.speakers[dst].clips \cup doc.speakers[src].clips) :
                                Merge(c, dst, src, best)

SpeakersNext ==
  \/ \E s \in Sessions : SessionStep(s) \/ Dismiss(s)
  \/ \E c \in Commands : Attach(c) \/ Tab(c)
  \/ Age \/ Crash

SpeakersSpec == SpeakersInit /\ [][SpeakersNext]_speakersVars

-----------------------------------------------------------------------------
SessionState ==
  [at : {"off", "run", "over", "stash", "commit", "save", "done"},
   clusters : Seq(Cluster), next : Nat, best : Samples, seen : SUBSET Nat, heard : BOOLEAN]
CallState ==
  [at : {"idle", "create", "write", "add", "delete", "save", "clear", "mark", "done"},
   key : Sessions \cup {None}, speaker : Nat, target : Nat \cup {None}, clip : Clip,
   del : SUBSET Nat]

(***************************************************************************)
(* Clusters, clips and registries are well formed: ids are below the next  *)
(* free one and profiles have finitely many clips.                         *)
(***************************************************************************)
SpeakersTypeOK ==
  /\ Registry(doc) /\ Registry(disk)
  /\ wavs \subseteq Nat /\ cut \subseteq Nat /\ clips \in Nat
  /\ turns \in Nat /\ trouble \in Nat /\ crossed \subseteq Sessions
  /\ session \in [Sessions -> SessionState]
  /\ review \in [Sessions -> Samples] /\ resolved \in [Sessions -> SUBSET Nat]
  /\ offered \in [Sessions -> UNION {[S -> SUBSET Nat] : S \in SUBSET Nat}]
  /\ call \in [Commands -> CallState]

(***************************************************************************)
(* The mean that a session is seeded with for a verified profile is the    *)
(* mean of its clips, after any sessions, merges and evictions.            *)
(***************************************************************************)
AnchorHolds == Verified(doc)

(***************************************************************************)
(* Every clip the Speakers tab lists can be played: its file is there,     *)
(* unless a crash or a failed save brought the entry back after the file   *)
(* was deleted.                                                            *)
(***************************************************************************)
ClipsBacked == {c.id : c \in ClipsOf(doc)} \subseteq wavs \cup cut

(***************************************************************************)
(* A speaker who was confirmed during a session is not asked for again at  *)
(* its end, unless the confirmation and the end ran at the same time.      *)
(***************************************************************************)
AskedOnce ==
  \A s \in Sessions \ crossed :
    ~Attaching(s) => DOMAIN review[s] \cap resolved[s] = {}

=============================================================================
