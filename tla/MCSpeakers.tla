----------------------------- MODULE MCSpeakers ----------------------------
\* Instance of Speakers: two sessions, a session and the commands of the strip
\* and the Speakers tab, two commands; a session seeded with more profiles than
\* it may have clusters.
EXTENDS Speakers, TLC

CONSTANTS s1, s2, c1, c2

Found(id, emb, conf) == [id |-> id, emb |-> emb, conf |-> conf]
Saved(mean, heard, cs) ==
  [mean |-> mean, heard |-> heard, named |-> TRUE, recent |-> TRUE, clips |-> cs]
Few == [next |-> 2,
        speakers |-> (0 :> Saved(1, TRUE, {Found(1, 1, 0)})) @@ (1 :> Saved(4, TRUE, {}))]
Crowd == [next |-> 4,
          speakers |-> (0 :> Saved(1, TRUE, {Found(1, 1, 0)})) @@ (1 :> Saved(2, TRUE, {}))
                       @@ (2 :> Saved(4, FALSE, {})) @@ (3 :> Saved(5, TRUE, {Found(2, 5, -1)}))]
Scenes == {[who |-> {s1, s2}, found |-> Few], [who |-> {s1, c1}, found |-> Few],
           [who |-> {s1}, found |-> Crowd], [who |-> {c1, c2}, found |-> Crowd]}
=============================================================================
