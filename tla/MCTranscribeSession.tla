------------------------ MODULE MCTranscribeSession ------------------------
\* A session of TranscribeSession, and the speakers that sessions and commands
\* keep.
EXTENDS TranscribeSession, MCSpeakers

\* Besides its scenes, Speakers has one where nobody is.
Nobody == [who |-> {}, found |-> [next |-> 0, speakers |-> <<>>]]
AllCasts == Scenes \cup {Nobody}

VARIABLE playing  \* which of the two moves; they share no state

MCvars == <<playing, vars, speakersVars>>
MCInit ==
  /\ Init /\ SpeakersInit
  /\ \/ playing = "session" /\ cast = Nobody
     \/ playing = "speakers" /\ cast # Nobody
        /\ source = "mic" /\ gate = Reset(TRUE)
MCNext ==
  /\ UNCHANGED playing
  /\ \/ playing = "session" /\ Next /\ UNCHANGED speakersVars
     \/ playing = "speakers" /\ SpeakersNext /\ UNCHANGED vars
\* The fairness of TranscribeSession, while it moves.
MCSpec ==
  /\ MCInit /\ [][MCNext]_MCvars
  /\ WF_vars(playing = "session" /\ Session)
  /\ WF_vars(playing = "session" /\ (CallbackRecords \/ CallbackQueues))
  /\ WF_vars(playing = "session" /\ FeedEndCancels)
=============================================================================
