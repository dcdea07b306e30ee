--------------------------- MODULE MCFileTransfer ---------------------------
\* The chunks of FileTransfer, and those of TranscribeWorkers.
EXTENDS FileTransfer, MCTranscribeWorkers

\* Besides its scenes, the workers have one without a job.
NoJobs == <<>>
AllCasts == Scenes \cup {NoJobs}

VARIABLE playing  \* which of the two moves; they share no state

\* The other one stays in a state where nothing is due by itself, so that its
\* fairness asks for nothing: there is no job, no file is offered.
MCvars == <<playing, vars, workersVars>>
MCInit ==
  /\ Init /\ WorkersInit
  /\ \/ playing = "transfer" /\ cast = NoJobs
     \/ playing = "workers" /\ cast # NoJobs
MCNext ==
  /\ UNCHANGED playing
  /\ \/ playing = "transfer" /\ Next /\ UNCHANGED workersVars
     \/ playing = "workers" /\ WorkersNext /\ UNCHANGED vars
MCSpec == MCInit /\ [][MCNext]_MCvars /\ Fairness /\ WorkersFairness
=============================================================================
