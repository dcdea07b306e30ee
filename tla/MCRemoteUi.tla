----------------------------- MODULE MCRemoteUi -----------------------------
\* Instance of RemoteUi: two browsers and a kick, a browser and a command,
\* three commands, and three setters; with OllamaServing, which answers them.
EXTENDS RemoteUi, MCOllamaServing

CONSTANTS b1, b2, c1, c2, c3, s1, s2, s3

FourCasts == {{Desktop, b1, b2, Kicker}, {Desktop, b1, c1}, {c1, c2, c3}, {s1, s2, s3}}

VARIABLE playing  \* which of the two moves; they share no state

\* The other one stays in a state where nothing is due by itself, so that its
\* fairness asks for nothing: the desktop has no window, no client asks.
MCvars == <<playing, vars, servingVars>>
MCInit ==
  /\ Init /\ ServingInit
  /\ \/ playing = "remote" /\ scene \cap Requests = {} /\ ~prefix
     \/ playing = "serving" /\ cast = {s1, s2, s3} /\ pointer = None
MCNext ==
  /\ UNCHANGED playing
  /\ \/ playing = "remote" /\ Next /\ UNCHANGED servingVars
     \/ playing = "serving" /\ ServingNext /\ UNCHANGED vars
MCSpec == MCInit /\ [][MCNext]_MCvars /\ Fairness /\ ServingFairness
=============================================================================
