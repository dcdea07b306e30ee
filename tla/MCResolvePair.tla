--------------------------- MODULE MCResolvePair ---------------------------
\* resolve_pair over the manifests of MCModelResolver.
EXTENDS ResolvePair, MCModelResolver

Loader == [tag \in {Tag(n) : n \in {big, small, old, embed, voice, quick, robot}} |->
             IF tag = Tag(voice) THEN kokoro
             ELSE IF tag \in {Tag(quick), Tag(robot)} THEN piper ELSE Ollama]

\* The voices of each family, with and without a provider.
Listening == {Config(1, <<>>, <<>>, Absent, Text), Config(2, <<>>, <<>>, Absent, Text)}
Speaking == Listening \cup {[c EXCEPT !.provider = Absent] : c \in Listening}
=============================================================================
