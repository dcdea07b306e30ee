------------------------ MODULE MCTranscribeWorkers ------------------------
\* Instance of TranscribeWorkers: two recordings or two peers that use one id,
\* two drains and sweeps, an upload, and both captures.
EXTENDS TranscribeWorkers, TLC

CONSTANTS a, b, i1, i2

Job(kind, id) == [kind |-> kind, id |-> id]
Scenes == {(a :> Job("live", i1)) @@ (b :> Job("live", i1)),
           (a :> Job("remote", i1)) @@ (b :> Job("remote", i1)),
           (a :> Job("drain", i1)) @@ (b :> Job("drain", i2)),
           a :> Job("upload", i1), a :> Job("call", i1),
           a :> Job("capture", i1),
           a :> Job("file", i1)}
Found == (i1 :> {1, 3, 4}) @@ (i2 :> {2})
=============================================================================
