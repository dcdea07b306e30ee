---------------------------- MODULE MCSelfUpdate ----------------------------
\* SelfUpdate with three releases, the last of another minor version.
EXTENDS SelfUpdate

V1 == <<0, 1, 4>>
V2 == <<0, 1, 5>>
V3 == <<0, 2, 0>>
Releases == {V1, V2, V3}

\* The sidecars come first, as a feed may list them; the last release is a raw
\* binary that has no checksum, only a signature.
File(name) == [name |-> name, lists |-> {}]
Zipped == <<"here", "zip">>
Feed(v) == IF v = V3 THEN <<File(<<"here", "sig">>), File(<<"here">>)>>
           ELSE <<File(<<"elsewhere", "zip">>),
                  [name |-> Append(Zipped, "sha256"), lists |-> {Zipped}], File(Zipped)>>
Published == [v \in Releases |-> Feed(v)]
=============================================================================
