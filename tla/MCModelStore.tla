---------------------------- MODULE MCModelStore ----------------------------
\* ModelStore with two models, one of which two composites share, and the
\* resolver over manifests that import each other, of several ages, on hosts
\* with and without a GPU of their own; and the onnxruntime library that
\* loads the models, fetched by a window with a request and by a tool.
EXTENDS ModelStore, MCModelResolver, OnnxRuntime

\* The three share no state: one moves while the others have not begun.
MCvars == <<vars, manifestVars, engineVars>>
MCInit == Init /\ ManifestInit /\ EngineInit
MCNext ==
  \/ ManifestInit /\ EngineInit /\ Next /\ UNCHANGED <<manifestVars, engineVars>>
  \/ Init /\ EngineInit /\ ManifestNext /\ UNCHANGED <<vars, engineVars>>
  \/ Init /\ ManifestInit /\ EngineNext /\ UNCHANGED <<vars, manifestVars>>
MCSpec == MCInit /\ [][MCNext]_MCvars

CONSTANTS seg, emb, net, clusterer, whole
Artifacts2 == [m \in {seg, emb} |-> IF m = seg THEN <<net, clusterer>> ELSE <<whole>>]
Lists == {<<seg>>, <<emb, seg>>}

CONSTANTS window, tool, request
OneRequest == {<<window, request>>}
=============================================================================
