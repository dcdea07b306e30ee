------------------------ MODULE MCConversationMove ------------------------
\* Model checking of ConversationMove on a small network.
EXTENDS ConversationMove, TLC

\* Devices, turns and operations are interchangeable, and no property checked
\* with this symmetry is a liveness property.
Symmetry == Permutations(Device) \cup Permutations(Turn) \cup Permutations(Call)
=============================================================================
