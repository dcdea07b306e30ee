----------------------------- MODULE MCPersonas ----------------------------
(***************************************************************************)
(* SettingsGossip with a history of the personas that people delete.       *)
(***************************************************************************)
EXTENDS MCSettingsGossip

VARIABLE deleted  \* <<device, network, id, updated_at>> of the deletions so far

buriedVars == <<gossipVars, deleted>>

\* The personas that device d removes in this step.
RemovedBy(d) ==
  {<<d, n, i, slot[d][n][i]>> : n \in {cfg[d]}, i \in {j \in Item : Remove(d, j)}}

BuriedInit == GossipInit /\ deleted = {}

BuriedNext ==
  /\ GossipNext
  /\ deleted' = deleted \cup UNION {RemovedBy(d) : d \in Device}

BuriedSpec == BuriedInit /\ [][BuriedNext]_buriedVars /\ GossipFairness

\* "An id deleted on the sender is signalled with a tombstone"
\* (agent-prompts.svelte.ts:16-17): gossip brings no persona back to the device
\* and the network it was deleted from.  The code keeps no tombstone, so the
\* copy a peer has is taken for a new persona.
DeletedStaysDeleted ==
  [][\A d \in Device, n \in Network, i \in Item :
       LET s == slot'[d][n][i] IN
       s \notin {0, slot[d][n][i]} => Person \/ <<d, n, i, s>> \notin deleted]_buriedVars
=============================================================================
