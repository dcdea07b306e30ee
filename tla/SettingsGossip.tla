--------------------------- MODULE SettingsGossip ---------------------------
(***************************************************************************)
(* The settings that devices share: agent permissions and personas, kept   *)
(* per network in config.json (src/src/agent-permissions.svelte.ts,        *)
(* src/src/agent-prompts.svelte.ts), gossiped as whole snapshots           *)
(* (src/src/mesh-gossip.ts) and merged by last write wins, while the mesh  *)
(* client of src/src/mesh-daemon.svelte.ts follows the active network.     *)
(*                                                                         *)
(* The config lives in memory (_cached of src/src/config.ts) and in the    *)
(* file.  With the memory in place loadConfig awaits nothing but resolved  *)
(* promises, so the code from reading the config to assigning the new one  *)
(* runs in one turn of the event loop and is one action; the file is read  *)
(* and written by I/O, and each read and each write is an action of its    *)
(* own that may come late, or in another order than it was started in.     *)
(*                                                                         *)
(* A record is known by its updated_at: two devices are taken never to     *)
(* stamp a record in the same millisecond, but their clocks may differ.    *)
(* Auto-gossip is on everywhere.                                           *)
(***************************************************************************)
EXTENDS Integers, FiniteSetsExt

CONSTANTS
  Device, Network,
  Item,        \* the gated tools, or ids of personas
  Scenes,      \* which setting is looked at, and how much goes on (bounds)
  Loader,      \* reads of one config.json under way at a time (a bound)
  LastStamp,   \* clocks stop there (a bound)
  NoConfig     \* no config

\* A scene: the setting, the devices where the person switches networks, those
\* where the person switches providers, the writes of one config.json under way
\* at a time, and where the clocks stop.
Scene ==
  [kind : {"permissions", "prompts"}, roaming : SUBSET Device, switching : SUBSET Device,
   writes : Nat, stamps : 0..LastStamp]

\* A device switches networks or providers, not both (a bound): what a stale
\* config does to the choice of the network is left out.
ASSUME GossipAssumption ==
  /\ Scenes \subseteq Scene
  /\ \A s \in Scenes : s.roaming \cap s.switching = {}
  /\ LastStamp \in Nat
ASSUME NetworksAssumption == Network # {}
ASSUME NoConfigAssumption == NoConfig \notin [Network -> [Item -> 0..LastStamp]]

VARIABLES
  scene,     \* the scene that is played
  slot,      \* slot[d][n][i]: updated_at of item i in network n of the config
             \* d has or last had in memory, 0 for none (or the default)
  cached,    \* the devices that have the config in memory (_cached # null)
  file,      \* file[d]: the records in config.json
  writes,    \* writes[d]: the writes of config.json under way
  reading,   \* reading[d][l]: what a read under way has found, or NoConfig
  held,      \* held[d]: the config setActiveProvider works on, or NoConfig
  untold,    \* the devices with a broadcast that waits for the config
  cfg,       \* cfg[d]: active_network_id in the config of d
  mesh,      \* mesh[d]: the network the mesh client of d runs on
  up,        \* the devices whose mesh client is started
  link,      \* pairs of devices the daemons can connect
  peers,     \* peers[d]: the active peers in d's last snapshot
  gossiped,  \* gossipedOnceTo
  net        \* frames under way, at most one from a device to another

clientVars == <<mesh, up, peers, gossiped>>
storeVars == <<slot, cached, file, writes, reading, held, untold>>
gossipVars == <<scene, slot, cached, file, writes, reading, held, untold,
                cfg, mesh, up, link, peers, gossiped, net>>

Stamp == 1..LastStamp
Records == [Item -> 0..LastStamp]
Config == [Network -> Records]

\* What follows the write: nothing (a merge, setActiveNetwork), the broadcast
\* of persistPatch and persistList, invalidateConfigCache, or the return of
\* loadConfig, which writes what it has read.
WriteUnderWay ==
  [config : Config, next : {"nothing", "tell", "forget", "load"}]

Frame == [from : Device, to : Device, network : Network, records : Records]

GossipTypeOK ==
  /\ scene \in Scenes
  /\ slot \in [Device -> Config]
  /\ cached \subseteq Device
  /\ file \in [Device -> Config]
  /\ writes \in [Device -> SUBSET WriteUnderWay]
  /\ reading \in [Device -> [Loader -> Config \cup {NoConfig}]]
  /\ held \in [Device -> Config \cup {NoConfig}]
  /\ untold \subseteq Device
  /\ cfg \in [Device -> Network]
  /\ mesh \in [Device -> Network]
  /\ up \subseteq Device
  /\ link \subseteq {{d, e} : d, e \in Device}
  /\ peers \in [Device -> SUBSET Device]
  /\ gossiped \in [Device -> SUBSET Device]
  /\ net \subseteq Frame
  /\ \A f, g \in net : f.from = g.from /\ f.to = g.to => f = g

\* All devices start on one network; which one makes no difference.
GossipInit ==
  /\ scene \in Scenes
  /\ slot = [d \in Device |-> [n \in Network |-> [i \in Item |-> 0]]]
  /\ cached = Device
  /\ file = slot
  /\ writes = [d \in Device |-> {}]
  /\ reading = [d \in Device |-> [l \in Loader |-> NoConfig]]
  /\ held = [d \in Device |-> NoConfig]
  /\ untold = {}
  /\ LET n == CHOOSE n \in Network : TRUE
     IN  cfg = [d \in Device |-> n] /\ mesh = cfg
  /\ up = Device
  /\ link = {}
  /\ peers = [d \in Device |-> {}]
  /\ gossiped = [d \in Device |-> {}]
  /\ net = {}

----------------------------------------------------------------------------
\* The peers that are active for d now.
ActivePeers(d) == {e \in Device \ {d} : {d, e} \in link /\ mesh[e] = mesh[d]}

\* channelSendAll: one frame for every active peer on d's network.  A frame
\* still under way to the same peer is overtaken (a bound: one frame from a
\* device to another).
SendAll(d, records) ==
  net' = {f \in net : f.from # d \/ f.to \notin ActivePeers(d)} \cup
         {[from |-> d, to |-> e, network |-> mesh[d], records |-> records] :
            e \in ActivePeers(d)}

\* getAgentPermissions reads the active network of the config.
ActiveSlot(d) == slot[d][cfg[d]]

\* getAllPrompts: the newest version of every persona of any network.
AllPrompts(d) == [i \in Item |-> Max({slot[d][n][i] : n \in Network})]

\* publishPermissions and publishPrompts.
Snapshot(d) == IF scene.kind = "permissions" THEN ActiveSlot(d) ELSE AllPrompts(d)

\* mergeIncoming: an item is adopted when its stamp is higher.
Merge(local, records) ==
  [i \in Item |-> IF records[i] > local[i] THEN records[i] ELSE local[i]]

----------------------------------------------------------------------------
\* The config of device d.

\* saveConfig assigns the config in memory and starts to write the file.  Only
\* a device that switches providers reads its file again, so only there the
\* writes that nothing follows are kept.
Save(d, config, next) ==
  /\ Cardinality(writes[d]) < scene.writes
  /\ slot' = [slot EXCEPT ![d] = config]
  /\ cached' = cached \cup {d}
  /\ writes' = IF d \in scene.switching \/ next = "tell"
               THEN [writes EXCEPT ![d] = @ \cup {[config |-> config, next |-> next]}]
               ELSE writes

\* The broadcaster gets the records of the active network and sends them on
\* the network the mesh client runs on.
Tell(d) == IF d \in up THEN SendAll(d, ActiveSlot(d)) ELSE UNCHANGED net

\* The file is written, in any order.  persistPatch and persistList refresh
\* from the config, which has to be read first when it was forgotten.
Land(d) ==
  \E w \in writes[d] :
    /\ writes' = [writes EXCEPT ![d] = @ \ {w}]
    /\ file' = IF d \in scene.switching THEN [file EXCEPT ![d] = w.config] ELSE file
    /\ cached' = IF w.next = "forget" THEN cached \ {d} ELSE cached
    /\ untold' = IF w.next = "tell" /\ d \notin cached THEN untold \cup {d} ELSE untold
    /\ IF w.next = "tell" /\ d \in cached THEN Tell(d) ELSE UNCHANGED net
    /\ UNCHANGED <<scene, slot, reading, held, cfg, clientVars, link>>

\* The write fails: the caller throws, the memory keeps the new config.  A
\* write that fails inside loadConfig is left out (it resets the config).
Fail(d) ==
  \E w \in writes[d] :
    /\ w.next # "load"
    /\ writes' = [writes EXCEPT ![d] = @ \ {w}]
    /\ UNCHANGED <<scene, slot, cached, file, reading, held, untold, cfg, clientVars, link, net>>

\* loadConfig without a config in memory: the file is read ...
StartRead(d, l) ==
  /\ d \notin cached
  /\ reading[d][l] = NoConfig
  /\ reading' = [reading EXCEPT ![d][l] = file[d]]
  /\ UNCHANGED <<scene, slot, cached, file, writes, held, untold, cfg, clientVars, link, net>>

\* ... and assigned and written again, whatever is in memory by then.
FinishRead(d, l) ==
  /\ reading[d][l] # NoConfig
  /\ Save(d, reading[d][l], "load")
  /\ reading' = [reading EXCEPT ![d][l] = NoConfig]
  /\ UNCHANGED <<scene, file, held, untold, cfg, clientVars, link, net>>

\* The broadcast that waited for the config.
TellLate(d) ==
  /\ d \in untold \cap cached
  /\ untold' = untold \ {d}
  /\ Tell(d)
  /\ UNCHANGED <<scene, slot, cached, file, writes, reading, held, cfg, clientVars, link>>

\* setActiveProvider has its manifest and saves the config it loaded before;
\* ProvidersSection and FamilyDetail then forget the config.
ProviderSaved(d) ==
  /\ held[d] # NoConfig
  /\ Save(d, held[d], "forget")
  /\ held' = [held EXCEPT ![d] = NoConfig]
  /\ UNCHANGED <<scene, file, reading, untold, cfg, clientVars, link, net>>

----------------------------------------------------------------------------
\* A person at device d.

\* No device has, is being sent or is saving a record with this stamp.
Fresh(s) ==
  \A i \in Item :
    /\ \A d \in Device, n \in Network :
         /\ s \notin {slot[d][n][i], file[d][n][i]}
         /\ \A w \in writes[d] : w.config[n][i] # s
         /\ \A c \in ({held[d]} \cup {reading[d][l] : l \in Loader}) \ {NoConfig} : c[n][i] # s
    /\ \A f \in net : f.records[i] # s

\* updateAgentPermissions and updatePrompts: the records of the active network
\* of the config, to be broadcast once they are written.
Write(d, i, s) ==
  /\ d \in cached
  /\ Save(d, [slot[d] EXCEPT ![cfg[d]][i] = s], "tell")
  /\ UNCHANGED <<scene, file, reading, held, untold, cfg, clientVars, link, net>>

\* setMode, an answer to a permission prompt, create, update and
\* propagateToActive stamp the record anew.  A clock that runs behind may give
\* it a stamp older than the one it replaces.
Edit(d, i, s) == s <= scene.stamps /\ Fresh(s) /\ Write(d, i, s)

\* remove: the persona is just left out from then on.
Remove(d, i) ==
  /\ scene.kind = "prompts"
  /\ ActiveSlot(d)[i] # 0
  /\ Write(d, i, 0)

\* setActiveNetwork; the mesh client follows later.
Switch(d, n) ==
  /\ d \in scene.roaming \cap cached
  /\ n # cfg[d]
  /\ cfg' = [cfg EXCEPT ![d] = n]
  /\ UNCHANGED <<scene, storeVars, clientVars, link, net>>

\* setActiveProvider loads the config and waits for the manifest.
SwitchProvider(d) ==
  /\ d \in scene.switching \cap cached
  /\ held[d] = NoConfig
  /\ held' = [held EXCEPT ![d] = slot[d]]
  /\ UNCHANGED <<scene, slot, cached, file, writes, reading, untold, cfg, clientVars, link, net>>

----------------------------------------------------------------------------
\* The mesh client of device d.

\* reconcile finds another network in the config: stop, and start reads the
\* config for the network to run on.
Restart(d) ==
  /\ d \in up \cap cached
  /\ cfg[d] # mesh[d]
  /\ up' = up \ {d}
  /\ mesh' = [mesh EXCEPT ![d] = cfg[d]]
  /\ gossiped' = [gossiped EXCEPT ![d] = {}]
  /\ UNCHANGED <<scene, storeVars, cfg, link, peers, net>>

\* The rest of startImpl up to its first publish, which is a Publish.
Start(d) ==
  /\ d \notin up
  /\ up' = up \cup {d}
  /\ peers' = [peers EXCEPT ![d] = ActivePeers(d)]
  /\ gossiped' = [gossiped EXCEPT ![d] = ActivePeers(d)]
  /\ UNCHANGED <<scene, storeVars, cfg, mesh, link, net>>

\* reconcile on the network of the config: the peers are read again and, if
\* one of them is new, everybody gets a snapshot and those who are not active
\* are forgotten.
Reconcile(d) ==
  LET now == ActivePeers(d) IN
  /\ d \in up \cap cached
  /\ cfg[d] = mesh[d]
  /\ peers[d] # now
  /\ peers' = [peers EXCEPT ![d] = now]
  /\ IF now \subseteq gossiped[d] THEN UNCHANGED <<gossiped, net>>
     ELSE /\ gossiped' = [gossiped EXCEPT ![d] = now]
          /\ SendAll(d, Snapshot(d))
  /\ UNCHANGED <<scene, storeVars, cfg, mesh, up, link>>

\* Mutant of Publish: peers that were sent a snapshot once get no other.
PublishToNew(d) ==
  /\ d \in up \cap cached
  /\ ActivePeers(d) \cap gossiped[d] = {}
  /\ SendAll(d, Snapshot(d))
  /\ UNCHANGED <<scene, storeVars, cfg, clientVars, link>>

\* The publish of startImpl and of the 60 s timer.
Publish(d) ==
  /\ d \in up \cap cached
  /\ SendAll(d, Snapshot(d))
  /\ UNCHANGED <<scene, storeVars, cfg, clientVars, link>>

\* The handler is registered per network, so a frame of another network than
\* the client runs on is dropped; the records go to the slot of that network
\* and are saved if they change it.  Without the config the handler waits.
Deliver(d, e) ==
  \E f \in net :
    LET merged == [slot[e] EXCEPT ![mesh[e]] = Merge(@, f.records)]
        heard == e \in up /\ f.network = mesh[e]
    IN
    /\ f.from = d /\ f.to = e
    /\ net' = net \ {f}
    /\ heard => e \in cached
    /\ IF heard /\ merged # slot[e] THEN Save(e, merged, "nothing")
       ELSE UNCHANGED <<slot, cached, writes>>
    /\ UNCHANGED <<scene, file, reading, held, untold, cfg, clientVars, link>>

\* The network between the daemons.  Frames to a peer that goes away are lost.
Connect(d, e) ==
  /\ d # e
  /\ link' = IF {d, e} \in link THEN link \ {{d, e}} ELSE link \cup {{d, e}}
  /\ net' = {f \in net : {f.from, f.to} # {d, e}}
  /\ UNCHANGED <<scene, storeVars, cfg, clientVars>>

----------------------------------------------------------------------------
Person ==
  \/ \E d \in Device, i \in Item, s \in Stamp : Edit(d, i, s)
  \/ \E d \in Device, i \in Item : Remove(d, i)
  \/ \E d \in Device, n \in Network : Switch(d, n)
  \/ \E d \in Device : SwitchProvider(d)

Connection == \E d, e \in Device : Connect(d, e)

Client(d) == Restart(d) \/ Start(d) \/ Reconcile(d)

Store(d) ==
  \/ Land(d) \/ TellLate(d) \/ ProviderSaved(d)
  \/ \E l \in Loader : FinishRead(d, l)

GossipNext ==
  \/ Person
  \/ Connection
  \/ \E d \in Device : Client(d) \/ Publish(d) \/ Store(d) \/ Fail(d)
  \/ \E d \in Device, l \in Loader : StartRead(d, l)
  \/ \E d, e \in Device : Deliver(d, e)

\* Every switch and every change of a peer calls reconcile, a start ends, the
\* timer ticks (and reads a config that was forgotten), I/O and the fetch of a
\* manifest end, and a frame that is not lost arrives.
GossipFairness ==
  /\ \A d \in Device : WF_gossipVars(Client(d)) /\ WF_gossipVars(Publish(d))
  /\ \A d \in Device : WF_gossipVars(Store(d))
  /\ \A d \in Device : WF_gossipVars(\E l \in Loader : StartRead(d, l))
  /\ \A d, e \in Device : WF_gossipVars(Deliver(d, e))

GossipSpec == GossipInit /\ [][GossipNext]_gossipVars /\ GossipFairness

----------------------------------------------------------------------------
(***************************************************************************)
(* Properties.                                                             *)
(***************************************************************************)

\* Connected devices on one network have the same records there.
Agree ==
  \A d, e \in Device :
    ({d, e} \in link /\ cfg[d] = cfg[e]) => ActiveSlot(d) = ActiveSlot(e)

\* When people and connections leave everything as it is from some time on,
\* gossip makes the devices agree for good, whatever was lost, late, deleted,
\* written with a clock that runs behind, or taken back by a config that was
\* saved or read late.  They may agree on too much: a persona that was deleted
\* on one device comes back with the next snapshot of another (the run of
\* DeletedStaysDeleted in MCPersonas).
Converges == <>[][~(Person \/ Connection)]_gossipVars => <>[]Agree

\* "On merge, the highest timestamp wins" (agent-permissions.svelte.ts:15-16):
\* nothing but the person at the device takes a record back to an older
\* version.  The code does: setActiveProvider saves a config that is as old as
\* its request for the manifest.
NeverBackwards ==
  [][\A d \in Device, n \in Network, i \in Item :
       slot'[d][n][i] < slot[d][n][i] =>
         /\ n = cfg[d]
         /\ Remove(d, i) \/ \E s \in Stamp : Edit(d, i, s)]_gossipVars
=============================================================================
