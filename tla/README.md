# MyOwnLLM in TLA+

TLA+ models of the parts of MyOwnLLM in which several actors meet: two devices
of a mesh network that move a conversation or a file between them, the threads
of a transcription, the settings that devices gossip, the one chat model that
chats and Talking Points compete for, the processes that update the installed
binary, the apps that share a mesh daemon, the tasks that download models and
start the inference server, the browsers of the remote UI, and the sessions and
commands that edit the registry of speakers. TLC checks each model on a small
instance. TLAPS proves the safety properties that hold, of all of them but the
model resolver, for every instance.

MyOwnLLM is a Tauri application. The Rust backend is in
`src/src-tauri/src`, the Svelte/TypeScript frontend in `src/src`. The mesh
itself (connections, RPC frames, typed channels) is an external process, the
connection engine or daemon, which both halves use through a control socket; it
is modelled from how this code uses it. So is Ollama, the inference server.

## Inventory

The state, the operations, what is hard and what makes each part correct.
`PROJECT.json` lists the same components with their sources, and under
`hazards` the line at which each hard behaviour bites.

| Component | State | Operations | What is hard | Correct when |
|---|---|---|---|---|
| Conversation moves (`mesh-move.ts`, `Chat.svelte`, `Sidebar.svelte`) | a JSON file per device, the open view | push, pull, remote fetch/save, delete | answers lost after the peer acted; views that write while a move runs; crossing moves; errors that `deleteConversation` swallows | the last copy never disappears; saved turns survive a move |
| Conversation store (`conversations.ts`, `session-restore.ts`) | files, folders, drafts | save, delete, rename, prune | writes in place, flushes nobody waits for | a crash leaves the old or the new document |
| File transfer (`mesh-file.ts`) | pending offers, inbound transfers, the sender's `settled` | offer, accept, decline, chunks, assembly, end | decision timer against dialog, two dialogs, chunks on another channel than the RPC frames | the frame that ends the stream is true; nothing is written that was not agreed |
| Live transcription (`transcribe.rs`, `asr/streaming.rs`, `asr/vad.rs`) | session flags, bounded queue, window, speech gate, utterance, recorder | start, callback, hop, pause, stop, abort, feed | lock-free flags read by an audio callback, full queue, failing recogniser, an endpoint while the window spills | the recording is whole; shown captions become segments; stop ends |
| Transcription workers (`transcribe.rs`, `api.rs`) | the maps of sessions, inboxes and captures; buffer directories | start, drain, upload, remote session, capture, decode a file, sweep | check and insert apart, two threads and a bounded channel, a send that holds a map entry, undeletable chunks | what runs can be reached; no audio is skipped or taken twice; workers end |
| Streaming algorithms (`asr/streaming.rs`, `asr/beam.rs`) | agreed prefix, hypotheses | agree, prune | off-by-one at the window edge | committed text is never taken back |
| Speakers (`diarize/`, `transcribe.rs`, `main.rs`) | clusters per session, registry in memory and on disk, clip files, review strip | seed, group, capture, commit, attach, merge, forget, dismiss | change and save apart, crashes, commands during a session, more profiles than clusters | verified means are means of clips; listed clips exist; nobody is asked twice |
| Settings gossip (`mesh-gossip.ts`, `agent-permissions`, `agent-prompts`) | permissions and personas per network, stamps | edit, delete, publish, merge, switch network | lost and overtaken snapshots, clocks, the client lagging behind the config, configs saved or read late | devices converge; nothing goes back; networks stay apart |
| Mesh client (`mesh-daemon.svelte.ts`) | network, peers, handlers, stream subscribers | start, stop, reconcile, call, stream, subscribe | events before the call that caused them resumes; concurrent starts | each stream ends once; handlers follow the network |
| Mesh daemon supervisor (`mesh/daemon.rs`, `daemon_commands.rs`, `main.rs`, `migration.rs`) | child, connection, client id, event stream | probe, spawn, subscribe, pump, reconnect, request, exit | two apps and a GUI daemon on two sockets (Windows: one pipe), exit during bring-up, 30 s timeout against a late answer | an owned daemon dies with its app; the stream comes back; a request is carried out at most once |
| Identity, roster, governance (`mesh/*.rs`) | key files, the engine's state | load, sign | — | not a protocol of this code |
| Configuration (`config.ts`) | one document | load, update | read-modify-write across awaits | no lost update |
| Remote inference and agent loop (`mesh-inference.ts`, `agent-loop.ts`) | one running inference, tool calls | infer, chunk, cancel, failover | cancel before the stream has an id; busy answers | one inference at a time; a cancel stops it |
| Chat slot and talking points (`ui/chat-slot.svelte.ts`) | the slot, the pin, progress in the transcript | start, tick, cycle, pause, stop | ticks that overlap cycles; the pinned peer goes away | one owner; no text skipped |
| Transcription view (`ui/transcribe-state.svelte.ts`, `mesh-transcribe.ts`) | active, draining, stop resolver | start, stop, hand over | the final frame before the start call resumes | the view is active exactly while a session is |
| Self update (`self_update.rs`) | the installed binary, staged versions, `pending.json` | check, stage, apply, restart, sweep | crash between any two file operations, several processes, asset lists in any order, Windows file locks | never half a binary, never a stale rollback, the newest release arrives |
| Model store (`models.rs`, `purge.rs`) | model directories, `.partial` files, pull cancels | pull, fetch, cancel, remove, purge | two tasks on one `.partial`, a cancel between awaits, crash leftovers | a model that looks installed has no gap |
| Speech engine runtime (`ort_setup.rs`, `ort_install.rs`) | setup status and lock, runtime directory, version stamp | fetch, stamp, set up, load | callers that wait for one setup, kills between library and stamp, libraries of an older release, scanners that take it away | what is loaded is whole and of the pinned version; ready stays ready |
| Model resolver (`resolver.rs`, `watcher.rs`, `preload.rs`) | manifest cache | load with imports, pick a tier, recommend | stale cache, imports that import back, overrides of another ladder | model and runtime match; what is picked is not cleaned up |
| Inference server and pulls (`ollama.rs`, `api.rs`, `progress.rs`, `preload.rs`) | child process and its mutex, pull entries, progress rows | ensure running, stop, pull, cancel, chat, preload | launches with and without a wrapper, dropped futures, retries of clients | no child is lost; rows are true; a retry is served |
| Remote UI (`remote_ui.rs`, `main.rs`) | browser sessions, kick, server slot, shared pointer | heartbeat, kick, start, stop, set | two locks one after the other, old answers, binds that take time | off is off; the curtain follows; the pointer is saved |
| Watcher (`watcher.rs`, `model-lifecycle.ts`) | process lock, recommended set | tick, evict | two processes, stale recommendations | one watcher; no model in use is evicted |
| Recognisers, synthesis (`asr/`, `tts/`) | numerics | — | — | not a protocol |
| CLI, other HTTP handlers, UI | requests, presentation | — | — | not modelled beyond the views above |

How they interact: the frontend calls the backend with `invoke` and hears
events; both call the connection engine; a peer's frontend hears RPC frames
and typed-channel frames as events, and answers through the same socket. In
one frontend everything runs on one event loop, so **code between two awaits
is one action** and every await is a place where anything else may happen. In
the backend threads and tasks share atomics, channels and maps behind locks:
**one critical section, or one access to an atomic or a channel, is one
action**. Processes share files: **one file operation is one action**, and a
crash may come between any two.

## Modules

| Module | What it is |
|---|---|
| `ConversationOwnership` | what a move promises: a device lets go only when another holds a copy |
| `ConversationMove` | the RPC protocol of `mesh-move.ts`, the store and the chat views; implements the former |
| `ConversationMoveProofs` | proofs about it: ownership and saved turns |
| `FileTransfer` | one transfer from offer to the end of the stream |
| `FileTransferProofs` | proofs about `FileTransfer` and `TranscribeWorkers` |
| `TranscribeSession` | the inside of one recording: callback or peer's feed, queue, decode loop, recorder, commands |
| `TranscribeSessionProofs` | proofs about `TranscribeSession` and `Speakers` |
| `TranscribeWorkers` | the threads of `transcribe.rs` and the maps they are found in |
| `Speakers` | clustering, the registry of speakers, its commands, files and saves |
| `SettingsGossip` | permissions and personas on several networks, the config they are kept in, and the mesh client that follows it |
| `ChatSlot` | chats, Talking Points and regeneration on one chat slot |
| `ChatSlotProofs` | proofs about it |
| `ControlCall` | what a request over the control socket promises |
| `MeshDaemon` | the daemon, the reconnect loops of several apps, their exits and requests; implements the former |
| `MeshDaemonProofs` | proofs about `MeshDaemon`, its refinement, and `SettingsGossip` |
| `SelfUpdate` | the processes that check, stage, apply and sweep updates |
| `SelfUpdateProofs` | proofs about it |
| `ModelStore` | pulls, fetches, cancels and removals of model files |
| `OnnxRuntime` | how the speech engine's library is fetched, stamped and loaded |
| `ModelStoreProofs` | proofs about `ModelStore` and `OnnxRuntime` |
| `ModelResolver` | manifests, their cache, and which model and runtime serve a mode |
| `ResolvePair` | the two reads with which a caller gets a model and its runtime |
| `OllamaServing` | the inference server and everything that starts it or pulls through it |
| `RemoteUi` | browser sessions, the curtain, the server's switch, the shared pointer |
| `RemoteUiProofs` | proofs about `RemoteUi` and `OllamaServing` |
| `MC...` | an instance for TLC where a configuration file cannot say it: symmetry, scenes, data. `MCPersonas` adds a history of deletions, `MCModelResolver` is the manifests and hosts that `MCModelStore` and `MCResolvePair` have in common |

Four instances hold several components that share no state: `MCModelStore`
(`ModelStore`, `ModelResolver`, `OnnxRuntime`), `MCFileTransfer` (`FileTransfer`,
`TranscribeWorkers`), `MCTranscribeSession` (`TranscribeSession`, `Speakers`) and
`MCRemoteUi` (`RemoteUi`, `OllamaServing`). In each behaviour one of them moves
(`playing`) while the others stay in an initial state, so that the states add up
and do not multiply. Where both have fairness, the one that stays is in a state
where none of its fair actions can happen, so that its fairness holds by
itself and takes no behaviour away from the other; in `MCTranscribeSession` the
fairness of the session is asked for only while it moves.

A type invariant is stated by every module that has a proof: `TypeOK`, or
`EngineTypeOK`, `ServingTypeOK`, `GossipTypeOK`, `WorkersTypeOK` and
`SpeakersTypeOK` where one module of proofs is about two components and their
names must differ. The configurations list only what could be wrong in the code; the
type invariants are proved. Several modules begin with a `cast` (a `scene` in
`OllamaServing`): the set of actors that take part in a behaviour. Each is
explored with all its interleavings, where all actors at once would be too many.
The proofs are about every cast, and so about all actors at once.

### ConversationMove

State: `holders` and `copy` are the files on disk, `view` what each chat view
shows, `call` the caller's side of each operation, `net` the frames under way.
`saved`, `raced` and `discarded` are history. An action is the code from one
await to the next: `Push` reads the conversation and sends `move_take`;
`HandleMoveTake` saves and answers; `PushAnswered` deletes on an `ok` only.
`Pull` fetches, `PullFetched` saves and then asks for the drop, `PullDropped`
ignores the answer but for a warning. `HandleSessionSave` and the edits write
the whole view over the file. A save may throw after it replaced the file (the
sidecars come later), a delete may silently fail, `CallFails` is any way the
call throws with its request possibly still under way, `Lose` loses a request.

### FileTransfer

State: `sender` (the promise chain of `sendFile`), `offer` (the entry in
`inboundOffersPending` and the promise `handleOffer` awaits), `accept[k]` (two
clicks on *Save as...*), `state`/`active` (`inboundActive`), `assembly` (the
continuation of the final chunk), the frames `rpcs` and the chunks `wire`,
unordered and lossy. `disturbed` is history: something happened that the
protocol has no answer to. `SuccessIsTrue` and `WrittenOnlyIfAccepted` hold
regardless of it. The sender's stages are those of the promise `settled`; that
`sendFile` returns before it is settled (`pumped`), so that its caller hears of
no outcome, is listed under Divergences.

### TranscribeSession

State: the atomics `flags`, the queue, the callback's position `cb`, the
recorder, the loop's position `loop`, its window, its speech gate `gate`,
utterance, ids and error count. Audio is numbered buffers; text is known by the
buffers behind it. The callback is three actions (it looks at the flags,
records, queues); the loop is one action per hop outcome: text, nothing, an
error, a quiet hop. `gate` is the endpointer of `asr/vad.rs`, with the neural
detector until that fails and by loudness from then on: whether a hop is loud
is a choice, when silence ends an utterance is counted as in the code. A final
decode keeps the words of its beam or falls back to what was agreed
(`FinalTokens`), and diarization splits it into runs with ids of their own
(`EmitRuns`). `source` chooses between a microphone and the feed of a peer.

### TranscribeWorkers

State: `holder` and `inbox` are the maps of sessions, captures and remote
inboxes, `at[j]` where the thread of a start stands, `flags[j]` its atomics,
`chan[j]` its bounded channel, `hold`, `out` and `source` the audio on its way,
`disk` the chunks in a buffer directory, `feed` and `ending` the callers that
are inside `feed_remote_audio` and `end_remote_audio`, `sweep` the clean-up of
directories nobody owns. The kinds of job are those of the code: live, drain,
upload and the upload a HTTP caller waits for, a peer's session, a capture of
the microphone and of a file for a peer. The look into the map, the entry, the
warm-up, each access to the channel and each removal is a step. `raced` is
history: callers started an id before its last job was over, or swept while a
start was between its look and its entry. A chunk cannot be read, is silent, is
recognised or fails (`Outcomes`); only one that is recognised ends a row of
failures (`Count`). The last chunk of a file may be too short to be decoded.

### Speakers

State: `doc` and `disk` are the registry in memory and on disk, `wavs` the clip
files, `session[s]` the clusters of a session and its best clips, `review`,
`resolved` and `offered` the strip that asks who spoke, `call[c]` a command
between its steps. `Turn` is one diarized turn: assignment to a cluster or a
new one, forced merges at the limit, the capture of a clip. `Commit` folds the
clusters into the registry, ages it and evicts; `Stash` fills the review.
Commands change the document, delete files and save in separate steps, each of
which may fail or be the last before a crash. An embedding is a point of a
line and its distance stands for cosine similarity, so the thresholds of the
code are distances in the same order. `CastsAssumption` says that the registry
found on disk is one that the program saved. `Committed` applies `CommitOne` to
one cluster after the other, `commit_session`'s loop.

### SettingsGossip

State: `slot[d][n][i]` is the stamp of item *i* on network *n* in the config
that *d* has in memory (`cached`: `_cached` is set), `file` what its config.json
says, `writes` and `reading` the writes and reads of it under way, `held` the
config that `setActiveProvider` loaded before it asked for a manifest, `untold`
a broadcast that waits for the config; `cfg` the active network, `mesh` the one the client runs
on, `peers` and `gossiped` the client's snapshot of active peers and
`gossipedOnceTo`. `Restart` and `Start` are the two halves of a switch;
`Publish` is the 60 s timer; `Reconcile` the catch-up for newly active peers;
`Deliver` the merge. With the config in memory `loadConfig` awaits only resolved
promises, so that a merge or an edit runs from its read of the config to the
assignment in `saveConfig` in one turn of the event loop: this is one action,
and `Land` or `Fail` ends the write it started, in any order with other writes.
Without the config (`invalidateConfigCache`, called after a switch of the
provider) everybody waits for a read, and `FinishRead` assigns what a read found
over whatever is in memory by then. `ProviderSaved` saves a config as old as the
request for the manifest. The `scene` chosen at the start says which of the two
settings is looked at, where people switch networks or providers, and the bounds
of writes and clocks. The settings
differ in what a snapshot carries and in whether items can be deleted.
(The snapshot of personas is `getAllPrompts`, of every saved network, although
the comment at `publishPrompts` says the active network's only.)

### ChatSlot

State: `slot` is `chatSlot`; `chat[c]` counts the calls of `doSend` that prepare
and that run; `loop`, `timers`, `inflight` and `ear` are the module variables of
`chat-slot.svelte.ts` (`tpInterval` and the markers, intervals that tick,
`tpInFlightStreamId`, `tpInFlightUnlisten`); `cycle[k]` is where a call of
`maybeRunTpCycle` stands, `stops` counts `stopTalkingPoints` calls that await
their cancel. Each await ends an action: a tick reads the transcript (`Tick`,
`Checked`), a cycle reads it again (`Loaded`), listens, infers, merges. `Finally`
and `StopResumes` drop the listener and the stream of whoever has them by then,
`Claim` and `Regenerate` take the slot from whoever has it. Text is a number of
characters, `Width` per segment, because the code mixes the two counts. Whether
a trigger is due, a pinned peer is away or a read fails is a choice.
`disturbed` is history: two reads or two loops overlapped, which the code does
not exclude and which may skip or repeat text.

### MeshDaemon and ControlCall

State: `daemon[d]` are the processes, `loop[a]` the reconnect loop of an app,
`conn[a]` and `stream[a]` its `MeshDaemon.conn` and the event socket, `main[a]`
its main thread, `call[a]` the request of its frontend, `home` the migrated
files. The loop migrates, probes the GUI daemon's socket and its own, spawns
binary after binary, waits for the socket, subscribes, pumps, and starts over.
Exit sets the flag, takes the child and leaves; on Windows a job object ends
the child of a crashed app too. The daemon is external: it binds its socket, or
loses it to another, ends by itself, answers late or not at all. On Windows both
kinds of daemon compete for one pipe (`Binders`).
`CallsKeepTheirPromise` maps each caller's stage and the daemon's part to
`ControlCall`. One step may end the requests of several callers there, `Fail(C)`
and `Forget(c, C)`: when an app crashes on Windows the daemon goes with it, and
with the daemon every request that any app has under way.

### SelfUpdate

State: `exe` and `old` are the installed binary and the one moved aside,
`part` and `bin` the staged download and binary of each version, `marker` is
`pending.json`, `job[p]` the operation a process is in. A release is a sequence
of assets in the order of the feed; `pick_asset` and `pick_sha_asset` choose
from it as the code does; an asset is an archive, a raw binary that is staged as
it is, or a sidecar, which is refused (`Unpack`). Each file operation is an action: the write of the
`.part`, its rename to the archive, the wipe and `tar`, the two halves of
`fs::write` of the marker, the copy beside the target, the renames, the removal
of the marker. Three things end a process: a person, a restart, a crash. The
history variable `overlap` marks the behaviours in which the code makes no
promise: a version unpacked while a marker names it or another process works
on it, a damaged release without a checksum, a crash inside Windows' side swap.

### ModelStore and ModelResolver

`ModelStore`: `disk` are the `.partial` and final files, by the chunks in them,
`task[t]` a pull, a composite or a background fetch between two awaits,
`cancels` the one waker per model in `PULL_CANCELS`. `shared` is history: the
models that two tasks have worked on at once. A stream may end anywhere: the
code, and so `EndOfFile`, takes what reached `min_bytes`.

`ModelResolver` is mostly functions. Its state is what the provider's urls
publish, the cache and the clock; `Load` reads a manifest with its imports from
the url, the cache or the copy compiled in, `ResolveFull`, `ModeRuntime`,
`RuntimeForModel` and `MergeDefaults` are the functions of `resolver.rs`,
`Pulled` what preload pulls and `Recommended` what the watcher's clean-up
spares. A manifest that cannot be written to the cache is used all the same.
`CleanupSparesPicks` is an action property: it compares, before each step, every
choice for every host and configuration.

`ResolvePair` adds `resolve_pair`: `ResolveModel` resolves the model, from the
fallback manifest when there is no provider; `RuntimeOfTier` reads the manifest
once more, `DefaultRuntime` is taken without a provider. The manifests change in
between. Model and runtime need not match, as a run shows.

### OnnxRuntime

State: `release` is the installed release of the program, which pins a version
of onnxruntime; `dir` the runtime directory with the library, its partial, the
archive and the stamp; `elsewhere` a library in a place that is searched before
or after it; `program[p]` a process with its status and `SETUP_LOCK`,
`thread[t]` where a caller stands; `upset` is history: two processes set up at a
time, or one of an older release did. `Acquire` is `ensure_ready` under the
lock, `Cached` to `Stamped` the steps of `ensure_runtime_dylib`, `LoadFirst` and
`Loaded` `initialize` and the thread it loads in. Others install releases, put a
library in or take it away, and a process may vanish between any two steps.
Left out: a load that finishes after its caller gave up, and the `cancel` of a
setup, which no caller passes.

### OllamaServing

State: `server[s]`, `guard` and `lock` are the children, `OLLAMA_PROCESS` and
its mutex; `caller[c]` a pull, a preload or a chat between two awaits;
`notifier` the maps of cancels; `entry` and `pulling` the API's pull status,
`request[r]` a HTTP client that comes back when it is refused, `loading` and
`row` the background tasks and the progress row. `Tray` is a server that
somebody else started. `abandoned` is history: children whose launcher was
dropped or gave up.

### RemoteUi

State: `session` and `kicked` are the tracker, `refresh[a]` a call of
`refresh_active` between its two locks, `active` the watch channel and
`curtain` what the GUI makes of it; `slot`, `serving[c]` and `command[c]` the
server and the commands that switch it; `pointer`, `file` and `setter[a]` the
open conversation, its file and those who set it. A write of the file may fail
unnoticed (`Persist`); `unsaved` is history: the last write failed.

## Runs

| Run | States | What it shows |
|---|---|---|
| `ConversationMove` | 678 k | when moves do not overlap, no copy and no saved turn disappears, and the protocol implements `ConversationOwnership` |
| `FileTransfer` | 317 k | `FileTransfer`: the frames that end a stream are true; nothing unagreed is written; no chunk is missed; an undisturbed accepted transfer ends. `TranscribeWorkers`: callers that wait for each other reach what runs; drains, uploads and captures skip nothing and take nothing twice; workers end |
| `TranscribeSession` | 1.47 M | `TranscribeSession`: whole recording, drained backlog, captions become segments under ids of their own, nothing written twice, stop ends. `Speakers`: verified means stay the means of their clips, listed clips have files, nobody is asked twice |
| `SettingsGossip` | 523 k | devices agree in the end, whatever was lost, late, deleted, sent on another network, saved back late, forgotten, or written in another order |
| `ChatSlot` | 2.2 M | the slot is never left taken by nobody; the loop's marker passes over condensed text only |
| `MeshDaemon` | 306 k | an owned daemon does not outlive its app, an app gets its event stream again, requests implement `ControlCall` |
| `SelfUpdate` | 138 k | what is installed is whole, old markers roll nothing back, the newest allowed release is installed in the end |
| `ModelStore` | 2.27 M | models that no two tasks share have no torn file under their final names; picks are not cleaned up; the speech engine loads the pinned library and stays ready |
| `RemoteUi` | 337 k | `RemoteUi`: the curtain follows the browsers, off is off, the pointer's file is the pointer unless its write failed. `OllamaServing`: no child is lost but by its launcher, the progress row is true, a client that comes back is served |

All of these hold. Every property has a mutant in `PROJECT.json`, a plausible bug
in one definition, under which TLC finds it violated.

Three runs check what a comment of the code says and the code does not keep. TLC
finds each violated; `findings` in `PROJECT.json` quotes the lines.

| Run | Property | How it fails |
|---|---|---|
| `SettingsBackwards` | `NeverBackwards` | a policy that arrives while `setActiveProvider` waits for a manifest is overwritten by the config it loaded before |
| `SettingsDeleted` | `DeletedStaysDeleted` | a deleted persona comes back with a peer's next snapshot |
| `ResolvePair` | `RuntimeServesModel` | without a provider the model is that of a piper tier and the runtime kokoro |

### Bounds

* `ConversationMove`: two devices, two turns, two operations. A move involves
  two devices and a loss needs at most one move and one edit beside it. The
  proofs remove the bound for ownership.
* `FileTransfer`: three chunks give a first, a middle and a final one, so each
  may be lost or overtake another; two clicks are two dialogs for one offer.
* `TranscribeSession`: six buffers, a queue of two, a hop of two, a window of
  five: the queue fills, the window spills while an utterance is open, three
  hops run, and a remainder below a hop is left. One quiet hop ends an
  utterance. The error limit is two, so one failure and the last failure differ.
* `TranscribeWorkers`: two jobs at a time, alone or under one id; four chunks,
  of which one cannot be deleted, and a gap in those left on disk; a channel of
  two, which fills; two feeds and a sweep that meets the drains at any step.
* `Speakers`: two sessions, a session with a command, two commands; registries
  of two profiles, and of four where a session may have three clusters; one
  clip per profile, so a second evicts; three turns and one crash or failure.
* `SettingsGossip`: two devices, two networks, one item (items merge
  independently), three stamps (an old and two newer records), one frame at a
  time from a device to another (a later one overtakes the earlier), one
  device that switches networks. Stamps of deleted records may be reused once
  nobody holds them, which keeps the model going without a counter. The device
  that switches networks does not switch providers, so that the choice of the
  network is never taken back (`GossipAssumption`); two scenes have the
  former, one per setting, with a write under way at a time; a third has the
  latter, with two writes that overtake each other, a read that spans them, one
  stamp, and permissions only.
* `ChatSlot`: two chats, one of them with a transcript, two runs and two cycles
  at a time, so that runs, ticks and cycles overlap; two segments, so that a
  second slice follows the first. `Width` is one: a segment is as long as a
  character, and the mix-up of the two (see Divergences) does not stop the loop.
  One interval and one stop under way: an interval that is forgotten while a new
  loop starts is not reached.
* `MeshDaemon`: two apps with two own daemons, and the GUI's; two binaries of
  which the second works, so a launch fails first; three events (starts and
  crashes of apps, slow answers, daemons that come and go). One of the apps
  makes requests (`Callers`); the proof that requests implement `ControlCall`
  has no such bound.
* `SelfUpdate`: two processes, three releases of which policy allows one step
  and forbids the other, sidecars listed before the binary, one release without
  a checksum; one event (a crash, a failed request, damage, a person's command)
  beside an unbounded number of starts, ends and ticks.
* `ModelStore`: two pulls and a fetch, two models of which one is in two
  composites, artifacts of two chunks where the first reaches `min_bytes`;
  three events. `ModelResolver`: four states of two urls, four instants around
  a 29 February and the times to live, seven hosts, five configurations.
  `OnnxRuntime`: a process with the window and one request beside its setup, a
  tool, two releases, four launches and changes: a launch and a fetch, an update
  or a quarantine, a kill in the middle and a second launch.
* `OllamaServing`: each pair of two clients, a chat and a preload; three
  children and a foreign server; one or two disturbances per scene.
* `RemoteUi`: two browsers with a kick, a browser with a command, three
  commands on two ports, three setters of two moves.

`CHECK_DEADLOCK FALSE` is in every configuration: transfers, sessions and
operations end and bounds are used up, and then nothing is left to do.

### Fairness

* `FileTransfer`: event loops run and frames that are not lost arrive. People,
  timers and trouble are not fair, so `TransferEnds` does not lean on a person
  deciding. It speaks of undisturbed transfers only: without an answer to a
  lost chunk the code waits for ever.
* `TranscribeSession`: the session thread runs, a callback that began
  finishes, `end_remote_audio` that dropped the inbox sets the flag. Speaking,
  feeding and stopping are not fair.
* `TranscribeWorkers`: threads and decoders run, a blocked feed goes on when
  there is room, a call that ends a feed finishes. `WorkersEnd` names the ways
  in which the code may hang (`Wedged`, an undeletable chunk).
* `SettingsGossip`: a switch or a peer change calls `reconcile`, the timer
  ticks, I/O and the fetch of a manifest end, a forgotten config is read again (the
  timer's publish does), and a frame arrives or its link breaks. `Converges` assumes in its
  premise that people and links come to rest; the model keeps the lost frames
  and late clocks of the time before.
* `MeshDaemon`: the reconnect loop runs and a daemon that starts binds or
  fails. Daemons and apps end whenever they like.
* `SelfUpdate`: a process goes on with what it does and is started again when
  it ended. Strong fairness of `Quit` and `Tick`: people close a program again
  and again, and now and then leave it open for the hours until the watcher's
  turn. Without restarts no update is applied, by design.
* `OllamaServing`: the runtime polls every task, a starting server comes up or
  dies, a refused client comes back.
* `RemoteUi`: the desktop's heartbeat, the bridge that listens and the threads
  that sweep and send. No browser has to come back.

`Speakers`, `ModelStore`, `ConversationMove` and `ChatSlot` state safety only,
and safety properties need no fairness.

## Divergences

Where the code does something other than its comments, docs or the reader
expect. The models do what the code does; each item says how its properties
take it into account.

* Two pushes that cross delete both copies (`mesh-move.ts:148` against the doc
  at 114-116). `MovesOverlap = FALSE` in the run.
* The sender of a file waits 30 s (`mesh/daemon.rs:334`) for a receiver who may
  decide for five minutes (`mesh-file.ts:415`). `FileTransfer` counts the
  sender's timeout as a disturbance.
* `end_remote_audio` cancels at once (`transcribe.rs:1440`) where its comment
  wants the queue drained. Excused in `BacklogReceived` (microphones only).
* A tail shorter than a hop is not decoded on stop (`transcribe.rs:3363`).
* `asr/streaming.rs:9` calls the confirmed prefix the final caption; the final
  beam decode replaces it (`transcribe.rs:3771`).
* `sendFile` does not wait for `settled` (`mesh-file.ts:202` against 197-198)
  and only swallows its rejection, and its caller awaits nothing else
  (`ui/Sidebar.svelte:537`): nobody is told how a transfer ended. The properties
  of `FileTransfer` are about what the promise says, not about who hears it.
* A permission changed during a network switch is broadcast on the old network
  (`agent-permissions.svelte.ts:323` against 11-14): `Tell` does so,
  and the peers keep those records under the other network, where `Converges`
  makes them agree on them. A
  deleted persona comes back (`agent-prompts.svelte.ts:114` against 16-17, and
  against `mesh-protocol.ts:1284`, where the deletion stays on its device): the run
  `SettingsDeleted`; `Converges` holds by that. A config loaded before an await is
  saved after it (`providers.ts:74` against `agent-permissions.svelte.ts:15`): the
  run `SettingsBackwards`. A config that cannot be read, is read half-written, or
  cannot be written back after the read, is reset to the defaults
  (`config.ts:276`), which the model leaves out. A peer that left and came back gets no
  catch-up before the next timer (`mesh-daemon.svelte.ts:1074`).
* The Talking Points tick compares segments with characters
  (`ui/chat-slot.svelte.ts:345`) and finds nothing to do after the first cycle.
* A check stages a newer version again without a look at `pending.json`, and
  extracts over the binary the marker names (`self_update.rs:818`); a process
  that starts meanwhile installs half of it. Excused by `overlap`.
* `acquire_process_lock` reads and writes the lock file in two steps
  (`watcher.rs:240`), and on Windows takes any recorded process for a live one.
* An exit during the bring-up orphans the daemon on Unix (`main.rs:1997`); a
  daemon that goes away between the probe and the subscription ends the
  reconnect loop for good (`main.rs:1931`); a launch that ends between the two
  moves of the migration leaves the rosters behind (`mesh/migration.rs:69`).
* Two tasks on one model share `X.partial` and can make a torn file look
  installed (against `models.rs:13`); a cancel between two awaits of a pull is
  lost. `LonePullsLandUntorn` is about models that no two tasks share. A stream that
  ends past `min_bytes` lands short (`models.rs:1123`), which it allows.
* `resolve` and `resolve_pair` each read the manifest (`resolver.rs:70`) and fall
  back each in its own way (`resolver.rs:92` and 112): the run `ResolvePair`,
  whose counterexample is of the second kind. A custom tag gets the runtime of the hardware's rung. `Known` excuses tags of
  no ladder. Choices made from the compiled-in manifest count as unrecommended,
  since only the cache is asked: `PicksAreSpared` excepts it.
* A failed pull's error row is overwritten by "loading" (`progress.rs:115`,
  `api.rs:957`); a server slower than the probe is abandoned; a cancelled pull
  counts as ready for preload; `?wait=true` goes on after a failed pull.
* The recovery text says to drop the right library into the runtime directory
  and to restart (`transcribe.rs:1996`); `ensure_runtime_dylib` removes it for
  its missing stamp (`ort_install.rs:152`) and fetches again. A failed fetch is
  an error even if another library is there (`ort_setup.rs:190`). Tools load a
  library of any version (`main.rs:1439`), and `fetch-onnxruntime` is content
  with it (`cli.rs:1041`): `EngineIsPinned` is about setups. Two processes share
  the names of archive and partial, which `upset` excuses.
* A failed write of the pointer leaves an old one instead of none
  (`remote_ui.rs:163` against 153), and the next launch opens that conversation.
  `PointerPersisted` excepts it by `unsaved`.
* Starts of the remote UI on different ports that overlap leak a server
  (`remote_ui.rs:344`). `OffMeansOff` is about commands that do not overlap.
* An upload whose loop is left on a cancel or on the error limit joins a decoder
  that may wait for room in the channel for ever (`transcribe.rs:2754` and
  2797), and its session stays listed; `stop` sets a flag that uploads and
  drains never read (`transcribe.rs:1107`); a chunk that cannot be deleted keeps
  a drain counting (`transcribe.rs:2341`); a drain that is cancelled deletes
  the directory with unprocessed chunks in it (`transcribe.rs:2430`).
* A session commits the profiles it was seeded with as if they had been heard,
  so they never age, and a profile forgotten or merged during a session comes
  back at its end; with more seeds than clusters a forced merge leaves a stale
  index (`diarize/cluster.rs:246`); an attach to a profile that is gone reports
  success and leaves its file orphaned (`transcribe.rs:4160`, whose comment
  says that the file is dropped).

## Proofs

Eight modules prove every safety invariant and action property that the runs
check, but for those of `ModelResolver`, and both refinements: for any number of
devices, processes, tasks, chunks and so on, from the named assumptions on the
constants. An assumption says what a constant is (a positive length, a value that is
no member of a set) or what the code sees to (`RegistryAssumption`: no two models
list the same artifact; `CastsAssumption`: the registry found on disk was saved).
Bounds on events stay in the guards but may be any number. Each theorem comes
from an inductive invariant, the type invariant with what is named below.

`ConversationMoveProofs` proves, for every set of devices, turns and
operations, with `NobodyAssumption` and `MovesOverlapAssumption` as the only
assumptions on constants:

* `TypeCorrect`: `TypeOK`, and that only started operations have frames under
  way. No restriction.
* `ConversationNeverLost` and `OwnershipImplemented`: with `~MovesOverlap`,
  which is necessary: two pushes that cross lose the conversation.

`NeverLost` is not inductive: a state in which the only holder has an `ok` of
a push waiting for it satisfies it, and the next step loses the conversation.
`IInv` adds why that state is unreachable. `PushKept`: whoever accepted a push
still holds the conversation until the pusher has heard so. `PullKept`: a
puller holds it while its `move_drop` travels. `OneMove`: at most one
operation is a move that waits or has a request to a disk under way, so nobody
else deletes the copy the first two name. `Matching` ties a request to its
caller's stage. The steps are proved per action from `StepShape`, a lemma that
says how a step may change calls and frames. The refinement follows: a step
that takes a holder away is a person's delete or a release, and by the
invariant a release leaves another holder.

* `TurnsKept`, with `~MovesOverlap` too: a saved turn stays in some copy.
  `TurnsInv` compares what travels with what will be dropped, as long as nobody
  `raced` or `discarded`: what a push sends has all the pusher's turns
  (`PushCovers`), as has the copy of a peer that accepted it (`AcceptedCovers`),
  what a pull fetched (`FetchCovers`) and the puller's copy once the source is
  asked to drop its own (`PullCovers`). `AnsweredKept` is about a save on a peer
  whose answer is under way: its turns are kept before the caller knows.

`FileTransferProofs` proves every safety invariant of `FileTransfer`'s passing
run, for any number of chunks and any set of clicks, with `ChunksAssumption`
and `NoneAssumption` as the only assumptions:

* `SuccessTrue`, about the promise `settled` and not its caller, needs one fact more than the types, `OkAfterWrite`: an `end_ok`
  under way means that the file is on disk. Only `Written` sends one.
* `WrittenAgreed` follows a yes to the disk and back (`YesFirst`): the reply
  under way, the sender's stage, the chunks under way and the assembly each
  imply that the decision is a yes, and a decision is never taken back.
* `FailureTrue` and `NoChunkLost` rest on `IInv`, which says what holds as long
  as nothing `disturbed` the transfer. `Listens`: from the yes to the final
  chunk the receiver listens with its state in place, and its handler is
  subscribed from the dialog on. `Once`: a chunk is under way or recorded, never
  both, so a final chunk that arrives finds an assembly that has not started.
  `Streams`: the sender's stream is announced once, and an assembly that is over
  found it. `FailedUnwritten`: an error frame comes from an assembly that wrote
  nothing. The lemmas `CalmReceiver`, `CalmSender` and `CalmFrames` say what an
  undisturbed step may do; `CalmSubscribed` and `NotTurnedAway` are the two
  places where the order of the code's steps matters.

Its second half is about `TranscribeWorkers`, for any jobs, ids, leftovers, channel,
frame size and file, and any cast:

* `RunningIsReachable`: of two jobs under a key that was never `raced` one is
  over (`Alone`), so what entered the map is what the map holds (`HolderInv`),
  an inbox is its session's (`InboxInv`), and a sweep that is about to empty a
  directory found nobody who owns it (`SweepInv`).
* `AudioKept`: what any worker has put out, has in hand and has in the channel
  is in order and no later than the last that the source handed over (`LineInv`);
  for an upload and a capture these are consecutive numbers (`Ready`, `SentOn`).
  A drain has taken what it found or left it on disk (`DrainInv`). `HandInv` and `ErrsInv` say where the loop stands when
  it reads the chunk in hand and counts errors.

`TranscribeSessionProofs`, for any buffers, queue, hop, window and limits:

* `RecordingWhole` (`MicInv`): what the callback let in is recorded but for
  the buffer in its hands; the recorder is open as long as it may run.
* `BacklogTaken` (`BacklogInv`): a microphone's loop ends by a stop that found
  the queue empty, by a cancel, or because the recogniser gave up.
* `CaptionBecomesFinal` (`CaptionInv`): ids are taken in order and only the open
  utterance has a caption that is no segment yet.
* `WrittenOnce` (`TextInv`): what is written leaves window and utterance. That it
  never enters again is the order of the buffers (`OrderInv`): those put in
  the window are numbered up to a mark, those in the queue and in the callback
  come after it. The same mark bounds the ids, two for a buffer, which the type invariant needs.

Its second half is about `Speakers`, for any sessions, commands, voices,
distances, limits and registries:

* `MeansAnchored` and `ClipsKept` rest on `FilesInv`. Both registries are `Sound`:
  well formed, clips named apart, means those of the clips, and the clips were
  made. The one on disk has to be, since a crash brings it back. A file that a
  command is about to list is there, and no other command adds or deletes it; one
  that it is about to delete is listed no more. `PutSound` says when a profile
  may be put into a sound registry; `CommittedSound` carries it over the clusters
  of a session.
* `AskedOnlyOnce`: until a session is over, all that the strip and its commands
  are about are speakers it has a clip of (`StripInv`). Who is resolved is not in the
  review, nor is who is about to be (`AskedInv`); what `Stash` read is what
  is resolved, unless a command crossed.
* Sums of embeddings and the commit of clusters one after the other are
  recursive functions over data. They are proved total and well typed by the
  least number at which they would not be (`LeastNumber`).

`MeshDaemonProofs`, for any apps, callers, slots and binaries:

* `OwnedDie`: a handle to a child is in the loop during the bring-up, in the
  connection after it, and names a daemon nobody else has a handle to
  (`HandlesOf`); a daemon that an app answers for it has a handle to until it
  leaves (`AnswersOf`). A step may move handles before it kills what they
  name, so both are stated except for a set of daemons about to be killed, and
  `Kill` closes the gap.
* `CallsKept`: every step of `MeshDaemon` is a step or a stutter of `ControlCall`.
  The attempt showed that the abstract specification was too strict: when a
  daemon dies, the requests of all its callers end in one step. `Fail(C)` and
  `Forget(c, C)` of `ControlCall` say so.
* `GossipTypeCorrect`, about `SettingsGossip`: reads, writes and held configs are
  configs, and a device has one frame at most under way to another. What else the
  module states is liveness, or violated.

`SelfUpdateProofs`, for any processes, releases and lists of assets:
`BinaryWhole` follows a binary from the archive to the installed file as long as
there was no `overlap` (`StagedInv`): one process stages a version, and while it
unpacks no other works on that version and no marker names it; what is named,
about to be named or about to be copied is whole or was swept. `NoRollback` needs
that whoever works on a version runs an older one (`NewerInv`).

`ModelStoreProofs`: `ModelsLandUntorn` is about a model that no two tasks ever
shared. Its one task knows its partial file (`Mine`): it holds what was
received, or somebody removed it and nobody made another. A step is described by
what it leaves of files and other tasks and what the task becomes. About
`OnnxRuntime`: `ReadyKept` needs that one caller sets up at a time (`OneSetup`);
`EnginePinned` that a library beside a stamp, or in the hands of a setup past
its fetch, is whole and of that version (`DirVouched`, `ThreadVouched`), as long
as not `upset`.

`RemoteUiProofs`: `SwitchedOff` says what serves is in the slot or about to be
stored, when commands do not overlap (`ServerInv`); `PointerSaved` that somebody
still has a save ahead while file and pointer differ, unless a write failed
(`PointerInv`). About
`OllamaServing`: `ServerKept` from the guard that holds a child being waited
for (`GuardInv`), `RowBacked` from whose notifiers and pulls there are
(`NotifierInv`, `PullingInv`, `PlacesInv`).

`ChatSlotProofs`, for any conversations, runs, cycles, intervals, segments and
width: `SlotBacked` from the intervals of a loop that is set (`TimersInv`) and
whose the slot and the listener can be (`SlotInv`, `EarInv`, `CycleInv`).
`SpeechCondensed` is an action property from `LoopInv`: undisturbed, the loop has
one cycle at most, about its conversation, with a slice from its marker on.

Only model-checked:

* The liveness properties (`TransferEnds`, `StopEnds`, `WorkersEnd`,
  `Converges`, `Reconnects`, `NewestReachesDisk`, `RetriesAreServed`,
  `CurtainFollows`): TLAPS reasons about neither fairness nor `ENABLED` here.
* `CleanupSparesPicks` of `ModelResolver`, and the violated
  `RuntimeServesModel` of `ResolvePair`: the manifests import each other through a RECURSIVE operator.

## Not modelled, and why

* Numerics: recognisers, embeddings, the filter bank, synthesis, the beam.
* Identity, roster and governance: one-shot calls to the external engine,
  which owns the replicated state.
* The CLI, the HTTP handlers without state of their own, window handling,
  presentation, the installers of Ollama and espeak, the choice of
  an input device.
* The watcher's process lock and the eviction clock of models.
* Crashes in the middle of the write of a conversation: `writeTextFile` makes
  no promise that could be checked.
* The reset of a config that cannot be read: it takes the networks away, and with
  them all there is to agree on.
* Content: turns are opaque, folders and titles are left out.

## Plan

What is left, in this order.

1. Proofs: `ModelResolver` with the walk over imports as a function over
   the urls that were not visited, so that TLAPS can reason about it.
2. `TranscribeView`: the frontend's start, final frame and stop, composed with
   `TranscribeWorkers`; then the hand-over to a peer.
3. `MeshClient`: start, stop and reconcile with their awaits, handler
   registration under a changing network; `SettingsGossip` and `FileTransfer`
   on top of its promises.
4. `RemoteInference`: busy answer, cancel, failover.
5. Local agreement and the beam as functions, checked against reference
   definitions over bounded inputs.
