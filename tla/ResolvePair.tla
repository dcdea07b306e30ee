---------------------------- MODULE ResolvePair ----------------------------
(***************************************************************************)
(* resolve_pair (src-tauri/src/resolver.rs): the model of a mode and the   *)
(* runtime that serves it, for the speech endpoints and commands.          *)
(*                                                                         *)
(* It resolves the model first and then reads config.json and the manifest *)
(* once more for the runtime; between the two reads manifests are          *)
(* published, cached and lost.                                             *)
(***************************************************************************)
EXTENDS ModelResolver

CONSTANT
  Backend  \* the runtime that can load a model

VARIABLE pair   \* the call: none, model when that is known, done

pairVars == <<manifestVars, pair>>

NoPair == [at |-> "none"]

PairInit == ManifestInit /\ pair = NoPair

\* resolve: without a provider the manifest is that of FALLBACK_MANIFEST_URL.
ResolveModel(host, config, mode) ==
  /\ pair = NoPair
  /\ \E writes \in BOOLEAN :
       LET load == Load(FALSE, writes)
           c == MergeDefaults(config)
       IN /\ files' = load.cache
          /\ pair' = [at |-> "model", host |-> host, config |-> c, mode |-> mode,
                      model |-> Resolve(c, load.manifest, host, mode)]
  /\ UNCHANGED <<web, now>>

Answer(runtime) == pair' = [at |-> "done", model |-> pair.model, runtime |-> runtime]

\* The tier of the model gives the runtime, or the rung that the host gets.
RuntimeOfTier ==
  /\ pair.at = "model" /\ pair.config.provider # Absent
  /\ \E writes \in BOOLEAN :
       LET load == Load(FALSE, writes)
           family == pair.config.family
           own == RuntimeForModel(load.manifest, pair.mode, family, pair.model)
       IN /\ files' = load.cache
          /\ Answer(Else(own, ModeRuntime(load.manifest, pair.mode, family, pair.host)))
  /\ UNCHANGED <<web, now>>

\* No provider in config.json, or it does not parse this time:
\* default_runtime_for.
DefaultRuntime ==
  /\ pair.at = "model"
  /\ Answer(Usual[pair.mode])
  /\ UNCHANGED manifestVars

PairNext ==
  \/ ManifestNext /\ UNCHANGED pair
  \/ \E host \in Hosts, config \in Configs, mode \in Modes : ResolveModel(host, config, mode)
  \/ RuntimeOfTier
  \/ DefaultRuntime

PairSpec == PairInit /\ [][PairNext]_pairVars

-----------------------------------------------------------------------------
(* Property                                                                *)

\* The model and the runtime that resolve_pair gives a backend belong together
\* (resolver.rs: a model handed to the wrong backend "would mis-load").  Backend
\* says which runtime can load a model; each tier declares that one.
RuntimeServesModel == pair.at = "done" => pair.runtime = Backend[pair.model]
=============================================================================
