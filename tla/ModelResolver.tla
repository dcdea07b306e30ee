--------------------------- MODULE ModelResolver ---------------------------
(***************************************************************************)
(* Which model and which runtime serve a mode (src-tauri/src/resolver.rs), *)
(* what preload then pulls and what the clean-up of pulled models spares.  *)
(*                                                                         *)
(* A manifest names families, each with a ladder of tiers per mode, and    *)
(* ladders that all families share.  It is read from the provider's url, a *)
(* cache with a time to live or the copy compiled in, together with its    *)
(* imports.  The state is what the urls publish, the cache on disk and the *)
(* clock; what is resolved from it, for a host and a config.json, is a     *)
(* function of the state.                                                  *)
(***************************************************************************)
EXTENDS Integers, Sequences

LOCAL INSTANCE FiniteSetsExt
LOCAL INSTANCE SequencesExt
LOCAL INSTANCE Functions
LOCAL INSTANCE TLC

CONSTANTS
  Absent,      \* a field that a document does not have
  Text, Embed, \* the modes on Ollama
  Speak,       \* a mode that is not
  Ollama,
  Usual,       \* default_runtime_for, by mode
  SafeModel,   \* safe_fallback_for, by runtime
  Root,        \* FALLBACK_MANIFEST_URL, also the url of the shipped provider
  Shipped,     \* the manifest compiled in
  Webs,        \* bound: what can be read from each url, or Absent
  Instants,    \* bound: the times at which something happens, in seconds
  Hosts,       \* bound: [gpu, vram, ram]
  Configs,     \* bound: what config.json says; its provider is Root, or Absent
               \* when the active one is not in its list
  Reserve      \* default_headroom_gb, by gpu

VARIABLES
  web,   \* web[u]: what reading the url u gives, Absent when it fails
  files, \* files[u]: its cache entry, [raw, at], Absent when there is none or
         \* it does not parse
  now

manifestVars == <<web, files, now>>

Modes == {Text, Embed, Speak}
Get(doc, key) == IF doc # Absent /\ key \in DOMAIN doc THEN doc[key] ELSE Absent
Else(value, other) == IF value = Absent THEN other ELSE value

-----------------------------------------------------------------------------
(* The stamp of a cache entry: [year, month, day, second of the day].      *)

\* parse_iso_secs
Seconds(stamp) ==
  LET late == stamp.month <= 2
      month == IF late THEN stamp.month + 12 ELSE stamp.month
      year == IF late THEN stamp.year - 1 ELSE stamp.year
      era == year \div 400
      yoe == year - era * 400
      doy == (153 * (month - 3) + 2) \div 5 + stamp.day - 1
      doe == yoe * 365 + yoe \div 4 - yoe \div 100 + doy
  IN (era * 146097 + doe - 719468) * 86400 + stamp.second

\* chrono_iso_now
Stamp(secs) ==
  LET days == secs \div 86400 + 719468
      era == days \div 146097
      doe == days - era * 146097
      yoe == (doe - doe \div 1460 + doe \div 36524 - doe \div 146096) \div 365
      doy == doe - (365 * yoe + yoe \div 4 - yoe \div 100)
      mp == (5 * doy + 2) \div 153
      month == IF mp < 10 THEN mp + 3 ELSE mp - 9
  IN [year |-> yoe + era * 400 + IF month <= 2 THEN 1 ELSE 0, month |-> month,
      day |-> doy - (153 * mp + 2) \div 5 + 1, second |-> secs % 86400]

-----------------------------------------------------------------------------
(* Reading a manifest.                                                     *)

IsStale(entry) == now - Seconds(entry.at) > Else(entry.raw.ttl, 360) * 60
ShippedIsNewer(raw) == Shipped.version > raw.version

\* fetch_one_manifest: neither a fetch nor a write of the cache that fails is
\* an error.
FetchOne(url, cache, force, writes) ==
  LET entry == cache[url]
      usable == entry # Absent /\ ~ShippedIsNewer(entry.raw)
      Keep(raw) == [raw |-> raw, cache |-> cache]
  IN IF ~force /\ usable /\ ~IsStale(entry) THEN Keep(entry.raw)
     ELSE IF web[url] # Absent
          THEN [raw |-> web[url],
                cache |-> IF writes
                          THEN [cache EXCEPT ![url] = [raw |-> web[url], at |-> Stamp(now)]]
                          ELSE cache]
     ELSE Keep(IF usable THEN entry.raw ELSE Shipped)

Empty == [families |-> <<>>, shared |-> <<>>]

\* walk_manifest: what is read of a url and of what it imports, each url once;
\* the importing file wins.  `raws` is what each url gave.
RECURSIVE Walk(_, _, _, _, _)
Walk(url, cache, force, writes, raws) ==
  IF url \in DOMAIN raws THEN [manifest |-> Empty, cache |-> cache, raws |-> raws]
  ELSE LET read == FetchOne(url, cache, force, writes)
           Import(acc, imp) ==
             LET w == Walk(imp, acc.cache, force, writes, acc.raws) IN
             [families |-> w.manifest.families @@ acc.families,
              shared |-> w.manifest.shared @@ acc.shared,
              cache |-> w.cache, raws |-> w.raws]
           all == FoldLeft(Import, Empty @@ [cache |-> read.cache, raws |-> raws @@ (url :> read.raw)],
                           read.raw.imports)
       IN [manifest |-> [families |-> read.raw.families @@ all.families,
                         shared |-> read.raw.shared @@ all.shared] @@ read.raw,
           cache |-> all.cache, raws |-> all.raws]

Load(force, writes) == Walk(Root, files, force, writes, <<>>)

-----------------------------------------------------------------------------
(* The family, the ladder and the tier.  Families are numbered in the      *)
(* order of their names.                                                   *)

PickFamily(m, requested) ==
  LET named == {f \in {requested, m.first} : f \in DOMAIN m.families} IN
  IF requested \in named THEN requested
  ELSE IF named # {} THEN m.first
  ELSE IF m.families = <<>> THEN Absent ELSE Min(DOMAIN m.families)

Family(m, requested) == Get(m.families, PickFamily(m, requested))
Ladder(m, family, mode) == Else(Get(family.modes, mode), Get(m.shared, mode))

\* tier_runtime
Runtime(tier, ladder, mode) ==
  Else(Get(tier, "runtime"), Else(Get(ladder, "runtime"), Usual[mode]))

IsUnified(host) == host.gpu \in {"apple", "none"}

\* A family's own modes get the share of the memory, in quarters, that the
\* manifest allows: the budget is in quarters of a gigabyte.
FromFamily(m, family, mode) == mode \in DOMAIN family.modes \/ mode \notin DOMAIN m.shared
Share(m, family, mode) ==
  IF FromFamily(m, family, mode) /\ m.share \in 1 .. 4 THEN m.share ELSE 4

Fits(tier, m, host, share) ==
  IF IsUnified(host)
  THEN host.ram * share >=
       4 * Else(Get(tier, "unified"), tier.ram + Else(Get(m.headroom, host.gpu), Reserve[host.gpu]))
  ELSE host.vram * share >= 4 * tier.vram

\* The second pass of a host with a GPU of its own.
FitsCpu(tier, m, host, share) ==
  /\ ~IsUnified(host)
  /\ Max({0, host.ram * share - 4 * Else(Get(m.headroom, host.gpu), Reserve[host.gpu])}) >= 4 * tier.ram

\* The rung that a host gets.
Rung(ladder, m, host, share) ==
  LET First(P(_)) == SelectInSeq(ladder.tiers, P)
      primary == First(LAMBDA t : Fits(t, m, host, share))
      cpu == First(LAMBDA t : FitsCpu(t, m, host, share))
  IN IF primary > 0 THEN primary ELSE IF cpu > 0 THEN cpu ELSE Len(ladder.tiers)

\* resolve_full: [model, runtime]; a mode without a ladder on a runtime other
\* than Ollama has a model of its own, another one the family's main ladder.
ResolveFull(m, host, mode, requested) ==
  LET family == Family(m, requested)
      ladder == Ladder(m, family, mode)
      walked == Else(ladder, Get(family.modes, family.main))
      tier == walked.tiers[Rung(walked, m, host, Share(m, family, mode))]
  IN IF ladder = Absent /\ Usual[mode] # Ollama
     THEN [model |-> SafeModel[Usual[mode]], runtime |-> Usual[mode]]
     ELSE [model |-> tier.model, runtime |-> Runtime(tier, ladder, mode)]

\* mode_runtime_with_hw walks the same tiers by itself.
ModeRuntime(m, mode, requested, host) ==
  LET family == Family(m, requested)
      ladder == Ladder(m, family, mode)
  IN IF ladder = Absent THEN Runtime(Absent, ladder, mode)
     ELSE Runtime(ladder.tiers[Rung(ladder, m, host, Share(m, family, mode))], ladder, mode)

RuntimeForModel(m, mode, requested, model) ==
  LET ladder == Ladder(m, Family(m, requested), mode)
      i == IF ladder = Absent THEN 0 ELSE SelectInSeq(ladder.tiers, LAMBDA t : t.model = model)
  IN IF i = 0 THEN Absent ELSE Runtime(ladder.tiers[i], ladder, mode)

-----------------------------------------------------------------------------
(* Tags are pairs of a name and whether `:latest` is written out.          *)

Canonical(tag) == <<tag[1], FALSE>>
BackmapTag(m, tag) == Else(Get(m.backmap, tag), Else(Get(m.backmap, Canonical(tag)), tag))

\* merge_defaults, of the fields that are read here.  The default list goes in
\* before an empty one is replaced by the active mode.
MergeDefaults(c) ==
  LET tracked == IF c.tracked = Absent THEN <<Text, Embed>>
                 ELSE IF c.tracked = <<>> THEN <<Else(c.mode, Text)>> ELSE c.tracked
  IN [c EXCEPT !.family = Else(@, 1),
               !.tracked = IF Embed \in ToSet(tracked) THEN tracked ELSE Append(tracked, Embed)]

\* What config.json overrides: the family's own choice wins over the flat one.
Chosen(c, mode) == Else(Get(Get(c.familyOverrides, c.family), mode), Get(c.modeOverrides, mode))

\* resolve_with_hardware
Resolve(c, m, host, mode) ==
  BackmapTag(m, Else(Chosen(c, mode), ResolveFull(m, host, mode, c.family).model))

\* preload: what the tracked modes pull.  Without a provider it pulls for all.
Pulled(c, m, host) ==
  {Resolve(c, m, host, mode) : mode \in
     {t \in ToSet(c.tracked) : c.provider = Absent \/ ModeRuntime(m, t, c.family, host) = Ollama}}

\* Mutant of Tags: the ladders that the families share are left out.
TagsOfFamilies(raw) ==
  UNION {LET family == raw.families[f] IN
         UNION {UNION {{t.model, t.fallback} : t \in {u \in ToSet(family.modes[mode].tiers) :
                  Else(Get(u, "runtime"), Else(Get(family.modes[mode], "runtime"), Ollama)) = Ollama}} :
                mode \in DOMAIN family.modes} : f \in DOMAIN raw.families}

\* tags_in_manifest
Tags(raw) ==
  LET ladders == Range(raw.shared) \cup UNION {Range(f.modes) : f \in Range(raw.families)}
      OnOllama(l) == {t \in ToSet(l.tiers) :
                        Else(Get(t, "runtime"), Else(Get(l, "runtime"), Ollama)) = Ollama}
  IN UNION {{t.model, t.fallback} : t \in UNION {OnOllama(l) : l \in ladders}}

\* recompute_status_from_disk: the tags of every file in the cache.
Recommended(cache) ==
  {Canonical(t) : t \in UNION {Tags(e.raw) : e \in Range(cache) \ {Absent}}}

-----------------------------------------------------------------------------
(* The cache over time.                                                    *)

ManifestInit ==
  /\ web \in {w \in Webs : \A u \in DOMAIN w : w[u] = Absent}
  /\ files = [u \in DOMAIN web |-> Absent]
  /\ now = Min(Instants)

\* fetch_or_load_manifest, and refresh_manifest at launch.
ReadManifests(force, writes) == files' = Load(force, writes).cache /\ UNCHANGED <<web, now>>

Publish == web' \in Webs \ {web} /\ UNCHANGED <<files, now>>
Pass == now' \in {t \in Instants : t > now} /\ UNCHANGED <<web, files>>

\* The entry is written in place: one that was cut off does not parse.
Lose(url) == files[url] # Absent /\ files' = [files EXCEPT ![url] = Absent] /\ UNCHANGED <<web, now>>

ManifestNext ==
  \/ \E force, writes \in BOOLEAN : ReadManifests(force, writes)
  \/ Publish
  \/ Pass
  \/ \E url \in DOMAIN files : Lose(url)

-----------------------------------------------------------------------------
(* Properties.                                                             *)

\* The choice in config.json is one that the family's ladder lists: of a custom
\* tag nothing is known.
Known(m, c, mode) ==
  LET ladder == Ladder(m, Family(m, c.family), mode) IN
  \/ Chosen(c, mode) = Absent
  \/ ladder # Absent /\ \E t \in ToSet(ladder.tiers) : t.model = BackmapTag(m, Chosen(c, mode))

PicksAreSpared ==
  \A force, writes \in BOOLEAN :
    LET load == Load(force, writes)
        m == load.manifest
        Cached(u) == load.cache[u] # Absent /\ load.cache[u].raw = load.raws[u]
    IN (\A u \in DOMAIN load.raws : Cached(u))
       => \A host \in Hosts, config \in Configs :
            LET c == MergeDefaults(config) IN
            (c.provider # Absent /\ \A mode \in ToSet(c.tracked) : Known(m, c, mode))
            => {Canonical(t) : t \in Pulled(c, m, host)} \subseteq Recommended(load.cache)

(***************************************************************************)
(* What preload pulls for the tracked modes is never what the clean-up     *)
(* counts as unrecommended, as long as the cache holds every manifest as   *)
(* it was read (the copy compiled in is not in the cache, and a write may  *)
(* fail), a provider is active, and what config.json chooses in place of   *)
(* the model for the hardware is in the family's ladder (tags_in_manifest, *)
(* recompute_status_from_disk).                                            *)
(***************************************************************************)
CleanupSparesPicks == [][UNCHANGED manifestVars \/ PicksAreSpared]_manifestVars

=============================================================================
