-------------------------- MODULE MCModelResolver --------------------------
\* Manifests that import each other, of several ages, for hosts with and
\* without a GPU of their own.
EXTENDS ModelResolver, TLC

CONSTANTS big, small, old, embed, voice, quick, robot, kokoro, piper, home, shelf
Tag(name) == <<name, FALSE>>
Tier(model, vram, ram) == [model |-> Tag(model), fallback |-> Tag(small), vram |-> vram, ram |-> ram]
With(tier, unified) == tier @@ [unified |-> unified]
On(tier, runtime) == tier @@ [runtime |-> runtime]
Steps(tiers) == [tiers |-> tiers]

Chat == Steps(<<With(Tier(big, 12, 14), 16), With(Tier(small, 0, 0), 8)>>)
Voices3 == Steps(<<On(With(Tier(voice, 4, 8), 16), kokoro), On(With(Tier(quick, 0, 2), 4), piper)>>)
Shared == (Speak :> Voices3) @@ (Embed :> Steps(<<Tier(embed, 0, 2)>>))
Raw(version, families, common, imports, share) ==
  [version |-> version, ttl |-> 60, first |-> 1, share |-> share, headroom |-> ("apple" :> 5),
   backmap |-> (Tag(old) :> Tag(small)), imports |-> imports, families |-> families, shared |-> common]
OneFamily(chat) == [modes |-> (Text :> chat), main |-> Text]

Compiled == Raw(2, (1 :> OneFamily(Chat)), Shared, <<>>, 2)
\* A provider that imports a shelf, which imports it and names a family with a
\* ladder of voices of its own; an older one, without ladders that are shared.
Current == [Raw(2, (1 :> OneFamily(Chat)), Shared, <<shelf>>, 2) EXCEPT !.ttl = 360]
Legacy == Raw(1, (1 :> OneFamily(Steps(<<Tier(big, 12, 14), Tier(old, 0, 0)>>))), <<>>, <<>>, Absent)
Robots == [runtime |-> piper, tiers |-> <<Tier(robot, 0, 0)>>]
Shelf == Raw(2, (2 :> [modes |-> (Text :> Chat) @@ (Speak :> Robots), main |-> Text]), <<>>, <<home>>, 3)

Web(root, imported) == (home :> root) @@ (shelf :> imported)
Published == {Web(Current, Shelf), Web(Current, Absent), Web(Legacy, Shelf), Web(Absent, Absent)}
\* Midnight before a 29 February, and 5, 100 and 400 minutes later.
Times == {1709164800 + 60 * minutes : minutes \in {0, 5, 100, 400}}

Machines == {[gpu |-> "apple", vram |-> r, ram |-> r] : r \in {8, 16, 40}}
            \cup {[gpu |-> "none", vram |-> 0, ram |-> 4]}
            \cup {[gpu |-> "nvidia", vram |-> v, ram |-> 16] : v \in {2, 12, 24}}
ByGpu == [gpu \in {"apple", "none", "nvidia"} |->
            CASE gpu = "apple" -> 5 [] gpu = "none" -> 2 [] gpu = "nvidia" -> 1]
RuntimeOf == [mode \in {Text, Embed, Speak} |-> IF mode = Speak THEN kokoro ELSE Ollama]
Safe == (kokoro :> Tag(voice))
Config(family, own, flat, tracked, mode) ==
  [provider |-> home, family |-> family, familyOverrides |-> own, modeOverrides |-> flat,
   tracked |-> tracked, mode |-> mode]
Files == {Config(1, <<>>, <<>>, Absent, Text), Config(2, <<>>, <<>>, <<>>, Speak),
          Config(3, <<>>, <<>>, <<Text, Speak, Embed>>, Text),
          Config(1, (1 :> (Text :> Tag(old))), (Speak :> Tag(quick)), <<>>, Absent),
          Config(2, (1 :> (Text :> Tag(big))), (Text :> <<old, TRUE>>), <<Text>>, Text)}
=============================================================================
