-------------------------- MODULE MCSettingsGossip --------------------------
\* Instance of SettingsGossip: the scenes that its runs play.
EXTENDS SettingsGossip

CONSTANTS d1, d2

Play(setting, roamers, switchers, writing, stamps) ==
  [kind |-> setting, roaming |-> roamers, switching |-> switchers,
   writes |-> writing, stamps |-> stamps]

\* Gossip of either setting while a person switches networks, with clocks that
\* run behind; gossip while a person switches providers, with configs that are
\* written in another order than they were saved; and the same with a single
\* write and a clock that ticks twice.
Roam == {Play(k, {d1}, {}, 1, 3) : k \in {"permissions", "prompts"}}
Swap == {Play("permissions", {}, {d2}, 2, 1)}
SwapOnce == {Play("permissions", {}, {d2}, 1, 2)}
RoamAndSwap == Roam \cup Swap

\* A person who deletes personas.
Delete == {Play("prompts", {}, {}, 1, 1)}
=============================================================================
