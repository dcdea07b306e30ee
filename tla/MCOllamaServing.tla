-------------------------- MODULE MCOllamaServing --------------------------
\* Instance of OllamaServing: any two of two clients, a chat and a preload.
EXTENDS OllamaServing

CONSTANTS r1, r2, k, w

TwoActors == {{r1, r2}, {r1, k}, {k, w}}
\* Two clients meet each other often enough without a second disturbance.
Troubles == [who \in TwoActors |-> IF r2 \in who THEN 1 ELSE 2]
=============================================================================
