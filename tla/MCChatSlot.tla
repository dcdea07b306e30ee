----------------------------- MODULE MCChatSlot -----------------------------
(* ChatSlot with interchangeable cycles. *)
EXTENDS ChatSlot, TLC

Symmetry == Permutations(Cycle)
=============================================================================
