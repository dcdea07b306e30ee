----------------------- MODULE ConversationOwnership -----------------------
(***************************************************************************)
(* What moving a conversation between devices promises: the device that    *)
(* gives a conversation away lets go of its copy only when another device  *)
(* holds one.  Only a person deleting the conversation can make the last   *)
(* copy disappear.  ConversationMove implements this specification.        *)
(***************************************************************************)
CONSTANT Device

VARIABLES
  holders,     \* the devices that have the conversation on disk
  discarded    \* a person has deleted a copy

vars == <<holders, discarded>>

TypeOK ==
  /\ holders \subseteq Device
  /\ discarded \in BOOLEAN

Init ==
  /\ \E d \in Device : holders = {d}
  /\ discarded = FALSE

\* A device writes the conversation: an edit, or the receiving end of a move.
Write(d) ==
  /\ holders' = holders \cup {d}
  /\ UNCHANGED discarded

\* The giving end of a move lets go of its copy.
Release(d) ==
  /\ d \in holders
  /\ discarded \/ holders \ {d} # {}
  /\ holders' = holders \ {d}
  /\ UNCHANGED discarded

\* A person deletes the copy of one device; the file may refuse to go.
Discard(d) ==
  /\ d \in holders
  /\ holders' \in {holders, holders \ {d}}
  /\ discarded' = TRUE

Next == \E d \in Device : Write(d) \/ Release(d) \/ Discard(d)

Spec == Init /\ [][Next]_vars

\* A conversation nobody deleted is on the disk of some device.
NeverLost == discarded \/ holders # {}
=============================================================================
