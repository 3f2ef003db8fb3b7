---------------------------- MODULE MCMessenger ----------------------------
(* Instances of Messenger for TLC. *)
EXTENDS Messenger, TLC

CONSTANTS C, D, MaxOutgoing
Symmetry == Permutations(Chain)
Limits == [c \in Chain |-> MaxOutgoing]
=============================================================================
