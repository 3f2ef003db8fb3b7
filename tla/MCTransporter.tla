--------------------------- MODULE MCTransporter ---------------------------
(* Instances of Transporter for TLC. *)
EXTENDS Transporter, TLC

CONSTANTS C, D, E, MaxOutgoing, BalanceC, BalanceD, BalanceE
Limits == [c \in Chain |-> MaxOutgoing]
Balances == [c \in Chain |-> CASE c = C -> BalanceC [] c = D -> BalanceD [] c = E -> BalanceE]
OpenedByC == {<<C, D, 0>>}
OpenedBoth == {<<C, D, 0>>, <<D, E, 0>>}
=============================================================================
