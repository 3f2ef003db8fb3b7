---------------------------- MODULE ReceiptChain ----------------------------
(***************************************************************************)
(* What the block tree of a domain promises, as if a challenge removed all *)
(* that it invalidates at once: a chain of execution receipts on top of    *)
(* the last confirmed one, that grows at the head by one receipt at a      *)
(* time, loses a suffix when one of its receipts is challenged, and whose  *)
(* oldest receipt is confirmed when the chain gets longer than Depth.      *)
(* Nothing above a challenged receipt exists here any more, whereas the    *)
(* pallet keeps it in storage until the head passes its height again.      *)
(***************************************************************************)
EXTENDS Integers

CONSTANTS
    Receipt, Genesis, BlockNumber, Parent,  \* as in BlockTree
    Depth                                   \* length of the challenge period

VARIABLES
    confirmed,  \* the last confirmed receipt
    head,       \* the height of the chain
    chain       \* the receipts in their challenge period, by height

chainVars == <<confirmed, head, chain>>

base == BlockNumber[confirmed]

tip == IF head = base THEN confirmed ELSE chain[head]

Init ==
    /\ confirmed = Genesis
    /\ head = 0
    /\ chain = [n \in 1..0 |-> Genesis]

(* The chain with receipt r on top, from height low on.                    *)
extended(r, low) == [n \in low..(head + 1) |-> IF n = head + 1 THEN r ELSE chain[n]]

Extend(r) ==
    /\ BlockNumber[r] = head + 1
    /\ Parent[r] = tip
    /\ head' = head + 1
    /\ \/ /\ head + 1 <= base + Depth
          /\ chain' = extended(r, base + 1)
          /\ UNCHANGED confirmed
       \/ /\ head = base + Depth
          /\ confirmed' = chain[base + 1]
          /\ chain' = extended(r, base + 2)

(* A challenge of the receipt at height n.                                 *)
Revert(n) ==
    /\ head' = n - 1
    /\ chain' = [m \in (base + 1)..(n - 1) |-> chain[m]]
    /\ UNCHANGED confirmed

Next ==
    \/ \E r \in Receipt : Extend(r)
    \/ \E n \in (base + 1)..head : Revert(n)

Spec == Init /\ [][Next]_chainVars
=============================================================================
