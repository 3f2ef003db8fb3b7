---------------------------- MODULE MCBlockTree ----------------------------
(***************************************************************************)
(* Instances of BlockTree for TLC.  A receipt is the sequence of what the  *)
(* ERs from block 1 up to it claim: "ok" for what the execution gives,     *)
(* "bad" for a fraud whose proof needs the parent ER (a state transition,  *)
(* a block hash, an invalid bundle), "fees" for one that is proved without *)
(* it (fees, transfers, extrinsics root, a bundle called invalid).         *)
(***************************************************************************)
EXTENDS BlockTree, Sequences

CONSTANT Claim  \* the claims that receipts of the instance make

MCReceipt == UNION {[1..n -> Claim] : n \in Height}
MCGenesis == << >>
MCBlockNumber == [r \in MCReceipt |-> Len(r)]
MCParent == [r \in MCReceipt |-> IF r = << >> THEN r ELSE SubSeq(r, 1, Len(r) - 1)]
MCAncestors == [r \in MCReceipt |-> {SubSeq(r, 1, n) : n \in 0..Len(r)}]
MCFraudulent == {r \in MCReceipt : r # << >> /\ r[Len(r)] # "ok"}
MCNeedsParent == {r \in MCFraudulent : r[Len(r)] = "bad"}
=============================================================================
