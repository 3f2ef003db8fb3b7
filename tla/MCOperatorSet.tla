--------------------------- MODULE MCOperatorSet ---------------------------
(***************************************************************************)
(* Instances of OperatorSet for TLC.  A receipt is the sequence of what    *)
(* the ERs from block 1 up to it claim: "ok" says what the execution gives *)
(* and calls the bundles of Culprit invalid, "blame" calls those of every  *)
(* operator invalid, "bad" is a fraud that calls none invalid.             *)
(***************************************************************************)
EXTENDS OperatorSet, Sequences

CONSTANTS
    Claim,   \* the claims that receipts of the instance make
    Culprit  \* the operators that make invalid bundles

MCReceipt == UNION {[1..n -> Claim] : n \in Height}
MCGenesis == << >>
MCBlockNumber == [r \in MCReceipt |-> Len(r)]
MCParent == [r \in MCReceipt |-> IF r = << >> THEN r ELSE SubSeq(r, 1, Len(r) - 1)]
MCAncestors == [r \in MCReceipt |-> {SubSeq(r, 1, n) : n \in 0..Len(r)}]
MCFraudulent == {r \in MCReceipt : r # << >> /\ r[Len(r)] # "ok"}
MCPaying == {r \in MCReceipt : Len(r) = 1}
MCAccuses == [r \in MCReceipt |-> IF r = << >> \/ r[Len(r)] = "bad" THEN {}
                                  ELSE IF r[Len(r)] = "ok" THEN Culprit ELSE Operator]
=============================================================================
