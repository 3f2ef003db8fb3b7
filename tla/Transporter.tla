----------------------------- MODULE Transporter -----------------------------
(***************************************************************************)
(* pallet-transporter on top of pallet-messenger: transfers of the token   *)
(* between the consensus chain and its domains, and the ledger by which the*)
(* consensus chain bounds what a domain can send out.                      *)
(*                                                                         *)
(* A transfer is an endpoint message.  Its amount, and the fee for its     *)
(* execution, are burned on the source and minted on the destination.  The *)
(* consensus chain enters its own part into the ledger at once.  A domain  *)
(* collects its part per block, in ChainTransfers and CollectedBlockFees;  *)
(* the receipt of the block takes it to the ledger when it is confirmed.   *)
(* Only then can the messages and responses of the block be proved to      *)
(* another chain.                                                          *)
(*                                                                         *)
(* Receipts are valid ones: BlockTree shows that no other is confirmed     *)
(* while fraud provers are at work.  The only fees of a domain block are   *)
(* those of its cross-domain messages.  Channels are open at first, and the*)
(* allowlists stay as they are: a transfer that a changed allowlist rejects*)
(* takes the same path as any other that is rejected.                      *)
(***************************************************************************)
EXTENDS Messenger, FiniteSetsExt

CONSTANTS Consensus,      \* the consensus chain; the other chains are domains
          Amount,         \* amounts to transfer
          InitialBalance, \* [Chain -> Nat], what the accounts of a chain hold at first
          Opened,         \* the sides that opened the channels there are at first
          MaxPending      \* bound on the domain blocks that await confirmation

ASSUME TransporterAssumption ==
    /\ Consensus \in Chain /\ Amount \subseteq Nat \ {0}
    /\ InitialBalance \in [Chain -> Nat] /\ MaxPending \in Nat
    /\ Opened \subseteq Side /\ \A s \in Opened : s[3] = 0 /\ Peer(s) \notin Opened

VARIABLES balance,           \* what the accounts of a chain hold
          amounts,           \* the amounts of the messages of a side, 0 for a protocol message
          outgoingTransfers, \* keys of OutgoingTransfers
          ledger,            \* DomainBalances, UnconfirmedTransfers, CancelledTransfers
          chainTransfers,    \* ChainTransfers and the XDM rewards of the current block
          pendingBlocks,     \* the domain blocks that await confirmation
          proved,            \* what of sent and answered can be proved to other chains
          operatorRewards    \* block fees of confirmed blocks, minted for the operators

Domain == Chain \ {Consensus}

transporterVars == <<balance, amounts, outgoingTransfers, ledger, chainTransfers,
                     pendingBlocks, proved, operatorRewards>>
vars == <<messengerVars, transporterVars>>

NoTransfers == LET none == [c \in Chain |-> 0]
               IN  [in |-> none, out |-> none, rejected |-> none, claimed |-> none, fees |-> 0]

(* Channels 0 of Opened are open, after one ChannelOpen and its response.  *)
InitialChannel(s) ==
    LET new(c, owned) == [NewChannel(MaxOutgoingMessages[c], owned) EXCEPT !.state = "Open"]
    IN  IF s \in Opened
          THEN [new(s[1], TRUE) EXCEPT !.nextOutbox = 1, !.latestResponse = 0]
        ELSE IF Peer(s) \in Opened
          THEN [new(s[2], FALSE) EXCEPT !.nextInbox = 1]
        ELSE NoChannel

(* What a block of a chain shows of side s: messages, responses, responses *)
(* received.                                                               *)
Snapshot(s) == [sent |-> Len(sent[s]), answered |-> Len(answered[s]),
                responded |-> IF channels[s] = NoChannel THEN 0 ELSE NextResponse(s)]

TransporterInit ==
    /\ nextChannelId = [e \in Chain \X Chain |->
          IF \E s \in Opened : {e[1], e[2]} = {s[1], s[2]} THEN 1 ELSE 0]
    /\ channels = [s \in Side |-> InitialChannel(s)]
    /\ outbox = [s \in Side |-> {}] /\ outboxMessageCount = [s \in Side |-> 0]
    /\ inboxResponses = [s \in Side |-> IF Peer(s) \in Opened THEN {0} ELSE {}]
    /\ outboxFee = [s \in Side |-> {}] /\ inboxFee = [s \in Side |-> {}]
    /\ outboxFeesOnHold = [c \in Chain |-> 0] /\ inboxFeesOnHold = [c \in Chain |-> 0]
    /\ xdmRewards = [c \in Chain |-> 0]
    /\ chainAllowlist = [c \in Chain |-> Chain \ {c}]
    /\ sent = [s \in Side |-> IF s \in Opened
          THEN << [payload |-> [kind |-> "ChannelOpen", max |-> MaxOutgoingMessages[s[1]]],
                   lastDelivered |-> None] >>
          ELSE <<>>]
    /\ answered = [s \in Side |-> IF Peer(s) \in Opened THEN << "Ok" >> ELSE <<>>]
    /\ balance = InitialBalance
    /\ amounts = [s \in Side |-> IF s \in Opened THEN << 0 >> ELSE <<>>]
    /\ outgoingTransfers = [s \in Side |-> {}]
    /\ ledger = [balances |-> [d \in Domain |-> InitialBalance[d]],
                 unconfirmed |-> [e \in Chain \X Chain |-> 0],
                 cancelled |-> [e \in Chain \X Chain |-> 0]]
    /\ chainTransfers = [d \in Domain |-> NoTransfers]
    /\ pendingBlocks = [d \in Domain |-> <<>>]
    /\ proved = [s \in {s \in Side : s[1] # Consensus} |-> Snapshot(s)]
    /\ operatorRewards = 0

-----------------------------------------------------------------------------
(* The calls of DomainsTransfersTracker.  Each one maps a ledger to the    *)
(* next, or to Failed if a subtraction underflows; Failed stays Failed.    *)
Failed == [failed |-> TRUE]

onBalance(l, c, x) ==
    IF c = Consensus THEN l
    ELSE IF l.balances[c] + x < 0 THEN Failed ELSE [l EXCEPT !.balances[c] = @ + x]

note_transfer(l, from, to, x) ==
    LET b == onBalance(l, from, -x)
    IN  IF l = Failed \/ b = Failed THEN Failed
        ELSE [b EXCEPT !.unconfirmed[from, to] = @ + x]

confirm_transfer(l, from, to, x) ==
    IF l = Failed \/ l.unconfirmed[from, to] < x THEN Failed
    ELSE onBalance([l EXCEPT !.unconfirmed[from, to] = @ - x], to, x)

(* Mutant of claim_rejected_transfer: it can be claimed again. *)
claimKept(l, from, to, x) ==
    IF l = Failed \/ l.cancelled[from, to] < x THEN Failed ELSE onBalance(l, from, x)

claim_rejected_transfer(l, from, to, x) ==
    IF l = Failed \/ l.cancelled[from, to] < x THEN Failed
    ELSE onBalance([l EXCEPT !.cancelled[from, to] = @ - x], from, x)


reject_transfer(l, from, to, x) ==
    IF l = Failed \/ l.unconfirmed[from, to] < x THEN Failed
    ELSE [l EXCEPT !.unconfirmed[from, to] = @ - x, !.cancelled[from, to] = @ + x]

(* Mutant of reduce_domain_balance: the fees stay with the domain. *)
feesKept(l, d, x) == l

reduce_domain_balance(l, d, x) == IF l = Failed THEN Failed ELSE onBalance(l, d, -x)

confirmIn(l, d, t)     == FoldSet(LAMBDA c, acc : confirm_transfer(acc, c, d, t.in[c]), l, Chain)
noteOut(l, d, t)       == FoldSet(LAMBDA c, acc : note_transfer(acc, d, c, t.out[c]), l, Chain)
noteRejected(l, d, t)  == FoldSet(LAMBDA c, acc : reject_transfer(acc, c, d, t.rejected[c]), l, Chain)
claimRejected(l, d, t) == FoldSet(LAMBDA c, acc : claim_rejected_transfer(acc, d, c, t.claimed[c]), l, Chain)

(* update_domain_transfers, for the receipt of a block with transfers t. *)
update_domain_transfers(l, d, t) ==
    reduce_domain_balance(
        claimRejected(noteRejected(noteOut(confirmIn(l, d, t), d, t), d, t), d, t), d, t.fees)

-----------------------------------------------------------------------------
(* Add x to an entry of the transfers of the current block of a domain. *)
Collect(t, field, c, x) == [t EXCEPT ![field][c] = @ + x]

(* Mutant of Affordable: the fee of the other chain is not counted. *)
affordableHere(c, x) == balance[c] >= x + SrcFee

(* The sender can pay the amount and both fees of the message. *)
Affordable(c, x) == balance[c] >= x + SrcFee + DstFee

(* transfer, and the fees of its message: send_message takes both from the *)
(* sender, holds one and notes the other as transferred out.               *)
TransferTo(c, d, x) ==
    LET s == <<c, d, OpenChannelFor(c, d)>>
    IN  /\ SendMessage(c, d)
        /\ Affordable(c, x)
        /\ balance' = [balance EXCEPT ![c] = @ - (x + SrcFee + DstFee)]
        /\ amounts' = [amounts EXCEPT ![s] = Append(@, x)]
        /\ outgoingTransfers' = [outgoingTransfers EXCEPT ![s] = @ \cup {channels[s].nextOutbox}]
        /\ IF c = Consensus
             THEN /\ ledger' = note_transfer(note_transfer(ledger, c, d, DstFee), c, d, x)
                  /\ UNCHANGED chainTransfers
             ELSE /\ chainTransfers' = [chainTransfers EXCEPT ![c] =
                                          Collect(@, "out", d, x + DstFee)]
                  /\ UNCHANGED ledger
        /\ UNCHANGED <<pendingBlocks, proved, operatorRewards>>

(* A side relays only what the other chain has in a provable block. *)
Provable(s) == IF s[1] = Consensus THEN Snapshot(s) ELSE proved[s]

(* Mutant of MessageProvable: a domain relays from unconfirmed blocks too. *)
unconfirmedToo(s) ==
    NextNonce(s) < IF s[1] = Consensus THEN Provable(Peer(s)).sent ELSE Len(sent[Peer(s)])

MessageProvable(s) == NextNonce(s) < Provable(Peer(s)).sent
ResponseProvable(s) == channels[s] # NoChannel /\ NextResponse(s) < Provable(Peer(s)).answered

(* OnXDMRewards: block fees on a domain. *)
NewRewards(c) == xdmRewards'[c] - xdmRewards[c]

(* relay_message of a transfer: store_inbox_fee, the handler of the        *)
(* transporter, and the rewards for responses the message acknowledges.    *)
(* ReceivedTransfer is what the handler does with the amount x.            *)
ReceivedTransfer(l, from, to, x, ok) ==
    IF ok THEN confirm_transfer(l, from, to, x) ELSE reject_transfer(l, from, to, x)

RelayTransfer(s, accepts) ==
    LET c  == s[1]
        d  == s[2]
        x  == amounts[Peer(s)][NextNonce(s) + 1]
        ok == PreCheck(s) /\ accepts
    IN  /\ MessageProvable(s)
        /\ RelayEndpointMessage(s, accepts)
        /\ balance' = [balance EXCEPT ![c] = IF ok THEN @ + x ELSE @]
        /\ IF c = Consensus
             THEN /\ ledger' = ReceivedTransfer(confirm_transfer(ledger, d, c, DstFee), d, c, x, ok)
                  /\ UNCHANGED chainTransfers
             ELSE /\ chainTransfers' = [chainTransfers EXCEPT ![c] =
                        [Collect(Collect(@, "in", d, DstFee), IF ok THEN "in" ELSE "rejected", d, x)
                            EXCEPT !.fees = @ + NewRewards(c)]]
                  /\ UNCHANGED ledger
        /\ UNCHANGED <<amounts, outgoingTransfers, pendingBlocks, proved, operatorRewards>>


(* message_response takes the transfer out of OutgoingTransfers. *)
TakeTransfer(s, n) == outgoingTransfers' = [outgoingTransfers EXCEPT ![s] = @ \ {n}]

(* relay_message_response: the fee of the message is paid out, a transfer  *)
(* that was rejected is returned to its sender.                            *)
RelayTransferResponse(s) ==
    LET c  == s[1]
        d  == s[2]
        n  == NextResponse(s)
        x  == amounts[s][n + 1]
        refund == n \in outgoingTransfers[s] /\ answered[Peer(s)][n + 1] = "Err"
    IN  /\ ResponseProvable(s)
        /\ RelayMessageResponse(s)
        /\ TakeTransfer(s, n)
        /\ balance' = [balance EXCEPT ![c] = IF refund THEN @ + x ELSE @]
        /\ IF c = Consensus
             THEN /\ ledger' = IF refund THEN claim_rejected_transfer(ledger, c, d, x) ELSE ledger
                  /\ UNCHANGED chainTransfers
             ELSE /\ chainTransfers' = [chainTransfers EXCEPT ![c] =
                        [Collect(@, "claimed", d, IF refund THEN x ELSE 0)
                            EXCEPT !.fees = @ + NewRewards(c)]]
                  /\ UNCHANGED ledger
        /\ UNCHANGED <<amounts, pendingBlocks, proved, operatorRewards>>

(* relay_message of a protocol message and close_channel move no tokens but*)
(* the rewards for acknowledged responses.                                 *)
RelayProtocol(s) ==
    /\ MessageProvable(s)
    /\ RelayProtocolMessage(s)
    /\ chainTransfers' = [d \in Domain |->
          IF d = s[1] THEN [chainTransfers[d] EXCEPT !.fees = @ + NewRewards(d)]
                      ELSE chainTransfers[d]]
    /\ UNCHANGED <<balance, amounts, outgoingTransfers, ledger, pendingBlocks, proved,
                   operatorRewards>>

Close(s) ==
    /\ CloseChannel(s, "Sudo")
    /\ amounts' = [amounts EXCEPT ![s] = Append(@, 0)]
    /\ UNCHANGED <<balance, outgoingTransfers, ledger, chainTransfers, pendingBlocks, proved,
                   operatorRewards>>

(* The current block of a domain ends: its receipt holds the transfers and *)
(* fees, which on_initialize of the next block resets.                     *)
EndBlock(d) ==
    /\ Len(pendingBlocks[d]) < MaxPending
    /\ pendingBlocks' = [pendingBlocks EXCEPT ![d] = Append(@,
          [transfers |-> chainTransfers[d],
           proves |-> [s \in {s \in Side : s[1] = d} |-> Snapshot(s)]])]
    /\ chainTransfers' = [chainTransfers EXCEPT ![d] = NoTransfers]
    /\ UNCHANGED <<messengerVars, balance, amounts, outgoingTransfers, ledger, proved,
                   operatorRewards>>

(* The receipt of the oldest pending block is confirmed; a bundle that     *)
(* would confirm it fails if update_domain_transfers does.                 *)
ConfirmBlock(d) ==
    /\ pendingBlocks[d] # <<>>
    /\ LET b == Head(pendingBlocks[d])
           l == update_domain_transfers(ledger, d, b.transfers)
       IN  /\ l # Failed
           /\ ledger' = l
           /\ proved' = [s \in DOMAIN proved |-> IF s[1] = d THEN b.proves[s] ELSE proved[s]]
           /\ operatorRewards' = operatorRewards + b.transfers.fees
    /\ pendingBlocks' = [pendingBlocks EXCEPT ![d] = Tail(@)]
    /\ UNCHANGED <<messengerVars, balance, amounts, outgoingTransfers, chainTransfers>>

TransporterNext ==
    \/ \E c, d \in Chain, x \in Amount : TransferTo(c, d, x)
    \/ \E s \in Side :
          \/ \E accepts \in BOOLEAN : RelayTransfer(s, accepts)
          \/ RelayTransferResponse(s)
          \/ RelayProtocol(s)
          \/ Close(s)
    \/ \E d \in Domain : EndBlock(d) \/ ConfirmBlock(d)

TransporterSpec == TransporterInit /\ [][TransporterNext]_vars

-----------------------------------------------------------------------------
(* The ledger never underflows outside of receipts: all its entries are    *)
(* natural numbers.                                                        *)
TransporterTypeOK ==
    /\ balance \in [Chain -> Nat]
    /\ ledger \in [balances: [Domain -> Nat],
                   unconfirmed: [Chain \X Chain -> Nat], cancelled: [Chain \X Chain -> Nat]]
    /\ \A s \in Side : Len(amounts[s]) = Len(sent[s])
    /\ outgoingTransfers \in [Side -> SUBSET Nonce]
    /\ operatorRewards \in Nat

(* The blocks of a domain that the ledger does not know of yet, and what   *)
(* the transfers of a block add to the tokens of the domain.               *)
Ahead(d) == Append([i \in DOMAIN pendingBlocks[d] |-> pendingBlocks[d][i].transfers],
                   chainTransfers[d])
Net(t) == MapThenSumSet(LAMBDA c : t.in[c] + t.claimed[c] - t.out[c], Chain) - t.fees
OnHold(c) == outboxFeesOnHold[c] + inboxFeesOnHold[c]

(* DomainBalances is what the domain has, as of its last confirmed block:  *)
(* its accounts and the fees on hold.  Every burn and mint on the domain is*)
(* in the transfers or the fees of some block, once.                       *)
DomainBalancesExact ==
    \A d \in Domain :
        ledger.balances[d] + MapThenSumSet(LAMBDA i : Net(Ahead(d)[i]), DOMAIN Ahead(d))
            = balance[d] + OnHold(d)

(* The messages <<s, i>> that satisfy a predicate, and their transfers.    *)
Messages(P(_, _)) == {<<s, i>> \in Side \X (1 .. MaxMessages) :
                          /\ i <= Len(sent[s]) /\ sent[s][i].payload.kind = "Endpoint"
                          /\ P(s, i)}
Value(msgs) == MapThenSumSet(LAMBDA m : amounts[m[1]][m[2]], msgs)


(* No token is lost or made: what the consensus chain has, the balances of *)
(* the domains and the transfers under way add up to what there was.       *)
SupplyConserved ==
    balance[Consensus] + OnHold(Consensus) + xdmRewards[Consensus] + operatorRewards
      + MapThenSumSet(LAMBDA d : ledger.balances[d], Domain)
      + MapThenSumSet(LAMBDA e : ledger.unconfirmed[e] + ledger.cancelled[e], Chain \X Chain)
    = MapThenSumSet(LAMBDA c : InitialBalance[c], Chain)


(* The ledger covers every receipt once refunds are counted: the transfers *)
(* of the oldest pending block can be applied if the claimed refunds come  *)
(* before the outgoing transfers.                                          *)
CoveredWithRefunds ==
    \A d \in Domain : pendingBlocks[d] # <<>> =>
        LET t == Head(pendingBlocks[d]).transfers
        IN  reduce_domain_balance(
                noteOut(claimRejected(noteRejected(confirmIn(ledger, d, t), d, t), d, t), d, t),
                d, t.fees) # Failed

(* A valid receipt can always be confirmed.  It cannot: update_domain_     *)
(* transfers notes the outgoing transfers before it credits the refunds    *)
(* that pay for them, so that note_transfer finds too low a balance.       *)
ConfirmationSucceeds ==
    \A d \in Domain : pendingBlocks[d] # <<>> =>
        update_domain_transfers(ledger, d, Head(pendingBlocks[d]).transfers) # Failed
=============================================================================
