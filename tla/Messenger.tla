------------------------------ MODULE Messenger ------------------------------
(***************************************************************************)
(* pallet-messenger: channels between chains and the cross-domain messages *)
(* (XDM) sent over them.                                                   *)
(*                                                                         *)
(* Every chain runs one copy of the pallet.  A side <<c, d, k>> is what    *)
(* chain c stores under the keys (d, k): its end of channel k with chain   *)
(* d; the peer of a side is the other end of the channel.                  *)
(*                                                                         *)
(* Chains do not talk to each other.  Anyone may carry a message, or a     *)
(* response, that was in the storage of one chain to the other with a      *)
(* storage proof against some block of the past, any number of times and   *)
(* in any order.  The histories sent and answered hold what can be proved; *)
(* a relay action takes an element of them and passes the checks of the    *)
(* receiving chain.  Relayers attach the weight tag the chain recorded for *)
(* the message, so that WeightTagNotMatch does not arise.                  *)
(***************************************************************************)
EXTENDS Integers, Sequences, FiniteSets

CONSTANTS Chain,                \* the chains
          MaxChannels,          \* bound on the channels of two chains
          MaxMessages,          \* bound on the messages of one side of a channel
          MaxOutgoingMessages,  \* [Chain -> Nat], Config::MaxOutgoingMessages
          SrcFee, DstFee,       \* CollectedFee of a message
          NoteOutcome           \* what NoteChainTransfer may answer: a set of Booleans

ASSUME MessengerAssumption ==
    /\ MaxChannels \in Nat /\ MaxMessages \in Nat
    /\ MaxOutgoingMessages \in [Chain -> Nat \ {0}]
    /\ SrcFee \in Nat /\ DstFee \in Nat
    /\ NoteOutcome \subseteq BOOLEAN

VARIABLES nextChannelId,       \* NextChannelId
          channels,            \* Channels
          outbox,              \* keys of Outbox: nonces that await a response
          outboxMessageCount,  \* OutboxMessageCount
          inboxResponses,      \* keys of InboxResponses
          outboxFee, inboxFee, \* keys of OutboxFee and InboxFee
          outboxFeesOnHold, inboxFeesOnHold,
          xdmRewards,          \* fees handed to OnXDMRewards so far
          chainAllowlist,      \* ChainAllowlist
          sent,                \* all messages a side ever had in its Outbox, by nonce
          answered             \* all responses a side ever stored, by nonce

ChannelId == 0 .. MaxChannels - 1
Nonce == 0 .. MaxMessages - 1
Side == {s \in Chain \X Chain \X ChannelId : s[1] # s[2]}
Peer(s) == <<s[2], s[1], s[3]>>

NoChannel == [state |-> "None"]
None == -1

Channel == [state: {"Initiated", "Open", "Closed"},
            nextInbox: 0 .. MaxMessages, nextOutbox: 0 .. MaxMessages,
            latestResponse: Nonce \cup {None},
            max: Nat \ {0},
            reserve: {"NoOwner", "Held", "Released", "Charged"}]

(* The payload of a request, with the parameters of ChannelOpen. *)
Payload == [kind: {"ChannelOpen"}, max: Nat \ {0}]
               \cup [kind: {"ChannelClose", "Endpoint"}]
Message == [payload: Payload, lastDelivered: Nonce \cup {None}]

(* What a message was answered with; "Lost" if relay_message failed after  *)
(* its nonce was used up.                                                  *)
Response == {"Ok", "Err", "Lost"}

feeVars == <<outboxFee, inboxFee, outboxFeesOnHold, inboxFeesOnHold, xdmRewards>>
messengerVars == <<nextChannelId, channels, outbox, outboxMessageCount, inboxResponses,
                   chainAllowlist, sent, answered, feeVars>>

MessengerInit ==
    /\ nextChannelId = [e \in Chain \X Chain |-> 0]
    /\ channels = [s \in Side |-> NoChannel]
    /\ outbox = [s \in Side |-> {}]
    /\ outboxMessageCount = [s \in Side |-> 0]
    /\ inboxResponses = [s \in Side |-> {}]
    /\ outboxFee = [s \in Side |-> {}] /\ inboxFee = [s \in Side |-> {}]
    /\ outboxFeesOnHold = [c \in Chain |-> 0] /\ inboxFeesOnHold = [c \in Chain |-> 0]
    /\ xdmRewards = [c \in Chain |-> 0]
    /\ chainAllowlist = [c \in Chain |-> {}]
    /\ sent = [s \in Side |-> <<>>] /\ answered = [s \in Side |-> <<>>]

-----------------------------------------------------------------------------
(* do_init_channel: the new channel; owned on the chain that initiates it. *)
NewChannel(max, owned) ==
    [state |-> "Initiated", nextInbox |-> 0, nextOutbox |-> 0, latestResponse |-> None,
     max |-> max, reserve |-> IF owned THEN "Held" ELSE "NoOwner"]

(* Mutant of ClosedChannel: the channel is cleared, not closed. *)
clearedChannel(ch) == [ch EXCEPT !.state = NoChannel.state]

(* do_close_channel: an owner that closes before the channel opened loses  *)
(* a part of the reserve.                                                  *)
ClosedChannel(ch) ==
    [ch EXCEPT !.state = "Closed",
               !.reserve = IF @ = "NoOwner" THEN @
                           ELSE IF ch.state = "Open" THEN "Released" ELSE "Charged"]

(* Mutant of NewOutboxMessage: one message too many fits in. *)
overfullOutbox(s, ch, payload) ==
    /\ outboxMessageCount[s] <= ch.max
    /\ ch.nextOutbox < MaxMessages
    /\ channels' = [channels EXCEPT ![s] = [ch EXCEPT !.nextOutbox = @ + 1]]
    /\ outbox' = [outbox EXCEPT ![s] = @ \cup {ch.nextOutbox}]
    /\ outboxMessageCount' = [outboxMessageCount EXCEPT ![s] = @ + 1]
    /\ sent' = [sent EXCEPT ![s] =
                  Append(@, [payload |-> payload, lastDelivered |-> ch.latestResponse])]

(* new_outbox_message on side s, whose channel is ch by now. *)
NewOutboxMessage(s, ch, payload) ==
    /\ outboxMessageCount[s] < ch.max
    /\ ch.nextOutbox < MaxMessages
    /\ channels' = [channels EXCEPT ![s] = [ch EXCEPT !.nextOutbox = @ + 1]]
    /\ outbox' = [outbox EXCEPT ![s] = @ \cup {ch.nextOutbox}]
    /\ outboxMessageCount' = [outboxMessageCount EXCEPT ![s] = @ + 1]
    /\ sent' = [sent EXCEPT ![s] =
                  Append(@, [payload |-> payload, lastDelivered |-> ch.latestResponse])]

(* initiate_channel; the caller can pay the reserve. *)
InitiateChannel(c, d) ==
    LET k == nextChannelId[c, d]
    IN  /\ k < MaxChannels
        /\ c # d
        /\ d \in chainAllowlist[c]
        /\ nextChannelId' = [nextChannelId EXCEPT ![c, d] = k + 1]
        /\ NewOutboxMessage(<<c, d, k>>, NewChannel(MaxOutgoingMessages[c], TRUE),
                            [kind |-> "ChannelOpen", max |-> MaxOutgoingMessages[c]])
        /\ UNCHANGED <<inboxResponses, chainAllowlist, answered, feeVars>>

(* close_channel, by the owner on this chain or by sudo. *)
CloseChannel(s, by) ==
    /\ channels[s].state \notin {"None", "Closed"}
    /\ by = "Owner" => channels[s].reserve # "NoOwner"
    /\ NewOutboxMessage(s, ClosedChannel(channels[s]), [kind |-> "ChannelClose"])
    /\ UNCHANGED <<nextChannelId, inboxResponses, chainAllowlist, answered, feeVars>>

(* get_open_channel_for_chain: the latest open channel with room. *)
UsableChannels(c, d) ==
    {k \in ChannelId : /\ channels[c, d, k].state = "Open"
                       /\ outboxMessageCount[c, d, k] < channels[c, d, k].max}
OpenChannelFor(c, d) == CHOOSE k \in UsableChannels(c, d) :
                            \A j \in UsableChannels(c, d) : j <= k

(* Mutant of StoreOutboxFee: the fee is stored for the nonce after it. *)
feeForNextNonce(s, n) ==
    /\ outboxFeesOnHold' = [outboxFeesOnHold EXCEPT ![s[1]] = @ + SrcFee]
    /\ outboxFee' = [outboxFee EXCEPT ![s] = @ \cup ({n + 1} \cap Nonce)]

(* store_outbox_fee for message n of side s; the fee of the other chain is *)
(* noted as a transfer out.                                                *)
StoreOutboxFee(s, n) ==
    /\ outboxFeesOnHold' = [outboxFeesOnHold EXCEPT ![s[1]] = @ + SrcFee]
    /\ outboxFee' = [outboxFee EXCEPT ![s] = @ \cup {n}]

(* send_message, the caller of which pays both fees.  The whole call fails *)
(* if note_transfer_out does.                                              *)
SendMessage(c, d) ==
    LET s == <<c, d, OpenChannelFor(c, d)>>
    IN  /\ c # d
        /\ d \in chainAllowlist[c]
        /\ UsableChannels(c, d) # {}
        /\ NewOutboxMessage(s, channels[s], [kind |-> "Endpoint"])
        /\ StoreOutboxFee(s, channels[s].nextOutbox)
        /\ UNCHANGED <<nextChannelId, inboxResponses, chainAllowlist, answered,
                       inboxFee, inboxFeesOnHold, xdmRewards>>

-----------------------------------------------------------------------------
(* Mutant of Acceptable: only an open channel takes endpoint messages. *)
endpointIfOpen(ch, payload) ==
    \/ payload.kind = "ChannelOpen" /\ ch = NoChannel
    \/ payload.kind = "ChannelClose" /\ ch.state \in {"Initiated", "Open"}
    \/ payload.kind = "Endpoint" /\ ch.state = "Open"

(* validate_relay_message: which request a channel takes.  A closed channel*)
(* takes endpoint messages, to answer them with an error.                  *)
Acceptable(ch, payload) ==
    \/ payload.kind = "ChannelOpen" /\ ch = NoChannel
    \/ payload.kind = "ChannelClose" /\ ch.state \in {"Initiated", "Open"}
    \/ payload.kind = "Endpoint" /\ ch.state \in {"Open", "Closed"}

(* The message that side s takes next, and the channel that takes it.      *)
NextNonce(s) == IF channels[s] = NoChannel THEN 0 ELSE channels[s].nextInbox
Incoming(s) == sent[Peer(s)][NextNonce(s) + 1]

(* Mutant of Delivered: one response too many. *)
deliveredAndNext(responses, l) == {n \in responses : n <= l + 1 /\ n .. l \subseteq responses}

(* reward_operators_for_inbox_execution: the responses below nonce l,      *)
(* down to the first that is missing.                                      *)
Delivered(responses, l) == {n \in responses : n <= l /\ n .. l \subseteq responses}

(* The channel after do_prepare: initiated by the message if it is new, and*)
(* with the nonce of the message used up.                                  *)
PreparedChannel(s) ==
    [(IF channels[s] = NoChannel THEN NewChannel(Incoming(s).payload.max, FALSE)
                                 ELSE channels[s])
        EXCEPT !.nextInbox = NextNonce(s) + 1]

(* Mutants of PrepareRelayMessage: a channel id must be known; the id of a *)
(* new channel is not used up.                                             *)
prepareKnownId(s) ==
    /\ NextNonce(s) < Len(sent[Peer(s)])
    /\ s[3] < nextChannelId[s[1], s[2]]
    /\ Acceptable(channels[s], Incoming(s).payload)
    /\ UNCHANGED nextChannelId

(* Checks of the extension (validate_relay_message, do_prepare) and        *)
(* pre_dispatch_relay_message: do_init_channel takes the next channel id,  *)
(* and a message for another missing channel fails.                        *)
PrepareRelayMessage(s) ==
    /\ NextNonce(s) < Len(sent[Peer(s)])
    /\ s[3] <= nextChannelId[s[1], s[2]]
    /\ Acceptable(channels[s], Incoming(s).payload)
    /\ channels[s] = NoChannel => s[3] = nextChannelId[s[1], s[2]]
    /\ nextChannelId' = IF channels[s] = NoChannel
                          THEN [nextChannelId EXCEPT ![s[1], s[2]] = @ + 1]
                          ELSE nextChannelId

(* process_incoming_protocol_message_req on the prepared channel ch; the   *)
(* allowlist decides whether a channel opens.                              *)
AllowOpen(s, ch) == s[2] \in chainAllowlist[s[1]] /\ ch.state = "Initiated"


ProtocolRequest(s, ch) ==
    IF Incoming(s).payload.kind = "ChannelClose"
      THEN [channel |-> ClosedChannel(ch), ok |-> TRUE]
      ELSE [channel |-> IF AllowOpen(s, ch) THEN [ch EXCEPT !.state = "Open"] ELSE ch,
            ok |-> AllowOpen(s, ch)]

(* process_incoming_endpoint_message_req: checks before the handler runs.  *)
PreCheck(s) == channels[s].state = "Open" /\ s[2] \in chainAllowlist[s[1]]

(* The rest of process_inbox_messages: store the response, reward and clean*)
(* what the peer has received.                                             *)
StoreResponse(s, ok) ==
    LET n     == NextNonce(s)
        gone  == Delivered(inboxResponses[s] \cup {n}, Incoming(s).lastDelivered)
    IN  /\ inboxResponses' = [inboxResponses EXCEPT ![s] = (@ \cup {n}) \ gone]
        /\ answered' = [answered EXCEPT ![s] = Append(@, IF ok THEN "Ok" ELSE "Err")]
        /\ LET fees == (IF Incoming(s).payload.kind = "Endpoint"
                          THEN inboxFee[s] \cup {n} ELSE inboxFee[s])
               paid == DstFee * Cardinality(fees \cap gone)
               new  == DstFee * Cardinality(fees \ inboxFee[s])
           IN  /\ inboxFee' = [inboxFee EXCEPT ![s] = fees \ gone]
               /\ inboxFeesOnHold' = [inboxFeesOnHold EXCEPT ![s[1]] = @ + new - paid]
               /\ xdmRewards' = [xdmRewards EXCEPT ![s[1]] = @ + paid]
        /\ UNCHANGED <<outboxFee, outboxFeesOnHold>>

(* relay_message of a protocol message. *)
RelayProtocolMessage(s) ==
    /\ PrepareRelayMessage(s)
    /\ Incoming(s).payload.kind # "Endpoint"
    /\ LET r == ProtocolRequest(s, PreparedChannel(s))
       IN  /\ channels' = [channels EXCEPT ![s] = r.channel]
           /\ StoreResponse(s, r.ok)
    /\ UNCHANGED <<outbox, outboxMessageCount, chainAllowlist, sent>>

(* relay_message of an endpoint message; its handler accepts it or not. *)
RelayEndpointMessage(s, accepts) ==
    /\ TRUE \in NoteOutcome
    /\ PrepareRelayMessage(s)
    /\ Incoming(s).payload.kind = "Endpoint"
    /\ channels' = [channels EXCEPT ![s] = PreparedChannel(s)]
    /\ StoreResponse(s, PreCheck(s) /\ accepts)
    /\ UNCHANGED <<outbox, outboxMessageCount, chainAllowlist, sent>>

(* relay_message of an endpoint message whose fee store_inbox_fee cannot   *)
(* note as a transfer in: the call fails, its nonce stays used up.         *)
LoseEndpointMessage(s) ==
    /\ FALSE \in NoteOutcome
    /\ PrepareRelayMessage(s)
    /\ Incoming(s).payload.kind = "Endpoint"
    /\ channels' = [channels EXCEPT ![s] = PreparedChannel(s)]
    /\ answered' = [answered EXCEPT ![s] = Append(@, "Lost")]
    /\ UNCHANGED <<outbox, outboxMessageCount, inboxResponses, chainAllowlist, sent, feeVars>>

-----------------------------------------------------------------------------
(* The response that side s takes next: the one after the latest. *)
NextResponse(s) == channels[s].latestResponse + 1

(* Mutant of RespondedChannel: the state of the channel is not checked. *)
reopenedChannel(s) ==
    LET ch == [channels[s] EXCEPT !.latestResponse = NextResponse(s)]
    IN  IF /\ sent[s][NextResponse(s) + 1].payload.kind = "ChannelOpen"
           /\ answered[Peer(s)][NextResponse(s) + 1] = "Ok"
          THEN [ch EXCEPT !.state = "Open"] ELSE ch

(* process_incoming_protocol_message_response; the error of do_open_channel*)
(* for a channel that is closed by now is only reported in an event.       *)
RespondedChannel(s) ==
    LET ch == [channels[s] EXCEPT !.latestResponse = NextResponse(s)]
    IN  IF /\ sent[s][NextResponse(s) + 1].payload.kind = "ChannelOpen"
           /\ answered[Peer(s)][NextResponse(s) + 1] = "Ok"
           /\ ch.state = "Initiated"
          THEN [ch EXCEPT !.state = "Open"] ELSE ch

(* relay_message_response, with the checks of the extension.  The call     *)
(* fails with MissingMessage, after the nonce was noted, if the message is *)
(* not in the Outbox.                                                      *)
RelayMessageResponse(s) ==
    LET n       == NextResponse(s)
        waiting == n \in outbox[s]
        paid    == IF waiting /\ n \in outboxFee[s] THEN SrcFee ELSE 0
    IN  /\ channels[s] # NoChannel
        /\ n < Len(answered[Peer(s)])
        /\ answered[Peer(s)][n + 1] # "Lost"
        /\ channels' = [channels EXCEPT ![s] = IF waiting THEN RespondedChannel(s)
                                               ELSE [@ EXCEPT !.latestResponse = n]]
        /\ outbox' = [outbox EXCEPT ![s] = @ \ {n}]
        /\ outboxMessageCount' = [outboxMessageCount EXCEPT ![s] = IF waiting THEN @ - 1 ELSE @]
        /\ outboxFee' = [outboxFee EXCEPT ![s] = IF waiting THEN @ \ {n} ELSE @]
        /\ outboxFeesOnHold' = [outboxFeesOnHold EXCEPT ![s[1]] = @ - paid]
        /\ xdmRewards' = [xdmRewards EXCEPT ![s[1]] = @ + paid]
        /\ UNCHANGED <<nextChannelId, inboxResponses, chainAllowlist, sent, answered,
                       inboxFee, inboxFeesOnHold>>

(* update_consensus_chain_allowlist, and the inherent                      *)
(* update_domain_allowlist on a domain.                                    *)
UpdateChainAllowlist(c, allow, remove) ==
    /\ allow \cap remove = {} /\ c \notin allow \cup remove
    /\ chainAllowlist' = [chainAllowlist EXCEPT ![c] = (@ \ remove) \cup allow]
    /\ UNCHANGED <<nextChannelId, channels, outbox, outboxMessageCount, inboxResponses,
                   sent, answered, feeVars>>

MessengerNext ==
    \/ \E c, d \in Chain : InitiateChannel(c, d) \/ SendMessage(c, d)
    \/ \E s \in Side :
          \/ \E by \in {"Owner", "Sudo"} : CloseChannel(s, by)
          \/ RelayProtocolMessage(s)
          \/ \E accepts \in BOOLEAN : RelayEndpointMessage(s, accepts)
          \/ LoseEndpointMessage(s)
          \/ RelayMessageResponse(s)
    \/ \E c \in Chain, allow, remove \in SUBSET Chain : UpdateChainAllowlist(c, allow, remove)

MessengerSpec == MessengerInit /\ [][MessengerNext]_messengerVars

(* Relayers keep submitting what a chain still has to process. *)
MessengerFairness ==
    \A s \in Side : /\ WF_messengerVars(RelayProtocolMessage(s))
                    /\ WF_messengerVars(\E accepts \in BOOLEAN : RelayEndpointMessage(s, accepts))
                    /\ WF_messengerVars(RelayMessageResponse(s))
MessengerFairSpec == MessengerSpec /\ MessengerFairness

-----------------------------------------------------------------------------
MessengerTypeOK ==
    /\ nextChannelId \in [Chain \X Chain -> 0 .. MaxChannels]
    /\ channels \in [Side -> Channel \cup {NoChannel}]
    /\ outbox \in [Side -> SUBSET Nonce]
    /\ outboxMessageCount \in [Side -> 0 .. MaxMessages]
    /\ inboxResponses \in [Side -> SUBSET Nonce]
    /\ outboxFee \in [Side -> SUBSET Nonce] /\ inboxFee \in [Side -> SUBSET Nonce]
    /\ outboxFeesOnHold \in [Chain -> Nat] /\ inboxFeesOnHold \in [Chain -> Nat]
    /\ xdmRewards \in [Chain -> Nat]
    /\ chainAllowlist \in [Chain -> SUBSET Chain]
    /\ sent \in [Side -> Seq(Message)]
    /\ answered \in [Side -> Seq(Response)]

(* The Outbox of a channel holds exactly the messages after the latest     *)
(* response, its counter is their number and stays within the limit the    *)
(* channel was opened with: relay_message_response never meets a missing   *)
(* message and OutboxMessageCount never underflows.                        *)
OutboxExact ==
    \A s \in Side : channels[s] # NoChannel =>
        LET ch == channels[s]
        IN  /\ outbox[s] = (ch.latestResponse + 1) .. (ch.nextOutbox - 1)
            /\ outboxMessageCount[s] = Cardinality(outbox[s])
            /\ outboxMessageCount[s] <= ch.max
            /\ ch.nextOutbox = Len(sent[s])

(* A chain stores exactly the responses that the other chain has not       *)
(* acknowledged, and what it acknowledged it has received: the clean-up of *)
(* reward_operators_for_inbox_execution loses no response that is still to *)
(* be relayed, and leaves none behind.                                     *)
Acknowledged(s) ==
    LET stored == {i \in DOMAIN answered[s] : answered[s][i] # "Lost"}
    IN  IF stored = {} THEN None
        ELSE sent[Peer(s)][CHOOSE i \in stored : \A j \in stored : j <= i].lastDelivered
ResponsesExact ==
    \A s \in Side :
        /\ inboxResponses[s] = {n \in Nonce : /\ n > Acknowledged(s)
                                              /\ n < Len(answered[s])
                                              /\ answered[s][n + 1] # "Lost"}
        /\ answered[s] # <<>> => Acknowledged(s) <= channels[Peer(s)].latestResponse



(* Every collected fee is on hold or was paid out, once: the fees on hold  *)
(* are those of the messages that await a response and of the responses    *)
(* that await their acknowledgement, so that BalanceUnderflow never stops a*)
(* relayed message, and the rewards are the fees of all others.            *)
EndpointNonces(s) == {n \in Nonce : n < Len(sent[s]) /\ sent[s][n + 1].payload.kind = "Endpoint"}
Accepted(s) == {n \in EndpointNonces(Peer(s)) : n < Len(answered[s]) /\ answered[s][n + 1] # "Lost"}
Total(c, S(_)) == Cardinality({<<s, n>> \in Side \X Nonce : s[1] = c /\ n \in S(s)})
FeesPaidOnce ==
    /\ \A s \in Side : /\ outboxFee[s] = outbox[s] \cap EndpointNonces(s)
                       /\ inboxFee[s] = inboxResponses[s] \cap EndpointNonces(Peer(s))
    /\ \A c \in Chain :
         /\ outboxFeesOnHold[c] = SrcFee * Total(c, LAMBDA s : outboxFee[s])
         /\ inboxFeesOnHold[c] = DstFee * Total(c, LAMBDA s : inboxFee[s])
         /\ xdmRewards[c] + outboxFeesOnHold[c] + inboxFeesOnHold[c]
               = SrcFee * Total(c, EndpointNonces) + DstFee * Total(c, Accepted)

(* A channel only goes from initiated to open to closed: neither a late    *)
(* response to ChannelOpen nor any other message opens a closed channel.   *)
ChannelNeverReopens ==
    [][\A s \in Side :
         /\ channels[s].state = "Closed" => channels'[s].state = "Closed"
         /\ channels[s].state = "Open" => channels'[s].state \in {"Open", "Closed"}]_channels

(* Every endpoint message gets its response, whatever happens to the       *)
(* channel: one sent to a side that is not open yet waits for it to open,  *)
(* one sent to a closed side is answered with an error.                    *)
EndpointAnswered ==
    \A s \in Side, n \in Nonce :
        (n \in outbox[s] \cap EndpointNonces(s)) ~> (n \notin outbox[s])

(* ChannelOpen is answered, unless both chains initiate the same channel   *)
(* id: then neither accepts the other's request.                           *)
Initiator(s) == channels[s] # NoChannel /\ channels[s].reserve # "NoOwner"
ChannelOpenAnswered ==
    \A s \in Side : (Initiator(s) /\ 0 \in outbox[s]) ~> (0 \notin outbox[s] \/ Initiator(Peer(s)))
=============================================================================
