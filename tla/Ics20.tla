------------------------------- MODULE Ics20 --------------------------------
(***************************************************************************)
(* The cw20-ics20 contract: it escrows native and cw20 tokens, sends them  *)
(* as ICS20 packets over unordered channels, and pays them out again when  *)
(* the vouchers come back or a packet fails.  The channel balance is       *)
(* raised when a packet is sent and lowered when tokens are paid out, each *)
(* time before the payment itself is known to succeed.                     *)
(*                                                                         *)
(* Sequence numbers are dropped: two packets alike in everything are kept  *)
(* apart by an id.  The remote chain is an ICS20 chain: it mints vouchers  *)
(* for a packet and burns them when they are sent back.  A payment is a    *)
(* submessage: it may fail, and then its own effects are undone.  A        *)
(* handler that returns an error changes nothing and is not an action.     *)
(* total_sent, which nothing reads, the admin and the old formats that     *)
(* migrate converts are left out.                                          *)
(***************************************************************************)
EXTENDS Integers, FiniteSets, Functions

CONSTANTS
    Channels,           \* channels that may be connected
    Natives, Cw20s,     \* local denoms
    Foreign,            \* a denom that is not one of our vouchers
    Amounts,            \* amounts of one packet
    GasLimits,          \* gas limits in allow, instantiate and migrate
    NoLimit,            \* gas_limit is None: unlimited
    NoDefault,          \* default_gas_limit is None
    MaxPackets,         \* bound: packets ever sent, either way
    MaxAllows           \* bound: calls of allow and migrate

ASSUME Ics20Assumption ==
    /\ Amounts \subseteq Nat \ {0} /\ GasLimits \subseteq Nat
    /\ NoLimit \notin Nat /\ NoDefault \notin Nat
    /\ IsFiniteSet(Channels)       \* the IBC module counts them in 64 bits
    /\ Natives \cap Cw20s = {} /\ Foreign \notin Natives \cup Cw20s

VARIABLES
    channel_info,       \* CHANNEL_INFO: connected channels
    outstanding,        \* CHANNEL_STATE
    allow_list,         \* ALLOW_LIST: gas limit of each token on it
    default_gas_limit,  \* CONFIG
    escrow,             \* tokens the contract holds
    packets, returns,   \* packets to and from the remote chains
    vouchers,           \* vouchers in circulation behind each channel
    next_id, allows

state_vars == <<channel_info, outstanding, escrow>>
config_vars == <<allow_list, default_gas_limit, allows>>
wire_vars == <<packets, returns, vouchers, next_id>>
vars == <<state_vars, config_vars, wire_vars>>

Denoms == Natives \cup Cw20s

-----------------------------------------------------------------------------
(***************************************************************************)
(* Gas limits.                                                             *)
(***************************************************************************)
\* check_gas_limit fails for a cw20 that is on no list when there is no default.
GasKnown(denom) ==
    denom \in Natives \/ denom \in DOMAIN allow_list \/ default_gas_limit # NoDefault

\* The limit of the payment of a cw20 for which check_gas_limit does not fail.
check_gas_limit(denom) ==
    IF denom \in DOMAIN allow_list THEN allow_list[denom] ELSE default_gas_limit

AtLeast(limit, old) == limit = NoLimit \/ (old # NoLimit /\ limit >= old)

CountAllow == allows < MaxAllows /\ allows' = allows + 1

execute_allow(token, gas_limit) ==
    /\ CountAllow
    /\ token \in DOMAIN allow_list => AtLeast(gas_limit, allow_list[token])
    /\ allow_list' = [t \in DOMAIN allow_list \cup {token} |->
                         IF t = token THEN gas_limit ELSE allow_list[t]]
    /\ UNCHANGED <<state_vars, default_gas_limit, wire_vars>>

\* Seeded defect: a migration without a limit unsets the default.
migrate_unsets(gas_limit) ==
    /\ CountAllow
    /\ default_gas_limit' = NoDefault
    /\ UNCHANGED <<state_vars, allow_list, wire_vars>>

\* "this doesn't allow unsetting it now"
migrate(gas_limit) ==
    /\ CountAllow
    /\ default_gas_limit' = gas_limit
    /\ UNCHANGED <<state_vars, allow_list, wire_vars>>

-----------------------------------------------------------------------------
(***************************************************************************)
(* Channels and packets out.                                               *)
(***************************************************************************)
ibc_channel_connect(channel) ==
    /\ channel \notin channel_info
    /\ channel_info' = channel_info \cup {channel}
    /\ UNCHANGED <<outstanding, escrow, config_vars, wire_vars>>

increase_channel_balance(channel, denom, amount) ==
    [outstanding EXCEPT ![<<channel, denom>>] = @ + amount]

Reducible(channel, denom, amount) == outstanding[<<channel, denom>>] >= amount
reduce_channel_balance(channel, denom, amount) ==
    [outstanding EXCEPT ![<<channel, denom>>] = @ - amount]

\* Both entry points: Transfer for natives, Receive for cw20s.
execute_transfer(channel, denom, amount) ==
    /\ channel \in channel_info
    /\ GasKnown(denom)
    /\ next_id < MaxPackets
    /\ outstanding' = increase_channel_balance(channel, denom, amount)
    /\ escrow' = [escrow EXCEPT ![denom] = @ + amount]
    /\ packets' = packets \cup {[id |-> next_id, channel |-> channel, denom |-> denom,
                                 amount |-> amount, state |-> "sent"]}
    /\ next_id' = next_id + 1
    /\ UNCHANGED <<channel_info, config_vars, returns, vouchers>>

\* ibc_packet_ack with a result: on_packet_success has nothing to do.
ibc_packet_ack_result(p) ==
    /\ p.state = "ok"
    /\ packets' = packets \ {p}
    /\ UNCHANGED <<state_vars, config_vars, returns, vouchers, next_id>>

\* ibc_packet_ack with an error, and ibc_packet_timeout.  When the refund fails the
\* reply only reports it: the tokens stay here and no channel counts them.
on_packet_failure(p, paid) ==
    /\ p.state \in {"error", "timeout"}
    /\ Reducible(p.channel, p.denom, p.amount)
    /\ GasKnown(p.denom)
    /\ outstanding' = reduce_channel_balance(p.channel, p.denom, p.amount)
    /\ escrow' = IF paid THEN [escrow EXCEPT ![p.denom] = @ - p.amount] ELSE escrow
    /\ packets' = packets \ {p}
    /\ UNCHANGED <<channel_info, config_vars, returns, vouchers, next_id>>

-----------------------------------------------------------------------------
(***************************************************************************)
(* Packets in.                                                             *)
(***************************************************************************)
Answered(q, result) == returns' = (returns \ {q}) \cup {[q EXCEPT !.state = result]}

\* parse_voucher_denom or reduce_channel_balance fails: an error acknowledgement.
ReceiveRefused(q) ==
    /\ q.denom # Foreign => ~Reducible(q.channel, q.denom, q.amount)
    /\ Answered(q, "error")
    /\ UNCHANGED <<outstanding, escrow>>

\* Seeded defect: the vouchers that came back are not taken off the channel balance.
ReceivePaidUncounted(q) ==
    /\ q.denom # Foreign
    /\ Reducible(q.channel, q.denom, q.amount)
    /\ GasKnown(q.denom)
    /\ escrow[q.denom] >= q.amount
    /\ Answered(q, "ok")
    /\ escrow' = [escrow EXCEPT ![q.denom] = @ - q.amount]
    /\ UNCHANGED outstanding

ReceivePaid(q) ==
    /\ q.denom # Foreign
    /\ Reducible(q.channel, q.denom, q.amount)
    /\ GasKnown(q.denom)
    /\ escrow[q.denom] >= q.amount
    /\ Answered(q, "ok")
    /\ outstanding' = reduce_channel_balance(q.channel, q.denom, q.amount)
    /\ escrow' = [escrow EXCEPT ![q.denom] = @ - q.amount]

\* Seeded defect: the reply does not undo the reduction.
ReceiveNotUndone(q) ==
    /\ q.denom # Foreign
    /\ Reducible(q.channel, q.denom, q.amount)
    /\ Answered(q, "error")
    /\ outstanding' = reduce_channel_balance(q.channel, q.denom, q.amount)
    /\ UNCHANGED escrow

\* The payment fails and reply undoes the reduction that REPLY_ARGS remembers.  Had
\* check_gas_limit failed, after the reduction, its error would only have become an
\* acknowledgement, and the reduction would be kept.
ReceiveFails(q) ==
    /\ q.denom # Foreign
    /\ Reducible(q.channel, q.denom, q.amount)
    /\ Answered(q, "error")
    /\ outstanding' = IF GasKnown(q.denom) THEN outstanding
                      ELSE reduce_channel_balance(q.channel, q.denom, q.amount)
    /\ UNCHANGED escrow

ibc_packet_receive(q) ==
    /\ q.state = "sent"
    /\ ReceiveRefused(q) \/ ReceivePaid(q) \/ ReceiveFails(q)
    /\ UNCHANGED <<channel_info, config_vars, packets, vouchers, next_id>>

-----------------------------------------------------------------------------
(***************************************************************************)
(* The remote chains.                                                      *)
(***************************************************************************)
remote_handles(p, result) ==
    /\ p.state = "sent"
    /\ packets' = (packets \ {p}) \cup {[p EXCEPT !.state = result]}
    /\ vouchers' = IF result = "ok"
                   THEN [vouchers EXCEPT ![<<p.channel, p.denom>>] = @ + p.amount]
                   ELSE vouchers
    /\ UNCHANGED <<state_vars, config_vars, returns, next_id>>

remote_sends_back(channel, denom, amount) ==
    /\ channel \in channel_info
    /\ vouchers[<<channel, denom>>] >= amount
    /\ next_id < MaxPackets
    /\ vouchers' = [vouchers EXCEPT ![<<channel, denom>>] = @ - amount]
    /\ returns' = returns \cup {[id |-> next_id, channel |-> channel, denom |-> denom,
                                 amount |-> amount, state |-> "sent"]}
    /\ next_id' = next_id + 1
    /\ UNCHANGED <<state_vars, config_vars, packets>>

remote_sends_foreign(channel, amount) ==
    /\ channel \in channel_info
    /\ next_id < MaxPackets
    /\ returns' = returns \cup {[id |-> next_id, channel |-> channel, denom |-> Foreign,
                                 amount |-> amount, state |-> "sent"]}
    /\ next_id' = next_id + 1
    /\ UNCHANGED <<state_vars, config_vars, packets, vouchers>>

\* An error, or a packet that timed out before it was received, gives the vouchers
\* back.
remote_settles(q) ==
    /\ \/ q.state = "ok" /\ UNCHANGED vouchers
       \/ /\ q.state \in {"error", "sent"}
          /\ vouchers' = IF q.denom = Foreign THEN vouchers
                         ELSE [vouchers EXCEPT ![<<q.channel, q.denom>>] = @ + q.amount]
    /\ returns' = returns \ {q}
    /\ UNCHANGED <<state_vars, config_vars, packets, next_id>>

-----------------------------------------------------------------------------
Init ==
    /\ channel_info = {}
    /\ outstanding = [k \in Channels \X Denoms |-> 0]
    /\ allow_list = <<>>
    /\ default_gas_limit \in GasLimits \cup {NoDefault}
    /\ escrow = [d \in Denoms |-> 0]
    /\ packets = {} /\ returns = {}
    /\ vouchers = [k \in Channels \X Denoms |-> 0]
    /\ next_id = 0 /\ allows = 0

ConfigStep ==
    \/ \E token \in Cw20s, gas_limit \in GasLimits \cup {NoLimit} :
           execute_allow(token, gas_limit)
    \/ \E gas_limit \in GasLimits : migrate(gas_limit)
    \/ \E channel \in Channels : ibc_channel_connect(channel)

TransferStep ==
    \E channel \in Channels, denom \in Denoms, amount \in Amounts :
        execute_transfer(channel, denom, amount)

PacketStep ==
    \/ \E p \in packets : ibc_packet_ack_result(p)
    \/ \E p \in packets, paid \in BOOLEAN : on_packet_failure(p, paid)
    \/ \E q \in returns : ibc_packet_receive(q)

RemoteStep ==
    \/ \E p \in packets, result \in {"ok", "error", "timeout"} : remote_handles(p, result)
    \/ \E channel \in Channels, amount \in Amounts :
           \/ \E denom \in Denoms : remote_sends_back(channel, denom, amount)
           \/ remote_sends_foreign(channel, amount)
    \/ \E q \in returns : remote_settles(q)

Next == ConfigStep \/ TransferStep \/ PacketStep \/ RemoteStep

Spec == Init /\ [][Next]_vars

\* Relayers deliver what they carry.
Fairness ==
    /\ WF_vars(PacketStep)
    /\ WF_vars(\E p \in packets, result \in {"ok", "error", "timeout"} :
                   remote_handles(p, result))

FairSpec == Spec /\ Fairness

-----------------------------------------------------------------------------
Wire == [id : Nat, channel : Channels, denom : Denoms \cup {Foreign}, amount : Amounts,
         state : {"sent", "ok", "error", "timeout"}]

\* Balances, limits and packets keep their types: no balance goes below zero.
TypeOK ==
    /\ channel_info \subseteq Channels
    /\ outstanding \in [Channels \X Denoms -> Nat]
    /\ vouchers \in [Channels \X Denoms -> Nat]
    /\ escrow \in [Denoms -> Nat]
    /\ DOMAIN allow_list \subseteq Cw20s
    /\ \A t \in DOMAIN allow_list : allow_list[t] \in GasLimits \cup {NoLimit}
    /\ default_gas_limit \in GasLimits \cup {NoDefault}
    /\ packets \subseteq Wire /\ returns \subseteq Wire

InFlight(wire, states, channel, denom) ==
    SumFunctionOnSet([p \in wire |-> p.amount],
        {p \in wire : p.channel = channel /\ p.denom = denom /\ p.state \in states})

\* The channel balance is exactly what the remote side can still claim: vouchers,
\* packets that are not settled and vouchers on their way back, through failed
\* payments, error acknowledgements and timeouts.
OutstandingExact ==
    \A channel \in Channels, denom \in Denoms :
        outstanding[<<channel, denom>>] =
            vouchers[<<channel, denom>>]
            + InFlight(packets, {"sent", "error", "timeout"}, channel, denom)
            + InFlight(returns, {"sent", "error"}, channel, denom)

ChannelTotal(denom) ==
    SumFunctionOnSet([channel \in Channels |-> outstanding[<<channel, denom>>]], Channels)

\* The contract holds what all its channels may pay out.
EscrowCovers == \A denom \in Denoms : ChannelTotal(denom) <= escrow[denom]

\* A failed packet can always be refunded: neither the channel balance nor the gas
\* limit makes the acknowledgement fail again and again.
RefundNotBlocked ==
    \A p \in packets : p.state \in {"error", "timeout"} =>
        Reducible(p.channel, p.denom, p.amount) /\ GasKnown(p.denom)

\* "It cannot block or reduce the limit to avoid forcible sticking tokens in the
\* channel": allow never lowers the gas limit that a token which is out is paid with.
LimitNotReduced ==
    [][\A t \in Cw20s :
          (UNCHANGED default_gas_limit /\ \E c \in Channels : outstanding[<<c, t>>] > 0) =>
              AtLeast(check_gas_limit(t)', check_gas_limit(t))]_vars
=============================================================================
