----------------------------- MODULE Ics20Proofs -----------------------------
(***************************************************************************)
(* Proofs about Ics20 for any channels, denoms, amounts and gas limits.    *)
(***************************************************************************)
EXTENDS Ics20, DataProofs

Keys == Channels \X Denoms

\* The part of the type invariant the proofs need.
BooksTypeOK ==
    /\ channel_info \subseteq Channels
    /\ outstanding \in [Keys -> Nat]
    /\ vouchers \in [Keys -> Nat]
    /\ escrow \in [Denoms -> Nat]
    /\ next_id \in Nat

\* Packets are finitely many, with ids of their own, all below n.
WireOK(wire, n) ==
    /\ wire \subseteq Wire
    /\ IsFiniteSet(wire)
    /\ \A p, q \in wire : p.id = q.id => p = q
    /\ \A p \in wire : p.id < n

PacketsOK ==
    /\ WireOK(packets, next_id) /\ WireOK(returns, next_id)
    /\ \A p \in packets : p.denom \in Denoms
    /\ \A q \in returns : q.state # "timeout"

\* What a channel may pay out is a token whose gas limit is known.
GasKept == \A channel \in Channels, denom \in Denoms :
               outstanding[channel, denom] > 0 => GasKnown(denom)

IInv == BooksTypeOK /\ PacketsOK /\ GasKept /\ OutstandingExact /\ EscrowCovers

-----------------------------------------------------------------------------
\* The amount of p, when it is one of those InFlight counts.
Share(p, states, channel, denom) ==
    IF p.channel = channel /\ p.denom = denom /\ p.state \in states THEN p.amount ELSE 0

\* InFlight is a natural, at least the share of every packet it counts.
LEMMA FlightNat ==
    ASSUME NEW wire, wire \subseteq Wire, IsFiniteSet(wire), NEW states,
           NEW channel, NEW denom
    PROVE  /\ InFlight(wire, states, channel, denom) \in Nat
           /\ \A p \in wire : /\ Share(p, states, channel, denom) \in Nat
                              /\ Share(p, states, channel, denom)
                                     <= InFlight(wire, states, channel, denom)
<1> DEFINE f == [p \in wire |-> p.amount]
           S == {p \in wire : p.channel = channel /\ p.denom = denom /\ p.state \in states}
<1>1. \A p \in wire : p.amount \in Nat
  BY Ics20Assumption DEF Wire
<1>2. (\A p \in S : f[p] \in Nat) /\ S \subseteq wire
  BY <1>1
<1>3. IsFiniteSet(S)
  BY <1>2, FS_Subset
<1>4. InFlight(wire, states, channel, denom) = SumFunctionOnSet(f, S)
  BY DEF InFlight
<1> HIDE DEF f
<1>5. SumFunctionOnSet(f, S) \in Nat
  <2> HIDE DEF S
  <2> QED BY <1>2, <1>3, SumNat
<1>6. ASSUME NEW p \in wire PROVE Share(p, states, channel, denom) \in Nat
  BY <1>1, <1>6 DEF Share
<1>7. ASSUME NEW p \in wire
      PROVE  Share(p, states, channel, denom) <= InFlight(wire, states, channel, denom)
  <2>1. CASE p \in S
    <3>1. f[p] = p.amount /\ p.amount \in Nat
      BY <1>1 DEF f
    <3>2. Share(p, states, channel, denom) = f[p]
      BY <2>1, <3>1 DEF Share
    <3> HIDE DEF S
    <3>3. \A x \in S : f[x] \in Int
      BY <1>2
    <3>4. SumFunctionOnSet(f, S \ {p}) = SumFunctionOnSet(f, S) - f[p]
      BY <1>3, <2>1, <3>3, SumRemove
    <3>5. IsFiniteSet(S \ {p}) /\ \A x \in S \ {p} : f[x] \in Nat
      BY <1>2, <1>3, FS_Subset
    <3>6. SumFunctionOnSet(f, S \ {p}) \in Nat
      BY <3>5, SumNat
    <3> QED BY <1>4, <1>5, <3>1, <3>2, <3>4, <3>6
  <2>2. CASE p \notin S
    <3>1. Share(p, states, channel, denom) = 0
      BY <2>2 DEF Share
    <3> QED BY <1>4, <1>5, <3>1
  <2> QED BY <2>1, <2>2
<1> QED BY <1>4, <1>5, <1>6, <1>7

\* One packet more.
LEMMA FlightAdd ==
    ASSUME NEW wire, wire \subseteq Wire, IsFiniteSet(wire), NEW p \in Wire, p \notin wire,
           NEW states, NEW channel, NEW denom
    PROVE  InFlight(wire \cup {p}, states, channel, denom) =
               InFlight(wire, states, channel, denom) + Share(p, states, channel, denom)
<1> DEFINE w == wire \cup {p}
           f == [q \in wire |-> q.amount]
           g == [q \in w |-> q.amount]
           S == {q \in wire : q.channel = channel /\ q.denom = denom /\ q.state \in states}
           T == {q \in w : q.channel = channel /\ q.denom = denom /\ q.state \in states}
<1>1. \A q \in w : q.amount \in Nat
  BY Ics20Assumption DEF Wire
<1>2. /\ \A q \in S : f[q] = g[q]
      /\ \A q \in S \cup {p} : g[q] \in Int
      /\ p \notin S /\ g[p] = p.amount
      /\ S \subseteq wire
  BY <1>1
<1>3. IsFiniteSet(S)
  BY <1>2, FS_Subset
<1>4. /\ InFlight(wire, states, channel, denom) = SumFunctionOnSet(f, S)
      /\ InFlight(w, states, channel, denom) = SumFunctionOnSet(g, T)
  BY DEF InFlight
<1>5. CASE p.channel = channel /\ p.denom = denom /\ p.state \in states
  <2>1. T = S \cup {p} /\ Share(p, states, channel, denom) = p.amount
    BY <1>5 DEF Share
  <2> HIDE DEF f, g, S, T, w
  <2>2. SumFunctionOnSet(f, S) = SumFunctionOnSet(g, S)
    BY <1>2, <1>3, SumSame
  <2>3. SumFunctionOnSet(g, S \cup {p}) = SumFunctionOnSet(g, S) + g[p]
    BY <1>2, <1>3, SumAdd
  <2>4. InFlight(w, states, channel, denom) =
            InFlight(wire, states, channel, denom) + Share(p, states, channel, denom)
    BY <1>2, <1>4, <2>1, <2>2, <2>3
  <2> QED BY <2>4 DEF w
<1>6. CASE ~(p.channel = channel /\ p.denom = denom /\ p.state \in states)
  <2>1. T = S /\ Share(p, states, channel, denom) = 0
    BY <1>6 DEF Share
  <2>2. InFlight(wire, states, channel, denom) \in Nat
    BY FlightNat
  <2> HIDE DEF f, g, S, T, w
  <2>3. SumFunctionOnSet(f, S) = SumFunctionOnSet(g, S)
    BY <1>2, <1>3, SumSame
  <2>4. InFlight(w, states, channel, denom) =
            InFlight(wire, states, channel, denom) + Share(p, states, channel, denom)
    BY <1>4, <2>1, <2>2, <2>3
  <2> QED BY <2>4 DEF w
<1> QED BY <1>5, <1>6

\* One packet less.
LEMMA FlightRemove ==
    ASSUME NEW wire, wire \subseteq Wire, IsFiniteSet(wire), NEW p \in wire,
           NEW states, NEW channel, NEW denom
    PROVE  InFlight(wire \ {p}, states, channel, denom) =
               InFlight(wire, states, channel, denom) - Share(p, states, channel, denom)
<1> DEFINE w == wire \ {p}
<1>1. w \subseteq Wire /\ p \in Wire /\ p \notin w /\ w \cup {p} = wire
  OBVIOUS
<1>2. IsFiniteSet(w)
  BY FS_Subset
<1> HIDE DEF w
<1>3. InFlight(w \cup {p}, states, channel, denom) =
          InFlight(w, states, channel, denom) + Share(p, states, channel, denom)
  BY <1>1, <1>2, FlightAdd
<1>4. InFlight(w, states, channel, denom) \in Nat
  BY <1>1, <1>2, FlightNat
<1>5. Share(p, states, channel, denom) \in Nat
  BY FlightNat
<1>6. InFlight(wire, states, channel, denom) =
          InFlight(w, states, channel, denom) + Share(p, states, channel, denom)
  BY <1>1, <1>3
<1>7. InFlight(w, states, channel, denom) =
          InFlight(wire, states, channel, denom) - Share(p, states, channel, denom)
  BY <1>4, <1>5, <1>6
<1> QED BY <1>7 DEF w

\* A packet whose state changes.
LEMMA FlightChange ==
    ASSUME NEW wire, NEW n, WireOK(wire, n), NEW p \in wire, NEW q \in Wire, q.id = p.id,
           NEW states, NEW channel, NEW denom
    PROVE  /\ InFlight((wire \ {p}) \cup {q}, states, channel, denom) =
                  InFlight(wire, states, channel, denom)
                  - Share(p, states, channel, denom) + Share(q, states, channel, denom)
           /\ WireOK((wire \ {p}) \cup {q}, n)
<1> DEFINE w == wire \ {p}
<1>1. /\ wire \subseteq Wire /\ IsFiniteSet(wire)
      /\ \A x, y \in wire : x.id = y.id => x = y
      /\ \A x \in wire : x.id < n
  BY DEF WireOK
<1>2. w \subseteq Wire /\ IsFiniteSet(w) /\ q \notin w
  BY <1>1, FS_Subset
<1>3. InFlight(w, states, channel, denom) =
          InFlight(wire, states, channel, denom) - Share(p, states, channel, denom)
  BY <1>1, FlightRemove
<1>4. IsFiniteSet(w \cup {q})
  BY <1>2, FS_AddElement
<1>5. WireOK(w \cup {q}, n)
  BY <1>1, <1>2, <1>4 DEF WireOK
<1> HIDE DEF w
<1>6. InFlight(w \cup {q}, states, channel, denom) =
          InFlight(w, states, channel, denom) + Share(q, states, channel, denom)
  BY <1>2, FlightAdd
<1> QED BY <1>3, <1>5, <1>6 DEF w

-----------------------------------------------------------------------------
\* Which part of a change at one key reaches another.
At(amount, key, channel, denom) == IF key = <<channel, denom>> THEN amount ELSE 0

\* f with x added to one entry.
Changed(f, key, x) == [f EXCEPT ![key] = @ + x]

\* One entry of the channels' books changes.
LEMMA BooksChange ==
    ASSUME NEW f \in [Keys -> Nat], NEW key \in Keys, NEW x \in Int, f[key] + x \in Nat
    PROVE  /\ Changed(f, key, x) \in [Keys -> Nat]
           /\ \A channel \in Channels, denom \in Denoms :
                  /\ <<channel, denom>> \in Keys
                  /\ f[<<channel, denom>>] \in Nat
                  /\ Changed(f, key, x)[<<channel, denom>>] =
                         f[<<channel, denom>>] + At(x, key, channel, denom)
<1>1. Changed(f, key, x) \in [Keys -> Nat]
  BY DEF Changed
<1>2. \A k \in Keys : Changed(f, key, x)[k] = f[k] + (IF key = k THEN x ELSE 0)
  BY DEF Changed
<1>3. \A channel \in Channels, denom \in Denoms : <<channel, denom>> \in Keys
  BY DEF Keys
<1> QED BY <1>1, <1>2, <1>3 DEF At

\* The total of one denom over all channels.
TotalOf(f, denom) ==
    SumFunctionOnSet([channel \in Channels |-> f[<<channel, denom>>]], Channels)

\* It changes by what one channel's entry changes; and it covers each entry.
LEMMA TotalChange ==
    ASSUME NEW f \in [Keys -> Nat], NEW ch \in Channels, NEW de \in Denoms, NEW x \in Int,
           f[<<ch, de>>] + x \in Nat, NEW denom \in Denoms
    PROVE  /\ TotalOf(f, denom) \in Nat
           /\ TotalOf(Changed(f, <<ch, de>>, x), denom) =
                  TotalOf(f, denom) + (IF denom = de THEN x ELSE 0)
           /\ \A c \in Channels : f[<<c, denom>>] <= TotalOf(f, denom)
<1> DEFINE g == Changed(f, <<ch, de>>, x)
           a == [channel \in Channels |-> f[<<channel, denom>>]]
           b == [channel \in Channels |-> g[<<channel, denom>>]]
<1>1. IsFiniteSet(Channels)
  BY Ics20Assumption
<1>2. /\ g \in [Keys -> Nat]
      /\ \A c \in Channels, d \in Denoms :
             /\ f[<<c, d>>] \in Nat
             /\ g[<<c, d>>] = f[<<c, d>>] + At(x, <<ch, de>>, c, d)
  <2>1. <<ch, de>> \in Keys
    BY DEF Keys
  <2> QED BY <2>1, BooksChange
<1> HIDE DEF g
<1>3. \A c \in Channels : <<c, denom>> \in Keys /\ g[<<c, denom>>] \in Nat
  BY <1>2 DEF Keys
<1>4. /\ \A c \in Channels : a[c] \in Int /\ b[c] \in Int /\ a[c] \in Nat
      /\ \A c \in Channels : c # ch => b[c] = a[c]
      /\ b[ch] = a[ch] + (IF denom = de THEN x ELSE 0)
      /\ \A c \in Channels : a[c] = f[<<c, denom>>]
  BY <1>2, <1>3 DEF At
<1>5. TotalOf(f, denom) = SumFunctionOnSet(a, Channels)
      /\ TotalOf(g, denom) = SumFunctionOnSet(b, Channels)
  BY DEF TotalOf
<1> HIDE DEF a, b
<1>6. SumFunctionOnSet(b, Channels) = SumFunctionOnSet(a, Channels) - a[ch] + b[ch]
  BY <1>1, <1>4, SumUpdate
<1>7. SumFunctionOnSet(a, Channels) \in Nat
  BY <1>1, <1>4, SumNat
<1>8. ASSUME NEW c \in Channels PROVE a[c] <= SumFunctionOnSet(a, Channels)
  <2>1. SumFunctionOnSet(a, Channels \ {c}) = SumFunctionOnSet(a, Channels) - a[c]
    BY <1>1, <1>4, SumRemove
  <2>2. IsFiniteSet(Channels \ {c}) /\ \A y \in Channels \ {c} : a[y] \in Nat
    BY <1>1, <1>4, FS_Subset
  <2>3. SumFunctionOnSet(a, Channels \ {c}) \in Nat
    BY <2>2, SumNat
  <2> QED BY <1>4, <1>7, <2>1, <2>3
<1> QED BY <1>4, <1>5, <1>6, <1>7, <1>8 DEF g

-----------------------------------------------------------------------------
\* The share of a packet, by its key.
LEMMA ShareAt ==
    ASSUME NEW p \in Wire, NEW states, NEW channel \in Channels, NEW denom \in Denoms
    PROVE  /\ p.state \in states =>
                  Share(p, states, channel, denom) =
                      At(p.amount, <<p.channel, p.denom>>, channel, denom)
           /\ p.state \notin states \/ p.denom = Foreign =>
                  Share(p, states, channel, denom) = 0
<1>1. denom # Foreign
  BY Ics20Assumption DEF Denoms
<1> QED BY <1>1 DEF Share, At

\* A new packet takes an id nobody has.
LEMMA WireAdd ==
    ASSUME NEW wire, NEW n \in Nat, WireOK(wire, n), NEW q \in Wire, q.id = n
    PROVE  /\ q \notin wire
           /\ WireOK(wire \cup {q}, n + 1)
           /\ WireOK(wire, n + 1)
<1>1. /\ wire \subseteq Wire /\ IsFiniteSet(wire)
      /\ \A x, y \in wire : x.id = y.id => x = y
      /\ \A x \in wire : x.id < n /\ x.id \in Nat
  BY DEF WireOK, Wire
<1>2. q \notin wire
  BY <1>1
<1>3. IsFiniteSet(wire \cup {q})
  BY <1>1, FS_AddElement
<1>4. \A x \in wire \cup {q} : x.id < n + 1
  BY <1>1
<1>5. \A x, y \in wire \cup {q} : x.id = y.id => x = y
  BY <1>1
<1> QED BY <1>1, <1>2, <1>3, <1>4, <1>5 DEF WireOK

\* A packet is settled and gone.
LEMMA WireRemove ==
    ASSUME NEW wire, NEW n, WireOK(wire, n), NEW p
    PROVE  WireOK(wire \ {p}, n)
<1>1. IsFiniteSet(wire \ {p})
  BY FS_Subset DEF WireOK
<1> QED BY <1>1 DEF WireOK

Unsettled == {"sent", "error", "timeout"}
Back == {"sent", "error"}
PacketFlight(channel, denom) == InFlight(packets, Unsettled, channel, denom)
ReturnFlight(channel, denom) == InFlight(returns, Back, channel, denom)

\* OutstandingExact, with the flights named.
LEMMA ExactIs ==
    /\ OutstandingExact <=>
           \A channel \in Channels, denom \in Denoms :
               outstanding[<<channel, denom>>] =
                   vouchers[<<channel, denom>>] + PacketFlight(channel, denom)
                   + ReturnFlight(channel, denom)
    /\ OutstandingExact' <=>
           \A channel \in Channels, denom \in Denoms :
               outstanding'[<<channel, denom>>] =
                   vouchers'[<<channel, denom>>] + PacketFlight(channel, denom)'
                   + ReturnFlight(channel, denom)'
BY DEF OutstandingExact, PacketFlight, ReturnFlight, Unsettled, Back

\* Books and flights are naturals.
LEMMA Numbers ==
    ASSUME BooksTypeOK, PacketsOK, NEW channel \in Channels, NEW denom \in Denoms
    PROVE  /\ <<channel, denom>> \in Keys
           /\ outstanding[<<channel, denom>>] \in Nat
           /\ vouchers[<<channel, denom>>] \in Nat
           /\ PacketFlight(channel, denom) \in Nat
           /\ ReturnFlight(channel, denom) \in Nat
<1>1. PacketFlight(channel, denom) \in Nat /\ ReturnFlight(channel, denom) \in Nat
  BY FlightNat DEF PacketFlight, ReturnFlight, PacketsOK, WireOK
<1>2. <<channel, denom>> \in Keys
  BY DEF Keys
<1> QED BY <1>1, <1>2 DEF BooksTypeOK

\* The escrow's part of the invariant, with TotalOf.
LEMMA CoversIs ==
    /\ EscrowCovers <=> \A denom \in Denoms : TotalOf(outstanding, denom) <= escrow[denom]
    /\ EscrowCovers' <=> \A denom \in Denoms : TotalOf(outstanding', denom) <= escrow'[denom]
BY DEF EscrowCovers, ChannelTotal, TotalOf

\* Channel balance and escrow of one token change together, or only the former is
\* lowered: the escrow still covers what the channels may pay out.
LEMMA CoversStep ==
    ASSUME BooksTypeOK, EscrowCovers, NEW ch \in Channels, NEW de \in Denoms, NEW x \in Int,
           outstanding[<<ch, de>>] + x \in Nat,
           outstanding' = Changed(outstanding, <<ch, de>>, x),
           \/ escrow' = [escrow EXCEPT ![de] = @ + x]
           \/ x <= 0 /\ escrow' = escrow
    PROVE  escrow' \in [Denoms -> Nat] /\ EscrowCovers'
<1>1. outstanding \in [Keys -> Nat] /\ escrow \in [Denoms -> Nat]
  BY DEF BooksTypeOK
<1>2. ASSUME NEW denom \in Denoms
      PROVE  /\ TotalOf(outstanding, denom) \in Nat
             /\ TotalOf(outstanding', denom) =
                    TotalOf(outstanding, denom) + (IF denom = de THEN x ELSE 0)
             /\ outstanding[<<ch, denom>>] <= TotalOf(outstanding, denom)
  BY <1>1, TotalChange
<1>3. \A denom \in Denoms : TotalOf(outstanding, denom) <= escrow[denom] /\ escrow[denom] \in Nat
  BY <1>1, CoversIs
<1>4. <<ch, de>> \in Keys /\ outstanding[<<ch, de>>] \in Nat
  BY <1>1 DEF Keys
<1>5. \A denom \in Denoms : escrow'[denom] = escrow[denom] + (IF denom = de THEN x ELSE 0)
                            \/ (escrow'[denom] = escrow[denom] /\ x <= 0)
  BY <1>1
<1>6. ASSUME NEW denom \in Denoms PROVE TotalOf(outstanding', denom) <= escrow'[denom]
  <2> DEFINE before == TotalOf(outstanding, denom)
             after == TotalOf(outstanding', denom)
  <2>1. before \in Nat /\ after = before + (IF denom = de THEN x ELSE 0)
    BY <1>2
  <2>2. before <= escrow[denom] /\ escrow[denom] \in Nat
    BY <1>3
  <2>3. \/ escrow'[denom] = escrow[denom] + (IF denom = de THEN x ELSE 0)
        \/ escrow'[denom] = escrow[denom] /\ x <= 0
    BY <1>5
  <2> HIDE DEF before, after
  <2>4. after <= escrow'[denom]
    BY ONLY <2>1, <2>2, <2>3, x \in Int
  <2> QED BY <2>4 DEF after
<1>7. escrow[de] + x \in Nat
  BY <1>2, <1>3, <1>4
<1>8. escrow' \in [Denoms -> Nat]
  BY <1>1, <1>7
<1> QED BY <1>6, <1>8, CoversIs

-----------------------------------------------------------------------------
\* A transfer raises the channel balance, the escrow and what is in flight alike.
LEMMA TransferKeeps ==
    ASSUME IInv, NEW channel \in Channels, NEW denom \in Denoms, NEW amount \in Amounts,
           execute_transfer(channel, denom, amount)
    PROVE  IInv'
<1> DEFINE key == <<channel, denom>>
           p == [id |-> next_id, channel |-> channel, denom |-> denom,
                 amount |-> amount, state |-> "sent"]
<1>1. BooksTypeOK /\ PacketsOK /\ GasKept /\ OutstandingExact /\ EscrowCovers
  BY DEF IInv
<1>2. amount \in Nat /\ amount > 0 /\ amount \in Int
  BY Ics20Assumption
<1>3. /\ outstanding' = Changed(outstanding, key, amount)
      /\ escrow' = [escrow EXCEPT ![denom] = @ + amount]
      /\ packets' = packets \cup {p}
      /\ next_id' = next_id + 1 /\ next_id \in Nat
      /\ UNCHANGED <<channel_info, config_vars, returns, vouchers>>
      /\ GasKnown(denom)
  BY <1>1 DEF execute_transfer, increase_channel_balance, Changed, BooksTypeOK
<1>4. key \in Keys /\ outstanding[key] \in Nat /\ outstanding[key] + amount \in Nat
  BY <1>1, <1>2, Numbers
<1>5. p \in Wire /\ p.state = "sent" /\ p.id = next_id
  BY <1>2, <1>3 DEF Wire
<1>6. escrow' \in [Denoms -> Nat] /\ EscrowCovers'
  BY <1>1, <1>2, <1>3, <1>4, CoversStep
<1>7. /\ outstanding' \in [Keys -> Nat]
      /\ \A c \in Channels, d \in Denoms :
             outstanding'[<<c, d>>] = outstanding[<<c, d>>] + At(amount, key, c, d)
  <2>1. outstanding \in [Keys -> Nat]
    BY <1>1 DEF BooksTypeOK
  <2> HIDE DEF key
  <2> QED BY <1>2, <1>3, <1>4, <2>1, BooksChange
<1>8. PacketsOK'
  <2>1. WireOK(packets \cup {p}, next_id + 1) /\ WireOK(returns, next_id + 1)
    <3> HIDE DEF p
    <3>1. WireOK(packets \cup {p}, next_id + 1)
      BY <1>1, <1>3, <1>5, WireAdd DEF PacketsOK
    <3>2. WireOK(returns, next_id + 1)
      BY <1>1, <1>3, <1>5, WireAdd DEF PacketsOK
    <3> QED BY <3>1, <3>2
  <2> QED BY <1>1, <1>3, <2>1 DEF PacketsOK
<1>9. OutstandingExact'
  <2>1. ASSUME NEW c \in Channels, NEW d \in Denoms
        PROVE  outstanding'[<<c, d>>] = vouchers'[<<c, d>>] + PacketFlight(c, d)'
                                        + ReturnFlight(c, d)'
    <3>1. PacketFlight(c, d)' = PacketFlight(c, d) + At(amount, key, c, d)
      <4>1. packets \subseteq Wire /\ IsFiniteSet(packets) /\ p \notin packets
        <5> HIDE DEF p
        <5> QED BY <1>1, <1>3, <1>5, WireAdd DEF PacketsOK, WireOK
      <4>2. Share(p, Unsettled, c, d) = At(amount, key, c, d)
        BY <1>5, ShareAt DEF Unsettled
      <4> HIDE DEF p, key
      <4>3. InFlight(packets \cup {p}, Unsettled, c, d) =
                InFlight(packets, Unsettled, c, d) + Share(p, Unsettled, c, d)
        BY <1>5, <4>1, FlightAdd
      <4> QED BY <1>3, <4>2, <4>3 DEF PacketFlight
    <3>2. ReturnFlight(c, d)' = ReturnFlight(c, d)
      BY <1>3 DEF ReturnFlight
    <3>3. outstanding[<<c, d>>] = vouchers[<<c, d>>] + PacketFlight(c, d) + ReturnFlight(c, d)
      BY <1>1, ExactIs
    <3>4. At(amount, key, c, d) \in Nat
      BY <1>2 DEF At
    <3> HIDE DEF key
    <3> QED BY <1>1, <1>3, <1>7, <3>1, <3>2, <3>3, <3>4, Numbers
  <2> QED BY <2>1, ExactIs
<1>10. GasKept'
  <2> SUFFICES ASSUME NEW c \in Channels, NEW d \in Denoms, outstanding'[<<c, d>>] > 0
               PROVE  GasKnown(d)'
    BY DEF GasKept
  <2>1. GasKnown(d) => GasKnown(d)'
    BY <1>3 DEF GasKnown, config_vars
  <2>2. CASE d = denom
    BY <1>3, <2>1, <2>2
  <2>3. CASE d # denom
    <3>1. At(amount, key, c, d) = 0
      BY <2>3 DEF At
    <3>2. outstanding'[<<c, d>>] = outstanding[<<c, d>>]
      BY <1>1, <1>7, <3>1, Numbers
    <3> QED BY <1>1, <2>1, <3>2 DEF GasKept
  <2> QED BY <2>2, <2>3
<1>11. BooksTypeOK'
  BY <1>1, <1>3, <1>6, <1>7 DEF BooksTypeOK
<1> QED BY <1>6, <1>8, <1>9, <1>10, <1>11 DEF IInv

\* Paying out, or giving up, what one packet carries lowers the channel balance by
\* as much; gas limits stay known.
LEMMA ReducedKeeps ==
    ASSUME IInv, NEW ch \in Channels, NEW de \in Denoms, NEW amount \in Nat,
           Reducible(ch, de, amount),
           outstanding' = reduce_channel_balance(ch, de, amount),
           \/ escrow' = [escrow EXCEPT ![de] = @ - amount]
           \/ escrow' = escrow,
           UNCHANGED <<channel_info, config_vars, vouchers, next_id>>
    PROVE  /\ BooksTypeOK' /\ GasKept' /\ EscrowCovers'
           /\ \A c \in Channels, d \in Denoms :
                  outstanding'[<<c, d>>] = outstanding[<<c, d>>] - At(amount, <<ch, de>>, c, d)
<1> DEFINE key == <<ch, de>>
<1>1. BooksTypeOK /\ PacketsOK /\ GasKept /\ OutstandingExact /\ EscrowCovers
  BY DEF IInv
<1>2. key \in Keys /\ outstanding \in [Keys -> Nat] /\ escrow \in [Denoms -> Nat]
      /\ outstanding[key] \in Nat
  BY <1>1 DEF BooksTypeOK, Keys
<1>3. -amount \in Int /\ outstanding[key] + (-amount) \in Nat /\ -amount <= 0
  BY <1>2 DEF Reducible
<1>4. outstanding' = Changed(outstanding, key, -amount)
  BY <1>2 DEF reduce_channel_balance, Changed
<1>5. escrow' = [escrow EXCEPT ![de] = @ + (-amount)] \/ escrow' = escrow
  BY <1>2
<1>6. escrow' \in [Denoms -> Nat] /\ EscrowCovers'
  BY <1>1, <1>3, <1>4, <1>5, CoversStep
<1>7. /\ outstanding' \in [Keys -> Nat]
      /\ \A c \in Channels, d \in Denoms :
             /\ outstanding[<<c, d>>] \in Nat
             /\ outstanding'[<<c, d>>] = outstanding[<<c, d>>] + At(-amount, key, c, d)
  <2> HIDE DEF key
  <2> QED BY <1>2, <1>3, <1>4, BooksChange
<1>8. \A c \in Channels, d \in Denoms :
          /\ outstanding'[<<c, d>>] = outstanding[<<c, d>>] - At(amount, key, c, d)
          /\ At(amount, key, c, d) \in Nat
  <2>1. \A c \in Channels, d \in Denoms : At(-amount, key, c, d) = -At(amount, key, c, d)
                                          /\ At(amount, key, c, d) \in Nat
    BY DEF At
  <2> HIDE DEF key
  <2> QED BY <1>7, <2>1
<1>9. GasKept'
  <2> SUFFICES ASSUME NEW c \in Channels, NEW d \in Denoms, outstanding'[<<c, d>>] > 0
               PROVE  GasKnown(d)'
    BY DEF GasKept
  <2>1. outstanding[<<c, d>>] > 0
    <3> HIDE DEF key
    <3> QED BY <1>7, <1>8
  <2> QED BY <1>1, <2>1 DEF GasKept, GasKnown, config_vars
<1> QED BY <1>1, <1>6, <1>7, <1>8, <1>9 DEF BooksTypeOK

\* A packet that failed can be refunded: what it carries is in the channel balance,
\* and the gas limit of its token is known.
LEMMA RefundPossible ==
    ASSUME IInv
    PROVE  RefundNotBlocked
<1> SUFFICES ASSUME NEW p \in packets, p.state \in {"error", "timeout"}
             PROVE  Reducible(p.channel, p.denom, p.amount) /\ GasKnown(p.denom)
  BY DEF RefundNotBlocked
<1>1. BooksTypeOK /\ PacketsOK /\ GasKept /\ OutstandingExact
  BY DEF IInv
<1>2. /\ p \in Wire /\ p.channel \in Channels /\ p.denom \in Denoms
      /\ p.amount \in Nat /\ p.amount > 0
      /\ packets \subseteq Wire /\ IsFiniteSet(packets)
  BY <1>1, Ics20Assumption DEF PacketsOK, WireOK, Wire
<1>3. Share(p, Unsettled, p.channel, p.denom) = p.amount
  BY DEF Share, Unsettled
<1>4. p.amount <= PacketFlight(p.channel, p.denom)
  BY <1>2, <1>3, FlightNat DEF PacketFlight
<1>5. outstanding[<<p.channel, p.denom>>] =
          vouchers[<<p.channel, p.denom>>] + PacketFlight(p.channel, p.denom)
          + ReturnFlight(p.channel, p.denom)
  BY <1>1, <1>2, ExactIs
<1>6. outstanding[<<p.channel, p.denom>>] >= p.amount
  BY <1>1, <1>2, <1>4, <1>5, Numbers
<1>7. outstanding[<<p.channel, p.denom>>] > 0
  BY <1>1, <1>2, <1>6, Numbers
<1> QED BY <1>1, <1>2, <1>6, <1>7 DEF Reducible, GasKept

\* A failed packet leaves the flight when it leaves the channel balance, whether or
\* not the refund succeeds.
LEMMA FailureKeeps ==
    ASSUME IInv, NEW p \in packets, NEW paid \in BOOLEAN, on_packet_failure(p, paid)
    PROVE  IInv'
<1> DEFINE key == <<p.channel, p.denom>>
<1>1. BooksTypeOK /\ PacketsOK /\ GasKept /\ OutstandingExact /\ EscrowCovers
  BY DEF IInv
<1>2. /\ p \in Wire /\ p.channel \in Channels /\ p.denom \in Denoms /\ p.amount \in Nat
      /\ packets \subseteq Wire /\ IsFiniteSet(packets)
  BY <1>1, Ics20Assumption DEF PacketsOK, WireOK, Wire
<1>3. /\ p.state \in Unsettled
      /\ Reducible(p.channel, p.denom, p.amount)
      /\ outstanding' = reduce_channel_balance(p.channel, p.denom, p.amount)
      /\ \/ escrow' = [escrow EXCEPT ![p.denom] = @ - p.amount]
         \/ escrow' = escrow
      /\ packets' = packets \ {p}
      /\ UNCHANGED <<channel_info, config_vars, returns, vouchers, next_id>>
  BY DEF on_packet_failure, Unsettled
<1>4. /\ BooksTypeOK' /\ GasKept' /\ EscrowCovers'
      /\ \A c \in Channels, d \in Denoms :
             outstanding'[<<c, d>>] = outstanding[<<c, d>>] - At(p.amount, key, c, d)
  BY <1>2, <1>3, ReducedKeeps
<1>5. PacketsOK'
  BY <1>1, <1>3, WireRemove DEF PacketsOK
<1>6. OutstandingExact'
  <2>1. ASSUME NEW c \in Channels, NEW d \in Denoms
        PROVE  outstanding'[<<c, d>>] = vouchers'[<<c, d>>] + PacketFlight(c, d)'
                                        + ReturnFlight(c, d)'
    <3>1. Share(p, Unsettled, c, d) = At(p.amount, key, c, d)
      BY <1>2, <1>3, ShareAt
    <3>2. PacketFlight(c, d)' = PacketFlight(c, d) - At(p.amount, key, c, d)
      BY <1>2, <1>3, <3>1, FlightRemove DEF PacketFlight
    <3>3. ReturnFlight(c, d)' = ReturnFlight(c, d)
      BY <1>3 DEF ReturnFlight
    <3>4. outstanding[<<c, d>>] = vouchers[<<c, d>>] + PacketFlight(c, d) + ReturnFlight(c, d)
      BY <1>1, ExactIs
    <3>5. At(p.amount, key, c, d) \in Nat
      BY <1>2 DEF At
    <3> HIDE DEF key
    <3> QED BY <1>1, <1>3, <1>4, <3>2, <3>3, <3>4, <3>5, Numbers
  <2> QED BY <2>1, ExactIs
<1> QED BY <1>4, <1>5, <1>6 DEF IInv

\* What the invariant needs of a step that leaves the contract's books alone.
LEMMA BooksSame ==
    ASSUME IInv, UNCHANGED <<channel_info, outstanding, escrow, config_vars>>,
           vouchers' \in [Keys -> Nat], next_id' \in Nat
    PROVE  BooksTypeOK' /\ GasKept' /\ EscrowCovers'
<1>1. BooksTypeOK'
  BY DEF IInv, BooksTypeOK
<1>2. GasKept'
  BY DEF IInv, GasKept, GasKnown, config_vars
<1>3. EscrowCovers'
  BY CoversIs DEF IInv
<1> QED BY <1>1, <1>2, <1>3

\* What a packet from the remote chain becomes.
LEMMA AnsweredWire ==
    ASSUME PacketsOK, NEW q \in returns, NEW result \in {"ok", "error"},
           Answered(q, result), UNCHANGED <<packets, next_id>>
    PROVE  /\ PacketsOK'
           /\ \A c \in Channels, d \in Denoms :
                  ReturnFlight(c, d)' =
                      ReturnFlight(c, d) - Share(q, Back, c, d)
                      + (IF result = "error"
                         THEN At(q.amount, <<q.channel, q.denom>>, c, d) ELSE 0)
<1> DEFINE r == [q EXCEPT !.state = result]
<1>1. WireOK(returns, next_id) /\ q \in Wire /\ q.state # "timeout"
  BY DEF PacketsOK, WireOK
<1>2. /\ r \in Wire /\ r.id = q.id /\ r.state = result
      /\ r.amount = q.amount /\ r.channel = q.channel /\ r.denom = q.denom
  BY <1>1 DEF Wire
<1>3. returns' = (returns \ {q}) \cup {r}
  BY DEF Answered
<1> HIDE DEF r
<1>4. WireOK(returns', next_id)
  BY <1>1, <1>2, <1>3, FlightChange
<1>5. \A x \in returns' : x.state # "timeout"
  BY <1>2, <1>3 DEF PacketsOK
<1>6. PacketsOK'
  BY <1>4, <1>5 DEF PacketsOK
<1>7. ASSUME NEW c \in Channels, NEW d \in Denoms
      PROVE  ReturnFlight(c, d)' = ReturnFlight(c, d) - Share(q, Back, c, d)
                 + (IF result = "error"
                    THEN At(q.amount, <<q.channel, q.denom>>, c, d) ELSE 0)
  <2>1. InFlight(returns', Back, c, d) =
            InFlight(returns, Back, c, d) - Share(q, Back, c, d) + Share(r, Back, c, d)
    <3>1. InFlight((returns \ {q}) \cup {r}, Back, c, d) =
              InFlight(returns, Back, c, d) - Share(q, Back, c, d) + Share(r, Back, c, d)
      BY <1>1, <1>2, FlightChange, SMTT(30)
    <3> QED BY <1>3, <3>1
  <2>2. Share(r, Back, c, d) =
            IF result = "error" THEN At(q.amount, <<q.channel, q.denom>>, c, d) ELSE 0
    <3>1. CASE result = "error"
      <4>1. r.state \in Back
        BY <1>2, <3>1 DEF Back
      <4>2. Share(r, Back, c, d) = At(r.amount, <<r.channel, r.denom>>, c, d)
        BY <1>2, <4>1, ShareAt
      <4> QED BY <1>2, <3>1, <4>2
    <3>2. CASE result = "ok"
      <4>1. r.state \notin Back
        BY <1>2, <3>2 DEF Back
      <4>2. Share(r, Back, c, d) = 0
        BY <1>2, <4>1, ShareAt
      <4> QED BY <3>2, <4>2
    <3> QED BY <3>1, <3>2
  <2> QED BY <2>1, <2>2 DEF ReturnFlight
<1> QED BY <1>6, <1>7

\* A packet from the remote chain is refused, paid, or its payment fails and the
\* reduction is undone: what is given up on both sides is the same.
LEMMA ReceiveKeeps ==
    ASSUME IInv, NEW q \in returns, ibc_packet_receive(q)
    PROVE  IInv'
<1> DEFINE key == <<q.channel, q.denom>>
<1>1. BooksTypeOK /\ PacketsOK /\ GasKept /\ OutstandingExact /\ EscrowCovers
  BY DEF IInv
<1>2. /\ q \in Wire /\ q.channel \in Channels /\ q.amount \in Nat /\ q.amount > 0
      /\ q.denom # Foreign => q.denom \in Denoms
      /\ q.state = "sent"
  BY <1>1, Ics20Assumption DEF PacketsOK, WireOK, Wire, ibc_packet_receive
<1>3. UNCHANGED <<channel_info, config_vars, packets, vouchers, next_id>>
  BY DEF ibc_packet_receive
<1>4. ASSUME NEW c \in Channels, NEW d \in Denoms
      PROVE  /\ Share(q, Back, c, d) = At(q.amount, key, c, d)
             /\ At(q.amount, key, c, d) \in Nat
  BY <1>2, ShareAt DEF Back, At
<1>5. \A c \in Channels, d \in Denoms :
          outstanding[<<c, d>>] = vouchers[<<c, d>>] + PacketFlight(c, d) + ReturnFlight(c, d)
  BY <1>1, ExactIs
<1>6. \A c \in Channels, d \in Denoms : PacketFlight(c, d)' = PacketFlight(c, d)
  BY <1>3 DEF PacketFlight
<1>7. CASE Answered(q, "error") /\ UNCHANGED <<outstanding, escrow>>
  <2>1. PacketsOK' /\ \A c \in Channels, d \in Denoms :
            ReturnFlight(c, d)' = ReturnFlight(c, d) - Share(q, Back, c, d)
                                  + At(q.amount, key, c, d)
    BY <1>1, <1>3, <1>7, AnsweredWire
  <2>2. BooksTypeOK' /\ GasKept' /\ EscrowCovers'
    BY <1>1, <1>3, <1>7, BooksSame DEF BooksTypeOK
  <2>3. ASSUME NEW c \in Channels, NEW d \in Denoms
        PROVE  outstanding'[<<c, d>>] = vouchers'[<<c, d>>] + PacketFlight(c, d)'
                                        + ReturnFlight(c, d)'
    <3>1. ReturnFlight(c, d)' = ReturnFlight(c, d)
      <4>1. Share(q, Back, c, d) = At(q.amount, key, c, d) /\ At(q.amount, key, c, d) \in Nat
        BY <1>4
      <4>2. ReturnFlight(c, d) \in Nat
        BY <1>1, Numbers
      <4> HIDE DEF key
      <4> QED BY <2>1, <4>1, <4>2
    <3> QED BY <1>3, <1>5, <1>6, <1>7, <3>1
  <2> QED BY <2>1, <2>2, <2>3, ExactIs DEF IInv
<1>8. CASE ReceivePaid(q)
  <2>1. /\ q.denom \in Denoms
        /\ Reducible(q.channel, q.denom, q.amount)
        /\ Answered(q, "ok")
        /\ outstanding' = reduce_channel_balance(q.channel, q.denom, q.amount)
        /\ escrow' = [escrow EXCEPT ![q.denom] = @ - q.amount]
    BY <1>2, <1>8 DEF ReceivePaid
  <2>2. PacketsOK' /\ \A c \in Channels, d \in Denoms :
            ReturnFlight(c, d)' = ReturnFlight(c, d) - Share(q, Back, c, d) + 0
    BY <1>1, <1>3, <2>1, AnsweredWire
  <2>3. /\ BooksTypeOK' /\ GasKept' /\ EscrowCovers'
        /\ \A c \in Channels, d \in Denoms :
               outstanding'[<<c, d>>] = outstanding[<<c, d>>] - At(q.amount, key, c, d)
    BY <1>2, <1>3, <2>1, ReducedKeeps
  <2>4. ASSUME NEW c \in Channels, NEW d \in Denoms
        PROVE  outstanding'[<<c, d>>] = vouchers'[<<c, d>>] + PacketFlight(c, d)'
                                        + ReturnFlight(c, d)'
    <3>1. /\ ReturnFlight(c, d)' = ReturnFlight(c, d) - At(q.amount, key, c, d)
          /\ outstanding'[<<c, d>>] = outstanding[<<c, d>>] - At(q.amount, key, c, d)
      <4>1. Share(q, Back, c, d) = At(q.amount, key, c, d) /\ At(q.amount, key, c, d) \in Nat
        BY <1>4
      <4>2. ReturnFlight(c, d) \in Nat
        BY <1>1, Numbers
      <4> HIDE DEF key
      <4> QED BY <2>2, <2>3, <4>1, <4>2
    <3>2. At(q.amount, key, c, d) \in Nat
      BY <1>4
    <3> HIDE DEF key
    <3> QED BY <1>1, <1>3, <1>5, <1>6, <3>1, <3>2, Numbers
  <2> QED BY <2>2, <2>3, <2>4, ExactIs DEF IInv
<1>9. CASE ReceiveFails(q)
  <2>1. /\ q.denom \in Denoms
        /\ Reducible(q.channel, q.denom, q.amount)
    BY <1>2, <1>9 DEF ReceiveFails
  <2>2. outstanding[<<q.channel, q.denom>>] > 0
    BY <1>1, <1>2, <2>1, Numbers DEF Reducible
  <2>3. GasKnown(q.denom)
    BY <1>1, <1>2, <2>1, <2>2 DEF GasKept
  <2> QED BY <1>7, <1>9, <2>3 DEF ReceiveFails
<1>10. CASE ReceiveRefused(q)
  BY <1>7, <1>10 DEF ReceiveRefused
<1> QED BY <1>8, <1>9, <1>10 DEF ibc_packet_receive

\* A packet that succeeded has no share in the flight any more.
LEMMA AckKeeps ==
    ASSUME IInv, NEW p \in packets, ibc_packet_ack_result(p)
    PROVE  IInv'
<1>1. BooksTypeOK /\ PacketsOK /\ OutstandingExact
  BY DEF IInv
<1>2. p \in Wire /\ packets \subseteq Wire /\ IsFiniteSet(packets)
  BY <1>1 DEF PacketsOK, WireOK
<1>3. /\ p.state \notin Unsettled
      /\ packets' = packets \ {p}
      /\ UNCHANGED <<channel_info, outstanding, escrow, config_vars, returns, vouchers, next_id>>
  BY DEF ibc_packet_ack_result, Unsettled, state_vars
<1>4. PacketsOK'
  BY <1>1, <1>3, WireRemove DEF PacketsOK
<1>5. BooksTypeOK' /\ GasKept' /\ EscrowCovers'
  BY <1>1, <1>3, BooksSame DEF BooksTypeOK
<1>6. ASSUME NEW c \in Channels, NEW d \in Denoms
      PROVE  outstanding'[<<c, d>>] = vouchers'[<<c, d>>] + PacketFlight(c, d)'
                                      + ReturnFlight(c, d)'
  <2>1. Share(p, Unsettled, c, d) = 0
    BY <1>2, <1>3, ShareAt
  <2>2. InFlight(packets \ {p}, Unsettled, c, d) =
            InFlight(packets, Unsettled, c, d) - Share(p, Unsettled, c, d)
    BY <1>2, FlightRemove
  <2>3. PacketFlight(c, d) \in Nat
    BY <1>1, Numbers
  <2>4. PacketFlight(c, d)' = PacketFlight(c, d)
    BY <1>3, <2>1, <2>2, <2>3 DEF PacketFlight
  <2>5. ReturnFlight(c, d)' = ReturnFlight(c, d)
    BY <1>3 DEF ReturnFlight
  <2> QED BY <1>1, <1>3, <2>4, <2>5, ExactIs
<1> QED BY <1>4, <1>5, <1>6, ExactIs DEF IInv

\* The remote chain mints for a packet what leaves the flight, or refuses it.
LEMMA HandlesKeeps ==
    ASSUME IInv, NEW p \in packets, NEW result \in {"ok", "error", "timeout"},
           remote_handles(p, result)
    PROVE  IInv'
<1> DEFINE key == <<p.channel, p.denom>>
           r == [p EXCEPT !.state = result]
           minted == IF result = "ok" THEN p.amount ELSE 0
<1>1. BooksTypeOK /\ PacketsOK /\ OutstandingExact
  BY DEF IInv
<1>2. /\ p \in Wire /\ p.channel \in Channels /\ p.denom \in Denoms /\ p.amount \in Nat
      /\ WireOK(packets, next_id) /\ key \in Keys
  BY <1>1, Ics20Assumption DEF PacketsOK, WireOK, Wire, Keys
<1>3. /\ p.state = "sent"
      /\ packets' = (packets \ {p}) \cup {r}
      /\ vouchers' = IF result = "ok" THEN [vouchers EXCEPT ![key] = @ + p.amount] ELSE vouchers
      /\ UNCHANGED <<channel_info, outstanding, escrow, config_vars, returns, next_id>>
  BY DEF remote_handles, state_vars
<1>4. /\ r \in Wire /\ r.id = p.id /\ r.state = result
      /\ r.amount = p.amount /\ r.channel = p.channel /\ r.denom = p.denom
  BY <1>2 DEF Wire
<1>5. vouchers \in [Keys -> Nat] /\ minted \in Nat /\ minted \in Int
  BY <1>1, <1>2 DEF BooksTypeOK
<1>6. vouchers' = Changed(vouchers, key, minted)
  <2>1. CASE result = "ok"
    BY <1>2, <1>3, <2>1 DEF Changed
  <2>2. CASE result # "ok"
    <3>1. vouchers' = vouchers /\ minted = 0
      BY <1>3, <2>2
    <3> HIDE DEF key, minted
    <3>2. \A k \in Keys : vouchers[k] = vouchers[k] + 0
      BY <1>5
    <3>3. Changed(vouchers, key, 0) = vouchers
      BY <1>2, <1>5, <3>2 DEF Changed
    <3> QED BY <3>1, <3>3
  <2> QED BY <2>1, <2>2
<1>7. /\ vouchers' \in [Keys -> Nat]
      /\ \A c \in Channels, d \in Denoms :
             vouchers'[<<c, d>>] = vouchers[<<c, d>>] + At(minted, key, c, d)
  <2>1. vouchers[key] + minted \in Nat
    BY <1>2, <1>5
  <2> HIDE DEF key, minted
  <2> QED BY <1>2, <1>5, <1>6, <2>1, BooksChange
<1> HIDE DEF r
<1>8. PacketsOK'
  <2>1. WireOK(packets', next_id)
    BY <1>2, <1>3, <1>4, FlightChange
  <2> QED BY <1>1, <1>2, <1>3, <1>4, <2>1 DEF PacketsOK
<1>9. BooksTypeOK' /\ GasKept' /\ EscrowCovers'
  BY <1>1, <1>3, <1>7, BooksSame DEF BooksTypeOK
<1>10. ASSUME NEW c \in Channels, NEW d \in Denoms
       PROVE  outstanding'[<<c, d>>] = vouchers'[<<c, d>>] + PacketFlight(c, d)'
                                       + ReturnFlight(c, d)'
  <2> DEFINE a == At(p.amount, key, c, d)
  <2>1. Share(p, Unsettled, c, d) = a /\ a \in Nat
    BY <1>2, <1>3, ShareAt DEF Unsettled, At
  <2>2. CASE result = "ok"
    <3>1. Share(r, Unsettled, c, d) = 0
      BY <1>4, <2>2, ShareAt DEF Unsettled
    <3>2. vouchers'[<<c, d>>] = vouchers[<<c, d>>] + a
      BY <1>7, <2>2
    <3>3. InFlight((packets \ {p}) \cup {r}, Unsettled, c, d) =
              InFlight(packets, Unsettled, c, d) - Share(p, Unsettled, c, d)
              + Share(r, Unsettled, c, d)
      BY <1>2, <1>4, FlightChange
    <3>4. PacketFlight(c, d) \in Nat
      BY <1>1, Numbers
    <3> HIDE DEF a
    <3>5. PacketFlight(c, d)' = PacketFlight(c, d) - a
      BY <1>3, <2>1, <3>1, <3>3, <3>4 DEF PacketFlight
    <3>6. ReturnFlight(c, d)' = ReturnFlight(c, d)
      BY <1>3 DEF ReturnFlight
    <3>7. outstanding[<<c, d>>] = vouchers[<<c, d>>] + PacketFlight(c, d) + ReturnFlight(c, d)
      BY <1>1, ExactIs
    <3> QED BY <1>1, <1>3, <2>1, <3>2, <3>5, <3>6, <3>7, Numbers
  <2>3. CASE result # "ok"
    <3>1. Share(r, Unsettled, c, d) = a
      <4>1. r.state \in Unsettled
        BY <1>4, <2>3 DEF Unsettled
      <4>2. Share(r, Unsettled, c, d) = At(r.amount, <<r.channel, r.denom>>, c, d)
        BY <1>4, <4>1, ShareAt
      <4> QED BY <1>4, <4>2
    <3>2. vouchers' = vouchers
      BY <1>3, <2>3
    <3>3. InFlight((packets \ {p}) \cup {r}, Unsettled, c, d) =
              InFlight(packets, Unsettled, c, d) - Share(p, Unsettled, c, d)
              + Share(r, Unsettled, c, d)
      BY <1>2, <1>4, FlightChange
    <3>4. PacketFlight(c, d) \in Nat
      BY <1>1, Numbers
    <3> HIDE DEF a
    <3>5. PacketFlight(c, d)' = PacketFlight(c, d)
      BY <1>3, <2>1, <3>1, <3>3, <3>4 DEF PacketFlight
    <3>6. ReturnFlight(c, d)' = ReturnFlight(c, d)
      BY <1>3 DEF ReturnFlight
    <3> QED BY <1>1, <1>3, <3>2, <3>5, <3>6, ExactIs
  <2> QED BY <2>2, <2>3
<1> QED BY <1>8, <1>9, <1>10, ExactIs DEF IInv

\* Vouchers set out on their way back, or packets of denoms that are not ours.
LEMMA SendsKeeps ==
    ASSUME IInv, NEW channel \in Channels, NEW denom \in Denoms \cup {Foreign},
           NEW amount \in Amounts,
           \/ denom \in Denoms /\ remote_sends_back(channel, denom, amount)
           \/ denom = Foreign /\ remote_sends_foreign(channel, amount)
    PROVE  IInv'
<1> DEFINE key == <<channel, denom>>
           q == [id |-> next_id, channel |-> channel, denom |-> denom,
                 amount |-> amount, state |-> "sent"]
<1>1. BooksTypeOK /\ PacketsOK /\ OutstandingExact
  BY DEF IInv
<1>2. amount \in Nat /\ -amount \in Int /\ next_id \in Nat /\ vouchers \in [Keys -> Nat]
  BY <1>1, Ics20Assumption DEF BooksTypeOK
<1>3. /\ returns' = returns \cup {q}
      /\ next_id' = next_id + 1
      /\ UNCHANGED <<channel_info, outstanding, escrow, config_vars, packets>>
  BY DEF remote_sends_back, remote_sends_foreign, state_vars
<1>4. /\ q \in Wire /\ q.id = next_id /\ q.state = "sent"
      /\ q.channel = channel /\ q.denom = denom /\ q.amount = amount
  BY <1>2 DEF Wire
<1> HIDE DEF q
<1>5. /\ q \notin returns /\ WireOK(returns', next_id') /\ WireOK(packets', next_id')
      /\ returns \subseteq Wire /\ IsFiniteSet(returns)
  <2>1. WireOK(returns, next_id) /\ WireOK(packets, next_id)
    BY <1>1 DEF PacketsOK
  <2>2. q \notin returns /\ WireOK(returns \cup {q}, next_id + 1)
    BY <1>2, <1>4, <2>1, WireAdd
  <2>3. WireOK(packets, next_id + 1)
    BY <1>2, <1>4, <2>1, WireAdd
  <2>4. returns \subseteq Wire /\ IsFiniteSet(returns)
    BY <2>1 DEF WireOK
  <2> QED BY <1>3, <2>2, <2>3, <2>4
<1>6. PacketsOK'
  BY <1>1, <1>3, <1>4, <1>5 DEF PacketsOK
<1>7. /\ vouchers' \in [Keys -> Nat]
      /\ \A c \in Channels, d \in Denoms :
             vouchers'[<<c, d>>] = vouchers[<<c, d>>] - At(amount, key, c, d)
  <2>1. CASE denom \in Denoms /\ remote_sends_back(channel, denom, amount)
    <3>1. /\ key \in Keys /\ vouchers[key] >= amount
          /\ vouchers' = [vouchers EXCEPT ![key] = @ - amount]
      BY <2>1 DEF remote_sends_back, Keys
    <3>2. vouchers[key] + (-amount) \in Nat /\ vouchers' = Changed(vouchers, key, -amount)
      <4>1. vouchers[key] \in Nat
        <5> HIDE DEF key
        <5> QED BY <1>2, <3>1
      <4> HIDE DEF key
      <4>2. vouchers[key] - amount = vouchers[key] + (-amount)
        BY <1>2, <4>1
      <4>3. vouchers' = [vouchers EXCEPT ![key] = vouchers[key] + (-amount)]
        BY ONLY <3>1, <4>2, Zenon
      <4>4. vouchers[key] + (-amount) \in Nat
        BY <1>2, <3>1, <4>1
      <4> QED BY <4>3, <4>4 DEF Changed
    <3>3. \A c \in Channels, d \in Denoms : At(-amount, key, c, d) = -At(amount, key, c, d)
                                            /\ At(amount, key, c, d) \in Nat
      BY <1>2 DEF At
    <3>4. /\ vouchers' \in [Keys -> Nat]
          /\ \A c \in Channels, d \in Denoms :
                 /\ vouchers[<<c, d>>] \in Nat
                 /\ vouchers'[<<c, d>>] = vouchers[<<c, d>>] + At(-amount, key, c, d)
      <4> DEFINE x == -amount
      <4>1. x \in Int /\ vouchers[key] + x \in Nat /\ vouchers' = Changed(vouchers, key, x)
        BY <1>2, <3>2
      <4> HIDE DEF key, x
      <4>2. /\ vouchers' \in [Keys -> Nat]
            /\ \A c \in Channels, d \in Denoms :
                   /\ vouchers[<<c, d>>] \in Nat
                   /\ vouchers'[<<c, d>>] = vouchers[<<c, d>>] + At(x, key, c, d)
        BY <1>2, <3>1, <4>1, BooksChange, SMTT(30)
      <4> QED BY <4>2 DEF x
    <3> HIDE DEF key
    <3> QED BY <3>3, <3>4
  <2>2. CASE denom = Foreign /\ remote_sends_foreign(channel, amount)
    <3>1. vouchers' = vouchers
      BY <2>2 DEF remote_sends_foreign
    <3>2. \A c \in Channels, d \in Denoms : At(amount, key, c, d) = 0
      BY <2>2, Ics20Assumption DEF At, Denoms
    <3>3. \A c \in Channels, d \in Denoms : vouchers[<<c, d>>] \in Nat
      BY <1>1, Numbers
    <3> HIDE DEF key
    <3> QED BY <1>2, <3>1, <3>2, <3>3
  <2> QED BY <2>1, <2>2
<1>8. BooksTypeOK' /\ GasKept' /\ EscrowCovers'
  BY <1>2, <1>3, <1>7, BooksSame
<1>9. ASSUME NEW c \in Channels, NEW d \in Denoms
      PROVE  outstanding'[<<c, d>>] = vouchers'[<<c, d>>] + PacketFlight(c, d)'
                                      + ReturnFlight(c, d)'
  <2> DEFINE a == At(amount, key, c, d)
  <2>1. Share(q, Back, c, d) = a
    BY <1>4, ShareAt DEF Back
  <2>2. a \in Nat
    BY <1>2 DEF At
  <2>3. vouchers'[<<c, d>>] = vouchers[<<c, d>>] - a
    BY <1>7
  <2> HIDE DEF a
  <2>4. InFlight(returns \cup {q}, Back, c, d) =
            InFlight(returns, Back, c, d) + Share(q, Back, c, d)
    BY <1>4, <1>5, FlightAdd
  <2>5. ReturnFlight(c, d)' = ReturnFlight(c, d) + a
    BY <1>3, <2>1, <2>4 DEF ReturnFlight
  <2>6. PacketFlight(c, d)' = PacketFlight(c, d)
    BY <1>3 DEF PacketFlight
  <2>7. outstanding[<<c, d>>] = vouchers[<<c, d>>] + PacketFlight(c, d) + ReturnFlight(c, d)
    BY <1>1, ExactIs
  <2> QED BY <1>1, <1>3, <2>2, <2>3, <2>5, <2>6, <2>7, Numbers
<1> QED BY <1>6, <1>8, <1>9, ExactIs DEF IInv

\* A packet of the remote chain is settled: what was not paid here becomes vouchers
\* again.
LEMMA SettlesKeeps ==
    ASSUME IInv, NEW q \in returns, remote_settles(q)
    PROVE  IInv'
<1> DEFINE key == <<q.channel, q.denom>>
<1>1. BooksTypeOK /\ PacketsOK /\ OutstandingExact
  BY DEF IInv
<1>2. /\ q \in Wire /\ q.channel \in Channels /\ q.amount \in Nat
      /\ q.denom # Foreign => q.denom \in Denoms
      /\ returns \subseteq Wire /\ IsFiniteSet(returns) /\ WireOK(returns, next_id)
  BY <1>1, Ics20Assumption DEF PacketsOK, WireOK, Wire
<1>3. /\ returns' = returns \ {q}
      /\ UNCHANGED <<channel_info, outstanding, escrow, config_vars, packets, next_id>>
  BY DEF remote_settles, state_vars
<1>4. PacketsOK'
  BY <1>1, <1>3, WireRemove DEF PacketsOK
<1>5. /\ vouchers' \in [Keys -> Nat]
      /\ \A c \in Channels, d \in Denoms :
             vouchers'[<<c, d>>] = vouchers[<<c, d>>] + Share(q, Back, c, d)
  <2>1. vouchers \in [Keys -> Nat] /\ \A c \in Channels, d \in Denoms :
            <<c, d>> \in Keys /\ vouchers[<<c, d>>] \in Nat
    BY <1>1, Numbers DEF BooksTypeOK
  <2>2. CASE q.state = "ok" /\ UNCHANGED vouchers
    <3>1. \A c \in Channels, d \in Denoms : Share(q, Back, c, d) = 0
      BY <1>2, <2>2, ShareAt DEF Back
    <3> QED BY <2>1, <2>2, <3>1
  <2>3. CASE q.denom = Foreign /\ UNCHANGED vouchers
    <3>1. \A c \in Channels, d \in Denoms : Share(q, Back, c, d) = 0
      BY <1>2, <2>3, ShareAt
    <3> QED BY <2>1, <2>3, <3>1
  <2>4. CASE /\ q.state \in {"error", "sent"} /\ q.denom \in Denoms
             /\ vouchers' = [vouchers EXCEPT ![key] = @ + q.amount]
    <3>1. key \in Keys /\ q.amount \in Int
      BY <1>2, <2>4 DEF Keys
    <3>2. vouchers[key] + q.amount \in Nat /\ vouchers' = Changed(vouchers, key, q.amount)
      BY <1>2, <2>1, <2>4, <3>1 DEF Changed
    <3>3. \A c \in Channels, d \in Denoms : Share(q, Back, c, d) = At(q.amount, key, c, d)
      BY <1>2, <2>4, ShareAt DEF Back
    <3> HIDE DEF key
    <3>4. /\ vouchers' \in [Keys -> Nat]
          /\ \A c \in Channels, d \in Denoms :
                 vouchers'[<<c, d>>] = vouchers[<<c, d>>] + At(q.amount, key, c, d)
      BY <2>1, <3>1, <3>2, BooksChange
    <3> QED BY <3>3, <3>4
  <2> QED BY <1>2, <2>2, <2>3, <2>4 DEF remote_settles
<1>6. BooksTypeOK' /\ GasKept' /\ EscrowCovers'
  BY <1>1, <1>3, <1>5, BooksSame DEF BooksTypeOK
<1>7. ASSUME NEW c \in Channels, NEW d \in Denoms
      PROVE  outstanding'[<<c, d>>] = vouchers'[<<c, d>>] + PacketFlight(c, d)'
                                      + ReturnFlight(c, d)'
  <2>1. Share(q, Back, c, d) \in Nat
    BY <1>2, FlightNat
  <2>2. InFlight(returns \ {q}, Back, c, d) =
            InFlight(returns, Back, c, d) - Share(q, Back, c, d)
    BY <1>2, FlightRemove
  <2>3. ReturnFlight(c, d)' = ReturnFlight(c, d) - Share(q, Back, c, d)
    BY <1>3, <2>2 DEF ReturnFlight
  <2>4. PacketFlight(c, d)' = PacketFlight(c, d)
    BY <1>3 DEF PacketFlight
  <2>5. outstanding[<<c, d>>] = vouchers[<<c, d>>] + PacketFlight(c, d) + ReturnFlight(c, d)
    BY <1>1, ExactIs
  <2> QED BY <1>1, <1>3, <1>5, <2>1, <2>3, <2>4, <2>5, Numbers
<1> QED BY <1>4, <1>6, <1>7, ExactIs DEF IInv

\* Channels and gas limits: no limit that is known becomes unknown.
LEMMA ConfigKeeps ==
    ASSUME IInv, ConfigStep
    PROVE  IInv'
<1>1. BooksTypeOK /\ PacketsOK /\ GasKept /\ OutstandingExact /\ EscrowCovers
  BY DEF IInv
<1>2. /\ UNCHANGED <<outstanding, escrow, packets, returns, vouchers, next_id>>
      /\ channel_info' \subseteq Channels
  BY <1>1 DEF ConfigStep, execute_allow, migrate, ibc_channel_connect, state_vars, wire_vars,
              BooksTypeOK
<1>3. \A denom \in Denoms : GasKnown(denom) => GasKnown(denom)'
  <2>1. CASE \E token \in Cw20s, gas_limit \in GasLimits \cup {NoLimit} :
                 execute_allow(token, gas_limit)
    BY <2>1 DEF execute_allow, GasKnown
  <2>2. CASE \E gas_limit \in GasLimits : migrate(gas_limit)
    BY <2>2, Ics20Assumption DEF migrate, GasKnown
  <2>3. CASE \E channel \in Channels : ibc_channel_connect(channel)
    BY <2>3 DEF ibc_channel_connect, GasKnown, config_vars
  <2> QED BY <2>1, <2>2, <2>3 DEF ConfigStep
<1>4. GasKept'
  BY <1>1, <1>2, <1>3 DEF GasKept
<1>5. BooksTypeOK' /\ PacketsOK'
  BY <1>1, <1>2 DEF BooksTypeOK, PacketsOK
<1>6. OutstandingExact'
  BY <1>1, <1>2 DEF OutstandingExact
<1>7. EscrowCovers'
  BY <1>1, <1>2, CoversIs
<1> QED BY <1>4, <1>5, <1>6, <1>7 DEF IInv

-----------------------------------------------------------------------------
\* The inductive invariant holds in every reachable state.
THEOREM InvariantTheorem == Spec => []IInv
<1>1. Init => IInv
  <2> SUFFICES ASSUME Init PROVE IInv
    OBVIOUS
  <2>1. BooksTypeOK
    BY DEF Init, BooksTypeOK, Keys
  <2>2. PacketsOK
    BY FS_EmptySet DEF Init, PacketsOK, WireOK
  <2>3. \A c \in Channels, d \in Denoms : outstanding[<<c, d>>] = 0 /\ vouchers[<<c, d>>] = 0
    BY DEF Init
  <2>4. GasKept
    <3> SUFFICES ASSUME NEW c \in Channels, NEW d \in Denoms, outstanding[<<c, d>>] > 0
                 PROVE  FALSE
      BY DEF GasKept
    <3>1. outstanding[<<c, d>>] = 0
      BY <2>3
    <3> QED BY <3>1
  <2>5. ASSUME NEW wire, wire = {}, NEW states, NEW c, NEW d
        PROVE  InFlight(wire, states, c, d) = 0
    <3> DEFINE f == [p \in wire |-> p.amount]
    <3>1. {p \in wire : p.channel = c /\ p.denom = d /\ p.state \in states} = {}
      BY <2>5
    <3>2. InFlight(wire, states, c, d) = SumFunctionOnSet(f, {})
      BY <3>1 DEF InFlight
    <3> QED BY <3>2, SumEmpty
  <2>6. \A c \in Channels, d \in Denoms : PacketFlight(c, d) = 0 /\ ReturnFlight(c, d) = 0
    BY <2>5 DEF Init, PacketFlight, ReturnFlight
  <2>7. OutstandingExact
    BY <2>3, <2>6, ExactIs
  <2>8. ASSUME NEW denom \in Denoms PROVE TotalOf(outstanding, denom) <= escrow[denom]
    <3> DEFINE a == [channel \in Channels |-> outstanding[<<channel, denom>>]]
    <3>1. IsFiniteSet(Channels) /\ \A x \in SUBSET Channels : IsFiniteSet(x)
      BY Ics20Assumption, FS_Subset
    <3>2. \A x \in Channels : a[x] = 0
      BY <2>3
    <3> HIDE DEF a
    <3>3. SumFunctionOnSet(a, Channels) = 0
      BY <3>1, <3>2, SumZero
    <3>4. TotalOf(outstanding, denom) = 0
      BY <3>3 DEF TotalOf, a
    <3>5. escrow[denom] = 0
      BY DEF Init
    <3> QED BY <3>4, <3>5
  <2>9. EscrowCovers
    BY <2>8, CoversIs
  <2> QED BY <2>1, <2>2, <2>4, <2>7, <2>9 DEF IInv
<1>2. IInv /\ [Next]_vars => IInv'
  <2> SUFFICES ASSUME IInv, [Next]_vars PROVE IInv'
    OBVIOUS
  <2>1. CASE ConfigStep
    BY <2>1, ConfigKeeps
  <2>2. CASE TransferStep
    BY <2>2, TransferKeeps DEF TransferStep
  <2>3. CASE PacketStep
    BY <2>3, AckKeeps, FailureKeeps, ReceiveKeeps DEF PacketStep
  <2>4. CASE RemoteStep
    <3>1. CASE \E p \in packets, result \in {"ok", "error", "timeout"} :
                   remote_handles(p, result)
      BY <3>1, HandlesKeeps
    <3>2. CASE \E channel \in Channels, amount \in Amounts :
                   \/ \E denom \in Denoms : remote_sends_back(channel, denom, amount)
                   \/ remote_sends_foreign(channel, amount)
      BY <3>2, SendsKeeps
    <3>3. CASE \E q \in returns : remote_settles(q)
      BY <3>3, SettlesKeeps
    <3> QED BY <2>4, <3>1, <3>2, <3>3 DEF RemoteStep
  <2>5. CASE UNCHANGED vars
    <3>1. UNCHANGED <<channel_info, outstanding, escrow, config_vars, packets, returns,
                      vouchers, next_id>>
      BY <2>5 DEF vars, state_vars, wire_vars
    <3>2. BooksTypeOK' /\ GasKept' /\ EscrowCovers'
      BY <3>1, BooksSame DEF IInv, BooksTypeOK
    <3>3. PacketsOK' /\ OutstandingExact'
      BY <3>1 DEF IInv, PacketsOK, OutstandingExact
    <3> QED BY <3>2, <3>3 DEF IInv
  <2> QED BY <2>1, <2>2, <2>3, <2>4, <2>5 DEF Next
<1> QED BY <1>1, <1>2, PTL DEF Spec

\* Every channel balance is what the remote side can still claim, for any number of
\* channels and of packets under way.
THEOREM OutstandingTheorem == Spec => []OutstandingExact
<1>1. IInv => OutstandingExact
  BY DEF IInv
<1> QED BY <1>1, InvariantTheorem, PTL

\* The contract never owes its channels more than it holds.
THEOREM EscrowTheorem == Spec => []EscrowCovers
<1>1. IInv => EscrowCovers
  BY DEF IInv
<1> QED BY <1>1, InvariantTheorem, PTL

\* No failed packet is stuck: its refund is possible whenever it is acknowledged.
THEOREM RefundTheorem == Spec => []RefundNotBlocked
<1>1. IInv => RefundNotBlocked
  BY RefundPossible
<1> QED BY <1>1, InvariantTheorem, PTL

=============================================================================
