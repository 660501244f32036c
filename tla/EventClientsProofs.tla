------------------------- MODULE EventClientsProofs -------------------------
(***************************************************************************)
(* Proofs about EventClients, for any number of connections, any capacity  *)
(* of the channels and any number of broadcasts.                           *)
(***************************************************************************)
EXTENDS EventClients, TLAPS

(* Where a client is, told by its handler, its pump and the registry.      *)
Lifecycle(c) ==
  /\ c \in registry <=> pc[c] \in {"opening", "reading"}
  /\ closed[c] <=> pc[c] = "left"
  /\ pump[c] = "none" <=> pc[c] \in {"connecting", "opening"}
  /\ pc[c] = "connecting" => since[c] = -1 /\ opened[c] = 0 /\ channel[c] = <<>>
  /\ pc[c] # "connecting" => since[c] \in 0..sent

(* Nothing is written before it is taken, nor taken before it is there.    *)
Cursors(c) ==
  /\ written[c] <= taken[c] /\ taken[c] <= Len(channel[c])
  /\ pump[c] = "none" => taken[c] = 0

(* What fills the channel of a client that is being opened.                *)
Filling(c) ==
  pc[c] = "opening" => Len(channel[c]) <= opened[c] + (sent - since[c])

InOrder(c) ==
  \A i, j \in 1..Len(channel[c]) :
    i < j /\ channel[c][j] # Opening => channel[c][i] < channel[c][j]

Recent(c) ==
  \A i \in 1..Len(channel[c]) :
    channel[c][i] # Opening => since[c] < channel[c][i] /\ channel[c][i] <= sent

Complete(c) ==
  c \in registry =>
    \A n \in (since[c] + 1)..sent \ dropped[c] :
      \E i \in 1..Len(channel[c]) : channel[c][i] = n

ClientInv(c) ==
  Lifecycle(c) /\ Cursors(c) /\ Filling(c) /\ InOrder(c) /\ Recent(c) /\ Complete(c)

Inv == TypeOK /\ \A c \in Clients : ClientInv(c)

----------------------------------------------------------------------------
(* A step that does not broadcast and leaves a client's own state alone    *)
(* keeps what is known of it.                                              *)
Untouched(c) ==
  /\ sent' = sent /\ (c \in registry' <=> c \in registry)
  /\ pc'[c] = pc[c] /\ opened'[c] = opened[c] /\ since'[c] = since[c]
  /\ channel'[c] = channel[c] /\ taken'[c] = taken[c] /\ written'[c] = written[c]
  /\ pump'[c] = pump[c] /\ closed'[c] = closed[c] /\ dropped'[c] = dropped[c]

LEMMA Bystander == ASSUME NEW c \in Clients, ClientInv(c), Untouched(c) PROVE ClientInv(c)'
BY DEF ClientInv, Untouched, Lifecycle, Cursors, Filling, InOrder, Recent, Complete

(* What an event appended to a channel does to it.                         *)
LEMMA Appended ==
  ASSUME NEW s \in Seq(Events), NEW event \in Events
  PROVE /\ Append(s, event) \in Seq(Events)
        /\ Len(Append(s, event)) = Len(s) + 1
        /\ \A i \in 1..Len(s) : Append(s, event)[i] = s[i]
        /\ Append(s, event)[Len(s) + 1] = event
OBVIOUS

LEMMA InitSafe == Init => Inv
BY BufferAssumption, OpeningsAssumption, BroadcastsAssumption
   DEF Init, Inv, TypeOK, ClientInv, Lifecycle, Cursors, Filling, InOrder, Recent, Complete,
       Events

LEMMA RegisterSafe == ASSUME Inv, NEW c \in Clients, Register(c) PROVE Inv'
<1>1. TypeOK'
  BY DEF Inv, TypeOK, Register, pumpVars
<1>2. ASSUME NEW d \in Clients \ {c} PROVE ClientInv(d)'
  BY <1>2, Bystander DEF Inv, TypeOK, Register, pumpVars, Untouched
<1>3. ClientInv(c)'
  BY BroadcastsAssumption
     DEF Inv, TypeOK, Register, pumpVars, ClientInv, Lifecycle, Cursors, Filling, InOrder,
         Recent, Complete, Events
<1> QED BY <1>1, <1>2, <1>3 DEF Inv

LEMMA SendOpeningSafe == ASSUME Inv, NEW c \in Clients, SendOpening(c) PROVE Inv'
<1> USE BufferAssumption, OpeningsAssumption, BroadcastsAssumption
<1>1. Opening \in Events /\ channel[c] \in Seq(Events)
  BY DEF Inv, TypeOK, Opening, Events
<1>2. channel'[c] = Append(channel[c], Opening) /\ channel' \in [Clients -> Seq(Events)]
  BY <1>1, Appended DEF Inv, TypeOK, SendOpening, Put
<1>3. opened'[c] = opened[c] + 1 /\ opened' \in [Clients -> 0..Openings]
  BY DEF Inv, TypeOK, SendOpening
<1>4. TypeOK'
  BY <1>2, <1>3 DEF Inv, TypeOK, SendOpening, pumpVars
<1>5. ASSUME NEW d \in Clients \ {c} PROVE ClientInv(d)'
  BY <1>5, Bystander DEF Inv, TypeOK, SendOpening, Put, pumpVars, Untouched
<1>6. /\ pc'[c] = "opening" /\ pc[c] = "opening" /\ (c \in registry' <=> c \in registry)
      /\ sent' = sent /\ since'[c] = since[c] /\ taken'[c] = taken[c]
      /\ written'[c] = written[c] /\ pump'[c] = pump[c] /\ closed'[c] = closed[c]
      /\ dropped'[c] = dropped[c]
  BY DEF SendOpening, pumpVars
<1>7. Len(channel'[c]) = Len(channel[c]) + 1 /\ Len(channel[c]) \in Nat
      /\ (\A i \in 1..Len(channel[c]) : channel'[c][i] = channel[c][i])
      /\ channel'[c][Len(channel[c]) + 1] = Opening
  BY <1>1, <1>2, Appended
<1>8. Lifecycle(c)' /\ Cursors(c)' /\ Filling(c)'
  BY <1>3, <1>6, <1>7 DEF Inv, TypeOK, ClientInv, Lifecycle, Cursors, Filling, Events
<1> DEFINE old == 1..Len(channel[c])
           new == 1..Len(channel'[c])
<1>9. \A i \in new : channel'[c][i] # Opening => i \in old /\ channel'[c][i] = channel[c][i]
  BY <1>7
<1>10. InOrder(c)'
  <2> SUFFICES ASSUME NEW i \in new, NEW j \in new, i < j, channel'[c][j] # Opening
               PROVE channel'[c][i] < channel'[c][j]
    BY DEF InOrder
  <2>1. i \in old /\ j \in old
    BY <1>7, <1>9
  <2> QED BY <1>7, <2>1 DEF Inv, ClientInv, InOrder
<1>11. Recent(c)'
  BY <1>6, <1>9 DEF Inv, ClientInv, Recent
<1>12. Complete(c)'
  <2> SUFFICES ASSUME c \in registry, NEW n \in (since[c] + 1)..sent \ dropped[c]
               PROVE \E i \in new : channel'[c][i] = n
    BY <1>6 DEF Complete
  <2>1. PICK i \in old : channel[c][i] = n
    BY DEF Inv, ClientInv, Complete
  <2> QED BY <1>7, <2>1
<1> QED BY <1>4, <1>5, <1>8, <1>10, <1>11, <1>12 DEF Inv, ClientInv

(* StartPump and Unregister change where a client is, not its channel.     *)
LEMMA MovesSafe ==
  ASSUME Inv, NEW c \in Clients, StartPump(c) \/ Unregister(c) PROVE Inv'
<1>1. TypeOK'
  BY DEF Inv, TypeOK, StartPump, Unregister, pumpVars
<1>2. ASSUME NEW d \in Clients \ {c} PROVE ClientInv(d)'
  BY <1>2, Bystander DEF Inv, TypeOK, StartPump, Unregister, pumpVars, Untouched
<1>3. Lifecycle(c)' /\ Cursors(c)' /\ Filling(c)'
  BY DEF Inv, TypeOK, StartPump, Unregister, pumpVars, ClientInv, Lifecycle, Cursors, Filling
<1>4. /\ channel'[c] = channel[c] /\ since'[c] = since[c] /\ sent' = sent
      /\ dropped'[c] = dropped[c] /\ (c \in registry' => c \in registry)
  BY DEF StartPump, Unregister, pumpVars
<1>5. InOrder(c)' /\ Recent(c)' /\ Complete(c)'
  BY <1>4 DEF Inv, ClientInv, InOrder, Recent, Complete
<1> QED BY <1>1, <1>2, <1>3, <1>5 DEF Inv, ClientInv

LEMMA PumpSafe == ASSUME Inv, NEW c \in Clients, WritePump(c) PROVE Inv'
<1>1. TypeOK'
  <2>1. CASE Take(c)
    BY <2>1 DEF Inv, TypeOK, Take, handler
  <2>2. CASE Write(c)
    BY <2>2 DEF Inv, TypeOK, Write, handler
  <2>3. CASE PumpEnds(c)
    BY <2>3 DEF Inv, TypeOK, PumpEnds, handler
  <2> QED BY <2>1, <2>2, <2>3 DEF WritePump
<1>2. ASSUME NEW d \in Clients \ {c} PROVE ClientInv(d)'
  BY <1>2, Bystander DEF Inv, TypeOK, WritePump, Take, Write, PumpEnds, handler, Untouched
<1>3. Lifecycle(c)' /\ Cursors(c)' /\ Filling(c)'
  BY DEF Inv, TypeOK, WritePump, Take, Write, PumpEnds, Waiting, handler, ClientInv,
         Lifecycle, Cursors, Filling
<1>4. InOrder(c)' /\ Recent(c)' /\ Complete(c)'
  BY DEF Inv, WritePump, Take, Write, PumpEnds, handler, ClientInv, InOrder, Recent, Complete
<1> QED BY <1>1, <1>2, <1>3, <1>4 DEF Inv, ClientInv

LEMMA DisconnectSafe == ASSUME Inv, NEW c \in Clients, Disconnect(c) PROVE Inv'
<1>1. TypeOK'
  BY DEF Inv, TypeOK, Disconnect, handler, pumpVars
<1>2. ASSUME NEW d \in Clients PROVE ClientInv(d)'
  BY <1>2, Bystander DEF Inv, Disconnect, handler, pumpVars, Untouched
<1> QED BY <1>1, <1>2 DEF Inv

(* A broadcast reaches every client at once.                               *)
LEMMA BroadcastSafe == ASSUME Inv, Broadcast PROVE Inv'
<1> USE BufferAssumption, OpeningsAssumption, BroadcastsAssumption
<1>1. sent \in Nat /\ sent' = sent + 1 /\ sent' \in Events
  BY DEF Inv, TypeOK, Broadcast, Events
<1>2. ASSUME NEW c \in Clients
      PROVE \/ channel'[c] = channel[c]
            \/ c \in registry /\ channel'[c] = Append(channel[c], sent')
  BY <1>1 DEF Broadcast
<1>3. ASSUME NEW c \in Clients
      PROVE channel'[c] \in Seq(Events) /\ dropped'[c] \in SUBSET Events
  BY <1>1, <1>2, Appended DEF Inv, TypeOK, Broadcast
<1>4. TypeOK'
  BY <1>1, <1>3 DEF Inv, TypeOK, Broadcast, handler, pumpVars
<1>5. ASSUME NEW c \in Clients PROVE ClientInv(c)'
  <2>1. /\ pc'[c] = pc[c] /\ opened'[c] = opened[c] /\ since'[c] = since[c]
        /\ registry' = registry /\ taken'[c] = taken[c] /\ written'[c] = written[c]
        /\ pump'[c] = pump[c] /\ closed'[c] = closed[c]
    BY DEF Broadcast, handler, pumpVars
  <2>2. ClientInv(c) /\ channel[c] \in Seq(Events) /\ Len(channel[c]) \in Nat
    BY DEF Inv, TypeOK
  <2>3. since[c] \in {-1} \cup Events /\ opened[c] \in Nat
    BY DEF Inv, TypeOK
  <2>4. CASE c \in registry /\ channel'[c] = Append(channel[c], sent')
    <3>1. /\ Len(channel'[c]) = Len(channel[c]) + 1
          /\ \A i \in 1..Len(channel[c]) : channel'[c][i] = channel[c][i]
          /\ channel'[c][Len(channel[c]) + 1] = sent'
      BY <1>1, <2>2, <2>4, Appended
    <3>2. Lifecycle(c)' /\ Cursors(c)' /\ Filling(c)'
      BY <1>1, <2>1, <2>2, <2>3, <2>4, <3>1
         DEF ClientInv, Lifecycle, Cursors, Filling, Events, Inv, TypeOK
    <3>3. \A i \in 1..Len(channel[c]) : channel[c][i] \in Nat /\ channel[c][i] <= sent
      BY <1>1, <2>2 DEF ClientInv, Recent, Opening, Events
    <3>4. InOrder(c)'
      <4> SUFFICES ASSUME NEW i \in 1..(Len(channel[c]) + 1), NEW j \in 1..(Len(channel[c]) + 1),
                          i < j, channel'[c][j] # Opening
                   PROVE channel'[c][i] < channel'[c][j]
        BY <3>1 DEF InOrder
      <4>1. CASE j = Len(channel[c]) + 1
        BY <1>1, <2>2, <3>1, <3>3, <4>1
      <4>2. CASE j \in 1..Len(channel[c])
        BY <2>2, <3>1, <4>2 DEF ClientInv, InOrder
      <4> QED BY <2>2, <4>1, <4>2
    <3>5. Recent(c)'
      <4> SUFFICES ASSUME NEW i \in 1..(Len(channel[c]) + 1), channel'[c][i] # Opening
                   PROVE since[c] < channel'[c][i] /\ channel'[c][i] <= sent + 1
        BY <1>1, <2>1, <3>1 DEF Recent
      <4>1. CASE i = Len(channel[c]) + 1
        BY <1>1, <2>2, <2>4, <3>1, <4>1 DEF ClientInv, Lifecycle
      <4>2. CASE i # Len(channel[c]) + 1
        <5>1. i \in 1..Len(channel[c]) /\ channel'[c][i] = channel[c][i]
          BY <2>2, <3>1, <4>2
        <5> QED BY <1>1, <2>2, <3>3, <5>1 DEF ClientInv, Recent
      <4> QED BY <4>1, <4>2
    <3>6. Complete(c)'
      <4> SUFFICES ASSUME NEW n \in (since[c] + 1)..(sent + 1), n \notin dropped'[c]
                   PROVE \E i \in 1..(Len(channel[c]) + 1) : channel'[c][i] = n
        BY <1>1, <2>1, <3>1 DEF Complete
      <4>1. CASE n = sent + 1
        BY <1>1, <2>2, <3>1, <4>1
      <4>2. CASE n # sent + 1
        <5>1. n \in (since[c] + 1)..sent /\ n \notin dropped[c]
          BY <1>1, <2>3, <4>2 DEF Broadcast, Events
        <5>2. PICK i \in 1..Len(channel[c]) : channel[c][i] = n
          BY <2>2, <2>4, <5>1 DEF ClientInv, Complete
        <5> QED BY <2>2, <3>1, <5>2
      <4> QED BY <4>1, <4>2
    <3> QED BY <3>2, <3>4, <3>5, <3>6 DEF ClientInv
  <2>5. CASE channel'[c] = channel[c]
    <3>1. InOrder(c)'
      BY <2>2, <2>5 DEF ClientInv, InOrder
    <3>4. Lifecycle(c)' /\ Cursors(c)' /\ Filling(c)'
      BY <1>1, <2>1, <2>2, <2>3, <2>5
         DEF ClientInv, Lifecycle, Cursors, Filling, Events, Inv, TypeOK
    <3>2. Recent(c)'
      <4> SUFFICES ASSUME NEW i \in 1..Len(channel[c]), channel[c][i] # Opening
                   PROVE since[c] < channel[c][i] /\ channel[c][i] <= sent + 1
        BY <1>1, <2>1, <2>5 DEF Recent
      <4>1. channel[c][i] \in Events
        BY <2>2
      <4>2. since[c] < channel[c][i] /\ channel[c][i] <= sent
        BY <2>2 DEF ClientInv, Recent
      <4> QED BY <1>1, <4>1, <4>2 DEF Events
    <3>3. Complete(c)'
      <4> SUFFICES ASSUME c \in registry, NEW n \in (since[c] + 1)..(sent + 1),
                          n \notin dropped'[c]
                   PROVE \E i \in 1..Len(channel[c]) : channel[c][i] = n
        BY <1>1, <2>1, <2>5 DEF Complete
      <4>1. Full(c)
        <5> SUFFICES ASSUME ~Full(c) PROVE FALSE
          OBVIOUS
        <5>1. channel'[c] = Append(channel[c], sent + 1)
          BY DEF Broadcast
        <5>2. Len(channel'[c]) = Len(channel[c]) + 1
          BY <1>1, <2>2, <5>1, Appended
        <5> QED BY <2>2, <2>5, <5>2
      <4>2. dropped'[c] = dropped[c] \cup {sent + 1}
        BY <4>1 DEF Broadcast
      <4>3. n \in (since[c] + 1)..sent /\ n \notin dropped[c]
        BY <1>1, <2>3, <4>2 DEF Events
      <4> QED BY <2>2, <4>3 DEF ClientInv, Complete
    <3> QED BY <3>1, <3>2, <3>3, <3>4 DEF ClientInv
  <2> QED BY <1>2, <2>4, <2>5
<1> QED BY <1>4, <1>5 DEF Inv

LEMMA StepSafe == Inv /\ [Next]_vars => Inv'
<1> SUFFICES ASSUME Inv, [Next]_vars PROVE Inv'
  OBVIOUS
<1>1. CASE Broadcast
  BY <1>1, BroadcastSafe
<1>2. ASSUME NEW c \in Clients, Handler(c) \/ WritePump(c) \/ Disconnect(c) PROVE Inv'
  BY <1>2, RegisterSafe, SendOpeningSafe, MovesSafe, PumpSafe, DisconnectSafe DEF Handler
<1>3. CASE UNCHANGED vars
  BY <1>3 DEF vars, Inv, TypeOK, ClientInv, Lifecycle, Cursors, Filling, InOrder, Recent,
              Complete
<1> QED BY <1>1, <1>2, <1>3 DEF Next

LEMMA InvIsInvariant == Spec => []Inv
BY InitSafe, StepSafe, PTL DEF Spec

----------------------------------------------------------------------------
(* Every variable keeps its type.                                          *)
THEOREM TypeCorrect == Spec => []TypeOK
<1>1. Inv => TypeOK
  BY DEF Inv
<1> QED BY <1>1, InvIsInvariant, PTL

(* No broadcast and no handler ever sends on a channel that is closed.     *)
THEOREM SendsAreSafe == Spec => []NoSendOnClosed
<1>1. Inv => NoSendOnClosed
  BY DEF Inv, NoSendOnClosed, ClientInv, Lifecycle, TypeOK
<1> QED BY <1>1, InvIsInvariant, PTL

(* A registered client has been put every broadcast made since it          *)
(* registered that its channel had room for, in the order they were made.  *)
THEOREM NothingIsMissed == Spec => []NothingMissed
<1>1. Inv => NothingMissed
  BY DEF Inv, NothingMissed, ClientInv, InOrder, Complete, TypeOK
<1> QED BY <1>1, InvIsInvariant, PTL

(* A handler blocks on its opening events only if more broadcasts were     *)
(* made since it registered than its channel has room for beside them.     *)
THEOREM BlocksWhenFlooded == Spec => []WedgedOnlyWhenFlooded
<1>1. Inv => WedgedOnlyWhenFlooded
  <2> SUFFICES ASSUME Inv, NEW c \in Clients,
                      pc[c] = "opening", Full(c), opened[c] < Openings
               PROVE sent - since[c] > Buffer - Openings
    BY DEF WedgedOnlyWhenFlooded, Wedged
  <2>1. taken[c] = 0 /\ Len(channel[c]) = Buffer
    BY BufferAssumption DEF Inv, TypeOK, ClientInv, Lifecycle, Cursors, Full, Waiting
  <2>2. Buffer <= opened[c] + (sent - since[c]) /\ opened[c] \in 0..Openings
    BY <2>1 DEF Inv, TypeOK, ClientInv, Filling
  <2>3. sent \in Int /\ since[c] \in Int
    BY DEF Inv, TypeOK, Events
  <2> QED BY <2>2, <2>3, BufferAssumption, OpeningsAssumption
<1> QED BY <1>1, InvIsInvariant, PTL

----------------------------------------------------------------------------
(* Only Write adds to what a client has seen.                              *)
LEMMA SeenStays ==
  ASSUME Inv, NEW c \in Clients, written'[c] = written[c],
         \A i \in 1..written[c] : channel'[c][i] = channel[c][i]
  PROVE Seen(c)' = Seen(c)
BY DEF Seen

(* Every step is one of the feed, or none.                                  *)
LEMMA FeedStep == ASSUME Inv, [Next]_vars PROVE [Feed!FeedNext]_Feed!feedVars
<1> DEFINE seen == [c \in Clients |-> Seen(c)]
<1>1. CASE Broadcast
  <2>1. ASSUME NEW c \in Clients PROVE Seen(c)' = Seen(c)
    <3>1. channel[c] \in Seq(Events) /\ written[c] \in Nat /\ written[c] <= Len(channel[c])
      BY DEF Inv, TypeOK, ClientInv, Cursors
    <3>2. sent + 1 \in Events
      BY <1>1, BroadcastsAssumption DEF Inv, TypeOK, Broadcast, Events
    <3>3. \A i \in 1..written[c] : channel'[c][i] = channel[c][i]
      BY <1>1, <3>1, <3>2, Appended DEF Broadcast
    <3> QED BY <1>1, <3>3, SeenStays DEF Broadcast, pumpVars
  <2>2. sent' = sent + 1 /\ since' = since
    BY <1>1 DEF Broadcast, handler
  <2> QED BY <2>1, <2>2 DEF Feed!FeedNext, Feed!Announce
<1>2. ASSUME NEW c \in Clients, Register(c) PROVE Feed!FeedNext
  <2>1. \A d \in Clients : Seen(d)' = Seen(d)
    BY <1>2 DEF Register, pumpVars, Seen
  <2>2. since[c] = -1 /\ since' = [since EXCEPT ![c] = sent] /\ sent' = sent
    BY <1>2 DEF Inv, ClientInv, Lifecycle, Register
  <2> QED BY <2>1, <2>2 DEF Feed!FeedNext, Feed!Subscribe
<1>3. ASSUME NEW c \in Clients, SendOpening(c) PROVE UNCHANGED Feed!feedVars
  <2>1. ASSUME NEW d \in Clients PROVE Seen(d)' = Seen(d)
    <3>1. channel[d] \in Seq(Events) /\ written[d] \in Nat /\ written[d] <= Len(channel[d])
      BY DEF Inv, TypeOK, ClientInv, Cursors
    <3>2. Opening \in Events
      BY BroadcastsAssumption DEF Opening, Events
    <3>3. \A i \in 1..written[d] : channel'[d][i] = channel[d][i]
      BY <1>3, <3>1, <3>2, Appended DEF SendOpening, Put, Inv, TypeOK
    <3> QED BY <1>3, <3>3, SeenStays DEF SendOpening, pumpVars
  <2> QED BY <1>3, <2>1 DEF SendOpening, Feed!feedVars
<1>4. ASSUME NEW c \in Clients,
             \/ StartPump(c) \/ Unregister(c) \/ Take(c) \/ PumpEnds(c) \/ Disconnect(c)
             \/ (Write(c) /\ written' = written)
      PROVE UNCHANGED Feed!feedVars
  <2>1. \A d \in Clients : Seen(d)' = Seen(d)
    BY <1>4 DEF StartPump, Unregister, Take, PumpEnds, Disconnect, Write, handler, pumpVars,
                Seen
  <2> QED BY <1>4, <2>1 DEF StartPump, Unregister, Take, PumpEnds, Disconnect, Write, handler,
                            pumpVars, Feed!feedVars
<1>5. ASSUME NEW c \in Clients, Write(c), written' = [written EXCEPT ![c] = taken[c]]
      PROVE [Feed!FeedNext]_Feed!feedVars
  <2> DEFINE n == channel[c][taken[c]]
  <2>1. /\ channel[c] \in Seq(Events) /\ written[c] \in Nat /\ taken[c] = written[c] + 1
        /\ taken[c] <= Len(channel[c]) /\ written'[c] = taken[c]
    BY <1>5 DEF Inv, TypeOK, ClientInv, Cursors, Write
  <2>2. sent' = sent /\ since' = since /\ channel' = channel
    BY <1>5 DEF Write, handler
  <2>3. \A d \in Clients \ {c} : Seen(d)' = Seen(d)
    BY <1>5, <2>2 DEF Seen, Inv, TypeOK
  <2>4. 1..taken[c] = 1..written[c] \cup {taken[c]}
    BY <2>1
  <2>5. Seen(c)' = Seen(c) \cup ({n} \ {Opening})
    BY <2>1, <2>2, <2>4 DEF Seen
  <2>6. CASE n = Opening
    <3>1. \A d \in Clients : Seen(d)' = Seen(d)
      BY <2>3, <2>5, <2>6
    <3> QED BY <2>2, <3>1 DEF Feed!feedVars
  <2>7. CASE n # Opening
    <3>1. since[c] < n /\ n <= sent /\ n \in Nat
      <4>1. taken[c] \in 1..Len(channel[c]) /\ n \in Events
        BY <2>1
      <4>2. since[c] < n /\ n <= sent
        BY <2>7, <4>1 DEF Inv, ClientInv, Recent
      <4> QED BY <4>1, <4>2, BroadcastsAssumption DEF Events
    <3>2. n \in 1..sent
      BY <2>1, <2>7, <3>1 DEF Opening, Inv, TypeOK, Events
    <3>3. since[c] # -1
      BY <1>5 DEF Inv, TypeOK, ClientInv, Lifecycle, Cursors, Write, Events
    <3>4. \A m \in Seen(c) : m < n
      BY <2>1, <2>7 DEF Inv, ClientInv, InOrder, Seen
    <3>5. Seen(c)' = Seen(c) \cup {n}
      BY <2>5, <2>7
    <3>6. seen' = [seen EXCEPT ![c] = Seen(c) \cup {n}]
      BY <2>3, <3>5
    <3>7. Feed!Deliver(c, n)
      BY <2>2, <3>1, <3>3, <3>4, <3>6 DEF Feed!Deliver
    <3> QED BY <3>2, <3>7 DEF Feed!FeedNext
  <2> QED BY <2>6, <2>7
<1>6. ASSUME UNCHANGED vars PROVE UNCHANGED Feed!feedVars
  BY <1>6 DEF vars, Feed!feedVars, Seen
<1> QED BY <1>1, <1>2, <1>3, <1>4, <1>5, <1>6 DEF Next, Handler, WritePump, Write

(* Both registries implement EventFeed: a client is sent broadcasts made   *)
(* after it was registered, in order, none twice.                          *)
THEOREM ImplementsFeed == Spec => FeedSpec
<1>1. Init => Feed!FeedInit
  BY DEF Init, Feed!FeedInit, Seen
<1> QED BY <1>1, FeedStep, InvIsInvariant, PTL DEF Spec, FeedSpec, Feed!FeedSpec
=============================================================================
