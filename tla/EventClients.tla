---------------------------- MODULE EventClients ----------------------------
(***************************************************************************)
(* The websocket subscribers of one room (roomEvents, backend/internal/    *)
(* httpapi/rooms.go) or of the reports (reportEvents, report_events.go):   *)
(* the two registries differ only in how many opening events a new client  *)
(* is sent.                                                                *)
(*                                                                         *)
(* Every client has a buffered channel `send'.  Its handler goroutine      *)
(* registers it, puts the opening events into the channel, starts the      *)
(* goroutine writePump and reads until the connection fails; then it       *)
(* deletes the client and closes the channel under the registry's lock.    *)
(* A broadcast puts an event into the channel of every registered client   *)
(* under the same lock, and drops it where the channel is full.            *)
(*                                                                         *)
(* The channel is the sequence of everything put into it and a count of    *)
(* what writePump has taken out.                                           *)
(***************************************************************************)
EXTENDS Integers, Sequences

CONSTANTS
  Clients,       \* connections that are made
  Buffer,        \* capacity of a client's channel (16 in the code)
  Openings,      \* opening events: 2 for a room, 1 for the reports
  MaxBroadcasts  \* bound: broadcasts that are made

ASSUME BufferAssumption == Buffer \in Nat \ {0}
ASSUME OpeningsAssumption == Openings \in 1..Buffer
ASSUME BroadcastsAssumption == MaxBroadcasts \in Nat

VARIABLES
  pc,        \* where the handler of each connection is
  opened,    \* opening events it has sent
  registry,  \* the clients a broadcast reaches
  sent,      \* broadcasts made
  since,     \* broadcasts made before a client was registered, or -1
  channel,   \* events put into client.send: 0 for an opening event, else a broadcast
  taken,     \* how many of them writePump has received from it
  written,   \* how many it has written to the connection
  pump,      \* writePump: not started, running, returned
  closed,    \* close(client.send) was called
  up,        \* the connection works
  dropped    \* broadcasts dropped because the channel was full

handler == <<pc, opened, registry, since, closed>>
pumpVars == <<taken, written, pump>>
vars == <<pc, opened, registry, sent, since, channel, taken, written, pump, closed, up,
          dropped>>

Opening == 0

Waiting(c) == Len(channel[c]) - taken[c]
Full(c) == Waiting(c) = Buffer
Put(c, event) == channel' = [channel EXCEPT ![c] = Append(channel[c], event)]

----------------------------------------------------------------------------
Init ==
  /\ pc = [c \in Clients |-> "connecting"]
  /\ opened = [c \in Clients |-> 0]
  /\ registry = {}
  /\ sent = 0
  /\ since = [c \in Clients |-> -1]
  /\ channel = [c \in Clients |-> <<>>]
  /\ taken = [c \in Clients |-> 0]
  /\ written = [c \in Clients |-> 0]
  /\ pump = [c \in Clients |-> "none"]
  /\ closed = [c \in Clients |-> FALSE]
  /\ up = [c \in Clients |-> TRUE]
  /\ dropped = [c \in Clients |-> {}]

(* registerRoomEventClient, registerReportEventClient.                     *)
Register(c) ==
  /\ pc[c] = "connecting"
  /\ pc' = [pc EXCEPT ![c] = "opening"]
  /\ registry' = registry \cup {c}
  /\ since' = [since EXCEPT ![c] = sent]
  /\ UNCHANGED <<opened, sent, channel, pumpVars, closed, up, dropped>>

(* Mutant: one opening event too many.                                     *)
SendOpeningMutant(c) ==
  /\ pc[c] = "opening"
  /\ opened[c] <= Openings
  /\ ~Full(c)
  /\ Put(c, Opening)
  /\ opened' = [opened EXCEPT ![c] = opened[c] + 1]
  /\ UNCHANGED <<pc, registry, sent, since, pumpVars, closed, up, dropped>>

(* Mutant: every opening event is sent twice.                              *)
SendOpeningTwiceMutant(c) ==
  /\ pc[c] = "opening"
  /\ opened[c] < Openings
  /\ ~Full(c)
  /\ channel' = [channel EXCEPT ![c] = channel[c] \o <<Opening, Opening>>]
  /\ opened' = [opened EXCEPT ![c] = opened[c] + 1]
  /\ UNCHANGED <<pc, registry, sent, since, pumpVars, closed, up, dropped>>

(* client.send <- event in the handler: blocks while the channel is full.  *)
SendOpening(c) ==
  /\ pc[c] = "opening"
  /\ opened[c] < Openings
  /\ ~Full(c)
  /\ Put(c, Opening)
  /\ opened' = [opened EXCEPT ![c] = opened[c] + 1]
  /\ UNCHANGED <<pc, registry, sent, since, pumpVars, closed, up, dropped>>

(* go client.writePump(); the handler goes on to its read loop.            *)
StartPump(c) ==
  /\ pc[c] = "opening"
  /\ opened[c] = Openings
  /\ pc' = [pc EXCEPT ![c] = "reading"]
  /\ pump' = [pump EXCEPT ![c] = "running"]
  /\ UNCHANGED <<opened, registry, sent, since, channel, taken, written, closed, up, dropped>>

(* Mutant: the client stays in the map when its channel is closed.         *)
UnregisterMutant(c) ==
  /\ pc[c] = "reading"
  /\ ~up[c]
  /\ pc' = [pc EXCEPT ![c] = "left"]
  /\ closed' = [closed EXCEPT ![c] = TRUE]
  /\ UNCHANGED <<opened, registry, sent, since, channel, pumpVars, up, dropped>>

(* The read loop ends and the deferred unregister deletes the client and   *)
(* closes its channel in one critical section, and its connection.         *)
Unregister(c) ==
  /\ pc[c] = "reading"
  /\ ~up[c]
  /\ pc' = [pc EXCEPT ![c] = "left"]
  /\ registry' = registry \ {c}
  /\ closed' = [closed EXCEPT ![c] = TRUE]
  /\ UNCHANGED <<opened, sent, since, channel, pumpVars, up, dropped>>

----------------------------------------------------------------------------
(* writePump: `range client.send' receives what is next, even after close. *)
Take(c) ==
  /\ pump[c] = "running"
  /\ taken[c] = written[c]
  /\ Waiting(c) > 0
  /\ taken' = [taken EXCEPT ![c] = taken[c] + 1]
  /\ UNCHANGED <<handler, sent, channel, written, pump, up, dropped>>

(* Mutant: a failed write is tried again for ever.                         *)
WriteMutant(c) ==
  /\ pump[c] = "running"
  /\ taken[c] = written[c] + 1
  /\ pc[c] # "left"
  /\ written' = [written EXCEPT ![c] = taken[c]]
  /\ UNCHANGED <<handler, sent, channel, taken, pump, up, dropped>>

(* WriteJSON: a broken connection may take some more before it fails; one  *)
(* the handler has closed takes nothing.                                   *)
Write(c) ==
  /\ pump[c] = "running"
  /\ taken[c] = written[c] + 1
  /\ \/ /\ pc[c] # "left"
        /\ written' = [written EXCEPT ![c] = taken[c]]
        /\ UNCHANGED pump
     \/ /\ ~up[c]
        /\ pump' = [pump EXCEPT ![c] = "done"]
        /\ UNCHANGED written
  /\ UNCHANGED <<handler, sent, channel, taken, up, dropped>>

(* Mutant: the pump returns when it finds the channel empty.               *)
PumpEndsMutant(c) ==
  /\ pump[c] = "running"
  /\ taken[c] = written[c]
  /\ Waiting(c) = 0
  /\ pump' = [pump EXCEPT ![c] = "done"]
  /\ UNCHANGED <<handler, sent, channel, taken, written, up, dropped>>

(* The channel is closed and drained: the range ends.                      *)
PumpEnds(c) ==
  /\ pump[c] = "running"
  /\ taken[c] = written[c]
  /\ closed[c]
  /\ Waiting(c) = 0
  /\ pump' = [pump EXCEPT ![c] = "done"]
  /\ UNCHANGED <<handler, sent, channel, taken, written, up, dropped>>

----------------------------------------------------------------------------
(* Mutant: a client is served only once its pump runs.                     *)
BroadcastMutant ==
  /\ sent < MaxBroadcasts
  /\ sent' = sent + 1
  /\ channel' = [c \in Clients |->
       IF c \in registry /\ ~Full(c) /\ pump[c] = "running"
       THEN Append(channel[c], sent + 1) ELSE channel[c]]
  /\ dropped' = [c \in Clients |->
       IF c \in registry /\ Full(c) THEN dropped[c] \cup {sent + 1} ELSE dropped[c]]
  /\ UNCHANGED <<handler, pumpVars, up>>

(* Mutant: without the lock, an event may overtake the one before it.      *)
BroadcastRaceMutant ==
  /\ sent < MaxBroadcasts
  /\ sent' = sent + 1
  /\ channel' = [c \in Clients |->
       IF c \in registry /\ ~Full(c)
       THEN IF Waiting(c) = 0 THEN Append(channel[c], sent + 1)
            ELSE SubSeq(channel[c], 1, Len(channel[c]) - 1)
                   \o <<sent + 1, channel[c][Len(channel[c])]>>
       ELSE channel[c]]
  /\ UNCHANGED <<handler, pumpVars, up, dropped>>

(* broadcastRoomEvent, broadcastReportEvent: a select with a default.      *)
Broadcast ==
  /\ sent < MaxBroadcasts
  /\ sent' = sent + 1
  /\ channel' = [c \in Clients |->
       IF c \in registry /\ ~Full(c) THEN Append(channel[c], sent + 1) ELSE channel[c]]
  /\ dropped' = [c \in Clients |->
       IF c \in registry /\ Full(c) THEN dropped[c] \cup {sent + 1} ELSE dropped[c]]
  /\ UNCHANGED <<handler, pumpVars, up>>

(* The browser goes away, or the network does.                             *)
Disconnect(c) ==
  /\ up[c]
  /\ up' = [up EXCEPT ![c] = FALSE]
  /\ UNCHANGED <<handler, sent, channel, pumpVars, dropped>>

Handler(c) == Register(c) \/ SendOpening(c) \/ StartPump(c) \/ Unregister(c)
WritePump(c) == Take(c) \/ Write(c) \/ PumpEnds(c)

Next ==
  \/ Broadcast
  \/ \E c \in Clients : Handler(c) \/ WritePump(c) \/ Disconnect(c)

Spec == Init /\ [][Next]_vars

(* Go schedules every goroutine that can run.  Nobody has to broadcast or  *)
(* to disconnect.                                                          *)
Fairness == \A c \in Clients : WF_vars(Handler(c)) /\ WF_vars(WritePump(c))

FairSpec == Spec /\ Fairness

----------------------------------------------------------------------------
Events == 0..MaxBroadcasts

TypeOK ==
  /\ pc \in [Clients -> {"connecting", "opening", "reading", "left"}]
  /\ opened \in [Clients -> 0..Openings]
  /\ registry \in SUBSET Clients
  /\ sent \in Events
  /\ since \in [Clients -> {-1} \cup Events]
  /\ channel \in [Clients -> Seq(Events)]
  /\ taken \in [Clients -> Nat]
  /\ written \in [Clients -> Nat]
  /\ pump \in [Clients -> {"none", "running", "done"}]
  /\ closed \in [Clients -> BOOLEAN]
  /\ up \in [Clients -> BOOLEAN]
  /\ dropped \in [Clients -> SUBSET Events]

(* Nothing is ever sent on a closed channel, which would panic and take    *)
(* the backend down: not by a broadcast, and not by the handler that is    *)
(* still sending its opening events.                                       *)
NoSendOnClosed ==
  \A c \in Clients : c \in registry \/ pc[c] = "opening" => ~closed[c]

(* What reaches a channel is in the order of the broadcasts, and every     *)
(* broadcast made since its client was registered is in its channel,       *)
(* unless the channel was full.  Of what was broadcast before that, after  *)
(* the snapshot the opening events are made of, nothing is said: roomEvents*)
(* takes the snapshot first and registers the client then, and such a      *)
(* change is in neither.                                                   *)
NothingMissed ==
  \A c \in registry :
    /\ \A i, j \in 1..Len(channel[c]) :
         i < j /\ channel[c][j] # Opening => channel[c][i] < channel[c][j]
    /\ \A n \in (since[c] + 1)..sent \ dropped[c] :
         \E i \in 1..Len(channel[c]) : channel[c][i] = n

(* The handler puts its opening events into a channel nobody reads yet.    *)
(* It can block there only if more broadcasts were made since its client   *)
(* was registered than the channel has room for beside those events.       *)
Wedged(c) == pc[c] = "opening" /\ Full(c) /\ opened[c] < Openings
WedgedOnlyWhenFlooded ==
  \A c \in Clients : Wedged(c) => sent - since[c] > Buffer - Openings

(* The order and the range of what a client is sent: an implementation of  *)
(* EventFeed.                                                              *)
Seen(c) == {channel[c][i] : i \in 1..written[c]} \ {Opening}
Feed == INSTANCE EventFeed WITH seen <- [c \in Clients |-> Seen(c)]
FeedSpec == Feed!FeedSpec

(* A connection that has failed leaves nothing behind: its handler         *)
(* unregisters it and both goroutines return, unless the handler is        *)
(* blocked for good on its opening events.                                 *)
CleansUp ==
  \A c \in Clients :
    ~up[c] ~> Wedged(c) \/ (pc[c] = "left" /\ c \notin registry /\ pump[c] = "done")

(* What is in the channel is written, as long as the connection works.     *)
Delivers ==
  \A c \in Clients, n \in 1..MaxBroadcasts :
    (n \in {channel[c][i] : i \in 1..Len(channel[c])})
      ~> (n \in Seen(c) \/ ~up[c] \/ Wedged(c))
=============================================================================
