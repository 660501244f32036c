----------------------------- MODULE RoomsProofs -----------------------------
(***************************************************************************)
(* Proofs about Rooms for any users, requests, devices, reports and times. *)
(* The invariant adds to the checked properties what the arithmetic needs: *)
(* a device changed last between its user's join and now.                  *)
(***************************************************************************)
EXTENDS Rooms, WellFoundedInduction, TLAPS

(* The types but for the times, which are bounded because they are exact.  *)
RoomTypes ==
  /\ status \in {"none", "open", "closed"}
  /\ participants \subseteq Users
  /\ owner \in Users \cup {Nobody}
  /\ inside \subseteq Users
  /\ attended \subseteq Users
ShownTypes ==
  /\ recording \in RecordingStates
  /\ report \in Reports \cup {NoReport}
  /\ pc \in [Callers -> {"idle", "joined", "left", "record", "status"}]
  /\ seen \in [Callers -> Snapshot]
MediaTypes ==
  /\ enabled \in [Users -> [Devices -> BOOLEAN]]
  /\ changed \in [Users -> [Devices -> Times]]
  /\ off \in [Users -> [Devices -> Times]]
  /\ joinedAt \in [Users -> Times]
  /\ now \in Times
  /\ dark \in [Users -> [Devices -> Times]]
ArchiveType == archive \in [Users -> Percentages \cup {NoShares}]

(* What OffTimeIsExact rests on, of one user.                              *)
Timely(u) ==
  \A d \in Devices :
    /\ joinedAt[u] <= changed[u][d]
    /\ changed[u][d] <= now
    /\ OffTime(u, d) = dark[u][d]
    /\ OffTime(u, d) <= now - joinedAt[u]
AllTimely == \A u \in participants : Timely(u)

Listed ==
  /\ inside \subseteq participants
  /\ \A u \in attended : u \in participants \/ archive[u] # NoShares

IInv == RoomTypes /\ ShownTypes /\ MediaTypes /\ ArchiveType /\ AllTimely
          /\ HasHost /\ ClosedIsLeft /\ Listed

----------------------------------------------------------------------------
(* firstParticipantID finds a participant of a room that has any.          *)
LEMMA FirstIsIn ==
  ASSUME NEW S \in SUBSET Users, S # {}
  PROVE  First(S) \in S
<1>1. S \subseteq Nat
  BY UsersAssumption
<1>2. PICK m \in S : \A n \in S : ~(<<n, m>> \in OpToRel(<, Nat))
  BY <1>1, NatLessThanWellFounded, WFMin
<1>3. ASSUME NEW n \in S PROVE m <= n
  <2>1. ~(<<n, m>> \in OpToRel(<, Nat))
    BY <1>2
  <2>2. <<n, m>> \in Nat \X Nat
    BY <1>1
  <2>3. ~(n < m)
    BY <2>1, <2>2 DEF OpToRel
  <2> QED
    BY <1>1, <2>3
<1> QED
  BY <1>3 DEF First

(* The room shows something else, or a request goes on: nothing is changed *)
(* of who is there.                                                        *)
LEMMA ShownStep ==
  ASSUME IInv, ShownTypes', UNCHANGED <<participants, owner, media, now, aux>>,
         status' \in {status, "open"}
  PROVE  IInv'
<1> USE DEF IInv, media, aux
<1>1. RoomTypes' /\ MediaTypes' /\ ArchiveType'
  BY DEF RoomTypes, MediaTypes, ArchiveType
<1>2. AllTimely' /\ HasHost' /\ ClosedIsLeft' /\ Listed'
  BY DEF AllTimely, Timely, OffTime, HasHost, ClosedIsLeft, Listed
<1> QED
  BY <1>1, <1>2

LEMMA Remembering ==
  ASSUME IInv, NEW state \in RecordingStates, NEW r \in Reports \cup {NoReport},
         Remember(state, r)
  PROVE  /\ status' \in {status, "open"}
         /\ recording' \in RecordingStates /\ report' \in Reports \cup {NoReport}
BY DEF IInv, ShownTypes, Remember

LEMMA Requests ==
  ASSUME ShownTypes, NEW c \in Callers
  PROVE  /\ Done(c) => pc' \in [Callers -> {"idle", "joined", "left", "record", "status"}]
                         /\ seen' \in [Callers -> Snapshot]
         /\ \A step \in {"joined", "left", "record", "status"}, state \in RecordingStates,
               r \in Reports \cup {NoReport} :
              Hold(c, step, state, r) =>
                /\ pc' \in [Callers -> {"idle", "joined", "left", "record", "status"}]
                /\ seen' \in [Callers -> Snapshot]
<1>1. NoSnapshot \in Snapshot
  BY DEF NoSnapshot, Snapshot, RecordingStates
<1>2. ASSUME NEW state \in RecordingStates, NEW r \in Reports \cup {NoReport}
      PROVE  [state |-> state, report |-> r] \in Snapshot
  BY DEF Snapshot
<1> QED
  BY <1>1, <1>2 DEF ShownTypes, Done, Hold

----------------------------------------------------------------------------
(* A participant that enters, by a request or a webhook.                   *)
LEMMA Entering ==
  ASSUME IInv, NEW u \in Users, NEW values \in [Devices -> BOOLEAN], FreshDevices(u, values),
         joinedAt' = [joinedAt EXCEPT ![u] = now], dark' = [dark EXCEPT ![u] = NoTimes],
         now' = now, participants' = participants \cup {u}
  PROVE  MediaTypes' /\ AllTimely'
<1> USE TimeAssumption DEF IInv, MediaTypes, Times
<1>1. MediaTypes'
  BY DEF FreshDevices, NoTimes
<1>2. Timely(u)'
  BY DEF FreshDevices, NoTimes, Timely, OffTime
<1>3. ASSUME NEW v \in participants, v # u PROVE Timely(v)'
  <2>1. v \in Users /\ Timely(v)
    BY DEF RoomTypes, AllTimely
  <2>2. /\ enabled'[v] = enabled[v] /\ changed'[v] = changed[v] /\ off'[v] = off[v]
        /\ joinedAt'[v] = joinedAt[v] /\ dark'[v] = dark[v]
    BY <1>3, <2>1 DEF FreshDevices
  <2> QED
    BY <2>1, <2>2 DEF Timely, OffTime
<1> QED
  BY <1>1, <1>2, <1>3 DEF AllTimely

(* A participant whose devices change.                                     *)
LEMMA Changing ==
  ASSUME IInv, NEW u \in participants, NEW D \in SUBSET Devices,
         NEW values \in [Devices -> BOOLEAN], SetEnabled(u, D, values),
         UNCHANGED <<joinedAt, dark, now, participants>>
  PROVE  MediaTypes' /\ AllTimely'
<1> USE TimeAssumption DEF IInv, MediaTypes, Times
<1>1. u \in Users /\ Timely(u)
  BY DEF RoomTypes, AllTimely
<1>2. \A d \in Devices : OffTime(u, d) \in 0..MaxTime
  BY <1>1 DEF Timely, OffTime
<1>3. MediaTypes'
  BY <1>1, <1>2 DEF SetEnabled
<1>4. Timely(u)'
  BY <1>1 DEF SetEnabled, Timely, OffTime
<1>5. ASSUME NEW v \in participants, v # u PROVE Timely(v)'
  <2>1. v \in Users /\ Timely(v)
    BY DEF RoomTypes, AllTimely
  <2>2. enabled'[v] = enabled[v] /\ changed'[v] = changed[v] /\ off'[v] = off[v]
    BY <1>1, <1>5, <2>1 DEF SetEnabled
  <2> QED
    BY <2>1, <2>2 DEF Timely, OffTime
<1> QED
  BY <1>3, <1>4, <1>5 DEF AllTimely

(* The shares of a participant are percentages.                            *)
LEMMA SharesArePercentages ==
  ASSUME IInv, NEW u \in participants
  PROVE  Shares(u) \in Percentages /\ Shares(u) # NoShares
<1> DEFINE total == now - joinedAt[u]
<1>1. u \in Users /\ total \in Int
  BY TimeAssumption DEF IInv, RoomTypes, MediaTypes, Times
<1>2. ASSUME NEW d \in Devices PROVE Shares(u)[d] \in 0..100
  <2>1. OffTime(u, d) * 100 \in Int
    BY <1>1, TimeAssumption DEF IInv, MediaTypes, Times, OffTime
  <2>2. CASE total <= 0
    BY <2>2 DEF Shares
  <2>3. CASE ~(total <= 0)
    <3>1. (OffTime(u, d) * 100) \div total \in Int
      BY <1>1, <2>1, <2>3
    <3>2. Shares(u)[d] = clampScore((OffTime(u, d) * 100) \div total)
      BY <2>3 DEF Shares
    <3> QED
      BY <3>1, <3>2 DEF clampScore
  <2> QED
    BY <2>2, <2>3
<1>3. Shares(u) \in Percentages
  BY <1>2 DEF Shares, Percentages
<1>4. PICK d \in Devices : TRUE
  BY DevicesAssumption
<1>5. Shares(u)[d] # NoShares[d]
  BY <1>2 DEF NoShares
<1> QED
  BY <1>3, <1>5

----------------------------------------------------------------------------
(* joinRoomState, of an open room and of a new one.                        *)
LEMMA JoinStep ==
  ASSUME IInv, NEW c \in Callers, NEW u \in Users, NEW host \in BOOLEAN,
         NEW values \in [Devices -> BOOLEAN], Join(c, u, host, values)
  PROVE  IInv'
<1> USE DEF IInv
<1>1. CASE status = "open"
  <2>1. JoinOpen(u, values)
    BY <1>1 DEF Join
  <2>2. MediaTypes' /\ AllTimely'
    <3>1. now' = now /\ participants' = participants \cup {u}
      BY <2>1 DEF Join, JoinOpen
    <3>2. CASE u \in participants
      <4>1. participants' = participants
        BY <3>1, <3>2
      <4> QED
        BY <2>1, <3>1, <3>2, <4>1, Changing DEF JoinOpen
    <3>3. CASE u \notin participants
      BY <2>1, <3>1, <3>3, Entering DEF JoinOpen
    <3> QED
      BY <3>2, <3>3
  <2>3. RoomTypes' /\ ArchiveType'
    BY <2>1 DEF Join, JoinOpen, RoomTypes, ArchiveType
  <2>4. recording' \in RecordingStates /\ report' \in Reports \cup {NoReport}
    BY <2>1 DEF JoinOpen, shown, ShownTypes
  <2>6. ShownTypes'
    BY <2>4, Requests DEF Join, ShownTypes
  <2>5. HasHost' /\ ClosedIsLeft' /\ Listed'
    BY <1>1, <2>1, UsersAssumption
       DEF Join, JoinOpen, RoomTypes, HasHost, ClosedIsLeft, Listed, Nobody
  <2> QED
    BY <2>2, <2>3, <2>6, <2>5
<1>2. CASE status # "open"
  <2>1. JoinNew(u, values) /\ now' = now /\ owner' = u
    BY <1>2 DEF Join
  <2>2. MediaTypes' /\ AllTimely'
    BY <2>1, TimeAssumption
       DEF JoinNew, MediaTypes, AllTimely, Timely, OffTime, AllOff, NoTimes, Times
  <2>3. RoomTypes' /\ ArchiveType'
    BY <2>1 DEF JoinNew, RoomTypes, ArchiveType
  <2>4. recording' \in RecordingStates /\ report' \in Reports \cup {NoReport}
    BY <2>1 DEF JoinNew, RecordingStates
  <2>5. ShownTypes'
    BY <2>4, Requests DEF Join, ShownTypes
  <2>6. HasHost' /\ ClosedIsLeft' /\ Listed'
    BY <2>1, UsersAssumption DEF JoinNew, HasHost, ClosedIsLeft, Listed, Nobody
  <2> QED
    BY <2>2, <2>3, <2>5, <2>6
<1> QED
  BY <1>1, <1>2

(* leaveRoomState.                                                         *)
LEMMA LeaveStep ==
  ASSUME IInv, NEW c \in Callers, NEW u \in Users, Leave(c, u)
  PROVE  IInv'
<1> DEFINE rest == participants \ {u}
<1> USE DEF IInv
<1>1. LeaveEntry(u) /\ LeaveMedia(u) /\ now' = now
  BY DEF Leave
<1>2. rest # {} => First(rest) \in rest
  BY FirstIsIn DEF RoomTypes
<1>3. RoomTypes'
  BY <1>1, <1>2 DEF Leave, LeaveEntry, NextOwner, RoomTypes
<1>4. ShownTypes'
  <2>1. "idle" \in RecordingStates /\ NoReport \in Reports \cup {NoReport}
    BY DEF RecordingStates
  <2>2. UNCHANGED shown /\ Hold(c, "left", "idle", NoReport)
    BY DEF Leave
  <2> QED
    BY <2>1, <2>2, Requests DEF shown, ShownTypes
<1>5. MediaTypes'
  BY <1>1, TimeAssumption DEF LeaveMedia, MediaTypes, AllOff, NoTimes, Times
<1>6. ArchiveType'
  BY <1>1, SharesArePercentages DEF LeaveMedia, ArchiveType
<1>7. AllTimely'
  <2>1. ASSUME NEW v \in participants' PROVE Timely(v)'
    <3>1. v \in Users /\ v # u /\ Timely(v)
      BY <1>1 DEF LeaveEntry, RoomTypes, AllTimely
    <3>2. /\ enabled'[v] = enabled[v] /\ changed'[v] = changed[v] /\ off'[v] = off[v]
          /\ joinedAt'[v] = joinedAt[v] /\ dark'[v] = dark[v]
      BY <1>1, <3>1 DEF LeaveMedia, MediaTypes
    <3> QED
      BY <1>1, <3>1, <3>2 DEF Timely, OffTime
  <2> QED
    BY <2>1 DEF AllTimely
<1>8. HasHost' /\ ClosedIsLeft'
  BY <1>1, <1>2, UsersAssumption
     DEF Leave, LeaveEntry, NextOwner, RoomTypes, HasHost, ClosedIsLeft, Listed, Nobody
<1>9. Listed'
  BY <1>1, SharesArePercentages
     DEF Leave, LeaveEntry, LeaveMedia, RoomTypes, ArchiveType, Listed
<1> QED
  BY <1>3, <1>4, <1>5, <1>6, <1>7, <1>8, <1>9

LEMMA DeviceStep ==
  ASSUME IInv, NEW u \in Users, NEW d \in Devices, NEW value \in BOOLEAN,
         ApplyDeviceState(u, d, value)
  PROVE  IInv'
<1> USE DEF IInv, entry, shown, requests, aux
<1>1. MediaTypes' /\ AllTimely'
  <2>1. [e \in Devices |-> value] \in [Devices -> BOOLEAN] /\ {d} \in SUBSET Devices
    OBVIOUS
  <2> QED
    BY <2>1, Changing DEF ApplyDeviceState
<1>2. RoomTypes' /\ ArchiveType' /\ ShownTypes'
  BY DEF ApplyDeviceState, RoomTypes, ArchiveType, ShownTypes
<1>3. HasHost' /\ ClosedIsLeft' /\ Listed'
  BY DEF ApplyDeviceState, HasHost, ClosedIsLeft, Listed
<1> QED
  BY <1>1, <1>2, <1>3

(* LiveKit adds a participant: it owns nothing and nobody has left.        *)
LEMMA WebhookStep ==
  ASSUME IInv, NEW u \in Users, ParticipantWebhook(u)
  PROVE  IInv'
<1> USE DEF IInv, shown, requests
<1>1. MediaTypes' /\ AllTimely'
  <2>1. CASE u \in participants
    <3>1. participants' = participants
      BY <2>1 DEF ParticipantWebhook
    <3> QED
      BY <2>1, <3>1 DEF ParticipantWebhook, MediaTypes, AllTimely, Timely, OffTime
  <2>2. CASE u \notin participants
    <3>1. AllOff \in [Devices -> BOOLEAN]
      BY DEF AllOff
    <3> QED
      BY <2>2, <3>1, Entering DEF ParticipantWebhook
  <2> QED
    BY <2>1, <2>2
<1>2. RoomTypes' /\ ArchiveType' /\ ShownTypes'
  BY DEF ParticipantWebhook, RoomTypes, ArchiveType, ShownTypes
<1>3. HasHost' /\ ClosedIsLeft' /\ Listed'
  BY DEF ParticipantWebhook, Exists, HasHost, ClosedIsLeft, Listed
<1> QED
  BY <1>1, <1>2, <1>3

LEMMA RestartStep == ASSUME IInv, Restart PROVE IInv'
<1>1. NoSnapshot \in Snapshot
  BY DEF NoSnapshot, Snapshot, RecordingStates
<1>2. RoomTypes' /\ ShownTypes' /\ ArchiveType'
  BY <1>1 DEF Restart, RoomTypes, ShownTypes, ArchiveType, RecordingStates
<1>3. MediaTypes'
  BY TimeAssumption DEF IInv, Restart, MediaTypes, AllOff, NoTimes, Times
<1>4. AllTimely' /\ HasHost' /\ ClosedIsLeft' /\ Listed'
  BY DEF Restart, AllTimely, HasHost, ClosedIsLeft, Listed
<1> QED
  BY <1>2, <1>3, <1>4 DEF IInv

(* A tick adds to what every open period has lasted.                       *)
LEMMA TickStep == ASSUME IInv, Tick PROVE IInv'
<1> USE TimeAssumption DEF IInv, entry, shown, media, requests
<1>1. now' \in Times
  BY DEF Tick, MediaTypes, Times
<1>2. ASSUME NEW u \in participants PROVE Timely(u)'
  <2>1. u \in Users /\ Timely(u)
    BY DEF RoomTypes, AllTimely
  <2>2. ASSUME NEW d \in Devices
        PROVE  /\ dark'[u][d] = IF enabled[u][d] THEN dark[u][d] ELSE dark[u][d] + 1
               /\ off[u][d] \in Times /\ changed[u][d] \in Times /\ joinedAt[u] \in Times
               /\ dark[u][d] \in Times /\ now \in Times /\ now' = now + 1
    BY <2>1 DEF Tick, MediaTypes
  <2>3. enabled' = enabled /\ changed' = changed /\ off' = off /\ joinedAt' = joinedAt
    BY DEF Tick
  <2> QED
    BY <2>1, <2>2, <2>3 DEF Times, Timely, OffTime
<1>3. AllTimely'
  BY <1>2 DEF Tick, AllTimely
<1>4. ASSUME NEW u \in Users, NEW d \in Devices PROVE dark'[u][d] \in Times
  <2>1. CASE u \in participants
    <3>1. Timely(u)' /\ now' \in Int /\ joinedAt'[u] \in Times /\ off'[u][d] \in Times
          /\ changed'[u][d] \in Times
      BY <1>1, <1>2, <2>1 DEF Tick, MediaTypes, Times
    <3> QED
      BY <1>1, <3>1 DEF Timely, OffTime, Times
  <2>2. CASE u \notin participants
    BY <2>2 DEF Tick, MediaTypes
  <2> QED
    BY <2>1, <2>2
<1>5. MediaTypes'
  BY <1>1, <1>4 DEF Tick, MediaTypes
<1>6. RoomTypes' /\ ShownTypes' /\ ArchiveType'
  BY DEF Tick, RoomTypes, ShownTypes, ArchiveType
<1>7. HasHost' /\ ClosedIsLeft' /\ Listed'
  BY DEF Tick, HasHost, ClosedIsLeft, Listed
<1> QED
  BY <1>3, <1>5, <1>6, <1>7

LEMMA StutterStep == ASSUME IInv, UNCHANGED vars PROVE IInv'
<1> USE DEF vars, entry, shown, media, requests, aux
<1>1. ShownTypes' /\ status' \in {status, "open"}
  BY DEF IInv, ShownTypes
<1> QED
  BY <1>1, ShownStep

(* Everything a request or a webhook writes of the recording.              *)
LEMMA RememberStep ==
  ASSUME IInv, NEW c \in Callers,
         \/ JoinRemembered(c) \/ LeaveAnswered(c) \/ RecordingAnswered(c)
         \/ StatusAnswered(c) \/ EgressWebhook \/ PublishReady
  PROVE  IInv'
<1> USE DEF IInv
<1>1. UNCHANGED <<participants, owner, media, now, aux>>
  BY DEF JoinRemembered, LeaveAnswered, RecordingAnswered, StatusAnswered, EgressWebhook,
         PublishReady
<1>2. seen[c].state \in RecordingStates /\ seen[c].report \in Reports \cup {NoReport}
  BY DEF ShownTypes, Snapshot
<1>3. /\ status' \in {status, "open"}
      /\ recording' \in RecordingStates /\ report' \in Reports \cup {NoReport}
  <2>1. CASE UNCHANGED <<status, shown>>
    BY <2>1 DEF shown, ShownTypes
  <2>2. CASE \E state \in RecordingStates, r \in Reports \cup {NoReport} : Remember(state, r)
    BY <2>2, Remembering
  <2>3. "busy" \in RecordingStates
    BY DEF RecordingStates
  <2> QED
    BY <1>2, <2>1, <2>2, <2>3
       DEF JoinRemembered, LeaveAnswered, RecordingAnswered, StatusAnswered, EgressWebhook,
           PublishReady
<1>4. ShownTypes'
  <2>1. CASE UNCHANGED requests
    BY <1>3, <2>1 DEF requests, ShownTypes
  <2>2. CASE Done(c)
    BY <1>3, <2>2, Requests DEF ShownTypes
  <2> QED
    BY <2>1, <2>2
       DEF JoinRemembered, LeaveAnswered, RecordingAnswered, StatusAnswered, EgressWebhook,
           PublishReady
<1> QED
  BY <1>1, <1>3, <1>4, ShownStep

LEMMA RequestStep ==
  ASSUME IInv, NEW c \in Callers, NEW step \in {"record", "status"}, RecordingRequest(c, step)
  PROVE  IInv'
<1>1. /\ UNCHANGED <<participants, owner, media, now, aux>>
      /\ status' \in {status, "open"} /\ UNCHANGED shown
      /\ Hold(c, step, recording, report)
  BY DEF RecordingRequest
<1>2. ShownTypes /\ recording \in RecordingStates /\ report \in Reports \cup {NoReport}
  BY DEF IInv, ShownTypes
<1>3. ShownTypes'
  BY <1>1, <1>2, Requests DEF shown, ShownTypes
<1> QED
  BY <1>1, <1>3, ShownStep

----------------------------------------------------------------------------
LEMMA InitInv == Init => IInv
<1> SUFFICES ASSUME Init PROVE IInv
  OBVIOUS
<1>1. NoSnapshot \in Snapshot
  BY DEF NoSnapshot, Snapshot, RecordingStates
<1>2. RoomTypes /\ ShownTypes /\ ArchiveType
  BY <1>1 DEF Init, RoomTypes, ShownTypes, ArchiveType, RecordingStates
<1>3. MediaTypes
  BY TimeAssumption DEF Init, MediaTypes, AllOff, NoTimes, Times
<1>4. AllTimely /\ HasHost /\ ClosedIsLeft /\ Listed
  BY DEF Init, AllTimely, HasHost, ClosedIsLeft, Listed
<1> QED
  BY <1>2, <1>3, <1>4 DEF IInv

LEMMA StepInv == IInv /\ [Next]_vars => IInv'
<1> SUFFICES ASSUME IInv, [Next]_vars PROVE IInv'
  OBVIOUS
<1>1. ASSUME NEW c \in Callers, NEW u \in Users, NEW host \in BOOLEAN,
             NEW values \in [Devices -> BOOLEAN], Join(c, u, host, values)
      PROVE  IInv'
  BY <1>1, JoinStep
<1>2. ASSUME NEW c \in Callers, NEW u \in Users, Leave(c, u) PROVE IInv'
  BY <1>2, LeaveStep
<1>3. ASSUME NEW c \in Callers,
             JoinRemembered(c) \/ LeaveAnswered(c) \/ RecordingAnswered(c) \/ StatusAnswered(c)
      PROVE  IInv'
  BY <1>3, RememberStep
<1>4. ASSUME NEW c \in Callers, NEW step \in {"record", "status"}, RecordingRequest(c, step)
      PROVE  IInv'
  BY <1>4, RequestStep
<1>5. ASSUME NEW u \in Users, ParticipantWebhook(u) PROVE IInv'
  BY <1>5, WebhookStep
<1>6. ASSUME NEW u \in Users, NEW d \in Devices, NEW value \in BOOLEAN,
             ApplyDeviceState(u, d, value)
      PROVE  IInv'
  BY <1>6, DeviceStep
<1>7. ASSUME EgressWebhook \/ PublishReady PROVE IInv'
  <2>1. UNCHANGED <<participants, owner, media, now, requests, aux>>
    BY <1>7 DEF EgressWebhook, PublishReady
  <2>2. "busy" \in RecordingStates
    BY DEF RecordingStates
  <2>3. /\ status' \in {status, "open"}
        /\ recording' \in RecordingStates /\ report' \in Reports \cup {NoReport}
    BY <1>7, <2>2, Remembering DEF EgressWebhook, PublishReady
  <2>4. ShownTypes'
    BY <2>1, <2>3 DEF IInv, requests, ShownTypes
  <2> QED
    BY <2>1, <2>3, <2>4, ShownStep
<1>8. CASE Restart
  BY <1>8, RestartStep
<1>9. CASE Tick
  BY <1>9, TickStep
<1>10. CASE UNCHANGED vars
  BY <1>10, StutterStep
<1> QED
  BY <1>1, <1>2, <1>3, <1>4, <1>5, <1>6, <1>7, <1>8, <1>9, <1>10 DEF Next

LEMMA AlwaysInv == Spec => []IInv
  BY InitInv, StepInv, PTL DEF Spec

----------------------------------------------------------------------------
(* Every variable keeps its type; that the durations stay within the time  *)
(* there was is part of it.                                                *)
THEOREM TypeCorrect == Spec => []TypeOK
<1>1. IInv => TypeOK
  BY DEF IInv, RoomTypes, ShownTypes, MediaTypes, ArchiveType, TypeOK
<1> QED
  BY <1>1, AlwaysInv, PTL

(* Whatever joins, leaves and LiveKit's late webhooks do, a room somebody  *)
(* is in has an owner, and its owner is in it.                             *)
THEOREM RoomHasHost == Spec => []HasHost
  BY AlwaysInv, PTL DEF IInv

(* A room is closed only when everybody who joined it has left.            *)
THEOREM RoomsCloseEmpty == Spec => []ClosedIsLeft
  BY AlwaysInv, PTL DEF IInv

(* Everybody who attended the meeting is listed or has left shares.        *)
THEOREM NobodyIsForgotten == Spec => []EverybodyHasShares
<1>1. IInv => EverybodyHasShares
  BY DEF IInv, RoomTypes, Listed, EverybodyHasShares, RoomShares
<1> QED
  BY <1>1, AlwaysInv, PTL

(* The durations of the devices are the times they were off.               *)
THEOREM OffTimesAreExact == Spec => []OffTimeIsExact
<1>1. IInv => OffTimeIsExact
  BY DEF IInv, AllTimely, Timely, OffTimeIsExact
<1> QED
  BY <1>1, AlwaysInv, PTL

(* Nothing but a new meeting or a restart takes the report off the room.   *)
THEOREM ReportIsKept == Spec => ReportKept
<1>1. ASSUME [Next]_vars, report # NoReport, report' = NoReport
      PROVE  status' = "none" \/ (status # "open" /\ status' = "open")
  <2> USE DEF shown, entry
  <2>1. \A state, r : ~Remember(state, r)
    BY <1>1 DEF Remember
  <2>2. ~UNCHANGED report
    BY <1>1
  <2> QED
    BY <1>1, <2>1, <2>2
       DEF Next, vars, Join, JoinOpen, JoinNew, Leave, JoinRemembered, LeaveAnswered,
           RecordingRequest, RecordingAnswered, StatusAnswered, ParticipantWebhook,
           ApplyDeviceState, EgressWebhook, PublishReady, Restart, Tick
<1> QED
  BY <1>1, PTL DEF Spec, ReportKept

----------------------------------------------------------------------------
(* Nobody is present in a room that has no owner or is not open, so that a *)
(* meeting that begins anew takes nobody's presence away.                  *)
LEMMA JoinEnters ==
  ASSUME IInv, NEW c \in Callers, NEW u \in Users, NEW host \in BOOLEAN,
         NEW values \in [Devices -> BOOLEAN], Join(c, u, host, values)
  PROVE  Promised!Enter(u)
<1>1. u # Nobody /\ owner' \in {owner, u} \ {Nobody}
  BY UsersAssumption DEF Join, Nobody
<1>2. CASE status = "open"
  <2>1. inside' = inside \cup {u} /\ participants' = participants \cup {u}
    BY <1>2 DEF Join, JoinOpen
  <2> QED
    BY <1>1, <2>1 DEF Promised!Enter
<1>3. CASE status # "open"
  <2>1. inside' = {u} /\ participants' = {u}
    BY <1>3 DEF Join, JoinNew
  <2>2. inside = {} /\ owner = Nobody
    BY <1>3 DEF IInv, ClosedIsLeft
  <2> QED
    BY <1>1, <2>1, <2>2 DEF Promised!Enter
<1> QED
  BY <1>2, <1>3

(* The owner is in the room, so that it is empty only after the owner left.*)
LEMMA LeaveExits ==
  ASSUME IInv, NEW c \in Callers, NEW u \in Users, Leave(c, u)
  PROVE  Promised!Exit(u)
<1> DEFINE rest == participants \ {u}
<1>1. inside' = inside \ {u} /\ participants' = rest /\ owner' = NextOwner(u, rest)
  BY DEF Leave, LeaveEntry
<1>2. owner # Nobody => owner \in participants
  BY DEF IInv, HasHost
<1>3. CASE owner # u
  <2>1. owner # Nobody => rest # {}
    BY <1>2, <1>3
  <2>2. owner' = owner
    BY <1>1, <1>3, <2>1 DEF NextOwner
  <2> QED
    BY <1>1, <1>3, <2>2 DEF Promised!Exit
<1>4. CASE owner = u
  <2>1. rest # {} => First(rest) \in rest
    BY FirstIsIn DEF IInv, RoomTypes
  <2> QED
    BY <1>1, <1>4, <2>1 DEF NextOwner, Promised!Exit
<1> QED
  BY <1>3, <1>4

(* What does neither list nor own is a stutter of the meeting.             *)
LEMMA MeetingStep == ASSUME IInv, [Next]_vars PROVE [Promised!MeetingNext]_Promised!meetingVars
<1>1. ASSUME NEW c \in Callers, NEW u \in Users, NEW host \in BOOLEAN,
             NEW values \in [Devices -> BOOLEAN], Join(c, u, host, values)
      PROVE  Promised!MeetingNext
  BY <1>1, JoinEnters DEF Promised!MeetingNext
<1>2. ASSUME NEW c \in Callers, NEW u \in Users, Leave(c, u) PROVE Promised!MeetingNext
  BY <1>2, LeaveExits DEF Promised!MeetingNext
<1>3. ASSUME NEW u \in Users, ParticipantWebhook(u) PROVE Promised!MeetingNext
  <2>1. Promised!Appear(u)
    BY <1>3 DEF ParticipantWebhook, Promised!Appear
  <2> QED
    BY <2>1 DEF Promised!MeetingNext
<1>4. CASE Restart
  <2>1. Promised!Vanish
    BY <1>4 DEF Restart, Promised!Vanish
  <2> QED
    BY <2>1 DEF Promised!MeetingNext
<1>5. ASSUME UNCHANGED <<inside, participants, owner>> PROVE UNCHANGED Promised!meetingVars
  BY <1>5 DEF Promised!meetingVars
<1>6. ASSUME NEW c \in Callers,
             \/ JoinRemembered(c) \/ LeaveAnswered(c) \/ RecordingAnswered(c)
             \/ StatusAnswered(c) \/ \E step \in {"record", "status"} : RecordingRequest(c, step)
      PROVE  UNCHANGED Promised!meetingVars
  BY <1>5, <1>6
     DEF JoinRemembered, LeaveAnswered, RecordingAnswered, StatusAnswered, RecordingRequest, aux
<1>7. ASSUME NEW u \in Users, NEW d \in Devices, NEW value \in BOOLEAN,
             ApplyDeviceState(u, d, value)
      PROVE  UNCHANGED Promised!meetingVars
  BY <1>5, <1>7 DEF ApplyDeviceState, entry, aux
<1>8. CASE EgressWebhook \/ PublishReady \/ Tick
  BY <1>5, <1>8 DEF EgressWebhook, PublishReady, Tick, entry, aux
<1>9. CASE UNCHANGED vars
  BY <1>5, <1>9 DEF vars, entry, aux
<1> QED
  BY <1>1, <1>2, <1>3, <1>4, <1>6, <1>7, <1>8, <1>9 DEF Next

(* A room implements the meeting it is of: who is present was not lost, and*)
(* the host stays until it leaves or another one takes its place.          *)
THEOREM ImplementsMeeting == Spec => MeetingSpec
<1>1. Init => Promised!MeetingInit
  BY DEF Init, Promised!MeetingInit
<1> QED
  BY <1>1, MeetingStep, AlwaysInv, PTL DEF Spec, MeetingSpec, Promised!MeetingSpec
=============================================================================
