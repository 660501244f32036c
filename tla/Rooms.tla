-------------------------------- MODULE Rooms --------------------------------
(***************************************************************************)
(* One room of the backend (internal/httpapi/rooms.go): who is in it, who  *)
(* owns it, what it shows of the recording, and how long each participant  *)
(* had the microphone or the camera off.                                   *)
(*                                                                         *)
(* Two sources say who is in the room.  Requests join and leave it;        *)
(* LiveKit's webhooks about participants and tracks add whoever they name  *)
(* if it is not there, in any order and at any time, and remove nobody.    *)
(* Every operation is one critical section of roomsMu, but a request goes  *)
(* on after it: it waits for LiveKit or for the session's report and then  *)
(* writes the recording state of the snapshot it took back into the room.  *)
(*                                                                         *)
(* Time passes in ticks.  A user's id is also its name and its LiveKit     *)
(* identity; ids are numbers, ordered as the code sorts the strings.       *)
(***************************************************************************)
EXTENDS Integers

CONSTANTS
  Users,    \* ids of users, positive numbers
  Callers,  \* requests at work at once
  Devices,  \* microphone and camera
  Reports,  \* ids of reports, positive numbers
  MaxTime   \* bound: ticks

ASSUME UsersAssumption == Users \subseteq Nat \ {0}
ASSUME DevicesAssumption == Devices # {}
ASSUME ReportsAssumption == Reports \subseteq Nat \ {0}
ASSUME TimeAssumption == MaxTime \in Nat

VARIABLES
  status,        \* "none" without an entry in s.rooms, else "open" or "closed"
  participants,  \* the keys of room.Participants
  owner,         \* room.OwnerID, 0 for ""
  recording,     \* room.RecordingState
  report,        \* room.ReportID, 0 for ""
  enabled,       \* MicEnabled, CameraEnabled
  changed,       \* MicLastChangedAt or, where it is zero, JoinedAt
  off,           \* MicMutedDuration, CameraOffDuration
  joinedAt,      \* JoinedAt
  archive,       \* DeviceStatsArchive, NoShares where there is no entry
  now,           \* the clock
  pc,            \* what each request has left to do
  seen,          \* the recording state and the report of the snapshot it holds
  inside,        \* auxiliary: joined by a request and has not left since
  attended,      \* auxiliary: has joined the meeting that this entry is of
  dark           \* auxiliary: ticks during which a present user's device was off

entry == <<status, participants, owner>>
shown == <<recording, report>>
media == <<enabled, changed, off, joinedAt, archive>>
requests == <<pc, seen>>
aux == <<inside, attended, dark>>
vars == <<entry, shown, media, now, requests, aux>>

----------------------------------------------------------------------------
Nobody == 0
NoReport == 0

(* Of the recording state the code asks only whether it is idle: the other *)
(* four are one here.                                                      *)
RecordingStates == {"idle", "busy"}
Snapshot == [state : RecordingStates, report : Reports \cup {NoReport}]
NoSnapshot == [state |-> "idle", report |-> NoReport]
Percentages == [Devices -> 0..100]
NoShares == [d \in Devices |-> -1]
NoTimes == [d \in Devices |-> 0]
AllOff == [d \in Devices |-> FALSE]
Times == 0..MaxTime

(* firstParticipantID: the smallest id.                                    *)
First(S) == CHOOSE u \in S : \A v \in S : u <= v

(* An operation that finds no entry makes one: open, empty, without owner. *)
(* The variables hold that entry's values from the start.                  *)
Exists == status # "none"

clampScore(value) == IF value < 0 THEN 0 ELSE IF value > 100 THEN 100 ELSE value

(* Mutant: the open period is counted from the join.                       *)
OffTimeMutant(u, d) == off[u][d] + (IF enabled[u][d] THEN 0 ELSE now - joinedAt[u])

(* The time a device was off by now, the period that is open included.     *)
OffTime(u, d) == off[u][d] + (IF enabled[u][d] THEN 0 ELSE now - changed[u][d])

(* finalizeDevicePercentages.                                              *)
Shares(u) ==
  LET total == now - joinedAt[u]
  IN  [d \in Devices |-> IF total <= 0 THEN 0
                         ELSE clampScore((OffTime(u, d) * 100) \div total)]

(* roomDevicePercentages: of those who have left and those who are there.  *)
RoomShares ==
  [u \in {v \in Users : v \in participants \/ archive[v] # NoShares} |->
     IF u \in participants THEN Shares(u) ELSE archive[u]]

(* Mutant: the time is added only when the device is turned on.            *)
SetEnabledMutant(u, D, values) ==
  /\ off' = [off EXCEPT ![u] =
               [d \in Devices |-> IF d \in D /\ values[d] THEN OffTime(u, d) ELSE off[u][d]]]
  /\ changed' = [changed EXCEPT ![u] =
                   [d \in Devices |-> IF d \in D THEN now ELSE changed[u][d]]]
  /\ enabled' = [enabled EXCEPT ![u] =
                   [d \in Devices |-> IF d \in D THEN values[d] ELSE enabled[u][d]]]

(* setMicEnabled and setCameraEnabled, of the devices in D.                *)
SetEnabled(u, D, values) ==
  /\ off' = [off EXCEPT ![u] =
               [d \in Devices |-> IF d \in D THEN OffTime(u, d) ELSE off[u][d]]]
  /\ changed' = [changed EXCEPT ![u] =
                   [d \in Devices |-> IF d \in D THEN now ELSE changed[u][d]]]
  /\ enabled' = [enabled EXCEPT ![u] =
                   [d \in Devices |-> IF d \in D THEN values[d] ELSE enabled[u][d]]]

(* A participant that enters: no time has passed since it joined.          *)
FreshDevices(u, values) ==
  /\ off' = [off EXCEPT ![u] = NoTimes]
  /\ changed' = [changed EXCEPT ![u] = [d \in Devices |-> now]]
  /\ enabled' = [enabled EXCEPT ![u] = values]

----------------------------------------------------------------------------
Init ==
  /\ status = "none"
  /\ participants = {}
  /\ owner = Nobody
  /\ recording = "idle"
  /\ report = NoReport
  /\ enabled = [u \in Users |-> AllOff]
  /\ changed = [u \in Users |-> NoTimes]
  /\ off = [u \in Users |-> NoTimes]
  /\ joinedAt = [u \in Users |-> 0]
  /\ archive = [u \in Users |-> NoShares]
  /\ now = 0
  /\ pc = [c \in Callers |-> "idle"]
  /\ seen = [c \in Callers |-> NoSnapshot]
  /\ inside = {}
  /\ attended = {}
  /\ dark = [u \in Users |-> NoTimes]

(* Mutant: what it is given replaces the report.                           *)
RememberMutant(state, r) ==
  /\ status' = IF Exists THEN status ELSE "open"
  /\ recording' = state
  /\ report' = r

----------------------------------------------------------------------------
(* setRoomRecordingState: creates the entry where there is none, and keeps *)
(* the report where it is given none.                                      *)
Remember(state, r) ==
  /\ status' = IF Exists THEN status ELSE "open"
  /\ recording' = state
  /\ report' = IF r # NoReport THEN r ELSE report

(* A request takes a snapshot and has something left to do with it.        *)
Hold(c, step, state, r) ==
  /\ pc' = [pc EXCEPT ![c] = step]
  /\ seen' = [seen EXCEPT ![c] = [state |-> state, report |-> r]]

Done(c) ==
  /\ pc' = [pc EXCEPT ![c] = "idle"]
  /\ seen' = [seen EXCEPT ![c] = NoSnapshot]

(* joinRoomState of a room that is open: a user who is in it already only  *)
(* has its devices set.                                                    *)
JoinOpen(u, values) ==
  /\ status' = "open"
  /\ participants' = participants \cup {u}
  /\ IF u \in participants
     THEN SetEnabled(u, Devices, values) /\ UNCHANGED <<joinedAt, dark>>
     ELSE /\ FreshDevices(u, values)
          /\ joinedAt' = [joinedAt EXCEPT ![u] = now]
          /\ dark' = [dark EXCEPT ![u] = NoTimes]
  /\ attended' = attended \cup {u}
  /\ inside' = inside \cup {u}
  /\ UNCHANGED <<shown, archive>>

(* joinRoomState of a room that is not there or closed: a new entry.       *)
JoinNew(u, values) ==
  /\ status' = "open"
  /\ participants' = {u}
  /\ recording' = "idle"
  /\ report' = NoReport
  /\ enabled' = [v \in Users |-> IF v = u THEN values ELSE AllOff]
  /\ changed' = [v \in Users |-> IF v = u THEN [d \in Devices |-> now] ELSE NoTimes]
  /\ off' = [v \in Users |-> NoTimes]
  /\ joinedAt' = [v \in Users |-> IF v = u THEN now ELSE 0]
  /\ archive' = [v \in Users |-> NoShares]
  /\ dark' = [v \in Users |-> NoTimes]
  /\ attended' = {u}
  /\ inside' = {u}

(* createRoom, joinRoom and createLiveKitToken up to the wait for LiveKit. *)
(* A host becomes the owner of a room that has one already.                *)
Join(c, u, host, values) ==
  /\ pc[c] = "idle"
  /\ IF status = "open" THEN JoinOpen(u, values) ELSE JoinNew(u, values)
  /\ owner' = IF host \/ status # "open" \/ owner = Nobody THEN u ELSE owner
  /\ Hold(c, "joined", recording', report')
  /\ UNCHANGED now

(* ... and after it: the report of the session, if there is one, is written*)
(* into the room together with the recording state of the snapshot.        *)
JoinRemembered(c) ==
  /\ pc[c] = "joined"
  /\ \/ \E r \in Reports : Remember(seen[c].state, r)
     \/ UNCHANGED <<status, shown>>
  /\ Done(c)
  /\ UNCHANGED <<participants, owner, media, now, aux>>

(* Mutant: the owner stays the owner.                                      *)
NextOwnerMutant(u, rest) ==
  IF rest = {} THEN Nobody ELSE owner

(* Mutant: whoever leaves, the smallest id becomes the owner.              *)
PassedOnMutant(u, rest) ==
  IF rest = {} THEN Nobody ELSE First(rest)

(* leaveRoomState.  Whoever asks may leave, in the room or not; the room is*)
(* closed when nobody is left, and left as it is otherwise.                *)
NextOwner(u, rest) ==
  IF rest = {} THEN Nobody ELSE IF owner = u THEN First(rest) ELSE owner

(* Mutant: the room is closed by its owner's leave.                        *)
LeaveEntryMutant(u) ==
  LET rest == participants \ {u}
  IN  /\ participants' = rest
      /\ status' = IF rest = {} \/ owner = u THEN "closed" ELSE status
      /\ owner' = NextOwner(u, rest)

(* Mutant: the shares of who leaves are not kept.                          *)
LeaveMediaMutant(u) ==
  /\ enabled' = [enabled EXCEPT ![u] = AllOff]
  /\ changed' = [changed EXCEPT ![u] = NoTimes]
  /\ off' = [off EXCEPT ![u] = NoTimes]
  /\ joinedAt' = [joinedAt EXCEPT ![u] = 0]
  /\ dark' = [dark EXCEPT ![u] = NoTimes]
  /\ UNCHANGED archive

LeaveEntry(u) ==
  LET rest == participants \ {u}
  IN  /\ participants' = rest
      /\ status' = IF rest = {} THEN "closed" ELSE status
      /\ owner' = NextOwner(u, rest)

LeaveMedia(u) ==
  /\ archive' = IF u \in participants THEN [archive EXCEPT ![u] = Shares(u)] ELSE archive
  /\ enabled' = [enabled EXCEPT ![u] = AllOff]
  /\ changed' = [changed EXCEPT ![u] = NoTimes]
  /\ off' = [off EXCEPT ![u] = NoTimes]
  /\ joinedAt' = [joinedAt EXCEPT ![u] = 0]
  /\ dark' = [dark EXCEPT ![u] = NoTimes]

(* leaveRoom up to the stop of a recording the last one leaves behind.     *)
Leave(c, u) ==
  /\ pc[c] = "idle"
  /\ LeaveEntry(u)
  /\ LeaveMedia(u)
  /\ inside' = inside \ {u}
  /\ Hold(c, "left", "idle", NoReport)
  /\ UNCHANGED <<shown, now, attended>>

(* The recording is to stop and its stop succeeds, or not.                 *)
LeaveAnswered(c) ==
  /\ pc[c] = "left"
  /\ \/ \E r \in Reports : Remember("busy", r)
     \/ UNCHANGED <<status, shown>>
  /\ Done(c)
  /\ UNCHANGED <<participants, owner, media, now, aux>>

(* applyParticipantControl (by whoever may call it) and applySelfDeviceState*)
(* fail for a user who is not in the room.                                 *)
ApplyDeviceState(u, d, value) ==
  /\ u \in participants
  /\ SetEnabled(u, {d}, [e \in Devices |-> value])
  /\ UNCHANGED <<entry, shown, joinedAt, archive, now, requests, aux>>

(* upsertRoomParticipantFromLiveKit: participant_joined, participant_left, *)
(* track_published or track_unpublished of u.  A closed room stays closed. *)
ParticipantWebhook(u) ==
  /\ status' = IF Exists THEN status ELSE "open"
  /\ participants' = participants \cup {u}
  /\ IF u \in participants
     THEN UNCHANGED <<enabled, changed, off, joinedAt, dark>>
     ELSE /\ FreshDevices(u, AllOff)
          /\ joinedAt' = [joinedAt EXCEPT ![u] = now]
          /\ dark' = [dark EXCEPT ![u] = NoTimes]
  /\ UNCHANGED <<owner, shown, archive, now, requests, attended, inside>>

(* roomRecording and roomRecordingStatusPayload: the snapshot, and after   *)
(* the registry and LiveKit have answered what is to be shown.  The status *)
(* request keeps what the snapshot shows where the registry says idle.     *)
RecordingRequest(c, step) ==
  /\ pc[c] = "idle"
  /\ status' = IF Exists THEN status ELSE "open"
  /\ Hold(c, step, recording, report)
  /\ UNCHANGED <<participants, owner, shown, media, now, aux>>

RecordingAnswered(c) ==
  /\ pc[c] = "record"
  /\ \E state \in RecordingStates, r \in Reports \cup {NoReport} :
       Remember(state, IF seen[c].report # NoReport THEN seen[c].report ELSE r)
  /\ Done(c)
  /\ UNCHANGED <<participants, owner, media, now, aux>>

StatusAnswered(c) ==
  /\ pc[c] = "status"
  /\ \E state \in {"busy", seen[c].state} : Remember(state, seen[c].report)
  /\ Done(c)
  /\ UNCHANGED <<participants, owner, media, now, aux>>

(* liveKitWebhook with the state of an egress, which names no report, and  *)
(* publishRoomRecordingReady at the end of the pipeline.                   *)
EgressWebhook ==
  /\ Remember("busy", NoReport)
  /\ UNCHANGED <<participants, owner, media, now, requests, aux>>

PublishReady ==
  /\ \E r \in Reports : Remember("busy", r)
  /\ UNCHANGED <<participants, owner, media, now, requests, aux>>

(* The rooms are in memory only.                                           *)
Restart ==
  /\ Exists
  /\ status' = "none" /\ participants' = {} /\ owner' = Nobody
  /\ recording' = "idle" /\ report' = NoReport
  /\ enabled' = [u \in Users |-> AllOff]
  /\ changed' = [u \in Users |-> NoTimes]
  /\ off' = [u \in Users |-> NoTimes]
  /\ joinedAt' = [u \in Users |-> 0]
  /\ archive' = [u \in Users |-> NoShares]
  /\ pc' = [c \in Callers |-> "idle"]
  /\ seen' = [c \in Callers |-> NoSnapshot]
  /\ inside' = {} /\ attended' = {}
  /\ dark' = [u \in Users |-> NoTimes]
  /\ UNCHANGED now

(* Time passes; who is in the room with a device off has it off longer.    *)
Tick ==
  /\ now < MaxTime
  /\ now' = now + 1
  /\ dark' = [u \in Users |-> [d \in Devices |->
                IF u \in participants /\ ~enabled[u][d] THEN dark[u][d] + 1
                ELSE dark[u][d]]]
  /\ UNCHANGED <<entry, shown, media, requests, inside, attended>>

Next ==
  \/ \E c \in Callers, u \in Users :
       \/ \E host \in BOOLEAN, values \in [Devices -> BOOLEAN] : Join(c, u, host, values)
       \/ Leave(c, u)
  \/ \E c \in Callers :
       \/ JoinRemembered(c)
       \/ LeaveAnswered(c)
       \/ \E step \in {"record", "status"} : RecordingRequest(c, step)
       \/ RecordingAnswered(c)
       \/ StatusAnswered(c)
  \/ \E u \in Users : ParticipantWebhook(u)
  \/ \E u \in Users, d \in Devices, value \in BOOLEAN : ApplyDeviceState(u, d, value)
  \/ EgressWebhook
  \/ PublishReady
  \/ Restart
  \/ Tick

Spec == Init /\ [][Next]_vars

----------------------------------------------------------------------------
(* Every variable has its type.                                            *)
TypeOK ==
  /\ status \in {"none", "open", "closed"}
  /\ participants \subseteq Users
  /\ owner \in Users \cup {Nobody}
  /\ recording \in RecordingStates
  /\ report \in Reports \cup {NoReport}
  /\ enabled \in [Users -> [Devices -> BOOLEAN]]
  /\ changed \in [Users -> [Devices -> Times]]
  /\ off \in [Users -> [Devices -> Times]]
  /\ joinedAt \in [Users -> Times]
  /\ archive \in [Users -> Percentages \cup {NoShares}]
  /\ now \in Times
  /\ pc \in [Callers -> {"idle", "joined", "left", "record", "status"}]
  /\ seen \in [Callers -> Snapshot]
  /\ inside \subseteq Users
  /\ attended \subseteq Users
  /\ dark \in [Users -> [Devices -> Times]]

(* As long as somebody who joined has not left, the room has an owner, and *)
(* the owner is in it: whatever LiveKit's late webhooks added or the last  *)
(* owner's leave took away, somebody can be told to be the host.           *)
HasHost ==
  /\ owner # Nobody => owner \in participants
  /\ inside # {} => owner # Nobody

(* A room is closed to nobody who is in it: one that is closed was left by *)
(* everybody who joined it, and whoever is listed there was brought back by*)
(* a webhook; it has no owner, so that the next to join becomes it.        *)
ClosedIsLeft ==
  status # "open" => inside = {} /\ owner = Nobody

(* A meeting forgets nobody: who joined it is listed or has left a share,  *)
(* so that the report can be given device percentages for all of them.     *)
EverybodyHasShares ==
  /\ inside \subseteq participants
  /\ attended \subseteq DOMAIN RoomShares

(* The time a device was off is the time during which it was: the periods  *)
(* added up at every change of state, whoever made it and however often it *)
(* was repeated, are the ticks the device spent off since its user joined, *)
(* never more than it has been there.                                      *)
OffTimeIsExact ==
  \A u \in participants, d \in Devices :
    /\ OffTime(u, d) = dark[u][d]
    /\ OffTime(u, d) <= now - joinedAt[u]

(* The room keeps its report: of all who write the recording state, none   *)
(* that has no report takes away the one the meeting has.  Only a new      *)
(* meeting or a restart does.                                              *)
ReportKept ==
  [][report # NoReport /\ report' = NoReport
       => \/ status' = "none"
          \/ status # "open" /\ status' = "open"]_vars

(* A room implements Meeting: who joins a meeting is present until it      *)
(* leaves, whatever webhooks arrive in between, and the room's owner is the*)
(* meeting's host: LiveKit's late events, other people's leaves and the    *)
(* requests that write a snapshot back never take it from who has it.      *)
Promised == INSTANCE Meeting WITH present <- inside, listed <- participants, host <- owner
MeetingSpec == Promised!MeetingSpec
=============================================================================
