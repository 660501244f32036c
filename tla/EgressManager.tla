---------------------------- MODULE EgressManager ----------------------------
(***************************************************************************)
(* The recording registry of one LiveKit room: EgressManager in            *)
(* backend/internal/livekit/egress.go.                                     *)
(*                                                                         *)
(* The manager keeps two maps keyed by room name, `active' and `history',  *)
(* under one mutex.  Every operation except the adoption of an unknown     *)
(* track reads and writes the entries of its own room only, so the module  *)
(* follows the two entries of one room.  The mutex is released around      *)
(* every call to LiveKit, so StartRoomComposite, StartParticipantTracks,   *)
(* AddParticipantTrack and StopRoom are several steps each, which          *)
(* interleave with one another and with the webhooks LiveKit sends.        *)
(*                                                                         *)
(* LiveKit Egress itself is external: `target' and `progress' are what it  *)
(* really does, `notices' the webhooks it has sent.                        *)
(***************************************************************************)
EXTENDS Integers, FiniteSets

CONSTANTS
  Tracks,       \* audio tracks that participants of the room may publish
  Callers,      \* request goroutines that may be inside the manager at once
  MaxEgress,    \* bound: egresses LiveKit starts for the room
  MaxRestarts,  \* bound: restarts of the backend process
  Redelivery    \* whether LiveKit may send a webhook again

ASSUME TracksAssumption == {"none", "room"} \cap Tracks = {}
ASSUME MaxEgressAssumption == MaxEgress \in Nat \ {0}
ASSUME MaxRestartsAssumption == MaxRestarts \in Nat
ASSUME RedeliveryAssumption == Redelivery \in BOOLEAN

VARIABLES
  active,    \* EgressManager.active[room]
  history,   \* EgressManager.history[room]
  pc,        \* where the request of each caller is
  held,      \* its local copy of the room's entry
  want,      \* the tracks it is still to start
  todo,      \* the track egresses it is still to handle
  failed,    \* stopErr
  target,    \* LiveKit: what each egress records
  progress,  \* LiveKit: how far each egress is
  notices,   \* webhooks that may still be handled
  waited,    \* egresses a stop has seen run for minRecordingDuration
  restarts

maps == <<active, history>>
callVars == <<pc, held, want, todo, failed>>
liveKit == <<target, progress, notices>>
vars == <<active, history, pc, held, want, todo, failed, target, progress, notices,
          waited, restarts>>

----------------------------------------------------------------------------
(* Egress ids are allocated in order; 0 is the empty EgressID.             *)
EgressIds == 1..MaxEgress
NoEgress == 0

(* LiveKit's statuses; "ended" stands for COMPLETE, FAILED, ABORTED and    *)
(* LIMIT_REACHED, which the manager treats alike.                          *)
LiveStatus == {"starting", "active"}
ServiceStatus == LiveStatus \cup {"ending", "ended"}

(* isEgressTerminal and isEgressTerminalText: the latter also reads what   *)
(* the manager writes itself: "stopping", "none" (Go's ""), and "ended"    *)
(* for the "failed" of a track egress that could not be started.           *)
Terminal(status) == status = "ended"
KnownStatus == ServiceStatus \cup {"stopping"}

Modes == {"room_composite", "participant_tracks", "participant_tracks_fallback"}

TrackEgress == [egress : {NoEgress} \cup EgressIds, track : Tracks, status : KnownStatus]
TrackState(e, t, status) == [egress |-> e, track |-> t, status |-> status]

(* EgressState; `startedAt' is whether StartedAt is known.  An entry that  *)
(* is present names the egress it is for and how the room is recorded.     *)
Entry == [egress : EgressIds, status : KnownStatus, startedAt : BOOLEAN,
          mode : Modes, tracks : SUBSET TrackEgress]
State(e, status, startedAt, mode, trs) ==
  [egress |-> e, status |-> status, startedAt |-> startedAt, mode |-> mode, tracks |-> trs]
WithTracks(entry, trs) == State(entry.egress, entry.status, entry.startedAt, entry.mode, trs)

(* EgressState{}: what a map lookup yields when the room has no entry.     *)
NoEntry == State(NoEgress, "none", FALSE, "none", {})
MaybeEntry == Entry \cup {NoEntry}
Present(entry) == entry # NoEntry

(* Target "none": the egress has not been started.                         *)
Used(e) == target[e] # "none"
Running(e) == Used(e) /\ progress[e] \in LiveStatus

Notice == [egress : EgressIds, status : ServiceStatus]
Told(e, status) == [egress |-> e, status |-> status]

Pcs == {"idle", "compose", "startTracks", "store", "addRequest", "addStore",
        "wait", "stop", "accepted", "stopTracks"}

----------------------------------------------------------------------------
(* stateFromEgressInfo: an egress that is still starting has no StartedAt. *)
HasStarted(status) == status # "starting"

(* Mutant: firstNonEmptyEgress without its default.                        *)
FirstModeMutant(mode, default) == mode
(* firstNonEmptyEgress over a recording mode and its default.              *)
FirstMode(mode, default) == IF mode = "none" THEN default ELSE mode

(* allEgressesTerminal; every entry that is present names an egress.       *)
AllTerminal(entry) ==
  /\ Terminal(entry.status)
  /\ \A tr \in entry.tracks : tr.egress # NoEgress => Terminal(tr.status)

(* sameTrackEgress: two ids decide, otherwise the track does.              *)
SameTrackEgress(left, right) ==
  IF left.egress # NoEgress /\ right.egress # NoEgress
  THEN left.egress = right.egress
  ELSE left.track = right.track

(* Mutant: the incoming record is appended whatever it matches.            *)
UpsertMutant(trs, incoming) == trs \cup {incoming}

(* upsertTrackEgressState: the incoming record replaces the one it         *)
(* matches.  A record without an id is one that StartParticipantTracks     *)
(* could not start; it precedes the others, so it is the first match.      *)
Upsert(trs, incoming) ==
  LET matches == {tr \in trs : SameTrackEgress(tr, incoming)}
      unnamed == {tr \in matches : tr.egress = NoEgress}
  IN (trs \ (IF unnamed # {} THEN unnamed ELSE matches)) \cup {incoming}

ToStop(trs) == {tr \in trs : tr.egress # NoEgress /\ ~Terminal(tr.status)}

----------------------------------------------------------------------------
Init ==
  /\ active = NoEntry
  /\ history = NoEntry
  /\ pc = [c \in Callers |-> "idle"]
  /\ held = [c \in Callers |-> NoEntry]
  /\ want = [c \in Callers |-> {}]
  /\ todo = [c \in Callers |-> {}]
  /\ failed = [c \in Callers |-> FALSE]
  /\ target = [e \in EgressIds |-> "none"]
  /\ progress = [e \in EgressIds |-> "starting"]
  /\ notices = {}
  /\ waited = {}
  /\ restarts = 0

(* LiveKit accepts a start request: a fresh egress and its first webhook.  *)
Launch(e, what) ==
  /\ ~Used(e)
  /\ \A d \in EgressIds : d < e => Used(d)
  /\ target' = [target EXCEPT ![e] = what]
  /\ notices' = notices \cup {Told(e, "starting")}
  /\ UNCHANGED progress

(* LiveKit acts on a StopEgress request for an egress that still records.  *)
Halt(e) ==
  /\ Running(e)
  /\ progress' = [progress EXCEPT ![e] = "ending"]
  /\ notices' = notices \cup {Told(e, "ending")}
  /\ UNCHANGED target

(* The request of a caller returns.                                        *)
Return(c) ==
  /\ pc' = [pc EXCEPT ![c] = "idle"]
  /\ held' = [held EXCEPT ![c] = NoEntry]
  /\ want' = [want EXCEPT ![c] = {}]
  /\ todo' = [todo EXCEPT ![c] = {}]
  /\ failed' = [failed EXCEPT ![c] = FALSE]

(* StartRoomComposite (no tracks) and StartParticipantTracks: the check    *)
(* under the lock.  With an active entry they return it and change nothing.*)
StartCheck(c, trs) ==
  /\ pc[c] = "idle"
  /\ ~Present(active)
  /\ pc' = [pc EXCEPT ![c] = "compose"]
  /\ want' = [want EXCEPT ![c] = trs]
  /\ UNCHANGED <<maps, held, todo, failed, liveKit, waited, restarts>>

(* The room composite request of both, made without the lock; StartedAt is *)
(* filled in when the response has none.                                   *)
StartComposite(c) ==
  /\ pc[c] = "compose"
  /\ \E e \in EgressIds :
       /\ Launch(e, "room")
       /\ held' = [held EXCEPT ![c] = State(e, "starting", TRUE,
            IF want[c] = {} THEN "room_composite" ELSE "participant_tracks", {})]
  /\ pc' = [pc EXCEPT ![c] = IF want[c] = {} THEN "store" ELSE "startTracks"]
  /\ UNCHANGED <<maps, want, todo, failed, waited, restarts>>

(* The request fails, or times out after LiveKit has acted on it.          *)
StartFails(c) ==
  /\ \/ pc[c] \in {"compose", "addRequest"} /\ UNCHANGED liveKit
     \/ pc[c] = "compose" /\ \E e \in EgressIds : Launch(e, "room")
     \/ pc[c] = "addRequest" /\ \E e \in EgressIds, t \in want[c] : Launch(e, t)
  /\ Return(c)
  /\ UNCHANGED <<maps, waited, restarts>>

(* The mode an entry is stored with once no track is left to start.        *)
StartedMode(trs) ==
  IF \A tr \in trs : tr.egress = NoEgress
  THEN "participant_tracks_fallback" ELSE "participant_tracks"

(* One turn of the loop over the tracks in StartParticipantTracks: a track *)
(* egress starts, fails, or fails though LiveKit has acted.                *)
StartTrack(c) ==
  /\ pc[c] = "startTracks"
  /\ \E t \in want[c], tr \in TrackEgress :
       LET trs == held[c].tracks \cup {tr}
           last == want[c] = {t}
       IN /\ tr.track = t
          /\ \/ tr.egress # NoEgress /\ tr.status = "starting" /\ Launch(tr.egress, t)
             \/ /\ tr.egress = NoEgress /\ tr.status = "ended"
                /\ UNCHANGED liveKit \/ \E lost \in EgressIds : Launch(lost, t)
          /\ want' = [want EXCEPT ![c] = want[c] \ {t}]
          /\ held' = [held EXCEPT ![c] =
               State(held[c].egress, held[c].status, held[c].startedAt,
                     IF last THEN StartedMode(trs) ELSE held[c].mode, trs)]
          /\ pc' = [pc EXCEPT ![c] = IF last THEN "store" ELSE "startTracks"]
  /\ UNCHANGED <<maps, todo, failed, waited, restarts>>

(* The second critical section of a start.                                 *)
StartStore(c) ==
  /\ pc[c] = "store"
  /\ active' = held[c]
  /\ history' = held[c]
  /\ Return(c)
  /\ UNCHANGED <<liveKit, waited, restarts>>

----------------------------------------------------------------------------
(* AddParticipantTrack: check, request, store into whatever entry is       *)
(* active by then.                                                         *)
AddCheck(c, t) ==
  /\ pc[c] = "idle"
  /\ Present(active)
  /\ active.mode = "participant_tracks"
  /\ \A tr \in active.tracks : tr.track # t
  /\ pc' = [pc EXCEPT ![c] = "addRequest"]
  /\ want' = [want EXCEPT ![c] = {t}]
  /\ UNCHANGED <<maps, held, todo, failed, liveKit, waited, restarts>>

AddRequest(c) ==
  /\ pc[c] = "addRequest"
  /\ \E e \in EgressIds, t \in want[c] :
       /\ Launch(e, t)
       /\ todo' = [todo EXCEPT ![c] = {TrackState(e, t, "starting")}]
  /\ pc' = [pc EXCEPT ![c] = "addStore"]
  /\ UNCHANGED <<maps, held, want, failed, waited, restarts>>

(* Mutant: the new record is appended, also where a webhook was faster.    *)
AddStoreMutant(c) ==
  /\ pc[c] = "addStore"
  /\ IF Present(active)
     THEN /\ active' = WithTracks(active, active.tracks \cup todo[c])
          /\ history' = WithTracks(active, active.tracks \cup todo[c])
     ELSE UNCHANGED maps
  /\ Return(c)
  /\ UNCHANGED <<liveKit, waited, restarts>>

AddStore(c) ==
  /\ pc[c] = "addStore"
  /\ IF Present(active)
     THEN \E tr \in todo[c] :
            /\ active' = WithTracks(active, Upsert(active.tracks, tr))
            /\ history' = WithTracks(active, Upsert(active.tracks, tr))
     ELSE UNCHANGED maps
  /\ Return(c)
  /\ UNCHANGED <<liveKit, waited, restarts>>

----------------------------------------------------------------------------
(* StopRoom: the snapshot.  Without an active entry it answers at once:    *)
(* with the history if that has ended, else "room recording is not active".*)
StopCheck(c) ==
  /\ pc[c] = "idle"
  /\ Present(active)
  /\ pc' = [pc EXCEPT ![c] = "wait"]
  /\ held' = [held EXCEPT ![c] = active]
  /\ UNCHANGED <<maps, want, todo, failed, liveKit, waited, restarts>>

(* waitForMinRecordingDuration: the request sleeps until the egress has    *)
(* run that long (15 s; its context lasts for 45 s); a StartedAt that does *)
(* not parse is no wait at all.                                            *)
StopWait(c) ==
  /\ pc[c] = "wait"
  /\ pc' = [pc EXCEPT ![c] = "stop"]
  /\ waited' = IF held[c].startedAt THEN waited \cup {held[c].egress} ELSE waited
  /\ UNCHANGED <<maps, held, want, todo, failed, liveKit, restarts>>

(* The answer to StopEgress is in `entry'; on to the track egresses.       *)
StopAnswered(c, entry, err) ==
  /\ pc' = [pc EXCEPT ![c] = "stopTracks"]
  /\ held' = [held EXCEPT ![c] = entry]
  /\ todo' = [todo EXCEPT ![c] = ToStop(entry.tracks)]
  /\ failed' = [failed EXCEPT ![c] = err]
  /\ UNCHANGED <<maps, want, waited, restarts>>

(* Accepted: the response replaces the local copy.                         *)
StopAccepted(c) ==
  /\ pc[c] = "stop"
  /\ Halt(held[c].egress)
  /\ StopAnswered(c, State(held[c].egress, "ending", TRUE,
                           FirstMode(held[c].mode, "room_composite"), held[c].tracks), FALSE)

(* "already stopped" from LiveKit: latestTerminalState decides whether the *)
(* history answers for it or the stop fails.                               *)
StopAlready(c) ==
  /\ pc[c] = "stop"
  /\ ~Running(held[c].egress)
  /\ \/ Terminal(history.status) /\ StopAnswered(c, history, FALSE)
     \/ ~Terminal(history.status) /\ StopAnswered(c, held[c], TRUE)
  /\ UNCHANGED liveKit

(* Mutant: the error is forgotten while the tracks are stopped.            *)
StopRejectedMutant(c) ==
  pc[c] = "stop" /\ StopAnswered(c, held[c], FALSE) /\ UNCHANGED liveKit

(* Any other error: the tracks are stopped all the same, then it fails.    *)
StopRejected(c) ==
  pc[c] = "stop" /\ StopAnswered(c, held[c], TRUE) /\ UNCHANGED liveKit

(* A stop that times out leaves its copy with this status.                 *)
HeldAs(c, status) ==
  [held EXCEPT ![c] = State(held[c].egress, status, held[c].startedAt, held[c].mode,
                            held[c].tracks)]

(* Mutant: a stop that timed out is recorded as done.                      *)
StopTimesOutMutant(c) ==
  /\ pc[c] = "stop"
  /\ Halt(held[c].egress) \/ UNCHANGED liveKit
  /\ pc' = [pc EXCEPT ![c] = "accepted"]
  /\ held' = HeldAs(c, "ended")
  /\ UNCHANGED <<maps, want, todo, failed, waited, restarts>>

(* A timeout counts as accepted (isLikelyStopAcceptedError); LiveKit may   *)
(* or may not have acted on the request.                                   *)
StopTimesOut(c) ==
  /\ pc[c] = "stop"
  /\ Halt(held[c].egress) \/ UNCHANGED liveKit
  /\ pc' = [pc EXCEPT ![c] = "accepted"]
  /\ held' = HeldAs(c, "stopping")
  /\ UNCHANGED <<maps, want, todo, failed, waited, restarts>>

(* Mutant: only the active map learns that the stop was accepted.          *)
StoreAcceptedMutant(c) ==
  /\ pc[c] = "accepted"
  /\ active' = held[c]
  /\ Return(c)
  /\ UNCHANGED <<history, liveKit, waited, restarts>>

(* The critical section of that path.                                      *)
StoreAccepted(c) ==
  /\ pc[c] = "accepted"
  /\ active' = held[c]
  /\ history' = held[c]
  /\ Return(c)
  /\ UNCHANGED <<liveKit, waited, restarts>>

(* Mutant: an error is taken for an answer.                                *)
StopTrackMutant(c) ==
  /\ pc[c] = "stopTracks"
  /\ \E tr \in todo[c] :
       /\ Halt(tr.egress) \/ UNCHANGED liveKit
       /\ todo' = [todo EXCEPT ![c] = todo[c] \ {tr}]
       /\ held' = [held EXCEPT ![c] = WithTracks(held[c],
            (held[c].tracks \ {tr}) \cup {TrackState(tr.egress, tr.track, "ending")})]
  /\ UNCHANGED <<maps, pc, want, failed, waited, restarts>>

(* One turn of stopTrackEgresses: accepted, failed or timed out, already   *)
(* stopped.  Errors are kept in the record and the loop goes on.           *)
StopTrack(c) ==
  /\ pc[c] = "stopTracks"
  /\ \E tr \in todo[c], status \in KnownStatus :
       /\ \/ status = "ending" /\ Halt(tr.egress)
          \/ status = "stopping" /\ (Halt(tr.egress) \/ UNCHANGED liveKit)
          \/ status = tr.status /\ ~Running(tr.egress) /\ UNCHANGED liveKit
       /\ todo' = [todo EXCEPT ![c] = todo[c] \ {tr}]
       /\ held' = [held EXCEPT ![c] = WithTracks(held[c],
            (held[c].tracks \ {tr}) \cup {TrackState(tr.egress, tr.track, status)})]
  /\ UNCHANGED <<maps, pc, want, failed, waited, restarts>>

(* The tracks are done: a failed stop returns, the others store.           *)
StopStore(c) ==
  /\ pc[c] = "stopTracks"
  /\ todo[c] = {}
  /\ \/ failed[c] /\ UNCHANGED maps
     \/ ~failed[c] /\ active' = NoEntry /\ history' = held[c]
  /\ Return(c)
  /\ UNCHANGED <<liveKit, waited, restarts>>

----------------------------------------------------------------------------
(* LiveKit: an egress gets going, ends by itself (the room or the track is *)
(* gone), uploads its file, or fails.  Every change is announced.          *)
LiveKitStep(e, status) ==
  /\ Used(e)
  /\ \/ progress[e] = "starting" /\ status \in {"active", "ended"}
     \/ progress[e] = "active" /\ status \in {"ending", "ended"}
     \/ progress[e] = "ending" /\ status = "ended"
  /\ progress' = [progress EXCEPT ![e] = status]
  /\ notices' = notices \cup {Told(e, status)}
  /\ UNCHANGED <<maps, callVars, target, waited, restarts>>

(* The entry a webhook updates: the active one, else the last one known.   *)
Latest == IF Present(active) THEN active ELSE history

(* The entry UpdateFromInfo makes of a room composite's webhook: the       *)
(* egress is the webhook's, whichever the entry named before.              *)
FromWebhook(n) ==
  State(n.egress, n.status, HasStarted(n.status), FirstMode(Latest.mode, "room_composite"),
        Latest.tracks)

(* Mutant: the last webhook of an egress leaves its entry active.          *)
UpdateFromInfoMutant(n) ==
  /\ target[n.egress] = "room"
  /\ active' = FromWebhook(n)
  /\ history' = FromWebhook(n)

UpdateFromInfo(n) ==
  /\ target[n.egress] = "room"
  /\ active' = IF Terminal(n.status) THEN NoEntry ELSE FromWebhook(n)
  /\ history' = FromWebhook(n)

(* updateTrackFromInfo: a room without any entry adopts the track's egress *)
(* as if it were the room's.                                               *)
FromTrackWebhook(n) ==
  LET base == IF Present(Latest) THEN Latest
              ELSE State(n.egress, n.status, HasStarted(n.status), "participant_tracks", {})
  IN WithTracks(base, Upsert(base.tracks, TrackState(n.egress, target[n.egress], n.status)))

UpdateTrackFromInfo(n) ==
  /\ target[n.egress] \in Tracks
  /\ active' = IF AllTerminal(FromTrackWebhook(n)) THEN NoEntry ELSE FromTrackWebhook(n)
  /\ history' = FromTrackWebhook(n)

(* A webhook is handled: late, in any order, never, perhaps again.         *)
Webhook(n) ==
  /\ UpdateFromInfo(n) \/ UpdateTrackFromInfo(n)
  /\ notices' = IF Redelivery THEN notices ELSE notices \ {n}
  /\ UNCHANGED <<callVars, target, progress, waited, restarts>>

(* The process dies with its maps and its requests; LiveKit records on.    *)
Restart ==
  /\ restarts < MaxRestarts
  /\ restarts' = restarts + 1
  /\ active' = NoEntry
  /\ history' = NoEntry
  /\ pc' = [c \in Callers |-> "idle"]
  /\ held' = [c \in Callers |-> NoEntry]
  /\ want' = [c \in Callers |-> {}]
  /\ todo' = [c \in Callers |-> {}]
  /\ failed' = [c \in Callers |-> FALSE]
  /\ UNCHANGED <<liveKit, waited>>

Start(c) ==
  \/ \E trs \in SUBSET Tracks : StartCheck(c, trs)
  \/ StartComposite(c) \/ StartFails(c) \/ StartTrack(c) \/ StartStore(c)

Add(c) ==
  \/ \E t \in Tracks : AddCheck(c, t)
  \/ AddRequest(c) \/ AddStore(c)

Stop(c) ==
  \/ StopCheck(c) \/ StopWait(c)
  \/ StopAccepted(c) \/ StopAlready(c) \/ StopRejected(c) \/ StopTimesOut(c)
  \/ StoreAccepted(c) \/ StopTrack(c) \/ StopStore(c)

Next ==
  \/ \E c \in Callers : Start(c) \/ Add(c) \/ Stop(c)
  \/ \E e \in EgressIds, status \in ServiceStatus : LiveKitStep(e, status)
  \/ \E n \in notices : Webhook(n)
  \/ Restart

Spec == Init /\ [][Next]_vars

----------------------------------------------------------------------------
TypeOK ==
  /\ active \in MaybeEntry
  /\ history \in MaybeEntry
  /\ pc \in [Callers -> Pcs]
  /\ held \in [Callers -> MaybeEntry]
  /\ want \in [Callers -> SUBSET Tracks]
  /\ todo \in [Callers -> SUBSET TrackEgress]
  /\ failed \in [Callers -> BOOLEAN]
  /\ target \in [EgressIds -> {"none", "room"} \cup Tracks]
  /\ progress \in [EgressIds -> ServiceStatus]
  /\ notices \in SUBSET Notice
  /\ waited \in SUBSET EgressIds
  /\ restarts \in 0..MaxRestarts

(* Status answers from `active' and falls back on `history'.  The two are  *)
(* written in the same critical sections, so while a recording is active   *)
(* both say the same of it: there is never a second opinion in `history'   *)
(* for StopRoom's latestTerminalState to find.                             *)
ActiveMirrorsHistory == Present(active) => history = active

(* A room is held as recording only while the manager has an egress in its *)
(* entry that it has not seen end, whichever of the start, add, stop and   *)
(* webhook paths wrote the entry last.                                     *)
ActiveIsUnfinished == Present(active) => ~AllTerminal(active)

(* What StopRoom, Status and the download of the file rely on: the manager *)
(* never takes an egress for ended that LiveKit still runs, in either map, *)
(* in a request's local copy, or in a track list carried from one entry to *)
(* the next.                                                               *)
Ended(e) == e # NoEgress => Used(e) /\ Terminal(progress[e])
BelievesTruly(entry) ==
  /\ Terminal(entry.status) => Ended(entry.egress)
  /\ \A tr \in entry.tracks : Terminal(tr.status) => Ended(tr.egress)
EndedIsTrue ==
  /\ BelievesTruly(active)
  /\ BelievesTruly(history)
  /\ \A c \in Callers : BelievesTruly(held[c])

(* A stop that is going to answer without an error and release the room    *)
(* does so for an egress that no longer records; an unanswered StopEgress  *)
(* never gets here (it keeps the room active for another try).             *)
StopReleasesWhatEnded ==
  \A c \in Callers : pc[c] = "stopTracks" /\ ~failed[c] => ~Running(held[c].egress)

(* A track egress is listed at most once in the room's entry, so it is     *)
(* stopped, downloaded and transcribed at most once.                       *)
TracksListedOnce ==
  \A tr1, tr2 \in Latest.tracks :
    tr1.egress = tr2.egress /\ tr1.egress # NoEgress => tr1 = tr2

(* A stop leaves no track recording without saying so: of the tracks it has*)
(* been through, one that LiveKit still records is listed as "stopping",   *)
(* whatever the webhooks, the other requests and the tracks' own ends do   *)
(* while it goes from one to the next.                                     *)
StopNamesWhatRuns ==
  \A c \in Callers : pc[c] = "stopTracks" =>
    \A tr \in held[c].tracks \ todo[c] :
      tr.egress # NoEgress /\ Running(tr.egress) => tr.status = "stopping"

(* A room is released for an egress that records on only if ids are mixed  *)
(* up: where the entry left in the history names the egress that was active*)
(* -- the stop or the webhook that released the room was about that one -- *)
(* the egress has stopped recording.                                       *)
ReleasesItsOwn ==
  [][Present(active) /\ ~Present(active') /\ restarts' = restarts
       /\ history'.egress = active.egress
       => ~Running(active.egress)]_vars

(* The comment on waitForMinRecordingDuration says StopEgress is never     *)
(* called before the compositor has had a chance to receive a first frame: *)
(* every request to stop an egress has seen it run for that long.          *)
StopWaitsForFirstFrame ==
  \A c \in Callers : pc[c] = "stop" => held[c].egress \in waited

(* The comment on stopRoomRecording says what must not happen: a stop that *)
(* shows as done while the recording keeps running.  StopRoom answers for  *)
(* a room without an active entry from its ended history, so an entry may  *)
(* be released only when the egress it names no longer records.            *)
ReleasedMeansEnded ==
  [][Present(active) /\ ~Present(active') /\ restarts' = restarts
       => ~Running(active.egress)]_vars
=============================================================================
