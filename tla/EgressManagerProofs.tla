------------------------- MODULE EgressManagerProofs -------------------------
(***************************************************************************)
(* Type correctness and the safety invariants of EgressManager, for every  *)
(* set of tracks and callers and every number of egresses and restarts.    *)
(***************************************************************************)
EXTENDS EgressManager, TLAPS

(* While a request has a copy of the room's entry, the copy is a real one. *)
HasCopy == {"startTracks", "store", "wait", "stop", "accepted", "stopTracks"}
CopiesArePresent ==
  \A c \in Callers :
    /\ pc[c] \in HasCopy => held[c] \in Entry
    /\ \A tr \in todo[c] : tr.egress # NoEgress

TypeInv == TypeOK /\ CopiesArePresent

USE DEF NoEgress

LEMMA StateType ==
  ASSUME NEW e \in EgressIds, NEW status \in KnownStatus, NEW known \in BOOLEAN,
         NEW mode \in Modes, NEW trs \in SUBSET TrackEgress
  PROVE  State(e, status, known, mode, trs) \in Entry
BY DEF State, Entry

LEMMA NoEntryIsAbsent == NoEntry \notin Entry
BY DEF NoEntry, State, Entry, EgressIds

LEMMA EntryFields ==
  ASSUME NEW entry \in Entry
  PROVE  /\ entry.egress \in EgressIds /\ entry.status \in KnownStatus
         /\ entry.startedAt \in BOOLEAN /\ entry.mode \in Modes
         /\ entry.tracks \in SUBSET TrackEgress
         /\ Present(entry)
BY NoEntryIsAbsent DEF Entry, Present

LEMMA NoEntryFields ==
  NoEntry.tracks = {} /\ NoEntry.mode = "none" /\ NoEntry.status = "none" /\ NoEntry.egress = 0
BY DEF NoEntry, State

LEMMA WithTracksType ==
  ASSUME NEW entry \in Entry, NEW trs \in SUBSET TrackEgress
  PROVE  /\ WithTracks(entry, trs) \in Entry
         /\ WithTracks(entry, trs).egress = entry.egress
         /\ WithTracks(entry, trs).status = entry.status
         /\ WithTracks(entry, trs).tracks = trs
BY EntryFields, StateType DEF WithTracks, State

LEMMA UpsertType ==
  ASSUME NEW trs \in SUBSET TrackEgress, NEW tr \in TrackEgress
  PROVE  Upsert(trs, tr) \in SUBSET TrackEgress
BY DEF Upsert

LEMMA InitType == Init => TypeInv
BY MaxRestartsAssumption
DEF Init, TypeInv, TypeOK, CopiesArePresent, MaybeEntry, HasCopy, Pcs, ServiceStatus, LiveStatus

LEMMA LaunchType ==
  ASSUME TypeOK, NEW e \in EgressIds, NEW what \in {"room"} \cup Tracks, Launch(e, what)
  PROVE  /\ target' \in [EgressIds -> {"none", "room"} \cup Tracks]
         /\ progress' \in [EgressIds -> ServiceStatus]
         /\ notices' \in SUBSET Notice
BY DEF TypeOK, Launch, Notice, Told, ServiceStatus, LiveStatus

LEMMA HaltType ==
  ASSUME TypeOK, NEW e \in EgressIds, Halt(e)
  PROVE  /\ target' \in [EgressIds -> {"none", "room"} \cup Tracks]
         /\ progress' \in [EgressIds -> ServiceStatus]
         /\ notices' \in SUBSET Notice
BY DEF TypeOK, Halt, Notice, Told, ServiceStatus, LiveStatus

LEMMA ReturnType ==
  ASSUME TypeInv, NEW c \in Callers, Return(c)
  PROVE  /\ pc' \in [Callers -> Pcs] /\ held' \in [Callers -> MaybeEntry]
         /\ want' \in [Callers -> SUBSET Tracks] /\ todo' \in [Callers -> SUBSET TrackEgress]
         /\ failed' \in [Callers -> BOOLEAN] /\ CopiesArePresent'
BY DEF TypeInv, TypeOK, Return, CopiesArePresent, MaybeEntry, HasCopy, Pcs

LEMMA StartType ==
  ASSUME TypeInv, NEW c \in Callers, Start(c)
  PROVE  TypeInv'
<1> USE DEF TypeInv, TypeOK
<1>1. ASSUME NEW trs \in SUBSET Tracks, StartCheck(c, trs) PROVE TypeInv'
  BY <1>1 DEF StartCheck, maps, liveKit, CopiesArePresent, HasCopy, Pcs
<1>2. CASE StartComposite(c)
  <2>1. PICK e \in EgressIds :
          /\ Launch(e, "room")
          /\ held' = [held EXCEPT ![c] = State(e, "starting", TRUE,
               IF want[c] = {} THEN "room_composite" ELSE "participant_tracks", {})]
    BY <1>2 DEF StartComposite
  <2>2. State(e, "starting", TRUE,
              IF want[c] = {} THEN "room_composite" ELSE "participant_tracks", {}) \in Entry
    BY StateType DEF Modes, KnownStatus, ServiceStatus, LiveStatus
  <2> QED BY <1>2, <2>1, <2>2, LaunchType
       DEF StartComposite, maps, CopiesArePresent, HasCopy, Pcs, MaybeEntry
<1>3. CASE StartFails(c)
  <2>1. /\ target' \in [EgressIds -> {"none", "room"} \cup Tracks]
        /\ progress' \in [EgressIds -> ServiceStatus]
        /\ notices' \in SUBSET Notice
    BY <1>3, LaunchType DEF StartFails, liveKit
  <2> QED BY <1>3, <2>1, ReturnType DEF StartFails, maps
<1>4. CASE StartTrack(c)
  <2>1. PICK t \in want[c], tr \in TrackEgress :
          /\ tr.track = t
          /\ \/ tr.egress # NoEgress /\ tr.status = "starting" /\ Launch(tr.egress, t)
             \/ /\ tr.egress = NoEgress /\ tr.status = "ended"
                /\ UNCHANGED liveKit \/ \E lost \in EgressIds : Launch(lost, t)
          /\ want' = [want EXCEPT ![c] = want[c] \ {t}]
          /\ held' = [held EXCEPT ![c] =
               State(held[c].egress, held[c].status, held[c].startedAt,
                     IF want[c] = {t} THEN StartedMode(held[c].tracks \cup {tr}) ELSE held[c].mode,
                     held[c].tracks \cup {tr})]
          /\ pc' = [pc EXCEPT ![c] = IF want[c] = {t} THEN "store" ELSE "startTracks"]
    BY <1>4 DEF StartTrack
  <2>2. held[c] \in Entry
    BY <1>4 DEF StartTrack, CopiesArePresent, HasCopy
  <2>3. StartedMode(held[c].tracks \cup {tr}) \in Modes
    BY DEF StartedMode, Modes
  <2>4. State(held[c].egress, held[c].status, held[c].startedAt,
              IF want[c] = {t} THEN StartedMode(held[c].tracks \cup {tr}) ELSE held[c].mode,
              held[c].tracks \cup {tr}) \in Entry
    BY <2>2, <2>3, EntryFields, StateType
  <2>5. /\ target' \in [EgressIds -> {"none", "room"} \cup Tracks]
        /\ progress' \in [EgressIds -> ServiceStatus]
        /\ notices' \in SUBSET Notice
    BY <2>1, LaunchType DEF liveKit, TrackEgress
  <2> QED BY <1>4, <2>1, <2>4, <2>5
       DEF StartTrack, maps, CopiesArePresent, HasCopy, Pcs, MaybeEntry
<1>5. CASE StartStore(c)
  BY <1>5, ReturnType DEF StartStore, liveKit
<1> QED BY <1>1, <1>2, <1>3, <1>4, <1>5 DEF Start

LEMMA AddType ==
  ASSUME TypeInv, NEW c \in Callers, Add(c)
  PROVE  TypeInv'
<1> USE DEF TypeInv, TypeOK
<1>1. ASSUME NEW t \in Tracks, AddCheck(c, t) PROVE TypeInv'
  BY <1>1 DEF AddCheck, maps, liveKit, CopiesArePresent, HasCopy, Pcs
<1>2. CASE AddRequest(c)
  <2>1. PICK e \in EgressIds, t \in want[c] :
          /\ Launch(e, t)
          /\ todo' = [todo EXCEPT ![c] = {TrackState(e, t, "starting")}]
    BY <1>2 DEF AddRequest
  <2>2. TrackState(e, t, "starting") \in TrackEgress /\ TrackState(e, t, "starting").egress = e
    BY DEF TrackState, TrackEgress, KnownStatus, ServiceStatus, LiveStatus
  <2>3. /\ todo' \in [Callers -> SUBSET TrackEgress]
        /\ \A d \in Callers : \A tr \in todo'[d] : tr.egress # NoEgress
    BY <2>1, <2>2 DEF CopiesArePresent, EgressIds
  <2>4. /\ target' \in [EgressIds -> {"none", "room"} \cup Tracks]
        /\ progress' \in [EgressIds -> ServiceStatus]
        /\ notices' \in SUBSET Notice
    BY <2>1, LaunchType
  <2> QED BY <1>2, <2>3, <2>4 DEF AddRequest, maps, CopiesArePresent, HasCopy, Pcs
<1>3. CASE AddStore(c)
  <2>1. active' \in MaybeEntry /\ history' \in MaybeEntry
    <3>1. CASE ~Present(active)
      BY <1>3, <3>1 DEF AddStore, maps
    <3>2. CASE Present(active)
      <4>1. PICK tr \in todo[c] : /\ active' = WithTracks(active, Upsert(active.tracks, tr))
                                  /\ history' = WithTracks(active, Upsert(active.tracks, tr))
        BY <1>3, <3>2 DEF AddStore
      <4>2. active \in Entry
        BY <3>2 DEF MaybeEntry, Present
      <4>3. Upsert(active.tracks, tr) \in SUBSET TrackEgress
        BY <4>2, EntryFields, UpsertType
      <4> QED BY <4>1, <4>2, <4>3, WithTracksType DEF MaybeEntry
    <3> QED BY <3>1, <3>2
  <2> QED BY <1>3, <2>1, ReturnType DEF AddStore, liveKit
<1> QED BY <1>1, <1>2, <1>3 DEF Add

LEMMA TerminalIsPresent ==
  ASSUME NEW entry \in MaybeEntry, Terminal(entry.status)
  PROVE  entry \in Entry
BY NoEntryFields DEF MaybeEntry, Terminal

LEMMA StopAnsweredType ==
  ASSUME TypeInv, NEW c \in Callers, NEW entry \in Entry, NEW err \in BOOLEAN,
         StopAnswered(c, entry, err)
  PROVE  /\ pc' \in [Callers -> Pcs] /\ held' \in [Callers -> MaybeEntry]
         /\ todo' \in [Callers -> SUBSET TrackEgress] /\ failed' \in [Callers -> BOOLEAN]
         /\ CopiesArePresent'
         /\ UNCHANGED <<active, history, want, waited, restarts>>
<1>1. /\ ToStop(entry.tracks) \in SUBSET TrackEgress
      /\ \A tr \in ToStop(entry.tracks) : tr.egress # NoEgress
  BY EntryFields DEF ToStop
<1> QED BY <1>1 DEF TypeInv, TypeOK, StopAnswered, maps, CopiesArePresent, HasCopy, Pcs, MaybeEntry

LEMMA StopType ==
  ASSUME TypeInv, NEW c \in Callers, Stop(c)
  PROVE  TypeInv'
<1> USE DEF TypeInv, TypeOK
<1>1. CASE StopCheck(c)
  BY <1>1 DEF StopCheck, maps, liveKit, CopiesArePresent, HasCopy, Pcs, MaybeEntry, Present
<1>2. CASE StopWait(c)
  <2>1. held[c] \in Entry
    BY <1>2 DEF StopWait, CopiesArePresent, HasCopy
  <2> QED BY <1>2, <2>1, EntryFields DEF StopWait, maps, liveKit, CopiesArePresent, HasCopy, Pcs
<1>3. ASSUME pc[c] \in {"stop", "accepted", "stopTracks"}
      PROVE  /\ held[c] \in Entry
             /\ held[c].egress \in EgressIds /\ held[c].status \in KnownStatus
             /\ held[c].startedAt \in BOOLEAN /\ held[c].mode \in Modes
             /\ held[c].tracks \in SUBSET TrackEgress
  BY <1>3, EntryFields DEF CopiesArePresent, HasCopy
<1>4. CASE StopAccepted(c)
  <2>1. State(held[c].egress, "ending", TRUE, FirstMode(held[c].mode, "room_composite"),
              held[c].tracks) \in Entry
    BY <1>3, <1>4, StateType
    DEF StopAccepted, FirstMode, Modes, KnownStatus, ServiceStatus, LiveStatus
  <2> QED BY <1>3, <1>4, <2>1, StopAnsweredType, HaltType DEF StopAccepted
<1>5. CASE StopAlready(c)
  BY <1>3, <1>5, StopAnsweredType, TerminalIsPresent DEF StopAlready, liveKit
<1>6. CASE StopRejected(c)
  BY <1>3, <1>6, StopAnsweredType DEF StopRejected, liveKit
<1>7. CASE StopTimesOut(c)
  <2>1. State(held[c].egress, "stopping", held[c].startedAt, held[c].mode, held[c].tracks)
          \in Entry
    BY <1>3, <1>7, StateType DEF StopTimesOut, KnownStatus
  <2>2. /\ target' \in [EgressIds -> {"none", "room"} \cup Tracks]
        /\ progress' \in [EgressIds -> ServiceStatus]
        /\ notices' \in SUBSET Notice
    BY <1>3, <1>7, HaltType DEF StopTimesOut, liveKit
  <2> QED BY <1>7, <2>1, <2>2
       DEF StopTimesOut, HeldAs, maps, CopiesArePresent, HasCopy, Pcs, MaybeEntry
<1>8. CASE StoreAccepted(c)
  BY <1>8, ReturnType DEF StoreAccepted, liveKit
<1>9. CASE StopTrack(c)
  <2>1. PICK tr \in todo[c], status \in KnownStatus :
          /\ \/ status = "ending" /\ Halt(tr.egress)
             \/ status = "stopping" /\ (Halt(tr.egress) \/ UNCHANGED liveKit)
             \/ status = tr.status /\ ~Running(tr.egress) /\ UNCHANGED liveKit
          /\ todo' = [todo EXCEPT ![c] = todo[c] \ {tr}]
          /\ held' = [held EXCEPT ![c] = WithTracks(held[c],
               (held[c].tracks \ {tr}) \cup {TrackState(tr.egress, tr.track, status)})]
    BY <1>9 DEF StopTrack
  <2>2. tr \in TrackEgress /\ tr.egress \in EgressIds /\ TrackState(tr.egress, tr.track, status) \in TrackEgress
    BY DEF TrackEgress, TrackState, CopiesArePresent
  <2>3. (held[c].tracks \ {tr}) \cup {TrackState(tr.egress, tr.track, status)}
          \in SUBSET TrackEgress
    BY <1>3, <1>9, <2>2 DEF StopTrack
  <2>4. WithTracks(held[c], (held[c].tracks \ {tr})
                              \cup {TrackState(tr.egress, tr.track, status)}) \in Entry
    BY <1>3, <1>9, <2>3, WithTracksType DEF StopTrack
  <2>5. /\ target' \in [EgressIds -> {"none", "room"} \cup Tracks]
        /\ progress' \in [EgressIds -> ServiceStatus]
        /\ notices' \in SUBSET Notice
    BY <2>1, <2>2, HaltType DEF liveKit
  <2> QED BY <1>9, <2>1, <2>2, <2>4, <2>5
       DEF StopTrack, maps, CopiesArePresent, HasCopy, Pcs, MaybeEntry
<1>10. CASE StopStore(c)
  BY <1>10, ReturnType DEF StopStore, maps, liveKit, MaybeEntry
<1> QED BY <1>1, <1>2, <1>4, <1>5, <1>6, <1>7, <1>8, <1>9, <1>10 DEF Stop

LEMMA LatestType ==
  ASSUME TypeOK
  PROVE  Latest \in MaybeEntry /\ Latest.tracks \in SUBSET TrackEgress
BY EntryFields, NoEntryFields DEF TypeOK, Latest, MaybeEntry

LEMMA UpdateFromInfoType ==
  ASSUME TypeOK, NEW n \in notices, UpdateFromInfo(n)
  PROVE  /\ FromWebhook(n) \in Entry
         /\ active' \in MaybeEntry /\ history' \in MaybeEntry
<1>1. n.egress \in EgressIds /\ n.status \in KnownStatus
  BY DEF TypeOK, Notice, KnownStatus
<1>2. FirstMode(Latest.mode, "room_composite") \in Modes
  BY LatestType, EntryFields, NoEntryFields DEF MaybeEntry, FirstMode, Modes
<1>3. FromWebhook(n) \in Entry
  BY <1>1, <1>2, LatestType, StateType DEF FromWebhook, HasStarted
<1> QED BY <1>3 DEF UpdateFromInfo, MaybeEntry

LEMMA UpdateTrackFromInfoType ==
  ASSUME TypeOK, NEW n \in notices, UpdateTrackFromInfo(n)
  PROVE  /\ FromTrackWebhook(n) \in Entry
         /\ active' \in MaybeEntry /\ history' \in MaybeEntry
<1> DEFINE tr == TrackState(n.egress, target[n.egress], n.status)
           new == State(n.egress, n.status, HasStarted(n.status), "participant_tracks", {})
           base == IF Present(Latest) THEN Latest ELSE new
<1>1. n.egress \in EgressIds /\ n.status \in KnownStatus
  BY DEF TypeOK, Notice, KnownStatus
<1>2. tr \in TrackEgress
  BY <1>1 DEF TrackState, TrackEgress, UpdateTrackFromInfo
<1>3. new \in Entry
  BY <1>1, StateType DEF HasStarted, Modes
<1>4. base \in Entry /\ base.tracks \in SUBSET TrackEgress
  BY <1>3, LatestType, EntryFields DEF MaybeEntry, Present
<1>5. Upsert(base.tracks, tr) \in SUBSET TrackEgress
  BY <1>2, <1>4, UpsertType
<1>6. FromTrackWebhook(n) \in Entry
  BY <1>4, <1>5, WithTracksType DEF FromTrackWebhook
<1> QED BY <1>6 DEF UpdateTrackFromInfo, MaybeEntry

LEMMA WebhookType ==
  ASSUME TypeInv, NEW n \in notices, Webhook(n)
  PROVE  TypeInv'
<1>1. active' \in MaybeEntry /\ history' \in MaybeEntry
  BY UpdateFromInfoType, UpdateTrackFromInfoType DEF Webhook, TypeInv
<1>2. notices' \in SUBSET Notice
  BY DEF TypeInv, TypeOK, Webhook
<1> QED BY <1>1, <1>2 DEF TypeInv, TypeOK, CopiesArePresent, Webhook, callVars

LEMMA LiveKitType ==
  ASSUME TypeInv, NEW e \in EgressIds, NEW status \in ServiceStatus, LiveKitStep(e, status)
  PROVE  TypeInv'
BY DEF TypeInv, TypeOK, CopiesArePresent, LiveKitStep, maps, callVars, Notice, Told

LEMMA RestartType == TypeInv /\ Restart => TypeInv'
BY MaxRestartsAssumption
DEF TypeInv, TypeOK, CopiesArePresent, Restart, liveKit, MaybeEntry, HasCopy, Pcs

LEMMA StepType == TypeInv /\ [Next]_vars => TypeInv'
<1>1. CASE UNCHANGED vars
  BY <1>1 DEF TypeInv, TypeOK, CopiesArePresent, vars
<1>2. CASE TypeInv /\ Next
  BY <1>2, StartType, AddType, StopType, LiveKitType, WebhookType, RestartType DEF Next
<1> QED BY <1>1, <1>2

(* The maps, the requests and LiveKit stay well formed; in particular an   *)
(* entry that is present always names an egress and a recording mode, and  *)
(* so does the copy a request works on.                                    *)
THEOREM TypeCorrect == Spec => []TypeOK
<1>1. TypeInv => TypeOK
  BY DEF TypeInv
<1> QED BY <1>1, InitType, StepType, PTL DEF Spec

----------------------------------------------------------------------------
(* The inductive invariant.  EndedIsTrue alone is not inductive: an entry  *)
(* learns of an end from a webhook, and a request carries what it has read *)
(* across the steps in which it holds no lock.                             *)
NoticesAreTrue ==
  \A n \in notices : Used(n.egress) /\ (Terminal(n.status) => Ended(n.egress))

Sound(entry) == BelievesTruly(entry) /\ (Present(entry) => Used(entry.egress))

(* A request holds a sound copy, is not about to store an end, and stops   *)
(* tracks on the way to releasing the room only once the egress stopped.   *)
RequestIsFine(c) ==
  /\ Sound(held[c])
  /\ pc[c] \in {"startTracks", "store"} => held[c].status = "starting"
  /\ pc[c] = "accepted" => held[c].status = "stopping"
  /\ \A tr \in todo[c] : ~Terminal(tr.status)
  /\ pc[c] = "stopTracks" /\ ~failed[c] => ~Running(held[c].egress)

Inv ==
  /\ TypeInv
  /\ ActiveMirrorsHistory /\ ActiveIsUnfinished
  /\ NoticesAreTrue /\ Sound(active) /\ Sound(history)
  /\ \A c \in Callers : RequestIsFine(c)

(* What a step of LiveKit never takes back.                                *)
Onward ==
  \A e \in EgressIds :
    /\ Used(e) => Used(e)'
    /\ Used(e) /\ ~Running(e) => ~Running(e)'
    /\ Used(e) /\ Terminal(progress[e]) => Terminal(progress'[e])

LEMMA LaunchOnward ==
  ASSUME TypeOK, NoticesAreTrue, NEW e \in EgressIds, NEW what \in {"room"} \cup Tracks,
         Launch(e, what)
  PROVE  Onward /\ NoticesAreTrue' /\ Used(e)'
<1>1. Onward /\ Used(e)' /\ ~Used(e)
  BY TracksAssumption DEF TypeOK, Launch, Onward, Used, Running
<1>2. NoticesAreTrue'
  BY <1>1
  DEF TypeOK, Launch, NoticesAreTrue, Onward, Used, Ended, Terminal, Told, Notice
<1> QED BY <1>1, <1>2

LEMMA HaltOnward ==
  ASSUME TypeOK, NoticesAreTrue, NEW e \in EgressIds, Halt(e)
  PROVE  Onward /\ NoticesAreTrue' /\ ~Running(e)' /\ Used(e)
<1>1. Onward /\ ~Running(e)' /\ Used(e)
  BY DEF TypeOK, Halt, Onward, Used, Running, Terminal, LiveStatus
<1>2. NoticesAreTrue'
  BY <1>1
  DEF TypeOK, Halt, NoticesAreTrue, Onward, Used, Running, Ended, Terminal, Told, Notice, LiveStatus
<1> QED BY <1>1, <1>2

LEMMA IdleOnward ==
  ASSUME NoticesAreTrue, UNCHANGED liveKit
  PROVE  Onward /\ NoticesAreTrue'
BY DEF liveKit, Onward, NoticesAreTrue, Used, Running, Ended, Terminal

LEMMA LiveKitOnward ==
  ASSUME TypeOK, NoticesAreTrue, NEW e \in EgressIds, NEW status \in ServiceStatus,
         LiveKitStep(e, status)
  PROVE  Onward /\ NoticesAreTrue'
<1>1. Onward /\ Used(e) /\ progress'[e] = status /\ UNCHANGED target
  BY DEF TypeOK, LiveKitStep, Onward, Used, Running, Terminal, LiveStatus
<1>2. NoticesAreTrue'
  BY <1>1
  DEF TypeOK, LiveKitStep, NoticesAreTrue, Onward, Used, Ended, Terminal, Told, Notice
<1> QED BY <1>1, <1>2

(* What the manager holds stays sound while LiveKit moves on.              *)
LEMMA SoundStays ==
  ASSUME Onward, NEW entry \in MaybeEntry, Sound(entry)
  PROVE  Sound(entry)'
<1>1. /\ Present(entry) => entry.egress \in EgressIds
      /\ entry.egress # NoEgress => entry.egress \in EgressIds
      /\ \A tr \in entry.tracks : tr.egress # NoEgress => tr.egress \in EgressIds
  BY EntryFields, NoEntryFields DEF MaybeEntry, TrackEgress, Present
<1> QED BY <1>1 DEF Onward, Sound, BelievesTruly, Ended

LEMMA NoEntryIsSound == Sound(NoEntry)
BY NoEntryFields DEF Sound, BelievesTruly, Present, Terminal

LEMMA UpsertMembers ==
  ASSUME NEW trs, NEW incoming
  PROVE  Upsert(trs, incoming) \subseteq trs \cup {incoming} /\ incoming \in Upsert(trs, incoming)
BY DEF Upsert

(* A request stays fine through a step it does not take.                   *)
Bystander(d) == pc'[d] = pc[d] /\ held'[d] = held[d] /\ todo'[d] = todo[d] /\ failed'[d] = failed[d]

LEMMA BystanderStays ==
  ASSUME Inv, Onward, NEW d \in Callers, Bystander(d)
  PROVE  RequestIsFine(d)'
<1>1. held[d] \in MaybeEntry /\ RequestIsFine(d)
  BY DEF Inv, TypeInv, TypeOK
<1>2. Sound(held[d])'
  <2>1. \A entry \in MaybeEntry : Sound(entry) => Sound(entry)'
    BY SoundStays
  <2> QED BY <1>1, <2>1 DEF RequestIsFine, Bystander, Sound, BelievesTruly, Ended, Used
<1>3. ASSUME pc[d] = "stopTracks", ~failed[d]
      PROVE  ~Running(held[d].egress)'
  <2>1. held[d] \in Entry
    BY <1>3 DEF Inv, TypeInv, CopiesArePresent, HasCopy
  <2>2. held[d].egress \in EgressIds /\ Used(held[d].egress) /\ ~Running(held[d].egress)
    BY <1>1, <1>3, <2>1, EntryFields DEF RequestIsFine, Sound
  <2> QED BY <2>2 DEF Onward, Bystander, Running, Used
<1> QED BY <1>1, <1>2, <1>3 DEF RequestIsFine, Bystander

LEMMA ReturnKeeps ==
  ASSUME Inv, Onward, NEW c \in Callers, Return(c)
  PROVE  \A d \in Callers : RequestIsFine(d)'
<1>1. TAKE d \in Callers
<1>2. CASE d = c
  <2>1. held'[d] = NoEntry /\ pc'[d] = "idle" /\ todo'[d] = {}
    BY <1>2 DEF Inv, TypeInv, TypeOK, Return
  <2>2. Sound(held[d])'
    BY <2>1, NoEntryFields DEF Sound, BelievesTruly, Present, Terminal
  <2> QED BY <2>1, <2>2 DEF RequestIsFine
<1>3. CASE d # c
  BY <1>3, BystanderStays DEF Inv, TypeInv, TypeOK, Return, Bystander
<1> QED BY <1>2, <1>3

(* The four invariants of the two maps.                                    *)
MapsAreFine == ActiveMirrorsHistory /\ ActiveIsUnfinished /\ Sound(active) /\ Sound(history)

LEMMA MapsStay ==
  ASSUME Inv, Onward, UNCHANGED maps
  PROVE  MapsAreFine'
<1>1. Sound(active)' /\ Sound(history)'
  <2>1. \A entry \in MaybeEntry : Sound(entry) => Sound(entry)'
    BY SoundStays
  <2> QED BY <2>1 DEF Inv, TypeInv, TypeOK, maps, Sound, BelievesTruly, Ended, Used
<1> QED BY <1>1 DEF Inv, MapsAreFine, maps, ActiveMirrorsHistory, ActiveIsUnfinished, Present, AllTerminal

(* Both maps are given the same entry, one that has not ended.             *)
LEMMA StoreKeeps ==
  ASSUME NEW entry, Sound(entry)', ~AllTerminal(entry), active' = entry, history' = entry
  PROVE  MapsAreFine'
BY DEF MapsAreFine, ActiveMirrorsHistory, ActiveIsUnfinished, Present, AllTerminal, Sound,
       BelievesTruly, Ended, Used, Terminal

LEMMA StartSafe ==
  ASSUME Inv, NEW c \in Callers, Start(c)
  PROVE  Inv'
<1>1. TypeInv'
  BY StartType DEF Inv
<1> SUFFICES NoticesAreTrue' /\ MapsAreFine' /\ \A d \in Callers : RequestIsFine(d)'
  BY <1>1 DEF Inv, MapsAreFine
<1>2. TypeOK /\ NoticesAreTrue /\ RequestIsFine(c)
  BY DEF Inv, TypeInv
<1>3. ASSUME NEW trs \in SUBSET Tracks, StartCheck(c, trs)
      PROVE  NoticesAreTrue' /\ MapsAreFine' /\ \A d \in Callers : RequestIsFine(d)'
  <2>1. Onward /\ NoticesAreTrue'
    BY <1>2, <1>3, IdleOnward DEF StartCheck
  <2>2. MapsAreFine'
    BY <1>3, <2>1, MapsStay DEF StartCheck
  <2>3. RequestIsFine(c)'
    BY <1>2, <1>3 DEF TypeOK, StartCheck, RequestIsFine, Sound, BelievesTruly, Ended, Used, liveKit
  <2>4. \A d \in Callers \ {c} : RequestIsFine(d)'
    BY <1>2, <1>3, <2>1, BystanderStays DEF TypeOK, StartCheck, Bystander
  <2> QED BY <2>1, <2>2, <2>3, <2>4
<1>4. CASE StartComposite(c)
  <2>1. PICK e \in EgressIds :
          /\ Launch(e, "room")
          /\ held' = [held EXCEPT ![c] = State(e, "starting", TRUE,
               IF want[c] = {} THEN "room_composite" ELSE "participant_tracks", {})]
    BY <1>4 DEF StartComposite
  <2>2. Onward /\ NoticesAreTrue' /\ Used(e)'
    BY <1>2, <2>1, LaunchOnward
  <2>3. MapsAreFine'
    BY <1>4, <2>2, MapsStay DEF StartComposite
  <2>4. RequestIsFine(c)'
    BY <1>2, <1>4, <2>1, <2>2
    DEF TypeOK, StartComposite, RequestIsFine, Sound, BelievesTruly, State, Terminal, Used
  <2>5. \A d \in Callers \ {c} : RequestIsFine(d)'
    BY <1>2, <1>4, <2>1, <2>2, BystanderStays DEF TypeOK, StartComposite, Bystander
  <2> QED BY <2>2, <2>3, <2>4, <2>5
<1>5. CASE StartFails(c)
  <2>1. Onward /\ NoticesAreTrue'
    BY <1>2, <1>5, LaunchOnward, IdleOnward DEF StartFails, TypeOK
  <2>2. MapsAreFine'
    BY <1>5, <2>1, MapsStay DEF StartFails
  <2> QED BY <1>5, <2>1, <2>2, ReturnKeeps DEF StartFails
<1>6. CASE StartTrack(c)
  <2>1. PICK t \in want[c], tr \in TrackEgress :
          /\ tr.track = t
          /\ \/ tr.egress # NoEgress /\ tr.status = "starting" /\ Launch(tr.egress, t)
             \/ /\ tr.egress = NoEgress /\ tr.status = "ended"
                /\ UNCHANGED liveKit \/ \E lost \in EgressIds : Launch(lost, t)
          /\ held' = [held EXCEPT ![c] =
               State(held[c].egress, held[c].status, held[c].startedAt,
                     IF want[c] = {t} THEN StartedMode(held[c].tracks \cup {tr}) ELSE held[c].mode,
                     held[c].tracks \cup {tr})]
    BY <1>6 DEF StartTrack
  <2>2. t \in Tracks /\ (tr.egress # NoEgress => tr.egress \in EgressIds)
    BY <1>2 DEF TypeOK, TrackEgress
  <2>3. Onward /\ NoticesAreTrue'
    BY <1>2, <2>1, <2>2, LaunchOnward, IdleOnward
  <2>4. MapsAreFine'
    BY <1>6, <2>3, MapsStay DEF StartTrack
  <2>5. held[c] \in Entry /\ held[c].status = "starting"
    BY <1>2, <1>6 DEF Inv, TypeInv, CopiesArePresent, HasCopy, RequestIsFine, StartTrack
  <2>6. Sound(held[c])'
    <3>1. \A entry \in MaybeEntry : Sound(entry) => Sound(entry)'
      BY <2>3, SoundStays
    <3>2. /\ target'[held[c].egress] # "none"
          /\ \A old \in held[c].tracks : Terminal(old.status) => Ended(old.egress)'
      <4>1. Used(held[c].egress)
        BY <1>2, <2>5, EntryFields DEF RequestIsFine, Sound
      <4>2. held[c].egress \in EgressIds
        BY <2>5, EntryFields
      <4>3. PICK entry \in MaybeEntry : entry = held[c]
        BY <2>5 DEF MaybeEntry
      <4>4. Sound(entry)'
        BY <1>2, <3>1, <4>3 DEF RequestIsFine
      <4>5. target'[held[c].egress] # "none"
        BY <2>3, <4>1, <4>2 DEF Onward, Used
      <4>6. \A old \in entry.tracks : Terminal(old.status) => Ended(old.egress)'
        BY <4>4 DEF Sound, BelievesTruly
      <4> QED BY <4>3, <4>5, <4>6
    <3> QED BY <1>2, <2>1, <2>5, <3>2
         DEF TypeOK, State, Sound, BelievesTruly, Terminal, Used, Ended
  <2>7. RequestIsFine(c)'
    BY <1>2, <1>6, <2>1, <2>5, <2>6 DEF TypeOK, StartTrack, RequestIsFine, State
  <2>8. \A d \in Callers \ {c} : RequestIsFine(d)'
    BY <1>2, <1>6, <2>1, <2>3, BystanderStays DEF TypeOK, StartTrack, Bystander
  <2> QED BY <2>3, <2>4, <2>7, <2>8
<1>7. CASE StartStore(c)
  <2>1. Onward /\ NoticesAreTrue'
    BY <1>2, <1>7, IdleOnward DEF StartStore
  <2>2. MapsAreFine'
    <3>1. PICK entry : entry = held[c]
      OBVIOUS
    <3>2. Sound(entry)' /\ ~AllTerminal(entry)
      BY <1>2, <1>7, <3>1
      DEF RequestIsFine, StartStore, liveKit, Sound, BelievesTruly, Ended, Used, AllTerminal, Terminal
    <3> QED BY <1>7, <3>1, <3>2, StoreKeeps DEF StartStore
  <2> QED BY <1>7, <2>1, <2>2, ReturnKeeps DEF StartStore
<1> QED BY <1>3, <1>4, <1>5, <1>6, <1>7 DEF Start

LEMMA AddSafe ==
  ASSUME Inv, NEW c \in Callers, Add(c)
  PROVE  Inv'
<1>1. TypeInv'
  BY AddType DEF Inv
<1> SUFFICES NoticesAreTrue' /\ MapsAreFine' /\ \A d \in Callers : RequestIsFine(d)'
  BY <1>1 DEF Inv, MapsAreFine
<1>2. TypeOK /\ NoticesAreTrue /\ RequestIsFine(c)
  BY DEF Inv, TypeInv
<1>3. ASSUME NEW t \in Tracks, AddCheck(c, t)
      PROVE  NoticesAreTrue' /\ MapsAreFine' /\ \A d \in Callers : RequestIsFine(d)'
  <2>1. Onward /\ NoticesAreTrue'
    BY <1>2, <1>3, IdleOnward DEF AddCheck
  <2>2. MapsAreFine'
    BY <1>3, <2>1, MapsStay DEF AddCheck
  <2>3. RequestIsFine(c)'
    BY <1>2, <1>3 DEF TypeOK, AddCheck, RequestIsFine, Sound, BelievesTruly, Ended, Used, liveKit
  <2>4. \A d \in Callers \ {c} : RequestIsFine(d)'
    BY <1>2, <1>3, <2>1, BystanderStays DEF TypeOK, AddCheck, Bystander
  <2> QED BY <2>1, <2>2, <2>3, <2>4
<1>4. CASE AddRequest(c)
  <2>1. PICK e \in EgressIds, t \in want[c] :
          /\ Launch(e, t)
          /\ todo' = [todo EXCEPT ![c] = {TrackState(e, t, "starting")}]
    BY <1>4 DEF AddRequest
  <2>2. Onward /\ NoticesAreTrue'
    BY <1>2, <2>1, LaunchOnward DEF TypeOK
  <2>3. MapsAreFine'
    BY <1>4, <2>2, MapsStay DEF AddRequest
  <2>4. RequestIsFine(c)'
    <3>1. Sound(held[c])'
      <4>1. \A entry \in MaybeEntry : Sound(entry) => Sound(entry)'
        BY <2>2, SoundStays
      <4> QED BY <1>2, <1>4, <4>1
           DEF TypeOK, AddRequest, RequestIsFine, Sound, BelievesTruly, Ended, Used
    <3>2. todo'[c] = {TrackState(e, t, "starting")} /\ pc'[c] = "addStore"
      BY <1>2, <1>4, <2>1 DEF TypeOK, AddRequest
    <3> QED BY <3>1, <3>2 DEF RequestIsFine, TrackState, Terminal
  <2>5. \A d \in Callers \ {c} : RequestIsFine(d)'
    BY <1>2, <1>4, <2>1, <2>2, BystanderStays DEF TypeOK, AddRequest, Bystander
  <2> QED BY <2>2, <2>3, <2>4, <2>5
<1>5. CASE AddStore(c)
  <2>1. Onward /\ NoticesAreTrue'
    BY <1>2, <1>5, IdleOnward DEF AddStore
  <2>2. CASE ~Present(active)
    BY <1>5, <2>1, <2>2, ReturnKeeps, MapsStay DEF AddStore
  <2>3. CASE Present(active)
    <3>1. PICK tr \in todo[c] : /\ active' = WithTracks(active, Upsert(active.tracks, tr))
                                /\ history' = WithTracks(active, Upsert(active.tracks, tr))
      BY <1>5, <2>3 DEF AddStore
    <3>2. active \in Entry /\ Sound(active)
      BY <2>3 DEF Inv, TypeInv, TypeOK, MaybeEntry, Present
    <3>3. tr \in TrackEgress /\ tr.egress # NoEgress /\ ~Terminal(tr.status)
      BY <1>2 DEF Inv, TypeInv, TypeOK, CopiesArePresent, RequestIsFine
    <3> DEFINE trs == Upsert(active.tracks, tr)
               entry == WithTracks(active, trs)
    <3>4. /\ entry.egress = active.egress /\ entry.status = active.status /\ entry.tracks = trs
      BY <3>2, <3>3, EntryFields, UpsertType, WithTracksType
    <3>5. tr \in trs /\ \A old \in trs : old \in active.tracks \/ old = tr
      BY UpsertMembers
    <3>6. ~AllTerminal(entry)
      BY <3>3, <3>4, <3>5 DEF AllTerminal
    <3>7. Sound(entry)
      BY <2>3, <3>2, <3>3, <3>4, <3>5 DEF Sound, BelievesTruly
    <3> HIDE DEF entry
    <3>8. PICK e : e = entry
      OBVIOUS
    <3>9. Sound(e)' /\ ~AllTerminal(e)
      BY <1>5, <3>6, <3>7, <3>8 DEF AddStore, liveKit, Sound, BelievesTruly, Ended, Used
    <3>10. active' = e /\ history' = e
      BY <3>1, <3>8 DEF entry
    <3> QED BY <1>5, <2>1, <3>9, <3>10, StoreKeeps, ReturnKeeps DEF AddStore
  <2> QED BY <2>2, <2>3
<1> QED BY <1>3, <1>4, <1>5 DEF Add

(* StopEgress has been answered and the request stops the tracks of an     *)
(* entry that is sound; without an error it is one whose egress stopped.   *)
LEMMA StopAnsweredSafe ==
  ASSUME Inv, Onward, NEW c \in Callers, NEW entry \in Entry, NEW err \in BOOLEAN,
         StopAnswered(c, entry, err), Sound(entry)',
         ~err => ~(Used(entry.egress)' /\ progress'[entry.egress] \in LiveStatus)
  PROVE  MapsAreFine' /\ \A d \in Callers : RequestIsFine(d)'
<1>1. MapsAreFine'
  BY MapsStay DEF StopAnswered
<1>2. /\ pc'[c] = "stopTracks" /\ held'[c] = entry /\ failed'[c] = err
      /\ todo'[c] = ToStop(entry.tracks)
  BY DEF Inv, TypeInv, TypeOK, StopAnswered
<1>3. RequestIsFine(c)'
  BY <1>2 DEF RequestIsFine, ToStop, Running, Sound, BelievesTruly, Ended, Used
<1>4. \A d \in Callers \ {c} : RequestIsFine(d)'
  BY BystanderStays DEF Inv, TypeInv, TypeOK, StopAnswered, Bystander
<1> QED BY <1>1, <1>3, <1>4

LEMMA StopSafe ==
  ASSUME Inv, NEW c \in Callers, Stop(c)
  PROVE  Inv'
<1>1. TypeInv'
  BY StopType DEF Inv
<1> SUFFICES NoticesAreTrue' /\ MapsAreFine' /\ \A d \in Callers : RequestIsFine(d)'
  BY <1>1 DEF Inv, MapsAreFine
<1>2. TypeOK /\ NoticesAreTrue /\ RequestIsFine(c)
  BY DEF Inv, TypeInv
<1>3. ASSUME pc[c] \in HasCopy
      PROVE  /\ held[c] \in Entry /\ held[c].egress \in EgressIds /\ Used(held[c].egress)
  BY <1>2, <1>3, EntryFields DEF Inv, TypeInv, CopiesArePresent, RequestIsFine, Sound
<1>4. CASE StopCheck(c)
  <2>1. Onward /\ NoticesAreTrue'
    BY <1>2, <1>4, IdleOnward DEF StopCheck
  <2>2. MapsAreFine'
    BY <1>4, <2>1, MapsStay DEF StopCheck
  <2>3. RequestIsFine(c)'
    BY <1>2, <1>4
    DEF Inv, TypeOK, StopCheck, RequestIsFine, Sound, BelievesTruly, Ended, Used, liveKit
  <2>4. \A d \in Callers \ {c} : RequestIsFine(d)'
    BY <1>2, <1>4, <2>1, BystanderStays DEF TypeOK, StopCheck, Bystander
  <2> QED BY <2>1, <2>2, <2>3, <2>4
<1>5. CASE StopWait(c)
  <2>1. Onward /\ NoticesAreTrue'
    BY <1>2, <1>5, IdleOnward DEF StopWait
  <2>2. MapsAreFine'
    BY <1>5, <2>1, MapsStay DEF StopWait
  <2>3. RequestIsFine(c)'
    BY <1>2, <1>5 DEF TypeOK, StopWait, RequestIsFine, Sound, BelievesTruly, Ended, Used, liveKit
  <2>4. \A d \in Callers \ {c} : RequestIsFine(d)'
    BY <1>2, <1>5, <2>1, BystanderStays DEF TypeOK, StopWait, Bystander
  <2> QED BY <2>1, <2>2, <2>3, <2>4
<1>6. CASE StopAccepted(c)
  <2>1. Halt(held[c].egress) /\ held[c] \in Entry /\ held[c].egress \in EgressIds
    BY <1>3, <1>6 DEF StopAccepted, HasCopy
  <2>2. Onward /\ NoticesAreTrue' /\ progress'[held[c].egress] = "ending"
    BY <1>2, <2>1, HaltOnward DEF TypeOK, Halt
  <2> DEFINE mode == FirstMode(held[c].mode, "room_composite")
             entry == State(held[c].egress, "ending", TRUE, mode, held[c].tracks)
  <2>3. mode \in Modes
    BY <2>1, EntryFields DEF FirstMode, Modes
  <2>4. entry \in Entry
    BY <2>1, <2>3, EntryFields, StateType DEF KnownStatus, ServiceStatus, LiveStatus
  <2>5. entry.egress = held[c].egress /\ entry.status = "ending" /\ entry.tracks = held[c].tracks
    BY DEF State
  <2>6. Sound(entry)
    BY <1>2, <1>3, <1>6, <2>5
    DEF StopAccepted, HasCopy, RequestIsFine, Sound, BelievesTruly, Terminal
  <2>7. StopAnswered(c, entry, FALSE)
    BY <1>6 DEF StopAccepted
  <2> HIDE DEF entry
  <2>8. PICK e \in Entry : e = entry
    BY <2>4
  <2>9. Sound(e)'
    BY <2>2, <2>6, <2>8, SoundStays DEF MaybeEntry
  <2>10. progress'[e.egress] \notin LiveStatus
    BY <2>2, <2>5, <2>8 DEF LiveStatus
  <2> QED BY <2>2, <2>7, <2>8, <2>9, <2>10, StopAnsweredSafe
<1>7. CASE StopAlready(c)
  <2>1. Onward /\ NoticesAreTrue'
    BY <1>2, <1>7, IdleOnward DEF StopAlready
  <2>2. CASE Terminal(history.status) /\ StopAnswered(c, history, FALSE)
    <3>1. PICK e \in Entry : e = history
      BY <2>2, TerminalIsPresent DEF Inv, TypeInv, TypeOK
    <3>2. Sound(e) /\ Ended(e.egress) /\ e.egress \in EgressIds
      BY <2>2, <3>1, EntryFields DEF Inv, Sound, BelievesTruly
    <3>3. Sound(e)'
      BY <2>1, <3>2, SoundStays DEF MaybeEntry
    <3>4. progress'[e.egress] \notin LiveStatus
      BY <1>7, <3>2 DEF StopAlready, liveKit, Ended, Terminal, LiveStatus, EgressIds
    <3> QED BY <2>1, <2>2, <3>1, <3>3, <3>4, StopAnsweredSafe
  <2>3. CASE StopAnswered(c, held[c], TRUE)
    <3>1. PICK e \in Entry : e = held[c]
      BY <1>3, <1>7 DEF StopAlready, HasCopy
    <3>2. Sound(e)'
      BY <1>2, <2>1, <3>1, SoundStays DEF MaybeEntry, RequestIsFine
    <3> QED BY <2>1, <2>3, <3>1, <3>2, StopAnsweredSafe
  <2> QED BY <1>7, <2>1, <2>2, <2>3 DEF StopAlready
<1>8. CASE StopRejected(c)
  <2>1. Onward /\ NoticesAreTrue'
    BY <1>2, <1>8, IdleOnward DEF StopRejected
  <2>2. PICK e \in Entry : e = held[c]
    BY <1>3, <1>8 DEF StopRejected, HasCopy
  <2>3. Sound(e)'
    BY <1>2, <2>1, <2>2, SoundStays DEF MaybeEntry, RequestIsFine
  <2>4. StopAnswered(c, e, TRUE)
    BY <1>8, <2>2 DEF StopRejected
  <2> QED BY <2>1, <2>3, <2>4, StopAnsweredSafe
<1>9. CASE StopTimesOut(c)
  <2>1. held[c] \in Entry /\ held[c].egress \in EgressIds
    BY <1>3, <1>9 DEF StopTimesOut, HasCopy
  <2>2. Onward /\ NoticesAreTrue'
    BY <1>2, <1>9, <2>1, HaltOnward, IdleOnward DEF StopTimesOut
  <2>3. MapsAreFine'
    BY <1>9, <2>2, MapsStay DEF StopTimesOut
  <2> DEFINE entry == State(held[c].egress, "stopping", held[c].startedAt, held[c].mode,
                            held[c].tracks)
  <2>4. /\ entry \in Entry /\ entry.egress = held[c].egress
        /\ entry.status = "stopping" /\ entry.tracks = held[c].tracks
    BY <2>1, EntryFields, StateType DEF State, KnownStatus
  <2>5. Sound(entry)
    BY <1>2, <1>3, <1>9, <2>4
    DEF StopTimesOut, HasCopy, RequestIsFine, Sound, BelievesTruly, Terminal
  <2>6. held' = [held EXCEPT ![c] = entry]
    BY <1>9 DEF StopTimesOut, HeldAs
  <2> HIDE DEF entry
  <2>7. PICK e \in Entry : e = entry
    BY <2>4
  <2>8. Sound(e)' /\ e.status = "stopping"
    BY <2>2, <2>4, <2>5, <2>7, SoundStays DEF MaybeEntry
  <2>9. held'[c] = e /\ pc'[c] = "accepted" /\ todo'[c] = todo[c]
    BY <1>2, <1>9, <2>6, <2>7 DEF TypeOK, StopTimesOut
  <2>10. RequestIsFine(c)'
    BY <1>2, <2>8, <2>9 DEF RequestIsFine, Sound, BelievesTruly, Ended, Used
  <2>11. \A d \in Callers \ {c} : RequestIsFine(d)'
    BY <1>2, <1>9, <2>2, <2>6, BystanderStays DEF TypeOK, StopTimesOut, Bystander
  <2> QED BY <2>2, <2>3, <2>10, <2>11
<1>10. CASE StoreAccepted(c)
  <2>1. Onward /\ NoticesAreTrue'
    BY <1>2, <1>10, IdleOnward DEF StoreAccepted
  <2>2. PICK e \in Entry : e = held[c]
    BY <1>3, <1>10 DEF StoreAccepted, HasCopy
  <2>3. Sound(e)' /\ ~AllTerminal(e)
    BY <1>2, <1>10, <2>1, <2>2, SoundStays
    DEF StoreAccepted, MaybeEntry, RequestIsFine, AllTerminal, Terminal
  <2> QED BY <1>10, <2>1, <2>2, <2>3, StoreKeeps, ReturnKeeps DEF StoreAccepted
<1>11. CASE StopTrack(c)
  <2>1. PICK tr \in todo[c], status \in KnownStatus :
          /\ \/ status = "ending" /\ Halt(tr.egress)
             \/ status = "stopping" /\ (Halt(tr.egress) \/ UNCHANGED liveKit)
             \/ status = tr.status /\ ~Running(tr.egress) /\ UNCHANGED liveKit
          /\ todo' = [todo EXCEPT ![c] = todo[c] \ {tr}]
          /\ held' = [held EXCEPT ![c] = WithTracks(held[c],
               (held[c].tracks \ {tr}) \cup {TrackState(tr.egress, tr.track, status)})]
    BY <1>11 DEF StopTrack
  <2>2. tr \in TrackEgress /\ tr.egress \in EgressIds /\ ~Terminal(tr.status)
    BY <1>2 DEF Inv, TypeInv, TypeOK, CopiesArePresent, RequestIsFine, TrackEgress
  <2>3. Onward /\ NoticesAreTrue'
    BY <1>2, <2>1, <2>2, HaltOnward, IdleOnward
  <2>4. MapsAreFine'
    BY <1>11, <2>3, MapsStay DEF StopTrack
  <2> DEFINE stopped == TrackState(tr.egress, tr.track, status)
             trs == (held[c].tracks \ {tr}) \cup {stopped}
             entry == WithTracks(held[c], trs)
  <2>5. stopped \in TrackEgress /\ stopped.status = status /\ ~Terminal(stopped.status)
    BY <2>1, <2>2 DEF TrackState, TrackEgress, Terminal
  <2>6. held[c] \in Entry /\ Used(held[c].egress)
    BY <1>3, <1>11 DEF StopTrack, HasCopy
  <2>7. trs \in SUBSET TrackEgress
    BY <2>5, <2>6, EntryFields
  <2>8. /\ entry \in Entry /\ entry.egress = held[c].egress
        /\ entry.status = held[c].status /\ entry.tracks = trs
    BY <2>6, <2>7, WithTracksType
  <2>9. Sound(entry)
    BY <1>2, <2>5, <2>6, <2>8 DEF RequestIsFine, Sound, BelievesTruly
  <2>10. held' = [held EXCEPT ![c] = entry]
    BY <2>1
  <2> HIDE DEF entry
  <2>11. PICK e \in Entry : e = entry
    BY <2>8
  <2>12. Sound(e)' /\ e.egress = held[c].egress
    BY <2>3, <2>8, <2>9, <2>11, SoundStays DEF MaybeEntry
  <2>13. /\ held'[c] = e /\ pc'[c] = pc[c] /\ pc[c] = "stopTracks" /\ failed'[c] = failed[c]
         /\ todo'[c] = todo[c] \ {tr}
    BY <1>2, <1>11, <2>1, <2>10, <2>11 DEF TypeOK, StopTrack
  <2>14. ~failed[c] => ~(target'[e.egress] # "none" /\ progress'[e.egress] \in LiveStatus)
    BY <1>2, <1>3, <2>3, <2>6, <2>12, <2>13 DEF RequestIsFine, Onward, Running, Used, HasCopy
  <2>15. RequestIsFine(c)'
    BY <1>2, <2>12, <2>13, <2>14
    DEF RequestIsFine, Sound, BelievesTruly, Ended, Used, Running
  <2>16. \A d \in Callers \ {c} : RequestIsFine(d)'
    BY <1>2, <1>11, <2>1, <2>3, <2>10, BystanderStays DEF TypeOK, StopTrack, Bystander
  <2> QED BY <2>3, <2>4, <2>15, <2>16
<1>12. CASE StopStore(c)
  <2>1. Onward /\ NoticesAreTrue'
    BY <1>2, <1>12, IdleOnward DEF StopStore
  <2>2. CASE UNCHANGED maps
    BY <1>12, <2>1, <2>2, MapsStay, ReturnKeeps DEF StopStore
  <2>3. CASE active' = NoEntry /\ history' = held[c]
    <3>1. PICK e \in Entry : e = held[c]
      BY <1>3, <1>12 DEF StopStore, HasCopy
    <3>2. Sound(e)'
      BY <1>2, <2>1, <3>1, SoundStays DEF MaybeEntry, RequestIsFine
    <3>3. Sound(NoEntry)'
      BY NoEntryFields DEF Sound, BelievesTruly, Present, Terminal
    <3>4. MapsAreFine'
      BY <2>3, <3>1, <3>2, <3>3
      DEF MapsAreFine, ActiveMirrorsHistory, ActiveIsUnfinished, Present, Sound, BelievesTruly,
          Ended, Used
    <3> QED BY <1>12, <2>1, <3>4, ReturnKeeps DEF StopStore
  <2> QED BY <1>12, <2>2, <2>3 DEF StopStore
<1> QED BY <1>4, <1>5, <1>6, <1>7, <1>8, <1>9, <1>10, <1>11, <1>12 DEF Stop

(* A webhook's entry goes into both maps, or into history with an end.     *)
LEMMA WebhookKeeps ==
  ASSUME NEW entry \in Entry, Sound(entry)', history' = entry,
         \/ active' = entry /\ ~AllTerminal(entry)
         \/ active' = NoEntry
  PROVE  MapsAreFine'
BY NoEntryFields
DEF MapsAreFine, ActiveMirrorsHistory, ActiveIsUnfinished, Present, AllTerminal, Sound,
    BelievesTruly, Ended, Used, Terminal

LEMMA WebhookSafe ==
  ASSUME Inv, NEW n \in notices, Webhook(n)
  PROVE  Inv'
<1>1. TypeInv'
  BY WebhookType DEF Inv
<1>2. TypeOK /\ NoticesAreTrue
  BY DEF Inv, TypeInv
<1>3. Onward
  BY DEF Webhook, Onward, Used, Running
<1>4. NoticesAreTrue'
  BY <1>2 DEF Webhook, NoticesAreTrue, Used, Ended
<1>5. \A d \in Callers : RequestIsFine(d)'
  BY <1>3, BystanderStays DEF Webhook, callVars, Bystander
<1>6. n.egress \in EgressIds /\ Used(n.egress) /\ (Terminal(n.status) => Ended(n.egress))
  BY <1>2 DEF TypeOK, Notice, NoticesAreTrue
<1>7. Latest \in MaybeEntry /\ Sound(Latest)
  BY LatestType DEF Inv, TypeInv, Latest
<1>8. CASE UpdateFromInfo(n)
  <2>1. FromWebhook(n) \in Entry
    BY <1>2, <1>8, UpdateFromInfoType
  <2>2. Sound(FromWebhook(n))
    BY <1>6, <1>7 DEF FromWebhook, State, Sound, BelievesTruly
  <2>3. FromWebhook(n).status = n.status
    BY DEF FromWebhook, State
  <2>4. PICK e \in Entry : e = FromWebhook(n)
    BY <2>1
  <2>5. Sound(e)'
    BY <1>3, <2>2, <2>4, SoundStays DEF MaybeEntry
  <2>6. history' = e /\ ((active' = e /\ ~AllTerminal(e)) \/ active' = NoEntry)
    BY <1>8, <2>3, <2>4 DEF UpdateFromInfo, AllTerminal
  <2>7. MapsAreFine'
    BY <2>5, <2>6, WebhookKeeps
  <2> QED BY <1>1, <1>4, <1>5, <2>7 DEF Inv, MapsAreFine
<1>9. CASE UpdateTrackFromInfo(n)
  <2>1. FromTrackWebhook(n) \in Entry
    BY <1>2, <1>9, UpdateTrackFromInfoType
  <2> DEFINE tr == TrackState(n.egress, target[n.egress], n.status)
             new == State(n.egress, n.status, HasStarted(n.status), "participant_tracks", {})
             base == IF Present(Latest) THEN Latest ELSE new
  <2>2. tr.egress = n.egress /\ tr.status = n.status
    BY DEF TrackState
  <2>3. Sound(base) /\ Used(base.egress)
    <3>1. CASE Present(Latest)
      BY <1>7, <3>1 DEF Sound
    <3>2. CASE ~Present(Latest)
      BY <1>6, <3>2 DEF Sound, BelievesTruly, State
    <3> QED BY <3>1, <3>2
  <2>4. \A old \in Upsert(base.tracks, tr) : old \in base.tracks \/ old = tr
    BY UpsertMembers
  <2>5. FromTrackWebhook(n) = State(base.egress, base.status, base.startedAt, base.mode,
                                    Upsert(base.tracks, tr))
    BY DEF FromTrackWebhook, WithTracks
  <2>6. Sound(FromTrackWebhook(n))
    <3> HIDE DEF base, tr
    <3>1. \A old \in Upsert(base.tracks, tr) : Terminal(old.status) => Ended(old.egress)
      BY <1>6, <2>2, <2>3, <2>4 DEF Sound, BelievesTruly
    <3>2. Terminal(base.status) => Ended(base.egress)
      BY <2>3 DEF Sound, BelievesTruly
    <3> QED BY <2>3, <2>5, <3>1, <3>2 DEF State, Sound, BelievesTruly
  <2>7. PICK e \in Entry : e = FromTrackWebhook(n)
    BY <2>1
  <2>8. Sound(e)'
    BY <1>3, <2>6, <2>7, SoundStays DEF MaybeEntry
  <2>9. history' = e /\ ((active' = e /\ ~AllTerminal(e)) \/ active' = NoEntry)
    BY <1>9, <2>7 DEF UpdateTrackFromInfo
  <2>10. MapsAreFine'
    BY <2>8, <2>9, WebhookKeeps
  <2> QED BY <1>1, <1>4, <1>5, <2>10 DEF Inv, MapsAreFine
<1> QED BY <1>8, <1>9 DEF Webhook

LEMMA LiveKitSafe ==
  ASSUME Inv, NEW e \in EgressIds, NEW status \in ServiceStatus, LiveKitStep(e, status)
  PROVE  Inv'
<1>1. TypeInv'
  BY LiveKitType DEF Inv
<1>2. Onward /\ NoticesAreTrue'
  BY LiveKitOnward DEF Inv, TypeInv
<1>3. MapsAreFine'
  BY <1>2, MapsStay DEF LiveKitStep
<1>4. \A d \in Callers : RequestIsFine(d)'
  BY <1>2, BystanderStays DEF LiveKitStep, callVars, Bystander
<1> QED BY <1>1, <1>2, <1>3, <1>4 DEF Inv, MapsAreFine

LEMMA RestartSafe == Inv /\ Restart => Inv'
<1> SUFFICES ASSUME Inv, Restart PROVE Inv'
  OBVIOUS
<1>1. TypeInv'
  BY RestartType DEF Inv
<1>2. NoticesAreTrue'
  BY IdleOnward DEF Inv, Restart
<1>3. Sound(NoEntry)'
  BY NoEntryFields DEF Sound, BelievesTruly, Present, Terminal
<1>4. MapsAreFine'
  BY <1>3
  DEF Restart, MapsAreFine, ActiveMirrorsHistory, ActiveIsUnfinished, Present, Sound, BelievesTruly,
      Ended, Used
<1>5. \A d \in Callers : RequestIsFine(d)'
  BY NoEntryFields
  DEF Restart, RequestIsFine, Sound, BelievesTruly, Present, Terminal
<1> QED BY <1>1, <1>2, <1>4, <1>5 DEF Inv, MapsAreFine

LEMMA InitSafe == Init => Inv
<1> SUFFICES ASSUME Init PROVE Inv
  OBVIOUS
<1>1. NoticesAreTrue /\ ActiveMirrorsHistory /\ ActiveIsUnfinished
  BY DEF Init, NoticesAreTrue, ActiveMirrorsHistory, ActiveIsUnfinished, Present
<1>2. \A c \in Callers : RequestIsFine(c)
  BY NoEntryIsSound DEF Init, RequestIsFine
<1> QED BY <1>1, <1>2, InitType, NoEntryIsSound DEF Inv, Init

LEMMA StepSafe == Inv /\ [Next]_vars => Inv'
<1>1. CASE Inv /\ UNCHANGED vars
  <2>1. TypeInv'
    BY <1>1, StepType DEF Inv
  <2>2. Onward /\ NoticesAreTrue'
    BY <1>1, IdleOnward DEF Inv, vars, liveKit
  <2>3. MapsAreFine'
    BY <1>1, <2>2, MapsStay DEF vars, maps
  <2>4. \A d \in Callers : RequestIsFine(d)'
    BY <1>1, <2>2, BystanderStays DEF vars, Bystander
  <2> QED BY <2>1, <2>2, <2>3, <2>4 DEF Inv, MapsAreFine
<1>2. CASE Inv /\ Next
  BY <1>2, StartSafe, AddSafe, StopSafe, LiveKitSafe, WebhookSafe, RestartSafe DEF Next
<1> QED BY <1>1, <1>2

LEMMA InvIsInvariant == Spec => []Inv
BY InitSafe, StepSafe, PTL DEF Spec

(* Whichever of start, add, stop and webhook wrote last, however they      *)
(* interleave: the two maps agree on a room that records, ...              *)
THEOREM MapsAgree == Spec => []ActiveMirrorsHistory
<1>1. Inv => ActiveMirrorsHistory
  BY DEF Inv
<1> QED BY <1>1, InvIsInvariant, PTL

(* ... and hold it as recording only for an egress they have not seen end. *)
THEOREM HeldIsUnfinished == Spec => []ActiveIsUnfinished
<1>1. Inv => ActiveIsUnfinished
  BY DEF Inv
<1> QED BY <1>1, InvIsInvariant, PTL

(* No end is invented: what the maps and the requests take for ended has   *)
(* ended at LiveKit, even when webhooks are late, reordered or repeated.   *)
THEOREM EndsAreReal == Spec => []EndedIsTrue
<1>1. Inv => EndedIsTrue
  BY DEF Inv, EndedIsTrue, Sound, RequestIsFine
<1> QED BY <1>1, InvIsInvariant, PTL

(* A stop that will answer without an error has an egress that stopped.    *)
THEOREM StopIsHonest == Spec => []StopReleasesWhatEnded
<1>1. Inv => StopReleasesWhatEnded
  BY DEF Inv, StopReleasesWhatEnded, RequestIsFine
<1> QED BY <1>1, InvIsInvariant, PTL

(* Only a stop that is done and a webhook release a room.                  *)
LEMMA ReleasedBy ==
  ASSUME Inv, Next, Present(active), ~Present(active'), restarts' = restarts
  PROVE  \/ \E c \in Callers : StopStore(c) /\ ~failed[c]
         \/ \E n \in notices : Webhook(n)
<1>1. TypeInv
  BY DEF Inv
<1>2. \A c \in Callers : ~StartStore(c) /\ ~StoreAccepted(c)
  BY <1>1, NoEntryIsAbsent
  DEF TypeInv, CopiesArePresent, HasCopy, StartStore, StoreAccepted, Present
<1>3. \A c \in Callers : ~AddStore(c)
  <2> SUFFICES ASSUME NEW c \in Callers, AddStore(c) PROVE FALSE
    OBVIOUS
  <2>1. active \in Entry
    BY <1>1 DEF TypeInv, TypeOK, MaybeEntry, Present
  <2>2. active'.egress = active.egress
    BY DEF AddStore, WithTracks, State
  <2> QED BY <2>1, <2>2, EntryFields, NoEntryFields DEF Present, EgressIds
<1>4. active' # active
  OBVIOUS
<1>5. CASE \E c \in Callers : Start(c)
  BY <1>2, <1>4, <1>5
  DEF Start, StartCheck, StartComposite, StartFails, StartTrack, maps
<1>6. CASE \E c \in Callers : Add(c)
  BY <1>3, <1>4, <1>6 DEF Add, AddCheck, AddRequest, maps
<1>7. CASE \E c \in Callers : Stop(c)
  BY <1>2, <1>4, <1>7
  DEF Stop, StopCheck, StopWait, StopAnswered, StopAccepted, StopAlready, StopRejected,
      StopTimesOut, StopTrack, StopStore, maps
<1>8. ~\E e \in EgressIds, status \in ServiceStatus : LiveKitStep(e, status)
  BY <1>4 DEF LiveKitStep, maps
<1>9. ~Restart
  BY <1>1 DEF TypeInv, TypeOK, Restart
<1> QED BY <1>5, <1>6, <1>7, <1>8, <1>9 DEF Next

LEMMA ReleaseIsOwn ==
  ASSUME Inv, Next, Present(active), ~Present(active'), restarts' = restarts,
         history'.egress = active.egress
  PROVE  ~Running(active.egress)
<1>1. CASE \E c \in Callers : StopStore(c) /\ ~failed[c]
  BY <1>1 DEF Inv, RequestIsFine, StopStore
<1>2. CASE \E n \in notices : Webhook(n)
  <2>1. PICK n \in notices : Webhook(n)
    BY <1>2
  <2>2. active # active' /\ active \in Entry
    BY DEF Inv, TypeInv, TypeOK, MaybeEntry, Present
  <2>3. CASE UpdateFromInfo(n)
    <3>1. FromWebhook(n).egress = active.egress /\ n.egress = active.egress
      BY <2>3 DEF UpdateFromInfo, FromWebhook, State
    <3>2. Terminal(n.status)
      BY <2>2, <2>3, <3>1, NoEntryFields, EntryFields DEF UpdateFromInfo, Present, EgressIds
    <3>3. Ended(active.egress)
      BY <3>1, <3>2 DEF Inv, NoticesAreTrue
    <3> QED BY <2>2, <3>3, EntryFields DEF Ended, Running, Terminal, LiveStatus, EgressIds
  <2>4. CASE UpdateTrackFromInfo(n)
    <3>1. Latest = active
      BY DEF Latest
    <3>2. /\ FromTrackWebhook(n).status = active.status
          /\ FromTrackWebhook(n).egress = active.egress
      BY <3>1 DEF FromTrackWebhook, WithTracks, State
    <3>3. AllTerminal(FromTrackWebhook(n))
      BY <2>2, <2>4, <3>2, NoEntryFields, EntryFields
      DEF UpdateTrackFromInfo, Present, EgressIds
    <3>4. Terminal(active.status)
      BY <3>2, <3>3 DEF AllTerminal
    <3>5. Ended(active.egress)
      BY <3>4 DEF Inv, Sound, BelievesTruly
    <3> QED BY <2>2, <3>5, EntryFields DEF Ended, Running, Terminal, LiveStatus, EgressIds
  <2> QED BY <2>1, <2>3, <2>4 DEF Webhook
<1> QED BY <1>1, <1>2, ReleasedBy

(* A room is never released while the egress it was released for records:  *)
(* what ReleasedMeansEnded finds is another egress's answer or webhook.    *)
THEOREM ReleasesAreOwn == Spec => ReleasesItsOwn
<1>1. Inv /\ [Next]_vars =>
        [Present(active) /\ ~Present(active') /\ restarts' = restarts
           /\ history'.egress = active.egress => ~Running(active.egress)]_vars
  BY ReleaseIsOwn
<1> QED BY <1>1, InvIsInvariant, PTL DEF Spec, ReleasesItsOwn
=============================================================================
