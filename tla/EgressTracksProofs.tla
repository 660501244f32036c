------------------------- MODULE EgressTracksProofs -------------------------
(***************************************************************************)
(* The lists of track egresses in EgressManager, for any tracks, callers,  *)
(* egresses and restarts: no list of the maps names an egress twice, a stop*)
(* leaves none recording that it does not name, and every request goes     *)
(* through its tracks once.                                                *)
(***************************************************************************)
EXTENDS EgressManagerProofs

(* A list of records, given what LiveKit's egresses record.  A record that *)
(* names an egress names the track it records; two such records of a track *)
(* name two egresses; and a record without an egress is alone with its     *)
(* track.  Without the last, Upsert could replace the record without an    *)
(* egress and leave another that names the incoming one.                   *)
Clean(tgt, trs) ==
  /\ \A tr \in trs : tr.egress # NoEgress => tgt[tr.egress] = tr.track
  /\ \A tr1, tr2 \in trs :
       tr1.track = tr2.track /\ tr1.egress = tr2.egress /\ tr1.egress # NoEgress => tr1 = tr2
  /\ \A tr1, tr2 \in trs :
       tr1.track = tr2.track /\ tr1.egress = NoEgress => tr2.egress = NoEgress

MapsAreClean == Clean(target, active.tracks) /\ Clean(target, history.tracks)

(* A request starts only tracks its copy has no record of, and stops only  *)
(* egresses its copy has a record of.                                      *)
RequestIsClean(c) ==
  /\ Clean(target, held[c].tracks)
  /\ \A tr \in todo[c] : target[tr.egress] = tr.track
  /\ pc[c] = "startTracks" => \A tr \in held[c].tracks : tr.track \notin want[c]
  /\ pc[c] = "stopTracks" => todo[c] \subseteq held[c].tracks

ListsAreClean == MapsAreClean /\ \A c \in Callers : RequestIsClean(c)

----------------------------------------------------------------------------
LEMMA NothingIsClean == \A tgt : Clean(tgt, {})
BY DEF Clean

LEMMA CleanMoves ==
  ASSUME NEW tgt, NEW tgt2, NEW trs \in SUBSET TrackEgress, Clean(tgt, trs),
         \A e \in EgressIds : tgt[e] # "none" => tgt2[e] = tgt[e]
  PROVE  Clean(tgt2, trs)
<1>1. ASSUME NEW tr \in trs, tr.egress # NoEgress PROVE tgt2[tr.egress] = tr.track
  <2>1. tr.egress \in EgressIds /\ tr.track # "none"
    BY <1>1, TracksAssumption DEF TrackEgress
  <2> QED BY <1>1, <2>1 DEF Clean
<1> QED BY <1>1 DEF Clean

LEMMA CleanAdds ==
  ASSUME NEW tgt, NEW trs \in SUBSET TrackEgress, Clean(tgt, trs), NEW tr \in TrackEgress,
         tr.egress # NoEgress => tgt[tr.egress] = tr.track,
         \A other \in trs : other.track # tr.track
  PROVE  Clean(tgt, trs \cup {tr})
BY DEF Clean

LEMMA CleanUpserts ==
  ASSUME NEW tgt, NEW trs \in SUBSET TrackEgress, Clean(tgt, trs), NEW tr \in TrackEgress,
         tr.egress # NoEgress, tgt[tr.egress] = tr.track
  PROVE  Clean(tgt, Upsert(trs, tr))
<1> DEFINE new == Upsert(trs, tr)
<1>1. new \subseteq trs \cup {tr}
  BY UpsertMembers
<1>2. ASSUME NEW other \in new, other # tr, other.track = tr.track
      PROVE  other.egress # tr.egress /\ other.egress # NoEgress
  <2>1. other \in trs
    BY <1>1, <1>2
  <2>2. CASE \E one \in trs : one.egress = NoEgress /\ SameTrackEgress(one, tr)
    <3>1. PICK one \in trs : one.egress = NoEgress /\ one.track = tr.track
      BY <2>2 DEF SameTrackEgress
    <3>2. other.egress = NoEgress
      BY <1>2, <2>1, <3>1 DEF Clean
    <3> QED BY <1>2, <2>1, <3>2 DEF Upsert, SameTrackEgress
  <2>3. CASE ~\E one \in trs : one.egress = NoEgress /\ SameTrackEgress(one, tr)
    BY <1>2, <2>1, <2>3 DEF Upsert, SameTrackEgress
  <2> QED BY <2>2, <2>3
<1>3. \A one \in new : one.egress # NoEgress => tgt[one.egress] = one.track
  BY <1>1 DEF Clean
<1>4. ASSUME NEW tr1 \in new, NEW tr2 \in new, tr1.track = tr2.track,
             tr1.egress = tr2.egress, tr1.egress # NoEgress
      PROVE  tr1 = tr2
  BY <1>1, <1>2, <1>4 DEF Clean
<1>5. ASSUME NEW tr1 \in new, NEW tr2 \in new, tr1.track = tr2.track, tr1.egress = NoEgress
      PROVE  tr2.egress = NoEgress
  BY <1>1, <1>2, <1>5 DEF Clean
<1> QED BY <1>3, <1>4, <1>5 DEF Clean

LEMMA CleanReplaces ==
  ASSUME NEW tgt, NEW trs \in SUBSET TrackEgress, Clean(tgt, trs), NEW tr \in trs,
         tr.egress # NoEgress, NEW status
  PROVE  Clean(tgt, (trs \ {tr}) \cup {TrackState(tr.egress, tr.track, status)})
<1> DEFINE new == TrackState(tr.egress, tr.track, status)
<1>1. new.egress = tr.egress /\ new.track = tr.track
  BY DEF TrackState
<1>2. \A other \in trs \ {tr} :
        other.track = tr.track => other.egress # tr.egress /\ other.egress # NoEgress
  BY DEF Clean
<1>3. \A one \in (trs \ {tr}) \cup {new} : one.egress # NoEgress => tgt[one.egress] = one.track
  BY <1>1 DEF Clean
<1> HIDE DEF new
<1>4. ASSUME NEW tr1 \in (trs \ {tr}) \cup {new}, NEW tr2 \in (trs \ {tr}) \cup {new},
             tr1.track = tr2.track, tr1.egress = tr2.egress, tr1.egress # NoEgress
      PROVE  tr1 = tr2
  BY <1>1, <1>2, <1>4 DEF Clean
<1>5. ASSUME NEW tr1 \in (trs \ {tr}) \cup {new}, NEW tr2 \in (trs \ {tr}) \cup {new},
             tr1.track = tr2.track, tr1.egress = NoEgress
      PROVE  tr2.egress = NoEgress
  BY <1>1, <1>2, <1>5 DEF Clean
<1>6. Clean(tgt, (trs \ {tr}) \cup {new})
  BY <1>3, <1>4, <1>5 DEF Clean
<1> QED BY <1>6 DEF new

LEMMA TracksOf ==
  ASSUME NEW entry \in MaybeEntry
  PROVE  entry.tracks \in SUBSET TrackEgress
BY EntryFields, NoEntryFields DEF MaybeEntry

----------------------------------------------------------------------------
(* LiveKit's egresses keep what they record.                               *)
TargetsStay == \A e \in EgressIds : target[e] # "none" => target'[e] = target[e]

LEMMA LaunchTarget ==
  ASSUME TypeOK, NEW e \in EgressIds, NEW what, Launch(e, what)
  PROVE  TargetsStay /\ target[e] = "none" /\ target'[e] = what
BY DEF TypeOK, Launch, TargetsStay, Used

LEMMA HaltTarget ==
  ASSUME NEW e, Halt(e)
  PROVE  TargetsStay /\ target' = target
BY DEF Halt, TargetsStay

LEMMA MapsStayClean ==
  ASSUME TypeInv, ListsAreClean, TargetsStay, UNCHANGED maps
  PROVE  MapsAreClean'
<1>1. active.tracks \in SUBSET TrackEgress /\ history.tracks \in SUBSET TrackEgress
  BY TracksOf DEF TypeInv, TypeOK
<1>2. Clean(target', active.tracks) /\ Clean(target', history.tracks)
  BY <1>1, CleanMoves DEF ListsAreClean, MapsAreClean, TargetsStay
<1> QED BY <1>2 DEF MapsAreClean, maps

LEMMA RequestStaysClean ==
  ASSUME TypeInv, ListsAreClean, TargetsStay, NEW d \in Callers,
         pc'[d] = pc[d], held'[d] = held[d], want'[d] = want[d], todo'[d] = todo[d]
  PROVE  RequestIsClean(d)'
<1>1. held[d].tracks \in SUBSET TrackEgress /\ todo[d] \in SUBSET TrackEgress
  BY TracksOf DEF TypeInv, TypeOK
<1>2. Clean(target', held[d].tracks)
  BY <1>1, CleanMoves DEF ListsAreClean, RequestIsClean, TargetsStay
<1>3. ASSUME NEW tr \in todo[d] PROVE target'[tr.egress] = tr.track
  <2>1. tr.egress \in EgressIds /\ tr.track # "none"
    BY <1>1, <1>3, TracksAssumption DEF TypeInv, CopiesArePresent, TrackEgress
  <2> QED BY <2>1, <1>3 DEF ListsAreClean, RequestIsClean, TargetsStay
<1> QED BY <1>2, <1>3 DEF ListsAreClean, RequestIsClean

LEMMA ReturnCleans ==
  ASSUME TypeInv, ListsAreClean, TargetsStay, NEW c \in Callers, Return(c)
  PROVE  \A d \in Callers : RequestIsClean(d)'
<1>1. ASSUME NEW d \in Callers, d = c PROVE RequestIsClean(d)'
  <2>1. held'[d].tracks = {} /\ pc'[d] = "idle" /\ todo'[d] = {}
    BY <1>1, NoEntryFields DEF TypeInv, TypeOK, Return
  <2> QED BY <2>1, NothingIsClean DEF RequestIsClean
<1>2. ASSUME NEW d \in Callers, d # c PROVE RequestIsClean(d)'
  BY <1>2, RequestStaysClean DEF TypeInv, TypeOK, Return
<1> QED BY <1>1, <1>2

(* A step of one request, given what it does to its own copy.              *)
LEMMA StepCleans ==
  ASSUME TypeInv, ListsAreClean, TargetsStay, NEW c \in Callers, MapsAreClean', RequestIsClean(c)',
         \A d \in Callers \ {c} : /\ pc'[d] = pc[d] /\ held'[d] = held[d]
                                  /\ want'[d] = want[d] /\ todo'[d] = todo[d]
  PROVE  ListsAreClean'
<1>1. \A d \in Callers \ {c} : RequestIsClean(d)'
  BY RequestStaysClean
<1> QED BY <1>1 DEF ListsAreClean

----------------------------------------------------------------------------
LEMMA StartClean ==
  ASSUME TypeInv, ListsAreClean, NEW c \in Callers, Start(c)
  PROVE  ListsAreClean'
<1> USE DEF TypeInv
<1>1. ASSUME NEW trs \in SUBSET Tracks, StartCheck(c, trs) PROVE ListsAreClean'
  <2>1. TargetsStay /\ target' = target /\ UNCHANGED maps
    BY <1>1 DEF StartCheck, liveKit, TargetsStay
  <2>2. MapsAreClean'
    BY <2>1, MapsStayClean
  <2>3. RequestIsClean(c)'
    BY <1>1, <2>1 DEF StartCheck, TypeOK, ListsAreClean, RequestIsClean
  <2> QED BY <1>1, <2>1, <2>2, <2>3, StepCleans DEF StartCheck, TypeOK
<1>2. CASE StartComposite(c)
  <2>1. PICK e \in EgressIds :
          /\ Launch(e, "room")
          /\ held' = [held EXCEPT ![c] = State(e, "starting", TRUE,
               IF want[c] = {} THEN "room_composite" ELSE "participant_tracks", {})]
    BY <1>2 DEF StartComposite
  <2>2. TargetsStay
    BY <2>1, LaunchTarget
  <2>3. MapsAreClean'
    BY <1>2, <2>2, MapsStayClean DEF StartComposite
  <2>4. held'[c].tracks = {}
    BY <2>1 DEF TypeOK, State
  <2>5. \A tr \in todo[c] : target'[tr.egress] = tr.track
    <3>1. \A tr \in todo[c] : tr.egress \in EgressIds /\ tr.track # "none"
      BY TracksAssumption DEF TypeOK, CopiesArePresent, TrackEgress
    <3> QED BY <2>2, <3>1 DEF ListsAreClean, RequestIsClean, TargetsStay
  <2>6. RequestIsClean(c)'
    <3>1. todo'[c] = todo[c] /\ pc'[c] \in {"store", "startTracks"}
      BY <1>2 DEF StartComposite, TypeOK
    <3>2. Clean(target', held'[c].tracks)
      BY <2>4, NothingIsClean
    <3> QED BY <2>4, <2>5, <3>1, <3>2 DEF RequestIsClean
  <2> QED BY <1>2, <2>1, <2>2, <2>3, <2>6, StepCleans DEF StartComposite, TypeOK
<1>3. CASE StartFails(c)
  <2>1. TargetsStay
    BY <1>3, LaunchTarget DEF StartFails, liveKit, TargetsStay
  <2> QED BY <1>3, <2>1, MapsStayClean, ReturnCleans DEF StartFails, ListsAreClean
<1>4. CASE StartTrack(c)
  <2>1. PICK t \in want[c], tr \in TrackEgress :
          /\ tr.track = t
          /\ \/ tr.egress # NoEgress /\ Launch(tr.egress, t)
             \/ /\ tr.egress = NoEgress
                /\ UNCHANGED liveKit \/ \E lost \in EgressIds : Launch(lost, t)
          /\ want' = [want EXCEPT ![c] = want[c] \ {t}]
          /\ held' = [held EXCEPT ![c] =
               State(held[c].egress, held[c].status, held[c].startedAt,
                     IF want[c] = {t} THEN StartedMode(held[c].tracks \cup {tr}) ELSE held[c].mode,
                     held[c].tracks \cup {tr})]
    BY <1>4 DEF StartTrack
  <2>2. tr.egress # NoEgress => tr.egress \in EgressIds
    BY DEF TrackEgress
  <2>3. TargetsStay /\ (tr.egress # NoEgress => target'[tr.egress] = tr.track)
    BY <2>1, <2>2, LaunchTarget DEF liveKit, TargetsStay
  <2>4. MapsAreClean'
    BY <1>4, <2>3, MapsStayClean DEF StartTrack
  <2>5. pc[c] = "startTracks" /\ held[c].tracks \in SUBSET TrackEgress
    BY <1>4, TracksOf DEF StartTrack, TypeOK
  <2>6. Clean(target', held[c].tracks)
    BY <2>3, <2>5, CleanMoves DEF ListsAreClean, RequestIsClean, TargetsStay
  <2>7. \A other \in held[c].tracks : other.track \notin want[c]
    BY <2>5 DEF ListsAreClean, RequestIsClean
  <2>8. Clean(target', held[c].tracks \cup {tr})
    <3>1. \A other \in held[c].tracks : other.track # tr.track
      BY <2>1, <2>7
    <3> QED BY <2>3, <2>5, <2>6, <3>1, CleanAdds
  <2>9. held'[c].tracks = held[c].tracks \cup {tr} /\ want'[c] = want[c] \ {t} /\ todo'[c] = todo[c]
    BY <1>4, <2>1 DEF TypeOK, State, StartTrack
  <2>10. pc'[c] \in {"store", "startTracks"}
    BY <1>4 DEF StartTrack, TypeOK
  <2>11. \A one \in todo[c] : target'[one.egress] = one.track
    <3>1. \A one \in todo[c] : one.egress \in EgressIds /\ one.track # "none"
      BY TracksAssumption DEF TypeOK, CopiesArePresent, TrackEgress
    <3> QED BY <2>3, <3>1 DEF ListsAreClean, RequestIsClean, TargetsStay
  <2>12. \A one \in held'[c].tracks : one.track \notin want'[c]
    BY <2>1, <2>7, <2>9
  <2>13. RequestIsClean(c)'
    BY <2>8, <2>9, <2>10, <2>11, <2>12 DEF RequestIsClean
  <2> QED BY <1>4, <2>1, <2>3, <2>4, <2>13, StepCleans DEF StartTrack, TypeOK
<1>5. CASE StartStore(c)
  <2>1. TargetsStay /\ target' = target
    BY <1>5 DEF StartStore, liveKit, TargetsStay
  <2>2. MapsAreClean'
    BY <1>5, <2>1 DEF StartStore, MapsAreClean, ListsAreClean, RequestIsClean
  <2> QED BY <1>5, <2>1, <2>2, ReturnCleans DEF StartStore, ListsAreClean
<1> QED BY <1>1, <1>2, <1>3, <1>4, <1>5 DEF Start

LEMMA AddClean ==
  ASSUME TypeInv, ListsAreClean, NEW c \in Callers, Add(c)
  PROVE  ListsAreClean'
<1> USE DEF TypeInv
<1>1. ASSUME NEW t \in Tracks, AddCheck(c, t) PROVE ListsAreClean'
  <2>1. TargetsStay /\ target' = target /\ UNCHANGED maps
    BY <1>1 DEF AddCheck, liveKit, TargetsStay
  <2>2. MapsAreClean'
    BY <2>1, MapsStayClean
  <2>3. RequestIsClean(c)'
    BY <1>1, <2>1 DEF AddCheck, TypeOK, ListsAreClean, RequestIsClean
  <2> QED BY <1>1, <2>1, <2>2, <2>3, StepCleans DEF AddCheck, TypeOK
<1>2. CASE AddRequest(c)
  <2>1. PICK e \in EgressIds, t \in want[c] :
          /\ Launch(e, t)
          /\ todo' = [todo EXCEPT ![c] = {TrackState(e, t, "starting")}]
    BY <1>2 DEF AddRequest
  <2>2. TargetsStay /\ target'[e] = t
    BY <2>1, LaunchTarget
  <2>3. MapsAreClean'
    BY <1>2, <2>2, MapsStayClean DEF AddRequest
  <2>4. Clean(target', held[c].tracks)
    <3>1. held[c].tracks \in SUBSET TrackEgress
      BY TracksOf DEF TypeOK
    <3> QED BY <2>2, <3>1, CleanMoves DEF ListsAreClean, RequestIsClean, TargetsStay
  <2>5. \A tr \in todo'[c] : target'[tr.egress] = tr.track
    BY <2>1, <2>2 DEF TypeOK, TrackState
  <2>6. pc'[c] = "addStore" /\ held'[c] = held[c]
    BY <1>2 DEF AddRequest, TypeOK
  <2>7. RequestIsClean(c)'
    BY <2>4, <2>5, <2>6 DEF RequestIsClean
  <2> QED BY <1>2, <2>1, <2>2, <2>3, <2>7, StepCleans DEF AddRequest, TypeOK
<1>3. CASE AddStore(c)
  <2>1. TargetsStay /\ target' = target
    BY <1>3 DEF AddStore, liveKit, TargetsStay
  <2>2. CASE ~Present(active)
    BY <1>3, <2>1, <2>2, MapsStayClean, ReturnCleans DEF AddStore, ListsAreClean
  <2>3. CASE Present(active)
    <3>1. PICK tr \in todo[c] :
            /\ active' = WithTracks(active, Upsert(active.tracks, tr))
            /\ history' = WithTracks(active, Upsert(active.tracks, tr))
      BY <1>3, <2>3 DEF AddStore
    <3>2. active.tracks \in SUBSET TrackEgress /\ tr \in TrackEgress /\ tr.egress # NoEgress
      BY TracksOf DEF TypeOK, CopiesArePresent
    <3>3. Clean(target, Upsert(active.tracks, tr))
      BY <3>2, CleanUpserts DEF ListsAreClean, MapsAreClean, RequestIsClean
    <3>4. MapsAreClean'
      BY <2>1, <3>1, <3>3 DEF MapsAreClean, WithTracks, State
    <3> QED BY <1>3, <2>1, <3>4, ReturnCleans DEF AddStore, ListsAreClean
  <2> QED BY <2>2, <2>3
<1> QED BY <1>1, <1>2, <1>3 DEF Add

(* The answer to a StopEgress: the tracks to stop are the copy's.          *)
LEMMA StopAnsweredClean ==
  ASSUME TypeInv, ListsAreClean, TargetsStay, target' = target, NEW c \in Callers,
         NEW entry \in MaybeEntry, NEW err, Clean(target, entry.tracks), StopAnswered(c, entry, err)
  PROVE  ListsAreClean'
<1> USE DEF TypeInv
<1>1. MapsAreClean'
  BY MapsStayClean DEF StopAnswered
<1>2. pc'[c] = "stopTracks" /\ held'[c] = entry /\ todo'[c] = ToStop(entry.tracks)
  BY DEF StopAnswered, TypeOK
<1>3. RequestIsClean(c)'
  BY <1>2 DEF RequestIsClean, ToStop, Clean
<1> QED BY <1>1, <1>3, StepCleans DEF StopAnswered, TypeOK

LEMMA StopClean ==
  ASSUME TypeInv, ListsAreClean, NEW c \in Callers, Stop(c)
  PROVE  ListsAreClean'
<1> USE DEF TypeInv
<1>a. held[c] \in MaybeEntry /\ Clean(target, held[c].tracks)
  BY DEF TypeOK, ListsAreClean, RequestIsClean
<1>b. target' = target => TargetsStay
  BY DEF TargetsStay
<1>1. CASE StopCheck(c)
  <2>1. target' = target /\ UNCHANGED maps
    BY <1>1 DEF StopCheck, liveKit
  <2>2. MapsAreClean'
    BY <1>b, <2>1, MapsStayClean
  <2>3. RequestIsClean(c)'
    BY <1>1, <2>1 DEF StopCheck, TypeOK, ListsAreClean, MapsAreClean, RequestIsClean
  <2> QED BY <1>b, <1>1, <2>1, <2>2, <2>3, StepCleans DEF StopCheck, TypeOK
<1>2. CASE StopWait(c)
  <2>1. target' = target /\ UNCHANGED maps
    BY <1>2 DEF StopWait, liveKit
  <2>2. MapsAreClean'
    BY <1>b, <2>1, MapsStayClean
  <2>3. RequestIsClean(c)'
    BY <1>2, <2>1 DEF StopWait, TypeOK, ListsAreClean, RequestIsClean
  <2> QED BY <1>b, <1>2, <2>1, <2>2, <2>3, StepCleans DEF StopWait, TypeOK
<1>3. CASE StopAccepted(c)
  <2> DEFINE new == State(held[c].egress, "ending", TRUE,
                          FirstMode(held[c].mode, "room_composite"), held[c].tracks)
  <2>1. target' = target /\ StopAnswered(c, new, FALSE)
    BY <1>3, HaltTarget DEF StopAccepted, Halt
  <2>2. held[c] \in Entry
    BY <1>3 DEF StopAccepted, CopiesArePresent, HasCopy
  <2>3. new \in MaybeEntry
    BY <2>2, EntryFields, StateType
    DEF FirstMode, Modes, MaybeEntry, KnownStatus, ServiceStatus, LiveStatus
  <2>4. Clean(target, new.tracks)
    BY <1>a DEF State
  <2> HIDE DEF new
  <2> QED BY <1>b, <2>1, <2>3, <2>4, StopAnsweredClean
<1>4. CASE StopAlready(c)
  <2>1. history \in MaybeEntry /\ Clean(target, history.tracks)
    BY DEF TypeOK, ListsAreClean, MapsAreClean
  <2>2. target' = target
    BY <1>4 DEF StopAlready, liveKit
  <2>3. StopAnswered(c, history, FALSE) \/ StopAnswered(c, held[c], TRUE)
    BY <1>4 DEF StopAlready
  <2> QED BY <1>a, <1>b, <2>1, <2>2, <2>3, StopAnsweredClean
<1>5. CASE StopRejected(c)
  <2>1. target' = target /\ StopAnswered(c, held[c], TRUE)
    BY <1>5 DEF StopRejected, liveKit
  <2> QED BY <1>a, <1>b, <2>1, StopAnsweredClean
<1>6. CASE StopTimesOut(c)
  <2>1. target' = target /\ UNCHANGED maps
    BY <1>6, HaltTarget DEF StopTimesOut, liveKit, Halt
  <2>2. MapsAreClean'
    BY <1>b, <2>1, MapsStayClean
  <2>3. held'[c].tracks = held[c].tracks /\ pc'[c] = "accepted" /\ todo'[c] = todo[c]
    BY <1>6 DEF StopTimesOut, HeldAs, State, TypeOK
  <2>4. RequestIsClean(c)'
    BY <2>1, <2>3 DEF ListsAreClean, RequestIsClean
  <2> QED BY <1>b, <1>6, <2>1, <2>2, <2>4, StepCleans DEF StopTimesOut, HeldAs, TypeOK
<1>7. CASE StoreAccepted(c)
  <2>1. target' = target
    BY <1>7 DEF StoreAccepted, liveKit
  <2>2. MapsAreClean'
    BY <1>a, <1>7, <2>1 DEF StoreAccepted, MapsAreClean
  <2> QED BY <1>b, <1>7, <2>1, <2>2, ReturnCleans DEF StoreAccepted, ListsAreClean
<1>8. CASE StopTrack(c)
  <2>1. PICK tr \in todo[c], status \in KnownStatus :
          /\ Halt(tr.egress) \/ UNCHANGED liveKit
          /\ todo' = [todo EXCEPT ![c] = todo[c] \ {tr}]
          /\ held' = [held EXCEPT ![c] = WithTracks(held[c],
               (held[c].tracks \ {tr}) \cup {TrackState(tr.egress, tr.track, status)})]
    BY <1>8 DEF StopTrack
  <2>2. target' = target /\ UNCHANGED maps
    BY <1>8, <2>1 DEF StopTrack, Halt, liveKit
  <2>3. MapsAreClean'
    BY <1>b, <2>2, MapsStayClean
  <2>4. /\ pc[c] = "stopTracks" /\ pc'[c] = "stopTracks"
        /\ tr \in held[c].tracks /\ tr.egress # NoEgress /\ todo[c] \subseteq held[c].tracks
    BY <1>8 DEF StopTrack, CopiesArePresent, ListsAreClean, RequestIsClean
  <2>5. held[c].tracks \in SUBSET TrackEgress
    BY <1>a, TracksOf
  <2>6. Clean(target, (held[c].tracks \ {tr}) \cup {TrackState(tr.egress, tr.track, status)})
    BY <1>a, <2>4, <2>5, CleanReplaces
  <2>7. /\ held'[c].tracks = (held[c].tracks \ {tr}) \cup {TrackState(tr.egress, tr.track, status)}
        /\ todo'[c] = todo[c] \ {tr}
    BY <2>1 DEF TypeOK, WithTracks, State
  <2>8. RequestIsClean(c)'
    BY <2>2, <2>4, <2>6, <2>7 DEF ListsAreClean, RequestIsClean
  <2> QED BY <1>b, <1>8, <2>1, <2>2, <2>3, <2>8, StepCleans DEF StopTrack, TypeOK
<1>9. CASE StopStore(c)
  <2>1. target' = target
    BY <1>9 DEF StopStore, liveKit
  <2>2. MapsAreClean'
    BY <1>a, <1>9, <2>1, NoEntryFields, NothingIsClean
    DEF StopStore, MapsAreClean, maps, ListsAreClean
  <2> QED BY <1>b, <1>9, <2>1, <2>2, ReturnCleans DEF StopStore, ListsAreClean
<1> QED BY <1>1, <1>2, <1>3, <1>4, <1>5, <1>6, <1>7, <1>8, <1>9 DEF Stop

----------------------------------------------------------------------------
LEMMA WebhookClean ==
  ASSUME TypeInv, ListsAreClean, NEW n \in notices, Webhook(n)
  PROVE  ListsAreClean'
<1> USE DEF TypeInv
<1>1. TargetsStay /\ target' = target /\ n.egress \in EgressIds /\ n.status \in KnownStatus
  BY DEF Webhook, TargetsStay, TypeOK, Notice, KnownStatus
<1>2. \A d \in Callers : RequestIsClean(d)'
  BY <1>1, RequestStaysClean DEF Webhook, callVars
<1>3. Latest.tracks \in SUBSET TrackEgress /\ Clean(target, Latest.tracks)
  BY TracksOf DEF TypeOK, Latest, ListsAreClean, MapsAreClean
<1>4. Clean(target, NoEntry.tracks)
  BY NoEntryFields, NothingIsClean
<1>5. CASE UpdateFromInfo(n)
  <2>1. FromWebhook(n).tracks = Latest.tracks
    BY DEF FromWebhook, State
  <2> QED BY <1>1, <1>2, <1>3, <1>4, <1>5, <2>1 DEF UpdateFromInfo, ListsAreClean, MapsAreClean
<1>6. CASE UpdateTrackFromInfo(n)
  <2> DEFINE tr == TrackState(n.egress, target[n.egress], n.status)
             base == IF Present(Latest) THEN Latest.tracks ELSE {}
  <2>1. tr \in TrackEgress /\ tr.egress # NoEgress /\ target[tr.egress] = tr.track
    <3>1. target[n.egress] \in Tracks /\ n.egress # 0
      BY <1>1, <1>6 DEF UpdateTrackFromInfo, EgressIds
    <3>2. tr.egress = n.egress /\ tr.track = target[n.egress]
      BY DEF TrackState
    <3>3. tr \in TrackEgress
      BY <1>1, <3>1 DEF TrackState, TrackEgress
    <3> HIDE DEF tr
    <3> QED BY <3>1, <3>2, <3>3 DEF NoEgress
  <2>2. base \in SUBSET TrackEgress /\ Clean(target, base)
    BY <1>3, NothingIsClean
  <2>3. FromTrackWebhook(n).tracks = Upsert(base, tr)
    BY DEF FromTrackWebhook, WithTracks, State
  <2>4. Clean(target, FromTrackWebhook(n).tracks)
    <3> HIDE DEF tr, base
    <3> QED BY <2>1, <2>2, <2>3, CleanUpserts
  <2> QED BY <1>1, <1>2, <1>4, <1>6, <2>4 DEF UpdateTrackFromInfo, ListsAreClean, MapsAreClean
<1> QED BY <1>5, <1>6 DEF Webhook

LEMMA StepClean == TypeInv /\ ListsAreClean /\ [Next]_vars => ListsAreClean'
<1> SUFFICES ASSUME TypeInv, ListsAreClean, [Next]_vars PROVE ListsAreClean'
  OBVIOUS
<1>1. ASSUME UNCHANGED <<maps, callVars, target>> PROVE ListsAreClean'
  BY <1>1 DEF maps, callVars, ListsAreClean, MapsAreClean, RequestIsClean
<1>2. CASE UNCHANGED vars
  BY <1>1, <1>2 DEF vars, maps, callVars
<1>3. ASSUME NEW e \in EgressIds, NEW status \in ServiceStatus, LiveKitStep(e, status)
      PROVE  ListsAreClean'
  BY <1>1, <1>3 DEF LiveKitStep
<1>4. CASE Restart
  <2>1. MapsAreClean'
    BY <1>4, NoEntryFields, NothingIsClean DEF Restart, MapsAreClean
  <2>2. ASSUME NEW c \in Callers PROVE RequestIsClean(c)'
    BY <1>4, NoEntryFields, NothingIsClean DEF Restart, RequestIsClean
  <2> QED BY <2>1, <2>2 DEF ListsAreClean
<1> QED BY <1>2, <1>3, <1>4, StartClean, AddClean, StopClean, WebhookClean DEF Next

LEMMA InitClean == Init => ListsAreClean
BY NoEntryFields, NothingIsClean DEF Init, ListsAreClean, MapsAreClean, RequestIsClean

(* Starts that fail for some tracks, tracks that are added, webhooks that  *)
(* are faster than the response of their request, stops that replace       *)
(* records: none of them leaves a track egress in the room's entry twice.  *)
THEOREM TracksAreListedOnce == Spec => []TracksListedOnce
<1>1. TypeInv /\ ListsAreClean => TracksListedOnce
  BY DEF ListsAreClean, MapsAreClean, Clean, Latest, TracksListedOnce
<1>2. TypeInv /\ ListsAreClean /\ [Next]_vars => (TypeInv /\ ListsAreClean)'
  BY StepType, StepClean
<1> QED BY <1>1, <1>2, InitType, InitClean, PTL DEF Spec

----------------------------------------------------------------------------
(* What a step does to LiveKit and to each request.                        *)
LEMMA StepOnward == Inv /\ [Next]_vars => Onward
<1> SUFFICES ASSUME Inv, [Next]_vars PROVE Onward
  OBVIOUS
<1>1. TypeOK /\ NoticesAreTrue
  BY DEF Inv, TypeInv
<1>2. ASSUME UNCHANGED <<target, progress>> PROVE Onward
  BY <1>2 DEF Onward, Used, Running
<1>3. ASSUME NEW e \in EgressIds, NEW what \in {"room"} \cup Tracks, Launch(e, what)
      PROVE  Onward
  BY <1>1, <1>3, LaunchOnward
<1>4. ASSUME NEW e \in EgressIds, Halt(e) PROVE Onward
  BY <1>1, <1>4, HaltOnward
<1>5. ASSUME NEW c \in Callers, Start(c) PROVE Onward
  <2>1. want[c] \subseteq Tracks
    BY <1>1 DEF TypeOK
  <2>2. ASSUME StartTrack(c) PROVE UNCHANGED liveKit \/ \E e \in EgressIds, t \in Tracks : Launch(e, t)
    BY <2>1, <2>2 DEF StartTrack, TrackEgress
  <2> QED BY <1>2, <1>3, <1>5, <2>1, <2>2
       DEF Start, StartCheck, StartComposite, StartFails, StartStore, liveKit
<1>6. ASSUME NEW c \in Callers, Add(c) PROVE Onward
  <2>1. want[c] \subseteq Tracks
    BY <1>1 DEF TypeOK
  <2> QED BY <1>2, <1>3, <1>6, <2>1 DEF Add, AddCheck, AddRequest, AddStore, liveKit
<1>7. ASSUME NEW c \in Callers, Stop(c) PROVE Onward
  <2>1. pc[c] \in HasCopy => held[c].egress \in EgressIds
    BY EntryFields DEF Inv, TypeInv, CopiesArePresent
  <2>2. \A tr \in todo[c] : tr.egress \in EgressIds
    BY DEF Inv, TypeInv, TypeOK, CopiesArePresent, TrackEgress
  <2>3. ASSUME StopTrack(c) PROVE UNCHANGED liveKit \/ \E tr \in todo[c] : Halt(tr.egress)
    BY <2>3 DEF StopTrack
  <2> QED BY <1>2, <1>4, <1>7, <2>1, <2>2, <2>3
       DEF Stop, StopCheck, StopWait, StopAccepted, StopAlready, StopRejected, StopTimesOut,
           StoreAccepted, StopStore, liveKit, HasCopy
<1>8. ASSUME NEW e \in EgressIds, NEW status \in ServiceStatus, LiveKitStep(e, status)
      PROVE  Onward
  BY <1>1, <1>8, LiveKitOnward
<1>9. CASE (\E n \in notices : Webhook(n)) \/ Restart \/ UNCHANGED vars
  BY <1>2, <1>9 DEF Webhook, Restart, vars, liveKit
<1> QED BY <1>5, <1>6, <1>7, <1>8, <1>9 DEF Next

(* A request is left alone by the steps of the others.                     *)
LeftAlone(d) ==
  pc'[d] = pc[d] /\ held'[d] = held[d] /\ want'[d] = want[d] /\ todo'[d] = todo[d]

LEMMA OthersStay ==
  ASSUME TypeOK, NEW c \in Callers, Start(c) \/ Add(c) \/ Stop(c), NEW d \in Callers, d # c
  PROVE  LeftAlone(d)
<1> USE DEF TypeOK, LeftAlone
<1>1. CASE Start(c)
  <2>1. CASE StartTrack(c)
    BY <2>1 DEF StartTrack
  <2> QED BY <1>1, <2>1 DEF Start, StartCheck, StartComposite, StartFails, StartStore, Return
<1>2. CASE Add(c)
  BY <1>2 DEF Add, AddCheck, AddRequest, AddStore, Return
<1>3. CASE Stop(c)
  <2>1. CASE StopTrack(c)
    BY <2>1 DEF StopTrack
  <2> QED BY <1>3, <2>1
       DEF Stop, StopCheck, StopWait, StopAccepted, StopAlready, StopRejected, StopTimesOut,
           StoreAccepted, StopStore, StopAnswered, HeldAs, Return
<1> QED BY <1>1, <1>2, <1>3

(* Whatever happens, a request makes a step of its own, is left alone or is*)
(* gone with the process.                                                  *)
LEMMA StepOfRequest ==
  ASSUME TypeOK, [Next]_vars, NEW d \in Callers
  PROVE  Start(d) \/ Add(d) \/ Stop(d) \/ LeftAlone(d) \/ Restart
<1>1. ASSUME NEW c \in Callers, Start(c) \/ Add(c) \/ Stop(c), c # d PROVE LeftAlone(d)
  BY <1>1, OthersStay
<1>2. CASE UNCHANGED callVars
  BY <1>2 DEF callVars, LeftAlone
<1>3. CASE UNCHANGED vars
  BY <1>3 DEF vars, LeftAlone
<1> QED BY <1>1, <1>2, <1>3 DEF Next, LiveKitStep, Webhook

----------------------------------------------------------------------------
(* A record that a stop has been through stays true: its egress is one that*)
(* LiveKit has started, which no step lets record again.                   *)
LEMMA StopsGoOn ==
  ASSUME Inv, ListsAreClean, StopNamesWhatRuns, Inv', Onward, NEW c \in Callers, StopTrack(c),
         NEW r \in held'[c].tracks \ todo'[c], r.egress # NoEgress, Running(r.egress)'
  PROVE  r.status = "stopping"
<1>1. PICK tr \in todo[c], status \in KnownStatus :
        /\ \/ status = "ending" /\ Halt(tr.egress)
           \/ status = "stopping" /\ (Halt(tr.egress) \/ UNCHANGED liveKit)
           \/ status = tr.status /\ ~Running(tr.egress) /\ UNCHANGED liveKit
        /\ todo' = [todo EXCEPT ![c] = todo[c] \ {tr}]
        /\ held' = [held EXCEPT ![c] = WithTracks(held[c],
             (held[c].tracks \ {tr}) \cup {TrackState(tr.egress, tr.track, status)})]
  BY DEF StopTrack
<1> DEFINE new == TrackState(tr.egress, tr.track, status)
<1>2. /\ held'[c].tracks = (held[c].tracks \ {tr}) \cup {new}
      /\ todo'[c] = todo[c] \ {tr}
  BY <1>1 DEF Inv, TypeInv, TypeOK, WithTracks, State
<1>3. /\ tr.egress \in EgressIds
      /\ \A other \in held[c].tracks : other.egress # NoEgress =>
           other.egress \in EgressIds /\ Used(other.egress)
  <2>1. held[c].tracks \in SUBSET TrackEgress /\ todo[c] \in SUBSET TrackEgress
    BY TracksOf DEF Inv, TypeInv, TypeOK
  <2>2. \A other \in held[c].tracks : other.egress # NoEgress =>
          target[other.egress] = other.track
    BY DEF ListsAreClean, RequestIsClean, Clean
  <2>3. \A t \in Tracks : t # "none"
    BY TracksAssumption
  <2> QED BY <2>1, <2>2, <2>3 DEF Inv, TypeInv, CopiesArePresent, TrackEgress, Used
<1>4. CASE r = new
  <2>1. r.egress = tr.egress /\ r.status = status
    BY <1>4 DEF TrackState
  <2>2. Halt(tr.egress) => ~Running(tr.egress)'
    BY <1>3, HaltOnward DEF Inv, TypeInv
  <2>3. UNCHANGED liveKit /\ ~Running(tr.egress) => ~Running(tr.egress)'
    BY DEF liveKit, Running, Used
  <2> HIDE DEF new
  <2> QED BY <1>1, <2>1, <2>2, <2>3
<1>5. CASE r # new
  <2>1. r \in held[c].tracks \ todo[c]
    BY <1>2, <1>5
  <2>2. Running(r.egress)
    BY <1>3, <2>1 DEF Onward
  <2> QED BY <2>1, <2>2 DEF StopNamesWhatRuns, StopTrack
<1> QED BY <1>4, <1>5

LEMMA StopNames ==
  Inv /\ ListsAreClean /\ StopNamesWhatRuns /\ [Next]_vars /\ Inv' => StopNamesWhatRuns'
<1> SUFFICES ASSUME Inv, ListsAreClean, StopNamesWhatRuns, [Next]_vars, Inv',
                    NEW c \in Callers, pc'[c] = "stopTracks",
                    NEW r \in held'[c].tracks \ todo'[c], r.egress # NoEgress, Running(r.egress)'
             PROVE  r.status = "stopping"
  BY DEF StopNamesWhatRuns
<1> USE DEF Inv, TypeInv, TypeOK
<1>1. Onward
  BY StepOnward
<1>2. CASE LeftAlone(c)
  <2>1. r \in held[c].tracks \ todo[c] /\ pc[c] = "stopTracks"
    BY <1>2 DEF LeftAlone
  <2>2. r.egress \in EgressIds /\ target[r.egress] = r.track /\ r.track \in Tracks
    <3>1. held[c].tracks \in SUBSET TrackEgress
      BY TracksOf
    <3> QED BY <2>1, <3>1 DEF TrackEgress, ListsAreClean, RequestIsClean, Clean
  <2>3. Running(r.egress)
    BY <1>1, <2>2, TracksAssumption DEF Onward, Used
  <2> QED BY <2>1, <2>3 DEF StopNamesWhatRuns
<1>3. CASE todo'[c] = ToStop(held'[c].tracks)
  <2>1. Terminal(r.status)
    BY <1>3 DEF ToStop
  <2>2. Terminal(progress'[r.egress])
    BY <2>1 DEF RequestIsFine, Sound, BelievesTruly, Ended
  <2> QED BY <2>2 DEF Running, Terminal, LiveStatus
<1>4. CASE StopTrack(c)
  BY <1>1, <1>4, StopsGoOn
<1>5. LeftAlone(c) \/ todo'[c] = ToStop(held'[c].tracks) \/ StopTrack(c)
  <2>1. CASE Start(c)
    <3>1. pc'[c] # "stopTracks"
      BY <2>1 DEF Start, StartCheck, StartComposite, StartFails, StartTrack, StartStore, Return
    <3> QED BY <3>1
  <2>2. CASE Add(c)
    <3>1. pc'[c] # "stopTracks"
      BY <2>2 DEF Add, AddCheck, AddRequest, AddStore, Return
    <3> QED BY <3>1
  <2>3. CASE Stop(c)
    <3>1. ASSUME NEW entry, NEW err, StopAnswered(c, entry, err)
          PROVE  todo'[c] = ToStop(held'[c].tracks)
      BY <3>1 DEF StopAnswered
    <3>2. ~(StopCheck(c) \/ StopWait(c) \/ StopTimesOut(c) \/ StoreAccepted(c) \/ StopStore(c))
      BY DEF StopCheck, StopWait, StopTimesOut, StoreAccepted, StopStore, Return
    <3> QED BY <2>3, <3>1, <3>2 DEF Stop, StopAccepted, StopAlready, StopRejected
  <2>4. ~Restart
    BY DEF Restart
  <2> QED BY <2>1, <2>2, <2>3, <2>4, StepOfRequest
<1> QED BY <1>2, <1>3, <1>4, <1>5

(* A stop that answers has stopped every track it lists, or its record says*)
(* otherwise: an error, a timeout or an "already stopped" is no answer.    *)
THEOREM StopsAreNamed == Spec => []StopNamesWhatRuns
<1>1. Init => StopNamesWhatRuns
  BY DEF Init, StopNamesWhatRuns
<1>2. Inv /\ ListsAreClean => TypeInv /\ ListsAreClean
  BY DEF Inv
<1> QED BY <1>1, <1>2, StopNames, StepSafe, StepClean, InitSafe, InitClean, PTL DEF Spec

----------------------------------------------------------------------------
(* Every request ends, whatever LiveKit answers to it, once or twice or    *)
(* never: each of its steps is followed only by later ones of its kind, or *)
(* takes a track off those that are left.  None asks LiveKit for the same  *)
(* thing again.                                                            *)
CallsLeft ==
  [p \in Pcs |-> CASE p = "idle" -> 0
                  [] p \in {"store", "addStore", "accepted", "stopTracks"} -> 1
                  [] p \in {"startTracks", "addRequest", "stop"} -> 2
                  [] p \in {"compose", "wait"} -> 3]
Advances(c) ==
  \/ CallsLeft[pc'[c]] < CallsLeft[pc[c]]
  \/ /\ pc'[c] = pc[c] /\ want'[c] \subseteq want[c] /\ todo'[c] \subseteq todo[c]
     /\ want'[c] = want[c] /\ todo'[c] = todo[c] => held'[c] = held[c]

RequestsAdvance == [][\A c \in Callers : pc[c] # "idle" => Advances(c)]_vars

LEMMA CallsLeftOf ==
  /\ CallsLeft["idle"] = 0
  /\ \A p \in {"store", "addStore", "accepted", "stopTracks"} : CallsLeft[p] = 1
  /\ \A p \in {"startTracks", "addRequest", "stop"} : CallsLeft[p] = 2
  /\ \A p \in {"compose", "wait"} : CallsLeft[p] = 3
BY DEF CallsLeft, Pcs

LEMMA LaterCalls ==
  ASSUME TypeOK, NEW c \in Callers, pc[c] # "idle"
  PROVE  /\ pc'[c] = "idle" => Advances(c)
         /\ LeftAlone(c) => Advances(c)
<1>1. pc[c] \in Pcs \ {"idle"}
  BY DEF TypeOK
<1>2. CallsLeft["idle"] < CallsLeft[pc[c]]
  BY <1>1, CallsLeftOf DEF Pcs
<1> QED BY <1>2 DEF Advances, LeftAlone

LEMMA RequestAdvances ==
  ASSUME TypeOK, NEW c \in Callers, pc[c] # "idle", Start(c) \/ Add(c) \/ Stop(c)
  PROVE  Advances(c)
<1> USE CallsLeftOf, LaterCalls DEF TypeOK
<1>1. CASE Start(c)
  <2>1. CASE StartTrack(c)
    <3>1. PICK t \in want[c] :
            /\ want' = [want EXCEPT ![c] = want[c] \ {t}]
            /\ pc' = [pc EXCEPT ![c] = IF want[c] = {t} THEN "store" ELSE "startTracks"]
      BY <2>1 DEF StartTrack
    <3>2. want'[c] \subseteq want[c] /\ want'[c] # want[c] /\ todo'[c] = todo[c]
      BY <2>1, <3>1 DEF StartTrack
    <3>3. pc[c] = "startTracks" /\ pc'[c] \in {"store", "startTracks"}
      BY <2>1, <3>1 DEF StartTrack
    <3> QED BY <3>2, <3>3 DEF Advances
  <2>2. CASE StartComposite(c)
    BY <2>2 DEF StartComposite, Advances
  <2> QED BY <1>1, <2>1, <2>2 DEF Start, StartCheck, StartFails, StartStore, Return
<1>2. CASE Add(c)
  <2>1. CASE AddRequest(c)
    BY <2>1 DEF AddRequest, Advances
  <2> QED BY <1>2, <2>1 DEF Add, AddCheck, AddStore, Return
<1>3. CASE Stop(c)
  <2>1. CASE StopTrack(c)
    <3>1. PICK tr \in todo[c] : todo' = [todo EXCEPT ![c] = todo[c] \ {tr}]
      BY <2>1 DEF StopTrack
    <3>2. todo'[c] \subseteq todo[c] /\ todo'[c] # todo[c] /\ want'[c] = want[c] /\ pc'[c] = pc[c]
      BY <2>1, <3>1 DEF StopTrack
    <3> QED BY <3>2 DEF Advances
  <2>2. CASE StopWait(c) \/ StopTimesOut(c)
    BY <2>2 DEF StopWait, StopTimesOut, Advances
  <2>3. ASSUME NEW entry, NEW err, StopAnswered(c, entry, err), pc[c] = "stop" PROVE Advances(c)
    BY <2>3 DEF StopAnswered, Advances
  <2> QED BY <1>3, <2>1, <2>2, <2>3
       DEF Stop, StopCheck, StopAccepted, StopAlready, StopRejected, StoreAccepted, StopStore, Return
<1> QED BY <1>1, <1>2, <1>3

(* However many tracks there are and whatever LiveKit answers, a request   *)
(* goes forward: to a later call, or to the tracks that are left of a list.*)
THEOREM RequestsGoForward == Spec => RequestsAdvance
<1>1. ASSUME TypeOK, [Next]_vars, NEW c \in Callers, pc[c] # "idle" PROVE Advances(c)
  <2>1. Restart => Advances(c)
    BY <1>1, LaterCalls DEF Restart
  <2> QED BY <1>1, <2>1, StepOfRequest, RequestAdvances, LaterCalls
<1>2. TypeOK /\ [Next]_vars => [\A c \in Callers : pc[c] # "idle" => Advances(c)]_vars
  BY <1>1
<1> QED BY <1>2, TypeCorrect, PTL DEF Spec, RequestsAdvance
=============================================================================
