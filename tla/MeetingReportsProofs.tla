------------------------ MODULE MeetingReportsProofs ------------------------
(***************************************************************************)
(* Proofs about MeetingReports for any numbers of people, goroutines,      *)
(* reports and recordings.  The invariant has a part for what is guarded   *)
(* by reportsMu, one for the session, one for where each goroutine is and  *)
(* one for the goroutines that process recordings.                         *)
(***************************************************************************)
EXTENDS MeetingReports, TLAPS

StoreInv ==
  /\ store \in [Reports -> Detail \cup {NoDetail}]
  /\ rows \in [Reports -> Row \cup {NoRow}]
  /\ latest \in Reports \cup {NoReport}
  /\ ListMatchesDetail /\ LatestExists /\ TranscriptHasRecording

SessionInv ==
  /\ meeting \in Reports \cup {NoReport}
  /\ present \in SUBSET Users
  /\ created \in 0..MaxReports
  /\ SessionHasPeople

(* A goroutine that reads has something to edit; one that writes has read  *)
(* a report that was there; one that schedules has a recording; and the    *)
(* transcript of a copy has its recording.                                 *)
Ready(p) ==
  /\ pc[p] \in {"read", "write", "remember"} => step[p] \in Edits
  /\ pc[p] = "write" => copy[p] # NoDetail /\ about[p] \in Reports
  /\ pc[p] = "schedule" => egress[p] # 0
  /\ copy[p].text => copy[p].file
ProcTypes ==
  /\ pc \in [Procs -> Pcs]
  /\ about \in [Procs -> Reports \cup {NoReport}]
  /\ egress \in [Procs -> 0..MaxEgress]
  /\ step \in [Procs -> Edits \cup {"none"}]
  /\ copy \in [Procs -> Detail \cup {NoDetail}]
ProcInv == ProcTypes /\ \A p \in Procs : Ready(p)

(* A worker has a recording while it works, and then a report.             *)
Busy(w) ==
  /\ pc[w] = "idle" <=> egress[w] = 0
  /\ pc[w] \notin {"idle", "scheduled"} => about[w] \in Reports
WorkerInv == \A w \in Workers : Busy(w)

OtherTypes ==
  /\ roomReport \in Reports \cup {NoReport}
  /\ processing \in SUBSET EgressIds
  /\ launched \in 0..MaxEgress
  /\ over \in SUBSET EgressIds

Core == StoreInv /\ SessionInv /\ ProcInv /\ WorkerInv /\ OneWorkerPerRecording /\ OtherTypes
IInv == Core /\ requests \in 0..MaxRequests

----------------------------------------------------------------------------
(* The rows and details that are written have their types.                 *)
LEMMA Constants ==
  /\ NoReport \notin Reports /\ NoDetail \notin Detail
  /\ Meetings \subseteq Reports
  /\ \A e \in EgressIds : EgressReport(e) \in Reports
BY ReportsAssumption, EgressAssumption
   DEF NoReport, Reports, Meetings, EgressIds, EgressReport, NoDetail, NoRow, Detail, Row,
       Stages, DetailOf, RowOf

LEMMA PipelineRows ==
  ASSUME NEW row \in Row \cup {NoRow}, NEW state \in {"recording", "processing", "error"},
         state = "error" => row \in Row
  PROVE  PipelineRow(row, state) \in Row
BY DEF PipelineRow, NotPending, RowOf, Row, Stages, Recordings, Transcriptions

LEMMA ActiveRows ==
  ASSUME NEW row \in Row
  PROVE  ActiveRow(row) \in Row /\ FinalRow(row) \in Row
BY DEF ActiveRow, FinalRow, PipelineRow, NotPending, RowOf, Row, Stages, Recordings, Transcriptions

LEMMA EditedRows ==
  ASSUME NEW row \in Row, NEW edit \in Edits
  PROVE  EditedRow(row, edit) \in Row
<1> USE DEF RowOf, Row, Stages, Recordings, Transcriptions
<1>1. CASE edit \in DOMAIN RecordingEvents
  <2>1. edit \in {"started", "stopping", "recordingError", "verify", "verified"}
    BY <1>1 DEF RecordingEvents
  <2>2. RecordingEvents[edit] \in Recordings
    BY <2>1 DEF RecordingEvents
  <2>3. EditedRow(row, edit) = RowOf(row.stage, RecordingEvents[edit], row.trans)
    <3>1. /\ edit \notin DOMAIN TranscriptionEvents \cup Touches
          /\ edit # "downloadFailed" /\ edit # "sttFailed"
      BY <2>1 DEF TranscriptionEvents, Touches
    <3> QED
      BY <1>1, <3>1 DEF EditedRow
  <2> QED
    BY <2>2, <2>3
<1>2. CASE edit \in DOMAIN TranscriptionEvents
  BY <1>2 DEF EditedRow, TranscriptionEvents, RecordingEvents
<1>3. CASE edit \in Failures
  BY <1>3 DEF EditedRow, Failures, TranscriptionEvents, RecordingEvents
<1>4. CASE edit \in Touches
  BY <1>4 DEF EditedRow, Touches, TranscriptionEvents, RecordingEvents
<1> QED
  BY <1>1, <1>2, <1>3, <1>4 DEF Edits

(* What follows an edit is an edit.                                        *)
LEMMA Followers ==
  ASSUME NEW edit \in DOMAIN Following, NEW next \in Following[edit]
  PROVE  next \in Edits
BY DEF Following, Edits, RecordingEvents, TranscriptionEvents, Failures, Touches

----------------------------------------------------------------------------
(* A write of a detail whose transcript has its recording.                 *)
LEMMA PutKeeps ==
  ASSUME StoreInv, NEW r \in Reports, NEW detail \in Detail,
         detail.text => detail.file, Put(r, detail)
  PROVE  StoreInv'
<1>1. detail # NoDetail /\ detail.row \in Row
  BY Constants DEF Detail
<1>2. /\ store' \in [Reports -> Detail \cup {NoDetail}]
      /\ rows' \in [Reports -> Row \cup {NoRow}]
      /\ latest' \in Reports \cup {NoReport}
  BY <1>1 DEF StoreInv, Put
<1>3. ListMatchesDetail'
  BY DEF StoreInv, Put, ListMatchesDetail
<1>4. LatestExists' /\ TranscriptHasRecording'
  BY <1>1 DEF StoreInv, Put, LatestExists, Exists, TranscriptHasRecording
<1> QED
  BY <1>2, <1>3, <1>4 DEF StoreInv

LEMMA UnchangedStore ==
  ASSUME StoreInv, UNCHANGED reports
  PROVE  StoreInv'
BY DEF StoreInv, reports, ListMatchesDetail, LatestExists, Exists, TranscriptHasRecording

(* A row that is updated is that of a report that exists.                  *)
LEMMA StoredDetail ==
  ASSUME StoreInv, NEW r, Exists(r)
  PROVE  /\ r \in Reports /\ store[r] \in Detail /\ store[r].row \in Row
         /\ store[r].file \in BOOLEAN /\ store[r].text \in BOOLEAN
         /\ store[r].text => store[r].file
BY DEF StoreInv, Exists, Detail, TranscriptHasRecording

LEMMA UpdateKeeps ==
  ASSUME StoreInv, NEW r, NEW row, UpdateReport(r, row), Exists(r) => row \in Row
  PROVE  StoreInv'
<1>1. CASE Exists(r)
  <2> DEFINE detail == DetailOf(row, store[r].file, store[r].text)
  <2>1. detail \in Detail /\ (detail.text => detail.file) /\ r \in Reports
    BY <1>1, StoredDetail DEF DetailOf, Detail
  <2>2. Put(r, detail)
    BY <1>1 DEF UpdateReport
  <2> HIDE DEF detail
  <2> QED
    BY <2>1, <2>2, PutKeeps
<1>2. CASE ~Exists(r)
  BY <1>2, UnchangedStore DEF UpdateReport
<1> QED
  BY <1>1, <1>2

----------------------------------------------------------------------------
(* A goroutine goes to a place it is ready for.                            *)
LEMMA GoKeeps ==
  ASSUME ProcInv, NEW p \in Procs, NEW where \in Pcs \ {"write"},
         NEW r \in Reports \cup {NoReport}, NEW e \in 0..MaxEgress,
         NEW edit \in Edits \cup {"none"}, Go(p, where, r, e, edit),
         where \in {"read", "remember"} => edit \in Edits,
         where = "schedule" => e # 0
  PROVE  ProcInv'
<1>1. ProcTypes'
  BY DEF ProcInv, ProcTypes, Go
<1>2. ASSUME NEW q \in Procs PROVE Ready(q)'
  <2>1. CASE q = p
    BY <2>1 DEF ProcInv, ProcTypes, Go, Ready, NoDetail, DetailOf
  <2>2. CASE q # p
    <3>1. Ready(q)
      BY DEF ProcInv
    <3>2. pc'[q] = pc[q] /\ about'[q] = about[q] /\ egress'[q] = egress[q]
          /\ step'[q] = step[q] /\ copy'[q] = copy[q]
      BY <2>2 DEF ProcInv, ProcTypes, Go
    <3> QED
      BY <3>1, <3>2 DEF Ready
  <2> QED
    BY <2>1, <2>2
<1> QED
  BY <1>1, <1>2 DEF ProcInv

LEMMA ReturnKeeps ==
  ASSUME ProcInv, NEW p \in Procs, Return(p)
  PROVE  ProcInv'
<1>1. "idle" \in Pcs \ {"write"} /\ 0 \in 0..MaxEgress
  BY EgressAssumption DEF Pcs
<1> QED
  BY <1>1, GoKeeps DEF Return

(* A request moves; the workers are where they were.                       *)
LEMMA CallerGoes ==
  ASSUME ProcInv, WorkerInv, OneWorkerPerRecording, NEW c \in Callers,
         NEW where, NEW r, NEW e, NEW edit, Go(c, where, r, e, edit), UNCHANGED processing
  PROVE  WorkerInv' /\ OneWorkerPerRecording'
<1>1. \A w \in Workers : pc'[w] = pc[w] /\ about'[w] = about[w] /\ egress'[w] = egress[w]
  BY ProcsAssumption DEF ProcInv, ProcTypes, Go, Procs
<1> QED
  BY <1>1 DEF WorkerInv, Busy, OneWorkerPerRecording

(* A worker moves on with its recording.                                   *)
LEMMA WorkerGoes ==
  ASSUME ProcInv, WorkerInv, OneWorkerPerRecording, NEW w \in Workers,
         pc'[w] \notin {"idle", "scheduled"}, about'[w] \in Reports, pc[w] # "idle",
         \A q \in Workers \ {w} : pc'[q] = pc[q] /\ about'[q] = about[q],
         \A q \in Workers : egress'[q] = egress[q],
         UNCHANGED processing
  PROVE  WorkerInv' /\ OneWorkerPerRecording'
BY DEF WorkerInv, Busy, OneWorkerPerRecording

(* Nobody moves.                                                           *)
LEMMA UnchangedProcs ==
  ASSUME ProcInv, WorkerInv, OneWorkerPerRecording, UNCHANGED <<procs, processing>>
  PROVE  ProcInv' /\ WorkerInv' /\ OneWorkerPerRecording'
BY DEF procs, ProcInv, ProcTypes, Ready, WorkerInv, Busy, OneWorkerPerRecording

LEMMA UnchangedSession ==
  ASSUME SessionInv, UNCHANGED session
  PROVE  SessionInv'
BY DEF session, SessionInv, SessionHasPeople

ProcParts == ProcInv /\ WorkerInv /\ OneWorkerPerRecording

(* A request goes to a place it is ready for.                              *)
LEMMA CallerStep ==
  ASSUME Core, NEW c \in Callers, NEW where \in Pcs \ {"write"},
         NEW r \in Reports \cup {NoReport}, NEW e \in 0..MaxEgress,
         NEW edit \in Edits \cup {"none"}, Go(c, where, r, e, edit), UNCHANGED processing,
         where \in {"read", "remember"} => edit \in Edits,
         where = "schedule" => e # 0
  PROVE  ProcParts'
<1>1. c \in Procs
  BY DEF Procs
<1>2. ProcInv'
  BY <1>1, GoKeeps DEF Core
<1>3. WorkerInv' /\ OneWorkerPerRecording'
  BY CallerGoes DEF Core
<1> QED
  BY <1>2, <1>3 DEF ProcParts

LEMMA CallerReturns ==
  ASSUME Core, NEW c \in Callers, Return(c), UNCHANGED processing
  PROVE  ProcParts'
<1>1. "idle" \in Pcs \ {"write"} /\ 0 \in 0..MaxEgress
  BY EgressAssumption DEF Pcs
<1> QED
  BY <1>1, CallerStep DEF Return

(* A worker goes on with its recording and its report.                     *)
LEMMA WorkerStep ==
  ASSUME Core, NEW w \in Workers, pc[w] # "idle",
         NEW where \in Pcs \ {"write", "schedule", "idle", "scheduled"},
         NEW r \in Reports, NEW edit \in Edits \cup {"none"},
         Go(w, where, r, egress[w], edit), UNCHANGED processing,
         where \in {"read", "remember"} => edit \in Edits
  PROVE  ProcParts'
<1>1. w \in Procs /\ egress[w] \in 0..MaxEgress
  BY DEF Procs, Core, ProcInv, ProcTypes
<1>2. ProcInv'
  BY <1>1, GoKeeps DEF Core
<1>3. /\ pc'[w] \notin {"idle", "scheduled"} /\ about'[w] \in Reports
      /\ \A q \in Workers \ {w} : pc'[q] = pc[q] /\ about'[q] = about[q]
      /\ \A q \in Workers : egress'[q] = egress[q]
  BY <1>1 DEF Go, Core, ProcInv, ProcTypes, Procs
<1>4. WorkerInv' /\ OneWorkerPerRecording'
  BY <1>3, WorkerGoes DEF Core
<1> QED
  BY <1>2, <1>4 DEF ProcParts

LEMMA Proceeding ==
  ASSUME Core, NEW p \in Procs, p \in Workers => pc[p] \notin {"idle", "scheduled"},
         Proceed(p), UNCHANGED processing
  PROVE  ProcParts'
<1>0. /\ about[p] \in Reports \cup {NoReport} /\ egress[p] \in 0..MaxEgress
      /\ {"schedule", "leaving", "read", "result", "publish", "finish"} \subseteq Pcs
      /\ 0 \in 0..MaxEgress
  BY EgressAssumption DEF Core, ProcInv, ProcTypes, Pcs
<1>1. CASE p \in Callers
  <2>1. CASE egress[p] # 0
    <3>1. Go(p, "schedule", about[p], egress[p], "none")
      BY <1>1, <2>1 DEF Proceed
    <3> QED
      BY <1>0, <1>1, <2>1, <3>1, CallerStep
  <2>2. CASE egress[p] = 0 /\ step[p] = "leave"
    <3>1. Go(p, "leaving", about[p], 0, "none")
      BY <1>1, <2>2 DEF Proceed
    <3> QED
      BY <1>0, <1>1, <3>1, CallerStep
  <2>3. CASE egress[p] = 0 /\ step[p] # "leave"
    BY <1>1, <2>3, CallerReturns DEF Proceed
  <2> QED
    BY <2>1, <2>2, <2>3
<1>2. CASE p \notin Callers
  <2>1. p \in Workers /\ about[p] \in Reports /\ pc[p] # "idle"
    BY <1>2 DEF Procs, Core, WorkerInv, Busy
  <2>2. CASE step[p] \in DOMAIN Following
    <3>1. PICK next \in Following[step[p]] : Go(p, "read", about[p], egress[p], next)
      BY <1>2, <2>2 DEF Proceed
    <3>2. next \in Edits
      BY <2>2, <3>1, Followers
    <3> QED
      BY <1>0, <2>1, <3>1, <3>2, WorkerStep
  <2>3. CASE step[p] \notin DOMAIN Following
    <3>1. PICK where \in {"result", "publish", "finish"} :
            Go(p, where, about[p], egress[p], "none")
      <4> DEFINE place == CASE step[p] = "analysed" -> "result"
                            [] step[p] \in Failures -> "publish"
                            [] OTHER -> "finish"
      <4>1. place \in {"result", "publish", "finish"}
        BY DEF Failures
      <4>2. Go(p, place, about[p], egress[p], "none")
        BY <1>2, <2>3 DEF Proceed
      <4> QED
        BY <4>1, <4>2
    <3> QED
      BY <1>0, <2>1, <3>1, WorkerStep
  <2> QED
    BY <2>2, <2>3
<1> QED
  BY <1>1, <1>2

----------------------------------------------------------------------------
(* What the actions leave alone.                                           *)
LEMMA SameStore ==
  ASSUME Core, UNCHANGED reports
  PROVE  StoreInv'
BY UnchangedStore DEF Core

LEMMA SameSession ==
  ASSUME Core, UNCHANGED session
  PROVE  SessionInv'
BY UnchangedSession DEF Core

LEMMA SameProcs ==
  ASSUME Core, UNCHANGED <<procs, processing>>
  PROVE  ProcParts'
BY UnchangedProcs DEF Core, ProcParts

LEMMA OtherParts ==
  ASSUME Core, roomReport' \in Reports \cup {NoReport}, UNCHANGED <<processing, recorder>>
  PROVE  OtherTypes'
BY DEF Core, OtherTypes, recorder

LEMMA Together ==
  ASSUME StoreInv', SessionInv', ProcParts', OtherTypes'
  PROVE  Core'
BY DEF Core, ProcParts

(* Joining and leaving, in one critical section each.                      *)
LEMMA MeetingIs ==
  ASSUME Core
  PROVE  /\ MeetingOf \in Reports \cup {NoReport}
         /\ Exists(MeetingOf) => store[MeetingOf].row \in Row
         /\ \A u \in Users : PresentIn(u) \subseteq Users
<1>1. MeetingOf \in Reports \cup {NoReport}
  BY DEF Core, SessionInv, StoreInv, MeetingOf
<1>2. Exists(MeetingOf) => store[MeetingOf].row \in Row
  BY StoredDetail DEF Core
<1>3. \A u \in Users : PresentIn(u) \subseteq Users
  BY DEF Core, SessionInv, PresentIn
<1> QED
  BY <1>1, <1>2, <1>3

LEMMA JoinKeeps ==
  ASSUME Core, NEW c \in Callers, NEW u \in Users, Join(c, u)
  PROVE  Core'
<1>1. StoreInv' /\ meeting' \in Reports /\ created' \in 0..MaxReports
  <2>1. CASE /\ MeetingOf # NoReport
             /\ UpdateReport(MeetingOf, ActiveRow(store[MeetingOf].row))
             /\ meeting' = MeetingOf
             /\ UNCHANGED created
    <3>1. StoreInv'
      BY <2>1, MeetingIs, ActiveRows, UpdateKeeps DEF Core
    <3> QED
      BY <2>1, <3>1, MeetingIs DEF Core, SessionInv
  <2>2. CASE /\ created < MaxReports
             /\ created' = created + 1
             /\ meeting' = created'
             /\ Put(created', NewReport)
    <3>1. created' \in Meetings /\ created' \in Reports
      BY <2>2, ReportsAssumption, Constants DEF Core, SessionInv, Meetings
    <3>2. NewReport \in Detail /\ (NewReport.text => NewReport.file)
      BY DEF NewReport, DetailOf, RowOf, Detail, Row, Stages, Recordings, Transcriptions
    <3>3. StoreInv'
      BY <2>2, <3>1, <3>2, PutKeeps DEF Core
    <3> QED
      BY <2>2, <3>1, <3>3, ReportsAssumption DEF Meetings
  <2> QED
    BY <2>1, <2>2 DEF Join
<1>2. SessionInv'
  <2>1. present' \in SUBSET Users /\ present' # {}
    BY MeetingIs DEF Join
  <2> QED
    BY <1>1, <2>1, Constants DEF SessionInv, SessionHasPeople
<1>3. ProcParts'
  <2>1. CASE Go(c, "remember", meeting', 0, "touch")
    <3>1. "remember" \in Pcs \ {"write"} /\ 0 \in 0..MaxEgress /\ "touch" \in Edits
      BY EgressAssumption DEF Pcs, Edits, Touches
    <3> QED
      BY <1>1, <2>1, <3>1, CallerStep DEF Join
  <2>2. CASE UNCHANGED procs
    BY <2>2, SameProcs DEF Join
  <2> QED
    BY <2>1, <2>2 DEF Join
<1>4. OtherTypes'
  BY OtherParts DEF Join, Core, OtherTypes
<1> QED
  BY <1>1, <1>2, <1>3, <1>4, Together

LEMMA JoinRememberedKeeps ==
  ASSUME Core, NEW c \in Callers, JoinRemembered(c)
  PROVE  Core'
<1>1. c \in Procs /\ c \notin Workers
  BY ProcsAssumption DEF Procs
<1>2. ProcTypes' /\ roomReport' \in Reports \cup {NoReport}
  BY <1>1 DEF JoinRemembered, Core, ProcInv, ProcTypes, Pcs
<1>3. ASSUME NEW q \in Procs PROVE Ready(q)'
  BY <1>1 DEF JoinRemembered, Core, ProcInv, ProcTypes, Ready
<1>4. WorkerInv' /\ OneWorkerPerRecording'
  BY <1>1 DEF JoinRemembered, Core, ProcInv, ProcTypes, WorkerInv, Busy, OneWorkerPerRecording
<1>5. OtherTypes'
  BY <1>2, OtherParts DEF JoinRemembered
<1> QED
  BY <1>2, <1>3, <1>4, <1>5, SameStore, SameSession, Together
  DEF JoinRemembered, ProcParts, ProcInv

LEMMA LeaveKeeps ==
  ASSUME Core, NEW c \in Callers, NEW u \in Users, Leave(c, u)
  PROVE  Core'
<1>0. /\ "read" \in Pcs \ {"write"} /\ "leaving" \in Pcs \ {"write"}
      /\ 0 \in 0..MaxEgress /\ "touch" \in Edits /\ "leave" \in Edits
  BY EgressAssumption DEF Pcs, Edits, Touches
<1>1. StoreInv'
  BY MeetingIs, ActiveRows, UpdateKeeps DEF Core, Leave
<1>2. SessionInv'
  BY MeetingIs DEF Leave, Core, SessionInv, SessionHasPeople
<1>3. ProcParts'
  <2>1. PICK where \in {"read", "leaving"}, edit \in {"touch", "leave", "none"} :
          /\ Go(c, where, MeetingOf, 0, edit) \/ UNCHANGED procs
          /\ where = "read" => edit # "none"
    BY DEF Leave
  <2>2. CASE UNCHANGED procs
    BY <2>2, SameProcs DEF Leave
  <2>3. CASE Go(c, where, MeetingOf, 0, edit)
    BY <1>0, <2>1, <2>3, MeetingIs, CallerStep DEF Leave
  <2> QED
    BY <2>1, <2>2, <2>3
<1>4. OtherTypes'
  BY OtherParts DEF Leave, Core, OtherTypes
<1> QED
  BY <1>1, <1>2, <1>3, <1>4, Together

----------------------------------------------------------------------------
(* Requests that only go somewhere, perhaps with an answer of LiveKit.     *)
LEMMA Places ==
  /\ {"idle", "starting", "stopping", "leaving", "read", "schedule", "markRecording",
      "markProcessing", "markError", "adopt", "adopted", "result", "resultAlone",
      "publish", "finish", "scheduled"} \subseteq Pcs \ {"write"}
  /\ {"started", "stopping", "recordingError", "touch", "verify", "downloadFailed"}
       \subseteq Edits
  /\ 0 \in 0..MaxEgress
BY EgressAssumption DEF Pcs, Marks, Edits, Touches, RecordingEvents, Failures

LEMMA Sent ==
  ASSUME Core, NEW c \in Callers, NEW where \in {"starting", "stopping", "read",
                                                 "markProcessing", "markError"},
         NEW r \in Reports \cup {NoReport}, NEW e \in EgressIds \cup {0},
         NEW edit \in {"touch", "none"}, where = "read" => edit = "touch",
         Go(c, where, r, e, edit),
         UNCHANGED <<reports, session, roomReport, processing, recorder>>
  PROVE  Core'
<1>1. e \in 0..MaxEgress
  BY EgressAssumption DEF EgressIds
<1>2. ProcParts'
  BY <1>1, Places, CallerStep
<1>3. OtherTypes'
  BY OtherParts DEF Core, OtherTypes
<1> QED
  BY <1>2, <1>3, SameStore, SameSession, Together

LEMMA Answered ==
  ASSUME Core, NEW c \in Callers, StartAnswered(c) \/ StopAnswered(c) \/ LeaveAnswered(c)
  PROVE  Core'
<1>1. /\ about[c] \in Reports \cup {NoReport}
      /\ launched \in 0..MaxEgress
      /\ EgressIds \subseteq 0..MaxEgress
  BY EgressAssumption DEF Core, ProcInv, ProcTypes, Procs, OtherTypes, EgressIds
<1>2. UNCHANGED <<reports, session, processing>>
  BY DEF StartAnswered, StopAnswered, LeaveAnswered
<1>3. ProcParts'
  <2>1. CASE StartAnswered(c)
    BY <1>1, <1>2, <2>1, Places, CallerStep DEF StartAnswered
  <2>2. CASE StopAnswered(c)
    BY <1>1, <1>2, <2>2, Places, CallerStep DEF StopAnswered
  <2>3. CASE LeaveAnswered(c)
    BY <1>1, <1>2, <2>3, Places, CallerStep, CallerReturns DEF LeaveAnswered
  <2> QED
    BY <2>1, <2>2, <2>3
<1>4. OtherTypes'
  <2>1. roomReport' \in Reports \cup {NoReport}
    BY <1>1 DEF StartAnswered, StopAnswered, LeaveAnswered, Remember, Core, OtherTypes
  <2>2. launched' \in 0..MaxEgress
    BY <1>1, EgressAssumption DEF StartAnswered, StopAnswered, LeaveAnswered
  <2>3. over' \in SUBSET EgressIds
    BY DEF StartAnswered, StopAnswered, LeaveAnswered, Core, OtherTypes
  <2> QED
    BY <1>2, <2>1, <2>2, <2>3 DEF Core, OtherTypes
<1> QED
  BY <1>2, <1>3, <1>4, SameStore, SameSession, Together

LEMMA EgressEndsKeeps ==
  ASSUME Core, NEW e \in EgressIds, EgressEnds(e)
  PROVE  Core'
<1>1. OtherTypes'
  BY DEF EgressEnds, Core, OtherTypes
<1> QED
  BY <1>1, SameStore, SameSession, SameProcs, Together DEF EgressEnds

LEMMA FindKeeps ==
  ASSUME Core, NEW c \in Callers, Find(c)
  PROVE  Core'
<1>1. c \in Procs /\ c \notin Workers
  BY ProcsAssumption DEF Procs
<1>2. ProcParts'
  <2>1. CASE latest # NoReport
    <3>1. /\ pc[c] \in Pcs \ {"write", "read", "remember", "schedule"}
          /\ latest \in Reports /\ egress[c] \in 0..MaxEgress
      BY <1>1, <2>1 DEF Find, Marks, Core, ProcInv, ProcTypes, StoreInv
    <3>2. Go(c, pc[c], latest, egress[c], "none")
      BY <2>1 DEF Find
    <3> QED
      BY <3>1, <3>2, CallerStep DEF Find
  <2>2. CASE latest = NoReport
    BY <1>1, <2>2, Proceeding DEF Find
  <2> QED
    BY <2>1, <2>2
<1>3. OtherTypes'
  BY OtherParts DEF Find, Core, OtherTypes
<1> QED
  BY <1>2, <1>3, SameStore, SameSession, Together DEF Find

----------------------------------------------------------------------------
(* Marks and edits of any goroutine.                                       *)
LEMMA Marked ==
  ASSUME Core, NEW p \in Procs, pc[p] \in DOMAIN Marks, about[p] \in Reports,
         AfterMark(p), UNCHANGED processing
  PROVE  ProcParts'
<1>1. pc[p] \notin {"idle", "scheduled"}
  BY DEF Marks
<1>2. CASE step[p] = "none"
  BY <1>1, <1>2, Proceeding DEF AfterMark
<1>3. CASE step[p] # "none"
  <2>1. step[p] \in Edits /\ egress[p] \in 0..MaxEgress
    BY <1>3 DEF Core, ProcInv, ProcTypes
  <2>2. Go(p, "read", about[p], egress[p], step[p])
    BY <1>3 DEF AfterMark
  <2>3. CASE p \in Callers
    BY <2>1, <2>2, <2>3, Places, CallerStep
  <2>4. CASE p \in Workers
    BY <1>1, <2>1, <2>2, <2>4, Places, WorkerStep
  <2> QED
    BY <2>3, <2>4 DEF Procs
<1> QED
  BY <1>2, <1>3

LEMMA MarkKeeps ==
  ASSUME Core, NEW p \in Procs, Mark(p)
  PROVE  Core'
<1>1. about[p] \in Reports /\ Marks[pc[p]] \in {"recording", "processing", "error"}
  BY DEF Mark, Marks, Core, ProcInv, ProcTypes
<1>2. Exists(about[p]) => PipelineRow(store[about[p]].row, Marks[pc[p]]) \in Row
  BY <1>1, StoredDetail, PipelineRows DEF Core
<1>3. StoreInv'
  BY <1>2, UpdateKeeps DEF Core, Mark
<1>4. ProcParts'
  BY <1>1, Marked DEF Mark
<1>5. OtherTypes'
  BY OtherParts DEF Mark, Core, OtherTypes
<1> QED
  BY <1>3, <1>4, <1>5, SameSession, Together DEF Mark

LEMMA ReadKeeps ==
  ASSUME Core, NEW p \in Procs, Read(p)
  PROVE  Core'
<1>1. ProcParts'
  <2>1. CASE Exists(about[p])
    <3>1. /\ about[p] \in Reports /\ store[about[p]] # NoDetail
          /\ store[about[p]] \in Detail
          /\ store[about[p]].text => store[about[p]].file
      BY <2>1, StoredDetail DEF Exists, Core
    <3>2. ProcTypes'
      BY <2>1, <3>1 DEF Read, Core, ProcInv, ProcTypes, Pcs
    <3>3. ASSUME NEW q \in Procs PROVE Ready(q)'
      BY <2>1, <3>1 DEF Read, Core, ProcInv, ProcTypes, Ready
    <3>4. WorkerInv' /\ OneWorkerPerRecording'
      <4>1. /\ UNCHANGED <<about, egress, processing>>
            /\ \A q \in Procs : pc'[q] = IF q = p THEN "write" ELSE pc[q]
            /\ pc[p] = "read"
        BY <2>1 DEF Read, Core, ProcInv, ProcTypes
      <4>2. ASSUME NEW w \in Workers PROVE Busy(w)'
        BY <3>1, <4>1 DEF Core, WorkerInv, Busy, Procs
      <4>3. OneWorkerPerRecording'
        BY <4>1 DEF Core, OneWorkerPerRecording
      <4> QED
        BY <4>2, <4>3 DEF WorkerInv
    <3> QED
      BY <3>2, <3>3, <3>4 DEF ProcParts, ProcInv
  <2>2. CASE ~Exists(about[p]) /\ step[p] \in Failures
    <3>1. Go(p, "finish", about[p], egress[p], "none")
      BY <2>2 DEF Read
    <3>2. /\ about[p] \in Reports \cup {NoReport} /\ egress[p] \in 0..MaxEgress
          /\ p \in Workers => about[p] \in Reports /\ pc[p] # "idle"
      BY DEF Read, Core, ProcInv, ProcTypes, WorkerInv, Busy
    <3>3. CASE p \in Callers
      BY <3>1, <3>2, <3>3, Places, CallerStep DEF Read
    <3>4. CASE p \in Workers
      BY <3>1, <3>2, <3>4, Places, WorkerStep DEF Read
    <3> QED
      BY <3>3, <3>4 DEF Procs
  <2>3. CASE ~Exists(about[p]) /\ step[p] \notin Failures
    BY <2>3, Proceeding DEF Read
  <2> QED
    BY <2>1, <2>2, <2>3
<1>2. OtherTypes'
  BY OtherParts DEF Read, Core, OtherTypes
<1> QED
  BY <1>1, <1>2, SameStore, SameSession, Together DEF Read

LEMMA WriteKeeps ==
  ASSUME Core, NEW p \in Procs, Write(p)
  PROVE  Core'
<1>1. /\ step[p] \in Edits /\ about[p] \in Reports
      /\ copy[p] \in Detail /\ (copy[p].text => copy[p].file)
  BY DEF Write, Core, ProcInv, ProcTypes, Ready
<1>2. EditedRow(copy[p].row, step[p]) \in Row
  BY <1>1, EditedRows DEF Detail
<1>3. StoreInv'
  <2> DEFINE detail == DetailOf(EditedRow(copy[p].row, step[p]), copy[p].file, copy[p].text)
  <2>1. detail \in Detail /\ (detail.text => detail.file)
    BY <1>1, <1>2 DEF Detail, DetailOf
  <2>2. Put(about[p], detail)
    BY DEF Write
  <2> HIDE DEF detail
  <2> QED
    BY <1>1, <2>1, <2>2, PutKeeps DEF Core
<1>4. ProcParts'
  BY Proceeding DEF Write
<1>5. OtherTypes'
  BY OtherParts DEF Write, Core, OtherTypes
<1> QED
  BY <1>3, <1>4, <1>5, SameSession, Together DEF Write

LEMMA DeleteKeeps ==
  ASSUME Core, NEW r \in Reports, Delete(r)
  PROVE  Core'
<1>1. StoreInv'
  BY DEF Delete, Core, StoreInv, ListMatchesDetail, LatestExists, Exists,
         TranscriptHasRecording, NoDetail, DetailOf
<1>2. OtherTypes'
  BY OtherParts DEF Delete, Core, OtherTypes
<1> QED
  BY <1>1, <1>2, SameSession, SameProcs, Together DEF Delete

----------------------------------------------------------------------------
(* Goroutines that process recordings.                                     *)
LEMMA AlreadyScheduledKeeps ==
  ASSUME Core, NEW c \in Callers, AlreadyScheduled(c)
  PROVE  Core'
<1>1. OtherTypes'
  BY OtherParts DEF AlreadyScheduled, Core, OtherTypes
<1> QED
  BY <1>1, CallerReturns, SameStore, SameSession, Together DEF AlreadyScheduled

(* The recording that is handed over was nobody's.                         *)
LEMMA ScheduleKeeps ==
  ASSUME Core, NEW c \in Callers, NEW w \in Workers, Schedule(c, w)
  PROVE  Core'
<1>1. /\ c \in Procs /\ w \in Procs /\ c # w /\ c \notin Workers
      /\ pc[w] = "idle" /\ pc[c] = "schedule"
  BY ProcsAssumption DEF Procs, Schedule
<1>2. egress[c] \in EgressIds /\ egress[c] # 0 /\ egress[c] \notin processing
  BY <1>1, EgressAssumption DEF Core, ProcInv, ProcTypes, Ready, EgressIds, Schedule
<1>3. /\ \A q \in Procs : pc'[q] = IF q = w THEN "scheduled" ELSE IF q = c THEN "idle" ELSE pc[q]
      /\ \A q \in Procs : egress'[q] = IF q = w THEN egress[c] ELSE IF q = c THEN 0 ELSE egress[q]
      /\ \A q \in Procs : about'[q] = IF q = c THEN NoReport ELSE about[q]
      /\ UNCHANGED <<step, copy>>
  BY <1>1 DEF Schedule, Start, Core, ProcInv, ProcTypes
<1>4. ProcTypes'
  BY <1>1, <1>2, Places DEF Schedule, Start, Core, ProcInv, ProcTypes
<1>5. ASSUME NEW q \in Procs PROVE Ready(q)'
  BY <1>1, <1>2, <1>3 DEF Core, ProcInv, ProcTypes, Ready
<1>6. ASSUME NEW q \in Workers PROVE Busy(q)'
  BY <1>1, <1>2, <1>3 DEF Core, WorkerInv, Busy, Procs
<1>7. OneWorkerPerRecording'
  <2>1. \A q \in Workers : egress'[q] = IF q = w THEN egress[c] ELSE egress[q]
    BY <1>1, <1>3 DEF Procs
  <2>2. egress[w] = 0 /\ \A q \in Workers : egress[q] # egress[c]
    BY <1>1, <1>2 DEF Core, WorkerInv, Busy, OneWorkerPerRecording
  <2>3. processing' = processing \cup {egress[c]}
    BY DEF Schedule, Start
  <2>4. \A w1, w2 \in Workers : egress'[w1] = egress'[w2] /\ egress'[w1] # 0 => w1 = w2
    BY <2>1, <2>2 DEF Core, OneWorkerPerRecording
  <2>5. processing = {egress[q] : q \in Workers} \ {0}
    BY DEF Core, OneWorkerPerRecording
  <2>6. processing' = {egress'[q] : q \in Workers} \ {0}
    BY <1>2, <2>1, <2>2, <2>3, <2>5
  <2> QED
    BY <2>4, <2>6 DEF OneWorkerPerRecording
<1>8. OtherTypes'
  BY <1>2 DEF Schedule, Start, Core, OtherTypes, recorder
<1> QED
  BY <1>4, <1>5, <1>6, <1>7, <1>8, SameStore, SameSession, Together
  DEF Schedule, ProcParts, ProcInv, WorkerInv

LEMMA BeginKeeps ==
  ASSUME Core, NEW w \in Workers, Begin(w)
  PROVE  Core'
<1>1. egress[w] \in EgressIds /\ pc[w] # "idle"
  BY EgressAssumption DEF Begin, Core, ProcInv, ProcTypes, WorkerInv, Busy, Procs, EgressIds
<1>2. PICK r \in Reports :
        \/ Go(w, "adopt", r, egress[w], "none")
        \/ Go(w, "markError", r, egress[w], "recordingError")
  <2>1. latest \in Reports \cup {NoReport} /\ EgressReport(egress[w]) \in Reports
    BY <1>1, Constants DEF Core, StoreInv
  <2> QED
    BY <2>1 DEF Begin
<1>3. ProcParts'
  BY <1>1, <1>2, Places, WorkerStep DEF Begin
<1>4. OtherTypes'
  BY OtherParts DEF Begin, Core, OtherTypes
<1> QED
  BY <1>3, <1>4, SameStore, SameSession, Together DEF Begin

(* A worker changes its place in the code, and perhaps its copy.           *)
LEMMA WorkerMoves ==
  ASSUME Core, NEW w \in Workers, pc[w] \notin {"idle", "scheduled"},
         NEW where \in {"adopted", "resultAlone"}, NEW detail \in Detail \cup {NoDetail},
         detail.text => detail.file,
         pc' = [pc EXCEPT ![w] = where], copy' = [copy EXCEPT ![w] = detail],
         UNCHANGED <<about, egress, step, processing>>
  PROVE  ProcParts'
<1>1. w \in Procs /\ where \in Pcs
  BY Places DEF Procs
<1>2. /\ \A q \in Procs : pc'[q] = IF q = w THEN where ELSE pc[q]
      /\ \A q \in Procs : copy'[q] = IF q = w THEN detail ELSE copy[q]
  BY DEF Core, ProcInv, ProcTypes
<1>3. ProcTypes'
  BY <1>1 DEF Core, ProcInv, ProcTypes
<1>4. ASSUME NEW q \in Procs PROVE Ready(q)'
  BY <1>2 DEF Core, ProcInv, Ready
<1>5. ASSUME NEW q \in Workers PROVE Busy(q)'
  BY <1>1, <1>2 DEF Core, WorkerInv, Busy, Procs
<1>6. OneWorkerPerRecording'
  BY DEF Core, OneWorkerPerRecording
<1> QED
  BY <1>3, <1>4, <1>5, <1>6 DEF ProcParts, ProcInv, WorkerInv

LEMMA AdoptKeeps ==
  ASSUME Core, NEW w \in Workers, Adopt(w)
  PROVE  Core'
<1>1. about[w] \in Reports /\ pc[w] = "adopt"
  BY DEF Adopt, Core, WorkerInv, Busy
<1>2. /\ store[about[w]] \in Detail \cup {NoDetail}
      /\ store[about[w]].text => store[about[w]].file
  BY <1>1 DEF Core, StoreInv, TranscriptHasRecording
<1>3. ProcParts'
  BY <1>1, <1>2, WorkerMoves DEF Adopt
<1>4. OtherTypes'
  BY OtherParts DEF Adopt, Core, OtherTypes
<1> QED
  BY <1>3, <1>4, SameStore, SameSession, Together DEF Adopt

LEMMA CopyIs ==
  ASSUME Core, NEW p \in Procs
  PROVE  /\ copy[p] \in Detail \cup {NoDetail}
         /\ copy[p].row \in Row \cup {NoRow} /\ copy[p].text \in BOOLEAN
         /\ copy[p].text => copy[p].file
<1>1. copy[p] \in Detail \cup {NoDetail} /\ (copy[p].text => copy[p].file)
  BY DEF Core, ProcInv, ProcTypes, Ready
<1>2. \A detail \in Detail : detail.row \in Row /\ detail.text \in BOOLEAN
  BY DEF Detail
<1>3. NoDetail.row = NoRow /\ NoDetail.text \in BOOLEAN
  BY DEF NoDetail, DetailOf
<1> QED
  BY <1>1, <1>2, <1>3

LEMMA StoreAdoptedKeeps ==
  ASSUME Core, NEW w \in Workers, StoreAdopted(w)
  PROVE  Core'
<1>1. w \in Procs /\ about[w] \in Reports /\ pc[w] = "adopted"
  BY DEF StoreAdopted, Core, WorkerInv, Busy, Procs
<1>2. StoreInv'
  <2> DEFINE detail == DetailOf(PipelineRow(copy[w].row, "processing"), TRUE, copy[w].text)
  <2>1. detail \in Detail /\ (detail.text => detail.file)
    BY <1>1, CopyIs, PipelineRows DEF Detail, DetailOf
  <2>2. Put(about[w], detail)
    BY DEF StoreAdopted
  <2> HIDE DEF detail
  <2> QED
    BY <1>1, <2>1, <2>2, PutKeeps DEF Core
<1>3. ProcParts'
  <2>1. CASE \E next \in {"verify", "downloadFailed"} : Go(w, "read", about[w], egress[w], next)
    <3>1. PICK next \in {"verify", "downloadFailed"} : Go(w, "read", about[w], egress[w], next)
      BY <2>1
    <3> QED
      BY <1>1, <3>1, Places, WorkerStep DEF StoreAdopted
  <2>2. CASE pc' = [pc EXCEPT ![w] = "resultAlone"] /\ UNCHANGED <<about, egress, step, copy>>
    <3>1. copy' = [copy EXCEPT ![w] = copy[w]]
      BY <2>2 DEF Core, ProcInv, ProcTypes
    <3> QED
      BY <1>1, <2>2, <3>1, CopyIs, WorkerMoves DEF StoreAdopted
  <2> QED
    BY <2>1, <2>2 DEF StoreAdopted
<1>4. OtherTypes'
  BY OtherParts DEF StoreAdopted, Core, OtherTypes
<1> QED
  BY <1>2, <1>3, <1>4, SameSession, Together DEF StoreAdopted

LEMMA StoreResultKeeps ==
  ASSUME Core, NEW w \in Workers, StoreResult(w)
  PROVE  Core'
<1>1. /\ w \in Procs /\ about[w] \in Reports /\ pc[w] # "idle"
  BY DEF StoreResult, Core, WorkerInv, Busy, Procs
<1>2. Result(w) \in Detail /\ (Result(w).text => Result(w).file)
  BY <1>1, CopyIs
  DEF Result, Detail, DetailOf, Row, RowOf, Stages, Recordings, Transcriptions
<1>3. StoreInv'
  BY <1>1, <1>2, PutKeeps DEF StoreResult, Core
<1>4. ProcParts'
  BY <1>1, Places, WorkerStep DEF StoreResult
<1>5. OtherTypes'
  BY OtherParts DEF StoreResult, Core, OtherTypes
<1> QED
  BY <1>3, <1>4, <1>5, SameSession, Together DEF StoreResult

(* The recording of a worker that ends was no other's.                     *)
LEMMA FinishKeeps ==
  ASSUME Core, NEW w \in Workers, Finish(w)
  PROVE  Core'
<1>1. /\ w \in Procs /\ about[w] \in Reports
      /\ egress[w] # 0 /\ pc[w] \notin {"idle", "scheduled"}
  BY DEF Finish, Core, WorkerInv, Busy, Procs
<1>2. /\ \A q \in Procs : pc'[q] = IF q = w THEN "idle" ELSE pc[q]
      /\ \A q \in Procs : egress'[q] = IF q = w THEN 0 ELSE egress[q]
      /\ \A q \in Procs : q # w => about'[q] = about[q]
      /\ processing' = processing \ {egress[w]}
  BY DEF Finish, Return, Go, Core, ProcInv, ProcTypes
<1>3. ProcInv'
  BY <1>1, ReturnKeeps DEF Core, Finish
<1>4. ASSUME NEW q \in Workers PROVE Busy(q)'
  BY <1>1, <1>2 DEF Core, WorkerInv, Busy, Procs
<1>5. OneWorkerPerRecording'
  <2>1. \A q \in Workers : egress'[q] = IF q = w THEN 0 ELSE egress[q]
    BY <1>2 DEF Procs
  <2>2. \A w1, w2 \in Workers : egress[w1] = egress[w2] /\ egress[w1] # 0 => w1 = w2
    BY DEF Core, OneWorkerPerRecording
  <2>3. processing = {egress[q] : q \in Workers} \ {0}
    BY DEF Core, OneWorkerPerRecording
  <2>4. processing' = {egress'[q] : q \in Workers} \ {0}
    BY <1>1, <1>2, <2>1, <2>2, <2>3
  <2> QED
    BY <2>1, <2>2, <2>4 DEF OneWorkerPerRecording
<1>6. OtherTypes'
  BY <1>1, <1>2 DEF Finish, Core, OtherTypes, recorder
<1> QED
  BY <1>3, <1>4, <1>5, <1>6, SameStore, SameSession, Together
  DEF Finish, ProcParts, WorkerInv

----------------------------------------------------------------------------
(* What is loaded has its type, and is there if it was.                    *)
LEMMA RepairedIs ==
  ASSUME NEW detail \in Detail \cup {NoDetail}, detail.text => detail.file
  PROVE  /\ Repaired(detail) \in Detail \cup {NoDetail}
         /\ Repaired(detail).text => Repaired(detail).file
         /\ detail \in Detail => Repaired(detail) \in Detail
BY DEF Repaired, Detail, NoDetail, NoRow, DetailOf, Row, RowOf, Stages, Recordings, Transcriptions

LEMMA RestartKeeps ==
  ASSUME Core, Restart
  PROVE  Core'
<1>1. \A r \in Reports : store[r] \in Detail \cup {NoDetail}
                           /\ (store[r].text => store[r].file)
  BY DEF Core, StoreInv, TranscriptHasRecording
<1>2. \A r \in Reports : store'[r] = Repaired(store[r]) /\ rows'[r] = Repaired(store[r]).row
  BY DEF Restart
<1>3. StoreInv'
  <2>1. store' \in [Reports -> Detail \cup {NoDetail}]
    BY <1>1, RepairedIs DEF Restart
  <2>2. rows' \in [Reports -> Row \cup {NoRow}]
    <3>1. \A detail \in Detail \cup {NoDetail} : detail.row \in Row \cup {NoRow}
      BY DEF Detail, NoDetail, DetailOf
    <3> QED
      BY <1>1, <3>1, RepairedIs DEF Restart
  <2>3. latest' \in Reports \cup {NoReport} /\ LatestExists'
    <3>1. latest' = NoReport \/ (latest' \in Reports /\ store[latest'] # NoDetail)
      BY DEF Restart, Exists
    <3>2. ASSUME latest' \in Reports, store[latest'] # NoDetail PROVE store'[latest'] # NoDetail
      BY <1>1, <1>2, <3>2, RepairedIs, Constants
    <3> QED
      BY <3>1, <3>2 DEF LatestExists, Exists
  <2>4. ListMatchesDetail' /\ TranscriptHasRecording'
    BY <1>1, <1>2, RepairedIs DEF ListMatchesDetail, TranscriptHasRecording
  <2> QED
    BY <2>1, <2>2, <2>3, <2>4 DEF StoreInv
<1>4. SessionInv'
  BY DEF Restart, Core, SessionInv, SessionHasPeople
<1>5. ProcInv'
  BY Places DEF Restart, ProcInv, ProcTypes, Ready, NoDetail, DetailOf
<1>6. WorkerInv' /\ OneWorkerPerRecording'
  BY DEF Restart, WorkerInv, Busy, OneWorkerPerRecording, Procs
<1>7. OtherTypes'
  BY DEF Restart, Core, OtherTypes, recorder
<1> QED
  BY <1>3, <1>4, <1>5, <1>6, <1>7, Together DEF ProcParts

----------------------------------------------------------------------------
LEMMA InitInv == Init => IInv
<1> SUFFICES ASSUME Init PROVE IInv
  OBVIOUS
<1> USE DEF Init
<1>1. StoreInv
  BY DEF StoreInv, ListMatchesDetail, LatestExists, TranscriptHasRecording, NoDetail, DetailOf
<1>2. SessionInv
  BY ReportsAssumption DEF SessionInv, SessionHasPeople
<1>3. ProcInv
  BY Places DEF ProcInv, ProcTypes, Ready, NoDetail, DetailOf
<1>4. WorkerInv /\ OneWorkerPerRecording
  BY DEF WorkerInv, Busy, OneWorkerPerRecording, Procs
<1>5. OtherTypes /\ requests \in 0..MaxRequests
  BY EgressAssumption, RequestsAssumption DEF OtherTypes
<1> QED
  BY <1>1, <1>2, <1>3, <1>4, <1>5 DEF IInv, Core

LEMMA RequestKeeps ==
  ASSUME Core, NEW c \in Callers, Request(c)
  PROVE  Core'
<1>1. ASSUME NEW u \in Users, Join(c, u) \/ Leave(c, u) PROVE Core'
  BY <1>1, JoinKeeps, LeaveKeeps
<1>2. CASE StartRequest(c) \/ StopRequest(c)
  <2>1. RoomReport \in Reports \cup {NoReport}
    BY DEF RoomReport, Core, StoreInv, OtherTypes
  <2> QED
    BY <1>2, <2>1, Sent DEF StartRequest, StopRequest
<1>3. ASSUME NEW e \in EgressIds, Webhook(c, e) PROVE Core'
  BY <1>3, Sent DEF Webhook
<1>4. ASSUME NEW r \in Reports, Touch(c, r) PROVE Core'
  BY <1>4, Sent DEF Touch
<1>5. ASSUME NEW r \in Reports, Delete(r) PROVE Core'
  BY <1>5, DeleteKeeps
<1> QED
  BY <1>1, <1>2, <1>3, <1>4, <1>5 DEF Request

LEMMA NextKeeps ==
  ASSUME IInv, Next
  PROVE  IInv'
<1>0. Core /\ requests \in 0..MaxRequests
  BY DEF IInv
<1>1. ASSUME NEW c \in Callers, requests < MaxRequests, Request(c), requests' = requests + 1
      PROVE  IInv'
  BY <1>0, <1>1, RequestKeeps, RequestsAssumption DEF IInv
<1>2. ASSUME NEW c \in Callers, Answer(c) PROVE IInv'
  BY <1>0, <1>2, JoinRememberedKeeps, FindKeeps, Answered DEF Answer, IInv
<1>3. ASSUME NEW c \in Callers, Processing(c) PROVE IInv'
  BY <1>0, <1>3, AlreadyScheduledKeeps, ScheduleKeeps DEF Processing, IInv
<1>4. ASSUME NEW p \in Procs, Edit(p) PROVE IInv'
  BY <1>0, <1>4, MarkKeeps, ReadKeeps, WriteKeeps DEF Edit, IInv
<1>5. ASSUME NEW w \in Workers, Work(w) PROVE IInv'
  BY <1>0, <1>5, BeginKeeps, AdoptKeeps, StoreAdoptedKeeps, StoreResultKeeps, FinishKeeps
  DEF Work, IInv
<1>6. ASSUME UNCHANGED requests, NEW e \in EgressIds, EgressEnds(e) PROVE IInv'
  BY <1>0, <1>6, EgressEndsKeeps DEF IInv
<1>7. ASSUME UNCHANGED requests, Restart PROVE IInv'
  BY <1>0, <1>7, RestartKeeps DEF IInv
<1> QED
  BY <1>1, <1>2, <1>3, <1>4, <1>5, <1>6, <1>7 DEF Next

LEMMA StutterKeeps ==
  ASSUME IInv, UNCHANGED vars
  PROVE  IInv'
<1> USE DEF IInv, vars, recorder
<1>1. StoreInv' /\ SessionInv' /\ ProcParts'
  BY SameStore, SameSession, SameProcs
<1>2. OtherTypes'
  BY OtherParts DEF Core, OtherTypes
<1> QED
  BY <1>1, <1>2, Together

THEOREM Inductive == Spec => []IInv
<1>1. IInv /\ [Next]_vars => IInv'
  BY NextKeeps, StutterKeeps
<1> QED
  BY <1>1, InitInv, PTL DEF Spec

----------------------------------------------------------------------------
(* Every report, copy and status is one the code knows, and every          *)
(* goroutine is about something it may be about.                           *)
THEOREM TypeCorrect == Spec => []TypeOK
<1>1. IInv => TypeOK
  BY DEF IInv, Core, StoreInv, SessionInv, ProcInv, ProcTypes, OtherTypes, TypeOK
<1> QED
  BY <1>1, Inductive, PTL

(* The list and the details never come apart, however many goroutines      *)
(* write copies of a report back, and a room never names a report that was *)
(* deleted as its latest.                                                  *)
THEOREM StoresMatch == Spec => []StoresAgree
<1>1. IInv => StoresAgree
  BY DEF IInv, Core, StoreInv, StoresAgree
<1> QED
  BY <1>1, Inductive, PTL

(* A session lasts exactly as long as someone is in it.                    *)
THEOREM SessionsHavePeople == Spec => []SessionHasPeople
<1>1. IInv => SessionHasPeople
  BY DEF IInv, Core, SessionInv
<1> QED
  BY <1>1, Inductive, PTL

(* No stale copy separates a transcript from its recording.                *)
THEOREM TranscriptsHaveRecordings == Spec => []TranscriptHasRecording
<1>1. IInv => TranscriptHasRecording
  BY DEF IInv, Core, StoreInv
<1> QED
  BY <1>1, Inductive, PTL

(* No recording is processed by two goroutines at once, and none is marked *)
(* as being processed by nobody.                                           *)
THEOREM OneWorkerEach == Spec => []OneWorkerPerRecording
<1>1. IInv => OneWorkerPerRecording
  BY DEF IInv, Core
<1> QED
  BY <1>1, Inductive, PTL

----------------------------------------------------------------------------
(* How far each goroutine is from its end.  That a mark and a join are     *)
(* followed by an edit of no recording's processing, or by none, is what   *)
(* the count of their steps rests on.                                      *)
MarkEdits == {"none", "started", "stopping", "recordingError"}
Fits(place, edit) ==
  /\ place \in DOMAIN Marks => edit \in MarkEdits
  /\ place = "remember" => edit = "touch"
EditsFit == \A p \in Procs : Fits(pc[p], step[p])

Alone(p) ==
  /\ pc'[p] = pc[p] /\ about'[p] = about[p] /\ egress'[p] = egress[p]
  /\ step'[p] = step[p] /\ copy'[p] = copy[p]
Distance(p) == StepsLeft(pc[p], about[p], step[p])
Forward == EditsFit' /\ \A p \in Procs : pc[p] # "idle" => Alone(p) \/ Distance(p)' < Distance(p)

LEMMA EditsLeftOf == \A edit : EditsLeft(edit) \in 0..8
BY DEF EditsLeft

LEMMA MarkEditsLeft == \A edit \in MarkEdits : EditsLeft(edit) = 0 /\ edit # "leave"
BY DEF MarkEdits, EditsLeft

(* The edits of a recording's processing follow each other in one order.   *)
LEMMA FollowersAreFewer ==
  ASSUME NEW edit \in DOMAIN Following, NEW next \in Following[edit]
  PROVE  EditsLeft(next) < EditsLeft(edit)
<1>1. DOMAIN Following = {"verify", "verified", "transcribe", "tracks", "transcribed", "diarize",
                          "analyse"}
  BY DEF Following
<1>2. /\ Following["verify"] = {"verified", "downloadFailed"}
      /\ Following["verified"] = {"transcribe"}
      /\ Following["transcribe"] = {"tracks", "transcribed", "sttFailed"}
      /\ Following["tracks"] = {"transcribed", "sttFailed"}
      /\ Following["transcribed"] = {"diarize"}
      /\ Following["diarize"] = {"analyse"}
      /\ Following["analyse"] = {"analysed"}
  BY DEF Following
<1> QED
  BY <1>1, <1>2 DEF EditsLeft

LEMMA StepsLeftOf ==
  ASSUME NEW r, NEW edit
  PROVE  /\ StepsLeft("idle", r, edit) = 0
         /\ StepsLeft("schedule", r, edit) = 1 /\ StepsLeft("finish", r, edit) = 1
         /\ StepsLeft("publish", r, edit) = 2
         /\ StepsLeft("result", r, edit) = 3 /\ StepsLeft("resultAlone", r, edit) = 3
         /\ StepsLeft("write", r, edit) = 4 + 2 * EditsLeft(edit)
         /\ StepsLeft("read", r, edit) = 5 + 2 * EditsLeft(edit)
         /\ \A mark \in DOMAIN Marks :
              StepsLeft(mark, r, edit) = (IF r # NoReport THEN 6 ELSE 7)
         /\ \A mark \in {"markRecording", "markProcessing", "markError"} :
              StepsLeft(mark, r, edit) \in {6, 7}
         /\ \A place \in {"starting", "stopping", "leaving", "remember"} :
              StepsLeft(place, r, edit) = 8
         /\ StepsLeft("adopted", r, edit) = 22 /\ StepsLeft("adopt", r, edit) = 23
         /\ StepsLeft("scheduled", r, edit) = 24
<1>1. DOMAIN Marks = {"markRecording", "markProcessing", "markError"}
  BY DEF Marks
<1> QED
  BY <1>1 DEF StepsLeft, NoReport

(* One goroutine moves; the others are where they were.                    *)
LEMMA Moving ==
  ASSUME ProcTypes, EditsFit, NEW p \in Procs, NEW where,
         pc' = [pc EXCEPT ![p] = where],
         \A q \in Procs \ {p} : /\ about'[q] = about[q] /\ egress'[q] = egress[q]
                                /\ step'[q] = step[q] /\ copy'[q] = copy[q],
         Fits(where, step'[p]),
         pc[p] = "idle" \/ StepsLeft(where, about'[p], step'[p]) < Distance(p)
  PROVE  Forward
<1>1. pc'[p] = where /\ \A q \in Procs \ {p} : pc'[q] = pc[q]
  BY DEF ProcTypes
<1>2. \A q \in Procs \ {p} : Alone(q)
  BY <1>1 DEF Alone
<1>3. pc[p] = "idle" \/ Distance(p)' < Distance(p)
  BY <1>1 DEF Distance
<1>4. EditsFit'
  BY <1>1 DEF EditsFit
<1> QED
  BY <1>2, <1>3, <1>4 DEF Forward

LEMMA Going ==
  ASSUME ProcTypes, EditsFit, NEW p \in Procs, NEW where, NEW r, NEW e, NEW edit,
         Go(p, where, r, e, edit),
         Fits(where, edit),
         pc[p] = "idle" \/ StepsLeft(where, r, edit) < Distance(p)
  PROVE  Forward
<1>1. about'[p] = r /\ step'[p] = edit
  BY DEF Go, ProcTypes
<1> QED
  BY <1>1, Moving DEF Go, ProcTypes

LEMMA Standing ==
  ASSUME EditsFit, UNCHANGED procs
  PROVE  Forward
BY DEF procs, EditsFit, Forward, Alone

(* What follows an edit or a mark is nearer to the end than they are.      *)
LEMMA ProceedsForward ==
  ASSUME ProcTypes, EditsFit, NEW p \in Procs, Proceed(p),
         Distance(p) \in Nat, Distance(p) >= 4 + 2 * EditsLeft(step[p])
  PROVE  Forward
<1> DEFINE left == EditsLeft(step[p])
<1>1. left \in 0..8 /\ \A where \in {"schedule", "leaving", "idle", "read", "result", "publish",
                                     "finish"} : \A edit : Fits(where, edit)
  BY EditsLeftOf DEF Marks, Fits
<1>2. CASE p \in Callers
  <2>1. Distance(p) > 1
    BY <1>1
  <2>2. step[p] = "leave" => Distance(p) > 8
    BY DEF EditsLeft
  <2>3. CASE Go(p, "schedule", about[p], egress[p], "none")
    BY <1>1, <2>1, <2>3, Going, StepsLeftOf
  <2>4. CASE step[p] = "leave" /\ Go(p, "leaving", about[p], 0, "none")
    BY <1>1, <2>2, <2>4, Going, StepsLeftOf
  <2>5. CASE Return(p)
    BY <1>1, <2>1, <2>5, Going, StepsLeftOf DEF Return
  <2> QED
    BY <1>2, <2>3, <2>4, <2>5 DEF Proceed
<1>3. CASE p \notin Callers
  <2>1. CASE step[p] \in DOMAIN Following
    <3>1. PICK next \in Following[step[p]] : Go(p, "read", about[p], egress[p], next)
      BY <1>3, <2>1 DEF Proceed
    <3>2. EditsLeft(next) < left /\ EditsLeft(next) \in 0..8
      BY <2>1, FollowersAreFewer, EditsLeftOf
    <3>3. 5 + 2 * EditsLeft(next) < Distance(p)
      BY <1>1, <3>2
    <3> QED
      BY <1>1, <3>1, <3>3, Going, StepsLeftOf
  <2>2. CASE step[p] \notin DOMAIN Following
    <3>1. PICK where \in {"result", "publish", "finish"} :
            Go(p, where, about[p], egress[p], "none")
      <4> DEFINE place == CASE step[p] = "analysed" -> "result"
                            [] step[p] \in Failures -> "publish"
                            [] OTHER -> "finish"
      <4>1. place \in {"result", "publish", "finish"}
        BY DEF Failures
      <4>2. Go(p, place, about[p], egress[p], "none")
        BY <1>3, <2>2 DEF Proceed
      <4> QED
        BY <4>1, <4>2
    <3>2. StepsLeft(where, about[p], "none") <= 3
      BY <3>1, StepsLeftOf
    <3>3. StepsLeft(where, about[p], "none") < Distance(p)
      <4>1. StepsLeft(where, about[p], "none") \in Int
        BY StepsLeftOf
      <4> QED
        BY <1>1, <3>2, <4>1
    <3> QED
      BY <1>1, <3>1, <3>3, Going
  <2> QED
    BY <2>1, <2>2
<1> QED
  BY <1>2, <1>3

----------------------------------------------------------------------------
LEMMA MostFit ==
  /\ \A place \in {"idle", "starting", "stopping", "leaving", "read", "write", "schedule",
                  "scheduled", "adopt", "adopted", "result", "resultAlone", "publish", "finish"} :
       \A edit : Fits(place, edit)
  /\ Fits("remember", "touch")
  /\ \A place \in {"markRecording", "markProcessing", "markError"},
        edit \in {"none", "started", "stopping", "recordingError"} : Fits(place, edit)
BY DEF Fits, Marks, MarkEdits

(* Requests begin, and their answers are marked.                           *)
LEMMA AnswerForward ==
  ASSUME ProcTypes, EditsFit, NEW c \in Callers, Request(c) \/ Answer(c)
  PROVE  Forward
<1> USE MostFit, StepsLeftOf
<1>1. c \in Procs
  BY DEF Procs
<1>2. ASSUME pc[c] = "idle", NEW where, NEW r, NEW e, NEW edit, Go(c, where, r, e, edit),
             Fits(where, edit)
      PROVE  Forward
  BY <1>1, <1>2, Going
<1>3. CASE Request(c)
  <2>1. ASSUME NEW u \in Users, Join(c, u) PROVE Forward
    BY <1>2, <2>1, Standing DEF Join
  <2>2. ASSUME NEW u \in Users, Leave(c, u) PROVE Forward
    BY <1>2, <2>2, Standing DEF Leave
  <2>3. CASE StartRequest(c) \/ StopRequest(c)
    BY <1>2, <2>3 DEF StartRequest, StopRequest
  <2>4. ASSUME NEW e \in EgressIds, Webhook(c, e) PROVE Forward
    BY <1>2, <2>4 DEF Webhook
  <2>5. ASSUME NEW r \in Reports, Touch(c, r) PROVE Forward
    BY <1>2, <2>5 DEF Touch
  <2>6. ASSUME NEW r \in Reports, Delete(r) PROVE Forward
    BY <2>6, Standing DEF Delete
  <2> QED
    BY <1>3, <2>1, <2>2, <2>3, <2>4, <2>5, <2>6 DEF Request
<1>4. CASE JoinRemembered(c)
  <2>1. Distance(c) = 8 /\ step[c] = "touch"
    BY <1>1, <1>4 DEF JoinRemembered, Distance, EditsFit, Fits
  <2>2. EditsLeft("touch") = 0
    BY DEF EditsLeft
  <2>3. step'[c] = "touch" /\ StepsLeft("read", about'[c], step'[c]) < Distance(c)
    BY <1>4, <2>1, <2>2 DEF JoinRemembered
  <2> QED
    BY <1>1, <1>4, <2>1, <2>3, Moving DEF JoinRemembered
<1>5. ASSUME pc[c] \in {"starting", "stopping", "leaving"},
             NEW where \in {"markRecording", "markProcessing", "markError"}, NEW r, NEW e,
             NEW edit \in {"none", "started", "stopping", "recordingError"},
             Go(c, where, r, e, edit)
      PROVE  Forward
  <2>1. Distance(c) = 8
    BY <1>5 DEF Distance
  <2>2. StepsLeft(where, r, edit) \in {6, 7} /\ Fits(where, edit)
    OBVIOUS
  <2>3. StepsLeft(where, r, edit) < Distance(c)
    BY <2>1, <2>2
  <2> QED
    BY <1>1, <1>5, <2>2, <2>3, Going
<1>6. CASE StartAnswered(c) \/ StopAnswered(c)
  BY <1>5, <1>6 DEF StartAnswered, StopAnswered
<1>7. CASE LeaveAnswered(c)
  <2>1. CASE Return(c)
    <3>1. Distance(c) = 8
      BY <1>7 DEF LeaveAnswered, Distance
    <3> QED
      BY <1>1, <2>1, <3>1, Going DEF Return
  <2> QED
    BY <1>5, <1>7, <2>1 DEF LeaveAnswered
<1>8. CASE Find(c)
  <2>1. Distance(c) = 7 /\ step[c] \in MarkEdits
    BY <1>1, <1>8 DEF Find, Distance, EditsFit, Fits
  <2>2. CASE Proceed(c)
    BY <1>1, <2>1, <2>2, ProceedsForward, MarkEditsLeft
  <2>3. CASE latest # NoReport /\ Go(c, pc[c], latest, egress[c], "none")
    <3>1. StepsLeft(pc[c], latest, "none") = 6
      BY <1>8, <2>3 DEF Find
    <3>2. Fits(pc[c], "none")
      BY <1>8 DEF Find, Fits, MarkEdits, Marks
    <3> QED
      BY <1>1, <2>1, <2>3, <3>1, <3>2, Going
  <2> QED
    BY <1>8, <2>2, <2>3 DEF Find
<1> QED
  BY <1>3, <1>4, <1>6, <1>7, <1>8 DEF Answer

(* The edits.                                                              *)
LEMMA EditForward ==
  ASSUME ProcTypes, EditsFit, NEW p \in Procs, Edit(p)
  PROVE  Forward
<1> USE MostFit, StepsLeftOf
<1>1. EditsLeft(step[p]) \in 0..8
  BY EditsLeftOf
<1>2. CASE Mark(p)
  <2>1. Distance(p) = 6 /\ step[p] \in MarkEdits
    BY <1>2 DEF Mark, Distance, EditsFit, Fits
  <2>2. CASE Proceed(p)
    BY <2>1, <2>2, ProceedsForward, MarkEditsLeft
  <2>3. CASE Go(p, "read", about[p], egress[p], step[p])
    <3>1. StepsLeft("read", about[p], step[p]) = 5
      BY <2>1, MarkEditsLeft
    <3> QED
      BY <2>1, <2>3, <3>1, Going
  <2> QED
    BY <1>2, <2>2, <2>3 DEF Mark, AfterMark
<1>3. CASE Read(p)
  <2>1. Distance(p) = 5 + 2 * EditsLeft(step[p])
    BY <1>3 DEF Read, Distance
  <2>2. CASE pc' = [pc EXCEPT ![p] = "write"]
    <3>1. StepsLeft("write", about[p], step[p]) < Distance(p)
      BY <1>1, <2>1
    <3>2. about' = about /\ egress' = egress /\ step' = step
          /\ \A q \in Procs \ {p} : copy'[q] = copy[q]
      BY <1>3, <2>2 DEF Read, Go, Proceed, Return, ProcTypes
    <3> QED
      BY <2>2, <3>1, <3>2, Moving
  <2>3. CASE Go(p, "finish", about[p], egress[p], "none")
    BY <1>1, <2>1, <2>3, Going
  <2>4. CASE Proceed(p)
    BY <1>1, <2>1, <2>4, ProceedsForward
  <2> QED
    BY <1>3, <2>2, <2>3, <2>4 DEF Read
<1>4. CASE Write(p)
  <2>1. Distance(p) = 4 + 2 * EditsLeft(step[p])
    BY <1>4 DEF Write, Distance
  <2> QED
    BY <1>1, <1>4, <2>1, ProceedsForward DEF Write
<1> QED
  BY <1>2, <1>3, <1>4 DEF Edit

(* A recording is handed to a worker.                                      *)
LEMMA ProcessingForward ==
  ASSUME ProcTypes, EditsFit, NEW c \in Callers, Processing(c)
  PROVE  Forward
<1> USE MostFit, StepsLeftOf
<1>1. c \in Procs
  BY DEF Procs
<1>2. CASE AlreadyScheduled(c)
  <2>1. Distance(c) = 1
    BY <1>2 DEF AlreadyScheduled, Distance
  <2> QED
    BY <1>1, <1>2, <2>1, Going DEF AlreadyScheduled, Return
<1>3. ASSUME NEW w \in Workers, Schedule(c, w) PROVE Forward
  <2>1. w \in Procs /\ w # c /\ pc[w] = "idle" /\ pc[c] = "schedule"
    BY <1>3 DEF Schedule, Procs
  <2>2. /\ pc'[c] = "idle" /\ pc'[w] = "scheduled"
        /\ \A q \in Procs \ {c, w} : Alone(q)
    BY <1>1, <1>3, <2>1 DEF Schedule, Start, ProcTypes, Alone
  <2>3. Distance(c)' < Distance(c)
    BY <2>1, <2>2 DEF Distance
  <2>4. EditsFit'
    BY <2>1, <2>2 DEF EditsFit, Alone
  <2> QED
    BY <2>1, <2>2, <2>3, <2>4 DEF Forward
<1> QED
  BY <1>2, <1>3 DEF Processing

(* The work on a recording.                                                *)
LEMMA WorkForward ==
  ASSUME ProcTypes, EditsFit, WorkerInv, NEW w \in Workers, Work(w)
  PROVE  Forward
<1> USE MostFit, StepsLeftOf
<1>1. w \in Procs
  BY DEF Procs
<1>2. CASE Begin(w)
  <2>1. Distance(w) = 24
    BY <1>2 DEF Begin, Distance
  <2>2. PICK r : \/ Go(w, "adopt", r, egress[w], "none")
                 \/ Go(w, "markError", r, egress[w], "recordingError")
    BY <1>2 DEF Begin
  <2>3. StepsLeft("markError", r, "recordingError") < Distance(w)
    <3>1. StepsLeft("markError", r, "recordingError") \in {6, 7}
      OBVIOUS
    <3> QED
      BY <2>1, <3>1
  <2>4. CASE Go(w, "adopt", r, egress[w], "none")
    BY <1>1, <2>1, <2>4, Going
  <2>5. CASE Go(w, "markError", r, egress[w], "recordingError")
    BY <1>1, <2>3, <2>5, Going
  <2> QED
    BY <2>2, <2>4, <2>5
<1>3. CASE Adopt(w)
  <2>1. Distance(w) = 23
    BY <1>3 DEF Adopt, Distance
  <2>2. pc' = [pc EXCEPT ![w] = "adopted"] /\ StepsLeft("adopted", about'[w], step'[w]) < Distance(w)
    BY <1>3, <2>1 DEF Adopt
  <2>3. \A q \in Procs \ {w} : /\ about'[q] = about[q] /\ egress'[q] = egress[q]
                                /\ step'[q] = step[q] /\ copy'[q] = copy[q]
    BY <1>3 DEF Adopt, ProcTypes
  <2> QED
    BY <1>1, <2>2, <2>3, Moving
<1>4. CASE StoreAdopted(w)
  <2>1. Distance(w) = 22
    BY <1>4 DEF StoreAdopted, Distance
  <2>2. ASSUME NEW next \in {"verify", "downloadFailed"}, Go(w, "read", about[w], egress[w], next)
        PROVE  Forward
    <3>1. EditsLeft(next) \in {0, 8}
      BY DEF EditsLeft
    <3> QED
      BY <1>1, <2>1, <2>2, <3>1, Going
  <2>3. CASE pc' = [pc EXCEPT ![w] = "resultAlone"] /\ UNCHANGED <<about, egress, step, copy>>
    <3>1. StepsLeft("resultAlone", about'[w], step'[w]) < Distance(w)
      BY <2>1
    <3> QED
      BY <1>1, <2>3, <3>1, Moving
  <2> QED
    BY <1>4, <2>2, <2>3 DEF StoreAdopted
<1>5. CASE StoreResult(w)
  <2>1. Distance(w) = 3
    BY <1>5 DEF StoreResult, Distance
  <2> QED
    BY <1>1, <1>5, <2>1, Going DEF StoreResult
<1>6. CASE Finish(w)
  <2>1. Distance(w) \in {1, 2}
    BY <1>6 DEF Finish, Distance
  <2> QED
    BY <1>1, <1>6, <2>1, Going DEF Finish, Return
<1> QED
  BY <1>2, <1>3, <1>4, <1>5, <1>6 DEF Work

LEMMA StepForward ==
  ASSUME IInv, EditsFit, [Next]_vars
  PROVE  Forward
<1>1. ProcTypes /\ WorkerInv
  BY DEF IInv, Core, ProcInv
<1>2. CASE Restart
  <2>1. \A p \in Procs : pc[p] # "idle" => Distance(p) > 0 /\ Distance(p)' = 0
    <3>1. ASSUME NEW p \in Procs, pc[p] # "idle" PROVE Distance(p) > 0
      <4>1. pc[p] \in Pcs /\ EditsLeft(step[p]) \in 0..8
        BY <1>1, EditsLeftOf DEF ProcTypes
      <4>2. CASE pc[p] \in DOMAIN Marks
        <5>1. pc[p] \in {"markRecording", "markProcessing", "markError"}
          BY <4>2 DEF Marks
        <5>2. Distance(p) \in {6, 7}
          BY <5>1, StepsLeftOf DEF Distance
        <5> QED
          BY <5>2
      <4>3. CASE pc[p] \notin DOMAIN Marks
        BY <3>1, <4>1, <4>3, StepsLeftOf DEF Pcs, Distance
      <4> QED
        BY <4>2, <4>3
    <3>2. \A p \in Procs : Distance(p)' = 0
      BY <1>2, StepsLeftOf DEF Restart, Distance
    <3> QED
      BY <3>1, <3>2
  <2>2. EditsFit'
    BY <1>2, MostFit DEF Restart, EditsFit
  <2> QED
    BY <2>1, <2>2 DEF Forward
<1>3. CASE (\E e \in EgressIds : EgressEnds(e)) \/ UNCHANGED vars
  BY <1>3, Standing DEF EgressEnds, vars
<1> QED
  BY <1>1, <1>2, <1>3, AnswerForward, EditForward, ProcessingForward, WorkForward DEF Next

(* Reports are deleted, services fail, events repeat: no goroutine goes in *)
(* a circle, and none has more than 24 steps to its end.                   *)
THEOREM GoroutinesGoForward == Spec => GoroutinesAdvance
<1>1. Init => EditsFit
  BY MostFit DEF Init, EditsFit
<1>2. IInv /\ EditsFit /\ [Next]_vars => EditsFit'
  BY StepForward DEF Forward
<1>3. IInv /\ EditsFit /\ [Next]_vars =>
        [\A p \in Procs : pc[p] # "idle" =>
           \/ /\ pc'[p] = pc[p] /\ about'[p] = about[p] /\ egress'[p] = egress[p]
              /\ step'[p] = step[p] /\ copy'[p] = copy[p]
           \/ StepsLeft(pc'[p], about'[p], step'[p]) < StepsLeft(pc[p], about[p], step[p])]_vars
  BY StepForward DEF Forward, Alone, Distance
<1> QED
  BY <1>1, <1>2, <1>3, Inductive, PTL DEF Spec, GoroutinesAdvance

----------------------------------------------------------------------------
(* A report that has been deleted: nobody newly begins to work on it, and  *)
(* only those at work on it store it.                                      *)
Gone(r) == r \in Meetings /\ r <= created /\ ~Exists(r)
NoNewWork(r) == AtWorkOn(r)' \subseteq AtWorkOn(r)
Working(p, where) == where = "write" \/ (p \in Workers /\ where \notin {"publish", "finish"})

LEMMA WorkingMoves ==
  ASSUME ProcTypes, NEW r \in Meetings, NEW p \in Procs, NEW where, NEW report,
         pc' = [pc EXCEPT ![p] = where], about' = [about EXCEPT ![p] = report],
         report = r /\ Working(p, where) => about[p] = r /\ Working(p, pc[p])
  PROVE  NoNewWork(r)
BY DEF ProcTypes, NoNewWork, AtWorkOn, Working

LEMMA WorkingGoes ==
  ASSUME ProcTypes, NEW r \in Meetings, NEW p \in Procs, NEW where, NEW report, NEW e, NEW edit,
         Go(p, where, report, e, edit),
         report = r /\ Working(p, where) => about[p] = r /\ Working(p, pc[p])
  PROVE  NoNewWork(r)
BY WorkingMoves DEF Go

LEMMA CallerWorks ==
  ASSUME ProcTypes, NEW r \in Meetings, NEW c \in Callers, NEW where, NEW report, NEW e, NEW edit,
         Go(c, where, report, e, edit), where # "write"
  PROVE  NoNewWork(r)
<1>1. c \in Procs /\ ~Working(c, where)
  BY ProcsAssumption DEF Procs, Working
<1> QED
  BY <1>1, WorkingGoes

LEMMA NobodyWorks ==
  ASSUME UNCHANGED procs, NEW r
  PROVE  NoNewWork(r)
BY DEF procs, NoNewWork, AtWorkOn

LEMMA NoReportIsGone == NoReport \notin Meetings
BY DEF NoReport, Meetings

LEMMA ProceedWorks ==
  ASSUME ProcTypes, NEW r \in Meetings, NEW p \in Procs, Proceed(p),
         pc[p] \notin {"publish", "finish"}
  PROVE  NoNewWork(r)
<1>1. CASE p \in Callers
  BY <1>1, CallerWorks DEF Proceed, Return
<1>2. CASE p \notin Callers
  <2>1. p \in Workers /\ Working(p, pc[p])
    BY <1>2 DEF Procs, Working
  <2>2. CASE step[p] \in DOMAIN Following
    BY <1>2, <2>1, <2>2, WorkingGoes DEF Proceed
  <2>3. CASE step[p] \notin DOMAIN Following
    <3> DEFINE place == CASE step[p] = "analysed" -> "result"
                          [] step[p] \in Failures -> "publish"
                          [] OTHER -> "finish"
    <3>1. Go(p, place, about[p], egress[p], "none")
      BY <1>2, <2>3 DEF Proceed
    <3> HIDE DEF place
    <3> QED
      BY <2>1, <3>1, WorkingGoes
  <2> QED
    BY <2>2, <2>3
<1> QED
  BY <1>1, <1>2

----------------------------------------------------------------------------
(* An update leaves a report that is gone alone.                           *)
LEMMA UpdateOfOthers ==
  ASSUME StoreInv, NEW r \in Reports, ~Exists(r), NEW x, NEW row, UpdateReport(x, row)
  PROVE  store'[r] = store[r]
<1>1. CASE Exists(x)
  BY <1>1 DEF UpdateReport, Put, StoreInv
<1>2. CASE ~Exists(x)
  BY <1>2 DEF UpdateReport, reports
<1> QED
  BY <1>1, <1>2

LEMMA RequestWorks ==
  ASSUME IInv, NEW c \in Callers, Request(c), NEW r, Gone(r)
  PROVE  NoNewWork(r) /\ store'[r] = store[r]
<1>1. ProcTypes /\ StoreInv /\ SessionInv /\ r \in Meetings /\ r \in Reports
  BY Constants DEF IInv, Core, ProcInv, Gone
<1>2. ASSUME NEW u \in Users, Join(c, u)
      PROVE  NoNewWork(r) /\ store'[r] = store[r]
  <2>1. NoNewWork(r)
    BY <1>1, <1>2, CallerWorks, NobodyWorks DEF Join
  <2>2. CASE UpdateReport(MeetingOf, ActiveRow(store[MeetingOf].row))
    BY <1>1, <2>1, <2>2, UpdateOfOthers DEF Gone
  <2>3. CASE created' = created + 1 /\ Put(created', NewReport)
    <3>1. created' # r
      BY <1>1, <2>3, ReportsAssumption DEF Gone, SessionInv, Meetings
    <3> QED
      BY <1>1, <2>1, <2>3, <3>1 DEF Put, StoreInv
  <2> QED
    BY <1>2, <2>1, <2>2, <2>3 DEF Join
<1>3. ASSUME NEW u \in Users, Leave(c, u)
      PROVE  NoNewWork(r) /\ store'[r] = store[r]
  <2>1. NoNewWork(r)
    BY <1>1, <1>3, CallerWorks, NobodyWorks DEF Leave
  <2>2. \E row : UpdateReport(MeetingOf, row)
    BY <1>3 DEF Leave
  <2> QED
    BY <1>1, <2>1, <2>2, UpdateOfOthers DEF Gone
<1>4. ASSUME NEW x \in Reports, Delete(x)
      PROVE  NoNewWork(r) /\ store'[r] = store[r]
  BY <1>1, <1>4, NobodyWorks DEF Delete, Gone, Exists, StoreInv
<1>5. ASSUME UNCHANGED reports, \E where, x, e, edit : where # "write" /\ Go(c, where, x, e, edit)
      PROVE  NoNewWork(r) /\ store'[r] = store[r]
  BY <1>1, <1>5, CallerWorks DEF reports
<1>6. CASE StartRequest(c) \/ StopRequest(c) \/ \E x \in Reports : Touch(c, x)
  BY <1>5, <1>6 DEF StartRequest, StopRequest, Touch
<1>7. CASE \E e \in EgressIds : Webhook(c, e)
  BY <1>5, <1>7 DEF Webhook
<1> QED
  BY <1>2, <1>3, <1>4, <1>6, <1>7 DEF Request

LEMMA AnswerWorks ==
  ASSUME IInv, NEW c \in Callers, Answer(c) \/ Processing(c), NEW r, Gone(r)
  PROVE  NoNewWork(r) /\ store'[r] = store[r]
<1>1. ProcTypes /\ r \in Meetings /\ c \in Procs
  BY DEF IInv, Core, ProcInv, Gone, Procs
<1>2. store' = store
  BY DEF Answer, Processing, JoinRemembered, Find, StartAnswered, StopAnswered, LeaveAnswered,
         AlreadyScheduled, Schedule, reports
<1>3. CASE JoinRemembered(c)
  <2>1. pc' = [pc EXCEPT ![c] = "read"] /\ about' = [about EXCEPT ![c] = about[c]]
    BY <1>1, <1>3 DEF JoinRemembered, ProcTypes
  <2>2. ~Working(c, "read")
    BY ProcsAssumption DEF Working
  <2> QED
    BY <1>1, <1>2, <2>1, <2>2, WorkingMoves
<1>4. CASE Find(c)
  <2>1. pc[c] \notin {"publish", "finish", "write"}
    BY <1>4 DEF Find, Marks
  <2>2. CASE Go(c, pc[c], latest, egress[c], "none")
    BY <1>1, <1>2, <2>1, <2>2, CallerWorks
  <2>3. CASE Proceed(c)
    BY <1>1, <1>2, <2>1, <2>3, ProceedWorks
  <2> QED
    BY <1>2, <1>4, <2>2, <2>3 DEF Find
<1>5. CASE StartAnswered(c) \/ StopAnswered(c) \/ LeaveAnswered(c) \/ AlreadyScheduled(c)
  <2>1. \E where, x, e, edit : where # "write" /\ Go(c, where, x, e, edit)
    BY <1>5 DEF StartAnswered, StopAnswered, LeaveAnswered, AlreadyScheduled, Return
  <2> QED
    BY <1>1, <1>2, <2>1, CallerWorks
<1>6. ASSUME NEW w \in Workers, Schedule(c, w)
      PROVE  NoNewWork(r)
  <2>1. c # w /\ w \in Procs /\ c \notin Workers
    BY ProcsAssumption DEF Procs
  <2>2. /\ pc' = [pc EXCEPT ![c] = "idle", ![w] = "scheduled"]
        /\ about' = [about EXCEPT ![c] = NoReport] /\ pc[w] = "idle"
    BY <1>6 DEF Schedule, Start
  <2>3. \A p \in Procs : p # c => about'[p] = about[p] /\ (p # w => pc'[p] = pc[p])
    BY <1>1, <2>2 DEF ProcTypes
  <2>4. about'[c] = NoReport /\ pc'[w] = "scheduled"
    BY <1>1, <2>1, <2>2 DEF ProcTypes
  <2> QED
    BY <1>1, <2>1, <2>2, <2>3, <2>4, NoReportIsGone DEF NoNewWork, AtWorkOn
<1> QED
  BY <1>2, <1>3, <1>4, <1>5, <1>6 DEF Answer, Processing

LEMMA EditWorks ==
  ASSUME IInv, NEW p \in Procs, Edit(p), NEW r, Gone(r)
  PROVE  NoNewWork(r) /\ (store'[r] = store[r] \/ AtWorkOn(r) # {})
<1>1. ProcTypes /\ StoreInv /\ r \in Meetings /\ r \in Reports /\ ~Exists(r) /\ Ready(p)
  BY Constants DEF IInv, Core, ProcInv, Gone
<1>2. CASE Mark(p)
  <2>1. pc[p] \notin {"publish", "finish"}
    BY <1>2 DEF Mark, Marks
  <2>2. store'[r] = store[r]
    BY <1>1, <1>2, UpdateOfOthers DEF Mark
  <2>3. CASE Proceed(p)
    BY <1>1, <2>1, <2>2, <2>3, ProceedWorks
  <2>4. CASE Go(p, "read", about[p], egress[p], step[p])
    BY <1>1, <2>1, <2>2, <2>4, WorkingGoes DEF Working
  <2> QED
    BY <1>2, <2>3, <2>4 DEF Mark, AfterMark
<1>3. CASE Read(p)
  <2>1. pc[p] = "read" /\ store' = store
    BY <1>3 DEF Read, reports
  <2>2. CASE Exists(about[p])
    <3>1. about[p] # r
      BY <1>1, <2>2
    <3>2. pc' = [pc EXCEPT ![p] = "write"] /\ about' = [about EXCEPT ![p] = about[p]]
      BY <1>1, <1>3, <2>2 DEF Read, ProcTypes
    <3> QED
      BY <1>1, <2>1, <3>1, <3>2, WorkingMoves
  <2>3. CASE Go(p, "finish", about[p], egress[p], "none")
    BY <1>1, <2>1, <2>3, WorkingGoes DEF Working
  <2>4. CASE Proceed(p)
    BY <1>1, <2>1, <2>4, ProceedWorks
  <2> QED
    BY <1>3, <2>2, <2>3, <2>4 DEF Read
<1>4. CASE Write(p)
  <2>1. pc[p] = "write" /\ Proceed(p)
    BY <1>4 DEF Write
  <2>2. NoNewWork(r)
    BY <1>1, <2>1, ProceedWorks
  <2>3. CASE about[p] = r
    BY <2>1, <2>2, <2>3 DEF AtWorkOn
  <2>4. CASE about[p] # r
    BY <1>1, <1>4, <2>2, <2>4 DEF Write, Put, StoreInv
  <2> QED
    BY <2>3, <2>4
<1> QED
  BY <1>2, <1>3, <1>4 DEF Edit

LEMMA WorkWorks ==
  ASSUME IInv, NEW w \in Workers, Work(w), NEW r, Gone(r)
  PROVE  NoNewWork(r) /\ (store'[r] = store[r] \/ AtWorkOn(r) # {})
<1>1. /\ ProcTypes /\ StoreInv /\ r \in Meetings /\ r \in Reports /\ ~Exists(r)
      /\ w \in Procs /\ w \notin Callers
  BY Constants, ProcsAssumption DEF IInv, Core, ProcInv, Gone, Procs
<1>2. CASE Begin(w)
  <2> DEFINE x == IF latest # NoReport THEN latest ELSE EgressReport(egress[w])
  <2>1. x # r
    <3>1. latest # NoReport => latest # r
      BY <1>1 DEF IInv, Core, StoreInv, LatestExists
    <3>2. egress[w] \in 1..MaxEgress
      BY <1>1, <1>2, EgressAssumption DEF IInv, Core, WorkerInv, Busy, Begin, ProcTypes
    <3>3. EgressReport(egress[w]) # r
      BY <1>1, <3>2, ReportsAssumption, EgressAssumption DEF EgressReport, Meetings
    <3> QED
      BY <3>1, <3>3
  <2>2. store' = store /\ \E where, edit : Go(w, where, x, egress[w], edit)
    BY <1>2 DEF Begin, reports
  <2> HIDE DEF x
  <2> QED
    BY <1>1, <2>1, <2>2, WorkingGoes
<1>3. CASE Adopt(w)
  <2>1. /\ pc' = [pc EXCEPT ![w] = "adopted"] /\ about' = [about EXCEPT ![w] = about[w]]
        /\ pc[w] = "adopt" /\ store' = store
    BY <1>1, <1>3 DEF Adopt, ProcTypes, reports
  <2> QED
    BY <1>1, <2>1, WorkingMoves DEF Working
<1>4. CASE StoreAdopted(w)
  <2>1. \E where : pc' = [pc EXCEPT ![w] = where] /\ about' = [about EXCEPT ![w] = about[w]]
    BY <1>1, <1>4 DEF StoreAdopted, Go, ProcTypes
  <2>2. Working(w, pc[w]) /\ \E detail : Put(about[w], detail)
    BY <1>4 DEF StoreAdopted, Working
  <2>3. NoNewWork(r)
    BY <1>1, <2>1, <2>2, WorkingMoves
  <2>4. CASE about[w] = r
    BY <1>1, <2>2, <2>3, <2>4 DEF AtWorkOn, Working
  <2>5. CASE about[w] # r
    BY <1>1, <2>2, <2>3, <2>5 DEF Put, StoreInv
  <2> QED
    BY <2>4, <2>5
<1>5. CASE StoreResult(w)
  <2>1. Working(w, pc[w]) /\ Go(w, "publish", about[w], egress[w], "none")
        /\ Put(about[w], Result(w))
    BY <1>5 DEF StoreResult, Working
  <2>2. NoNewWork(r)
    BY <1>1, <2>1, WorkingGoes
  <2>3. CASE about[w] = r
    BY <1>1, <2>1, <2>2, <2>3 DEF AtWorkOn, Working
  <2>4. CASE about[w] # r
    BY <1>1, <2>1, <2>2, <2>4 DEF Put, StoreInv
  <2> QED
    BY <2>3, <2>4
<1>6. CASE Finish(w)
  <2>1. store' = store /\ Go(w, "idle", NoReport, 0, "none")
    BY <1>6 DEF Finish, Return, reports
  <2> QED
    BY <1>1, <2>1, WorkingGoes, NoReportIsGone
<1> QED
  BY <1>2, <1>3, <1>4, <1>5, <1>6 DEF Work

LEMMA StepWorks ==
  ASSUME IInv, [Next]_vars, NEW r, Gone(r)
  PROVE  NoNewWork(r) /\ (Exists(r)' => AtWorkOn(r) # {})
<1>1. r \in Meetings /\ r \in Reports /\ store[r] = NoDetail /\ ProcTypes
  BY Constants DEF Gone, Exists, IInv, Core, ProcInv
<1>2. ASSUME store'[r] = store[r] \/ AtWorkOn(r) # {}
      PROVE  Exists(r)' => AtWorkOn(r) # {}
  BY <1>1, <1>2 DEF Exists
<1>3. CASE Restart
  <2>1. store'[r] = store[r]
    BY <1>1, <1>3 DEF Restart, Repaired, NoDetail, NoRow, DetailOf, RowOf
  <2>2. NoNewWork(r)
    BY <1>1, <1>3, NoReportIsGone DEF Restart, NoNewWork, AtWorkOn
  <2> QED
    BY <1>2, <2>1, <2>2
<1>4. CASE (\E e \in EgressIds : EgressEnds(e)) \/ UNCHANGED vars
  <2>1. UNCHANGED procs /\ store' = store
    BY <1>4 DEF EgressEnds, vars, reports, procs
  <2> QED
    BY <1>2, <2>1, NobodyWorks
<1> QED
  BY <1>2, <1>3, <1>4, RequestWorks, AnswerWorks, EditWorks, WorkWorks DEF Next

(* A deleted report comes back only by what was in flight when it was      *)
(* deleted (that it can is what DeletedIsGone finds), and when that is done*)
(* it stays away.                                                          *)
THEOREM DeletionsAreFinal == Spec => NothingNewRevives
<1>1. IInv /\ [Next]_vars =>
        [\A r \in Meetings : r <= created /\ ~Exists(r) =>
           AtWorkOn(r)' \subseteq AtWorkOn(r) /\ (Exists(r)' => AtWorkOn(r) # {})]_vars
  BY StepWorks DEF Gone, NoNewWork
<1> QED
  BY <1>1, Inductive, PTL DEF Spec, NothingNewRevives
=============================================================================
