--------------------------- MODULE MeetingReports ---------------------------
(***************************************************************************)
(* The reports of one meeting room and everything that writes them         *)
(* (backend/internal/httpapi: conference_sessions.go, egress.go,           *)
(* reports.go, report_storage.go).                                         *)
(*                                                                         *)
(* A report exists twice in memory, as a row of the list and as a detail   *)
(* that contains the row; both are guarded by reportsMu and saved to disk  *)
(* under it.  Participants joining and leaving update the report of their  *)
(* meeting in one critical section.  All others read a copy of the detail  *)
(* in one critical section and store the whole copy in a later one: this   *)
(* module keeps the two apart.                                             *)
(*                                                                         *)
(* Requests (callers) start and stop the recording, handle LiveKit's       *)
(* webhooks and edit reports.  A finished recording is processed by a      *)
(* goroutine (worker), which downloads, transcribes and analyses it.       *)
(* The registry of recordings is EgressManager's; here it is external: a   *)
(* recording is launched, ends, and its end is announced.                  *)
(***************************************************************************)
EXTENDS Integers, FiniteSets

CONSTANTS
  Users,       \* people in the room
  Callers,     \* request goroutines at work at once
  Workers,     \* processing goroutines at work at once
  MaxReports,  \* bound: meetings that are given a report
  MaxEgress,   \* bound: recordings that are launched
  MaxRequests, \* bound: requests and webhooks that are sent
  SttConfigs,  \* whether a speech-to-text service may be configured
  mayRestart   \* whether the backend may crash or be restarted

ASSUME ReportsAssumption == MaxReports \in Nat \ {0}
ASSUME EgressAssumption == MaxEgress \in Nat
ASSUME RequestsAssumption == MaxRequests \in Nat
ASSUME SwitchesAssumption == SttConfigs \subseteq BOOLEAN /\ mayRestart \in BOOLEAN
ASSUME ProcsAssumption == Callers \cap Workers = {}

VARIABLES
  store,       \* generatedReportStore
  rows,        \* generatedReports
  latest,      \* latestRoomReports[room], 0 for ""
  meeting,     \* activeMeetings[room].ReportID, 0 without a session
  present,     \* activeMeetings[room].ActiveParticipants
  roomReport,  \* rooms[room].ReportID
  created,     \* reports made for meetings so far
  processing,  \* egressProcessing
  pc,          \* where each goroutine is
  about,       \* the report it is about, 0 for ""
  egress,      \* the recording it is about, 0 for none
  step,        \* what it is to write next
  copy,        \* the detail it has read
  launched,    \* recordings launched by LiveKit, numbered from 1
  over,        \* those that have ended
  requests     \* requests and webhooks sent so far

reports == <<store, rows, latest>>
session == <<meeting, present, created>>
procs == <<pc, about, egress, step, copy>>
recorder == <<launched, over>>
vars == <<reports, session, roomReport, processing, procs, recorder, requests>>

----------------------------------------------------------------------------
Procs == Callers \cup Workers
EgressIds == 1..MaxEgress
Meetings == 1..MaxReports

(* The id processEgressRecording derives from an egress when the room has  *)
(* no report.                                                              *)
EgressReport(e) == MaxReports + e
Reports == 1..(MaxReports + MaxEgress)
NoReport == 0

Stages == {"active", "recording", "processing", "saved", "failed", "ready"}
Recordings == {"missing", "running", "stopping", "verifying", "completed", "failed"}
Transcriptions == {"not_started", "pending", "running", "completed", "failed", "not_configured"}

(* reportRow: processingState, recordingStatus and transcriptionStatus; the*)
(* status of the analysis decides nothing and is left out.                *)
Row == [stage : Stages, rec : Recordings, trans : Transcriptions]
RowOf(stage, rec, trans) == [stage |-> stage, rec |-> rec, trans |-> trans]

(* reportDetailResponse: its row, whether the file of a recording and a    *)
(* transcript are known.                                                   *)
Detail == [row : Row, file : BOOLEAN, text : BOOLEAN]
DetailOf(row, file, text) == [row |-> row, file |-> file, text |-> text]

NoRow == RowOf("none", "none", "none")
NoDetail == DetailOf(NoRow, FALSE, FALSE)
Exists(r) == r \in Reports /\ store[r] # NoDetail

(* A write of a whole detail: the detail, its row, and the room's report.  *)
Put(r, detail) ==
  /\ store' = [store EXCEPT ![r] = detail]
  /\ rows' = [rows EXCEPT ![r] = detail.row]
  /\ latest' = r

----------------------------------------------------------------------------
(* setConferenceReportPipelineState and the "processing" and "failed"      *)
(* cases of updateConferenceReportLocked.                                  *)
NotPending(status) == IF status = "pending" THEN "not_started" ELSE status
PipelineRow(row, state) ==
  CASE state = "recording"  -> RowOf("recording", "running", "pending")
    [] state = "processing" -> RowOf("processing", "completed", "pending")
    [] state = "error"      -> RowOf("failed", "failed", NotPending(row.trans))

(* Mutant: the event in place of the status.                               *)
ActiveRowMutant(row) == RowOf("joined", row.rec, NotPending(row.trans))

(* updateConferenceReportLocked with "active".                             *)
ActiveRow(row) == RowOf("active", row.rec, NotPending(row.trans))

(* finalConferenceStatusLocked and the update with the status it yields.   *)
FinalRow(row) ==
  IF row.rec \in {"running", "completed"} THEN PipelineRow(row, "processing")
  ELSE IF row.rec = "failed" THEN PipelineRow(row, "error")
  ELSE RowOf("saved", row.rec, "not_started")

(* addPipelineEvent, and the failures markEgressReportFailed records.      *)
RecordingEvents ==
  [started |-> "running", stopping |-> "stopping", recordingError |-> "failed",
   verify |-> "verifying", verified |-> "completed"]
TranscriptionEvents == [transcribe |-> "running", transcribed |-> "completed"]
Failures == {"downloadFailed", "sttFailed"}
(* Edits of what this module leaves out: syncReportParticipantsFrom-       *)
(* Snapshot (in a join, or in a leave that goes on to stop the recording), *)
(* renameReport, reportPersonalNote and the notes; the participants'       *)
(* tracks, the diarization and the analysis of a recording, one edit for   *)
(* however many events there are of each.                                  *)
Touches == {"touch", "leave", "tracks", "diarize", "analyse", "analysed"}
Edits == DOMAIN RecordingEvents \cup DOMAIN TranscriptionEvents \cup Failures \cup Touches

EditedRow(row, edit) ==
  CASE edit \in DOMAIN RecordingEvents -> RowOf(row.stage, RecordingEvents[edit], row.trans)
    [] edit \in DOMAIN TranscriptionEvents ->
         RowOf(row.stage, row.rec, TranscriptionEvents[edit])
    [] edit = "downloadFailed" -> RowOf("ready", "failed", "not_started")
    [] edit = "sttFailed" -> RowOf("ready", row.rec, "failed")
    [] edit \in Touches -> row

(* Mutant: an analysis that fails is begun again.                          *)
FollowingMutant ==
  [verify |-> {"verified", "downloadFailed"}, verified |-> {"transcribe"},
   transcribe |-> {"tracks", "transcribed", "sttFailed"},
   tracks |-> {"transcribed", "sttFailed"}, transcribed |-> {"diarize"},
   diarize |-> {"analyse"}, analyse |-> {"analysed", "diarize"}]

(* What processEgressRecording does after each of its edits.               *)
Following ==
  [verify |-> {"verified", "downloadFailed"}, verified |-> {"transcribe"},
   transcribe |-> {"tracks", "transcribed", "sttFailed"},
   tracks |-> {"transcribed", "sttFailed"}, transcribed |-> {"diarize"},
   diarize |-> {"analyse"}, analyse |-> {"analysed"}]

----------------------------------------------------------------------------
Init ==
  /\ store = [r \in Reports |-> NoDetail]
  /\ rows = [r \in Reports |-> NoRow]
  /\ latest = NoReport
  /\ meeting = NoReport /\ present = {} /\ created = 0
  /\ roomReport = NoReport
  /\ processing = {}
  /\ pc = [p \in Procs |-> "idle"]
  /\ about = [p \in Procs |-> NoReport]
  /\ egress = [p \in Procs |-> 0]
  /\ step = [p \in Procs |-> "none"]
  /\ copy = [p \in Procs |-> NoDetail]
  /\ launched = 0 /\ over = {}
  /\ requests = 0

(* Where a goroutine goes next.                                            *)
Go(p, where, report, e, edit) ==
  /\ pc' = [pc EXCEPT ![p] = where]
  /\ about' = [about EXCEPT ![p] = report]
  /\ egress' = [egress EXCEPT ![p] = e]
  /\ step' = [step EXCEPT ![p] = edit]
  /\ copy' = [copy EXCEPT ![p] = NoDetail]

Return(p) == Go(p, "idle", NoReport, 0, "none")

----------------------------------------------------------------------------
(* recordConferenceEvent.  A room without a session resumes that of its    *)
(* latest report while this is active or recording.                        *)
Resumable == Exists(latest) /\ store[latest].row.stage \in {"active", "recording"}
MeetingOf == IF meeting # NoReport THEN meeting ELSE IF Resumable THEN latest ELSE NoReport
PresentIn(u) == IF meeting # NoReport THEN present ELSE {u}

(* Mutant: a report that is gone is made again.                            *)
UpdateReportMutant(r, row) == Put(r, DetailOf(row, store[r].file, store[r].text))

(* updateConferenceReportLocked: a report that is gone is left alone.      *)
UpdateReport(r, row) ==
  IF Exists(r) THEN Put(r, DetailOf(row, store[r].file, store[r].text)) ELSE UNCHANGED reports

NewReport == DetailOf(RowOf("active", "missing", "not_started"), FALSE, FALSE)

(* "created" and "joined" of createRoom, joinRoom, createLiveKitToken and  *)
(* meetingEvent; the last of these has no more to do.                      *)
Join(c, u) ==
  /\ pc[c] = "idle"
  /\ present' = PresentIn(u) \cup {u}
  /\ \/ /\ MeetingOf # NoReport
        /\ UpdateReport(MeetingOf, ActiveRow(store[MeetingOf].row))
        /\ meeting' = MeetingOf
        /\ UNCHANGED created
     \/ /\ MeetingOf = NoReport
        /\ created < MaxReports
        /\ created' = created + 1
        /\ meeting' = created'
        /\ Put(created', NewReport)
  /\ Go(c, "remember", meeting', 0, "touch") \/ UNCHANGED procs
  /\ UNCHANGED <<roomReport, processing, recorder>>

(* The others keep the report in the room, and its participants in the     *)
(* report.                                                                 *)
JoinRemembered(c) ==
  /\ pc[c] = "remember"
  /\ roomReport' = about[c]
  /\ pc' = [pc EXCEPT ![c] = "read"]
  /\ UNCHANGED <<about, egress, step, copy>>
  /\ UNCHANGED <<reports, session, processing, recorder>>

(* Mutant: the last participant leaves a session that goes on.             *)
LeaveMutant(c, u) ==
  /\ pc[c] = "idle" /\ MeetingOf # NoReport
  /\ UpdateReport(MeetingOf, ActiveRow(store[MeetingOf].row))
  /\ meeting' = MeetingOf
  /\ present' = PresentIn(u) \ {u}
  /\ UNCHANGED procs
  /\ UNCHANGED <<created, roomReport, processing, recorder>>

(* "left", and "ended" by anyone.  leaveRoom keeps the participants in the *)
(* report; then the handlers stop the recording if the report says one is  *)
(* running.                                                                *)
Leave(c, u) ==
  /\ pc[c] = "idle" /\ MeetingOf # NoReport
  /\ \/ /\ PresentIn(u) \ {u} # {}
        /\ UpdateReport(MeetingOf, ActiveRow(store[MeetingOf].row))
        /\ meeting' = MeetingOf
        /\ present' = PresentIn(u) \ {u}
        /\ Go(c, "read", MeetingOf, 0, "touch") \/ UNCHANGED procs
     \/ /\ UpdateReport(MeetingOf, FinalRow(store[MeetingOf].row))
        /\ meeting' = NoReport
        /\ present' = {}
        /\ IF store[MeetingOf].row.rec = "running"
           THEN Go(c, "leaving", MeetingOf, 0, "none") \/ Go(c, "read", MeetingOf, 0, "leave")
           ELSE Go(c, "read", MeetingOf, 0, "touch") \/ UNCHANGED procs
  /\ UNCHANGED <<created, roomReport, processing, recorder>>

----------------------------------------------------------------------------
(* roomRecording: the report of the request is the room's, else the latest.*)
RoomReport == IF roomReport # NoReport THEN roomReport ELSE latest

StartRequest(c) ==
  /\ pc[c] = "idle"
  /\ Go(c, "starting", RoomReport, 0, "none")
  /\ UNCHANGED <<reports, session, roomReport, processing, recorder>>

StopRequest(c) ==
  /\ pc[c] = "idle"
  /\ Go(c, "stopping", RoomReport, 0, "none")
  /\ UNCHANGED <<reports, session, roomReport, processing, recorder>>

(* LiveKit answers; setRoomRecordingState keeps the report in the room.    *)
Remember(r) == roomReport' = IF r # NoReport THEN r ELSE roomReport

StartAnswered(c) ==
  /\ pc[c] = "starting"
  /\ \/ /\ \/ launched \in EgressIds \ over /\ UNCHANGED launched
           \/ launched < MaxEgress /\ launched' = launched + 1
        /\ Go(c, "markRecording", about[c], 0, "started")
     \/ Go(c, "markError", about[c], 0, "recordingError") /\ UNCHANGED launched
  /\ Remember(about[c])
  /\ UNCHANGED <<reports, session, processing, over>>

StopAnswered(c) ==
  /\ pc[c] = "stopping"
  /\ \/ /\ launched \in EgressIds
        /\ over' \in {over, over \cup {launched}}
        /\ Go(c, "markProcessing", about[c], launched, "stopping")
     \/ Go(c, "markError", about[c], 0, "recordingError") /\ UNCHANGED over
  /\ Remember(about[c])
  /\ UNCHANGED <<reports, session, processing, launched>>

(* The stop of a leave; when it fails the handler does nothing more.       *)
(* leaveRoom keeps the report in the room, meetingEvent does not.          *)
LeaveAnswered(c) ==
  /\ pc[c] = "leaving"
  /\ \/ /\ launched \in EgressIds
        /\ over' \in {over, over \cup {launched}}
        /\ Go(c, "markProcessing", about[c], launched, "none")
        /\ Remember(about[c]) \/ UNCHANGED roomReport
     \/ Return(c) /\ UNCHANGED <<over, roomReport>>
  /\ UNCHANGED <<reports, session, processing, launched>>

(* A recording ends by itself.                                             *)
EgressEnds(e) ==
  /\ e \in 1..launched \ over
  /\ over' = over \cup {e}
  /\ UNCHANGED <<reports, session, roomReport, processing, procs, launched>>

(* liveKitWebhook for the end of a recording: perhaps again, or never.     *)
Webhook(c, e) ==
  /\ pc[c] = "idle"
  /\ e \in over
  /\ \E mark \in {"markProcessing", "markError"} : Go(c, mark, NoReport, e, "none")
  /\ UNCHANGED <<reports, session, roomReport, processing, recorder>>

Marks == [markRecording |-> "recording", markProcessing |-> "processing", markError |-> "error"]

(* What a goroutine does when its mark and its edit are made: a caller     *)
(* passes a recording on to be processed, stops it, or returns; a worker   *)
(* takes its next step, stores its result or ends.                         *)
Proceed(p) ==
  IF p \in Callers
  THEN IF egress[p] # 0 THEN Go(p, "schedule", about[p], egress[p], "none")
       ELSE IF step[p] = "leave" THEN Go(p, "leaving", about[p], 0, "none")
       ELSE Return(p)
  ELSE IF step[p] \in DOMAIN Following
       THEN \E next \in Following[step[p]] : Go(p, "read", about[p], egress[p], next)
       ELSE Go(p, CASE step[p] = "analysed" -> "result"
                    [] step[p] \in Failures -> "publish"
                    [] OTHER -> "finish",
               about[p], egress[p], "none")

AfterMark(p) ==
  IF step[p] # "none" THEN Go(p, "read", about[p], egress[p], step[p]) ELSE Proceed(p)

(* setConferenceReportPipelineState is given no report: it takes the       *)
(* room's latest in one critical section and marks it in another.  The     *)
(* edits of the caller are of no report, which is to say none.             *)
Find(c) ==
  /\ pc[c] \in DOMAIN Marks /\ about[c] = NoReport
  /\ IF latest # NoReport THEN Go(c, pc[c], latest, egress[c], "none") ELSE Proceed(c)
  /\ UNCHANGED <<reports, session, roomReport, processing, recorder>>

(* Mutant: the list keeps the row it had.                                  *)
MarkMutant(p) ==
  /\ pc[p] \in DOMAIN Marks /\ about[p] # NoReport
  /\ IF Exists(about[p])
     THEN /\ store' = [store EXCEPT ![about[p]] =
                 DetailOf(PipelineRow(store[about[p]].row, Marks[pc[p]]),
                          store[about[p]].file, store[about[p]].text)]
          /\ latest' = about[p]
          /\ UNCHANGED rows
     ELSE UNCHANGED reports
  /\ AfterMark(p)
  /\ UNCHANGED <<session, roomReport, processing, recorder>>

(* setConferenceReportPipelineState.                                       *)
Mark(p) ==
  /\ pc[p] \in DOMAIN Marks /\ about[p] # NoReport
  /\ UpdateReport(about[p], PipelineRow(store[about[p]].row, Marks[pc[p]]))
  /\ AfterMark(p)
  /\ UNCHANGED <<session, roomReport, processing, recorder>>

----------------------------------------------------------------------------
(* A request edits a report: addReportWarning, renameReport,               *)
(* reportPersonalNote, the notes.                                          *)
Touch(c, r) ==
  /\ pc[c] = "idle"
  /\ Exists(r)
  /\ Go(c, "read", r, 0, "touch")
  /\ UNCHANGED <<reports, session, roomReport, processing, recorder>>

(* Mutant: a goroutine waits for a report that is gone.                    *)
ReadMutant(p) ==
  /\ pc[p] = "read"
  /\ Exists(about[p])
  /\ pc' = [pc EXCEPT ![p] = "write"]
  /\ copy' = [copy EXCEPT ![p] = store[about[p]]]
  /\ UNCHANGED <<about, egress, step>>
  /\ UNCHANGED <<reports, session, roomReport, processing, recorder>>

(* reportDetailForUpdate, reportDetailByID: a report that is gone is not   *)
(* edited, and its failure not published.                                  *)
Read(p) ==
  /\ pc[p] = "read"
  /\ IF Exists(about[p])
     THEN /\ pc' = [pc EXCEPT ![p] = "write"]
          /\ copy' = [copy EXCEPT ![p] = store[about[p]]]
          /\ UNCHANGED <<about, egress, step>>
     ELSE IF step[p] \in Failures THEN Go(p, "finish", about[p], egress[p], "none")
     ELSE Proceed(p)
  /\ UNCHANGED <<reports, session, roomReport, processing, recorder>>

(* storeReport of the copy that was read, edited.                          *)
Write(p) ==
  /\ pc[p] = "write"
  /\ Put(about[p], DetailOf(EditedRow(copy[p].row, step[p]), copy[p].file, copy[p].text))
  /\ Proceed(p)
  /\ UNCHANGED <<session, roomReport, processing, recorder>>

(* Mutant: the room still names the report.                                *)
DeleteMutant(r) ==
  /\ Exists(r)
  /\ store' = [store EXCEPT ![r] = NoDetail]
  /\ rows' = [rows EXCEPT ![r] = NoRow]
  /\ UNCHANGED <<latest, session, roomReport, processing, procs, recorder>>

(* deleteReport.                                                           *)
Delete(r) ==
  /\ Exists(r)
  /\ store' = [store EXCEPT ![r] = NoDetail]
  /\ rows' = [rows EXCEPT ![r] = NoRow]
  /\ latest' = IF latest = r THEN NoReport ELSE latest
  /\ UNCHANGED <<session, roomReport, processing, procs, recorder>>

----------------------------------------------------------------------------
(* scheduleEgressRecordingProcessing when the recording is being processed.*)
AlreadyScheduled(c) ==
  /\ pc[c] = "schedule"
  /\ egress[c] \in processing
  /\ Return(c)
  /\ UNCHANGED <<reports, session, roomReport, processing, recorder>>

(* The goroutine that processes a recording is started.                    *)
Start(c, w) ==
  /\ pc' = [pc EXCEPT ![c] = "idle", ![w] = "scheduled"]
  /\ egress' = [egress EXCEPT ![c] = 0, ![w] = egress[c]]
  /\ about' = [about EXCEPT ![c] = NoReport]
  /\ processing' = processing \cup {egress[c]}
  /\ UNCHANGED <<step, copy>>

(* Mutant: the check and the entry are not made together.                  *)
ScheduleMutant(c, w) ==
  /\ pc[c] = "schedule" /\ pc[w] = "idle"
  /\ Start(c, w)
  /\ UNCHANGED <<reports, session, roomReport, recorder>>

(* scheduleEgressRecordingProcessing: one goroutine per recording.         *)
Schedule(c, w) ==
  /\ pc[c] = "schedule" /\ pc[w] = "idle"
  /\ egress[c] \notin processing
  /\ Start(c, w)
  /\ UNCHANGED <<reports, session, roomReport, recorder>>

(* processEgressRecording: the report is chosen when the work begins, and  *)
(* there may be nothing known to download.                                 *)
Begin(w) ==
  /\ pc[w] = "scheduled"
  /\ LET r == IF latest # NoReport THEN latest ELSE EgressReport(egress[w])
     IN \/ Go(w, "adopt", r, egress[w], "none")
        \/ Go(w, "markError", r, egress[w], "recordingError")
  /\ UNCHANGED <<reports, session, roomReport, processing, recorder>>

(* upsertEgressRecordingDetail reads the report, or makes it up...         *)
Adopt(w) ==
  /\ pc[w] = "adopt"
  /\ pc' = [pc EXCEPT ![w] = "adopted"]
  /\ copy' = [copy EXCEPT ![w] = store[about[w]]]
  /\ UNCHANGED <<about, egress, step>>
  /\ UNCHANGED <<reports, session, roomReport, processing, recorder>>

(* ...and stores it; without STT there is no more to do than to say so,    *)
(* and a recording that was aborted is not downloaded.                     *)
StoreAdopted(w) ==
  /\ pc[w] = "adopted"
  /\ Put(about[w], DetailOf(PipelineRow(copy[w].row, "processing"), TRUE, copy[w].text))
  /\ \/ /\ TRUE \in SttConfigs
        /\ \E next \in {"verify", "downloadFailed"} : Go(w, "read", about[w], egress[w], next)
     \/ /\ FALSE \in SttConfigs
        /\ pc' = [pc EXCEPT ![w] = "resultAlone"]
        /\ UNCHANGED <<about, egress, step, copy>>
  /\ UNCHANGED <<session, roomReport, processing, recorder>>

(* Mutant: reportDetailFromAnalysis without copyReportArtifacts.           *)
StoreResultMutant(w) ==
  /\ pc[w] \in {"result", "resultAlone"}
  /\ Put(about[w], DetailOf(RowOf("ready", "completed", "completed"), FALSE, TRUE))
  /\ Go(w, "publish", about[w], egress[w], "none")
  /\ UNCHANGED <<session, roomReport, processing, recorder>>

(* The detail the worker ends with: the transcript and its analysis (or,   *)
(* when the LLM fails, a fallback) too, or the recording alone.            *)
Result(w) ==
  IF pc[w] = "result" THEN DetailOf(RowOf("ready", "completed", "completed"), TRUE, TRUE)
  ELSE DetailOf(RowOf("ready", "completed", "not_configured"), TRUE, copy[w].text)

StoreResult(w) ==
  /\ pc[w] \in {"result", "resultAlone"}
  /\ Put(about[w], Result(w))
  /\ Go(w, "publish", about[w], egress[w], "none")
  /\ UNCHANGED <<session, roomReport, processing, recorder>>

(* publishRoomRecordingReady, and the goroutine returns.                   *)
Finish(w) ==
  /\ pc[w] \in {"publish", "finish"}
  /\ roomReport' = IF pc[w] = "publish" THEN about[w] ELSE roomReport
  /\ processing' = processing \ {egress[w]}
  /\ Return(w)
  /\ UNCHANGED <<reports, session, recorder>>

----------------------------------------------------------------------------
(* loadReports after a crash or a restart: repairStaleProcessingWithout-   *)
(* Recording, and the newest report is the room's.                         *)
Repaired(detail) ==
  IF /\ ~detail.file
     /\ detail.row.stage \in {"processing", "ready"}
     /\ detail.row.rec \in {"completed", "missing"}
     /\ detail.row.trans \in {"pending", "running", "not_started"}
  THEN DetailOf(RowOf("saved", "missing", "not_started"), FALSE, FALSE)
  ELSE detail

Restart ==
  /\ mayRestart
  /\ store' = [r \in Reports |-> Repaired(store[r])]
  /\ rows' = [r \in Reports |-> Repaired(store[r]).row]
  /\ \/ (\A r \in Reports : ~Exists(r)) /\ latest' = NoReport
     \/ \E r \in Reports :
          /\ Exists(r)
          /\ \A n \in Meetings : r \in Meetings /\ n > r => ~Exists(n)
          /\ latest' = r
  /\ meeting' = NoReport /\ present' = {}
  /\ roomReport' = NoReport
  /\ processing' = {}
  /\ pc' = [p \in Procs |-> "idle"]
  /\ about' = [p \in Procs |-> NoReport]
  /\ egress' = [p \in Procs |-> 0]
  /\ step' = [p \in Procs |-> "none"]
  /\ copy' = [p \in Procs |-> NoDetail]
  /\ UNCHANGED <<created, recorder>>

Request(c) ==
  \/ \E u \in Users : Join(c, u) \/ Leave(c, u)
  \/ StartRequest(c) \/ StopRequest(c)
  \/ \E e \in EgressIds : Webhook(c, e)
  \/ \E r \in Reports : Touch(c, r) \/ Delete(r)

Answer(c) ==
  /\ UNCHANGED requests
  /\ \/ JoinRemembered(c) \/ Find(c)
     \/ StartAnswered(c) \/ StopAnswered(c) \/ LeaveAnswered(c)

Processing(c) ==
  UNCHANGED requests /\ (AlreadyScheduled(c) \/ \E w \in Workers : Schedule(c, w))

Edit(p) == UNCHANGED requests /\ (Mark(p) \/ Read(p) \/ Write(p))

Work(w) ==
  /\ UNCHANGED requests
  /\ Begin(w) \/ Adopt(w) \/ StoreAdopted(w) \/ StoreResult(w) \/ Finish(w)

Next ==
  \/ \E c \in Callers :
       \/ requests < MaxRequests /\ Request(c) /\ requests' = requests + 1
       \/ Answer(c) \/ Processing(c)
  \/ \E p \in Procs : Edit(p)
  \/ \E w \in Workers : Work(w)
  \/ UNCHANGED requests /\ \E e \in EgressIds : EgressEnds(e)
  \/ UNCHANGED requests /\ Restart

Spec == Init /\ [][Next]_vars

(* A goroutine that has begun goes on, and every call it makes has a       *)
(* timeout.  Nobody has to join, leave, press a button or send a webhook.  *)
Fairness ==
  /\ \A c \in Callers : WF_vars(Answer(c)) /\ WF_vars(Processing(c))
  /\ \A p \in Procs : WF_vars(Edit(p))
  /\ \A w \in Workers : WF_vars(Work(w))

FairSpec == Spec /\ Fairness

----------------------------------------------------------------------------
Pcs ==
  {"idle", "starting", "stopping", "leaving", "read", "write", "schedule", "scheduled",
   "remember", "adopt", "adopted", "result", "resultAlone", "publish", "finish"} \cup DOMAIN Marks

TypeOK ==
  /\ store \in [Reports -> Detail \cup {NoDetail}]
  /\ rows \in [Reports -> Row \cup {NoRow}]
  /\ latest \in Reports \cup {NoReport}
  /\ meeting \in Reports \cup {NoReport}
  /\ present \in SUBSET Users
  /\ roomReport \in Reports \cup {NoReport}
  /\ created \in 0..MaxReports
  /\ processing \in SUBSET EgressIds
  /\ pc \in [Procs -> Pcs]
  /\ about \in [Procs -> Reports \cup {NoReport}]
  /\ egress \in [Procs -> 0..MaxEgress]
  /\ step \in [Procs -> Edits \cup {"none"}]
  /\ copy \in [Procs -> Detail \cup {NoDetail}]
  /\ launched \in 0..MaxEgress
  /\ over \in SUBSET EgressIds
  /\ requests \in 0..MaxRequests

(* The list of reports and the report itself are two copies of the row,    *)
(* and whoever wrote it last they show the same.                           *)
ListMatchesDetail == \A r \in Reports : rows[r] = store[r].row

(* The report a room names as its latest exists: a recording that ends is  *)
(* filed in it and a meeting resumed from it, however the deletion of a    *)
(* report and the writes of older copies interleave.                       *)
LatestExists == latest # NoReport => Exists(latest)

(* The three maps that reportsMu guards, the list, the details and the     *)
(* latest report of the room, speak of the same reports.                   *)
StoresAgree == ListMatchesDetail /\ LatestExists

(* A session lasts as long as someone is in the meeting: the last one to   *)
(* leave, also of a session resumed after a restart, ends it.              *)
SessionHasPeople == meeting # NoReport <=> present # {}

(* A report that shows a transcript has the recording it was made from:    *)
(* no stale copy and no repair separates the two.                          *)
TranscriptHasRecording == \A r \in Reports : store[r].text => store[r].file

(* However often its end is reported, by the stop and by webhooks, one     *)
(* recording is never downloaded and transcribed twice at once, and what   *)
(* is marked as being processed has a goroutine that will release it.      *)
OneWorkerPerRecording ==
  /\ \A w1, w2 \in Workers :
       egress[w1] = egress[w2] /\ egress[w1] # 0 => w1 = w2
  /\ processing = {egress[w] : w \in Workers} \ {0}

(* Every goroutine comes to its end, also one whose report is deleted      *)
(* while it works on it, and no recording stays marked as being processed. *)
GoroutinesFinish == \A p \in Procs : pc[p] # "idle" ~> pc[p] = "idle"

(* No goroutine does anything twice: whatever it finds deleted or fails at,*)
(* each of its steps brings it nearer to its end.  How far it is from there*)
(* is counted from the edits that are left of a recording's processing and *)
(* from its place; a request that has still to stop a recording after its  *)
(* edit is as far as one that begins with it.                              *)
EditsLeft(edit) ==
  CASE edit = "verify" -> 8
    [] edit = "verified" -> 7
    [] edit = "transcribe" -> 6
    [] edit = "tracks" -> 5
    [] edit = "transcribed" -> 4
    [] edit \in {"diarize", "leave"} -> 3
    [] edit = "analyse" -> 2
    [] edit = "analysed" -> 1
    [] OTHER -> 0
StepsLeft(place, report, edit) ==
  CASE place = "idle" -> 0
    [] place \in {"schedule", "finish"} -> 1
    [] place = "publish" -> 2
    [] place \in {"result", "resultAlone"} -> 3
    [] place = "write" -> 4 + 2 * EditsLeft(edit)
    [] place = "read" -> 5 + 2 * EditsLeft(edit)
    [] place \in DOMAIN Marks -> IF report # NoReport THEN 6 ELSE 7
    [] place \in {"starting", "stopping", "leaving", "remember"} -> 8
    [] place = "adopted" -> 22
    [] place = "adopt" -> 23
    [] place = "scheduled" -> 24
GoroutinesAdvance ==
  [][\A p \in Procs : pc[p] # "idle" =>
       \/ /\ pc'[p] = pc[p] /\ about'[p] = about[p] /\ egress'[p] = egress[p]
          /\ step'[p] = step[p] /\ copy'[p] = copy[p]
       \/ StepsLeft(pc'[p], about'[p], step'[p]) < StepsLeft(pc[p], about[p], step[p])]_vars

(* conferenceSummary tells the reader of a report in "processing" that STT *)
(* and AI analysis will run once the recording's file is available: then   *)
(* the report does not stay in "processing".                               *)
FileIsProcessed ==
  \A r \in Reports :
    store[r].row.stage = "processing" /\ store[r].file ~> store[r].row.stage # "processing"

(* TestReportRenameDeleteAndSend: a deleted report is not found any more.  *)
(* A meeting's report that is not there has not been made yet, or has been *)
(* deleted: then it stays away.                                            *)
DeletedIsGone ==
  [][\A r \in Meetings : r <= created /\ ~Exists(r) => ~Exists(r)']_vars

(* A deletion is final for everything that begins after it: nobody takes up*)
(* a deleted report again, neither its session, nor a request that names   *)
(* it, nor a restart, and it can come back only by the copies and the      *)
(* processing that were in flight when it was deleted.                     *)
AtWorkOn(r) ==
  {p \in Procs : /\ about[p] = r
                 /\ pc[p] = "write" \/ (p \in Workers /\ pc[p] \notin {"publish", "finish"})}
NothingNewRevives ==
  [][\A r \in Meetings : r <= created /\ ~Exists(r) =>
       AtWorkOn(r)' \subseteq AtWorkOn(r) /\ (Exists(r)' => AtWorkOn(r) # {})]_vars
=============================================================================
