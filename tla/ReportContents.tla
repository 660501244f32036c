--------------------------- MODULE ReportContents ---------------------------
(***************************************************************************)
(* What the report of an uploaded recording contains, from the upload to   *)
(* the edits of its readers (backend/internal/httpapi: reports.go,         *)
(* report_storage.go, transcription.go).                                   *)
(*                                                                         *)
(* MeetingReports follows the statuses of a meeting's report, which the    *)
(* session and the recording pipeline write; this module follows the       *)
(* transcript, the analysis, the statistics and the notes of a report that *)
(* belongs to no meeting.  A worker makes them in the background.  Requests*)
(* read the report in one critical section and store what they read,       *)
(* changed, in a later one; and every read may itself store the report     *)
(* again: when its analysis looks like the one that stands in for a failed *)
(* one, the read repairs it (reportDetailByID, repairLoadedReportAnalysis).*)
(***************************************************************************)
EXTENDS SpeakerLabels, MeetingScores

CONSTANTS
  Callers,     \* request goroutines at work at once
  Recordings,  \* recordings that may be made into a report
  MaxRequests, \* bound: requests that are sent
  MaxRestarts  \* bound: restarts of the backend

ASSUME CallersAssumption == "worker" \notin Callers
ASSUME BoundsAssumption == MaxRequests \in Nat \ {0} /\ MaxRestarts \in Nat

(* An uploaded recording: whether its file is kept, where its labels come  *)
(* from, the names of the participants; and what is heard in it, the label *)
(* and the mood of each line, one at least.                                *)
ASSUME RecordingsAssumption ==
  \A r \in Recordings :
    /\ r.file \in BOOLEAN /\ r.source \in {"diarization", "stt"}
    /\ r.said \in Seq({r.said[i] : i \in DOMAIN r.said}) \ {<<>>}
    /\ \A i \in DOMAIN r.said : r.said[i].kind = "voice" => r.said[i].number \in Nat
    /\ r.moods \in [DOMAIN r.said -> {"positive", "neutral", "negative"}]
    /\ r.names \in Seq({r.names[k] : k \in DOMAIN r.names})
    /\ \A k \in DOMAIN r.names : r.names[k].kind = "person"

VARIABLES
  report,     \* generatedReportStore[id]
  recording,  \* the recording the report is made of
  pc,         \* where each goroutine is
  doing,      \* what a request is to do, how the worker's recording turned out
  copy,       \* the detail a goroutine has read
  requests,   \* requests sent so far
  restarts,   \* restarts so far
  kept,       \* history: what the last writer but a read stored
  mixed       \* history: a goroutine stored while another one held a copy

procs == <<pc, doing, copy>>
history == <<kept, mixed>>
vars == <<report, recording, procs, requests, restarts, history>>

----------------------------------------------------------------------------
Worker == "worker"
Procs == Callers \cup {Worker}
Places == {"idle", "transcribe", "read", "repair", "act", "repair again", "act again", "analyse"}

NoRecording == [source |-> "none"]

(* reportDetailResponse: processingState, the status of transcription and  *)
(* of analysis, whether there is a recording, where the summary, the       *)
(* action items and the sections after them come from, the transcript and  *)
(* its statistics, and a reader's personal note.                           *)
NoStatistics == [scores |-> Scores(0, 0), speakers |-> <<>>, trend |-> <<>>]
NewDetail(stage, trans, analysis, file) ==
  [stage |-> stage, trans |-> trans, analysis |-> analysis, file |-> file,
   summary |-> "notice", items |-> "none", sections |-> "none",
   lines |-> <<>>, stats |-> NoStatistics, note |-> "none"]
NoDetail == NewDetail("none", "none", "none", FALSE)
Exists == report # NoDetail

Contents(detail) == <<detail.summary, detail.items, detail.sections, detail.note>>

(* Words of the fallback, in a summary or in action items that the model   *)
(* or a person wrote: a summary of one section that mentions "AI analysis",*)
(* a single task to check the transcript.                                  *)
Worded == "worded"

(* How an analysis turns out: all the sections are answered, and may be    *)
(* worded like that; highlights or chapters are left out, and those of the *)
(* fallback take their place, or the model's have its words; or it fails,  *)
(* and everything is the fallback's.                                       *)
Answered == {"full", Worded, "brief"}
SummaryOf(outcome) ==
  CASE outcome = Worded -> Worded [] outcome = "failed" -> "fallback" [] OTHER -> "ai"
SectionsOf(outcome) == IF outcome \in {"full", Worded} THEN "ai" ELSE "fallback"

LabelsOf(lines) == Tuple([i \in DOMAIN lines |-> lines[i].name])
StatisticsOf(lines) == Statistics(LabelsOf(lines), recording.moods)

(* generateMeetingAnalysisFromTranscript, fallbackAnalysisFromTranscript   *)
(* (which knows no participants) and reportDetailFromAnalysis sanitize the *)
(* labels; segmentsFromTranscriptLines then renormalises them.  The names  *)
(* applyParticipantSpeakerNames writes to Speaker give way to SpeakerName. *)
Sanitize(lines, names) ==
  sanitizeTranscriptSpeakerLabels(normalizeTranscriptSpeakers(lines), names)
AnalysisLines(lines, outcome) ==
  Sanitize(lines, IF outcome \in Answered THEN recording.names ELSE <<>>)
ReportLines(lines) == segmentsFromTranscriptLines(Sanitize(lines, recording.names))

(* Mutant: the recording is not copied.                                    *)
NothingCopiedMutant(detail, lines, outcome) ==
  LET analysed == AnalysisLines(lines, outcome) IN
  [stage |-> detail.stage, trans |-> detail.trans, file |-> FALSE,
   analysis |-> IF outcome \in Answered THEN "completed" ELSE "failed",
   summary |-> SummaryOf(outcome), items |-> SummaryOf(outcome),
   sections |-> SectionsOf(outcome), lines |-> ReportLines(analysed),
   stats |-> StatisticsOf(Sanitize(analysed, recording.names)), note |-> "none"]

(* Mutant: the statistics are computed before the labels are sanitized.    *)
EarlyStatisticsMutant(detail, lines, outcome) ==
  [stage |-> detail.stage, trans |-> detail.trans, file |-> detail.file,
   analysis |-> IF outcome \in Answered THEN "completed" ELSE "failed",
   summary |-> SummaryOf(outcome), items |-> SummaryOf(outcome),
   sections |-> SectionsOf(outcome),
   lines |-> ReportLines(AnalysisLines(lines, outcome)),
   stats |-> StatisticsOf(segmentsFromTranscriptLines(lines)), note |-> "none"]

(* reportDetailFromAnalysis, whose statistics are those of the sanitized   *)
(* transcript and whose own transcript is renormalised after that, and     *)
(* copyReportArtifacts, which takes over the recording and not the notes.  *)
DetailFromAnalysis(detail, lines, outcome) ==
  LET analysed == AnalysisLines(lines, outcome) IN
  [stage |-> detail.stage, trans |-> detail.trans, file |-> detail.file,
   analysis |-> IF outcome \in Answered THEN "completed" ELSE "failed",
   summary |-> SummaryOf(outcome), items |-> SummaryOf(outcome),
   sections |-> SectionsOf(outcome), lines |-> ReportLines(analysed),
   stats |-> StatisticsOf(Sanitize(analysed, recording.names)), note |-> "none"]

(* Mutant: the status of the analysis is its outcome as it came.           *)
ReadyDetailMutant(detail, lines, outcome) ==
  [DetailFromAnalysis(detail, lines, outcome)
     EXCEPT !.stage = "ready", !.trans = "completed", !.analysis = outcome]

ReadyDetail(detail, lines, outcome) ==
  [DetailFromAnalysis(detail, lines, outcome) EXCEPT !.stage = "ready", !.trans = "completed"]

(* isFallbackReportAnalysis: one part with the words of the fallback is    *)
(* enough, whoever wrote them; so is a completed analysis of nothing.      *)
FallbackWords == {"fallback", Worded}
isFallbackReportAnalysis(detail) ==
  \/ FallbackWords \cap {detail.summary, detail.items, detail.sections} # {}
  \/ detail.summary = "none" /\ detail.sections = "none" /\ detail.analysis = "completed"

(* transcriptSpeakersHaveUnsafeLabels.                                     *)
UnsafeLabels(detail) ==
  Unknown(normalizeTranscriptSpeakers(detail.lines), recording.names) # {}

(* Mutant: every report with a transcript is repaired.                     *)
NeedsRepairMutant(detail) == detail.lines # <<>>

NeedsRepair(detail) == detail.lines # <<>> /\ isFallbackReportAnalysis(detail)

(* Mutant: the status of the analysis is left as it is.                    *)
RepairMutant(detail) ==
  [DetailFromAnalysis(detail, Sanitize(detail.lines, recording.names), "failed")
     EXCEPT !.analysis = detail.analysis]

(* repairLoadedReportAnalysis.                                             *)
Repair(detail) ==
  DetailFromAnalysis(detail, Sanitize(detail.lines, recording.names), "failed")
Repaired(detail) == IF NeedsRepair(detail) THEN Repair(detail) ELSE detail

----------------------------------------------------------------------------
Init ==
  /\ report = NoDetail
  /\ recording = NoRecording
  /\ pc = [p \in Procs |-> "idle"]
  /\ doing = [p \in Procs |-> "none"]
  /\ copy = [p \in Procs |-> NoDetail]
  /\ requests = 0 /\ restarts = 0
  /\ kept = Contents(NoDetail)
  /\ mixed = FALSE

Holds(p) == copy[p] # NoDetail
Go(p, where, what, detail) ==
  /\ pc' = [pc EXCEPT ![p] = where]
  /\ doing' = [doing EXCEPT ![p] = IF where = "idle" THEN "none" ELSE what]
  /\ copy' = [copy EXCEPT ![p] = IF where = "idle" THEN NoDetail ELSE detail]
Return(p) == Go(p, "idle", "none", NoDetail)

(* storeReport.                                                            *)
Put(p, detail) ==
  /\ report' = detail
  /\ mixed' = (mixed \/ \E q \in Procs \ {p} : Holds(q))
Store(p, detail) == Put(p, detail) /\ kept' = Contents(detail)

(* reportDetailByID: the read; a report that needs it is repaired in the   *)
(* copy, which is then stored.                                             *)
Read(p, repair, next, what) ==
  IF Exists THEN Go(p, IF NeedsRepair(report) THEN repair ELSE next, what, Repaired(report))
  ELSE Return(p)
StoreRepair(p, repair, next) ==
  /\ pc[p] = repair
  /\ Put(p, copy[p])
  /\ Go(p, next, doing[p], copy[p])
  /\ UNCHANGED <<recording, requests, restarts, kept>>

----------------------------------------------------------------------------
(* The first request makes the report, whose id is new.  reportUpload      *)
(* without a file: there is nothing to make the report of.                 *)
UploadRow ==
  /\ requests = 0 /\ requests' = 1
  /\ Store(Worker, NewDetail("saved", "not_started", "not_started", FALSE))
  /\ UNCHANGED <<recording, procs, restarts>>

(* reportRecordingUpload.                                                  *)
Upload(r) ==
  /\ requests = 0 /\ requests' = 1
  /\ recording' = r
  /\ Store(Worker, NewDetail("processing", "pending", "pending", r.file))
  /\ Go(Worker, "transcribe", "none", NoDetail)
  /\ UNCHANGED restarts

(* processUploadedRecording: speech-to-text fails or finds no words; or    *)
(* there is a transcript, which is diarized and analysed.  The worker reads*)
(* the report only now.                                                    *)
Transcribe ==
  /\ pc[Worker] = "transcribe"
  /\ \E outcome \in Answered \cup {"failed", "silent"} :
       Go(Worker, "read", outcome, NoDetail)
  /\ UNCHANGED <<report, recording, requests, restarts, history>>

(* Mutant: when it fails the report is not told.                           *)
WorkerReadsMutant ==
  /\ pc[Worker] = "read"
  /\ IF doing[Worker] = "silent" THEN Return(Worker)
     ELSE Read(Worker, "repair", "act", doing[Worker])
  /\ UNCHANGED <<report, recording, requests, restarts, history>>

WorkerReads ==
  /\ pc[Worker] = "read"
  /\ Read(Worker, "repair", "act", doing[Worker])
  /\ UNCHANGED <<report, recording, requests, restarts, history>>

(* markUploadedReportFailed.                                               *)
FailedDetail(detail) ==
  [detail EXCEPT !.stage = "failed", !.trans = "failed", !.summary = "notice",
     !.items = "none", !.sections = "none", !.lines = <<>>,
     !.stats = [@ EXCEPT !.scores.score = 0, !.speakers = <<>>]]

WorkerStores ==
  /\ pc[Worker] = "act"
  /\ LET lines == TranscribedLines(recording.said, recording.source) IN
     Store(Worker, IF doing[Worker] = "silent" THEN FailedDetail(copy[Worker])
                   ELSE ReadyDetail(copy[Worker], lines, doing[Worker]))
  /\ Return(Worker)
  /\ UNCHANGED <<recording, requests, restarts>>

----------------------------------------------------------------------------
(* reportByID: whatever is asked for, the report is read first, and "get"  *)
(* is every request that asks for no more.                                 *)
AfterRead(kind) == IF kind = "get" THEN "idle" ELSE "act"
Kinds == {"get", "edit", "personal", "personalize", "retry", "delete"}

Request(c, kind) ==
  /\ pc[c] = "idle" /\ Exists /\ requests < MaxRequests
  /\ requests' = requests + 1
  /\ Read(c, "repair", AfterRead(kind), kind)
  /\ UNCHANGED <<report, recording, restarts, history>>

Acts(c, kind) == pc[c] = "act" /\ doing[c] = kind

(* PATCH of the notes: the summary and the action items are replaced, by   *)
(* nothing perhaps, or kept (an empty list of items is one more edited     *)
(* one); renameReport, which changes what this module leaves out, keeps    *)
(* both.                                                                   *)
Edited(detail) ==
  {[detail EXCEPT !.summary = summary, !.items = items] :
     summary \in {detail.summary, "edited", Worded, "none"},
     items \in {detail.items, "edited", Worded}}
Edit(c) ==
  /\ Acts(c, "edit")
  /\ \E detail \in Edited(copy[c]) : Store(c, detail)
  /\ Return(c)
  /\ UNCHANGED <<recording, requests, restarts>>

(* reportPersonalNote, and personalizeReportSummary when the model has     *)
(* answered, read the report again and store that.                         *)
ReadAgain(c) ==
  /\ Acts(c, "personal") \/ Acts(c, "personalize")
  /\ Read(c, "repair again", "act again", doing[c])
  /\ UNCHANGED <<report, recording, requests, restarts, history>>
PersonalizeFails(c) ==
  /\ Acts(c, "personalize")
  /\ Return(c)
  /\ UNCHANGED <<report, recording, requests, restarts, history>>
Personal(c) ==
  /\ pc[c] = "act again"
  /\ \/ doing[c] = "personal" /\ Store(c, [copy[c] EXCEPT !.note = "mine"])
     \/ /\ doing[c] = "personalize"
        /\ \E words \in {"edited", Worded} : Store(c, [copy[c] EXCEPT !.summary = words])
  /\ Return(c)
  /\ UNCHANGED <<recording, requests, restarts>>

(* retryReportAnalysis.                                                    *)
RetryBegins(c) ==
  /\ Acts(c, "retry")
  /\ IF copy[c].lines = <<>>
     THEN Return(c) /\ UNCHANGED <<report, history>>
     ELSE LET detail == [copy[c] EXCEPT !.analysis = "running", !.stage = "processing"] IN
          Store(c, detail) /\ Go(c, "analyse", "retry", detail)
  /\ UNCHANGED <<recording, requests, restarts>>
(* Mutant: a retry that fails stores nothing.                              *)
RetryEndsMutant(c) ==
  /\ pc[c] = "analyse"
  /\ \/ UNCHANGED <<report, history>>
     \/ \E outcome \in Answered : Store(c, ReadyDetail(copy[c], copy[c].lines, outcome))
  /\ Return(c)
  /\ UNCHANGED <<recording, requests, restarts>>

RetryEnds(c) ==
  /\ pc[c] = "analyse"
  /\ \/ Store(c, [copy[c] EXCEPT !.analysis = "failed", !.stage = "ready"])
     \/ \E outcome \in Answered : Store(c, ReadyDetail(copy[c], copy[c].lines, outcome))
  /\ Return(c)
  /\ UNCHANGED <<recording, requests, restarts>>

(* deleteReport.                                                           *)
Delete(c) ==
  /\ Acts(c, "delete")
  /\ Store(c, NoDetail)
  /\ Return(c)
  /\ UNCHANGED <<recording, requests, restarts>>

(* A crash or a restart: goroutines are gone, the report was saved when it *)
(* was stored.  loadReports: repairStaleProcessingWithoutRecording and     *)
(* repairLoadedReportAnalysis.                                             *)
Stale(detail) ==
  /\ ~detail.file
  /\ detail.stage \in {"processing", "ready"}
  /\ detail.trans \in {"pending", "not_started"}
Loaded(detail) ==
  Repaired(IF Stale(detail)
           THEN [NewDetail("saved", "not_started", "not_started", FALSE)
                   EXCEPT !.note = detail.note, !.stats = [detail.stats EXCEPT !.speakers = <<>>]]
           ELSE detail)
Restart ==
  /\ restarts < MaxRestarts
  /\ restarts' = restarts + 1
  /\ report' = Loaded(report)
  /\ pc' = [p \in Procs |-> "idle"]
  /\ doing' = [p \in Procs |-> "none"]
  /\ copy' = [p \in Procs |-> NoDetail]
  /\ kept' = IF Stale(report) THEN Contents(report') ELSE kept
  /\ UNCHANGED <<recording, requests, mixed>>

----------------------------------------------------------------------------
WorkerStep ==
  Transcribe \/ WorkerReads \/ StoreRepair(Worker, "repair", "act") \/ WorkerStores
CallerStep(c) ==
  \/ StoreRepair(c, "repair", AfterRead(doing[c])) \/ StoreRepair(c, "repair again", "act again")
  \/ Edit(c) \/ ReadAgain(c) \/ PersonalizeFails(c) \/ Personal(c)
  \/ RetryBegins(c) \/ RetryEnds(c) \/ Delete(c)

Next ==
  \/ UploadRow
  \/ \E r \in Recordings : Upload(r)
  \/ WorkerStep
  \/ \E c \in Callers : CallerStep(c) \/ \E kind \in Kinds : Request(c, kind)
  \/ Restart

Spec == Init /\ [][Next]_vars

(* Goroutines run, and what they wait for has a timeout: one that has work *)
(* does its next step.  Every step of a goroutine changes its place, and   *)
(* at every place but "idle" it has one.                                   *)
Moves(p) == pc[p] # "idle" /\ \E where \in Places : pc' = [pc EXCEPT ![p] = where]
FairSpec == Spec /\ \A p \in Procs : WF_pc(Moves(p))

----------------------------------------------------------------------------
(* The stored report and every copy of it are details of the same kind,    *)
(* and a goroutine is in one of the places it has.                         *)
Analyses == {"none", "not_started", "pending", "running", "completed", "failed"}
DetailOK(detail) ==
  /\ DOMAIN detail = DOMAIN NoDetail
  /\ detail.stage \in {"none", "saved", "processing", "failed", "ready"}
  /\ detail.trans \in {"none", "not_started", "pending", "completed", "failed"}
  /\ detail.analysis \in Analyses
  /\ detail.file \in BOOLEAN
  /\ detail.summary \in {"notice", "none", "ai", "fallback", "edited", Worded}
  /\ detail.items \in {"none", "ai", "fallback", "edited", Worded}
  /\ detail.sections \in {"none", "ai", "fallback"}
  /\ detail.note \in {"none", "mine"}
TypeOK ==
  /\ DetailOK(report) /\ \A p \in Procs : DetailOK(copy[p])
  /\ recording \in Recordings \cup {NoRecording}
  /\ pc \in [Procs -> Places]
  /\ doing \in [Procs -> {"none", "silent", "failed"} \cup Answered \cup Kinds]
  /\ requests \in 0..MaxRequests /\ restarts \in 0..MaxRestarts
  /\ mixed \in BOOLEAN

(* The speakers of two lines can be told apart: they are labelled          *)
(* differently at first, and no participant has the first name of both,    *)
(* which is all that matchKnownParticipantName asks.                       *)
FirstLabel(label, source) ==
  normalizeSpeakerLabel(IF source = "diarization" THEN normalizeDiarizationSpeaker(label)
                        ELSE label)
ToldApart(rec, i, j) ==
  /\ FirstLabel(rec.said[i], rec.source) # FirstLabel(rec.said[j], rec.source)
  /\ Matching(rec.said[i], rec.names) \cap Matching(rec.said[j], rec.names) = {}

(* Two lines carry one label if one voice, or one person, speaks them, and *)
(* two if their speakers can be told apart: through every sanitizing,      *)
(* reading, repair, retry and restart, the labels split no speaker, and    *)
(* merge no two but those who could not be told apart from the beginning.  *)
LabelsFollowSpeakers ==
  \A i, j \in DOMAIN report.lines :
    LET alike == report.lines[i].name = report.lines[j].name IN
    /\ recording.said[i] = recording.said[j] => alike
    /\ ToldApart(recording, i, j) => ~alike

(* A line is given the name of a person only if a participant has it:      *)
(* words of the meeting never become names.  And so no stored report is    *)
(* one that repairLoadedReportAnalysis would relabel.                      *)
NamesAreKnown ==
  /\ \A i \in DOMAIN report.lines :
       LET label == report.lines[i].name IN
       isGenericSpeakerName(label) \/ label \in {recording.names[k] : k \in DOMAIN recording.names}
  /\ report.lines # <<>> => ~UnsafeLabels(report)

(* The scores, the shares and the trend of a report are those of the       *)
(* transcript it is stored with, however often it is relabelled.  They are *)
(* made before the transcript's labels are normalised for the last time:   *)
(* normalising the labels of the statistics once gives the transcript's,   *)
(* one for one.                                                            *)
StatsAreOfTranscript ==
  report.lines # <<>> =>
    LET stats == report.stats
        own   == StatisticsOf(report.lines)
    IN /\ stats.scores = own.scores /\ stats.trend = own.trend
       /\ \A s \in DOMAIN stats.speakers :
            /\ normalizeSpeakerLabel(s) \in DOMAIN own.speakers
            /\ stats.speakers[s] = own.speakers[normalizeSpeakerLabel(s)]
       /\ \A label \in DOMAIN own.speakers :
            \E s \in DOMAIN stats.speakers :
              {t \in DOMAIN stats.speakers : normalizeSpeakerLabel(t) = label} = {s}

(* The trend is that of the whole meeting: each line counts in one point   *)
(* of it, each point has lines, and there are twelve points at most, and   *)
(* no more than computeSentimentTrend meant to make.                       *)
TrendIsWhole ==
  report.lines # <<>> =>
    LET n == Len(report.lines)
        points == DOMAIN report.stats.trend
        Counted(i) == {k \in points : i \in Bucket(n, k)}
    IN /\ \E c \in 1..Lesser(12, BucketCount(n)) : points = 1..c
       /\ \A i \in DOMAIN report.lines : Counted(i) \in {{k} : k \in points}
       /\ \A k \in points : Bucket(n, k) # {}

(* A report keeps its recording for as long as it exists, whether          *)
(* processing, analysing or repairing it fails or not.                     *)
RecordingStays == Exists /\ recording # NoRecording => report.file = recording.file

(* An analysis that is called completed is not the fallback's, and belongs *)
(* to a transcript.                                                        *)
StatusMatchesContents ==
  report.analysis = "completed" =>
    report.trans = "completed" /\ report.lines # <<>> /\ report.summary # "fallback"

(* Requests that do not overlap lose nothing: reading a report, any number *)
(* of times and across restarts, leaves the summary, the action items, the *)
(* sections and the note as the last writer stored them -- if no part of   *)
(* them has the words of the fallback, by which a read takes it for one.   *)
ReadsKeepContents ==
  Exists /\ ~mixed /\ FallbackWords \cap {kept[1], kept[2], kept[3]} = {} =>
    Contents(report) = kept

(* Requests that do not overlap leave no report waiting for nobody: one in *)
(* processing has a worker, or a retry, that will store what becomes of it.*)
(* Only a restart may take that away.                                      *)
ProcessingIsWorkedOn ==
  report.stage = "processing" /\ ~mixed /\ restarts = 0 =>
    pc[Worker] # "idle" \/ \E c \in Callers : pc[c] = "analyse"

(* A report in processing leaves that stage, unless the backend is         *)
(* restarted or an overlapping request stores it back.                     *)
Settles ==
  report.stage = "processing" ~> report.stage # "processing" \/ mixed \/ restarts > 0

(* reports_test.go: an analysis without highlights and chapters is valid.  *)
(* The summary the model wrote stays until a writer replaces it.           *)
ValidAnalysisIsKept ==
  Exists /\ ~mixed /\ kept[1] = "ai" => report.summary = "ai"

(* README.md, diarization/README.md: the voices the diarization service    *)
(* splits are exposed as Speaker 1, Speaker 2, and so on.  However many    *)
(* there are, two voices are two speakers.                                 *)
VoicesStayApart ==
  recording # NoRecording /\ recording.source = "diarization" =>
    \A i, j \in DOMAIN report.lines :
      report.lines[i].name = report.lines[j].name => recording.said[i] = recording.said[j]
=============================================================================
