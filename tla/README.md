# AlemLive: TLA+ models of meetings, recordings and reports

AlemLive runs video meetings on LiveKit. A Go backend (`backend/`) lets people
into rooms, starts and stops LiveKit Egress recordings, receives LiveKit's
webhooks, and turns a finished recording into a report: download, speech to
text (STT), diarization, an LLM analysis. A React frontend and a Flutter app
show rooms and reports and follow both over WebSockets.

This directory holds TLA+ models of the backend's concurrent core and of the
computations a report is made by, the TLC configurations that check them on
small instances, and TLAPS proofs about five of them. `PROJECT.json` maps every
definition to the lines it models and lists runs, mutants, findings, hazards and
theorems.

## Inventory

| component | state it keeps | operations | what is hard | models |
|---|---|---|---|---|
| recording registry, `internal/livekit/egress.go` | `active` and `history`, a map entry per room, under one mutex | StartRoomComposite, StartParticipantTracks, AddParticipantTrack, StopRoom, Status, UpdateFromInfo | the mutex is released around calls to LiveKit; calls time out after LiveKit has acted; webhooks are late, reordered, repeated; restart | `EgressManager` |
| event subscribers, `httpapi/rooms.go`, `report_events.go` | sets of clients, a channel of 16 events each | register, opening events, broadcast, `writePump`, unregister | close against send, full buffers, order of broadcasts, goroutines left behind | `EventClients`, `EventFeed` |
| meeting sessions, `httpapi/conference_sessions.go` | `activeMeetings`, `latestRoomReports` | recordConferenceEvent (created, joined, left, ended), resume after a restart | who ends a session, which report it belongs to | `MeetingReports` |
| reports, `httpapi/reports.go`, `report_storage.go` | `generatedReports` (rows), `generatedReportStore` (details), a JSON file | storeReport, rename, notes, retry, delete, load and repair | two copies of a row; every edit stores a copy read in an earlier critical section; a read may store as well | `MeetingReports`, `ReportContents` |
| recording pipeline, `httpapi/egress.go` | `egressProcessing` | roomRecording (start, stop), liveKitWebhook, scheduleEgressRecordingProcessing, processEgressRecording | the end of one recording is reported several times; each step may fail or find its report gone | `MeetingReports` |
| rooms, `httpapi/rooms.go` | `rooms`: participants, owner, device times, recording state, report id | create, join, leave, participant controls, device states, participant webhooks | LiveKit and HTTP both say who is there; snapshots are written back | `Rooms`, `Meeting` |
| report uploads, `httpapi/reports.go` | a report in "processing" and a goroutine | reportUpload, reportRecordingUpload, processUploadedRecording | the same read-then-store, no resumption after a crash | `ReportContents` |
| transcripts, speakers, scores, `transcription.go`, `diarization.go`, `speaker_attribution.go`, `scoring.go` | none | labels are read and written again by every stage; scores, shares and trend computed from them | a relabelling that merges or splits speakers, boundaries of the arithmetic | `SpeakerLabels`, `MeetingScores`, used by `ReportContents` |
| chat history, mobile app, authentication, AI, configuration, tokens, diarization service, web frontend | a file; caches; what is shown | | | not modelled, see below |

How they interact. An HTTP request is a goroutine. A join updates the room,
then the session and its report (one critical section of `reportsMu`), then the
room's report id, then the report's participants (a read and a later store). A
start or stop calls the registry, which calls LiveKit, then marks the report and
appends to it (another read and store). A stop, the last leave and every
terminal webhook schedule the same pipeline, which runs in a goroutine of its
own and edits the report a dozen times. Every change is broadcast to the
subscribers after it was made. `PROJECT.json` lists under "hazards" where this
can go wrong, at its line, with the properties that watch it, or why none does.

## Modules

`EgressManager` follows one room: the operations of the registry read and write
the entries of their own room only (with one exception: a track's webhook whose
room has no entry searches the other rooms; the model adopts the egress, as the
code does when the search finds nothing). A request (`Callers`) has a program
counter and local copies; each critical section and each call to LiveKit is a
step. LiveKit is external: `target` and `progress` are what its egresses really
do, `notices` the webhooks it has sent. A call may be accepted, be refused, or
fail after LiveKit has acted. The four terminal statuses of LiveKit are one,
"ended", because the registry treats them alike. That Egress is configured is
assumed: otherwise every operation returns at once. `startedAt` is whether the
entry has a start time, `waited` the egresses a stop has seen run for 15 seconds.

| code | actions |
|---|---|
| StartRoomComposite, StartParticipantTracks | StartCheck, StartComposite, StartFails, StartTrack, StartStore |
| AddParticipantTrack | AddCheck, AddRequest, AddStore |
| StopRoom, stopTrackEgresses | StopCheck, StopWait, StopAccepted, StopAlready, StopRejected, StopTimesOut, StoreAccepted, StopTrack, StopStore |
| UpdateFromInfo, updateTrackFromInfo | Webhook |
| process restart | Restart |

`EventClients` is either registry of WebSocket subscribers; the rooms' sends two
opening events, the reports' one (`Openings`). A channel is the sequence of
everything put into it and the count of what was taken out, so that what a
client has seen is not forgotten. `EventFeed` is the abstract promise: a client
sees broadcasts made since it subscribed, each at most once, in order. What is
promised begins with the registration: the snapshot the opening events are made
of is taken before it, and a change in between reaches the client in neither
(the models do not have the snapshot).

`MeetingReports` follows the reports of one room. A report is a row in the list,
a detail that contains the row, and the names the room, the session and
`latestRoomReports` have for it. A row is three statuses; of the rest of a
detail the model keeps whether the file of a recording and a transcript are
known. Callers are requests and webhooks, workers the goroutines of
processEgressRecording. A mark (setConferenceReportPipelineState) and a session
event are one critical section, every other edit is a `Read` and a later
`Write` of the copy. The reads and writes of edits that change neither status
nor file (participants, warnings, title, notes) are there without what they
write (`Touches`), since the copy they store is what matters. `SttConfigs` says
whether STT may be configured; it is chosen once. Assumed: Egress is configured,
the room has a name, the disk works. Uploads, the retry of an analysis and what
the report of an upload contains are `ReportContents`.

| code | actions |
|---|---|
| createRoom, joinRoom, createLiveKitToken, meetingEvent | Join, JoinRemembered |
| leaveRoom, meetingEvent | Leave, LeaveAnswered |
| roomRecording | StartRequest, StartAnswered, StopRequest, StopAnswered |
| liveKitWebhook | Webhook, Find |
| setConferenceReportPipelineState | Find, Mark |
| recordEgressPipelineState and Error, markEgressReportFailed, syncReportParticipantsFromSnapshot, rename, notes | Touch, Read, Write |
| deleteReport | Delete |
| scheduleEgressRecordingProcessing | Schedule, AlreadyScheduled |
| processEgressRecording | Begin, Adopt, StoreAdopted, Read, Write, StoreResult, Finish |
| loadReports | Restart |

`Rooms` is one room. Who is in it, who owns it, how long each device was off,
the recording state and the report id that are shown, and what the requests
that wait have left to write back. `now` is the clock in ticks. Three auxiliary
variables say what the code should know: who joined and has not left (`inside`),
who attended the meeting (`attended`), and for how many ticks a device was off
(`dark`). The recording state is busy or idle, the two the code treats
differently; names and the ids of audio tracks are left out. `Meeting` is the
abstract promise: who is present, who is listed, and a host who keeps the place
until leaving, unless somebody who enters takes it. `inside`, the participants
and the owner of `Rooms` are its three variables.

| code | actions |
|---|---|
| createRoom, joinRoom, joinRoomState | Join (JoinNew, JoinOpen), JoinRemembered |
| createLiveKitToken | Join, JoinRemembered |
| leaveRoom, leaveRoomState | Leave (LeaveEntry, LeaveMedia), LeaveAnswered |
| applyParticipantControl, applySelfDeviceState | ApplyDeviceState |
| upsertRoomParticipantFromLiveKit | ParticipantWebhook |
| roomRecording, roomRecordingStatusPayload, setRoomRecordingState | RecordingRequest, RecordingAnswered, StatusAnswered |
| liveKitWebhook, publishRoomRecordingReady | EgressWebhook, PublishReady |
| process restart, time | Restart, Tick |

`ReportContents` is one report as a reader sees it, made of one uploaded
recording: the stage, the statuses of transcription and analysis, where the
summary, action items and sections come from (an LLM, the fallback, a reader),
the transcript's labels, the statistics, a personal note. A recording is a
constant: whether its file is kept, where its labels come from, what is said in
it. A summary or an action item that has the words by which the code recognises
the fallback is "worded", whether the LLM or a reader wrote it, since that is
all `isFallbackReportAnalysis` looks at. The statistics are made of the
sanitized transcript, before its labels are normalised for the last time. `kept`
and `mixed` are history: what the last writer other than a read stored, and
whether a goroutine stored while another one held a copy. The worker is
processUploadedRecording.

The report of a meeting is given its contents by the same functions, but by
other writers besides: the session and the steps of the pipeline write its
statuses at any time, and may send it back to processing when nobody works on
it (finding 3). Those are `MeetingReports`; nothing `ReportContents` states is
claimed of a meeting's report.

| code | actions |
|---|---|
| reportUpload, reportRecordingUpload | UploadRow, Upload |
| processUploadedRecording, markUploadedReportFailed | Transcribe, WorkerReads, StoreRepair, WorkerStores |
| reportByID, reportDetailByID with repairLoadedReportAnalysis | Request, StoreRepair |
| PATCH of the notes, renameReport | Edit |
| reportPersonalNote, personalizeReportSummary | ReadAgain, Personal, PersonalizeFails |
| retryReportAnalysis | RetryBegins, RetryEnds |
| deleteReport | Delete |
| loadReports, normalizeLoadedReport | Restart |

`SpeakerLabels` and `MeetingScores` are the pure functions ReportContents calls.
A label is a person, "Speaker", or "Speaker" with a number that may be written
with leading zeros: that is what the patterns and comparisons of the code tell
apart. Nothing of them is recursive: a loop that numbers unknown speakers in the
order of their first lines is a count of the first lines before, and the buckets
of a trend are intervals. The lines of a participant's own track, which only a
meeting has and whose labels are taken on trust, are left out.

`EventClientsProofs`, `EgressManagerProofs`, `EgressTracksProofs`,
`MeetingReportsProofs`, `RoomsProofs`, `ReportContentsProofs` and
`ReportLabelsProofs` hold the proofs, the modules beginning with `MC` the
instances for TLC.

The operators ending in `Mutant` are the definitions with a plausible mistake
each; no specification uses them. `PROJECT.json` pairs each with the property
that finds it.

## Runs

| run | result | properties | question |
|---|---|---|---|
| `egress_tracks` | pass | TypeOK, ActiveIsUnfinished, TracksListedOnce, EndedIsTrue, StopNamesWhatRuns | a composite and two tracks, one added while the room is recorded; webhooks of several kinds between the steps |
| `egress_requests` | pass | ActiveMirrorsHistory, StopReleasesWhatEnded, ReleasesItsOwn | two requests at once, a restart, webhooks in any order and repeated |
| `egress_first_frame` | violated | StopWaitsForFirstFrame | finding 1 |
| `egress_stop_answer` | violated | ReleasedMeansEnded | finding 2 |
| `event_clients` | pass | TypeOK, NoSendOnClosed, NothingMissed, WedgedOnlyWhenFlooded, FeedSpec, CleansUp, Delivers | subscribers that come and go, a buffer that overflows |
| `reports` | pass | TypeOK, StoresAgree, SessionHasPeople, TranscriptHasRecording, OneWorkerPerRecording, GoroutinesAdvance, NothingNewRevives, GoroutinesFinish | a meeting from its first join to its report: edits, deletion, failures, a recording whose end is reported twice, restarts |
| `report_file` | violated | FileIsProcessed | finding 3 |
| `report_delete` | violated | DeletedIsGone | finding 4 |
| `rooms` | pass | TypeOK, HasHost, ClosedIsLeft, EverybodyHasShares, OffTimeIsExact, ReportKept, MeetingSpec | two users, webhooks about them at any time, a request that writes back what it knew |
| `report_contents` | pass | TypeOK, LabelsFollowSpeakers, NamesAreKnown, StatsAreOfTranscript, TrendIsWhole, RecordingStays, StatusMatchesContents, ReadsKeepContents, ProcessingIsWorkedOn, Settles | the report of an upload made, read, edited, retried, deleted and reloaded by requests that overlap |
| `report_read` | violated | ValidAnalysisIsKept | finding 5 |
| `report_voices` | violated | VoicesStayApart | finding 6 |

Each property of a passing run has a mutant in `PROJECT.json`: a plausible
mistake in the definition of some code, under which that run finds the property
violated.

Bounds. `MaxEgress` bounds LiveKit's egresses. `egress_requests` has two, an
earlier and a later recording, which is what stale entries need, two callers and
one restart (`MaxRestarts`), with webhooks repeated (`Redelivery`).
`egress_tracks` has three, a composite and two tracks, so that a track is added
to a composite that already records another; with one caller, without restarts,
and with one webhook on its way at a time (`MaxNotices`), since it would be too
large with webhooks in any order, which the other run has. In `EventClients` the
buffer is as small as the opening events allow, so that few broadcasts fill it;
`MaxBroadcasts` is more than overflows it. In `MeetingReports`, `MaxRequests`
bounds how many requests and webhooks are sent in a behaviour: three of them,
by two callers, next to two workers, two users and a restart that may come at
any time; a start, a stop and a webhook, or a join, an edit and a deletion, and
recordings that end without either. One meeting's report (`MaxReports`) and the
report a recording makes for itself are two reports; a second recording or
meeting adds no new kind of write. The runs of the findings have what their
counterexample needs. `Rooms` has two users, so that ownership passes on, one
device, one waiting request and two ticks (`MaxTime`), enough for a share that
is neither none nor all. `ReportContents` has two recordings: one is diarized
and has its file, with the first and the tenth voice and a line without one; the
other, without file, has labels found by speech-to-text: two of nobody, one of
them repeated, and two that cannot be told apart among others that can. The tenth
voice is there because numbers of two digits are raised at every normalisation.
Two callers, four requests and one restart: the upload, two requests that may
overlap in any way, and of the diarized recording one more read when all is
quiet (`FewerRequests`), which finds what the others left.
`report_voices` has one recording of eleven
voices. The registry's runs use symmetry over callers and tracks, which the
specification treats alike; they check no liveness.

Deadlock. The models stop when their bounds are used up, or when a subscriber's
handler is blocked for good, so `CHECK_DEADLOCK FALSE` is set where that may be;
what must go on is stated as liveness.

Fairness. A goroutine that can run is scheduled, and every call to LiveKit, STT,
the LLM and the object store has a timeout (15 s for a start, 45 s for a stop,
the configured processing timeout), so the steps of a request that has begun,
of `writePump`, of a subscriber's handler and of a worker are weakly fair.
Nobody has to join, leave, press a button, broadcast, disconnect or send a
webhook, LiveKit does not have to end a recording, and the backend does not have
to restart. In `ReportContents` fairness is stated as that of a goroutine that
is not idle changing its place, which every one of its steps does.

## Findings

1. `waitForMinRecordingDuration` is meant to keep StopEgress from being called
   before the first frame. The webhook of an egress that is still starting
   replaces the entry by one without a start time; then there is no wait.
2. The terminal webhook of an earlier egress deletes the active entry of a later
   one (ids are not compared). A stop then answers from the ended history, and
   the recording keeps running, as the comment on stopRoomRecording fears. By
   ReleasesAreOwn this is the only way but a restart: what is about the active
   egress itself never releases the room while that egress records.
3. An edit stores a whole report from an older copy. Participants synchronised
   by a leave can overwrite the pipeline's outcome with "processing", and
   nothing will process the report again. A crash while a report with a known
   file is in "processing" has the same end (the repair skips it), and so has a
   last leave after the pipeline has finished.
4. An edit that read a report before it was deleted stores it again. By
   DeletionsAreFinal only what was at work on the report when it was deleted can.
5. Where the LLM left out the highlights or chapters, those of the fallback are
   filled in. The next read, or restart, takes one such part for the sign of a
   failed analysis: it replaces the summary and the action items too, and marks
   the analysis failed. The sign is words, so the same happens to what the LLM
   or a reader wrote in one section that mentions "AI analysis", or as a single
   task to check the transcript. By ReadsKeep nothing else is lost by reading.
6. The number of a voice is raised by one only if it is 0 or has a leading zero:
   SPEAKER_09 and SPEAKER_10 are both "Speaker 10", and two people become one.
   By TenVoicesStayApart this takes an eleventh voice. With ten, the
   transcript's last normalisation comes after the statistics: the number the
   tenth voice has there is one less than in the transcript. By StatisticsMatch
   the two still correspond one for one.

## Proofs

All are for every value of the constants; assumed are only the named
assumptions of the modules: bounds are numbers, special values such as "none",
"room" or "worker" are not tracks or requests, ids are positive, a recording
has a line, its voices have numbers and its lines one of three moods, and its
participants are persons.

`EgressManagerProofs`: TypeCorrect, MapsAgree, HeldIsUnfinished, EndsAreReal and
StopIsHonest, with and without redelivery of webhooks. The inductive invariant
adds to the properties what each step of a request relies on: what kind of entry
it holds where it is, that an egress named anywhere has been launched, that a
webhook in flight tells the truth about an egress that has gone at least that
far, and that an ended egress stays ended. EndedIsTrue alone is not inductive: a
webhook writes into the entry what it was told, so the truth of the webhooks has
to be part of the invariant. The action property ReleasesAreOwn follows from it:
a room is released by a stop whose answer, or by a webhook whose news, is that
its egress has ended, and news are true.

`EgressTracksProofs`: TracksAreListedOnce, by an invariant of its own on top of
the types. Upsert may replace a record that does not name its egress yet, so it
is needed that such a record is alone with its track, in the maps and in the
copy of every request, and that a request starts only tracks its copy does not
list. StopsAreNamed says that none of the tracks a stop has been through
records unless the stop lists it as "stopping"; it uses that a request's list
names each egress once, so that going on to the next track changes nothing said
of the last, and that LiveKit's egresses only go onward, so that a track found
ended stays so. RequestsGoForward is an action property that no run checks: each
step of a request lowers a measure of the calls it has left, or takes a track
off its lists.

`EventClientsProofs`: TypeCorrect, SendsAreSafe, NothingIsMissed,
BlocksWhenFlooded (a handler blocks only after more broadcasts since its
registration than its channel has room for beside the opening events), and
ImplementsFeed, that EventClients refines EventFeed under the mapping of `seen`
to the broadcasts a client has been written. The invariant
ties the registry to the handler's place, and orders the contents of each
channel.

`MeetingReportsProofs`: TypeCorrect, StoresMatch, SessionsHavePeople,
TranscriptsHaveRecordings and OneWorkerEach. That a transcript has its recording
is not inductive by itself: a copy is stored later, so it is required of the
copies as well; and that a recording has one worker needs that a worker holds a
recording exactly while it works. GoroutinesGoForward is the safety half of
GoroutinesFinish, an action property: each step of a goroutine lowers a bound on
the steps it has left, at most 24. It needs that the edit a goroutine is at is
one its place allows. DeletionsAreFinal is another: what is at work on a deleted
report only becomes less, because whatever begins to work on a report has found
it stored or makes a new one.

`RoomsProofs`: TypeCorrect, RoomHasHost, RoomsCloseEmpty, NobodyIsForgotten,
OffTimesAreExact and ReportIsKept. The types need the exactness of the times,
since a sum of durations is bounded only because it is part of the time a user
was there; that a percentage is one follows from the same. ImplementsMeeting is
the refinement of `Meeting`, action by action: a join is an Enter, a leave an
Exit, a webhook about a participant an Appear, a restart makes everything
vanish, and all else changes none of the three variables. It needs ClosedIsLeft,
so that a meeting that begins anew takes nobody's presence away, and HasHost, so that only the owner can be the last to leave an owned room.

`ReportContentsProofs`: TypeCorrect, RecordingsStay, StatusesMatch, NamesKnown,
ReadsKeep and ProcessingGoesOn. A report is built in a copy and stored later, and
any read may build it anew, so the invariant says of every copy what it says of
the report: its recording, statuses and transcript are of one piece. Behind it
are lemmas about the functions of SpeakerLabels, among them that a transcript's
labels are persons only where a participant has the name, through every
normalisation. ReadsKeep adds that, unless requests overlap, the contents are
what the last writer stored as long as they have none of the words of the
fallback, and that a repair is due only of a report that has them.
ProcessingGoesOn is the safety half of Settles: while no stores are mixed and
nothing restarts, a copy is "processing" only if the stored report is, so no
store puts a report back into processing after its goroutine has gone.

`ReportLabelsProofs`: LabelsFollow, TenVoicesStayApart, StatisticsMatch and
TrendsAreWhole. LabelsFollowSpeakers speaks of a stored report; its invariant
requires of every copy that its labels are proper ones, that one speaker has
one, and that any two speakers have two if they could be told apart at first,
whoever else speaks. The lemmas show that each stage (the first labels,
sanitizing by names, numbering unknown speakers, normalising) keeps this. The
labels of ten voices numbered from 0 are shown to be different by cases, so they
can be told apart. StatisticsMatch adds to that invariant that the statistics are
those of the transcript as it was before the last normalisation. It rests on two
lemmas: statistics do not depend on what the speakers are called, as long as
different ones keep different names, and normalising proper labels keeps
different ones different. TrendsAreWhole rests on arithmetic of quotients: the
number of buckets and their size are such that line `i` is in bucket
`(i - 1) \div size + 1` and in no other.

Only model-checked: liveness (CleansUp, Delivers, GoroutinesFinish, Settles),
which is out of the prover's reach, as ENABLED is. That the goroutines of
MeetingReports, and the requests of EgressManager, cannot step forever is
proved; that they do take their steps is the fairness TLC assumes.

## What the models do not cover

`PROJECT.json` lists under "hazards" what can go wrong, at its line. Some of it
no property watches, for one of three reasons. Nothing in the repository says
what should happen: a track added while StopRoom waits is dropped; after a
restart the registry does not know of a running recording; when the last leave's
stop fails nobody is told. Two modules would have to be composed: the order of a
report's events against its stores, the snapshot a subscriber is opened with,
the report a recording is filed with when a new meeting has begun, and the
device shares that meeting replaces, and what a meeting's report contains while
session and pipeline write its statuses. Or the model abstracts it: report ids that
are equal within a second, a disk that fails, the data race on audio track ids.

Not modelled, and why:

- chat history (`storage/chathistory.go`): each operation reads, changes and
  rewrites the file inside one critical section, nothing interleaves;
- keywords, time stamps and words of a transcript, names inferred from
  introductions: text, and the sanitizing that follows replaces such names;
- the contents of a meeting's report, and the labels of participants' own tracks,
  which only such a report has: see ReportContents above;
- AI prompts and parsing (`ai.go`, `llm/client.go`): an analysis is full, is
  worded like the fallback, is brief, or fails;
- authentication: sessions are Keycloak's, the backend forwards and verifies
  tokens;
- HTTP routing, configuration, LiveKit tokens: no state of their own;
- the diarization service: stateless, around a neural network;
- the mobile app and the web frontend: they show what the backend last
  answered; the order of the events they get is EventFeed's.

## Order of work

Modelled first was what concurrency makes hardest, the registry; then the
subscribers and their abstract feed, the reports and the pipeline, rooms, and
the contents of reports with the computations they rest on. Next would be the
compositions: EgressManager with MeetingReports, so that a recording is filed
with the meeting it was made in; Rooms with EventClients and the app's sync
controller, for what a screen shows once everything is quiet; MeetingReports with
ReportContents, for what a meeting's report contains, and Rooms with both, for
the device shares. Of proofs, the same steps forward could
be proved of the goroutines of ReportContents and of a subscriber's handler.
