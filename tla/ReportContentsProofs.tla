------------------------ MODULE ReportContentsProofs ------------------------
(***************************************************************************)
(* Proofs about ReportContents: for every set of recordings, any number of *)
(* requests at work, requests sent and restarts, what is stored of a       *)
(* report is of one piece: its recording, its statuses, its contents and   *)
(* its transcript.                                                         *)
(*                                                                         *)
(* A report is built in a goroutine's copy and stored later, and a read    *)
(* may build it anew: every copy is as sound as the stored report is.      *)
(***************************************************************************)
EXTENDS ReportContents, WellFoundedInduction, NaturalsInduction, TLAPS

----------------------------------------------------------------------------
(* Transcripts have lines.                                                 *)

HasLines(lines) == lines # <<>> /\ \E S : lines \in Seq(S)

(* The tuple of a sequence has lines if that has.                          *)
LEMMA TupleHasLines ==
  ASSUME NEW S, NEW f \in Seq(S), f # <<>>
  PROVE  HasLines(Tuple(f))
<1>1. Len(f) \in Nat \ {0}
  OBVIOUS
<1>2. SubSeq(f, 1, Len(f)) \in Seq(S) /\ Len(SubSeq(f, 1, Len(f))) = Len(f)
  BY <1>1
<1> QED BY <1>1, <1>2 DEF HasLines, Tuple

(* normalizeTranscriptSpeakers keeps the lines.                            *)
LEMMA NormalizedHasLines ==
  ASSUME NEW lines, HasLines(lines)
  PROVE  HasLines(normalizeTranscriptSpeakers(lines))
<1> PICK S : lines \in Seq(S)
  BY DEF HasLines
<1> DEFINE f == [i \in DOMAIN lines |->
                   Line(normalizeSpeakerLabel(lines[i].speaker), lines[i].name)]
<1>1. f \in Seq({f[i] : i \in DOMAIN lines}) /\ f # <<>>
  BY DEF HasLines
<1> HIDE DEF f
<1>2. HasLines(Tuple(f))
  BY <1>1, TupleHasLines
<1> QED BY <1>2 DEF normalizeTranscriptSpeakers, f

(* Sanitize keeps the lines.                                               *)
LEMMA SanitizedHasLines ==
  ASSUME NEW lines, NEW names, HasLines(lines)
  PROVE  HasLines(Sanitize(lines, names))
<1> DEFINE normal == normalizeTranscriptSpeakers(lines)
           label(i) == SanitizedLabel(normal, names, i)
           f == [i \in DOMAIN normal |-> Line(label(i), label(i))]
<1>1. HasLines(normal)
  BY NormalizedHasLines
<1> HIDE DEF normal
<1> PICK S : normal \in Seq(S)
  BY <1>1 DEF HasLines
<1>2. f \in Seq({f[i] : i \in DOMAIN normal}) /\ f # <<>>
  BY <1>1 DEF HasLines
<1>3. Sanitize(lines, names) = Tuple(f)
  BY DEF Sanitize, sanitizeTranscriptSpeakerLabels, normal
<1> HIDE DEF f
<1>4. HasLines(Tuple(f))
  BY <1>2, TupleHasLines
<1> QED BY <1>3, <1>4

(* The lines of a report: those of its transcript.                         *)
LEMMA ReportHasLines ==
  ASSUME NEW lines, HasLines(lines), NEW outcome
  PROVE  HasLines(ReportLines(AnalysisLines(lines, outcome)))
<1> DEFINE sane == Sanitize(AnalysisLines(lines, outcome), recording.names)
           f == [i \in DOMAIN sane |-> Line(LabelOf(sane[i]), LabelOf(sane[i]))]
<1>1. HasLines(AnalysisLines(lines, outcome))
  BY SanitizedHasLines DEF AnalysisLines
<1>2. HasLines(sane)
  BY <1>1, SanitizedHasLines
<1>3. ReportLines(AnalysisLines(lines, outcome)) = Tuple(f)
  BY DEF ReportLines, segmentsFromTranscriptLines
<1> HIDE DEF sane
<1> PICK S : sane \in Seq(S)
  BY <1>2 DEF HasLines
<1>4. f \in Seq({f[i] : i \in DOMAIN sane}) /\ f # <<>>
  BY <1>2 DEF HasLines
<1> HIDE DEF f
<1>5. HasLines(Tuple(f))
  BY <1>4, TupleHasLines
<1> QED BY <1>3, <1>5

(* A tuple is the sequence it is made of.                                  *)
LEMMA TupleIsSequence ==
  ASSUME NEW S, NEW f \in Seq(S)
  PROVE  Tuple(f) = f
<1>1. Len(f) \in Nat /\ SubSeq(f, 1, Len(f)) \in Seq(S) /\ Len(SubSeq(f, 1, Len(f))) = Len(f)
  OBVIOUS
<1>2. \A i \in 1..Len(f) : SubSeq(f, 1, Len(f))[i] = f[i]
  BY <1>1
<1> QED BY <1>1, <1>2 DEF Tuple

----------------------------------------------------------------------------
(* Transcripts name only those they may.                                   *)

NamesOf(rec) == {rec.names[k] : k \in DOMAIN rec.names}

(* A label is a participant's name, or not a name.                         *)
KnownLabel(label, rec) == isGenericSpeakerName(label) \/ label \in NamesOf(rec)

Labelled(lines, rec) == \A i \in DOMAIN lines : KnownLabel(lines[i].name, rec)

(* The name of a person is its label.                                      *)
LEMMA PersonIsLabel ==
  ASSUME NEW line, line.name.kind = "person"
  PROVE  LabelOf(line) = line.name
BY DEF LabelOf, normalizeSpeakerLabel, NoLabel

(* A set of positions has a least one.                                     *)
LEMMA LeastIsIn ==
  ASSUME NEW S \in SUBSET Nat, S # {}
  PROVE  Least(S) \in S
<1>1. PICK m \in S : \A n \in S : ~(<<n, m>> \in OpToRel(<, Nat))
  BY NatLessThanWellFounded, WFMin
<1>2. ASSUME NEW n \in S PROVE m <= n
  <2>1. ~(n < m)
    BY <1>1 DEF OpToRel
  <2> QED BY <2>1
<1> QED BY <1>2 DEF Least

(* A label that is matched gives way to the name of a participant.         *)
LEMMA MatchIsName ==
  ASSUME NEW S, NEW names \in Seq(S), NEW label, Matching(label, names) # {}
  PROVE  \E k \in DOMAIN names : matchKnownParticipantName(label, names) = names[k]
<1>1. Matching(label, names) \subseteq DOMAIN names /\ DOMAIN names \subseteq Nat
  BY DEF Matching
<1>2. Least(Matching(label, names)) \in Matching(label, names)
  BY <1>1, LeastIsIn
<1> QED BY <1>1, <1>2 DEF matchKnownParticipantName

(* Normalising leaves the names as they are.                               *)
LEMMA NormalizedNames ==
  ASSUME NEW lines, HasLines(lines)
  PROVE  LET normal == normalizeTranscriptSpeakers(lines) IN
         /\ DOMAIN normal = DOMAIN lines /\ \E S : normal \in Seq(S)
         /\ \A i \in DOMAIN lines : normal[i].name = lines[i].name
<1> DEFINE e(i) == Line(normalizeSpeakerLabel(lines[i].speaker), lines[i].name)
           f == [i \in DOMAIN lines |-> e(i)]
           normal == normalizeTranscriptSpeakers(lines)
<1>1. PICK S : lines \in Seq(S)
  BY DEF HasLines
<1>2. f \in Seq({e(i) : i \in DOMAIN lines})
  BY <1>1
<1>3. normal = Tuple(f)
  BY DEF normalizeTranscriptSpeakers
<1>4. normal = f
  <2> HIDE DEF f, normal
  <2> QED BY <1>2, <1>3, TupleIsSequence
<1>5. DOMAIN f = DOMAIN lines /\ \A i \in DOMAIN lines : f[i].name = lines[i].name
  BY DEF Line
<1> HIDE DEF f, normal
<1>6. normal \in Seq({e(i) : i \in DOMAIN lines})
  BY <1>2, <1>4
<1> QED BY <1>4, <1>5, <1>6 DEF normal

LEMMA NamesArePersons ==
  ASSUME NEW rec \in Recordings
  PROVE  \A name \in NamesOf(rec) : name.kind = "person"
<1>1. \A k \in DOMAIN rec.names : rec.names[k].kind = "person"
  BY RecordingsAssumption
<1> QED BY <1>1 DEF NamesOf

(* A known label is a label for good.                                      *)
LEMMA KnownStaysKnown ==
  ASSUME NEW rec \in Recordings, NEW line, KnownLabel(line.name, rec)
  PROVE  KnownLabel(LabelOf(line), rec)
<1>1. \A name \in NamesOf(rec) : name.kind = "person"
  BY NamesArePersons
<1>2. CASE line.name.kind = "person"
  BY <1>2, PersonIsLabel
<1>3. CASE isGenericSpeakerName(line.name)
  <2>1. isGenericSpeakerName(LabelOf(line))
    BY <1>3 DEF isGenericSpeakerName, LabelOf, normalizeSpeakerLabel, NoLabel, Bare,
                Speaker, Voice
  <2> QED BY <1>3, <2>1 DEF KnownLabel, isGenericSpeakerName
<1> QED BY <1>1, <1>2, <1>3 DEF KnownLabel

(* Sanitizing leaves no label that is not known.                           *)
LEMMA SanitizedIsLabelled ==
  ASSUME recording \in Recordings, NEW lines, HasLines(lines)
  PROVE  Labelled(Sanitize(lines, recording.names), recording)
<1> DEFINE names == recording.names
           normal == normalizeTranscriptSpeakers(lines)
           label(i) == SanitizedLabel(normal, names, i)
           g == [i \in DOMAIN normal |-> Line(label(i), label(i))]
<1>1. DOMAIN normal = DOMAIN lines /\ \A i \in DOMAIN lines : normal[i].name = lines[i].name
  BY NormalizedNames
<1>2. PICK S : normal \in Seq(S)
  BY NormalizedNames
<1>3. Sanitize(lines, names) = Tuple(g)
  BY DEF Sanitize, sanitizeTranscriptSpeakerLabels
<1> HIDE DEF normal
<1>4. g \in Seq({g[i] : i \in DOMAIN normal})
  BY <1>2
<1>5. Sanitize(lines, names) = g
  <2> HIDE DEF g
  <2> QED BY <1>3, <1>4, TupleIsSequence
<1>6. ASSUME NEW i \in DOMAIN normal PROVE KnownLabel(label(i), recording)
  <2> DEFINE own == LabelOf(normal[i])
             unknown == Unknown(normal, names)
  <2>1. CASE i \in unknown
    <3>1. label(i) = Speaker(FallbackNumber(normal, unknown, i))
      BY <2>1 DEF SanitizedLabel
    <3>2. isGenericSpeakerName(label(i))
      BY <3>1 DEF Speaker, Voice, isGenericSpeakerName
    <3> HIDE DEF label
    <3> QED BY <3>2 DEF KnownLabel
  <2>2. CASE i \notin unknown /\ Matching(own, names) # {}
    <3>1. names \in Seq(NamesOf(recording))
      BY RecordingsAssumption DEF NamesOf
    <3>2. \E k \in DOMAIN names : matchKnownParticipantName(own, names) = names[k]
      BY <2>2, <3>1, MatchIsName
    <3>3. label(i) = matchKnownParticipantName(own, names)
      BY <2>2 DEF SanitizedLabel
    <3>4. label(i) \in NamesOf(recording)
      BY <3>2, <3>3 DEF NamesOf
    <3> HIDE DEF label
    <3> QED BY <3>4 DEF KnownLabel
  <2>3. CASE i \notin unknown /\ Matching(own, names) = {}
    <3>1. label(i) = own
      BY <2>3 DEF SanitizedLabel
    <3>2. isGenericSpeakerName(own)
      BY <2>3 DEF Unknown
    <3> HIDE DEF label, own
    <3> QED BY <3>1, <3>2 DEF KnownLabel
  <2> QED BY <2>1, <2>2, <2>3
<1> QED BY <1>1, <1>5, <1>6 DEF Labelled, Line

(* The transcript of a report is labelled.                                 *)
LEMMA ReportIsLabelled ==
  ASSUME recording \in Recordings, NEW lines, HasLines(lines), NEW outcome
  PROVE  Labelled(ReportLines(AnalysisLines(lines, outcome)), recording)
<1> DEFINE analysed == AnalysisLines(lines, outcome)
           sane == Sanitize(analysed, recording.names)
           f == [i \in DOMAIN sane |-> Line(LabelOf(sane[i]), LabelOf(sane[i]))]
<1>1. HasLines(analysed)
  BY SanitizedHasLines DEF AnalysisLines
<1>2. ReportLines(analysed) = Tuple(f)
  BY DEF ReportLines, segmentsFromTranscriptLines
<1> HIDE DEF analysed
<1>3. HasLines(sane) /\ Labelled(sane, recording)
  BY <1>1, SanitizedHasLines, SanitizedIsLabelled
<1> HIDE DEF sane
<1>4. PICK S : sane \in Seq(S)
  BY <1>3 DEF HasLines
<1>5. f \in Seq({f[i] : i \in DOMAIN sane})
  BY <1>4
<1>6. ASSUME NEW i \in DOMAIN sane PROVE KnownLabel(LabelOf(sane[i]), recording)
  BY <1>3, KnownStaysKnown DEF Labelled
<1>7. Labelled(f, recording)
  BY <1>6 DEF Labelled, Line
<1> HIDE DEF f
<1>8. Tuple(f) = f
  BY <1>5, TupleIsSequence
<1> QED BY <1>2, <1>7, <1>8 DEF analysed

(* The transcript of a recording has lines.                                *)
LEMMA TranscribedHasLines ==
  ASSUME NEW r \in Recordings
  PROVE  HasLines(TranscribedLines(r.said, r.source))
<1> DEFINE said == r.said
           f == [i \in DOMAIN said |-> Line(normalizeSpeakerLabel(said[i]), NoLabel)]
           g == [i \in DOMAIN said |-> Line(normalizeDiarizationSpeaker(said[i]), NoLabel)]
<1>1. PICK S : said \in Seq(S) \ {<<>>}
  BY RecordingsAssumption
<1>2. r.source \in {"diarization", "stt"}
  BY RecordingsAssumption
<1> HIDE DEF said
<1>3. f \in Seq({f[i] : i \in DOMAIN said}) /\ f # <<>>
  BY <1>1
<1>4. g \in Seq({g[i] : i \in DOMAIN said}) /\ g # <<>>
  BY <1>1
<1>5. /\ transcriptLinesFromTranscription(said) = normalizeTranscriptSpeakers(f)
      /\ applyDiarizationSegments(said) = normalizeTranscriptSpeakers(g)
  BY DEF transcriptLinesFromTranscription, applyDiarizationSegments
<1> HIDE DEF f, g
<1>6. HasLines(f) /\ HasLines(g)
  BY <1>3, <1>4 DEF HasLines
<1>7. HasLines(normalizeTranscriptSpeakers(f)) /\ HasLines(normalizeTranscriptSpeakers(g))
  BY <1>6, NormalizedHasLines
<1>8. TranscribedLines(r.said, r.source) \in
        {transcriptLinesFromTranscription(said), applyDiarizationSegments(said)}
  BY <1>2 DEF TranscribedLines, said
<1> QED BY <1>5, <1>7, <1>8

----------------------------------------------------------------------------
(* Sound details.                                                          *)

(* The contents of a detail, made of a recording, are those of one another.*)
OfOnePiece(detail, rec) ==
  /\ rec # NoRecording => detail.file = rec.file
  /\ detail.analysis = "completed" =>
       detail.trans = "completed" /\ detail.lines # <<>> /\ detail.summary # "fallback"
  /\ detail.analysis = "completed" => detail.sections # "none"
  /\ detail.lines = <<>>
     \/ /\ rec \in Recordings
        /\ HasLines(detail.lines) /\ Labelled(detail.lines, rec)

Sound(detail, rec) ==
  DetailOK(detail) /\ detail.stage # "none" /\ OfOnePiece(detail, rec)

(* A detail of a report that is being transcribed.                         *)
Unfinished(detail) == detail.lines = <<>> /\ detail.analysis # "completed"

Outcomes == Answered \cup {"failed"}

LEMMA NoDetailFields ==
  /\ DOMAIN NoDetail = {"stage", "trans", "analysis", "file", "summary", "items",
                        "sections", "lines", "stats", "note"}
  /\ NoDetail.stage = "none"
  /\ DetailOK(NoDetail)
  /\ Unfinished(NoDetail)
BY DEF NoDetail, NewDetail, DetailOK, Unfinished, Analyses

(* A new report is sound.                                                  *)
LEMMA NewIsSound ==
  ASSUME NEW stage \in {"saved", "processing"}, NEW trans \in {"not_started", "pending"},
         NEW file \in BOOLEAN, NEW rec, rec # NoRecording => file = rec.file
  PROVE  /\ Sound(NewDetail(stage, trans, trans, file), rec)
         /\ Unfinished(NewDetail(stage, trans, trans, file))
         /\ NewDetail(stage, trans, trans, file) # NoDetail
BY DEF Sound, OfOnePiece, DetailOK, Unfinished, Analyses, NewDetail, NoDetail

(* The notes, the personal note and the personal summary of a sound report *)
(* can be changed.                                                         *)
LEMMA EditedIsSound ==
  ASSUME NEW rec, NEW detail, Sound(detail, rec), NEW edited \in Edited(detail)
  PROVE  /\ Sound(edited, rec)
         /\ Unfinished(detail) => Unfinished(edited)
<1>1. PICK summary \in {detail.summary, "edited", Worded, "none"},
           items \in {detail.items, "edited", Worded} :
             edited = [detail EXCEPT !.summary = summary, !.items = items]
  BY DEF Edited
<1>2. /\ DOMAIN edited = DOMAIN detail
      /\ edited.summary = summary /\ edited.items = items
      /\ edited.stage = detail.stage /\ edited.trans = detail.trans
      /\ edited.analysis = detail.analysis /\ edited.file = detail.file
      /\ edited.sections = detail.sections /\ edited.note = detail.note
      /\ edited.lines = detail.lines
  BY <1>1, NoDetailFields DEF Sound, DetailOK
<1>3. DetailOK(edited) /\ edited.stage # "none" /\ (summary = "fallback" => detail.summary = "fallback")
  BY <1>2 DEF Sound, DetailOK, Worded
<1> QED BY <1>2, <1>3 DEF Sound, OfOnePiece, Unfinished

LEMMA PersonalIsSound ==
  ASSUME NEW rec, NEW detail, Sound(detail, rec), NEW words \in {"edited", Worded}
  PROVE  /\ Sound([detail EXCEPT !.note = "mine"], rec)
         /\ Sound([detail EXCEPT !.summary = words], rec)
         /\ Unfinished(detail) => /\ Unfinished([detail EXCEPT !.note = "mine"])
                                  /\ Unfinished([detail EXCEPT !.summary = words])
<1> DEFINE new == [detail EXCEPT !.note = "mine"]
           other == [detail EXCEPT !.summary = words]
<1>1. /\ DOMAIN new = DOMAIN detail
      /\ new.summary = detail.summary /\ new.items = detail.items
      /\ new.stage = detail.stage /\ new.trans = detail.trans
      /\ new.analysis = detail.analysis /\ new.file = detail.file
      /\ new.sections = detail.sections /\ new.note = "mine"
      /\ new.lines = detail.lines
  BY NoDetailFields DEF Sound, DetailOK
<1>2. /\ DOMAIN other = DOMAIN detail
      /\ other.summary = words /\ other.items = detail.items
      /\ other.stage = detail.stage /\ other.trans = detail.trans
      /\ other.analysis = detail.analysis /\ other.file = detail.file
      /\ other.sections = detail.sections /\ other.note = detail.note
      /\ other.lines = detail.lines
  BY NoDetailFields DEF Sound, DetailOK
<1> HIDE DEF new, other
<1>3. Sound(new, rec) /\ (Unfinished(detail) => Unfinished(new))
  BY <1>1 DEF Sound, OfOnePiece, DetailOK, Unfinished
<1>4. Sound(other, rec) /\ (Unfinished(detail) => Unfinished(other))
  BY <1>2 DEF Sound, OfOnePiece, DetailOK, Unfinished, Worded
<1> QED BY <1>3, <1>4 DEF new, other

(* The analysis of a sound report can be started again, and fail.          *)
LEMMA RetriedIsSound ==
  ASSUME NEW rec, NEW detail, Sound(detail, rec)
  PROVE  LET running == [detail EXCEPT !.analysis = "running", !.stage = "processing"]
             failed == [detail EXCEPT !.analysis = "failed", !.stage = "ready"] IN
         /\ Sound(running, rec) /\ running.lines = detail.lines
         /\ Sound(failed, rec)
<1> DEFINE running == [detail EXCEPT !.analysis = "running", !.stage = "processing"]
           failed == [detail EXCEPT !.analysis = "failed", !.stage = "ready"]
<1>1. /\ DOMAIN running = DOMAIN detail
      /\ running.summary = detail.summary /\ running.items = detail.items
      /\ running.stage = "processing" /\ running.trans = detail.trans
      /\ running.analysis = "running" /\ running.file = detail.file
      /\ running.sections = detail.sections /\ running.note = detail.note
      /\ running.lines = detail.lines
  BY NoDetailFields DEF Sound, DetailOK
<1>2. /\ DOMAIN failed = DOMAIN detail
      /\ failed.summary = detail.summary /\ failed.items = detail.items
      /\ failed.stage = "ready" /\ failed.trans = detail.trans
      /\ failed.analysis = "failed" /\ failed.file = detail.file
      /\ failed.sections = detail.sections /\ failed.note = detail.note
      /\ failed.lines = detail.lines
  BY NoDetailFields DEF Sound, DetailOK
<1> HIDE DEF running, failed
<1>3. Sound(running, rec)
  BY <1>1 DEF Sound, OfOnePiece, DetailOK, Analyses
<1>4. Sound(failed, rec)
  BY <1>2 DEF Sound, OfOnePiece, DetailOK, Analyses
<1> QED BY <1>1, <1>3, <1>4 DEF running, failed

(* What an analysis of a transcript makes of a sound report is sound.      *)
LEMMA AnalysedIsSound ==
  ASSUME NEW detail, Sound(detail, recording), recording \in Recordings,
         NEW lines, HasLines(lines), NEW outcome \in Outcomes
  PROVE  /\ outcome = "failed" => Sound(DetailFromAnalysis(detail, lines, outcome), recording)
         /\ Sound(ReadyDetail(detail, lines, outcome), recording)
<1> DEFINE transcript == ReportLines(AnalysisLines(lines, outcome))
           new == DetailFromAnalysis(detail, lines, outcome)
           ready == ReadyDetail(detail, lines, outcome)
<1>1. HasLines(transcript) /\ Labelled(transcript, recording)
  BY ReportHasLines, ReportIsLabelled
<1> HIDE DEF transcript
<1>2. /\ DOMAIN new = DOMAIN NoDetail
      /\ new.stage = detail.stage /\ new.trans = detail.trans /\ new.file = detail.file
      /\ new.analysis = IF outcome \in Answered THEN "completed" ELSE "failed"
      /\ new.summary = SummaryOf(outcome) /\ new.items = SummaryOf(outcome)
      /\ new.sections = SectionsOf(outcome) /\ new.note = "none"
      /\ new.lines = transcript
  BY NoDetailFields DEF DetailFromAnalysis, transcript
<1>3. ready = [new EXCEPT !.stage = "ready", !.trans = "completed"]
  BY DEF ReadyDetail
<1> HIDE DEF new, ready
<1>4. /\ DOMAIN ready = DOMAIN new
      /\ ready.stage = "ready" /\ ready.trans = "completed" /\ ready.file = new.file
      /\ ready.analysis = new.analysis /\ ready.summary = new.summary
      /\ ready.items = new.items /\ ready.sections = new.sections
      /\ ready.note = new.note /\ ready.lines = new.lines
  BY <1>2, <1>3, NoDetailFields
<1>5. /\ SummaryOf(outcome) \in {"ai", "fallback", Worded}
      /\ SectionsOf(outcome) \in {"ai", "fallback"}
      /\ outcome \in Answered => SummaryOf(outcome) # "fallback"
      /\ "failed" \notin Answered
  BY DEF SummaryOf, SectionsOf, Answered, Outcomes, Worded
<1>6. outcome = "failed" => Sound(new, recording)
  BY <1>1, <1>2, <1>5 DEF Sound, OfOnePiece, DetailOK, Analyses, HasLines
<1>7. Sound(ready, recording)
  BY <1>1, <1>2, <1>4, <1>5 DEF Sound, OfOnePiece, DetailOK, Analyses, HasLines
<1> QED BY <1>6, <1>7 DEF new, ready

(* A sound report that a read repairs is sound, and one without a          *)
(* transcript is not repaired.                                             *)
LEMMA RepairedIsSound ==
  ASSUME NEW detail, Sound(detail, recording)
  PROVE  /\ Sound(Repaired(detail), recording)
         /\ Unfinished(detail) => Repaired(detail) = detail /\ ~NeedsRepair(detail)
<1>1. CASE NeedsRepair(detail)
  <2>1. HasLines(detail.lines) /\ recording \in Recordings /\ detail.lines # <<>>
    BY <1>1 DEF NeedsRepair, Sound, OfOnePiece
  <2>2. HasLines(Sanitize(detail.lines, recording.names))
    BY <2>1, SanitizedHasLines
  <2>3. Sound(DetailFromAnalysis(detail, Sanitize(detail.lines, recording.names), "failed"),
              recording)
    BY <2>1, <2>2, AnalysedIsSound DEF Outcomes
  <2> QED BY <1>1, <2>1, <2>3 DEF Repaired, Repair, Unfinished
<1>2. CASE ~NeedsRepair(detail)
  BY <1>2 DEF Repaired
<1> QED BY <1>1, <1>2

(* The report of a recording nothing could be made of is sound, if its     *)
(* transcription was going on.                                             *)
LEMMA FailedIsSound ==
  ASSUME NEW detail, Sound(detail, recording), Unfinished(detail)
  PROVE  Sound(FailedDetail(detail), recording)
<1> DEFINE new == FailedDetail(detail)
<1>1. /\ DOMAIN new = DOMAIN detail
      /\ new.summary = "notice" /\ new.items = "none"
      /\ new.stage = "failed" /\ new.trans = "failed"
      /\ new.analysis = detail.analysis /\ new.file = detail.file
      /\ new.sections = "none" /\ new.note = detail.note
      /\ new.lines = <<>>
  BY NoDetailFields DEF Sound, DetailOK, FailedDetail
<1> HIDE DEF new
<1>2. Sound(new, recording)
  BY <1>1 DEF Sound, OfOnePiece, DetailOK, Unfinished
<1> QED BY <1>2 DEF new

(* A sound report is loaded as a sound one.                                *)
LEMMA LoadedIsSound ==
  ASSUME NEW detail, Sound(detail, recording)
  PROVE  Sound(Loaded(detail), recording)
<1> DEFINE saved == NewDetail("saved", "not_started", "not_started", FALSE)
           new == [saved EXCEPT !.note = detail.note,
                                !.stats = [detail.stats EXCEPT !.speakers = <<>>]]
<1>1. CASE Stale(detail)
  <2>1. /\ recording # NoRecording => recording.file = FALSE
        /\ DOMAIN saved = DOMAIN NoDetail
        /\ saved.stage = "saved" /\ saved.trans = "not_started" /\ saved.analysis = "not_started"
        /\ saved.file = FALSE /\ saved.summary = "notice" /\ saved.items = "none"
        /\ saved.sections = "none" /\ saved.lines = <<>>
    BY <1>1, NoDetailFields DEF Stale, Sound, OfOnePiece, DetailOK, NewDetail
  <2> HIDE DEF saved
  <2>2. /\ DOMAIN new = DOMAIN NoDetail
        /\ new.stage = "saved" /\ new.trans = "not_started" /\ new.analysis = "not_started"
        /\ new.file = FALSE /\ new.summary = "notice" /\ new.items = "none"
        /\ new.sections = "none" /\ new.lines = <<>> /\ new.note = detail.note
    BY <2>1, NoDetailFields
  <2> HIDE DEF new
  <2>3. Sound(new, recording)
    BY <2>1, <2>2 DEF Sound, OfOnePiece, DetailOK, Analyses
  <2>4. Sound(Repaired(new), recording)
    BY <2>3, RepairedIsSound
  <2> QED BY <1>1, <2>4 DEF Loaded, new, saved
<1>2. CASE ~Stale(detail)
  BY <1>2, RepairedIsSound DEF Loaded
<1> QED BY <1>1, <1>2

----------------------------------------------------------------------------
(* The inductive invariant.                                                *)

Stored(detail, rec) == detail = NoDetail \/ Sound(detail, rec)
Whats == {"none", "silent", "failed"} \cup Answered \cup Kinds
WorkersPlaces == {"transcribe", "read", "repair", "act"}
WorkersWhats == {"silent"} \cup Outcomes

(* The types, but those of the details.                                    *)
Types ==
  /\ recording \in Recordings \cup {NoRecording}
  /\ pc \in [Procs -> Places]
  /\ doing \in [Procs -> Whats]
  /\ DOMAIN copy = Procs /\ copy = [p \in Procs |-> copy[p]]
  /\ requests \in 0..MaxRequests /\ restarts \in 0..MaxRestarts
  /\ mixed \in BOOLEAN

(* Whatever is stored or may be is sound.                                  *)
DetailsSound ==
  Stored(report, recording) /\ \A p \in Procs : Stored(copy[p], recording)

(* A goroutine that is to store a detail holds one, and one that analyses a*)
(* transcript again holds a transcript.                                    *)
CopiesHeld ==
  \A p \in Procs :
    /\ pc[p] \in Places \ {"idle", "transcribe", "read"} => copy[p] # NoDetail
    /\ pc[p] = "analyse" => copy[p].lines # <<>>

(* While the worker is at work nothing has been transcribed.               *)
Transcribing ==
  pc[Worker] # "idle" =>
    /\ recording \in Recordings
    /\ pc[Worker] \in WorkersPlaces
    /\ pc[Worker] # "transcribe" => doing[Worker] \in WorkersWhats
    /\ Unfinished(report) /\ \A p \in Procs : Unfinished(copy[p])

(* Nothing is there before the first request.                              *)
Nothing ==
  requests = 0 =>
    /\ report = NoDetail /\ recording = NoRecording
    /\ \A p \in Procs : pc[p] = "idle" /\ copy[p] = NoDetail

IInv == Types /\ DetailsSound /\ CopiesHeld /\ Transcribing /\ Nothing

LEMMA NotARecording == NoRecording \notin Recordings
BY RecordingsAssumption DEF NoRecording

LEMMA WorkerIsNoCaller == Worker \notin Callers /\ Worker \in Procs /\ Callers \subseteq Procs
BY CallersAssumption DEF Worker, Procs

(* Sound details have the types of details.                                *)
LEMMA InvariantImpliesTypes == IInv => TypeOK
<1> SUFFICES ASSUME IInv PROVE TypeOK
  OBVIOUS
<1>1. \A detail : Stored(detail, recording) => DetailOK(detail)
  BY NoDetailFields DEF Stored, Sound
<1> QED BY <1>1 DEF IInv, DetailsSound, Types, TypeOK, Whats

(* Nothing is stored of a report at first.                                 *)
LEMMA InitInvariant == Init => IInv
<1> SUFFICES ASSUME Init PROVE IInv
  OBVIOUS
<1>1. Types
  <2>1. pc \in [Procs -> Places] /\ doing \in [Procs -> Whats]
    BY DEF Init, Whats, Places
  <2>2. DOMAIN copy = Procs /\ copy = [p \in Procs |-> copy[p]]
    BY DEF Init
  <2>3. requests \in 0..MaxRequests /\ restarts \in 0..MaxRestarts
    BY BoundsAssumption DEF Init
  <2> QED BY <2>1, <2>2, <2>3 DEF Init, Types
<1>2. DetailsSound
  BY DEF Init, DetailsSound, Stored
<1>3. CopiesHeld /\ Transcribing /\ Nothing
  BY WorkerIsNoCaller DEF Init, CopiesHeld, Transcribing, Nothing
<1> QED BY <1>1, <1>2, <1>3 DEF IInv

(* What every step of a goroutine has in common: it takes what it holds to *)
(* its next place, and may store a detail.                                 *)
LEMMA GoKeepsInvariant ==
  ASSUME IInv, NEW p \in Procs, NEW where \in Places \ {"transcribe"}, NEW what \in Whats,
         NEW detail, Go(p, where, what, detail),
         recording' = recording, requests' \in 1..MaxRequests, restarts' = restarts,
         mixed' \in BOOLEAN,
         Stored(report', recording),
         where # "idle" => Stored(detail, recording),
         where \notin {"idle", "read"} => detail # NoDetail,
         where = "analyse" => detail.lines # <<>>,
         p = Worker => /\ pc[Worker] # "idle" /\ where \in WorkersPlaces \cup {"idle"}
                       /\ where # "idle" => what \in WorkersWhats,
         pc[Worker] # "idle" /\ (p # Worker \/ where # "idle") =>
           Unfinished(report') /\ (where # "idle" => Unfinished(detail))
  PROVE  IInv'
<1> USE DEF Types
<1>1. \A q \in Procs :
        /\ q # p => pc'[q] = pc[q] /\ doing'[q] = doing[q] /\ copy'[q] = copy[q]
        /\ q = p => /\ pc'[q] = where
                    /\ where = "idle" => copy'[q] = NoDetail
                    /\ where # "idle" => copy'[q] = detail /\ doing'[q] = what
  BY DEF IInv, Go
<1>2. Types'
  <2>1. pc' \in [Procs -> Places] /\ doing' \in [Procs -> Whats]
    BY DEF IInv, Go, Whats
  <2>2. DOMAIN copy' = Procs /\ copy' = [q \in Procs |-> copy'[q]]
    BY DEF IInv, Go
  <2> QED BY <2>1, <2>2 DEF IInv
<1>3. DetailsSound'
  <2>1. \A q \in Procs : Stored(copy'[q], recording)
    BY <1>1 DEF IInv, DetailsSound, Stored
  <2> QED BY <2>1 DEF DetailsSound
<1>4. CopiesHeld'
  BY <1>1 DEF IInv, CopiesHeld
<1>5. Transcribing'
  <2>1. SUFFICES ASSUME pc'[Worker] # "idle"
                 PROVE  /\ recording \in Recordings
                        /\ pc'[Worker] \in WorkersPlaces
                        /\ pc'[Worker] # "transcribe" => doing'[Worker] \in WorkersWhats
                        /\ Unfinished(report') /\ \A q \in Procs : Unfinished(copy'[q])
    BY DEF Transcribing, Unfinished
  <2>2. pc[Worker] # "idle"
    BY <1>1, <2>1, WorkerIsNoCaller
  <2>3. \A q \in Procs : Unfinished(copy'[q])
    BY <1>1, <2>2, NoDetailFields DEF IInv, Transcribing
  <2> QED BY <1>1, <2>1, <2>2, <2>3, WorkerIsNoCaller DEF IInv, Transcribing
<1>6. Nothing'
  BY DEF Nothing
<1> QED BY <1>2, <1>3, <1>4, <1>5, <1>6 DEF IInv

(* A read may repair what it reads.                                        *)
LEMMA ReadKeepsInvariant ==
  ASSUME IInv, NEW p \in Procs, NEW repair \in {"repair", "repair again"},
         NEW next \in {"idle", "act", "act again"}, NEW what \in Whats,
         Read(p, repair, next, what),
         report' = report, recording' = recording, requests' \in 1..MaxRequests,
         restarts' = restarts, mixed' = mixed,
         p = Worker => /\ pc[Worker] # "idle" /\ repair = "repair" /\ next = "act"
                       /\ what \in WorkersWhats
  PROVE  IInv'
<1>1. Stored(report', recording) /\ (pc[Worker] # "idle" => Unfinished(report'))
  BY DEF IInv, DetailsSound, Transcribing
<1>2. mixed' \in BOOLEAN
  BY DEF IInv, Types
<1>3. CASE Exists
  <2> DEFINE where == IF NeedsRepair(report) THEN repair ELSE next
             detail == Repaired(report)
  <2>1. Sound(report, recording)
    BY <1>3 DEF IInv, DetailsSound, Stored, Exists
  <2>2. Sound(detail, recording) /\ (pc[Worker] # "idle" => Unfinished(detail))
    BY <1>1, <2>1, RepairedIsSound, NotARecording
  <2>3. detail # NoDetail
    BY <2>2, NoDetailFields DEF Sound
  <2>4. Go(p, where, what, detail)
    BY <1>3 DEF Read
  <2>5. /\ where \in {"repair", "repair again", "idle", "act", "act again"}
        /\ p = Worker => where \in WorkersPlaces
    BY DEF WorkersPlaces
  <2> HIDE DEF where, detail
  <2>6. where \in Places \ {"transcribe"} /\ where # "analyse" /\ where # "read"
    BY <2>5 DEF Places
  <2> QED BY <1>1, <1>2, <2>2, <2>3, <2>4, <2>5, <2>6, GoKeepsInvariant DEF Stored
<1>4. CASE ~Exists
  <2>1. Go(p, "idle", "none", NoDetail)
    BY <1>4 DEF Read, Return
  <2>2. "idle" \in Places \ {"transcribe"} /\ "none" \in Whats
    BY DEF Places, Whats
  <2> QED BY <1>1, <1>2, <2>1, <2>2, GoKeepsInvariant
<1> QED BY <1>3, <1>4

(* A goroutine stores a detail and is done.                                *)
LEMMA StoreKeepsInvariant ==
  ASSUME IInv, NEW p \in Procs, NEW detail, Store(p, detail), Return(p),
         recording' = recording, requests' = requests, restarts' = restarts,
         pc[p] # "idle",
         Stored(detail, recording),
         p # Worker /\ pc[Worker] # "idle" => Unfinished(detail)
  PROVE  IInv'
<1>1. requests' \in 1..MaxRequests
  BY BoundsAssumption DEF IInv, Types, Nothing
<1>2. Go(p, "idle", "none", NoDetail) /\ report' = detail
  BY DEF Return, Store, Put
<1>3. mixed' \in BOOLEAN
  BY DEF Store, Put, IInv, Types
<1>4. "idle" \in Places \ {"transcribe"} /\ "none" \in Whats
  BY DEF Places, Whats
<1> QED BY <1>1, <1>2, <1>3, <1>4, GoKeepsInvariant

----------------------------------------------------------------------------
(* Every step keeps the invariant.                                         *)

LEMMA NotIdleWasRequested ==
  ASSUME IInv, NEW p \in Procs, pc[p] # "idle"
  PROVE  requests \in 1..MaxRequests
BY BoundsAssumption DEF IInv, Types, Nothing

LEMMA StepInvariant == IInv /\ [Next]_vars => IInv'
<1> SUFFICES ASSUME IInv, [Next]_vars PROVE IInv'
  OBVIOUS
<1> USE WorkerIsNoCaller
<1>1. CASE UploadRow
  <2> DEFINE detail == NewDetail("saved", "not_started", "not_started", FALSE)
  <2>1. recording = NoRecording
    BY <1>1 DEF UploadRow, IInv, Nothing
  <2>2. Sound(detail, recording) /\ Unfinished(detail)
    BY <2>1, NewIsSound
  <2>3. report' = detail /\ mixed' \in BOOLEAN
    BY <1>1 DEF UploadRow, Store, Put, IInv, Types
  <2> HIDE DEF detail
  <2>4. requests' \in 0..MaxRequests /\ requests' # 0 /\ restarts' = restarts
    BY <1>1, BoundsAssumption DEF UploadRow
  <2>5. recording' = recording /\ pc' = pc /\ doing' = doing /\ copy' = copy
    BY <1>1, <2>1 DEF UploadRow, procs, Store, Put
  <2> QED BY <2>2, <2>3, <2>4, <2>5
       DEF IInv, Types, DetailsSound, CopiesHeld, Transcribing, Nothing, Stored
<1>2. ASSUME NEW r \in Recordings, Upload(r) PROVE IInv'
  <2> DEFINE detail == NewDetail("processing", "pending", "pending", r.file)
  <2>1. Sound(detail, r) /\ Unfinished(detail) /\ detail # NoDetail
    BY NewIsSound, RecordingsAssumption
  <2>2. /\ requests' \in 1..MaxRequests /\ restarts' = restarts /\ recording' = r
        /\ report' = detail /\ mixed' \in BOOLEAN
    BY <1>2, BoundsAssumption DEF Upload, Store, Put, IInv, Types
  <2>3. Go(Worker, "transcribe", "none", NoDetail)
    BY <1>2 DEF Upload
  <2> HIDE DEF detail
  <2>5. \A p \in Procs : pc[p] = "idle" /\ copy[p] = NoDetail
    BY <1>2 DEF Upload, IInv, Nothing
  <2>6. /\ pc'[Worker] = "transcribe" /\ \A p \in Procs \ {Worker} : pc'[p] = "idle"
        /\ \A p \in Procs : copy'[p] = NoDetail
    BY <2>3, <2>5 DEF Go, IInv, Types
  <2>7. Types'
    <3>1. pc' \in [Procs -> Places] /\ doing' \in [Procs -> Whats]
      BY <2>3 DEF Go, IInv, Types, Places, Whats
    <3>2. DOMAIN copy' = Procs /\ copy' = [p \in Procs |-> copy'[p]]
      BY <2>3 DEF Go, IInv, Types
    <3> QED BY <2>2, <3>1, <3>2, <1>2 DEF IInv, Types
  <2>8. DetailsSound'
    BY <2>1, <2>2, <2>6 DEF DetailsSound, Stored
  <2>9. CopiesHeld'
    BY <2>6 DEF CopiesHeld
  <2>10. Transcribing'
    BY <1>2, <2>1, <2>2, <2>6, NoDetailFields DEF Transcribing, WorkersPlaces
  <2>11. Nothing'
    BY <2>2 DEF Nothing
  <2> QED BY <2>7, <2>8, <2>9, <2>10, <2>11 DEF IInv
<1>3. CASE Transcribe
  <2>1. /\ pc[Worker] = "transcribe" /\ report' = report /\ recording' = recording
        /\ requests' = requests /\ restarts' = restarts /\ mixed' = mixed
    BY <1>3 DEF Transcribe, history
  <2>2. PICK outcome \in WorkersWhats : Go(Worker, "read", outcome, NoDetail)
    BY <1>3 DEF Transcribe, WorkersWhats, Outcomes
  <2>3. /\ requests' \in 1..MaxRequests /\ mixed' \in BOOLEAN
        /\ Stored(report', recording) /\ Unfinished(report')
    BY <2>1, NotIdleWasRequested DEF IInv, Types, DetailsSound, Transcribing
  <2>4. /\ "read" \in Places \ {"transcribe"} /\ "read" \in WorkersPlaces
        /\ outcome \in Whats
    BY DEF Places, WorkersPlaces, WorkersWhats, Outcomes, Whats
  <2> QED BY <2>1, <2>2, <2>3, <2>4, NoDetailFields, GoKeepsInvariant DEF Stored
<1>4. CASE WorkerReads
  <2>1. /\ pc[Worker] = "read" /\ report' = report /\ recording' = recording
        /\ requests' = requests /\ restarts' = restarts /\ mixed' = mixed
        /\ Read(Worker, "repair", "act", doing[Worker])
    BY <1>4 DEF WorkerReads, history
  <2>2. doing[Worker] \in WorkersWhats /\ doing[Worker] \in Whats
    BY <2>1 DEF IInv, Transcribing, Types
  <2>3. requests' \in 1..MaxRequests
    BY <2>1, NotIdleWasRequested
  <2> QED BY <2>1, <2>2, <2>3, ReadKeepsInvariant
<1>5. ASSUME NEW p \in Procs, NEW repair \in {"repair", "repair again"},
             NEW next \in {"idle", "act", "act again"},
             p = Worker => next = "act", StoreRepair(p, repair, next)
      PROVE  IInv'
  <2>1. /\ pc[p] = repair /\ recording' = recording /\ requests' = requests
        /\ restarts' = restarts /\ report' = copy[p] /\ mixed' \in BOOLEAN
        /\ Go(p, next, doing[p], copy[p])
    BY <1>5 DEF StoreRepair, Put, IInv, Types
  <2>2. /\ Stored(copy[p], recording) /\ copy[p] # NoDetail /\ doing[p] \in Whats
        /\ pc[Worker] # "idle" => Unfinished(copy[p])
        /\ p = Worker => doing[p] \in WorkersWhats
    BY <1>5, <2>1 DEF IInv, DetailsSound, CopiesHeld, Transcribing, Types, Places
  <2>3. requests' \in 1..MaxRequests
    BY <1>5, <2>1, NotIdleWasRequested
  <2>4. next \in Places \ {"transcribe"} /\ next # "analyse" /\ (p = Worker => next \in WorkersPlaces)
    BY <1>5 DEF Places, WorkersPlaces
  <2> QED BY <1>5, <2>1, <2>2, <2>3, <2>4, GoKeepsInvariant
<1>6. CASE WorkerStores
  <2> DEFINE lines == TranscribedLines(recording.said, recording.source)
             detail == IF doing[Worker] = "silent" THEN FailedDetail(copy[Worker])
                       ELSE ReadyDetail(copy[Worker], lines, doing[Worker])
  <2>1. /\ pc[Worker] = "act" /\ Store(Worker, detail) /\ Return(Worker)
        /\ recording' = recording /\ requests' = requests /\ restarts' = restarts
    BY <1>6 DEF WorkerStores
  <2>2. /\ recording \in Recordings /\ doing[Worker] \in WorkersWhats
        /\ Unfinished(copy[Worker]) /\ Sound(copy[Worker], recording)
    BY <2>1 DEF IInv, Transcribing, DetailsSound, Stored, CopiesHeld, Places
  <2>3. HasLines(lines)
    BY <2>2, TranscribedHasLines
  <2> HIDE DEF lines
  <2>4. doing[Worker] # "silent" => doing[Worker] \in Outcomes
    BY <2>2 DEF WorkersWhats
  <2>5. Sound(detail, recording)
    BY <2>2, <2>3, <2>4, FailedIsSound, AnalysedIsSound
  <2> HIDE DEF detail
  <2> QED BY <2>1, <2>5, StoreKeepsInvariant DEF Stored
<1>7. ASSUME NEW c \in Callers, Edit(c) PROVE IInv'
  <2>1. PICK detail \in Edited(copy[c]) : Store(c, detail)
    BY <1>7 DEF Edit
  <2>2. /\ pc[c] = "act" /\ Return(c)
        /\ recording' = recording /\ requests' = requests /\ restarts' = restarts
    BY <1>7 DEF Edit, Acts
  <2>3. Sound(copy[c], recording) /\ (pc[Worker] # "idle" => Unfinished(copy[c]))
    BY <1>7, <2>2 DEF IInv, Transcribing, DetailsSound, Stored, CopiesHeld, Places
  <2>4. Sound(detail, recording) /\ (pc[Worker] # "idle" => Unfinished(detail))
    BY <2>3, EditedIsSound
  <2> QED BY <1>7, <2>1, <2>2, <2>4, StoreKeepsInvariant DEF Stored
<1>8. ASSUME NEW c \in Callers, ReadAgain(c) PROVE IInv'
  <2>1. /\ pc[c] = "act" /\ Read(c, "repair again", "act again", doing[c])
        /\ report' = report /\ recording' = recording /\ requests' = requests
        /\ restarts' = restarts /\ mixed' = mixed
    BY <1>8 DEF ReadAgain, Acts, history
  <2>2. requests' \in 1..MaxRequests /\ doing[c] \in Whats
    BY <1>8, <2>1, NotIdleWasRequested DEF IInv, Types
  <2> QED BY <1>8, <2>1, <2>2, ReadKeepsInvariant
<1>9. ASSUME NEW c \in Callers, PersonalizeFails(c) PROVE IInv'
  <2>1. /\ pc[c] = "act" /\ Go(c, "idle", "none", NoDetail)
        /\ report' = report /\ recording' = recording /\ requests' = requests
        /\ restarts' = restarts /\ mixed' = mixed
    BY <1>9 DEF PersonalizeFails, Return, Acts, history
  <2>2. requests' \in 1..MaxRequests
    BY <1>9, <2>1, NotIdleWasRequested
  <2>3. /\ "idle" \in Places \ {"transcribe"} /\ "none" \in Whats /\ mixed' \in BOOLEAN
        /\ Stored(report', recording) /\ (pc[Worker] # "idle" => Unfinished(report'))
    BY <2>1 DEF Places, Whats, IInv, Types, DetailsSound, Transcribing
  <2> QED BY <1>9, <2>1, <2>2, <2>3, GoKeepsInvariant
<1>10. ASSUME NEW c \in Callers, Personal(c) PROVE IInv'
  <2>1. /\ pc[c] = "act again" /\ Return(c)
        /\ recording' = recording /\ requests' = requests /\ restarts' = restarts
    BY <1>10 DEF Personal
  <2>2. PICK words \in {"edited", Worded} :
          \/ Store(c, [copy[c] EXCEPT !.note = "mine"])
          \/ Store(c, [copy[c] EXCEPT !.summary = words])
    BY <1>10 DEF Personal
  <2>3. Sound(copy[c], recording) /\ (pc[Worker] # "idle" => Unfinished(copy[c]))
    BY <1>10, <2>1 DEF IInv, Transcribing, DetailsSound, Stored, CopiesHeld, Places
  <2>4. PICK detail : /\ Store(c, detail) /\ Sound(detail, recording)
                      /\ pc[Worker] # "idle" => Unfinished(detail)
    BY <2>2, <2>3, PersonalIsSound
  <2> QED BY <1>10, <2>1, <2>4, StoreKeepsInvariant DEF Stored
<1>11. ASSUME NEW c \in Callers, RetryBegins(c) PROVE IInv'
  <2> DEFINE detail == [copy[c] EXCEPT !.analysis = "running", !.stage = "processing"]
  <2>1. /\ pc[c] = "act" /\ recording' = recording /\ requests' = requests
        /\ restarts' = restarts
    BY <1>11 DEF RetryBegins, Acts
  <2>2. requests' \in 1..MaxRequests
    BY <1>11, <2>1, NotIdleWasRequested
  <2>3. /\ {"idle", "analyse"} \subseteq Places \ {"transcribe"} /\ {"none", "retry"} \subseteq Whats
        /\ Sound(copy[c], recording) /\ Stored(report, recording) /\ mixed \in BOOLEAN
        /\ pc[Worker] # "idle" => Unfinished(copy[c]) /\ Unfinished(report)
    BY <1>11, <2>1 DEF Places, Whats, Kinds, IInv, Types, Transcribing, DetailsSound, Stored,
                       CopiesHeld
  <2>4. CASE copy[c].lines = <<>>
    <3>1. Go(c, "idle", "none", NoDetail) /\ report' = report /\ mixed' = mixed
      BY <1>11, <2>4 DEF RetryBegins, Return, history
    <3> QED BY <1>11, <2>1, <2>2, <2>3, <3>1, GoKeepsInvariant
  <2>5. CASE copy[c].lines # <<>>
    <3>1. pc[Worker] = "idle"
      BY <2>3, <2>5 DEF Unfinished
    <3>2. Sound(detail, recording) /\ detail.lines # <<>>
      BY <2>3, <2>5, RetriedIsSound
    <3>3. Go(c, "analyse", "retry", detail) /\ report' = detail /\ mixed' \in BOOLEAN
      BY <1>11, <2>5 DEF RetryBegins, Store, Put, IInv, Types
    <3> HIDE DEF detail
    <3>4. detail # NoDetail
      BY <3>2, NoDetailFields DEF Sound
    <3> QED BY <1>11, <2>1, <2>2, <2>3, <3>1, <3>2, <3>3, <3>4, GoKeepsInvariant DEF Stored
  <2> QED BY <2>4, <2>5
<1>12. ASSUME NEW c \in Callers, RetryEnds(c) PROVE IInv'
  <2>1. /\ pc[c] = "analyse" /\ Return(c)
        /\ recording' = recording /\ requests' = requests /\ restarts' = restarts
    BY <1>12 DEF RetryEnds
  <2>2. Sound(copy[c], recording) /\ copy[c].lines # <<>>
    BY <1>12, <2>1 DEF IInv, DetailsSound, Stored, CopiesHeld, Places
  <2>3. pc[Worker] = "idle"
    BY <1>12, <2>2 DEF IInv, Transcribing, Unfinished
  <2>4. recording \in Recordings /\ HasLines(copy[c].lines)
    BY <2>2 DEF Sound, OfOnePiece
  <2>5. Sound([copy[c] EXCEPT !.analysis = "failed", !.stage = "ready"], recording)
    BY <2>2, RetriedIsSound
  <2>6. \A outcome \in Answered :
          Sound(ReadyDetail(copy[c], copy[c].lines, outcome), recording)
    BY <2>2, <2>4, AnalysedIsSound DEF Outcomes
  <2>7. PICK detail : Store(c, detail) /\ Sound(detail, recording)
    BY <1>12, <2>5, <2>6 DEF RetryEnds
  <2> QED BY <1>12, <2>1, <2>3, <2>7, StoreKeepsInvariant DEF Stored
<1>13. ASSUME NEW c \in Callers, Delete(c) PROVE IInv'
  <2>1. /\ pc[c] = "act" /\ Store(c, NoDetail) /\ Return(c)
        /\ recording' = recording /\ requests' = requests /\ restarts' = restarts
    BY <1>13 DEF Delete, Acts
  <2> QED BY <1>13, <2>1, NoDetailFields, StoreKeepsInvariant DEF Stored
<1>14. ASSUME NEW c \in Callers, NEW kind \in Kinds, Request(c, kind) PROVE IInv'
  <2>1. /\ Read(c, "repair", AfterRead(kind), kind)
        /\ report' = report /\ recording' = recording /\ restarts' = restarts /\ mixed' = mixed
        /\ requests' = requests + 1 /\ requests < MaxRequests
    BY <1>14 DEF Request, history
  <2>2. requests' \in 1..MaxRequests
    BY <2>1, BoundsAssumption DEF IInv, Types
  <2>3. AfterRead(kind) \in {"idle", "act"} /\ kind \in Whats
    BY <1>14 DEF AfterRead, Whats
  <2> QED BY <1>14, <2>1, <2>2, <2>3, ReadKeepsInvariant
<1>15. CASE Restart
  <2>1. /\ report' = Loaded(report) /\ recording' = recording /\ requests' = requests
        /\ mixed' = mixed /\ restarts' \in 0..MaxRestarts
        /\ pc' = [p \in Procs |-> "idle"] /\ doing' = [p \in Procs |-> "none"]
        /\ copy' = [p \in Procs |-> NoDetail]
    BY <1>15, BoundsAssumption DEF Restart, IInv, Types
  <2>2. Loaded(NoDetail) = NoDetail
    BY NoDetailFields DEF Loaded, Stale, Repaired, NeedsRepair, Unfinished
  <2>3. Stored(report', recording)
    BY <2>1, <2>2, LoadedIsSound, NotARecording DEF IInv, DetailsSound, Stored
  <2>4. Types'
    <3>1. pc' \in [Procs -> Places] /\ doing' \in [Procs -> Whats]
      BY <2>1 DEF Places, Whats
    <3>2. DOMAIN copy' = Procs /\ copy' = [p \in Procs |-> copy'[p]]
      BY <2>1
    <3> QED BY <2>1, <3>1, <3>2 DEF IInv, Types
  <2>5. DetailsSound'
    BY <2>1, <2>3 DEF DetailsSound, Stored
  <2>6. CopiesHeld' /\ Transcribing'
    BY <2>1 DEF CopiesHeld, Transcribing
  <2>7. Nothing'
    BY <2>1, <2>2 DEF IInv, Nothing
  <2> QED BY <2>4, <2>5, <2>6, <2>7 DEF IInv
<1>16. CASE UNCHANGED vars
  BY <1>16 DEF vars, procs, history, IInv, Types, DetailsSound, CopiesHeld, Transcribing, Nothing
<1>17. \A c \in Callers : AfterRead(doing[c]) \in {"idle", "act"}
  BY DEF AfterRead
<1> QED
  BY <1>1, <1>2, <1>3, <1>4, <1>5, <1>6, <1>7, <1>8, <1>9, <1>10, <1>11, <1>12, <1>13,
     <1>14, <1>15, <1>16, <1>17
  DEF Next, WorkerStep, CallerStep

----------------------------------------------------------------------------
(* What a read keeps.                                                      *)

(* Some part of the contents has the words of the fallback.                *)
HasWords(contents) == FallbackWords \cap {contents[1], contents[2], contents[3]} # {}

(* While no goroutine has stored over another one's copy, a repair waits to*)
(* be stored only of a report with the words of the fallback.              *)
RepairsDue ==
  \A p \in Procs :
    ~mixed /\ pc[p] \in {"repair", "repair again"} =>
      Exists /\ HasWords(Contents(report))

KeptInv == ReadsKeepContents /\ RepairsDue

LEMMA PartsOfContents ==
  ASSUME NEW detail
  PROVE  /\ Contents(detail)[1] = detail.summary /\ Contents(detail)[2] = detail.items
         /\ Contents(detail)[3] = detail.sections
BY DEF Contents

(* A sound report is repaired only if it has those words: it has no        *)
(* completed analysis of nothing.                                          *)
LEMMA RepairedHasFallback ==
  ASSUME NEW detail, Sound(detail, recording), NeedsRepair(detail)
  PROVE  HasWords(Contents(detail))
BY PartsOfContents
DEF Sound, OfOnePiece, NeedsRepair, isFallbackReportAnalysis, HasWords

(* What has none of them was stored by a writer, who left none.            *)
LEMMA WordsWereStored ==
  ASSUME ReadsKeepContents, Exists, HasWords(Contents(report))
  PROVE  ~mixed => HasWords(kept)
BY DEF ReadsKeepContents, HasWords

(* Nothing is stored.                                                      *)
LEMMA GoKeeps ==
  ASSUME IInv, KeptInv, NEW p \in Procs, NEW where, NEW what, NEW detail,
         Go(p, where, what, detail), where \notin {"repair", "repair again"},
         report' = report, kept' = kept, mixed' = mixed
  PROVE  KeptInv'
<1>1. \A q \in Procs : pc'[q] \in {"repair", "repair again"} => pc'[q] = pc[q]
  BY DEF Go, IInv, Types
<1>2. RepairsDue'
  BY <1>1 DEF KeptInv, RepairsDue, Exists
<1>3. ReadsKeepContents'
  BY DEF KeptInv, ReadsKeepContents, Exists, Contents
<1> QED BY <1>2, <1>3 DEF KeptInv

(* A report is read.                                                       *)
LEMMA ReadKeeps ==
  ASSUME IInv, KeptInv, NEW p \in Procs, NEW repair,
         NEW next \in {"idle", "act", "act again"}, NEW what,
         Read(p, repair, next, what), report' = report, kept' = kept, mixed' = mixed
  PROVE  KeptInv'
<1>1. CASE Exists /\ NeedsRepair(report)
  <2>1. HasWords(Contents(report))
    BY <1>1, RepairedHasFallback DEF IInv, DetailsSound, Stored, Exists
  <2>2. RepairsDue'
    BY <1>1, <2>1 DEF RepairsDue, Exists
  <2>3. ReadsKeepContents'
    BY DEF KeptInv, ReadsKeepContents, Exists, Contents
  <2> QED BY <2>2, <2>3 DEF KeptInv
<1>2. CASE Exists /\ ~NeedsRepair(report)
  <2>1. Go(p, next, what, Repaired(report))
    BY <1>2 DEF Read
  <2> QED BY <2>1, GoKeeps
<1>3. CASE ~Exists
  <2>1. Go(p, "idle", "none", NoDetail)
    BY <1>3 DEF Read, Return
  <2> QED BY <2>1, GoKeeps
<1> QED BY <1>1, <1>2, <1>3

(* A writer stores: whoever else waits to store a repair holds a copy.     *)
LEMMA StoreKeeps ==
  ASSUME IInv, NEW p \in Procs, NEW detail, Store(p, detail),
         \A q \in Procs \ {p} : pc'[q] = pc[q],
         pc'[p] \notin {"repair", "repair again"}
  PROVE  KeptInv'
<1>1. /\ report' = detail /\ kept' = Contents(detail)
      /\ mixed' = (mixed \/ \E q \in Procs \ {p} : Holds(q))
  BY DEF Store, Put
<1>2. ReadsKeepContents'
  BY <1>1 DEF ReadsKeepContents, Contents
<1>3. ASSUME NEW q \in Procs, ~mixed', pc'[q] \in {"repair", "repair again"} PROVE FALSE
  <2>1. q # p /\ pc[q] \in {"repair", "repair again"}
    BY <1>3
  <2>2. Holds(q)
    BY <2>1 DEF IInv, CopiesHeld, Places, Holds
  <2> QED BY <1>1, <1>3, <2>1, <2>2
<1>4. RepairsDue'
  BY <1>3 DEF RepairsDue
<1> QED BY <1>2, <1>4 DEF KeptInv

(* Every step keeps it.                                                    *)
LEMMA StepKeeps == IInv /\ KeptInv /\ [Next]_vars => KeptInv'
<1> SUFFICES ASSUME IInv, KeptInv, [Next]_vars PROVE KeptInv'
  OBVIOUS
<1> USE WorkerIsNoCaller
<1>0. \A p \in Procs : \A where, what, detail :
        Go(p, where, what, detail) =>
          pc'[p] = where /\ \A q \in Procs \ {p} : pc'[q] = pc[q]
  BY DEF Go, IInv, Types
<1>1. CASE UploadRow
  <2>1. pc' = pc /\ Store(Worker, NewDetail("saved", "not_started", "not_started", FALSE))
    BY <1>1 DEF UploadRow, procs
  <2>2. pc[Worker] = "idle"
    BY <1>1 DEF UploadRow, IInv, Nothing
  <2> QED BY <2>1, <2>2, StoreKeeps
<1>2. ASSUME NEW r \in Recordings, Upload(r) PROVE KeptInv'
  <2>1. PICK detail, held : Store(Worker, detail) /\ Go(Worker, "transcribe", "none", held)
    BY <1>2 DEF Upload
  <2>2. pc'[Worker] = "transcribe" /\ \A q \in Procs \ {Worker} : pc'[q] = pc[q]
    BY <1>0, <2>1
  <2> QED BY <2>1, <2>2, StoreKeeps
<1>3. CASE Transcribe
  <2>1. PICK where, what, detail : where \in {"read", "act"} /\ Go(Worker, where, what, detail)
    BY <1>3 DEF Transcribe
  <2> QED BY <1>3, <2>1, GoKeeps DEF Transcribe, history
<1>4. CASE WorkerReads
  BY <1>4, ReadKeeps DEF WorkerReads, history
<1>5. ASSUME NEW p \in Procs, NEW repair \in {"repair", "repair again"},
             NEW next \in {"idle", "act", "act again"}, StoreRepair(p, repair, next)
      PROVE  KeptInv'
  <2>1. /\ pc[p] = repair /\ Put(p, copy[p]) /\ Go(p, next, doing[p], copy[p]) /\ kept' = kept
    BY <1>5 DEF StoreRepair
  <2>2. report' = copy[p] /\ mixed' = (mixed \/ \E q \in Procs \ {p} : Holds(q))
    BY <2>1 DEF Put
  <2>3. ~mixed => HasWords(kept)
    BY <1>5, <2>1, WordsWereStored DEF KeptInv, RepairsDue
  <2>4. ReadsKeepContents'
    BY <2>1, <2>2, <2>3 DEF ReadsKeepContents, HasWords
  <2>5. ASSUME NEW q \in Procs, ~mixed', pc'[q] \in {"repair", "repair again"} PROVE FALSE
    <3>1. q # p /\ pc[q] \in {"repair", "repair again"}
      BY <1>0, <2>1, <2>5
    <3>2. Holds(q)
      BY <3>1 DEF IInv, CopiesHeld, Places, Holds
    <3> QED BY <2>2, <2>5, <3>1, <3>2
  <2>6. RepairsDue'
    BY <2>5 DEF RepairsDue
  <2> QED BY <2>4, <2>6 DEF KeptInv
<1>6. CASE WorkerStores
  <2>1. PICK detail : Store(Worker, detail) /\ Go(Worker, "idle", "none", NoDetail)
    BY <1>6 DEF WorkerStores, Return
  <2>2. pc'[Worker] = "idle" /\ \A q \in Procs \ {Worker} : pc'[q] = pc[q]
    BY <1>0, <2>1
  <2> QED BY <2>1, <2>2, StoreKeeps
<1>7. ASSUME NEW c \in Callers, Edit(c) \/ Personal(c) \/ RetryEnds(c) \/ Delete(c)
      PROVE  KeptInv'
  <2>1. PICK detail : Store(c, detail) /\ Go(c, "idle", "none", NoDetail)
    BY <1>7 DEF Edit, Personal, RetryEnds, Delete, Return
  <2>2. pc'[c] = "idle" /\ \A q \in Procs \ {c} : pc'[q] = pc[q]
    BY <1>0, <1>7, <2>1
  <2> QED BY <1>7, <2>1, <2>2, StoreKeeps
<1>8. ASSUME NEW c \in Callers, ReadAgain(c) PROVE KeptInv'
  BY <1>8, ReadKeeps DEF ReadAgain, history
<1>9. ASSUME NEW c \in Callers, PersonalizeFails(c) PROVE KeptInv'
  BY <1>9, GoKeeps DEF PersonalizeFails, Return, history
<1>10. ASSUME NEW c \in Callers, RetryBegins(c) PROVE KeptInv'
  <2>1. CASE copy[c].lines = <<>>
    BY <1>10, <2>1, GoKeeps DEF RetryBegins, Return, history
  <2>2. CASE copy[c].lines # <<>>
    <3>1. PICK detail : Store(c, detail) /\ Go(c, "analyse", "retry", detail)
      BY <1>10, <2>2 DEF RetryBegins
    <3>2. pc'[c] = "analyse" /\ \A q \in Procs \ {c} : pc'[q] = pc[q]
      BY <1>0, <1>10, <3>1
    <3> QED BY <1>10, <3>1, <3>2, StoreKeeps
  <2> QED BY <2>1, <2>2
<1>11. ASSUME NEW c \in Callers, NEW kind \in Kinds, Request(c, kind) PROVE KeptInv'
  <2>1. AfterRead(kind) \in {"idle", "act"}
    BY DEF AfterRead
  <2> QED BY <1>11, <2>1, ReadKeeps DEF Request, history
<1>12. CASE Restart
  <2>1. /\ report' = Loaded(report) /\ mixed' = mixed /\ pc' = [p \in Procs |-> "idle"]
        /\ kept' = IF Stale(report) THEN Contents(report') ELSE kept
    BY <1>12 DEF Restart
  <2>2. RepairsDue'
    BY <2>1 DEF RepairsDue
  <2>3. ReadsKeepContents'
    <3>1. CASE Stale(report)
      BY <2>1, <3>1 DEF ReadsKeepContents, Contents
    <3>2. CASE ~Stale(report) /\ ~NeedsRepair(report)
      BY <2>1, <3>2 DEF ReadsKeepContents, KeptInv, Contents, Loaded, Repaired, Exists
    <3>3. CASE ~Stale(report) /\ NeedsRepair(report)
      <4>1. report # NoDetail
        BY <3>3, NoDetailFields DEF NeedsRepair, Unfinished
      <4>2. HasWords(Contents(report))
        BY <3>3, <4>1, RepairedHasFallback DEF IInv, DetailsSound, Stored
      <4>3. ~mixed => HasWords(kept)
        BY <4>1, <4>2, WordsWereStored DEF KeptInv, Exists
      <4> QED BY <2>1, <3>3, <4>3 DEF ReadsKeepContents, HasWords
    <3> QED BY <3>1, <3>2, <3>3
  <2> QED BY <2>2, <2>3 DEF KeptInv
<1>13. CASE UNCHANGED vars
  BY <1>13 DEF vars, procs, history, KeptInv, ReadsKeepContents, RepairsDue, Exists, Contents
<1>14. \A c \in Callers : AfterRead(doing[c]) \in {"idle", "act"}
  BY DEF AfterRead
<1> QED
  BY <1>1, <1>2, <1>3, <1>4, <1>5, <1>6, <1>7, <1>8, <1>9, <1>10, <1>11, <1>12, <1>13, <1>14
  DEF Next, WorkerStep, CallerStep

----------------------------------------------------------------------------
(* Theorems.                                                               *)

LEMMA Invariant == Spec => []IInv
<1>1. Init => IInv
  BY InitInvariant
<1>2. IInv /\ [Next]_vars => IInv'
  BY StepInvariant
<1> QED BY <1>1, <1>2, PTL DEF Spec

(* The report and every copy of it are details, for any recordings,        *)
(* requests and restarts.                                                  *)
THEOREM TypeCorrect == Spec => []TypeOK
<1>1. IInv => TypeOK
  BY InvariantImpliesTypes
<1> QED BY <1>1, Invariant, PTL

(* A report keeps its recording through processing, analyses, repairs and  *)
(* restarts, whichever of them fail.                                       *)
THEOREM RecordingsStay == Spec => []RecordingStays
<1>1. IInv => RecordingStays
  BY DEF IInv, DetailsSound, Stored, Sound, OfOnePiece, RecordingStays, Exists
<1> QED BY <1>1, Invariant, PTL

(* An analysis that is called completed is not the fallback's and belongs  *)
(* to a transcript.                                                        *)
THEOREM StatusesMatch == Spec => []StatusMatchesContents
<1>1. IInv => StatusMatchesContents
  BY NoDetailFields
  DEF IInv, DetailsSound, Stored, Sound, OfOnePiece, StatusMatchesContents, Unfinished
<1> QED BY <1>1, Invariant, PTL

(* A line is given a name only if a participant has it, and no report that *)
(* is stored is one whose labels a repair would replace.                   *)
THEOREM NamesKnown == Spec => []NamesAreKnown
<1>1. IInv => NamesAreKnown
  <2> SUFFICES ASSUME IInv, report.lines # <<>> PROVE NamesAreKnown
    BY DEF NamesAreKnown
  <2> DEFINE lines == report.lines
             normal == normalizeTranscriptSpeakers(lines)
  <2>1. recording \in Recordings /\ HasLines(lines) /\ Labelled(lines, recording)
    BY NoDetailFields DEF IInv, DetailsSound, Stored, Sound, OfOnePiece, Unfinished
  <2>2. \A i \in DOMAIN lines :
          isGenericSpeakerName(lines[i].name) \/ lines[i].name \in NamesOf(recording)
    BY <2>1 DEF Labelled, KnownLabel
  <2>3. DOMAIN normal = DOMAIN lines /\ \A i \in DOMAIN lines : normal[i].name = lines[i].name
    BY <2>1, NormalizedNames
  <2> HIDE DEF normal
  <2>4. ASSUME NEW i \in DOMAIN normal
        PROVE  i \notin Unknown(normal, recording.names)
    <3>1. KnownLabel(LabelOf(normal[i]), recording)
      BY <2>1, <2>3, KnownStaysKnown DEF Labelled
    <3>2. CASE LabelOf(normal[i]) \in NamesOf(recording)
      <4>1. PICK k \in DOMAIN recording.names : LabelOf(normal[i]) = recording.names[k]
        BY <3>2 DEF NamesOf
      <4>2. recording.names[k].kind = "person"
        BY <2>1, RecordingsAssumption
      <4>3. k \in Matching(LabelOf(normal[i]), recording.names)
        BY <4>1, <4>2 DEF Matching
      <4> QED BY <4>3 DEF Unknown
    <3> QED BY <3>1, <3>2 DEF KnownLabel, Unknown
  <2>5. Unknown(normal, recording.names) = {}
    BY <2>4 DEF Unknown
  <2>6. ~UnsafeLabels(report)
    BY <2>5 DEF UnsafeLabels, normal
  <2> QED BY <2>2, <2>6 DEF NamesAreKnown, NamesOf
<1> QED BY <1>1, Invariant, PTL

(* Requests that do not overlap lose nothing: reads and restarts leave a   *)
(* report without the words of the fallback as the last writer stored it.  *)
THEOREM ReadsKeep == Spec => []ReadsKeepContents
<1>1. Init => KeptInv
  BY DEF Init, KeptInv, ReadsKeepContents, RepairsDue, Exists
<1>2. IInv /\ KeptInv /\ [Next]_vars => KeptInv'
  BY StepKeeps
<1>3. KeptInv => ReadsKeepContents
  BY DEF KeptInv
<1> QED BY <1>1, <1>2, <1>3, Invariant, PTL DEF Spec

----------------------------------------------------------------------------
(* Who works on a report in processing.                                    *)

(* As long as nobody has stored over another one's copy, a copy is in      *)
(* processing only if the report still is.                                 *)
WorkedOn == pc[Worker] # "idle" \/ \E c \in Callers : pc[c] = "analyse"
WorkInv ==
  ~mixed /\ restarts = 0 =>
    /\ report.stage = "processing" => WorkedOn
    /\ \A p \in Procs : copy[p].stage = "processing" => report.stage = "processing"

(* Nothing is stored.                                                      *)
LEMMA GoKeepsWork ==
  ASSUME IInv, WorkInv, NEW p \in Procs, NEW where, NEW what, NEW detail,
         Go(p, where, what, detail), report' = report, mixed' = mixed, restarts' = restarts,
         where = "idle" \/ detail.stage \in {report.stage, copy[p].stage},
         report.stage = "processing" /\ WorkedOn => WorkedOn'
  PROVE  WorkInv'
<1>1. \A q \in Procs :
        \/ copy'[q] = copy[q]
        \/ copy'[q] = NoDetail
        \/ q = p /\ where # "idle" /\ copy'[q] = detail
  BY DEF Go, IInv, Types
<1>2. NoDetail.stage # "processing"
  BY NoDetailFields
<1> QED BY <1>1, <1>2 DEF WorkInv

(* A report is read; the worker gives up only one that is gone.            *)
LEMMA ReadKeepsWork ==
  ASSUME IInv, WorkInv, NEW p \in Procs, NEW repair \in Places \ {"idle"}, NEW next, NEW what,
         Read(p, repair, next, what), report' = report, mixed' = mixed, restarts' = restarts,
         p = Worker => next # "idle", pc[p] # "analyse"
  PROVE  WorkInv'
<1>1. \A where, detail : Go(p, where, what, detail) =>
        pc'[p] = where /\ \A q \in Procs \ {p} : pc'[q] = pc[q]
  BY DEF Go, IInv, Types
<1>2. CASE Exists
  <2>1. PICK where \in {repair, next} : Go(p, where, what, Repaired(report))
    BY <1>2 DEF Read
  <2>2. Repaired(report).stage = report.stage
    BY DEF Repaired, Repair, DetailFromAnalysis
  <2>3. p = Worker => where # "idle"
    BY <2>1
  <2>4. WorkedOn => WorkedOn'
    BY <1>1, <2>1, <2>3, WorkerIsNoCaller DEF WorkedOn
  <2> QED BY <2>1, <2>2, <2>4, GoKeepsWork
<1>3. CASE ~Exists
  <2>1. Go(p, "idle", "none", NoDetail)
    BY <1>3 DEF Read, Return
  <2>2. report.stage # "processing"
    BY <1>3, NoDetailFields DEF Exists
  <2> QED BY <2>1, <2>2, GoKeepsWork
<1> QED BY <1>2, <1>3

(* A detail is stored: if anyone else holds a copy, the stores are mixed.  *)
LEMMA PutKeepsWork ==
  ASSUME IInv, WorkInv, NEW p \in Procs, NEW detail, NEW where, NEW what, NEW held,
         Put(p, detail), Go(p, where, what, held), restarts' = restarts,
         where = "idle" \/ held.stage = detail.stage,
         ~mixed /\ restarts = 0 /\ detail.stage = "processing" => WorkedOn'
  PROVE  WorkInv'
<1>1. report' = detail /\ mixed' = (mixed \/ \E q \in Procs \ {p} : Holds(q))
  BY DEF Put
<1>2. \A q \in Procs \ {p} : copy'[q] = copy[q]
  BY DEF Go, IInv, Types
<1>3. copy'[p] = NoDetail \/ copy'[p].stage = detail.stage
  BY DEF Go, IInv, Types
<1>4. NoDetail.stage # "processing"
  BY NoDetailFields
<1> QED BY <1>1, <1>2, <1>3, <1>4 DEF WorkInv, Holds

LEMMA StageIs ==
  ASSUME NEW detail, Stored(detail, recording), NEW stage, NEW value
  PROVE  /\ [detail EXCEPT !.analysis = value, !.stage = stage].stage = stage
         /\ [detail EXCEPT !.note = value].stage = detail.stage
         /\ [detail EXCEPT !.summary = value].stage = detail.stage
         /\ \A edited \in Edited(detail) : edited.stage = detail.stage
<1>1. \A summary, items :
        [detail EXCEPT !.summary = summary, !.items = items].stage = detail.stage
  BY NoDetailFields DEF Stored, Sound, DetailOK
<1>2. \A edited \in Edited(detail) : edited.stage = detail.stage
  <2> TAKE edited \in Edited(detail)
  <2>1. PICK summary \in {detail.summary, "edited", Worded, "none"},
             items \in {detail.items, "edited", Worded} :
               edited = [detail EXCEPT !.summary = summary, !.items = items]
    BY DEF Edited
  <2> QED BY <1>1, <2>1
<1> QED BY <1>2, NoDetailFields DEF Stored, Sound, DetailOK

(* Every step keeps it.                                                    *)
LEMMA StepKeepsWork == IInv /\ WorkInv /\ [Next]_vars => WorkInv'
<1> SUFFICES ASSUME IInv, WorkInv, [Next]_vars PROVE WorkInv'
  OBVIOUS
<1> USE WorkerIsNoCaller
<1>0. \A p \in Procs : \A where, what, detail :
        Go(p, where, what, detail) =>
          pc'[p] = where /\ \A q \in Procs \ {p} : pc'[q] = pc[q]
  BY DEF Go, IInv, Types
<1>1. CASE UploadRow
  <2>1. report'.stage = "saved" /\ copy' = copy
    BY <1>1 DEF UploadRow, Store, Put, NewDetail, procs
  <2>2. \A p \in Procs : copy[p] = NoDetail
    BY <1>1 DEF UploadRow, IInv, Nothing
  <2> QED BY <2>1, <2>2, NoDetailFields DEF WorkInv
<1>2. ASSUME NEW r \in Recordings, Upload(r) PROVE WorkInv'
  <2>1. /\ Put(Worker, NewDetail("processing", "pending", "pending", r.file))
        /\ Go(Worker, "transcribe", "none", NoDetail)
    BY <1>2 DEF Upload, Store
  <2>2. report'.stage = "processing"
    BY <2>1 DEF Put, NewDetail
  <2>3. WorkedOn'
    BY <1>0, <2>1 DEF WorkedOn
  <2> QED BY <2>2, <2>3 DEF WorkInv
<1>3. CASE Transcribe
  <2>1. PICK what : Go(Worker, "read", what, NoDetail)
    BY <1>3 DEF Transcribe
  <2>2. WorkedOn'
    BY <1>0, <2>1 DEF WorkedOn
  <2>3. UNCHANGED <<report, restarts, mixed>>
    BY <1>3 DEF Transcribe, history
  <2>4. \A p \in Procs : copy'[p] \in {NoDetail, copy[p]}
    BY <2>1 DEF Go, IInv, Types
  <2> QED BY <2>2, <2>3, <2>4, NoDetailFields DEF WorkInv
<1>4. CASE WorkerReads
  <2>1. "repair" \in Places \ {"idle"}
    BY DEF Places
  <2> QED BY <1>4, <2>1, ReadKeepsWork DEF WorkerReads, history
<1>5. ASSUME NEW p \in Procs, NEW repair \in {"repair", "repair again"}, NEW next,
             StoreRepair(p, repair, next), p = Worker => next # "idle"
      PROVE  WorkInv'
  <2>1. /\ pc[p] = repair /\ Put(p, copy[p]) /\ Go(p, next, doing[p], copy[p])
        /\ restarts' = restarts
    BY <1>5 DEF StoreRepair
  <2>2. WorkedOn => WorkedOn'
    BY <1>0, <1>5, <2>1 DEF WorkedOn
  <2>3. ~mixed /\ restarts = 0 /\ copy[p].stage = "processing" => WorkedOn'
    BY <2>2 DEF WorkInv
  <2> QED BY <2>1, <2>3, PutKeepsWork
<1>6. CASE WorkerStores
  <2>1. PICK detail : /\ Put(Worker, detail) /\ Go(Worker, "idle", "none", NoDetail)
                      /\ \/ detail = FailedDetail(copy[Worker])
                         \/ \E lines : detail = ReadyDetail(copy[Worker], lines, doing[Worker])
    BY <1>6 DEF WorkerStores, Store, Return
  <2>2. copy[Worker] # NoDetail /\ Stored(copy[Worker], recording)
    BY <1>6 DEF WorkerStores, IInv, CopiesHeld, DetailsSound, Places
  <2>3. detail.stage # "processing"
    <3>1. FailedDetail(copy[Worker]).stage = "failed"
      BY <2>2, NoDetailFields DEF FailedDetail, Stored, Sound, DetailOK
    <3>2. \A lines : ReadyDetail(copy[Worker], lines, doing[Worker]).stage = "ready"
      BY DEF ReadyDetail, DetailFromAnalysis
    <3> QED BY <2>1, <3>1, <3>2
  <2> QED BY <1>6, <2>1, <2>3, PutKeepsWork DEF WorkerStores
<1>7. ASSUME NEW c \in Callers, Edit(c) \/ Personal(c) PROVE WorkInv'
  <2>1. pc[c] \in {"act", "act again"} /\ Stored(copy[c], recording)
    BY <1>7 DEF Edit, Acts, Personal, IInv, DetailsSound
  <2>2. PICK detail : /\ Put(c, detail) /\ Go(c, "idle", "none", NoDetail)
                      /\ detail.stage = copy[c].stage
    <3>1. CASE Edit(c)
      BY <2>1, <3>1, StageIs DEF Edit, Store, Return
    <3>2. CASE Personal(c)
      <4>1. \A words : [copy[c] EXCEPT !.summary = words].stage = copy[c].stage
        BY <2>1, StageIs
      <4>2. [copy[c] EXCEPT !.note = "mine"].stage = copy[c].stage
        BY <2>1, StageIs
      <4>3. /\ \/ Put(c, [copy[c] EXCEPT !.note = "mine"])
               \/ \E words : Put(c, [copy[c] EXCEPT !.summary = words])
            /\ Go(c, "idle", "none", NoDetail)
        BY <3>2 DEF Personal, Store, Return
      <4> QED BY <4>1, <4>2, <4>3
    <3> QED BY <1>7, <3>1, <3>2
  <2>3. WorkedOn => WorkedOn'
    BY <1>0, <1>7, <2>1, <2>2 DEF WorkedOn
  <2>4. ~mixed /\ restarts = 0 /\ detail.stage = "processing" => WorkedOn'
    BY <1>7, <2>2, <2>3 DEF WorkInv
  <2> QED BY <1>7, <2>2, <2>4, PutKeepsWork DEF Edit, Personal
<1>8. ASSUME NEW c \in Callers, RetryEnds(c) \/ Delete(c) PROVE WorkInv'
  <2>1. Stored(copy[c], recording)
    BY <1>8 DEF IInv, DetailsSound
  <2>2. \A lines, outcome : ReadyDetail(copy[c], lines, outcome).stage = "ready"
    BY DEF ReadyDetail, DetailFromAnalysis
  <2>3. PICK detail : /\ Put(c, detail) /\ Go(c, "idle", "none", NoDetail)
                      /\ detail.stage # "processing"
    <3>1. CASE Delete(c)
      BY <3>1, NoDetailFields DEF Delete, Store, Return
    <3>2. CASE RetryEnds(c)
      <4>1. [copy[c] EXCEPT !.analysis = "failed", !.stage = "ready"].stage = "ready"
        BY <2>1, StageIs
      <4>2. /\ \/ Put(c, [copy[c] EXCEPT !.analysis = "failed", !.stage = "ready"])
               \/ \E outcome : Put(c, ReadyDetail(copy[c], copy[c].lines, outcome))
            /\ Go(c, "idle", "none", NoDetail)
        BY <3>2 DEF RetryEnds, Store, Return
      <4> QED BY <2>2, <4>1, <4>2
    <3> QED BY <1>8, <3>1, <3>2
  <2> QED BY <1>8, <2>3, PutKeepsWork DEF RetryEnds, Delete
<1>9. ASSUME NEW c \in Callers, ReadAgain(c) PROVE WorkInv'
  <2>1. "repair again" \in Places \ {"idle"}
    BY DEF Places
  <2> QED BY <1>9, <2>1, ReadKeepsWork DEF ReadAgain, Acts, history
<1>10. ASSUME NEW c \in Callers, PersonalizeFails(c) PROVE WorkInv'
  <2>1. pc[c] = "act" /\ Go(c, "idle", "none", NoDetail)
    BY <1>10 DEF PersonalizeFails, Acts, Return
  <2>2. WorkedOn => WorkedOn'
    BY <1>0, <1>10, <2>1 DEF WorkedOn
  <2> QED BY <1>10, <2>1, <2>2, GoKeepsWork DEF PersonalizeFails, history
<1>11. ASSUME NEW c \in Callers, RetryBegins(c) PROVE WorkInv'
  <2>1. CASE copy[c].lines = <<>>
    <3>1. pc[c] = "act" /\ Go(c, "idle", "none", NoDetail)
      BY <1>11, <2>1 DEF RetryBegins, Acts, Return
    <3>2. WorkedOn => WorkedOn'
      BY <1>0, <1>11, <3>1 DEF WorkedOn
    <3> QED BY <1>11, <2>1, <3>1, <3>2, GoKeepsWork DEF RetryBegins, history
  <2>2. CASE copy[c].lines # <<>>
    <3>1. PICK detail : Put(c, detail) /\ Go(c, "analyse", "retry", detail)
      BY <1>11, <2>2 DEF RetryBegins, Store
    <3>2. WorkedOn'
      BY <1>0, <1>11, <3>1 DEF WorkedOn
    <3> QED BY <1>11, <3>1, <3>2, PutKeepsWork DEF RetryBegins
  <2> QED BY <2>1, <2>2
<1>12. ASSUME NEW c \in Callers, NEW kind \in Kinds, Request(c, kind) PROVE WorkInv'
  <2>1. "repair" \in Places \ {"idle"}
    BY DEF Places
  <2> QED BY <1>12, <2>1, ReadKeepsWork DEF Request, history
<1>13. CASE Restart
  BY <1>13 DEF Restart, WorkInv, IInv, Types
<1>14. CASE UNCHANGED vars
  BY <1>14 DEF vars, procs, history, WorkInv, WorkedOn
<1>15. \A c \in Callers : AfterRead(doing[c]) \in {"idle", "act"}
  BY DEF AfterRead
<1> QED
  BY <1>1, <1>2, <1>3, <1>4, <1>5, <1>6, <1>7, <1>8, <1>9, <1>10, <1>11, <1>12, <1>13, <1>14, <1>15
  DEF Next, WorkerStep, CallerStep

(* While requests do not overlap, only a restart leaves a report in        *)
(* processing without a goroutine that will store what becomes of it.      *)
THEOREM ProcessingGoesOn == Spec => []ProcessingIsWorkedOn
<1>1. Init => WorkInv
  BY NoDetailFields DEF Init, WorkInv
<1>2. IInv /\ WorkInv /\ [Next]_vars => WorkInv'
  BY StepKeepsWork
<1>3. WorkInv => ProcessingIsWorkedOn
  BY DEF WorkInv, WorkedOn, ProcessingIsWorkedOn
<1> QED BY <1>1, <1>2, <1>3, Invariant, PTL DEF Spec
=============================================================================
