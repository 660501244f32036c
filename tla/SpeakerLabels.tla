--------------------------- MODULE SpeakerLabels ---------------------------
(***************************************************************************)
(* Who is said to speak a line of a transcript                             *)
(* (backend/internal/httpapi: transcription.go, diarization.go,            *)
(* speaker_attribution.go).                                                *)
(*                                                                         *)
(* A label is a string that every stage of the pipeline reads and writes   *)
(* again: a person's name, "Speaker", or "Speaker" with a number.  What    *)
(* the code tells apart is kept: the number, whether it is written with    *)
(* leading zeros ("SPEAKER_00"), and the first name of a person.  The lines*)
(* of a participant's own track, which sourceAllowsParticipantMatch lets   *)
(* keep any label, are left out.                                           *)
(***************************************************************************)
EXTENDS Integers, Sequences, FiniteSets

Bare == [kind |-> "bare"]          \* "Speaker"
NoLabel == [kind |-> "none"]       \* ""
Voice(n, padded) == [kind |-> "voice", number |-> n, padded |-> padded]
Speaker(n) == Voice(n, FALSE)      \* "Speaker n"
Person(first, last) == [kind |-> "person", first |-> first, last |-> last]

isGenericSpeakerName(label) == label.kind \in {"bare", "voice"}

Least(S) == CHOOSE i \in S : \A j \in S : i <= j
Greatest(S) == CHOOSE i \in S : \A j \in S : j <= i

----------------------------------------------------------------------------
(* A number of several digits is taken to count from 0.                    *)
normalizeSpeakerLabel(label) ==
  IF label.kind = "none" THEN Bare
  ELSE IF label.kind # "voice" THEN label
  ELSE Speaker(IF label.padded \/ label.number >= 10 THEN label.number + 1
               ELSE IF label.number = 0 THEN 1 ELSE label.number)

(* Here only one with a leading zero is.                                   *)
normalizeDiarizationSpeaker(label) ==
  IF label.kind # "voice" THEN label
  ELSE Speaker(IF label.number = 0 \/ label.padded THEN label.number + 1
               ELSE label.number)

----------------------------------------------------------------------------
(* transcriptLine: Speaker and SpeakerName.                                *)
Line(speaker, name) == [speaker |-> speaker, name |-> name]

(* A sequence as a tuple, which TLC evaluates only once.                   *)
Tuple(lines) == SubSeq(lines, 1, Len(lines))

normalizeTranscriptSpeakers(lines) ==
  Tuple([i \in DOMAIN lines |->
           Line(normalizeSpeakerLabel(lines[i].speaker), lines[i].name)])

LabelOf(line) ==
  normalizeSpeakerLabel(IF line.name # NoLabel THEN line.name ELSE line.speaker)

(* matchKnownParticipantName: equal names, a first name and a first name   *)
(* before another last name come to the same, equal first names.           *)
Matching(label, names) ==
  {k \in DOMAIN names : label.kind = "person" /\ names[k].first = label.first}
matchKnownParticipantName(label, names) == names[Least(Matching(label, names))]

(* nextFallbackSpeakerIndex.                                               *)
NumberOf(label) ==
  CASE label.kind = "bare" -> 1 [] label.kind = "voice" -> label.number [] OTHER -> 0
nextFallbackSpeakerIndex(lines) ==
  1 + Greatest({0} \cup {NumberOf(normalizeSpeakerLabel(lines[i].speaker)) : i \in DOMAIN lines})

(* The lines whose label is nobody's name, and the first with each label.  *)
Unknown(lines, names) ==
  {i \in DOMAIN lines :
     /\ ~isGenericSpeakerName(LabelOf(lines[i]))
     /\ Matching(LabelOf(lines[i]), names) = {}}
Firsts(lines, unknown) ==
  {i \in unknown : \A j \in unknown : j < i => LabelOf(lines[j]) # LabelOf(lines[i])}

(* Mutant: every unknown label is given the same number.                   *)
FallbackNumberMutant(lines, unknown, i) == nextFallbackSpeakerIndex(lines)

FallbackNumber(lines, unknown, i) ==
  nextFallbackSpeakerIndex(lines)
    + Cardinality({j \in Firsts(lines, unknown) :
                     \A k \in unknown : LabelOf(lines[k]) = LabelOf(lines[i]) => j < k})

(* Mutant: labels that are nobody's name are kept.                         *)
SanitizedLabelMutant(lines, names, i) ==
  LET label == LabelOf(lines[i]) IN
  IF Matching(label, names) # {} THEN matchKnownParticipantName(label, names) ELSE label

SanitizedLabel(lines, names, i) ==
  LET label == LabelOf(lines[i])
      unknown == Unknown(lines, names)
  IN IF i \in unknown THEN Speaker(FallbackNumber(lines, unknown, i))
     ELSE IF Matching(label, names) # {} THEN matchKnownParticipantName(label, names)
     ELSE label

sanitizeTranscriptSpeakerLabels(lines, names) ==
  Tuple([i \in DOMAIN lines |->
           LET label == SanitizedLabel(lines, names, i) IN Line(label, label)])

(* segmentsFromTranscriptLines and reportTranscriptsFromSegments.          *)
segmentsFromTranscriptLines(lines) ==
  Tuple([i \in DOMAIN lines |-> Line(LabelOf(lines[i]), LabelOf(lines[i]))])

----------------------------------------------------------------------------
(* The lines as they are when the analysis begins.  said[i] is the label   *)
(* the recording is given: by the diarization service the voice of the     *)
(* segment that overlaps line i most (bestDiarizationSpeaker), Bare        *)
(* without one; by speech-to-text its own.                                 *)
transcriptLinesFromTranscription(said) ==
  normalizeTranscriptSpeakers(
    [i \in DOMAIN said |-> Line(normalizeSpeakerLabel(said[i]), NoLabel)])

applyDiarizationSegments(said) ==
  normalizeTranscriptSpeakers(
    [i \in DOMAIN said |-> Line(normalizeDiarizationSpeaker(said[i]), NoLabel)])

TranscribedLines(said, source) ==
  CASE source = "stt" -> transcriptLinesFromTranscription(said)
    [] source = "diarization" -> applyDiarizationSegments(said)
=============================================================================
