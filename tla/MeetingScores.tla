--------------------------- MODULE MeetingScores ---------------------------
(***************************************************************************)
(* The numbers of a report, computed from the labels and the moods of the  *)
(* lines of its transcript (backend/internal/httpapi: scoring.go,          *)
(* speakerTalkTime of transcription.go).                                   *)
(***************************************************************************)
EXTENDS Integers, Sequences, FiniteSets

Lesser(a, b) == IF a < b THEN a ELSE b
Larger(a, b) == IF a < b THEN b ELSE a
clampScore(value) == Lesser(100, Larger(0, value))
NoScore == -1   \* HasCharisma, HasBias: no line qualifies

With(moods, lines, mood) == Cardinality({i \in lines : moods[i] = mood})
Balance(moods, lines) == With(moods, lines, "positive") - With(moods, lines, "negative")

Scores(mood, engagement) ==
  [score |-> clampScore((mood + engagement) \div 2), mood |-> mood, engagement |-> engagement]

(* math.Round(x + n/3) is x + (n + 1) \div 3.                              *)
computeMeetingScores(moods, speakerCount) ==
  Scores(clampScore(75 + 3 * With(moods, DOMAIN moods, "positive")
                       - 5 * With(moods, DOMAIN moods, "negative")),
         clampScore(50 + Lesser(30, 8 * speakerCount) + Lesser(20, (Len(moods) + 1) \div 3)))

(* speakerTalkTime, in percent.                                            *)
Spoken(labels, label) == {i \in DOMAIN labels : labels[i] = label}
TalkTime(count, total) == Larger(1, (count * 100) \div total)

(* computeParticipantPositions: a speaker's own lines, those that answer   *)
(* one of them, and those of them that answer somebody.                    *)
Reactions(labels, label) ==
  {i \in DOMAIN labels : i > 1 /\ labels[i] # label /\ labels[i - 1] = label}
Answers(labels, label) ==
  {i \in Spoken(labels, label) : i > 1 /\ labels[i - 1] # label}
Swayed(moods, lines) ==
  IF lines = {} THEN NoScore ELSE clampScore(75 + 8 * Balance(moods, lines))

computeParticipantPositions(labels, moods, label) ==
  LET own == Spoken(labels, label)
      talk == TalkTime(Cardinality(own), Len(labels))
      mood == clampScore(75 + 4 * With(moods, own, "positive") - 6 * With(moods, own, "negative"))
      engagement == clampScore(50 + talk \div 2 + 2 * Cardinality(own))
  IN [talk |-> talk, scores |-> Scores(mood, engagement),
      charisma |-> Swayed(moods, Reactions(labels, label)),
      bias |-> Swayed(moods, Answers(labels, label))]

(* computeSentimentTrend: the number and the size of its buckets, and how  *)
(* many of them there are in the end.                                      *)
BucketCount(n) == Lesser(n, Lesser(12, Larger(4, n \div 3)))
BucketSizeMutant(n) == n \div BucketCount(n)   \* mutant: without math.Ceil
BucketSize(n) == (n + BucketCount(n) - 1) \div BucketCount(n)
Points(n) == (n + BucketSize(n) - 1) \div BucketSize(n)
Bucket(n, k) == ((k - 1) * BucketSize(n) + 1) .. Lesser(k * BucketSize(n), n)

computeSentimentTrend(moods, scores) ==
  LET n == Len(moods) IN
  [k \in 1..Points(n) |->
     Scores(clampScore(scores.mood + 4 * Balance(moods, Bucket(n, k))),
            clampScore(scores.engagement
                         + 2 * (Cardinality(Bucket(n, k)) - BucketSize(n) \div 2)))]

(* What reportDetailFromAnalysis keeps of them.                            *)
Statistics(labels, moods) ==
  LET speakers == {labels[i] : i \in DOMAIN labels}
      scores == computeMeetingScores(moods, Cardinality(speakers))
  IN [scores |-> scores,
      speakers |-> [s \in speakers |-> computeParticipantPositions(labels, moods, s)],
      trend |-> computeSentimentTrend(moods, scores)]
=============================================================================
