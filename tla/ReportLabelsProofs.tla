-------------------------- MODULE ReportLabelsProofs --------------------------
(***************************************************************************)
(* Proofs about the labels of ReportContents: for every recording, however *)
(* many voices and persons speak in it and however often its transcript is *)
(* normalised, sanitised, stored, repaired and analysed again, one speaker *)
(* keeps one label, and speakers who could be told apart at first always   *)
(* can be.  And about the statistics, which are made before the labels are *)
(* normalised for the last time, and about the trend, which divides the    *)
(* lines: whatever their number, each of them is in one of its buckets.    *)
(***************************************************************************)
EXTENDS ReportContentsProofs, FiniteSetTheorems

(* A label as normalizeSpeakerLabel leaves it.                             *)
Proper(label) ==
  /\ label.kind # "none"
  /\ label.kind = "voice" => \E n \in Nat \ {0} : label = Speaker(n)

(* The labels of a transcript follow those who speak: a person's has its   *)
(* first name, one speaker has one, and two have two if they are told      *)
(* apart.                                                                  *)
Follows(labels, rec) ==
  /\ DOMAIN labels = DOMAIN rec.said
  /\ \A i \in DOMAIN labels : Proper(labels[i])
  /\ \A i \in DOMAIN labels : labels[i].kind = "person" =>
       rec.said[i].kind = "person" /\ labels[i].first = rec.said[i].first
  /\ \A i, j \in DOMAIN labels : rec.said[i] = rec.said[j] => labels[i] = labels[j]
  /\ \A i, j \in DOMAIN labels : ToldApart(rec, i, j) => labels[i] # labels[j]

Names(lines) == [i \in DOMAIN lines |-> lines[i].name]
Speakers(lines) == [i \in DOMAIN lines |-> lines[i].speaker]

(* A transcript as it is stored, and one that may be sanitised.            *)
Named(lines) == \A i \in DOMAIN lines : lines[i].speaker = lines[i].name
Unnamed(lines) == \A i \in DOMAIN lines : lines[i].name = NoLabel
Followed(lines, rec) == Named(lines) /\ Follows(Names(lines), rec)
Sanitizable(lines, rec) == (Named(lines) \/ Unnamed(lines)) /\ Follows(Speakers(lines), rec)

(* The statistics are those of the transcript as it was before its labels  *)
(* were normalised for the last time.                                      *)
Measured(detail, rec) ==
  \E sane :
    /\ HasLines(sane) /\ Followed(sane, rec)
    /\ detail.lines = segmentsFromTranscriptLines(sane)
    /\ detail.stats = Statistics(LabelsOf(sane), rec.moods)

(* Every transcript that is stored, or may be, follows its speakers.       *)
Lined(detail, rec) ==
  detail.lines # <<>> => Followed(detail.lines, rec) /\ Measured(detail, rec)
LabelsInv == Lined(report, recording) /\ \A p \in Procs : Lined(copy[p], recording)

----------------------------------------------------------------------------
(* Labels.                                                                 *)

(* Normalising a label makes it proper.                                    *)
LEMMA NormalizedIsProper ==
  ASSUME NEW label, label.kind = "voice" => label.number \in Nat
  PROVE  Proper(normalizeSpeakerLabel(label))
<1>1. CASE label.kind = "voice"
  <2> DEFINE n == IF label.padded \/ label.number >= 10 THEN label.number + 1
                  ELSE IF label.number = 0 THEN 1 ELSE label.number
  <2>1. normalizeSpeakerLabel(label) = Speaker(n)
    BY <1>1 DEF normalizeSpeakerLabel
  <2>2. n \in Nat \ {0}
    BY <1>1
  <2> HIDE DEF n
  <2>3. Speaker(n).kind = "voice"
    BY DEF Speaker, Voice
  <2> QED BY <2>1, <2>2, <2>3 DEF Proper
<1>2. CASE label.kind # "voice"
  BY <1>2 DEF normalizeSpeakerLabel, Proper, Bare
<1> QED BY <1>1, <1>2

(* The number of a proper label grows from 10 on, by one.                  *)
LEMMA NormalizedNumber ==
  ASSUME NEW n \in Nat \ {0}
  PROVE  /\ n >= 10 => normalizeSpeakerLabel(Speaker(n)) = Speaker(n + 1)
         /\ n < 10 => normalizeSpeakerLabel(Speaker(n)) = Speaker(n)
         /\ Speaker(n).kind = "voice" /\ Speaker(n).number = n
<1>1. Speaker(n).kind = "voice" /\ Speaker(n).number = n /\ ~Speaker(n).padded
  BY DEF Speaker, Voice
<1>2. normalizeSpeakerLabel(Speaker(n)) =
        Speaker(IF Speaker(n).padded \/ n >= 10 THEN n + 1 ELSE IF n = 0 THEN 1 ELSE n)
  BY <1>1 DEF normalizeSpeakerLabel
<1> QED BY <1>1, <1>2

(* A proper label that is no voice stays as it is.                         *)
LEMMA NormalizedOther ==
  ASSUME NEW label, Proper(label), label.kind # "voice"
  PROVE  normalizeSpeakerLabel(label) = label
BY DEF normalizeSpeakerLabel, Proper

(* Normalising keeps two proper labels apart, and never lowers a number.   *)
LEMMA NormalizedApart ==
  ASSUME NEW a, NEW b, Proper(a), Proper(b)
  PROVE  /\ normalizeSpeakerLabel(a) = normalizeSpeakerLabel(b) => a = b
         /\ Proper(normalizeSpeakerLabel(a))
         /\ normalizeSpeakerLabel(a).kind = a.kind
         /\ NumberOf(a) \in Nat /\ NumberOf(normalizeSpeakerLabel(a)) \in Nat
         /\ NumberOf(a) <= NumberOf(normalizeSpeakerLabel(a))
<1>1. \A c : Proper(c) =>
        \/ c.kind # "voice" /\ normalizeSpeakerLabel(c) = c
        \/ \E n \in Nat \ {0}, m \in Nat \ {0} :
             /\ c = Speaker(n) /\ normalizeSpeakerLabel(c) = Speaker(m)
             /\ m = IF n >= 10 THEN n + 1 ELSE n
  <2> SUFFICES ASSUME NEW c, Proper(c), c.kind = "voice"
               PROVE  \E n \in Nat \ {0}, m \in Nat \ {0} :
                        /\ c = Speaker(n) /\ normalizeSpeakerLabel(c) = Speaker(m)
                        /\ m = IF n >= 10 THEN n + 1 ELSE n
    BY NormalizedOther
  <2>1. PICK n \in Nat \ {0} : c = Speaker(n)
    BY DEF Proper
  <2> DEFINE m == IF n >= 10 THEN n + 1 ELSE n
  <2>2. m \in Nat \ {0} /\ normalizeSpeakerLabel(c) = Speaker(m)
    BY <2>1, NormalizedNumber
  <2> QED BY <2>1, <2>2
<1>2. \A n, m \in Nat \ {0} : Speaker(n) = Speaker(m) => n = m
  BY NormalizedNumber
<1>3. normalizeSpeakerLabel(a) = normalizeSpeakerLabel(b) => a = b
  BY <1>1, <1>2, NormalizedNumber
<1>4. CASE a.kind # "voice"
  <2>1. NumberOf(a) \in {0, 1}
    BY <1>4 DEF NumberOf
  <2> QED BY <1>3, <1>4, <2>1, NormalizedOther
<1>5. CASE a.kind = "voice"
  <2>1. PICK n \in Nat \ {0}, m \in Nat \ {0} :
          /\ a = Speaker(n) /\ normalizeSpeakerLabel(a) = Speaker(m)
          /\ m = IF n >= 10 THEN n + 1 ELSE n
    BY <1>1, <1>5
  <2>2. NumberOf(Speaker(n)) = n /\ NumberOf(Speaker(m)) = m
    BY NormalizedNumber DEF NumberOf
  <2>3. Speaker(m).kind = "voice" /\ Proper(Speaker(m))
    BY NormalizedNumber DEF Proper
  <2> QED BY <1>3, <1>5, <2>1, <2>2, <2>3
<1> QED BY <1>4, <1>5

----------------------------------------------------------------------------
(* Numbers that no label has yet.                                          *)

(* A set of numbers has a least one.                                       *)
LEMMA LeastIsLeast ==
  ASSUME NEW S \in SUBSET Nat, S # {}
  PROVE  \E m \in S : \A k \in S : m <= k
<1>1. PICK m \in S : \A k \in S : ~(<<k, m>> \in OpToRel(<, Nat))
  BY NatLessThanWellFounded, WFMin
<1>2. ASSUME NEW k \in S PROVE m <= k
  <2>1. ~(k < m)
    BY <1>1 DEF OpToRel
  <2> QED BY <2>1
<1> QED BY <1>2

(* Finitely many numbers have an upper bound.                              *)
LEMMA Bounded ==
  ASSUME NEW n \in Nat, NEW f, \A i \in 1..n : f[i] \in Nat
  PROVE  \E b \in Nat : \A i \in 1..n : f[i] <= b
<1> DEFINE bounded(m) == \E b \in Nat : \A i \in 1..m : f[i] <= b
           T == {m \in 0..n : ~bounded(m)}
<1>1. T \subseteq 0..n /\ \A m \in 0..n : m \notin T <=> bounded(m)
  OBVIOUS
<1>2. bounded(0)
  BY 0 \in Nat
<1>3. ASSUME NEW m \in 0..n, m # 0, bounded(m - 1) PROVE bounded(m)
  <2>1. PICK b \in Nat : \A i \in 1..(m - 1) : f[i] <= b
    BY <1>3
  <2>2. m \in 1..n /\ f[m] \in Nat
    BY <1>3
  <2>3. PICK c \in Nat : b <= c /\ f[m] <= c
    BY <2>2
  <2>4. ASSUME NEW i \in 1..m PROVE f[i] <= c
    <3>1. CASE i = m
      BY <2>3, <3>1
    <3>2. CASE i # m
      <4>1. i \in 1..(m - 1) /\ i \in 1..n
        BY <3>2
      <4>2. f[i] \in Nat /\ f[i] <= b
        BY <2>1, <4>1
      <4> QED BY <2>3, <4>2
    <3> QED BY <3>1, <3>2
  <2> QED BY <2>4
<1> HIDE DEF bounded, T
<1>4. ASSUME T # {} PROVE FALSE
  <2>1. T \in SUBSET Nat
    BY <1>1
  <2>2. PICK m \in T : \A k \in T : m <= k
    BY <1>4, <2>1, LeastIsLeast
  <2>3. m \in 0..n /\ m # 0
    BY <1>1, <1>2
  <2>4. m - 1 \in 0..n /\ ~(m <= m - 1)
    BY <2>3
  <2>5. bounded(m - 1)
    BY <1>1, <2>2, <2>4
  <2> QED BY <1>1, <1>3, <2>3, <2>5
<1>5. bounded(n)
  BY <1>1, <1>4
<1> QED BY <1>5 DEF bounded

(* The greatest of 0 and finitely many numbers is no smaller than each.    *)
LEMMA GreatestIsGreatest ==
  ASSUME NEW n \in Nat, NEW f, \A i \in 1..n : f[i] \in Nat
  PROVE  LET S == {0} \cup {f[i] : i \in 1..n} IN
         Greatest(S) \in Nat /\ \A i \in 1..n : f[i] <= Greatest(S)
<1> DEFINE S == {0} \cup {f[i] : i \in 1..n}
           B == {b \in Nat : \A x \in S : x <= b}
<1>1. S \subseteq Nat /\ 0 \in S
  OBVIOUS
<1>2. B # {}
  <2>1. PICK b \in Nat : \A i \in 1..n : f[i] <= b
    BY Bounded
  <2>2. \A x \in S : x <= b
    BY <2>1
  <2> QED BY <2>2
<1>3. PICK m \in B : \A b \in B : m <= b
  <2>1. B \in SUBSET Nat
    OBVIOUS
  <2> HIDE DEF B
  <2> QED BY <1>2, <2>1, LeastIsLeast
<1>4. m \in S
  <2>1. SUFFICES ASSUME m \notin S PROVE FALSE
    OBVIOUS
  <2>2. m # 0 /\ m - 1 \in Nat
    BY <2>1, <1>1
  <2>3. \A x \in S : x <= m - 1
    <3> TAKE x \in S
    <3>1. x \in Nat /\ x <= m /\ x # m
      BY <1>1, <2>1
    <3> QED BY <3>1
  <2>4. m - 1 \in B
    BY <2>2, <2>3
  <2> QED BY <1>3, <2>2, <2>4
<1>5. \A x \in S : x <= m
  OBVIOUS
<1> HIDE DEF S, B
<1>6. Greatest(S) \in S /\ \A x \in S : x <= Greatest(S)
  BY <1>4, <1>5 DEF Greatest
<1> QED BY <1>1, <1>6 DEF S

(* The fallback numbers begin above those of the labels.                   *)
LEMMA NextIsNew ==
  ASSUME NEW S, NEW lines \in Seq(S),
         \A i \in DOMAIN lines : NumberOf(normalizeSpeakerLabel(lines[i].speaker)) \in Nat
  PROVE  /\ nextFallbackSpeakerIndex(lines) \in Nat \ {0}
         /\ \A i \in DOMAIN lines :
              NumberOf(normalizeSpeakerLabel(lines[i].speaker)) < nextFallbackSpeakerIndex(lines)
<1> DEFINE number(i) == NumberOf(normalizeSpeakerLabel(lines[i].speaker))
           f == [i \in DOMAIN lines |-> number(i)]
           T == {0} \cup {f[i] : i \in 1..Len(lines)}
<1>1. Len(lines) \in Nat /\ DOMAIN lines = 1..Len(lines)
  OBVIOUS
<1>2. \A i \in 1..Len(lines) : f[i] \in Nat /\ f[i] = number(i)
  BY <1>1
<1>3. Greatest(T) \in Nat /\ \A i \in 1..Len(lines) : f[i] <= Greatest(T)
  <2> HIDE DEF f
  <2> QED BY <1>1, <1>2, GreatestIsGreatest
<1>4. T = {0} \cup {number(i) : i \in DOMAIN lines}
  BY <1>1, <1>2
<1>5. nextFallbackSpeakerIndex(lines) = 1 + Greatest(T)
  <2> HIDE DEF T
  <2> QED BY <1>4 DEF nextFallbackSpeakerIndex
<1> HIDE DEF T, f
<1> QED BY <1>1, <1>2, <1>3, <1>5

(* An unknown label is given a new number, the same wherever it is found   *)
(* and another one than any other unknown label: as many more as there are *)
(* labels that are first found before it.                                  *)
LEMMA FallbackNumbers ==
  ASSUME NEW S, NEW lines \in Seq(S), NEW unknown \in SUBSET DOMAIN lines,
         nextFallbackSpeakerIndex(lines) \in Nat,
         NEW i \in unknown, NEW j \in unknown
  PROVE  /\ FallbackNumber(lines, unknown, i) \in Nat
         /\ FallbackNumber(lines, unknown, i) >= nextFallbackSpeakerIndex(lines)
         /\ LabelOf(lines[i]) = LabelOf(lines[j]) <=>
              FallbackNumber(lines, unknown, i) = FallbackNumber(lines, unknown, j)
<1> DEFINE next == nextFallbackSpeakerIndex(lines)
           label(k) == LabelOf(lines[k])
           firsts == Firsts(lines, unknown)
           Before(k) == {f \in firsts : \A l \in unknown : label(l) = label(k) => f < l}
           number(k) == FallbackNumber(lines, unknown, k)
<1>1. \A k : number(k) = next + Cardinality(Before(k))
  BY DEF FallbackNumber
<1>2. unknown \subseteq Nat /\ IsFiniteSet(unknown)
  <2>1. Len(lines) \in Nat /\ DOMAIN lines = 1..Len(lines)
    OBVIOUS
  <2>2. IsFiniteSet(1..Len(lines))
    BY <2>1, FS_Interval
  <2> QED BY <2>1, <2>2, FS_Subset
<1>3. firsts \subseteq unknown
  BY DEF Firsts
<1>4. \A k : IsFiniteSet(Before(k)) /\ Cardinality(Before(k)) \in Nat
  <2> TAKE k
  <2>1. Before(k) \subseteq unknown
    BY <1>3
  <2>2. IsFiniteSet(Before(k))
    BY <1>2, <2>1, FS_Subset
  <2> QED BY <2>2, FS_CardinalityType
<1>5. \A k \in unknown : \E f \in firsts :
         label(f) = label(k) /\ \A l \in unknown : label(l) = label(k) => f <= l
  <2> TAKE k \in unknown
  <2> DEFINE same == {l \in unknown : label(l) = label(k)}
  <2>1. same \in SUBSET Nat /\ same # {}
    BY <1>2
  <2>2. PICK f \in same : \A l \in same : f <= l
    <3> HIDE DEF same
    <3> QED BY <2>1, LeastIsLeast
  <2>3. f \in firsts
    <3>1. \A l \in unknown : l < f => label(l) # label(f)
      BY <1>2, <2>2
    <3> QED BY <2>2, <3>1 DEF Firsts
  <2> QED BY <2>2, <2>3
<1>6. ASSUME NEW a \in unknown, NEW b \in unknown, NEW f \in firsts, NEW g \in firsts,
             label(f) = label(a) /\ \A l \in unknown : label(l) = label(a) => f <= l,
             label(g) = label(b) /\ \A l \in unknown : label(l) = label(b) => g <= l,
             f < g
      PROVE  Cardinality(Before(a)) < Cardinality(Before(b))
  <2>1. f \notin Before(a)
    BY <1>2, <1>3, <1>6
  <2>2. f \in Before(b)
    BY <1>2, <1>3, <1>6
  <2>3. Before(a) \subseteq Before(b)
    <3> SUFFICES ASSUME NEW e \in Before(a), NEW l \in unknown, label(l) = label(b)
                 PROVE  e < l
      OBVIOUS
    <3>1. e < f /\ g <= l
      BY <1>3, <1>6
    <3> QED BY <1>2, <1>3, <1>6, <3>1
  <2> HIDE DEF Before
  <2>4. Before(a) \cup {f} \subseteq Before(b)
    BY <2>2, <2>3
  <2>5. Cardinality(Before(a) \cup {f}) = Cardinality(Before(a)) + 1
    BY <1>4, <2>1, FS_AddElement
  <2>6. Cardinality(Before(a) \cup {f}) <= Cardinality(Before(b))
    BY <1>4, <2>4, FS_Subset
  <2> QED BY <1>4, <2>5, <2>6
<1>7. label(i) = label(j) => Before(i) = Before(j)
  OBVIOUS
<1>8. label(i) # label(j) => Cardinality(Before(i)) # Cardinality(Before(j))
  <2> SUFFICES ASSUME label(i) # label(j)
               PROVE  Cardinality(Before(i)) # Cardinality(Before(j))
    OBVIOUS
  <2>1. PICK f \in firsts :
          label(f) = label(i) /\ \A l \in unknown : label(l) = label(i) => f <= l
    BY <1>5
  <2>2. PICK g \in firsts :
          label(g) = label(j) /\ \A l \in unknown : label(l) = label(j) => g <= l
    BY <1>5
  <2>3. f \in Nat /\ g \in Nat /\ f # g
    BY <1>2, <1>3, <2>1, <2>2
  <2> HIDE DEF Before, firsts, label
  <2>4. CASE f < g
    <3>1. Cardinality(Before(i)) < Cardinality(Before(j))
      BY <1>6, <2>1, <2>2, <2>4
    <3> QED BY <1>4, <3>1
  <2>5. CASE g < f
    <3>1. Cardinality(Before(j)) < Cardinality(Before(i))
      BY <1>6, <2>1, <2>2, <2>5
    <3> QED BY <1>4, <3>1
  <2> QED BY <2>3, <2>4, <2>5
<1> HIDE DEF Before, firsts, number, next
<1>9. number(i) \in Nat /\ number(i) >= next /\ (label(i) = label(j) <=> number(i) = number(j))
  <2>1. next \in Nat
    BY DEF next
  <2> QED BY <1>1, <1>4, <1>7, <1>8, <2>1
<1> QED BY <1>9 DEF number, next

----------------------------------------------------------------------------
(* Sanitizing.                                                             *)

(* A name that stands for a label is a participant's with its first name,  *)
(* and the only one that stands for it.                                    *)
LEMMA MatchedName ==
  ASSUME NEW S, NEW names \in Seq(S), \A k \in DOMAIN names : names[k].kind = "person",
         NEW label, Matching(label, names) # {}
  PROVE  LET name == matchKnownParticipantName(label, names) IN
         /\ name.kind = "person" /\ label.kind = "person" /\ name.first = label.first
         /\ Matching(name, names) # {}
<1>1. Matching(label, names) \in SUBSET Nat /\ Matching(label, names) \subseteq DOMAIN names
  BY DEF Matching
<1>2. Least(Matching(label, names)) \in Matching(label, names)
  BY <1>1, LeastIsIn
<1>3. PICK k \in Matching(label, names) : matchKnownParticipantName(label, names) = names[k]
  BY <1>2 DEF matchKnownParticipantName
<1>4. /\ k \in DOMAIN names /\ names[k].kind = "person"
      /\ label.kind = "person" /\ names[k].first = label.first
  BY <1>3 DEF Matching
<1>5. k \in Matching(names[k], names)
  BY <1>4 DEF Matching
<1> QED BY <1>3, <1>4, <1>5

(* Sanitized labels follow the speakers if the labels before did.          *)
LEMMA SanitizedFollows ==
  ASSUME NEW rec \in Recordings, NEW names \in {rec.names, <<>>},
         NEW S, NEW lines \in Seq(S),
         Follows([i \in DOMAIN lines |-> LabelOf(lines[i])], rec),
         \A i \in DOMAIN lines :
           /\ NumberOf(normalizeSpeakerLabel(lines[i].speaker)) \in Nat
           /\ NumberOf(LabelOf(lines[i])) <= NumberOf(normalizeSpeakerLabel(lines[i].speaker))
  PROVE  Follows([i \in DOMAIN lines |-> SanitizedLabel(lines, names, i)], rec)
<1> DEFINE said == rec.said
           label(i) == LabelOf(lines[i])
           new(i) == SanitizedLabel(lines, names, i)
           unknown == Unknown(lines, names)
           next == nextFallbackSpeakerIndex(lines)
           number(i) == FallbackNumber(lines, unknown, i)
           matched(i) == i \notin unknown /\ Matching(label(i), names) # {}
           plain(i) == i \notin unknown /\ Matching(label(i), names) = {}
<1>1. /\ names \in Seq(NamesOf(rec))
      /\ \A k \in DOMAIN names : names[k].kind = "person"
      /\ \A x : Matching(x, names) \subseteq Matching(x, rec.names)
  <2>1. CASE names = rec.names
    BY <2>1, RecordingsAssumption DEF NamesOf
  <2>2. CASE names = <<>>
    BY <2>2 DEF Matching
  <2> QED BY <2>1, <2>2
<1>2. /\ DOMAIN lines = DOMAIN said
      /\ \A i \in DOMAIN lines : Proper(label(i))
      /\ \A i \in DOMAIN lines : label(i).kind = "person" =>
           said[i].kind = "person" /\ label(i).first = said[i].first
      /\ \A i, j \in DOMAIN lines : said[i] = said[j] => label(i) = label(j)
      /\ \A i, j \in DOMAIN lines : ToldApart(rec, i, j) => label(i) # label(j)
  BY DEF Follows
<1>3. next \in Nat \ {0} /\ \A i \in DOMAIN lines : NumberOf(label(i)) < next
  <2>1. next \in Nat \ {0} /\ \A i \in DOMAIN lines :
          NumberOf(normalizeSpeakerLabel(lines[i].speaker)) < next
    BY NextIsNew
  <2>2. \A i \in DOMAIN lines : NumberOf(label(i)) \in Nat
    BY <1>2, NormalizedApart
  <2> QED BY <2>1, <2>2
<1>4. unknown \in SUBSET DOMAIN lines
  BY DEF Unknown
<1>5. \A i \in unknown : number(i) \in Nat \ {0} /\ number(i) >= next /\ new(i) = Speaker(number(i))
  <2> TAKE i \in unknown
  <2>1. number(i) \in Nat /\ number(i) >= next
    BY <1>3, <1>4, FallbackNumbers
  <2>2. new(i) = Speaker(number(i))
    BY DEF SanitizedLabel
  <2> QED BY <1>3, <2>1, <2>2
<1>6. \A i \in DOMAIN lines : matched(i) =>
        /\ new(i) = matchKnownParticipantName(label(i), names)
        /\ new(i).kind = "person" /\ label(i).kind = "person" /\ new(i).first = label(i).first
        /\ Matching(new(i), names) # {}
  <2> SUFFICES ASSUME NEW i \in DOMAIN lines, matched(i)
               PROVE  /\ new(i) = matchKnownParticipantName(label(i), names)
                      /\ new(i).kind = "person" /\ label(i).kind = "person"
                      /\ new(i).first = label(i).first /\ Matching(new(i), names) # {}
    OBVIOUS
  <2>1. new(i) = matchKnownParticipantName(label(i), names)
    BY DEF SanitizedLabel
  <2> HIDE DEF new
  <2> QED BY <1>1, <2>1, MatchedName
<1>7. \A i \in DOMAIN lines : plain(i) => new(i) = label(i)
  BY DEF SanitizedLabel
<1>8. \A i \in DOMAIN lines : i \in unknown \/ matched(i) \/ plain(i)
  OBVIOUS
<1>9. \A i, j \in DOMAIN lines : label(i) = label(j) => (i \in unknown <=> j \in unknown)
  BY DEF Unknown
<1>10. \A i, j \in unknown : label(i) = label(j) <=> number(i) = number(j)
  BY <1>3, <1>4, FallbackNumbers
<1>11. \A n \in Nat \ {0} : /\ Proper(Speaker(n)) /\ Speaker(n).kind = "voice"
                            /\ Speaker(n).number = n /\ NumberOf(Speaker(n)) = n
  BY NormalizedNumber DEF Proper, NumberOf
<1> HIDE DEF label, new, unknown, next, number
<1>12. ASSUME NEW i \in DOMAIN lines
       PROVE  /\ Proper(new(i))
              /\ new(i).kind = "person" => said[i].kind = "person" /\ new(i).first = said[i].first
  <2>1. CASE i \in unknown
    BY <1>5, <1>11, <2>1
  <2>2. CASE matched(i)
    BY <1>2, <1>6, <2>2 DEF Proper
  <2>3. CASE plain(i)
    BY <1>2, <1>7, <2>3
  <2> QED BY <1>8, <2>1, <2>2, <2>3
<1>13. ASSUME NEW i \in DOMAIN lines, NEW j \in DOMAIN lines, said[i] = said[j]
       PROVE  new(i) = new(j)
  <2>1. label(i) = label(j) /\ (i \in unknown <=> j \in unknown)
    BY <1>2, <1>9, <1>13
  <2>2. CASE i \in unknown
    BY <1>5, <1>10, <2>1, <2>2
  <2>3. CASE matched(i)
    BY <1>6, <2>1, <2>3
  <2>4. CASE plain(i)
    BY <1>7, <2>1, <2>4
  <2> QED BY <1>8, <2>2, <2>3, <2>4
<1>14. ASSUME NEW i \in DOMAIN lines, NEW j \in DOMAIN lines, new(i) = new(j)
       PROVE  ~ToldApart(rec, i, j)
  <2>1. ASSUME NEW a \in DOMAIN lines, NEW b \in DOMAIN lines, new(a) = new(b),
               a \in unknown, b \notin unknown
        PROVE  FALSE
    <3>1. new(b).kind = "voice" /\ NumberOf(new(b)) >= next
      BY <1>3, <1>5, <1>11, <2>1
    <3>2. new(b) = label(b)
      BY <1>6, <1>7, <1>8, <2>1, <3>1
    <3>3. NumberOf(label(b)) \in Nat
      BY <1>2, NormalizedApart
    <3> QED BY <1>3, <3>1, <3>2, <3>3
  <2>2. ASSUME NEW a \in DOMAIN lines, NEW b \in DOMAIN lines, new(a) = new(b),
               matched(a), plain(b)
        PROVE  FALSE
    BY <1>6, <1>7, <2>2
  <2>3. CASE i \in unknown /\ j \in unknown
    <3>1. number(i) = number(j)
      BY <1>5, <1>11, <1>14, <2>3
    <3> QED BY <1>2, <1>10, <1>14, <2>3, <3>1
  <2>4. CASE matched(i) /\ matched(j)
    <3>1. /\ label(i).kind = "person" /\ label(j).kind = "person"
          /\ label(i).first = label(j).first
      BY <1>6, <1>14, <2>4
    <3>2. /\ said[i].kind = "person" /\ said[j].kind = "person"
          /\ label(i).first = said[i].first /\ label(j).first = said[j].first
      BY <1>2, <3>1
    <3>3. Matching(label(i), rec.names) # {}
      BY <1>1, <2>4
    <3>4. Matching(said[i], rec.names) = Matching(label(i), rec.names)
          /\ Matching(said[j], rec.names) = Matching(label(i), rec.names)
      BY <3>1, <3>2 DEF Matching
    <3> QED BY <3>3, <3>4 DEF ToldApart
  <2>5. CASE plain(i) /\ plain(j)
    BY <1>2, <1>7, <1>14, <2>5
  <2> QED BY <1>8, <1>14, <2>1, <2>2, <2>3, <2>4, <2>5
<1>15. Follows([i \in DOMAIN lines |-> new(i)], rec)
  BY <1>2, <1>12, <1>13, <1>14 DEF Follows
<1> QED BY <1>15 DEF new

(* Normalised labels follow the speakers if the labels before did.         *)
LEMMA NormalizedFollows ==
  ASSUME NEW rec, NEW labels, Follows(labels, rec)
  PROVE  Follows([i \in DOMAIN labels |-> normalizeSpeakerLabel(labels[i])], rec)
<1> DEFINE new == [i \in DOMAIN labels |-> normalizeSpeakerLabel(labels[i])]
<1>1. \A i \in DOMAIN labels : Proper(labels[i]) /\ new[i] = normalizeSpeakerLabel(labels[i])
  BY DEF Follows
<1>2. \A i \in DOMAIN labels : Proper(new[i])
  BY <1>1, NormalizedApart
<1>3. \A i \in DOMAIN labels : new[i].kind = "person" => new[i] = labels[i]
  BY <1>1, NormalizedApart, NormalizedOther
<1>4. \A i, j \in DOMAIN labels : new[i] = new[j] <=> labels[i] = labels[j]
  BY <1>1, NormalizedApart
<1>5. DOMAIN new = DOMAIN labels
  OBVIOUS
<1> HIDE DEF new
<1>6. Follows(new, rec)
  BY <1>2, <1>3, <1>4, <1>5 DEF Follows
<1> QED BY <1>6 DEF new

(* A function on the positions of lines is a tuple of it.                  *)
LEMMA TupleOfLines ==
  ASSUME NEW lines, HasLines(lines), NEW f, DOMAIN f = DOMAIN lines,
         f = [i \in DOMAIN f |-> f[i]]
  PROVE  Tuple(f) = f /\ \E S : f \in Seq(S)
<1> PICK S : lines \in Seq(S)
  BY DEF HasLines
<1>1. f \in Seq({f[i] : i \in DOMAIN f})
  OBVIOUS
<1>2. Tuple(f) = f
  BY <1>1, TupleIsSequence
<1> QED BY <1>1, <1>2

(* What is stored may be sanitized again.                                  *)
LEMMA FollowedIsSanitizable ==
  ASSUME NEW lines, NEW rec, Followed(lines, rec)
  PROVE  Sanitizable(lines, rec)
<1>1. Names(lines) = Speakers(lines)
  BY DEF Followed, Named, Names, Speakers
<1> QED BY <1>1 DEF Followed, Sanitizable

(* Sanitizing a transcript keeps its labels with the speakers.             *)
LEMMA SanitizeFollows ==
  ASSUME recording \in Recordings, NEW names \in {recording.names, <<>>},
         NEW lines, HasLines(lines), Sanitizable(lines, recording)
  PROVE  Followed(Sanitize(lines, names), recording)
<1> DEFINE normal == normalizeTranscriptSpeakers(lines)
           e == [i \in DOMAIN lines |->
                   Line(normalizeSpeakerLabel(lines[i].speaker), lines[i].name)]
           speakers == [i \in DOMAIN lines |-> normalizeSpeakerLabel(lines[i].speaker)]
           labels == [i \in DOMAIN normal |-> LabelOf(normal[i])]
           new(i) == SanitizedLabel(normal, names, i)
           g == [i \in DOMAIN normal |-> Line(new(i), new(i))]
<1>1. normal = e /\ \E S : normal \in Seq(S)
  <2>1. normal = Tuple(e)
    BY DEF normalizeTranscriptSpeakers
  <2>2. DOMAIN e = DOMAIN lines /\ e = [i \in DOMAIN e |-> e[i]]
    OBVIOUS
  <2> HIDE DEF e, normal
  <2> QED BY <2>1, <2>2, TupleOfLines
<1>2. /\ DOMAIN normal = DOMAIN lines
      /\ \A i \in DOMAIN lines : /\ normal[i].speaker = normalizeSpeakerLabel(lines[i].speaker)
                                 /\ normal[i].name = lines[i].name
  BY <1>1 DEF Line
<1> HIDE DEF normal, e
<1>3. Follows(speakers, recording)
  <2>1. /\ DOMAIN Speakers(lines) = DOMAIN lines
        /\ \A i \in DOMAIN lines : Speakers(lines)[i] = lines[i].speaker
    BY DEF Speakers
  <2>2. speakers = [i \in DOMAIN Speakers(lines) |-> normalizeSpeakerLabel(Speakers(lines)[i])]
    BY <2>1
  <2> QED BY <2>2, NormalizedFollows DEF Sanitizable
<1>4. \A i \in DOMAIN lines : Proper(lines[i].speaker) /\ Proper(speakers[i])
  BY <1>3 DEF Sanitizable, Follows, Speakers
<1>5. /\ Follows(labels, recording)
      /\ \A i \in DOMAIN lines : labels[i] \in {speakers[i], normalizeSpeakerLabel(speakers[i])}
  <2>1. CASE Named(lines)
    <3>1. \A i \in DOMAIN lines : labels[i] = speakers[i]
      BY <1>2, <1>4, <2>1 DEF Named, LabelOf, Proper, NoLabel
    <3>2. labels = speakers
      BY <1>2, <3>1
    <3> QED BY <1>3, <3>1, <3>2
  <2>2. CASE Unnamed(lines)
    <3>1. \A i \in DOMAIN lines : labels[i] = normalizeSpeakerLabel(speakers[i])
      BY <1>2, <2>2 DEF Unnamed, LabelOf
    <3>2. labels = [i \in DOMAIN speakers |-> normalizeSpeakerLabel(speakers[i])]
      BY <1>2, <3>1
    <3>3. Follows(labels, recording)
      <4> HIDE DEF labels, speakers
      <4> QED BY <1>3, <3>2, NormalizedFollows
    <3> QED BY <3>1, <3>3
  <2> QED BY <2>1, <2>2 DEF Sanitizable
<1>6. \A i \in DOMAIN normal :
        /\ NumberOf(normalizeSpeakerLabel(normal[i].speaker)) \in Nat
        /\ NumberOf(LabelOf(normal[i])) <= NumberOf(normalizeSpeakerLabel(normal[i].speaker))
  <2> TAKE i \in DOMAIN normal
  <2>1. i \in DOMAIN lines /\ Proper(speakers[i]) /\ normal[i].speaker = speakers[i]
    BY <1>2, <1>4
  <2>2. LabelOf(normal[i]) \in {speakers[i], normalizeSpeakerLabel(speakers[i])}
    BY <1>5, <2>1
  <2> HIDE DEF speakers
  <2> QED BY <2>1, <2>2, NormalizedApart
<1>7. Follows([i \in DOMAIN normal |-> new(i)], recording)
  <2> HIDE DEF speakers
  <2> QED BY <1>1, <1>5, <1>6, SanitizedFollows
<1>8. Sanitize(lines, names) = g
  <2>1. Sanitize(lines, names) = Tuple(g)
    BY DEF Sanitize, sanitizeTranscriptSpeakerLabels, normal
  <2>2. DOMAIN g = DOMAIN lines /\ g = [i \in DOMAIN g |-> g[i]]
    BY <1>2
  <2> HIDE DEF g
  <2> QED BY <2>1, <2>2, TupleOfLines
<1> HIDE DEF new
<1>9. Named(g) /\ Names(g) = [i \in DOMAIN normal |-> new(i)]
  BY DEF Named, Names, Line
<1> QED BY <1>7, <1>8, <1>9 DEF Followed

(* So do the segments of a report.                                         *)
LEMMA SegmentsFollow ==
  ASSUME NEW rec, NEW lines, HasLines(lines), Followed(lines, rec)
  PROVE  /\ Followed(segmentsFromTranscriptLines(lines), rec)
         /\ Names(segmentsFromTranscriptLines(lines)) =
              [i \in DOMAIN lines |-> normalizeSpeakerLabel(lines[i].name)]
<1> DEFINE names == Names(lines)
           labels == [i \in DOMAIN names |-> normalizeSpeakerLabel(names[i])]
           g == [i \in DOMAIN lines |-> Line(LabelOf(lines[i]), LabelOf(lines[i]))]
<1>1. /\ DOMAIN names = DOMAIN lines
      /\ \A i \in DOMAIN lines : names[i] = lines[i].name /\ Proper(lines[i].name)
  BY DEF Followed, Follows, Names
<1>2. Follows(labels, rec)
  BY NormalizedFollows DEF Followed
<1>3. \A i \in DOMAIN lines : LabelOf(lines[i]) = labels[i]
  BY <1>1 DEF LabelOf, Proper, NoLabel
<1>4. segmentsFromTranscriptLines(lines) = g
  <2>1. segmentsFromTranscriptLines(lines) = Tuple(g)
    BY DEF segmentsFromTranscriptLines
  <2>2. DOMAIN g = DOMAIN lines /\ g = [i \in DOMAIN g |-> g[i]]
    OBVIOUS
  <2> HIDE DEF g
  <2> QED BY <2>1, <2>2, TupleOfLines
<1>5. Named(g) /\ Names(g) = labels
  BY <1>1, <1>3 DEF Named, Names, Line
<1>6. labels = [i \in DOMAIN lines |-> normalizeSpeakerLabel(lines[i].name)]
  BY <1>1
<1> QED BY <1>2, <1>4, <1>5, <1>6 DEF Followed

(* The transcript of a report follows the speakers if the one it is made   *)
(* of can be sanitized, and so does the one its statistics are made of.    *)
LEMMA ReportFollows ==
  ASSUME recording \in Recordings, NEW outcome,
         NEW lines, HasLines(lines), Sanitizable(lines, recording)
  PROVE  LET sane == Sanitize(AnalysisLines(lines, outcome), recording.names) IN
         /\ HasLines(sane) /\ Followed(sane, recording)
         /\ Followed(ReportLines(AnalysisLines(lines, outcome)), recording)
<1> DEFINE analysed == AnalysisLines(lines, outcome)
           sane == Sanitize(analysed, recording.names)
<1>1. HasLines(analysed) /\ Followed(analysed, recording)
  BY SanitizedHasLines, SanitizeFollows DEF AnalysisLines
<1>2. HasLines(sane) /\ Followed(sane, recording)
  <2> HIDE DEF analysed
  <2> QED BY <1>1, FollowedIsSanitizable, SanitizedHasLines, SanitizeFollows
<1>3. Followed(segmentsFromTranscriptLines(sane), recording)
  <2> HIDE DEF sane
  <2> QED BY <1>2, SegmentsFollow
<1> QED BY <1>2, <1>3 DEF ReportLines

(* The labels a transcript begins with follow the speakers.                *)
LEMMA TranscribedFollows ==
  ASSUME NEW r \in Recordings
  PROVE  Sanitizable(TranscribedLines(r.said, r.source), r)
<1> DEFINE said == r.said
           lines == TranscribedLines(said, r.source)
           first == [i \in DOMAIN said |-> FirstLabel(said[i], r.source)]
<1>1. PICK S : said \in Seq(S) \ {<<>>}
  BY RecordingsAssumption
<1>2. \A i \in DOMAIN said : said[i].kind = "voice" => said[i].number \in Nat
  BY RecordingsAssumption
<1>3. Follows(first, r)
  <2>1. \A i \in DOMAIN said : Proper(first[i])
    <3> TAKE i \in DOMAIN said
    <3>1. CASE r.source = "diarization"
      <4> DEFINE voice == normalizeDiarizationSpeaker(said[i])
      <4>1. voice.kind = "voice" => voice.number \in Nat
        BY <1>2 DEF normalizeDiarizationSpeaker, Speaker, Voice
      <4>2. first[i] = normalizeSpeakerLabel(voice)
        BY <3>1 DEF FirstLabel
      <4> HIDE DEF voice
      <4> QED BY <4>1, <4>2, NormalizedIsProper
    <3>2. CASE r.source # "diarization"
      BY <1>2, <3>2, NormalizedIsProper DEF FirstLabel
    <3> QED BY <3>1, <3>2
  <2>2. \A i \in DOMAIN said : first[i].kind = "person" => first[i] = said[i]
    BY DEF FirstLabel, normalizeSpeakerLabel, normalizeDiarizationSpeaker, Speaker, Voice, Bare
  <2>3. \A i, j \in DOMAIN said : said[i] = said[j] => first[i] = first[j]
    OBVIOUS
  <2>4. \A i, j \in DOMAIN said : ToldApart(r, i, j) => first[i] # first[j]
    BY DEF ToldApart
  <2>5. DOMAIN first = DOMAIN said
    OBVIOUS
  <2> HIDE DEF first
  <2> QED BY <2>1, <2>2, <2>3, <2>4, <2>5 DEF Follows
<1>4. \A f : DOMAIN f = DOMAIN said /\ f = [i \in DOMAIN f |-> f[i]] =>
        Tuple(f) = f /\ HasLines(f)
  <2> TAKE f
  <2> HAVE DOMAIN f = DOMAIN said /\ f = [i \in DOMAIN f |-> f[i]]
  <2>1. f \in Seq({f[i] : i \in DOMAIN f}) /\ f # <<>>
    BY <1>1
  <2> QED BY <2>1, TupleIsSequence DEF HasLines
<1>5. \A f : DOMAIN f = DOMAIN said /\ f = [i \in DOMAIN f |-> f[i]] =>
        normalizeTranscriptSpeakers(f) =
          [i \in DOMAIN said |-> Line(normalizeSpeakerLabel(f[i].speaker), f[i].name)]
  <2> TAKE f
  <2> HAVE DOMAIN f = DOMAIN said /\ f = [i \in DOMAIN f |-> f[i]]
  <2> DEFINE g == [i \in DOMAIN f |-> Line(normalizeSpeakerLabel(f[i].speaker), f[i].name)]
  <2>1. DOMAIN g = DOMAIN said /\ g = [i \in DOMAIN g |-> g[i]]
    OBVIOUS
  <2>2. normalizeTranscriptSpeakers(f) = Tuple(g)
    BY DEF normalizeTranscriptSpeakers
  <2>3. Tuple(g) = g
    <3> HIDE DEF g
    <3> QED BY <1>4, <2>1
  <2> QED BY <2>2, <2>3
<1>6. CASE r.source = "stt"
  <2> DEFINE f == [i \in DOMAIN said |-> Line(normalizeSpeakerLabel(said[i]), NoLabel)]
             second == [i \in DOMAIN first |-> normalizeSpeakerLabel(first[i])]
  <2>1. lines = normalizeTranscriptSpeakers(f)
    BY <1>6 DEF TranscribedLines, transcriptLinesFromTranscription
  <2>2. DOMAIN f = DOMAIN said /\ f = [i \in DOMAIN f |-> f[i]]
    OBVIOUS
  <2>3. \A i \in DOMAIN said : f[i].speaker = first[i] /\ f[i].name = NoLabel
    BY <1>6 DEF FirstLabel, Line
  <2>4. lines = [i \in DOMAIN said |-> Line(normalizeSpeakerLabel(f[i].speaker), f[i].name)]
    <3> HIDE DEF f, lines
    <3> QED BY <1>5, <2>1, <2>2
  <2>5. /\ DOMAIN lines = DOMAIN said
        /\ \A i \in DOMAIN said :
             lines[i].speaker = normalizeSpeakerLabel(first[i]) /\ lines[i].name = NoLabel
    <3> HIDE DEF f, lines, first
    <3> QED BY <2>3, <2>4 DEF Line
  <2>6. Speakers(lines) = second
    <3> HIDE DEF lines, f
    <3> QED BY <2>5 DEF Speakers
  <2>7. Follows(second, r)
    <3> HIDE DEF first
    <3> QED BY <1>3, NormalizedFollows
  <2> HIDE DEF lines, second
  <2> QED BY <2>5, <2>6, <2>7 DEF Sanitizable, Unnamed, lines
<1>7. CASE r.source = "diarization"
  <2> DEFINE f == [i \in DOMAIN said |-> Line(normalizeDiarizationSpeaker(said[i]), NoLabel)]
  <2>1. lines = normalizeTranscriptSpeakers(f)
    BY <1>7 DEF TranscribedLines, applyDiarizationSegments
  <2>2. DOMAIN f = DOMAIN said /\ f = [i \in DOMAIN f |-> f[i]]
    OBVIOUS
  <2>3. \A i \in DOMAIN said :
          normalizeSpeakerLabel(f[i].speaker) = first[i] /\ f[i].name = NoLabel
    BY <1>7 DEF FirstLabel, Line
  <2>4. lines = [i \in DOMAIN said |-> Line(normalizeSpeakerLabel(f[i].speaker), f[i].name)]
    <3> HIDE DEF f, lines
    <3> QED BY <1>5, <2>1, <2>2
  <2>5. /\ DOMAIN lines = DOMAIN said
        /\ \A i \in DOMAIN said : lines[i].speaker = first[i] /\ lines[i].name = NoLabel
    <3> HIDE DEF f, lines, first
    <3> QED BY <2>3, <2>4 DEF Line
  <2>6. Speakers(lines) = first
    <3> HIDE DEF lines, f
    <3> QED BY <2>5 DEF Speakers
  <2> HIDE DEF lines, first
  <2> QED BY <1>3, <2>5, <2>6 DEF Sanitizable, Unnamed, lines
<1> QED BY <1>6, <1>7, RecordingsAssumption

----------------------------------------------------------------------------
(* Details whose transcripts follow the speakers.                          *)

(* What is edited of a detail leaves its transcript and its statistics.    *)
LEMMA EditedIsLined ==
  ASSUME NEW rec, NEW detail, Lined(detail, rec), DetailOK(detail)
  PROVE  /\ \A edited \in Edited(detail) : Lined(edited, rec)
         /\ Lined([detail EXCEPT !.note = "mine"], rec)
         /\ \A words : Lined([detail EXCEPT !.summary = words], rec)
         /\ Lined([detail EXCEPT !.analysis = "running", !.stage = "processing"], rec)
         /\ Lined([detail EXCEPT !.analysis = "failed", !.stage = "ready"], rec)
<1> DEFINE Kept(new) == new.lines = detail.lines /\ new.stats = detail.stats
<1>1. /\ Kept([detail EXCEPT !.note = "mine"])
      /\ \A words : Kept([detail EXCEPT !.summary = words])
      /\ Kept([detail EXCEPT !.analysis = "running", !.stage = "processing"])
      /\ Kept([detail EXCEPT !.analysis = "failed", !.stage = "ready"])
  BY NoDetailFields DEF DetailOK
<1>2. \A edited \in Edited(detail) : Kept(edited)
  <2> TAKE edited \in Edited(detail)
  <2>1. PICK summary \in {detail.summary, "edited", Worded, "none"},
             items \in {detail.items, "edited", Worded} :
               edited = [detail EXCEPT !.summary = summary, !.items = items]
    BY DEF Edited
  <2> QED BY <2>1, NoDetailFields DEF DetailOK
<1>3. \A new : Kept(new) => Lined(new, rec)
  BY DEF Lined, Measured
<1> HIDE DEF Kept
<1> QED BY <1>1, <1>2, <1>3

(* What is made of a transcript that can be sanitized follows the speakers.*)
LEMMA AnalysedIsLined ==
  ASSUME recording \in Recordings, NEW detail, NEW outcome,
         NEW lines, HasLines(lines), Sanitizable(lines, recording)
  PROVE  /\ Lined(DetailFromAnalysis(detail, lines, outcome), recording)
         /\ Lined(ReadyDetail(detail, lines, outcome), recording)
<1> DEFINE analysed == AnalysisLines(lines, outcome)
           sane == Sanitize(analysed, recording.names)
           transcript == ReportLines(analysed)
           new == DetailFromAnalysis(detail, lines, outcome)
           ready == [new EXCEPT !.stage = "ready", !.trans = "completed"]
<1>1. HasLines(sane) /\ Followed(sane, recording) /\ Followed(transcript, recording)
  BY ReportFollows
<1>2. transcript = segmentsFromTranscriptLines(sane)
  BY DEF ReportLines
<1>3. /\ DOMAIN new = DOMAIN NoDetail /\ new.lines = transcript
      /\ new.stats = Statistics(LabelsOf(sane), recording.moods)
  BY NoDetailFields DEF DetailFromAnalysis, StatisticsOf
<1> HIDE DEF analysed, sane, transcript, new
<1>4. ready.lines = new.lines /\ ready.stats = new.stats
  BY <1>3, NoDetailFields
<1> HIDE DEF ready
<1>5. Lined(new, recording)
  BY <1>1, <1>2, <1>3 DEF Lined, Measured
<1>6. Lined(ready, recording)
  BY <1>1, <1>2, <1>3, <1>4 DEF Lined, Measured
<1> QED BY <1>5, <1>6 DEF ReadyDetail, new, ready

(* So does what a read makes of a sound report that does.                  *)
LEMMA RepairedIsLined ==
  ASSUME NEW detail, Sound(detail, recording), Lined(detail, recording)
  PROVE  Lined(Repaired(detail), recording)
<1>1. CASE NeedsRepair(detail)
  <2> DEFINE sane == Sanitize(detail.lines, recording.names)
  <2>1. /\ HasLines(detail.lines) /\ recording \in Recordings
        /\ Followed(detail.lines, recording)
    BY <1>1 DEF NeedsRepair, Sound, OfOnePiece, Lined
  <2>2. HasLines(sane) /\ Sanitizable(sane, recording)
    BY <2>1, FollowedIsSanitizable, SanitizedHasLines, SanitizeFollows
  <2>3. Lined(DetailFromAnalysis(detail, sane, "failed"), recording)
    <3> HIDE DEF sane
    <3> QED BY <2>1, <2>2, AnalysedIsLined
  <2> QED BY <1>1, <2>3 DEF Repaired, Repair
<1>2. CASE ~NeedsRepair(detail)
  BY <1>2 DEF Repaired
<1> QED BY <1>1, <1>2

(* What is loaded of it does.                                              *)
LEMMA LoadedIsLined ==
  ASSUME NEW detail, Sound(detail, recording), Lined(detail, recording)
  PROVE  Lined(Loaded(detail), recording)
<1> DEFINE saved == NewDetail("saved", "not_started", "not_started", FALSE)
           new == [saved EXCEPT !.note = detail.note,
                                !.stats = [detail.stats EXCEPT !.speakers = <<>>]]
<1>1. CASE Stale(detail)
  <2>1. DOMAIN saved = DOMAIN NoDetail /\ saved.lines = <<>>
    BY NoDetailFields DEF NewDetail
  <2> HIDE DEF saved
  <2>2. new.lines = <<>>
    BY <2>1, NoDetailFields
  <2>3. Loaded(detail) = new
    BY <1>1, <2>2 DEF Loaded, Repaired, NeedsRepair, saved
  <2> HIDE DEF new
  <2> QED BY <2>2, <2>3 DEF Lined
<1>2. CASE ~Stale(detail)
  BY <1>2, RepairedIsLined DEF Loaded
<1> QED BY <1>1, <1>2

(* A new detail has no transcript, nor has that of a recording nothing     *)
(* could be made of.                                                       *)
LEMMA UnfinishedIsLined ==
  ASSUME NEW detail, DetailOK(detail), Unfinished(detail)
  PROVE  /\ \A rec : Lined(detail, rec)
         /\ Lined(FailedDetail(detail), recording)
<1>1. FailedDetail(detail).lines = <<>>
  BY NoDetailFields DEF DetailOK, FailedDetail
<1> QED BY <1>1 DEF Lined, Unfinished

----------------------------------------------------------------------------
(* Every step keeps the labels with the speakers.                          *)

LEMMA GoKeepsLabels ==
  ASSUME IInv, LabelsInv, NEW p \in Procs, NEW where, NEW what, NEW detail,
         Go(p, where, what, detail), recording' = recording,
         Lined(report', recording), where # "idle" => Lined(detail, recording)
  PROVE  LabelsInv'
<1>1. \A q \in Procs : Lined(copy'[q], recording)
  <2> TAKE q \in Procs
  <2>1. Lined(NoDetail, recording)
    BY NoDetailFields DEF Lined, Unfinished
  <2>2. copy'[q] = IF q = p THEN IF where = "idle" THEN NoDetail ELSE detail ELSE copy[q]
    BY DEF Go, IInv, Types
  <2> QED BY <2>1, <2>2 DEF LabelsInv
<1> QED BY <1>1 DEF LabelsInv

LEMMA ReadKeepsLabels ==
  ASSUME IInv, LabelsInv, NEW p \in Procs, NEW repair, NEW next, NEW what,
         Read(p, repair, next, what), report' = report, recording' = recording
  PROVE  LabelsInv'
<1>1. CASE Exists
  <2>1. Sound(report, recording) /\ Lined(report, recording)
    BY <1>1 DEF IInv, DetailsSound, Stored, Exists, LabelsInv
  <2>2. Lined(Repaired(report), recording)
    BY <2>1, RepairedIsLined
  <2>3. Go(p, IF NeedsRepair(report) THEN repair ELSE next, what, Repaired(report))
    BY <1>1 DEF Read
  <2> QED BY <2>1, <2>2, <2>3, GoKeepsLabels
<1>2. CASE ~Exists
  BY <1>2, GoKeepsLabels DEF Read, Return, LabelsInv
<1> QED BY <1>1, <1>2

LEMMA StoreKeepsLabels ==
  ASSUME IInv, LabelsInv, NEW p \in Procs, NEW detail, Store(p, detail), Return(p),
         recording' = recording, Lined(detail, recording)
  PROVE  LabelsInv'
BY GoKeepsLabels DEF Store, Put, Return

LEMMA StepLabels == IInv /\ LabelsInv /\ [Next]_vars => LabelsInv'
<1> SUFFICES ASSUME IInv, LabelsInv, [Next]_vars PROVE LabelsInv'
  OBVIOUS
<1> USE WorkerIsNoCaller
<1>0. \A p \in Procs : Lined(copy[p], recording) /\ DetailOK(copy[p])
  BY InvariantImpliesTypes DEF LabelsInv, TypeOK
<1>1. CASE UploadRow
  <2> DEFINE detail == NewDetail("saved", "not_started", "not_started", FALSE)
  <2>1. detail.lines = <<>>
    BY DEF NewDetail
  <2>2. report' = detail /\ recording' = recording /\ copy' = copy
    BY <1>1, NotARecording DEF UploadRow, Store, Put, procs
  <2> HIDE DEF detail
  <2> QED BY <2>1, <2>2 DEF LabelsInv, Lined
<1>2. ASSUME NEW r \in Recordings, Upload(r) PROVE LabelsInv'
  <2> DEFINE detail == NewDetail("processing", "pending", "pending", r.file)
  <2>1. detail.lines = <<>> /\ NoDetail.lines = <<>>
    BY NoDetailFields DEF NewDetail, Unfinished
  <2>2. report' = detail /\ Go(Worker, "transcribe", "none", NoDetail)
    BY <1>2 DEF Upload, Store, Put
  <2> HIDE DEF detail
  <2>3. \A p \in Procs : copy[p] = NoDetail
    BY <1>2 DEF Upload, IInv, Nothing
  <2>4. \A p \in Procs : copy'[p].lines = <<>>
    BY <2>1, <2>2, <2>3 DEF Go, IInv, Types
  <2> QED BY <2>1, <2>2, <2>4 DEF LabelsInv, Lined
<1>3. CASE Transcribe
  <2>1. PICK what : Go(Worker, "read", what, NoDetail)
    BY <1>3 DEF Transcribe
  <2>2. Lined(NoDetail, recording)
    BY NoDetailFields DEF Lined, Unfinished
  <2> QED BY <1>3, <2>1, <2>2, GoKeepsLabels DEF Transcribe, LabelsInv
<1>4. CASE WorkerReads
  BY <1>4, ReadKeepsLabels DEF WorkerReads
<1>5. ASSUME NEW p \in Procs, NEW repair, NEW next, StoreRepair(p, repair, next)
      PROVE  LabelsInv'
  BY <1>0, <1>5, GoKeepsLabels DEF StoreRepair, Put
<1>6. CASE WorkerStores
  <2> DEFINE lines == TranscribedLines(recording.said, recording.source)
             detail == IF doing[Worker] = "silent" THEN FailedDetail(copy[Worker])
                       ELSE ReadyDetail(copy[Worker], lines, doing[Worker])
  <2>1. Store(Worker, detail) /\ Return(Worker) /\ recording' = recording /\ pc[Worker] = "act"
    BY <1>6 DEF WorkerStores
  <2>2. recording \in Recordings /\ Unfinished(copy[Worker])
    BY <2>1 DEF IInv, Transcribing
  <2>3. HasLines(lines) /\ Sanitizable(lines, recording)
    BY <2>2, TranscribedHasLines, TranscribedFollows
  <2> HIDE DEF lines
  <2>4. Lined(detail, recording)
    BY <1>0, <2>2, <2>3, UnfinishedIsLined, AnalysedIsLined
  <2> HIDE DEF detail
  <2> QED BY <2>1, <2>4, StoreKeepsLabels
<1>7. ASSUME NEW c \in Callers, Edit(c) PROVE LabelsInv'
  <2>1. PICK detail \in Edited(copy[c]) : Store(c, detail)
    BY <1>7 DEF Edit
  <2>2. Lined(detail, recording)
    BY <1>0, EditedIsLined
  <2> QED BY <1>7, <2>1, <2>2, StoreKeepsLabels DEF Edit
<1>8. ASSUME NEW c \in Callers, ReadAgain(c) PROVE LabelsInv'
  BY <1>8, ReadKeepsLabels DEF ReadAgain
<1>9. ASSUME NEW c \in Callers, PersonalizeFails(c) PROVE LabelsInv'
  BY <1>9, GoKeepsLabels DEF PersonalizeFails, Return, LabelsInv
<1>10. ASSUME NEW c \in Callers, Personal(c) PROVE LabelsInv'
  <2>1. /\ Lined([copy[c] EXCEPT !.note = "mine"], recording)
        /\ \A words : Lined([copy[c] EXCEPT !.summary = words], recording)
    BY <1>0, EditedIsLined
  <2>2. PICK detail : Store(c, detail) /\ Lined(detail, recording)
    BY <1>10, <2>1 DEF Personal
  <2> QED BY <1>10, <2>2, StoreKeepsLabels DEF Personal
<1>11. ASSUME NEW c \in Callers, RetryBegins(c) PROVE LabelsInv'
  <2>1. CASE copy[c].lines = <<>>
    BY <1>11, <2>1, GoKeepsLabels DEF RetryBegins, Return, LabelsInv
  <2>2. CASE copy[c].lines # <<>>
    <3> DEFINE detail == [copy[c] EXCEPT !.analysis = "running", !.stage = "processing"]
    <3>1. Lined(detail, recording)
      BY <1>0, EditedIsLined
    <3>2. report' = detail /\ Go(c, "analyse", "retry", detail) /\ recording' = recording
      BY <1>11, <2>2 DEF RetryBegins, Store, Put
    <3> HIDE DEF detail
    <3> QED BY <3>1, <3>2, GoKeepsLabels
  <2> QED BY <2>1, <2>2
<1>12. ASSUME NEW c \in Callers, RetryEnds(c) PROVE LabelsInv'
  <2>1. Sound(copy[c], recording) /\ copy[c].lines # <<>>
    BY <1>12 DEF RetryEnds, IInv, DetailsSound, Stored, CopiesHeld, Places
  <2>2. /\ recording \in Recordings /\ HasLines(copy[c].lines)
        /\ Sanitizable(copy[c].lines, recording)
    BY <1>0, <2>1, FollowedIsSanitizable DEF Sound, OfOnePiece, Lined
  <2>3. Lined([copy[c] EXCEPT !.analysis = "failed", !.stage = "ready"], recording)
    BY <1>0, EditedIsLined
  <2>4. \A outcome : Lined(ReadyDetail(copy[c], copy[c].lines, outcome), recording)
    BY <2>2, AnalysedIsLined
  <2>5. PICK detail : Store(c, detail) /\ Lined(detail, recording)
    BY <1>12, <2>3, <2>4 DEF RetryEnds
  <2> QED BY <1>12, <2>5, StoreKeepsLabels DEF RetryEnds
<1>13. ASSUME NEW c \in Callers, Delete(c) PROVE LabelsInv'
  BY <1>13, NoDetailFields, StoreKeepsLabels DEF Delete, Lined, Unfinished
<1>14. ASSUME NEW c \in Callers, NEW kind \in Kinds, Request(c, kind) PROVE LabelsInv'
  BY <1>14, ReadKeepsLabels DEF Request
<1>15. CASE Restart
  <2>1. /\ report' = Loaded(report) /\ recording' = recording
        /\ copy' = [p \in Procs |-> NoDetail]
    BY <1>15 DEF Restart
  <2>2. Loaded(NoDetail) = NoDetail /\ Lined(NoDetail, recording)
    BY NoDetailFields DEF Loaded, Stale, Repaired, NeedsRepair, Unfinished, Lined
  <2>3. Lined(Loaded(report), recording)
    BY <2>2, LoadedIsLined DEF LabelsInv, IInv, DetailsSound, Stored
  <2> QED BY <2>1, <2>2, <2>3 DEF LabelsInv
<1>16. CASE UNCHANGED vars
  BY <1>16 DEF vars, procs, LabelsInv
<1> QED
  BY <1>1, <1>2, <1>3, <1>4, <1>5, <1>6, <1>7, <1>8, <1>9, <1>10, <1>11, <1>12, <1>13,
     <1>14, <1>15, <1>16
  DEF Next, WorkerStep, CallerStep

----------------------------------------------------------------------------
(* Theorems.                                                               *)

LEMMA LabelsInvariant == Spec => []LabelsInv
<1>1. Init => LabelsInv
  BY NoDetailFields DEF Init, LabelsInv, Lined, Unfinished
<1>2. IInv /\ LabelsInv /\ [Next]_vars => LabelsInv'
  BY StepLabels
<1> QED BY <1>1, <1>2, Invariant, PTL DEF Spec

(* What the invariant says of a transcript that is stored.                 *)
LEMMA FollowedLabels ==
  ASSUME NEW lines, NEW rec, Followed(lines, rec)
  PROVE  \A i, j \in DOMAIN lines :
           /\ rec.said[i] = rec.said[j] => lines[i].name = lines[j].name
           /\ ToldApart(rec, i, j) => lines[i].name # lines[j].name
<1> DEFINE names == Names(lines)
<1>1. DOMAIN names = DOMAIN lines /\ \A i \in DOMAIN lines : names[i] = lines[i].name
  BY DEF Names
<1> HIDE DEF names
<1>2. Follows(names, rec)
  BY DEF Followed, names
<1> QED BY <1>1, <1>2 DEF Follows

(* Through every sanitizing, reading, repair, retry and restart the labels *)
(* of a report split no speaker, and merge no two speakers who could be    *)
(* told apart when the transcript was first made, whoever else speaks in   *)
(* the recording.                                                          *)
THEOREM LabelsFollow == Spec => []LabelsFollowSpeakers
<1>1. LabelsInv => LabelsFollowSpeakers
  <2> SUFFICES ASSUME LabelsInv, NEW i \in DOMAIN report.lines, NEW j \in DOMAIN report.lines
               PROVE  LET alike == report.lines[i].name = report.lines[j].name IN
                      /\ recording.said[i] = recording.said[j] => alike
                      /\ ToldApart(recording, i, j) => ~alike
    BY DEF LabelsFollowSpeakers
  <2>1. Followed(report.lines, recording)
    BY DEF LabelsInv, Lined
  <2> QED BY <2>1, FollowedLabels
<1> QED BY <1>1, LabelsInvariant, PTL

(* Recordings of no more voices than ten, numbered as the diarization      *)
(* service does, "SPEAKER_00" to "SPEAKER_09".                             *)
TenVoices(rec) ==
  \A i \in DOMAIN rec.said : rec.said[i] = Bare \/ \E n \in 0..9 : rec.said[i] = Voice(n, TRUE)

(* The voices the diarization service splits are never merged, as long as  *)
(* there are no more than ten (with eleven VoicesStayApart is violated).   *)
THEOREM TenVoicesStayApart == Spec => [](TenVoices(recording) => VoicesStayApart)
<1>1. \A n \in 0..9 :
        FirstLabel(Voice(n, TRUE), "diarization") = Speaker(IF n = 9 THEN 11 ELSE n + 1)
  <2> TAKE n \in 0..9
  <2>1. normalizeDiarizationSpeaker(Voice(n, TRUE)) = Speaker(n + 1)
    BY DEF normalizeDiarizationSpeaker, Voice
  <2>2. n + 1 \in Nat \ {0}
    OBVIOUS
  <2>3. normalizeSpeakerLabel(Speaker(n + 1)) = Speaker(IF n = 9 THEN 11 ELSE n + 1)
    <3>1. CASE n = 9
      BY <3>1, NormalizedNumber
    <3>2. CASE n # 9
      BY <2>2, <3>2, NormalizedNumber
    <3> QED BY <3>1, <3>2
  <2> QED BY <2>1, <2>3 DEF FirstLabel
<1>2. FirstLabel(Bare, "diarization") = Bare
  BY DEF FirstLabel, normalizeDiarizationSpeaker, normalizeSpeakerLabel, Bare
<1>3. \A n, m \in Nat : /\ Speaker(n) = Speaker(m) => n = m
                        /\ Speaker(n) # Bare
  BY DEF Speaker, Voice, Bare
<1>4. \A n, m \in 0..9 :
        LET first(k) == FirstLabel(Voice(k, TRUE), "diarization") IN
        first(n) # Bare /\ (n # m => first(n) # first(m))
  <2> TAKE n, m \in 0..9
  <2> DEFINE a == IF n = 9 THEN 11 ELSE n + 1
             b == IF m = 9 THEN 11 ELSE m + 1
  <2>1. a \in Nat /\ b \in Nat /\ (n # m => a # b)
    OBVIOUS
  <2>2. FirstLabel(Voice(n, TRUE), "diarization") = Speaker(a)
        /\ FirstLabel(Voice(m, TRUE), "diarization") = Speaker(b)
    BY <1>1
  <2> HIDE DEF a, b
  <2> QED BY <1>3, <2>1, <2>2
<1>5. \A names : /\ Matching(Bare, names) = {}
                 /\ \A n \in 0..9 : Matching(Voice(n, TRUE), names) = {}
  BY DEF Matching, Bare, Voice
<1>6. ASSUME NEW rec, TenVoices(rec), rec.source = "diarization",
             NEW i \in DOMAIN rec.said, NEW j \in DOMAIN rec.said, rec.said[i] # rec.said[j]
      PROVE  ToldApart(rec, i, j)
  <2> SUFFICES /\ FirstLabel(rec.said[i], rec.source) # FirstLabel(rec.said[j], rec.source)
               /\ Matching(rec.said[i], rec.names) \cap Matching(rec.said[j], rec.names) = {}
    BY DEF ToldApart
  <2>1. \A k \in DOMAIN rec.said :
          rec.said[k] = Bare \/ \E n \in 0..9 : rec.said[k] = Voice(n, TRUE)
    BY <1>6 DEF TenVoices
  <2>2. CASE rec.said[i] = Bare
    <3>1. PICK n \in 0..9 : rec.said[j] = Voice(n, TRUE)
      BY <1>6, <2>1, <2>2
    <3> QED BY <1>2, <1>4, <1>5, <1>6, <2>2, <3>1
  <2>3. CASE rec.said[j] = Bare
    <3>1. PICK n \in 0..9 : rec.said[i] = Voice(n, TRUE)
      BY <1>6, <2>1, <2>3
    <3> QED BY <1>2, <1>4, <1>5, <1>6, <2>3, <3>1
  <2>4. CASE rec.said[i] # Bare /\ rec.said[j] # Bare
    <3>1. PICK n \in 0..9 : rec.said[i] = Voice(n, TRUE)
      BY <2>1, <2>4
    <3>2. PICK m \in 0..9 : rec.said[j] = Voice(m, TRUE)
      BY <2>1, <2>4
    <3>3. n # m
      BY <1>6, <3>1, <3>2
    <3> QED BY <1>4, <1>5, <1>6, <3>1, <3>2, <3>3
  <2> QED BY <2>2, <2>3, <2>4
<1>7. LabelsInv => (TenVoices(recording) => VoicesStayApart)
  <2> SUFFICES ASSUME LabelsInv, TenVoices(recording), recording.source = "diarization",
                      NEW i \in DOMAIN report.lines, NEW j \in DOMAIN report.lines,
                      report.lines[i].name = report.lines[j].name
               PROVE  recording.said[i] = recording.said[j]
    BY DEF VoicesStayApart
  <2>1. Followed(report.lines, recording)
    BY DEF LabelsInv, Lined
  <2>2. DOMAIN report.lines = DOMAIN recording.said
    BY <2>1 DEF Followed, Follows, Names
  <2>3. ~ToldApart(recording, i, j)
    BY <2>1, FollowedLabels
  <2> QED BY <1>6, <2>2, <2>3
<1> QED BY <1>7, LabelsInvariant, PTL

----------------------------------------------------------------------------
(* The statistics.                                                         *)

(* Statistics do not depend on what the speakers are called.               *)
LEMMA StatisticsRenamed ==
  ASSUME NEW S, NEW T, NEW a \in Seq(S), NEW b \in Seq(T), NEW moods,
         DOMAIN a = DOMAIN b, \A i, j \in DOMAIN a : a[i] = a[j] <=> b[i] = b[j]
  PROVE  LET x == Statistics(a, moods)
             y == Statistics(b, moods)
         IN /\ x.scores = y.scores /\ x.trend = y.trend
            /\ DOMAIN x.speakers = {a[i] : i \in DOMAIN a}
            /\ DOMAIN y.speakers = {b[i] : i \in DOMAIN b}
            /\ \A i \in DOMAIN a : x.speakers[a[i]] = y.speakers[b[i]]
<1> DEFINE A == {a[i] : i \in DOMAIN a}
           B == {b[i] : i \in DOMAIN b}
           x == Statistics(a, moods)
           y == Statistics(b, moods)
<1>1. Len(a) \in Nat /\ Len(a) = Len(b) /\ DOMAIN a = 1..Len(a)
  OBVIOUS
<1>2. IsFiniteSet(A)
  <2>1. a \in [1..Len(a) -> A] /\ \A s \in A : \E i \in 1..Len(a) : a[i] = s
    BY <1>1
  <2>2. a \in Surjection(1..Len(a), A)
    <3> HIDE DEF A
    <3> QED BY <2>1 DEF Surjection
  <2>3. IsFiniteSet(1..Len(a))
    BY <1>1, FS_Interval
  <2> HIDE DEF A
  <2> QED BY <2>2, <2>3, FS_Surjection
<1>3. Cardinality(A) = Cardinality(B)
  <2> DEFINE g == [s \in A |-> b[CHOOSE i \in DOMAIN a : a[i] = s]]
  <2>1. \A i \in DOMAIN a : g[a[i]] = b[i]
    <3> TAKE i \in DOMAIN a
    <3> DEFINE k == CHOOSE k \in DOMAIN a : a[k] = a[i]
    <3>1. k \in DOMAIN a /\ a[k] = a[i]
      OBVIOUS
    <3>2. g[a[i]] = b[k]
      OBVIOUS
    <3> HIDE DEF k, g
    <3> QED BY <3>1, <3>2
  <2>2. DOMAIN g = A /\ g = [s \in DOMAIN g |-> g[s]]
    OBVIOUS
  <2> HIDE DEF g
  <2>3. \A s, t \in A : g[s] = g[t] => s = t
    BY <2>1
  <2>4. /\ \A s \in A : g[s] \in B
        /\ \A t \in B : \E s \in A : g[s] = t
    BY <2>1
  <2> HIDE DEF A, B
  <2>5. g \in [A -> B]
    BY <2>2, <2>4
  <2>6. g \in Surjection(A, B) /\ g \in Injection(A, B)
    BY <2>2, <2>3, <2>4, <2>5 DEF Surjection, Injection, IsInjective
  <2> QED BY <1>2, <2>6, FS_Surjection
<1>4. ASSUME NEW i \in DOMAIN a
      PROVE  computeParticipantPositions(a, moods, a[i]) =
               computeParticipantPositions(b, moods, b[i])
  <2>1. Spoken(a, a[i]) = Spoken(b, b[i])
    BY DEF Spoken
  <2>2. \A k \in DOMAIN a : k > 1 => k - 1 \in DOMAIN a
    BY <1>1
  <2>3. Reactions(a, a[i]) = Reactions(b, b[i])
    BY <2>2 DEF Reactions
  <2>4. Answers(a, a[i]) = Answers(b, b[i])
    BY <2>2 DEF Answers, Spoken
  <2> QED BY <1>1, <2>1, <2>3, <2>4 DEF computeParticipantPositions
<1>5. x.scores = y.scores /\ x.trend = y.trend
  BY <1>3 DEF Statistics
<1>6. /\ x.speakers = [s \in A |-> computeParticipantPositions(a, moods, s)]
      /\ y.speakers = [s \in B |-> computeParticipantPositions(b, moods, s)]
  BY DEF Statistics
<1>7. \A i \in DOMAIN a : a[i] \in A /\ b[i] \in B
  OBVIOUS
<1> HIDE DEF A, B, x, y
<1>8. \A i \in DOMAIN a : x.speakers[a[i]] = y.speakers[b[i]]
  BY <1>4, <1>6, <1>7
<1> QED BY <1>5, <1>6, <1>8 DEF A, B, x, y

(* The labels of a transcript are the names of its lines.                  *)
LEMMA LabelsAreNames ==
  ASSUME NEW lines, HasLines(lines)
  PROVE  LabelsOf(lines) = Names(lines) /\ \E S : Names(lines) \in Seq(S)
<1> DEFINE f == Names(lines)
<1>1. DOMAIN f = DOMAIN lines /\ f = [i \in DOMAIN f |-> f[i]]
  BY DEF Names
<1>2. LabelsOf(lines) = Tuple(f)
  BY DEF LabelsOf, Names
<1> HIDE DEF f
<1> QED BY <1>1, <1>2, TupleOfLines DEF f

(* The scores and the trend of a report are those of its transcript, and   *)
(* so are the shares of its speakers under the labels they had before the  *)
(* last normalisation, which takes them one for one to the transcript's.   *)
THEOREM StatisticsMatch == Spec => []StatsAreOfTranscript
<1>1. IInv /\ LabelsInv => StatsAreOfTranscript
  <2> SUFFICES ASSUME IInv, LabelsInv, report.lines # <<>> PROVE StatsAreOfTranscript
    BY DEF StatsAreOfTranscript
  <2>1. HasLines(report.lines)
    BY NoDetailFields DEF IInv, DetailsSound, Stored, Sound, OfOnePiece, Unfinished
  <2>2. PICK sane : /\ HasLines(sane) /\ Followed(sane, recording)
                    /\ report.lines = segmentsFromTranscriptLines(sane)
                    /\ report.stats = Statistics(LabelsOf(sane), recording.moods)
    BY DEF LabelsInv, Lined, Measured
  <2> DEFINE a == Names(sane)
             b == Names(report.lines)
             own == Statistics(b, recording.moods)
             speakers == report.stats.speakers
  <2>3. LabelsOf(sane) = a /\ \E S : a \in Seq(S)
    BY <2>2, LabelsAreNames
  <2>4. LabelsOf(report.lines) = b /\ \E S : b \in Seq(S)
    BY <2>1, LabelsAreNames
  <2>5. DOMAIN a = DOMAIN sane /\ \A i \in DOMAIN sane : a[i] = sane[i].name
    BY DEF Names
  <2>6. b = [i \in DOMAIN sane |-> normalizeSpeakerLabel(sane[i].name)]
    BY <2>2, SegmentsFollow
  <2>7. \A i \in DOMAIN a : Proper(a[i])
    BY <2>2 DEF Followed, Follows
  <2>8. report.stats = Statistics(a, recording.moods)
    BY <2>2, <2>3
  <2>9. StatisticsOf(report.lines) = own
    BY <2>4 DEF StatisticsOf
  <2> HIDE DEF a, b
  <2>10. DOMAIN b = DOMAIN a /\ \A i \in DOMAIN a : b[i] = normalizeSpeakerLabel(a[i])
    BY <2>5, <2>6
  <2>11. \A i, j \in DOMAIN a : a[i] = a[j] <=> b[i] = b[j]
    BY <2>7, <2>10, NormalizedApart
  <2>12. /\ report.stats.scores = own.scores /\ report.stats.trend = own.trend
         /\ DOMAIN speakers = {a[i] : i \in DOMAIN a}
         /\ DOMAIN own.speakers = {b[i] : i \in DOMAIN a}
         /\ \A i \in DOMAIN a : speakers[a[i]] = own.speakers[b[i]]
    BY <2>3, <2>4, <2>8, <2>10, <2>11, StatisticsRenamed
  <2> HIDE DEF own, speakers
  <2>13. \A s \in DOMAIN speakers :
           /\ normalizeSpeakerLabel(s) \in DOMAIN own.speakers
           /\ speakers[s] = own.speakers[normalizeSpeakerLabel(s)]
    BY <2>10, <2>12
  <2>14. ASSUME NEW label \in DOMAIN own.speakers
         PROVE  \E s \in DOMAIN speakers :
                  {t \in DOMAIN speakers : normalizeSpeakerLabel(t) = label} = {s}
    <3>1. PICK i \in DOMAIN a : label = b[i]
      BY <2>12
    <3>2. a[i] \in DOMAIN speakers /\ normalizeSpeakerLabel(a[i]) = label
      BY <2>10, <2>12, <3>1
    <3>3. \A t \in DOMAIN speakers : normalizeSpeakerLabel(t) = label => t = a[i]
      BY <2>10, <2>11, <2>12, <3>1
    <3> QED BY <3>2, <3>3
  <2> QED BY <2>9, <2>12, <2>13, <2>14 DEF StatsAreOfTranscript, speakers
<1> QED BY <1>1, Invariant, LabelsInvariant, PTL

----------------------------------------------------------------------------
(* The trend of a meeting of n lines, for every n.                         *)

LEMMA Quotient ==
  ASSUME NEW a \in Nat, NEW b \in Nat \ {0}
  PROVE  a \div b \in Nat /\ b * (a \div b) <= a /\ a < b * (a \div b) + b
OBVIOUS

LEMMA Monotone ==
  ASSUME NEW a \in Int, NEW b \in Int, NEW s \in Nat, a <= b
  PROVE  s * a <= s * b
OBVIOUS

LEMMA BucketCountOf ==
  ASSUME NEW n \in Nat \ {0}
  PROVE  BucketCount(n) \in 1..Lesser(12, n)
<1>1. n \div 3 \in Nat
  BY Quotient
<1> QED BY <1>1 DEF BucketCount, Lesser, Larger

(* Buckets of equal size, but for the last one, make up the meeting, and   *)
(* rounding up their size makes none of them superfluous.                  *)
LEMMA BucketSizeOf ==
  ASSUME NEW n \in Nat \ {0}
  PROVE  /\ BucketSize(n) \in Nat \ {0}
         /\ Points(n) \in 1..BucketCount(n)
         /\ BucketSize(n) * (Points(n) - 1) < n /\ n <= BucketSize(n) * Points(n)
<1> DEFINE c == BucketCount(n)
           s == BucketSize(n)
           p == Points(n)
<1>1. c \in Nat \ {0}
  BY BucketCountOf DEF Lesser
<1> HIDE DEF c
<1>2. s \in Nat /\ n + c - 1 < c * s + c
  BY <1>1, Quotient DEF BucketSize, c
<1>3. n <= c * s
  BY <1>1, <1>2
<1>4. s # 0
  BY <1>1, <1>3
<1> HIDE DEF s
<1>5. p \in Nat /\ s * p <= n + s - 1 /\ n + s - 1 < s * p + s
  <2>1. n + s - 1 \in Nat
    BY <1>2, <1>4
  <2>2. p = (n + s - 1) \div s
    BY DEF Points, s
  <2> HIDE DEF p
  <2> QED BY <1>2, <1>4, <2>1, <2>2, Quotient
<1> HIDE DEF p
<1>6. n <= s * p /\ s * (p - 1) < n
  <2>1. s * (p - 1) = s * p - s
    BY <1>2, <1>5
  <2> QED BY <1>2, <1>5, <2>1
<1>7. p # 0
  BY <1>2, <1>6
<1>8. p <= c
  <2>1. SUFFICES ASSUME c <= p - 1 PROVE FALSE
    BY <1>1, <1>5
  <2>2. s * c <= s * (p - 1)
    BY <1>1, <1>2, <1>5, <2>1, Monotone
  <2>3. s * c = c * s
    BY <1>1, <1>2
  <2> QED BY <1>1, <1>2, <1>3, <1>5, <1>6, <2>2, <2>3
<1> QED BY <1>1, <1>2, <1>4, <1>5, <1>6, <1>7, <1>8 DEF c, s, p

(* Every line is in one bucket, and every bucket has a line.               *)
LEMMA BucketsPartition ==
  ASSUME NEW n \in Nat \ {0}
  PROVE  /\ \A i \in 1..n : \E k \in 1..Points(n) :
              \A j \in 1..Points(n) : i \in Bucket(n, j) <=> j = k
         /\ \A k \in 1..Points(n) : Bucket(n, k) # {}
<1> DEFINE s == BucketSize(n)
           p == Points(n)
<1>1. /\ s \in Nat \ {0} /\ p \in Nat \ {0}
      /\ s * (p - 1) < n /\ n <= s * p
  BY BucketSizeOf, BucketCountOf DEF Lesser
<1>2. \A i \in 1..n, k \in 1..p : i \in Bucket(n, k) <=> s * (k - 1) < i /\ i <= s * k
  <2> HIDE DEF s
  <2> SUFFICES ASSUME NEW i \in 1..n, NEW k \in 1..p
               PROVE  i \in Bucket(n, k) <=> s * (k - 1) < i /\ i <= s * k
    OBVIOUS
  <2>1. s * (k - 1) \in Int /\ s * k \in Int
    BY <1>1
  <2>2. (k - 1) * s = s * (k - 1) /\ k * s = s * k
    BY <1>1
  <2>3. Bucket(n, k) = (s * (k - 1) + 1)..Lesser(s * k, n)
    BY <2>2 DEF Bucket, s
  <2> QED BY <2>1, <2>3 DEF Lesser
<1> HIDE DEF s, p
<1>3. ASSUME NEW i \in 1..n
      PROVE  \E k \in 1..p : \A j \in 1..p : i \in Bucket(n, j) <=> j = k
  <2> DEFINE q == (i - 1) \div s
  <2>1. q \in Nat /\ s * q <= i - 1 /\ i - 1 < s * q + s
    BY <1>1, Quotient
  <2> HIDE DEF q
  <2>2. s * (q + 1) = s * q + s
    BY <1>1, <2>1
  <2>3. q + 1 \in 1..p
    <3>1. SUFFICES ASSUME p <= q PROVE FALSE
      BY <1>1, <2>1
    <3>2. s * p <= s * q
      BY <1>1, <2>1, <3>1, Monotone
    <3> QED BY <1>1, <2>1, <3>2
  <2>4. ASSUME NEW j \in 1..p, i \in Bucket(n, j)
        PROVE  j = q + 1
    <3>1. s * (j - 1) < i /\ i <= s * j
      BY <1>2, <2>4
    <3>2. CASE j <= q
      <4>1. s * j <= s * q
        BY <1>1, <2>1, <3>2, Monotone
      <4> QED BY <1>1, <2>1, <3>1, <4>1
    <3>3. CASE q + 1 <= j - 1
      <4>1. s * (q + 1) <= s * (j - 1)
        BY <1>1, <2>1, <3>3, Monotone
      <4> QED BY <1>1, <2>1, <2>2, <3>1, <4>1
    <3> QED BY <2>1, <3>2, <3>3
  <2>5. i \in Bucket(n, q + 1)
    <3>1. (q + 1) - 1 = q
      BY <2>1
    <3>2. s * ((q + 1) - 1) < i /\ i <= s * (q + 1)
      BY <1>1, <2>1, <2>2, <3>1
    <3> QED BY <1>2, <2>3, <3>2
  <2> QED BY <2>3, <2>4, <2>5
<1>4. ASSUME NEW k \in 1..p
      PROVE  Bucket(n, k) # {}
  <2>1. s * (k - 1) <= s * (p - 1)
    BY <1>1, Monotone
  <2>2. s * k = s * (k - 1) + s /\ s * (k - 1) \in Nat
    BY <1>1
  <2>3. s * (k - 1) + 1 \in 1..n
    BY <1>1, <2>1, <2>2
  <2>4. s * (k - 1) + 1 \in Bucket(n, k)
    BY <1>1, <1>2, <2>2, <2>3
  <2> QED BY <2>4
<1> QED BY <1>3, <1>4 DEF p

(* The trend of a report is that of all the lines of its transcript, for   *)
(* transcripts of every length.                                            *)
THEOREM TrendsAreWhole == Spec => []TrendIsWhole
<1>1. IInv /\ LabelsInv => TrendIsWhole
  <2> SUFFICES ASSUME IInv, LabelsInv, report.lines # <<>> PROVE TrendIsWhole
    BY DEF TrendIsWhole
  <2> DEFINE lines == report.lines
             n == Len(lines)
             points == DOMAIN report.stats.trend
  <2>1. /\ recording \in Recordings /\ HasLines(lines)
        /\ \E sane : report.stats = Statistics(LabelsOf(sane), recording.moods)
    BY NoDetailFields DEF IInv, DetailsSound, Stored, Sound, OfOnePiece, Unfinished,
                          LabelsInv, Lined, Measured
  <2>2. n \in Nat \ {0} /\ DOMAIN lines = 1..n
    BY <2>1 DEF HasLines
  <2>3. DOMAIN lines = DOMAIN recording.said
    BY DEF LabelsInv, Lined, Followed, Follows, Names
  <2> HIDE DEF n, lines
  <2>4. Len(recording.moods) = n
    <3>1. recording.moods \in [1..n -> {"positive", "neutral", "negative"}]
      <4>1. recording.moods \in [DOMAIN recording.said -> {"positive", "neutral", "negative"}]
        BY <2>1, RecordingsAssumption
      <4> QED BY <2>2, <2>3, <4>1
    <3>2. recording.moods \in Seq({"positive", "neutral", "negative"})
      BY <2>2, <3>1
    <3> QED BY <2>2, <3>1, <3>2
  <2>5. points = 1..Points(n)
    BY <2>1, <2>4 DEF Statistics, computeSentimentTrend, points
  <2>6. BucketCount(n) \in 1..12 /\ Lesser(12, BucketCount(n)) = BucketCount(n)
    <3>1. BucketCount(n) \in 1..Lesser(12, n)
      BY <2>2, BucketCountOf
    <3>2. \A b : b \in 1..Lesser(12, n) => b \in 1..12 /\ Lesser(12, b) = b
      BY <2>2 DEF Lesser
    <3> QED BY <3>1, <3>2
  <2>7. Points(n) \in 1..Lesser(12, BucketCount(n))
    BY <2>2, <2>6, BucketSizeOf
  <2> HIDE DEF points
  <2>8. \E c \in 1..Lesser(12, BucketCount(n)) : points = 1..c
    BY <2>5, <2>7
  <2>9. /\ \A i \in DOMAIN lines :
             \E k \in points : {j \in points : i \in Bucket(n, j)} = {k}
        /\ \A k \in points : Bucket(n, k) # {}
    <3>1. /\ \A i \in 1..n : \E k \in 1..Points(n) :
               \A j \in 1..Points(n) : i \in Bucket(n, j) <=> j = k
          /\ \A k \in 1..Points(n) : Bucket(n, k) # {}
      BY <2>2, BucketsPartition
    <3>2. \A i \in DOMAIN lines :
            \E k \in points : \A j \in points : i \in Bucket(n, j) <=> j = k
      BY <2>2, <2>5, <3>1, Zenon
    <3>3. ASSUME NEW i \in DOMAIN lines
          PROVE  \E k \in points : {j \in points : i \in Bucket(n, j)} = {k}
      <4>1. PICK k \in points : \A j \in points : i \in Bucket(n, j) <=> j = k
        BY <3>2
      <4> QED BY <4>1
    <3> QED BY <2>5, <3>1, <3>3, Zenon
  <2> QED BY <2>8, <2>9 DEF TrendIsWhole, n, lines, points
<1> QED BY <1>1, Invariant, LabelsInvariant, PTL
===============================================================================
