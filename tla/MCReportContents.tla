-------------------------- MODULE MCReportContents --------------------------
(* ReportContents on small instances.  The recordings: the first and the   *)
(* tenth voice of the diarization service, with a line it has no segment   *)
(* for; and, its file not kept, names that speech-to-text found, one a     *)
(* participant's, another that cannot be told from it, two nobody's.  And  *)
(* one in which the diarization service hears eleven voices.               *)
EXTENDS ReportContents

Ann == Person("Ann", "Lee")
Annie == Person("Ann", "-")
Bob == Person("Bob", "Ray")
Word == Person("Word", "-")
Other == Person("Other", "-")
V(n) == Voice(n, n < 10)

Recording(file, source, said) ==
  [file |-> file, source |-> source, names |-> <<Ann, Bob>>,
   said |-> said, moods |-> [i \in DOMAIN said |-> IF i = 1 THEN "positive" ELSE "negative"]]

MCRecordings ==
  {Recording(TRUE, "diarization", <<V(0), V(9), Bare, V(0)>>),
   Recording(FALSE, "stt", <<Word, Ann, V(0), Other, Word, Annie>>)}

MCManyVoices == {Recording(TRUE, "diarization", [i \in 1..11 |-> V(i - 1)])}

(* To keep the instance small, the last request is only a read of the      *)
(* recording that is diarized, when nobody else is at work: what it finds  *)
(* of all that was done before.                                            *)
FewerRequests ==
  requests' = MaxRequests /\ requests # requests' =>
    /\ recording \in {r \in Recordings : r.source = "diarization"}
    /\ \A p \in Procs : pc[p] = "idle" /\ (pc'[p] = "idle" \/ doing'[p] = "get")
=============================================================================
