--------------------------- MODULE MCOrchestration ---------------------------
(* Orchestration with two submissions.  cpp is compiled, python is accepted  *)
(* but unknown to PrepareExecrules, rust is refused.  Of the buckets that    *)
(* the dispatcher does not look into, full has a test, and bare only a key   *)
(* that is no test.                                                          *)
EXTENDS Orchestration

CONSTANTS r1, r2, s1, s2, full, bare

TwoRequests == {r1, r2}
TwoElsewhere == [b \in {full, bare} |-> IF b = full THEN {1} ELSE {Other}]

Of(id, language, bucket) == [id |-> id, language |-> language, bucket |-> bucket]
SameKind == [r \in TwoRequests |-> {Of(s1, "cpp", Own)}]
EveryKind == [r \in TwoRequests |-> IF r = r1 THEN {Of(s1, "cpp", Own)}
    ELSE {Of(s2, "cpp", Own), Of(s2, "python", full), Of(s1, "cpp", bare),
          Of(s2, "rust", Own)}]

\* To keep the instance small, a folder marker is there only beside a second
\* submission that is refused.
FlowInit == Init /\ (Marker \in objects => submission[r2].language = "rust")
FlowSpec == FlowInit /\ [][Next]_vars /\ Fairness
=============================================================================
