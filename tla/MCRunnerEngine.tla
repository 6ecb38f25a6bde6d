--------------------------- MODULE MCRunnerEngine ---------------------------
(* RunnerEngine on small instances.  Containers has one name per job, one    *)
(* per place of containerQueue and one for the producer's hand, so that a    *)
(* creation never waits for a name.                                          *)
EXTENDS RunnerEngine

CONSTANTS j1, j2, c1, c2, c3, c4

TwoJobs == {j1, j2}
OneMalformed == {j1}

FourContainers == {c1, c2, c3, c4}

ASSUME EnoughNames == Cardinality(Containers) >= Cardinality(Jobs) + QueueCap + 1
=============================================================================
