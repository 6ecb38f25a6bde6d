--------------------------- MODULE MCWarmContainer ---------------------------
(* WarmContainer with the producer and one worker.  Four identities are      *)
(* enough for every slot of two processes in a row.                          *)
EXTENDS WarmContainer

CONSTANTS producer, worker, c1, c2, c3, c4

ProducerAndWorker == {producer, worker}
FourContainers == {c1, c2, c3, c4}
=============================================================================
