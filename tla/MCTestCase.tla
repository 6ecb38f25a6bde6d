----------------------------- MODULE MCTestCase -----------------------------
(* TestCase with MemoryLimitMB 2048 and programs that used 1 KB or 3 MB:     *)
(* signalHandler's threshold lies between the two.                           *)
EXTENDS TestCase

Peaks == {1, 3072}
=============================================================================
