----------------------------- MODULE LimitWriter -----------------------------
(***************************************************************************)
(* LimitExceededWriter (ajagent/internal/limitwriter.go): the writer that  *)
(* collects one output stream of a program up to a limit and cancels the   *)
(* test when the limit is reached.  Write holds a mutex, so a call is one  *)
(* step.  The bytes of the stream are numbered 1, 2, ... as they come, and *)
(* buf holds the numbers of the bytes kept.                                *)
(***************************************************************************)
EXTENDS Naturals, Sequences

CONSTANTS MaxLimit,    \* bound on the limits looked at
          MaxTotal     \* bound on the bytes a program writes

ASSUME WriterAssumption == MaxLimit \in Nat /\ MaxTotal \in Nat

VARIABLES
    limit,           \* LogLimitKB * 1000
    written,
    buf,
    limitReached,
    cancels,         \* calls of cancel
    total            \* bytes given to Write so far (history)

writerVars == <<limit, written, buf, limitReached, cancels, total>>

Init ==
    /\ limit \in 0..MaxLimit
    /\ written = 0
    /\ buf = <<>>
    /\ limitReached = FALSE
    /\ cancels = 0
    /\ total = 0

\* the bytes from through to of the stream
Bytes(from, to) == [k \in 1..(to - from + 1) |-> from + k - 1]

\* buf.Write of the first n bytes of the slice
Keep(n) ==
    /\ buf' = buf \o Bytes(total + 1, total + n)
    /\ written' = written + n

\* mistakes: the limit is compared before the slice is counted; the whole slice
\* is kept when it crosses the limit; cancel is called for every slice after it
WriteLate(n) ==
    /\ total' = total + n
    /\ IF written >= limit
       THEN limitReached' = TRUE /\ cancels' = 1 /\ UNCHANGED <<buf, written>>
       ELSE Keep(n) /\ UNCHANGED <<limitReached, cancels>>
    /\ UNCHANGED limit

WriteWhole(n) ==
    /\ total' = total + n
    /\ IF written + n >= limit
       THEN /\ limitReached' = TRUE
            /\ cancels' = 1
            /\ IF limitReached THEN UNCHANGED <<buf, written>> ELSE Keep(n)
       ELSE Keep(n) /\ UNCHANGED <<limitReached, cancels>>
    /\ UNCHANGED limit

WriteAgain(n) ==
    /\ total' = total + n
    /\ IF written + n >= limit
       THEN /\ limitReached' = TRUE
            /\ cancels' = cancels + 1
            /\ IF limitReached THEN UNCHANGED <<buf, written>> ELSE Keep(limit - written)
       ELSE Keep(n) /\ UNCHANGED <<limitReached, cancels>>
    /\ UNCHANGED limit

\* Write of a slice of n bytes
Write(n) ==
    /\ total' = total + n
    /\ \/ /\ written + n >= limit /\ ~limitReached
          /\ limitReached' = TRUE
          /\ Keep(limit - written)
          /\ cancels' = cancels + 1
       \/ /\ written + n >= limit /\ limitReached
          /\ UNCHANGED <<written, buf, limitReached, cancels>>
       \/ /\ written + n < limit
          /\ Keep(n)
          /\ UNCHANGED <<limitReached, cancels>>
    /\ UNCHANGED limit

Next == \E n \in 0..MaxTotal : total + n <= MaxTotal /\ Write(n)

Spec == Init /\ [][Next]_writerVars

-----------------------------------------------------------------------------
\* The fields of the writer keep their ranges.
TypeOK ==
    /\ limit \in Nat /\ written \in Nat /\ total \in Nat /\ cancels \in {0, 1}
    /\ limitReached \in BOOLEAN
    /\ buf \in Seq(Nat)

\* What is kept is the beginning of the stream: all of it below the limit, and
\* exactly limit bytes from there on, however the stream was cut into slices.
KeepsPrefix ==
    /\ Len(buf) = IF total < limit THEN total ELSE limit
    /\ \A k \in 1..Len(buf) : buf[k] = k

\* LimitReached() is true exactly when the program has written limit bytes (at
\* least one call, when the limit is 0), and cancel was called exactly then, once.
ReachedAtLimit ==
    /\ limitReached => total >= limit
    /\ total >= limit /\ total > 0 => limitReached
    /\ cancels = IF limitReached THEN 1 ELSE 0

\* What the callers of the writer rely on: the text that they read and the flag
\* that they judge by, said of the same stream.
StreamLimited == KeepsPrefix /\ ReachedAtLimit
=============================================================================
