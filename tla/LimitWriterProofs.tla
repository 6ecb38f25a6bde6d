-------------------------- MODULE LimitWriterProofs --------------------------
(***************************************************************************)
(* What LimitExceededWriter keeps and when it cancels, for every limit and *)
(* every way of cutting a stream into slices.                              *)
(***************************************************************************)
EXTENDS LimitWriter, SequenceTheorems, TLAPS

\* Below the limit nothing has been dropped; at the limit, exactly the rest.
Counts ==
    /\ ~limitReached => written = total /\ (total < limit \/ total = 0)
    /\ limitReached => written = limit /\ total >= limit
    /\ cancels = IF limitReached THEN 1 ELSE 0

Prefix ==
    /\ Len(buf) = written
    /\ \A k \in 1..Len(buf) : buf[k] = k

IInv == TypeOK /\ Counts /\ Prefix

\* What Keep leaves: the sequence it appends continues the numbers in buf.
LEMMA KeepPrefix ==
    ASSUME TypeOK, Prefix, NEW n \in Nat, Keep(n), written = total
    PROVE  buf' \in Seq(Nat) /\ written' \in Nat /\ Prefix'
<1> DEFINE more == Bytes(total + 1, total + n)
<1>1. more \in Seq(Nat) /\ Len(more) = n /\ \A k \in 1..n : more[k] = total + k
  BY DEF TypeOK, Bytes
<1> HIDE DEF more
<1>2. buf' = buf \o more /\ written' = written + n /\ buf \in Seq(Nat) /\ total \in Nat
  BY DEF Keep, TypeOK, more
<1>3. buf' \in Seq(Nat) /\ Len(buf') = Len(buf) + n
  BY <1>1, <1>2, ConcatProperties
<1>4. \A k \in 1..Len(buf') : buf'[k] = IF k <= Len(buf) THEN buf[k] ELSE more[k - Len(buf)]
  BY <1>1, <1>2, <1>3, ConcatProperties
<1>5. Len(buf) = total
  BY DEF Prefix
<1>6. \A k \in 1..Len(buf') : buf'[k] = k
  BY <1>1, <1>2, <1>3, <1>4, <1>5 DEF Prefix
<1> QED BY <1>2, <1>3, <1>5, <1>6 DEF Prefix

\* A call of Write preserves the invariant.
LEMMA WriteStep ==
    ASSUME IInv, NEW n \in Nat, Write(n) PROVE IInv'
<1> USE DEF IInv, Counts
<1>1. CASE written + n >= limit /\ ~limitReached
  <2>1. Keep(limit - written) /\ limit - written \in Nat /\ written = total
    BY <1>1 DEF Write, TypeOK
  <2>2. buf' \in Seq(Nat) /\ written' \in Nat /\ Prefix'
    BY <2>1, KeepPrefix
  <2>3. TypeOK' /\ Counts'
    <3>1. /\ limitReached' = TRUE /\ cancels' = cancels + 1 /\ cancels = 0
          /\ total' = total + n /\ limit' = limit /\ written' = limit
      BY <1>1, <2>1 DEF Write, Keep, TypeOK
    <3>2. total + n >= limit /\ total + n \in Nat /\ limit \in Nat
      BY <1>1, <2>1 DEF TypeOK
    <3> QED BY <2>2, <3>1, <3>2 DEF TypeOK
  <2> QED BY <2>2, <2>3
<1>2. CASE written + n >= limit /\ limitReached
  <2>1. /\ total' = total + n /\ written' = written /\ buf' = buf
        /\ limitReached' = limitReached /\ cancels' = cancels /\ limit' = limit
    <3>1. ~(written + n < limit)
      BY <1>2 DEF TypeOK
    <3> QED BY <1>2, <3>1 DEF Write
  <2>2. total + n >= limit /\ total + n \in Nat
    BY <1>2 DEF TypeOK
  <2> QED BY <1>2, <2>1, <2>2 DEF TypeOK, Prefix
<1>3. CASE written + n < limit
  <2>1. Keep(n) /\ ~limitReached /\ written = total
    BY <1>3 DEF Write, TypeOK
  <2>2. buf' \in Seq(Nat) /\ written' \in Nat /\ Prefix'
    BY <2>1, KeepPrefix
  <2>3. TypeOK' /\ Counts'
    BY <1>3, <2>1, <2>2 DEF Write, Keep, TypeOK
  <2> QED BY <2>2, <2>3
<1> QED BY <1>1, <1>2, <1>3 DEF TypeOK

\* IInv holds in every state of the writer.
THEOREM Inductive == Spec => []IInv
<1>1. Init => IInv
  <2>1. ASSUME Init PROVE limit \in Nat
    BY <2>1, WriterAssumption DEF WriterAssumption, Init
  <2>2. ASSUME Init PROVE TypeOK /\ Counts
    <3>1. buf \in Seq(Nat)
      BY <2>2 DEF Init
    <3>2. TypeOK
      BY <2>1, <2>2, <3>1 DEF Init, TypeOK
    <3> QED BY <2>2, <3>2 DEF Init, Counts
  <2>3. ASSUME Init PROVE Prefix
    BY <2>3 DEF Init, Prefix
  <2> QED BY <2>2, <2>3 DEF IInv
<1>2. IInv /\ [Next]_writerVars => IInv'
  <2>1. ASSUME IInv, Next PROVE IInv'
    BY <2>1, WriteStep, WriterAssumption DEF Next, WriterAssumption
  <2>2. ASSUME IInv, UNCHANGED writerVars PROVE IInv'
    BY <2>2 DEF IInv, TypeOK, Counts, Prefix, writerVars
  <2> QED BY <2>1, <2>2
<1> QED BY <1>1, <1>2, PTL DEF Spec

\* Every variable of the writer keeps its range.
THEOREM TypeCorrect == Spec => []TypeOK
<1>1. IInv => TypeOK
  BY DEF IInv
<1> QED BY <1>1, Inductive, PTL

\* The writer keeps exactly the first limit bytes of the stream.
THEOREM PrefixKept == Spec => []KeepsPrefix
<1>1. IInv => KeepsPrefix
  BY DEF IInv, TypeOK, Counts, Prefix, KeepsPrefix
<1> QED BY <1>1, Inductive, PTL

\* The writer cancels the test once, when the limit is reached and not before.
THEOREM CancelledAtLimit == Spec => []ReachedAtLimit
<1>1. IInv => ReachedAtLimit
  BY DEF IInv, TypeOK, Counts, ReachedAtLimit
<1> QED BY <1>1, Inductive, PTL

\* The text kept and the flag agree with each other and with the stream.
THEOREM Limited == Spec => []StreamLimited
BY PrefixKept, CancelledAtLimit, PTL DEF StreamLimited
=============================================================================
