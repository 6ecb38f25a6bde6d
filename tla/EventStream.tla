----------------------------- MODULE EventStream -----------------------------
(***************************************************************************)
(* The event stream of one submission as its consumers read it (UESP): the *)
(* tests that passed or gave a wrong answer, one INFO each; at most one    *)
(* event that stops the judging; then one RESULT, the last event, whose    *)
(* status follows from what came before.  A stream may stop anywhere: the  *)
(* agent can be killed.                                                    *)
(***************************************************************************)
EXTENDS Naturals, Sequences

VARIABLE stream      \* sequence of events

TestVerdicts == {"OK", "WA", "RE", "TLE", "OLE", "MLE", "IE"}
Stops == {"RE", "TLE", "OLE", "MLE", "IE"}
Types == {"INFO", "ERROR", "FATAL", "RESULT"}
Statuses == TestVerdicts \cup {"AC", "CE"}

Event(type, status) == [type |-> type, status |-> status]
Events == [type : Types, status : Statuses]

Seen(s, e) == \E k \in DOMAIN s : s[k] = e
EndsWith(s, e) == s # <<>> /\ s[Len(s)] = e
EndsWithResult(s) == s # <<>> /\ s[Len(s)].type = "RESULT"

\* Nothing has stopped the judging yet.
Continues(s) ==
    \A k \in DOMAIN s : s[k].type = "INFO" /\ s[k].status \in {"OK", "WA"}

\* The verdict v follows from the events s.
Justified(s, v) ==
    \/ v = "AC" /\ s # <<>> /\ \A k \in DOMAIN s : s[k] = Event("INFO", "OK")
    \/ v = "WA" /\ Continues(s) /\ Seen(s, Event("INFO", "WA"))
    \/ v \in Stops /\ EndsWith(s, Event("INFO", v))
    \/ v = "IE" /\ s \in {<<Event("ERROR", "IE")>>, <<Event("FATAL", "IE")>>}
    \/ v = "CE" /\ s = <<Event("ERROR", "CE")>>

Init == stream = <<>>

Emit(e) ==
    /\ stream' = Append(stream, e)
    /\ IF e.type = "RESULT" THEN Justified(stream, e.status) ELSE Continues(stream)

Next == \E e \in Events : Emit(e)

Spec == Init /\ [][Next]_stream
=============================================================================
