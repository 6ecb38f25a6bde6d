---------------------------- MODULE JobDelivery ----------------------------
(***************************************************************************)
(* What the job queue promises, with the runner left out: a submitted job  *)
(* is either ready or taken until it is finished or rejected; a taken job  *)
(* may be given back and taken again; a job that has left is never seen    *)
(* again; only a malformed job is rejected.  This is the at-least-once     *)
(* contract of a RabbitMQ queue whose consumers acknowledge by hand.       *)
(***************************************************************************)

CONSTANTS Jobs,        \* the messages published to the job queue
          Malformed    \* those of them whose body is not a JobSpec

VARIABLE status        \* what the queue knows of each job

States == {"unsent", "ready", "unacked", "acked", "dropped"}

Init == status = [j \in Jobs |-> "unsent"]

Submit(j) ==
    /\ status[j] = "unsent"
    /\ status' = [status EXCEPT ![j] = "ready"]

Take(j) ==
    /\ status[j] = "ready"
    /\ status' = [status EXCEPT ![j] = "unacked"]

\* The consumer's channel is gone: everything it had taken is ready again.
GiveBack ==
    status' = [j \in Jobs |-> IF status[j] = "unacked" THEN "ready" ELSE status[j]]

Finish(j) ==
    /\ status[j] = "unacked"
    /\ status' = [status EXCEPT ![j] = "acked"]

Reject(j) ==
    /\ j \in Malformed
    /\ status[j] = "unacked"
    /\ status' = [status EXCEPT ![j] = "dropped"]

Next ==
    \/ GiveBack
    \/ \E j \in Jobs : Submit(j) \/ Take(j) \/ Finish(j) \/ Reject(j)

Spec == Init /\ [][Next]_status
=============================================================================
