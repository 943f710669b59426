-------------------------- MODULE ActionLifecycle --------------------------
(***************************************************************************)
(* What the action table promises about one decision, whoever writes it:   *)
(* its action is claimed at most once, and a claimed action completes at   *)
(* most once, with a status that is final.  ActionGateway.tla implements   *)
(* it with threads that read, insert and update rows.                      *)
(***************************************************************************)
CONSTANT Decisions

VARIABLE status

Init == status = [d \in Decisions |-> "NONE"]

Claim(d) ==
  /\ status[d] = "NONE"
  /\ status' = [status EXCEPT ![d] = "EXECUTING"]

Complete(d) ==
  /\ status[d] = "EXECUTING"
  /\ \E s \in {"SUCCEEDED", "COMPENSATED", "FAILED"} :
       status' = [status EXCEPT ![d] = s]

Next == \E d \in Decisions : Claim(d) \/ Complete(d)

Spec == Init /\ [][Next]_status
=============================================================================
