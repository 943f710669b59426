------------------------- MODULE ApprovalLifecycle -------------------------
(***************************************************************************)
(* What the approval table promises about one decision: it is put up for   *)
(* approval once, and then decided once, by somebody other than the one    *)
(* who asked, or expires.  Approvals.tla implements it with threads that   *)
(* read a row and later update it if it is still pending.                  *)
(***************************************************************************)
CONSTANTS Decisions, Actors, Nobody

VARIABLES status, requested_by, decided_by

Init ==
  /\ status = [d \in Decisions |-> "NONE"]
  /\ requested_by = [d \in Decisions |-> Nobody]
  /\ decided_by = [d \in Decisions |-> Nobody]

Request(d, actor) ==
  /\ status[d] = "NONE"
  /\ status' = [status EXCEPT ![d] = "PENDING"]
  /\ requested_by' = [requested_by EXCEPT ![d] = actor]
  /\ UNCHANGED decided_by

Decide(d, actor) ==
  /\ status[d] = "PENDING"
  /\ actor # requested_by[d]
  /\ \E s \in {"APPROVED", "REJECTED"} : status' = [status EXCEPT ![d] = s]
  /\ decided_by' = [decided_by EXCEPT ![d] = actor]
  /\ UNCHANGED requested_by

Expire(d) ==
  /\ status[d] = "PENDING"
  /\ status' = [status EXCEPT ![d] = "EXPIRED"]
  /\ UNCHANGED <<requested_by, decided_by>>

Next == \E d \in Decisions :
          \/ \E actor \in Actors : Request(d, actor) \/ Decide(d, actor)
          \/ Expire(d)

Spec == Init /\ [][Next]_<<status, requested_by, decided_by>>
=============================================================================
