---------------------------- MODULE MCApprovals ----------------------------
(* Two threads, one approval, an analyst, a manager and an actor who is     *)
(* not in the identity directory and may claim any role.                    *)
EXTENDS Approvals, TLC

CONSTANTS t1, t2, d1, analyst, manager, unknown

MCThreads == {t1, t2}
MCDecisions == {d1}
MCActors == {analyst, manager, unknown}
Directory == [a \in {analyst, manager} |->
                IF a = analyst THEN "OPERATIONS_ANALYST" ELSE "OPERATIONS_MANAGER"]
LenientIdentity == INSTANCE Identity WITH Actors <- MCActors, Strict <- FALSE
MCMayClaim == LenientIdentity!ClaimableRoles
ThreadSymmetry == Permutations(MCThreads)
=============================================================================
