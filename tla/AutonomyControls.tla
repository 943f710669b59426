------------------------- MODULE AutonomyControls -------------------------
(***************************************************************************)
(* The persistent kill switch and the evidence-based autonomy profiles of  *)
(* promiseguard/autonomy.py, one atomic step per committed transaction.    *)
(* AutonomyTransactions.tla splits the transactions into the statements    *)
(* the code issues and shows that the row lock makes them these steps.     *)
(***************************************************************************)
EXTENDS Naturals, FiniteSets

CONSTANTS
  Actions,             \* the executable recovery actions, one profile each
  Decisions,           \* decisions whose actions and outcomes give evidence
  ActionOf,            \* [Decisions -> Actions]: the action a decision selected
  PromotionThreshold,  \* promotion_threshold of the code (20)
  MaxSwitchVersion,    \* bound: the kill switch is not set again at this version
  MaxProfileVersion    \* bound: managers leave a profile alone at this version

ASSUME ActionOfAssumption == ActionOf \in [Decisions -> Actions]
ASSUME ThresholdAssumption == PromotionThreshold \in Nat \ {0}
ASSUME BoundsAssumption == MaxSwitchVersion \in Nat /\ MaxProfileVersion \in Nat

VARIABLES
  killSwitch,   \* the runtime-control row of the global action kill switch
  profile,      \* the autonomy-profile row of every action
  evidence      \* the rows of the autonomy-evidence table

autonomyVars == <<killSwitch, profile, evidence>>

Levels == {"OBSERVE", "RECOMMEND", "APPROVAL_REQUIRED", "BOUNDED_AUTONOMY",
           "SUSPENDED"}
ExecutionStatuses == {"EXECUTING", "SUCCEEDED", "COMPENSATED", "FAILED"}
VerificationStatuses == {"VERIFIED", "FAILED", "MANUAL_REVIEW_REQUIRED"}

Profiles == [level : Levels,
             verified_successes : Nat,
             consecutive_verified_successes : Nat,
             compensation_count : Nat,
             failure_count : Nat,
             version : Nat]

EvidenceIds == [kind : {"execution", "outcome"}, decision : Decisions]

EvidenceRows == [id : EvidenceIds, action : Actions,
                 successful : BOOLEAN, compensated : BOOLEAN]

BootstrapProfile == [level |-> "APPROVAL_REQUIRED",
                     verified_successes |-> 0,
                     consecutive_verified_successes |-> 0,
                     compensation_count |-> 0,
                     failure_count |-> 0,
                     version |-> 1]

(* _bootstrap on an empty database; a restart finds the rows and keeps them. *)
Init ==
  /\ killSwitch = [active |-> FALSE, version |-> 1]
  /\ profile = [a \in Actions |-> BootstrapProfile]
  /\ evidence = {}

----------------------------------------------------------------------------

SetKillSwitch(active) ==
  /\ killSwitch.version < MaxSwitchVersion
  /\ killSwitch' = [active |-> active, version |-> killSwitch.version + 1]
  /\ UNCHANGED <<profile, evidence>>

(* The level a manager asks for is refused when it is bounded autonomy and  *)
(* the streak of verified successes is too short.                           *)
MaySetLevel(row, level) ==
  level = "BOUNDED_AUTONOMY" =>
    row.consecutive_verified_successes >= PromotionThreshold

SetProfile(a, level) ==
  /\ profile[a].version < MaxProfileVersion
  /\ MaySetLevel(profile[a], level)
  /\ profile' = [profile EXCEPT ![a].level = level, ![a].version = @ + 1]
  /\ UNCHANGED <<killSwitch, evidence>>

AfterSuccess(row) ==
  [row EXCEPT !.verified_successes = @ + 1,
              !.consecutive_verified_successes = @ + 1,
              !.version = @ + 1]

(* Mutant: a failure does not suspend.                                      *)
LevelKept(level) == level

(* A failure ends the streak and suspends a profile that had been promoted. *)
LevelAfterFailure(level) ==
  IF level = "BOUNDED_AUTONOMY" THEN "SUSPENDED" ELSE level

(* Mutants: the streak is decremented instead of reset; the version of the  *)
(* profile stays.                                                           *)
AfterFailureDecrementing(row, compensated) ==
  [row EXCEPT !.failure_count = @ + 1,
              !.consecutive_verified_successes = @ - 1,
              !.compensation_count = IF compensated THEN @ + 1 ELSE @,
              !.level = LevelAfterFailure(@),
              !.version = @ + 1]

AfterFailureUnversioned(row, compensated) ==
  [row EXCEPT !.failure_count = @ + 1,
              !.consecutive_verified_successes = 0,
              !.compensation_count = IF compensated THEN @ + 1 ELSE @,
              !.level = LevelAfterFailure(@)]

AfterFailure(row, compensated) ==
  [row EXCEPT !.failure_count = @ + 1,
              !.consecutive_verified_successes = 0,
              !.compensation_count = IF compensated THEN @ + 1 ELSE @,
              !.level = LevelAfterFailure(@),
              !.version = @ + 1]

(* Mutant: evidence is counted again whenever it is reported again.         *)
NeverRecorded(id) == FALSE

Recorded(id) == \E row \in evidence : row.id = id

EvidenceRow(id, successful, compensated) ==
  [id |-> id, action |-> ActionOf[id.decision],
   successful |-> successful, compensated |-> compensated]

(* _record_evidence: idempotent by evidence id. *)
RecordEvidence(id, successful, compensated) ==
  \/ /\ Recorded(id)
     /\ UNCHANGED autonomyVars
  \/ /\ ~ Recorded(id)
     /\ evidence' = evidence \cup {EvidenceRow(id, successful, compensated)}
     /\ profile' = [profile EXCEPT ![ActionOf[id.decision]] =
                      IF successful THEN AfterSuccess(@)
                                    ELSE AfterFailure(@, compensated)]
     /\ UNCHANGED killSwitch

(* Mutant: a successful call is a success, without its outcome.             *)
RecordAnyExecution(d, status) ==
  RecordEvidence([kind |-> "execution", decision |-> d],
                 status \notin {"COMPENSATED", "FAILED"}, status = "COMPENSATED")

(* Only a failed or compensated action is evidence by itself; a success is  *)
(* evidence when its outcome is verified.                                   *)
RecordExecution(d, status) ==
  \/ /\ status \in {"COMPENSATED", "FAILED"}
     /\ RecordEvidence([kind |-> "execution", decision |-> d],
                       FALSE, status = "COMPENSATED")
  \/ /\ status \notin {"COMPENSATED", "FAILED"}
     /\ UNCHANGED autonomyVars

RecordOutcome(d, status) ==
  \/ /\ status = "MANUAL_REVIEW_REQUIRED"
     /\ UNCHANGED autonomyVars
  \/ /\ status # "MANUAL_REVIEW_REQUIRED"
     /\ RecordEvidence([kind |-> "outcome", decision |-> d],
                       status = "VERIFIED", FALSE)

ContextVersion(a) == <<killSwitch.version, profile[a].version>>

ExecutionPermitted(a) ==
  ~ killSwitch.active /\ profile[a].level = "BOUNDED_AUTONOMY"

Next ==
  \/ \E active \in BOOLEAN : SetKillSwitch(active)
  \/ \E a \in Actions, level \in Levels : SetProfile(a, level)
  \/ \E d \in Decisions, status \in ExecutionStatuses : RecordExecution(d, status)
  \/ \E d \in Decisions, status \in VerificationStatuses : RecordOutcome(d, status)

Spec == Init /\ [][Next]_autonomyVars

----------------------------------------------------------------------------

TypeOK ==
  /\ killSwitch \in [active : BOOLEAN, version : Nat]
  /\ profile \in [Actions -> Profiles]
  /\ evidence \subseteq EvidenceRows

EvidenceOf(a, successful) ==
  {row \in evidence : row.action = a /\ row.successful = successful}

CompensationsOf(a) == {row \in evidence : row.action = a /\ row.compensated}

(* A profile at bounded autonomy has an unbroken streak of at least the     *)
(* promotion threshold at every moment, not only when it was promoted: any  *)
(* failure recorded since has taken the level away (set_profile and         *)
(* _record_evidence of autonomy.py together).                               *)
BoundedNeedsStreak ==
  \A a \in Actions :
    profile[a].level = "BOUNDED_AUTONOMY" =>
      profile[a].consecutive_verified_successes >= PromotionThreshold

(* The totals of a profile are exactly the evidence rows that exist for its *)
(* action: replays of the same evidence id count once, and nothing is       *)
(* counted without its row (_record_evidence).                              *)
CountersMatchEvidence ==
  \A a \in Actions :
    /\ profile[a].verified_successes = Cardinality(EvidenceOf(a, TRUE))
    /\ profile[a].failure_count = Cardinality(EvidenceOf(a, FALSE))
    /\ profile[a].compensation_count = Cardinality(CompensationsOf(a))

(* The control version is a fingerprint of the permission to execute: it    *)
(* never goes back, and whenever the permission of an action changes the    *)
(* version does too, so a decision made under one permission never shares   *)
(* its identity with a decision made under another (context_version).       *)
ControlVersionFingerprint ==
  [][\A a \in Actions :
       /\ ContextVersion(a)'[1] >= ContextVersion(a)[1]
       /\ ContextVersion(a)'[2] >= ContextVersion(a)[2]
       /\ ExecutionPermitted(a)' # ExecutionPermitted(a) =>
            ContextVersion(a)' # ContextVersion(a)]_autonomyVars
=============================================================================
