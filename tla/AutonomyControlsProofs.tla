----------------------- MODULE AutonomyControlsProofs -----------------------
(* Theorems about AutonomyControls, for every set of actions and decisions  *)
(* and every promotion threshold.                                           *)
EXTENDS AutonomyControls, FiniteSetTheorems, TLAPS

USE ActionOfAssumption, ThresholdAssumption, BoundsAssumption

----------------------------------------------------------------------------
(* Lemmas on the row operators                                              *)

(* A success or a failure turns a profile row into a profile row.           *)
LEMMA EvidenceKeepsProfile ==
  ASSUME NEW row \in Profiles, NEW compensated \in BOOLEAN
  PROVE  /\ AfterSuccess(row) \in Profiles
         /\ AfterFailure(row, compensated) \in Profiles
<1>1. /\ row.level \in Levels
      /\ row.verified_successes \in Nat
      /\ row.consecutive_verified_successes \in Nat
      /\ row.compensation_count \in Nat
      /\ row.failure_count \in Nat
      /\ row.version \in Nat
  BY DEF Profiles
<1>2. AfterSuccess(row) \in Profiles
  <2>1. /\ row.verified_successes + 1 \in Nat
        /\ row.consecutive_verified_successes + 1 \in Nat
        /\ row.version + 1 \in Nat
    BY <1>1
  <2> QED
    BY <1>1, <2>1 DEF AfterSuccess, Profiles
<1>3. AfterFailure(row, compensated) \in Profiles
  <2>1. /\ row.failure_count + 1 \in Nat
        /\ (IF compensated THEN row.compensation_count + 1
                           ELSE row.compensation_count) \in Nat
        /\ LevelAfterFailure(row.level) \in Levels
        /\ row.version + 1 \in Nat
    BY <1>1 DEF LevelAfterFailure, Levels
  <2> QED
    BY <1>1, <2>1 DEF AfterFailure, Profiles
<1> QED
  BY <1>2, <1>3

(* The evidence row of an id is a row of the evidence table.                *)
LEMMA EvidenceRowType ==
  ASSUME NEW id \in EvidenceIds,
         NEW successful \in BOOLEAN, NEW compensated \in BOOLEAN
  PROVE  /\ EvidenceRow(id, successful, compensated) \in EvidenceRows
         /\ ActionOf[id.decision] \in Actions
  BY DEF EvidenceRow, EvidenceRows, EvidenceIds

(* Every step that is neither a manager's nor idle records one new row of   *)
(* evidence and rewrites the profile of its action.                         *)
NewEvidence(id, successful, compensated) ==
  /\ ~ Recorded(id)
  /\ evidence' = evidence \cup {EvidenceRow(id, successful, compensated)}
  /\ profile' = [profile EXCEPT ![ActionOf[id.decision]] =
                   IF successful THEN AfterSuccess(@)
                                 ELSE AfterFailure(@, compensated)]
  /\ UNCHANGED killSwitch

LEMMA StepCases ==
  ASSUME Next
  PROVE  \/ \E active \in BOOLEAN : SetKillSwitch(active)
         \/ \E a \in Actions, level \in Levels : SetProfile(a, level)
         \/ \E id \in EvidenceIds, successful \in BOOLEAN, compensated \in BOOLEAN :
              /\ NewEvidence(id, successful, compensated)
              /\ successful => ~ compensated
         \/ UNCHANGED autonomyVars
<1>1. ASSUME NEW id \in EvidenceIds, NEW s \in BOOLEAN, NEW c \in BOOLEAN,
             RecordEvidence(id, s, c)
      PROVE  \/ NewEvidence(id, s, c)
             \/ UNCHANGED autonomyVars
  BY <1>1 DEF RecordEvidence, NewEvidence
<1>2. ASSUME NEW d \in Decisions, NEW status \in ExecutionStatuses,
             RecordExecution(d, status)
      PROVE  \/ \E id \in EvidenceIds, s \in BOOLEAN, c \in BOOLEAN :
                  NewEvidence(id, s, c) /\ (s => ~ c)
             \/ UNCHANGED autonomyVars
  <2>1. [kind |-> "execution", decision |-> d] \in EvidenceIds
    BY DEF EvidenceIds
  <2> QED
    BY <1>1, <1>2, <2>1 DEF RecordExecution
<1>3. ASSUME NEW d \in Decisions, NEW status \in VerificationStatuses,
             RecordOutcome(d, status)
      PROVE  \/ \E id \in EvidenceIds, s \in BOOLEAN, c \in BOOLEAN :
                  NewEvidence(id, s, c) /\ (s => ~ c)
             \/ UNCHANGED autonomyVars
  <2>1. [kind |-> "outcome", decision |-> d] \in EvidenceIds
    BY DEF EvidenceIds
  <2> QED
    BY <1>1, <1>3, <2>1 DEF RecordOutcome
<1> QED
  BY <1>2, <1>3 DEF Next

----------------------------------------------------------------------------
(* Type correctness of the control and evidence tables.                     *)

LEMMA TypeInit == Init => TypeOK
  BY DEF Init, TypeOK, BootstrapProfile, Profiles, Levels

LEMMA TypeStep == TypeOK /\ [Next]_autonomyVars => TypeOK'
<1> SUFFICES ASSUME TypeOK, [Next]_autonomyVars PROVE TypeOK'
  OBVIOUS
<1> USE DEF TypeOK
<1>1. ASSUME NEW active \in BOOLEAN, SetKillSwitch(active) PROVE TypeOK'
  BY <1>1 DEF SetKillSwitch
<1>2. ASSUME NEW a \in Actions, NEW level \in Levels, SetProfile(a, level)
      PROVE  TypeOK'
  <2>1. [profile[a] EXCEPT !.level = level, !.version = @ + 1] \in Profiles
    <3>1. profile[a] \in Profiles
      OBVIOUS
    <3>2. profile[a].version + 1 \in Nat
      BY <3>1 DEF Profiles
    <3> QED
      BY <3>1, <3>2 DEF Profiles
  <2>2. profile' = [profile EXCEPT ![a] =
                      [profile[a] EXCEPT !.level = level, !.version = @ + 1]]
    BY <1>2 DEF SetProfile, Profiles
  <2> QED
    BY <1>2, <2>1, <2>2 DEF SetProfile
<1>3. ASSUME NEW id \in EvidenceIds, NEW s \in BOOLEAN, NEW c \in BOOLEAN,
             NewEvidence(id, s, c)
      PROVE  TypeOK'
  <2>1. AfterSuccess(profile[ActionOf[id.decision]]) \in Profiles
    BY EvidenceRowType, EvidenceKeepsProfile
  <2>2. AfterFailure(profile[ActionOf[id.decision]], c) \in Profiles
    BY EvidenceRowType, EvidenceKeepsProfile
  <2> QED
    BY <1>3, <2>1, <2>2, EvidenceRowType DEF NewEvidence
<1>4. CASE UNCHANGED autonomyVars
  BY <1>4 DEF autonomyVars
<1> QED
  BY <1>1, <1>2, <1>3, <1>4, StepCases

THEOREM TypeCorrect == Spec => []TypeOK
  BY TypeInit, TypeStep, PTL DEF Spec

----------------------------------------------------------------------------
(* A promoted profile keeps its streak: the invariant is inductive given    *)
(* the types, because the only step that shortens a streak takes the level  *)
(* away and the only step that gives the level checks the streak.           *)

LEMMA StreakStep ==
  TypeOK /\ BoundedNeedsStreak /\ [Next]_autonomyVars => BoundedNeedsStreak'
<1> SUFFICES ASSUME TypeOK, BoundedNeedsStreak, [Next]_autonomyVars,
                    NEW a \in Actions,
                    profile'[a].level = "BOUNDED_AUTONOMY"
             PROVE  profile'[a].consecutive_verified_successes
                      >= PromotionThreshold
  BY DEF BoundedNeedsStreak
<1>0. profile[a] \in Profiles
  BY DEF TypeOK
<1>1. ASSUME NEW active \in BOOLEAN, SetKillSwitch(active)
      PROVE  profile'[a].consecutive_verified_successes >= PromotionThreshold
  BY <1>1 DEF SetKillSwitch, BoundedNeedsStreak
<1>2. ASSUME NEW b \in Actions, NEW level \in Levels, SetProfile(b, level)
      PROVE  profile'[a].consecutive_verified_successes >= PromotionThreshold
  <2>1. CASE a = b
    BY <1>0, <1>2, <2>1 DEF SetProfile, MaySetLevel, Profiles, TypeOK
  <2>2. CASE a # b
    BY <1>2, <2>2 DEF SetProfile, BoundedNeedsStreak, TypeOK
  <2> QED
    BY <2>1, <2>2
<1>3. ASSUME NEW id \in EvidenceIds, NEW s \in BOOLEAN, NEW c \in BOOLEAN,
             NewEvidence(id, s, c)
      PROVE  profile'[a].consecutive_verified_successes >= PromotionThreshold
  <2>1. CASE a # ActionOf[id.decision]
    BY <1>3, <2>1 DEF NewEvidence, BoundedNeedsStreak, TypeOK
  <2>2. CASE a = ActionOf[id.decision] /\ s
    <3>1. profile'[a] = AfterSuccess(profile[a])
      BY <1>3, <2>2 DEF NewEvidence, TypeOK
    <3>2. profile[a].level = "BOUNDED_AUTONOMY"
      BY <1>0, <3>1 DEF AfterSuccess, Profiles
    <3> QED
      BY <1>0, <3>1, <3>2 DEF AfterSuccess, Profiles, BoundedNeedsStreak
  <2>3. CASE a = ActionOf[id.decision] /\ ~ s
    <3>1. profile'[a] = AfterFailure(profile[a], c)
      BY <1>3, <2>3 DEF NewEvidence, TypeOK
    <3>2. profile'[a].level # "BOUNDED_AUTONOMY"
      BY <1>0, <3>1 DEF AfterFailure, LevelAfterFailure, Profiles
    <3> QED
      BY <3>2
  <2> QED
    BY <2>1, <2>2, <2>3
<1>4. CASE UNCHANGED autonomyVars
  BY <1>4 DEF autonomyVars, BoundedNeedsStreak
<1> QED
  BY <1>1, <1>2, <1>3, <1>4, StepCases

(* A profile at bounded autonomy always has an unbroken streak of verified  *)
(* successes at least as long as the promotion threshold.                   *)
THEOREM PromotionKeepsStreak == Spec => []BoundedNeedsStreak
<1>1. Init => BoundedNeedsStreak
  BY DEF Init, BoundedNeedsStreak, BootstrapProfile
<1> QED
  BY <1>1, StreakStep, TypeCorrect, PTL DEF Spec

----------------------------------------------------------------------------
(* Totals and evidence rows: the counters are the cardinalities of sets of  *)
(* rows, so the induction carries that the table is finite.                 *)

FiniteEvidence == IsFiniteSet(evidence)

(* Adding a row that was not there adds one to a set of rows.               *)
LEMMA AddRow ==
  ASSUME NEW S, IsFiniteSet(S), NEW row, row \notin S,
         NEW T, T = S \/ T = S \cup {row}
  PROVE  /\ Cardinality(S) \in Nat
         /\ Cardinality(T) = IF row \in T THEN Cardinality(S) + 1 ELSE Cardinality(S)
<1>1. Cardinality(S) \in Nat
  BY FS_CardinalityType
<1>2. CASE T = S \cup {row}
  <2>1. Cardinality(S \cup {row}) = Cardinality(S) + 1
    BY FS_AddElement
  <2> QED
    BY <1>1, <1>2, <2>1
<1>3. CASE T = S
  BY <1>1, <1>3
<1> QED
  BY <1>1, <1>2, <1>3

LEMMA CountersStep ==
  TypeOK /\ FiniteEvidence /\ CountersMatchEvidence /\ [Next]_autonomyVars
    => FiniteEvidence' /\ CountersMatchEvidence'
<1> SUFFICES ASSUME TypeOK, FiniteEvidence, CountersMatchEvidence,
                    [Next]_autonomyVars
             PROVE  FiniteEvidence' /\ CountersMatchEvidence'
  OBVIOUS
<1>1. ASSUME NEW active \in BOOLEAN, SetKillSwitch(active)
      PROVE  FiniteEvidence' /\ CountersMatchEvidence'
  BY <1>1 DEF SetKillSwitch, FiniteEvidence, CountersMatchEvidence, EvidenceOf,
              CompensationsOf
<1>2. ASSUME NEW b \in Actions, NEW level \in Levels, SetProfile(b, level)
      PROVE  FiniteEvidence' /\ CountersMatchEvidence'
  <2>1. evidence' = evidence
    BY <1>2 DEF SetProfile
  <2>2. ASSUME NEW a \in Actions
        PROVE  /\ profile'[a].verified_successes = profile[a].verified_successes
               /\ profile'[a].failure_count = profile[a].failure_count
               /\ profile'[a].compensation_count = profile[a].compensation_count
    <3>1. profile[a] \in Profiles
      BY DEF TypeOK
    <3>2. CASE a = b
      BY <1>2, <3>1, <3>2 DEF SetProfile, TypeOK, Profiles
    <3>3. CASE a # b
      BY <1>2, <3>3 DEF SetProfile, TypeOK
    <3> QED
      BY <3>2, <3>3
  <2> QED
    BY <2>1, <2>2 DEF FiniteEvidence, CountersMatchEvidence, EvidenceOf,
                      CompensationsOf
<1>3. ASSUME NEW id \in EvidenceIds, NEW s \in BOOLEAN, NEW c \in BOOLEAN,
             NewEvidence(id, s, c), s => ~ c
      PROVE  FiniteEvidence' /\ CountersMatchEvidence'
  <2> DEFINE row == EvidenceRow(id, s, c)
             b == ActionOf[id.decision]
  <2>1. /\ row.id = id /\ row.action = b
        /\ row.successful = s /\ row.compensated = c
    BY DEF EvidenceRow
  <2>2. evidence' = evidence \cup {row} /\ row \notin evidence
    BY <1>3, <2>1 DEF NewEvidence, Recorded
  <2>3. FiniteEvidence'
    BY <2>2, FS_AddElement DEF FiniteEvidence
  <2>4. ASSUME NEW a \in Actions
        PROVE  /\ profile'[a].verified_successes = Cardinality(EvidenceOf(a, TRUE)')
               /\ profile'[a].failure_count = Cardinality(EvidenceOf(a, FALSE)')
               /\ profile'[a].compensation_count = Cardinality(CompensationsOf(a)')
    <3>0. profile[a] \in Profiles /\ profile[b] \in Profiles
      BY EvidenceRowType DEF TypeOK
    <3>1. /\ IsFiniteSet(EvidenceOf(a, TRUE)) /\ IsFiniteSet(EvidenceOf(a, FALSE))
          /\ IsFiniteSet(CompensationsOf(a))
      BY FS_Subset DEF FiniteEvidence, EvidenceOf, CompensationsOf
    <3>2. /\ row \notin EvidenceOf(a, TRUE) /\ row \notin EvidenceOf(a, FALSE)
          /\ row \notin CompensationsOf(a)
      BY <2>2 DEF EvidenceOf, CompensationsOf
    <3>3. /\ EvidenceOf(a, TRUE)' = IF a = b /\ s THEN EvidenceOf(a, TRUE) \cup {row}
                                                  ELSE EvidenceOf(a, TRUE)
          /\ EvidenceOf(a, FALSE)' = IF a = b /\ ~ s THEN EvidenceOf(a, FALSE) \cup {row}
                                                    ELSE EvidenceOf(a, FALSE)
          /\ CompensationsOf(a)' = IF a = b /\ c THEN CompensationsOf(a) \cup {row}
                                                ELSE CompensationsOf(a)
      <4> HIDE DEF row, b
      <4> QED
        BY <2>1, <2>2 DEF EvidenceOf, CompensationsOf
    <3>4. /\ Cardinality(EvidenceOf(a, TRUE)')
                = profile[a].verified_successes + (IF a = b /\ s THEN 1 ELSE 0)
          /\ Cardinality(EvidenceOf(a, FALSE)')
                = profile[a].failure_count + (IF a = b /\ ~ s THEN 1 ELSE 0)
          /\ Cardinality(CompensationsOf(a)')
                = profile[a].compensation_count + (IF a = b /\ c THEN 1 ELSE 0)
      <4> HIDE DEF row, b
      <4>1. /\ profile[a].verified_successes = Cardinality(EvidenceOf(a, TRUE))
            /\ profile[a].failure_count = Cardinality(EvidenceOf(a, FALSE))
            /\ profile[a].compensation_count = Cardinality(CompensationsOf(a))
        BY DEF CountersMatchEvidence
      <4> QED
        <5>1. Cardinality(EvidenceOf(a, TRUE)')
                = Cardinality(EvidenceOf(a, TRUE)) + (IF a = b /\ s THEN 1 ELSE 0)
          <6> DEFINE S == EvidenceOf(a, TRUE)
                     T == EvidenceOf(a, TRUE)'
          <6>1. /\ IsFiniteSet(S) /\ row \notin S
                /\ T = IF a = b /\ s THEN S \cup {row} ELSE S
            BY <3>1, <3>2, <3>3
          <6> HIDE DEF S, T
          <6>2. Cardinality(T) = Cardinality(S) + (IF a = b /\ s THEN 1 ELSE 0)
            BY <6>1, AddRow
          <6> QED
            BY <6>2 DEF S, T
        <5>2. Cardinality(EvidenceOf(a, FALSE)')
                = Cardinality(EvidenceOf(a, FALSE)) + (IF a = b /\ ~ s THEN 1 ELSE 0)
          <6> DEFINE S == EvidenceOf(a, FALSE)
                     T == EvidenceOf(a, FALSE)'
          <6>1. /\ IsFiniteSet(S) /\ row \notin S
                /\ T = IF a = b /\ ~ s THEN S \cup {row} ELSE S
            BY <3>1, <3>2, <3>3
          <6> HIDE DEF S, T
          <6>2. Cardinality(T) = Cardinality(S) + (IF a = b /\ ~ s THEN 1 ELSE 0)
            BY <6>1, AddRow
          <6> QED
            BY <6>2 DEF S, T
        <5>3. Cardinality(CompensationsOf(a)')
                = Cardinality(CompensationsOf(a)) + (IF a = b /\ c THEN 1 ELSE 0)
          BY <3>1, <3>2, <3>3, AddRow
        <5> QED
          BY <4>1, <5>1, <5>2, <5>3
    <3>5. /\ profile'[a].verified_successes
                = profile[a].verified_successes + (IF a = b /\ s THEN 1 ELSE 0)
          /\ profile'[a].failure_count
                = profile[a].failure_count + (IF a = b /\ ~ s THEN 1 ELSE 0)
          /\ profile'[a].compensation_count
                = profile[a].compensation_count + (IF a = b /\ c THEN 1 ELSE 0)
      <4>1. CASE a # b
        BY <1>3, <3>0, <4>1 DEF NewEvidence, TypeOK, Profiles
      <4>2. CASE a = b /\ s
        <5>1. profile'[a] = AfterSuccess(profile[a])
          BY <1>3, <4>2 DEF NewEvidence, TypeOK
        <5> QED
          BY <1>3, <3>0, <4>2, <5>1 DEF AfterSuccess, Profiles
      <4>3. CASE a = b /\ ~ s
        <5>1. profile'[a] = AfterFailure(profile[a], c)
          BY <1>3, <4>3 DEF NewEvidence, TypeOK
        <5> QED
          BY <3>0, <4>3, <5>1 DEF AfterFailure, Profiles
      <4> QED
        BY <4>1, <4>2, <4>3
    <3> QED
      BY <3>4, <3>5
  <2> QED
    BY <2>3, <2>4 DEF CountersMatchEvidence
<1>4. CASE UNCHANGED autonomyVars
  BY <1>4 DEF autonomyVars, FiniteEvidence, CountersMatchEvidence, EvidenceOf,
              CompensationsOf
<1> QED
  BY <1>1, <1>2, <1>3, <1>4, StepCases

(* The totals of every profile are exactly its evidence rows.               *)
THEOREM CountersAreEvidence == Spec => []CountersMatchEvidence
<1>1. Init => FiniteEvidence /\ CountersMatchEvidence
  BY FS_EmptySet, FS_CardinalityType DEF Init, FiniteEvidence, CountersMatchEvidence,
     EvidenceOf, CompensationsOf, BootstrapProfile
<1> QED
  BY <1>1, CountersStep, TypeCorrect, PTL DEF Spec

----------------------------------------------------------------------------
(* Versions only grow, and every change of a control makes its version grow, *)
(* so that the control version of a decision identifies its permission.     *)
THEOREM VersionIdentifiesPermission == Spec => ControlVersionFingerprint
<1> DEFINE Fingerprint ==
      \A a \in Actions :
        /\ ContextVersion(a)'[1] >= ContextVersion(a)[1]
        /\ ContextVersion(a)'[2] >= ContextVersion(a)[2]
        /\ ExecutionPermitted(a)' # ExecutionPermitted(a) =>
             ContextVersion(a)' # ContextVersion(a)
<1>1. ASSUME TypeOK, Next PROVE Fingerprint \/ UNCHANGED autonomyVars
  <2> SUFFICES ASSUME NEW a \in Actions, ~ UNCHANGED autonomyVars
               PROVE  /\ killSwitch'.version >= killSwitch.version
                      /\ profile'[a].version >= profile[a].version
                      /\ \/ killSwitch'.version # killSwitch.version
                         \/ profile'[a].version # profile[a].version
                         \/ /\ killSwitch'.active = killSwitch.active
                            /\ profile'[a].level = profile[a].level
    BY Zenon DEF ContextVersion, ExecutionPermitted
  <2>0. /\ profile[a] \in Profiles /\ profile[a].version \in Nat
        /\ killSwitch.version \in Nat
    BY <1>1 DEF TypeOK, Profiles
  <2>1. ASSUME NEW active \in BOOLEAN, SetKillSwitch(active)
        PROVE  /\ killSwitch'.version = killSwitch.version + 1
               /\ profile' = profile
    BY <2>1 DEF SetKillSwitch
  <2>2. ASSUME NEW b \in Actions, NEW level \in Levels, SetProfile(b, level)
        PROVE  /\ killSwitch' = killSwitch
               /\ profile'[a] = profile[a] \/ profile'[a].version = profile[a].version + 1
    BY <1>1, <2>0, <2>2 DEF SetProfile, TypeOK, Profiles
  <2>3. ASSUME NEW id \in EvidenceIds, NEW s \in BOOLEAN, NEW c \in BOOLEAN,
               NewEvidence(id, s, c)
        PROVE  /\ killSwitch' = killSwitch
               /\ profile'[a] = profile[a] \/ profile'[a].version = profile[a].version + 1
    <3>1. \/ profile'[a] = profile[a]
          \/ profile'[a] = AfterSuccess(profile[a])
          \/ profile'[a] = AfterFailure(profile[a], c)
      BY <1>1, <2>3 DEF NewEvidence, TypeOK
    <3> QED
      BY <2>0, <2>3, <3>1 DEF NewEvidence, AfterSuccess, AfterFailure, Profiles
  <2> QED
    BY <1>1, <2>0, <2>1, <2>2, <2>3, StepCases
<1>2. ASSUME TypeOK, Next PROVE [Fingerprint]_autonomyVars
  BY <1>1, <1>2
<1> QED
  BY <1>2, TypeCorrect, PTL DEF Spec, ControlVersionFingerprint
=============================================================================
