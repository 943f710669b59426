---------------------- MODULE AutonomyTransactionsProofs ----------------------
(* Theorems about AutonomyTransactions, for every number of threads, actions *)
(* and decisions and every promotion threshold.                              *)
EXTENDS AutonomyTransactions, FiniteSetTheorems, TLAPS

USE ActionOfAssumption, CallerAssumption, RoomAssumption, RowsAssumption

----------------------------------------------------------------------------
(* Rows and calls                                                           *)

Requests == EvidenceCalls \cup ProfileCalls \cup SwitchCalls
Switches == [active : BOOLEAN, version : Nat]

Typed ==
  /\ Controls!TypeOK
  /\ pc \in [Callers -> {"idle", "get_evidence", "select", "write"}]
  /\ call \in [Callers -> Requests \cup {NoCall}]
  /\ \A c \in Callers : call[c] = NoCall <=> pc[c] = "idle"
  /\ existing \in [Callers -> BOOLEAN]
  /\ DOMAIN seen = Callers
  /\ lock \in [Rows -> Callers \cup {NoCaller}]

(* A thread that is about to write holds the lock of its row, and has seen  *)
(* the row as it is now.                                                    *)
LockInv ==
  \A c \in Callers : pc[c] = "write" =>
    lock[RowOf(c)] = c /\ seen[c] = Committed(RowOf(c))

(* Every version counts a call that has ended, so that the bounds of the    *)
(* abstract specification are never met.                                    *)
InCall == {c \in Callers : pc[c] # "idle"}

VersionInv ==
  /\ calls \in Nat /\ calls <= MaxCalls
  /\ IsFiniteSet(InCall)
  /\ killSwitch.version + Cardinality(InCall) <= calls + 1
  /\ \A a \in Actions : profile[a].version + Cardinality(InCall) <= calls + 1

Inv == Typed /\ LockInv /\ VersionInv

(* The row of a call, by what it asks for.                                  *)
LEMMA RowOfCall ==
  ASSUME Typed, NEW c \in Callers, pc[c] # "idle"
  PROVE  /\ RowOf(c) \in Rows /\ call[c] \in Requests
         /\ call[c].op = "record_evidence" =>
              /\ call[c] \in EvidenceCalls /\ call[c].id.decision \in Decisions
              /\ RowOf(c) = ActionOf[call[c].id.decision] /\ RowOf(c) \in Actions
         /\ call[c].op = "set_profile" =>
              call[c] \in ProfileCalls /\ RowOf(c) = call[c].action /\ RowOf(c) \in Actions
         /\ call[c].op = "set_kill_switch" =>
              call[c] \in SwitchCalls /\ RowOf(c) = SwitchRow
<1>1. call[c] \in Requests
  BY DEF Typed
<1>2. CASE call[c] \in EvidenceCalls
  <2>1. call[c].op = "record_evidence" /\ call[c].id.decision \in Decisions
    BY <1>2 DEF EvidenceCalls, Controls!EvidenceIds
  <2>2. RowOf(c) = ActionOf[call[c].id.decision]
    BY <2>1 DEF RowOf
  <2> QED
    BY <1>1, <1>2, <2>1, <2>2 DEF Rows
<1>3. CASE call[c] \in ProfileCalls
  <2>1. call[c].op = "set_profile" /\ call[c].action \in Actions
    BY <1>3 DEF ProfileCalls
  <2>2. RowOf(c) = call[c].action
    BY <2>1 DEF RowOf
  <2> QED
    BY <1>1, <1>3, <2>1, <2>2 DEF Rows
<1>4. CASE call[c] \in SwitchCalls
  <2>1. call[c].op = "set_kill_switch"
    BY <1>4 DEF SwitchCalls
  <2>2. RowOf(c) = SwitchRow
    BY <2>1 DEF RowOf
  <2> QED
    BY <1>1, <1>4, <2>1, <2>2 DEF Rows
<1> QED
  BY <1>1, <1>2, <1>3, <1>4 DEF Requests

(* A row that nobody else has written since it was loaded becomes the new   *)
(* row, whatever columns differ.                                            *)
LEMMA FlushedIsNew ==
  ASSUME NEW row, NEW new, new = [column \in DOMAIN row |-> new[column]]
  PROVE  Flushed(row, row, new) = new
BY DEF Flushed

LEMMA EvidenceOnRow ==
  ASSUME NEW row \in Controls!Profiles, NEW compensated \in BOOLEAN
  PROVE  /\ Controls!AfterSuccess(row) \in Controls!Profiles
         /\ Controls!AfterFailure(row, compensated) \in Controls!Profiles
         /\ Controls!AfterSuccess(row).version = row.version + 1
         /\ Controls!AfterFailure(row, compensated).version = row.version + 1
<1>1. /\ row.level \in Controls!Levels
      /\ row.verified_successes \in Nat /\ row.consecutive_verified_successes \in Nat
      /\ row.compensation_count \in Nat /\ row.failure_count \in Nat
      /\ row.version \in Nat
  BY DEF Controls!Profiles
<1>2. /\ row.verified_successes + 1 \in Nat /\ row.failure_count + 1 \in Nat
      /\ row.consecutive_verified_successes + 1 \in Nat /\ row.version + 1 \in Nat
      /\ (IF compensated THEN row.compensation_count + 1
                         ELSE row.compensation_count) \in Nat
      /\ Controls!LevelAfterFailure(row.level) \in Controls!Levels
  BY <1>1 DEF Controls!LevelAfterFailure, Controls!Levels
<1>3. /\ Controls!AfterSuccess(row) \in Controls!Profiles
      /\ Controls!AfterSuccess(row).version = row.version + 1
  BY <1>1, <1>2 DEF Controls!AfterSuccess, Controls!Profiles
<1>4. /\ Controls!AfterFailure(row, compensated) \in Controls!Profiles
      /\ Controls!AfterFailure(row, compensated).version = row.version + 1
  BY <1>1, <1>2 DEF Controls!AfterFailure, Controls!Profiles
<1> QED
  BY <1>3, <1>4

----------------------------------------------------------------------------
(* What a transaction does to the committed rows                            *)

WritesProfile(a) ==
  /\ UNCHANGED killSwitch
  /\ evidence' \subseteq Controls!EvidenceRows
  /\ \E new \in Controls!Profiles :
       /\ profile' = [profile EXCEPT ![a] = new]
       /\ new.version = profile[a].version + 1

WritesSwitch ==
  /\ UNCHANGED <<profile, evidence>>
  /\ killSwitch' \in Switches
  /\ killSwitch'.version = killSwitch.version + 1

Writes(c) ==
  \/ UNCHANGED controlRows
  \/ RowOf(c) \in Actions /\ WritesProfile(RowOf(c))
  \/ RowOf(c) = SwitchRow /\ WritesSwitch

(* The versions are below the bounds while a call is under way.             *)
LEMMA Room ==
  ASSUME Typed, VersionInv, NEW c \in Callers, pc[c] # "idle"
  PROVE  /\ killSwitch.version < MaxSwitchVersion
         /\ \A a \in Actions : profile[a].version < MaxProfileVersion
<1>1. Cardinality(InCall) \in Nat /\ Cardinality(InCall) # 0
  <2>1. c \in InCall
    BY DEF InCall
  <2> QED
    BY <2>1, FS_CardinalityType, FS_EmptySet DEF VersionInv
<1>2. /\ killSwitch.version \in Nat
      /\ \A a \in Actions : profile[a].version \in Nat
  BY DEF Typed, Controls!TypeOK, Controls!Profiles
<1> QED
  BY <1>1, <1>2 DEF VersionInv

LEMMA EvidenceWrite ==
  ASSUME Inv, NEW c \in Callers, WriteEvidence(c)
  PROVE  RowOf(c) \in Actions /\ WritesProfile(RowOf(c)) /\ Controls!Next
<1>1. /\ call[c] \in EvidenceCalls /\ call[c].id.decision \in Decisions
      /\ RowOf(c) = ActionOf[call[c].id.decision] /\ RowOf(c) \in Actions
  BY RowOfCall DEF Inv, WriteEvidence
<1>2. PICK a \in Actions : a = RowOf(c)
  BY <1>1
<1>3. PICK d \in Decisions : d = call[c].id.decision
  BY <1>1
<1>4. PICK s \in BOOLEAN, k \in BOOLEAN : s = call[c].successful /\ k = call[c].compensated
  BY <1>1 DEF EvidenceCalls
<1>5. \/ call[c].id = [kind |-> "outcome", decision |-> d] /\ ~ k
      \/ call[c].id = [kind |-> "execution", decision |-> d] /\ ~ s
  <2>1. PICK id \in Controls!EvidenceIds : id = call[c].id /\ id.decision = d
    BY <1>1, <1>3 DEF EvidenceCalls
  <2>2. id.kind \in {"outcome", "execution"} /\ id = [kind |-> id.kind, decision |-> d]
    BY <2>1 DEF Controls!EvidenceIds
  <2>3. (s => id.kind = "outcome") /\ (k => id.kind = "execution")
    BY <1>1, <1>4, <2>1 DEF EvidenceCalls
  <2> QED
    BY <2>1, <2>2, <2>3
<1>6. seen[c] = profile[a] /\ profile[a] \in Controls!Profiles
  BY <1>2 DEF Inv, LockInv, WriteEvidence, Committed, Typed, Controls!TypeOK
<1>7. PICK new : new = IF s THEN Controls!AfterSuccess(profile[a])
                            ELSE Controls!AfterFailure(profile[a], k)
  OBVIOUS
<1>8. /\ new \in Controls!Profiles /\ new.version = profile[a].version + 1
      /\ Flushed(profile[a], profile[a], new) = new
  <2>1. new \in Controls!Profiles /\ new.version = profile[a].version + 1
    BY <1>6, <1>7, EvidenceOnRow
  <2>2. new = [column \in DOMAIN profile[a] |-> new[column]]
    BY <1>6, <1>7 DEF Controls!AfterSuccess, Controls!AfterFailure
  <2> QED
    BY <2>1, <2>2, FlushedIsNew
<1>9. profile' = [profile EXCEPT ![a] = new]
  BY <1>2, <1>4, <1>6, <1>7, <1>8 DEF WriteEvidence
<1>10. /\ ~ Controls!Recorded(call[c].id) /\ UNCHANGED killSwitch
       /\ evidence' = evidence \cup {Controls!EvidenceRow(call[c].id, s, k)}
  BY <1>4 DEF WriteEvidence, MayInsert
<1>11. evidence' \subseteq Controls!EvidenceRows
  <2>1. Controls!EvidenceRow(call[c].id, s, k) \in Controls!EvidenceRows
    BY <1>1 DEF EvidenceCalls, Controls!EvidenceRow, Controls!EvidenceRows
  <2> QED
    BY <1>10, <2>1 DEF Inv, Typed, Controls!TypeOK
<1>12. Controls!RecordEvidence(call[c].id, s, k)
  BY <1>1, <1>2, <1>7, <1>9, <1>10 DEF Controls!RecordEvidence
<1>13. Controls!Next
  <2>1. CASE call[c].id = [kind |-> "outcome", decision |-> d] /\ ~ k
    <3>1. PICK status \in {"VERIFIED", "FAILED"} : s <=> status = "VERIFIED"
      OBVIOUS
    <3>2. s = (status = "VERIFIED") /\ k = FALSE
      BY <2>1, <3>1
    <3>3. Controls!RecordOutcome(d, status)
      BY <1>12, <2>1, <3>2 DEF Controls!RecordOutcome
    <3> QED
      BY <3>3 DEF Controls!Next, Controls!VerificationStatuses
  <2>2. CASE call[c].id = [kind |-> "execution", decision |-> d] /\ ~ s
    <3>1. PICK status \in {"COMPENSATED", "FAILED"} : k <=> status = "COMPENSATED"
      OBVIOUS
    <3>2. k = (status = "COMPENSATED") /\ s = FALSE
      BY <2>2, <3>1
    <3>3. Controls!RecordExecution(d, status)
      BY <1>12, <2>2, <3>2 DEF Controls!RecordExecution
    <3> QED
      BY <3>3 DEF Controls!Next, Controls!ExecutionStatuses
  <2> QED
    BY <1>5, <2>1, <2>2
<1> QED
  BY <1>2, <1>8, <1>9, <1>10, <1>11, <1>13 DEF WritesProfile

LEMMA ProfileWrite ==
  ASSUME Inv, NEW c \in Callers, WriteProfile(c)
  PROVE  RowOf(c) \in Actions /\ WritesProfile(RowOf(c)) /\ Controls!Next
<1>1. call[c] \in ProfileCalls /\ RowOf(c) = call[c].action /\ RowOf(c) \in Actions
  BY RowOfCall DEF Inv, WriteProfile
<1>2. PICK a \in Actions, level \in Controls!Levels :
        a = RowOf(c) /\ a = call[c].action /\ level = call[c].level
  BY <1>1 DEF ProfileCalls, Controls!Levels
<1>3. seen[c] = profile[a] /\ profile[a] \in Controls!Profiles
      /\ profile[a].version \in Nat
  <2>1. seen[c] = Committed(a) /\ a # SwitchRow
    BY <1>2 DEF Inv, LockInv, WriteProfile
  <2>2. profile[a] \in Controls!Profiles
    BY DEF Inv, Typed, Controls!TypeOK
  <2> QED
    BY <2>1, <2>2 DEF Committed, Controls!Profiles
<1>4. PICK new : new = [profile[a] EXCEPT !.level = level, !.version = @ + 1]
  OBVIOUS
<1>5. /\ new \in Controls!Profiles /\ new.version = profile[a].version + 1
      /\ Flushed(profile[a], profile[a], new) = new
  <2>1. new \in Controls!Profiles /\ new.version = profile[a].version + 1
    <3>1. profile[a].version + 1 \in Nat
      BY <1>3
    <3> QED
      BY <1>3, <1>4, <3>1 DEF Controls!Profiles
  <2>2. new = [column \in DOMAIN profile[a] |-> new[column]]
    BY <1>3, <1>4
  <2> QED
    BY <2>1, <2>2, FlushedIsNew
<1>6. profile' = [profile EXCEPT ![a] = new]
  BY <1>2, <1>3, <1>4, <1>5 DEF WriteProfile
<1>7. UNCHANGED <<killSwitch, evidence>> /\ Controls!MaySetLevel(profile[a], level)
  BY <1>2, <1>3 DEF WriteProfile, MaySet
<1>8. evidence' \subseteq Controls!EvidenceRows
  BY <1>7 DEF Inv, Typed, Controls!TypeOK
<1>9. profile[a].version < MaxProfileVersion
  BY Room DEF Inv, WriteProfile
<1>10. profile' = [profile EXCEPT ![a].level = level, ![a].version = @ + 1]
  BY <1>3, <1>4, <1>6 DEF Inv, Typed, Controls!TypeOK
<1>11. Controls!SetProfile(a, level)
  BY <1>7, <1>9, <1>10 DEF Controls!SetProfile
<1> QED
  BY <1>2, <1>5, <1>6, <1>7, <1>8, <1>11 DEF WritesProfile, Controls!Next

LEMMA SwitchWrite ==
  ASSUME Inv, NEW c \in Callers, WriteKillSwitch(c)
  PROVE  RowOf(c) = SwitchRow /\ WritesSwitch /\ Controls!Next
<1>1. call[c] \in SwitchCalls /\ RowOf(c) = SwitchRow
  BY RowOfCall DEF Inv, WriteKillSwitch
<1>2. PICK active \in BOOLEAN : active = call[c].active
  BY <1>1 DEF SwitchCalls
<1>3. seen[c] = killSwitch /\ killSwitch \in Switches
  BY <1>1 DEF Inv, LockInv, WriteKillSwitch, Committed, Typed, Controls!TypeOK, Switches
<1>4. PICK new : new = [active |-> active, version |-> killSwitch.version + 1]
  OBVIOUS
<1>5. new \in Switches /\ new.version = killSwitch.version + 1
  BY <1>3, <1>4 DEF Switches
<1>6. Flushed(killSwitch, killSwitch, new) = new
  <2>1. new = [column \in DOMAIN killSwitch |-> new[column]]
    BY <1>3, <1>4 DEF Switches
  <2> QED
    BY <2>1, FlushedIsNew
<1>7. killSwitch' = new /\ UNCHANGED <<profile, evidence>>
  BY <1>2, <1>3, <1>4, <1>6 DEF WriteKillSwitch
<1>8. killSwitch.version < MaxSwitchVersion
  BY Room DEF Inv, WriteKillSwitch
<1>9. Controls!SetKillSwitch(active)
  BY <1>4, <1>7, <1>8 DEF Controls!SetKillSwitch
<1> QED
  BY <1>1, <1>5, <1>7, <1>9 DEF WritesSwitch, Controls!Next

----------------------------------------------------------------------------
(* The invariant                                                            *)

LEMMA InvInit == Init => Inv
<1> SUFFICES ASSUME Init PROVE Inv
  OBVIOUS
<1>1. Controls!TypeOK
  BY DEF Init, Controls!Init, Controls!TypeOK, Controls!BootstrapProfile, Controls!Profiles,
         Controls!Levels
<1>2. Typed /\ LockInv
  BY <1>1 DEF Init, Typed, LockInv
<1>3. InCall = {}
  BY DEF Init, InCall
<1>4. IsFiniteSet(InCall) /\ Cardinality(InCall) = 0
  BY <1>3, FS_EmptySet
<1>5. killSwitch.version = 1 /\ \A a \in Actions : profile[a].version = 1
  BY DEF Init, Controls!Init, Controls!BootstrapProfile
<1> QED
  BY <1>2, <1>4, <1>5 DEF Inv, VersionInv, Init

(* A thread leaves the transaction: every version has grown by one at most. *)
LEMMA VersionsStay ==
  ASSUME Inv, NEW c \in Callers, pc[c] # "idle", Release(c), Writes(c)
  PROVE  VersionInv' /\ Controls!TypeOK'
<1>1. c \in InCall /\ InCall' = InCall \ {c} /\ calls' = calls
  BY DEF Inv, Typed, InCall, Release
<1>2. /\ IsFiniteSet(InCall) /\ Cardinality(InCall) \in Nat
      /\ IsFiniteSet(InCall') /\ Cardinality(InCall') = Cardinality(InCall) - 1
  BY <1>1, FS_RemoveElement, FS_CardinalityType DEF Inv, VersionInv
<1>3. /\ killSwitch \in Switches /\ profile \in [Actions -> Controls!Profiles]
      /\ evidence \subseteq Controls!EvidenceRows
      /\ killSwitch.version \in Nat /\ \A a \in Actions : profile[a].version \in Nat
  BY DEF Inv, Typed, Controls!TypeOK, Switches, Controls!Profiles
<1>4. /\ killSwitch' \in Switches /\ profile' \in [Actions -> Controls!Profiles]
      /\ evidence' \subseteq Controls!EvidenceRows
      /\ killSwitch'.version \in {killSwitch.version, killSwitch.version + 1}
      /\ \A a \in Actions : profile'[a].version \in {profile[a].version, profile[a].version + 1}
  <2>1. CASE UNCHANGED controlRows
    BY <1>3, <2>1 DEF controlRows
  <2>2. CASE RowOf(c) \in Actions /\ WritesProfile(RowOf(c))
    BY <1>3, <2>2 DEF WritesProfile
  <2>3. CASE WritesSwitch
    BY <1>3, <2>3 DEF WritesSwitch
  <2> QED
    BY <2>1, <2>2, <2>3 DEF Writes
<1>5. /\ calls \in Nat /\ calls <= MaxCalls
      /\ killSwitch.version + Cardinality(InCall) <= calls + 1
      /\ \A a \in Actions : profile[a].version + Cardinality(InCall) <= calls + 1
  BY DEF Inv, VersionInv
<1>6. killSwitch'.version + Cardinality(InCall') <= calls + 1
  BY <1>2, <1>3, <1>4, <1>5
<1>7. \A a \in Actions : profile'[a].version + Cardinality(InCall') <= calls + 1
  BY <1>2, <1>3, <1>4, <1>5
<1>8. VersionInv'
  BY <1>1, <1>2, <1>5, <1>6, <1>7 DEF VersionInv
<1>9. Controls!TypeOK'
  BY <1>4 DEF Controls!TypeOK, Switches
<1> QED
  BY <1>8, <1>9

(* The end of a transaction leaves the locks and the view of the others.    *)
LEMMA ReleaseKeeps ==
  ASSUME Inv, NEW c \in Callers, pc[c] # "idle", Release(c), Writes(c),
         UNCHANGED controlRows \/ pc[c] = "write"
  PROVE  Inv'
<1>1. VersionInv' /\ Controls!TypeOK'
  BY VersionsStay
<1>2. Typed'
  BY <1>1 DEF Inv, Typed, Release
<1>3. ASSUME NEW u \in Callers, pc'[u] = "write"
      PROVE  lock'[RowOf(u)'] = u /\ seen'[u] = Committed(RowOf(u))'
  <2>1. /\ u # c /\ pc[u] = "write" /\ call'[u] = call[u] /\ seen'[u] = seen[u]
        /\ RowOf(u)' = RowOf(u)
    BY <1>3 DEF Inv, Typed, Release, RowOf
  <2>2. PICK row \in Rows : row = RowOf(u) /\ lock[row] = u /\ seen[u] = Committed(row)
    BY <2>1, RowOfCall DEF Inv, LockInv
  <2>3. lock'[row] = u
    BY <2>1, <2>2 DEF Release
  <2>4. UNCHANGED controlRows \/ RowOf(c) # row
    BY <2>1, <2>2 DEF Inv, LockInv
  <2>5. Committed(row)' = Committed(row)
    <3>1. CASE UNCHANGED controlRows
      BY <3>1 DEF controlRows, Committed
    <3>2. CASE RowOf(c) # row /\ RowOf(c) \in Actions /\ WritesProfile(RowOf(c))
      BY <2>2, <3>2 DEF WritesProfile, Committed, Rows, Inv, Typed, Controls!TypeOK
    <3>3. CASE RowOf(c) # row /\ RowOf(c) = SwitchRow /\ WritesSwitch
      BY <3>3 DEF WritesSwitch, Committed
    <3> QED
      BY <2>4, <3>1, <3>2, <3>3 DEF Writes
  <2>6. Committed(RowOf(u))' = Committed(row)'
    BY <2>1, <2>2 DEF Committed
  <2> QED
    BY <2>1, <2>2, <2>3, <2>5, <2>6
<1> QED
  BY <1>1, <1>2, <1>3 DEF Inv, LockInv

(* What no step of another thread changes: the view of a thread that is     *)
(* about to write, as long as its row stays locked and the rows stay.       *)
LEMMA ViewStays ==
  ASSUME Inv, NEW u \in Callers, pc[u] = "write", UNCHANGED controlRows,
         call'[u] = call[u], seen'[u] = seen[u], lock'[RowOf(u)] = lock[RowOf(u)]
  PROVE  lock'[RowOf(u)'] = u /\ seen'[u] = Committed(RowOf(u))'
<1>1. RowOf(u)' = RowOf(u)
  BY DEF RowOf
<1>2. lock[RowOf(u)] = u /\ seen[u] = Committed(RowOf(u))
  BY DEF Inv, LockInv
<1>3. Committed(RowOf(u))' = Committed(RowOf(u))
  BY <1>1 DEF Committed, controlRows
<1> QED
  BY <1>1, <1>2, <1>3

LEMMA BeginKeeps ==
  ASSUME Inv, NEW c \in Callers, NEW request \in Requests, Begin(c, request)
  PROVE  Inv'
<1>0. request # NoCall
  BY DEF Requests, EvidenceCalls, ProfileCalls, SwitchCalls, NoCall
<1>1. Typed'
  BY <1>0 DEF Inv, Typed, Begin, controlRows, Controls!TypeOK
<1>2. InCall' = InCall \cup {c} /\ c \notin InCall
  BY DEF Inv, Typed, InCall, Begin
<1>3. /\ Cardinality(InCall) \in Nat /\ IsFiniteSet(InCall')
      /\ Cardinality(InCall') = Cardinality(InCall) + 1
  BY <1>2, FS_AddElement, FS_CardinalityType DEF Inv, VersionInv
<1>4. VersionInv'
  <2>1. /\ killSwitch.version \in Nat /\ \A a \in Actions : profile[a].version \in Nat
    BY DEF Inv, Typed, Controls!TypeOK, Controls!Profiles
  <2>2. /\ calls \in Nat /\ calls + 1 <= MaxCalls /\ calls' = calls + 1
        /\ killSwitch' = killSwitch /\ profile' = profile
    BY DEF Inv, VersionInv, Begin, controlRows
  <2>3. killSwitch.version + Cardinality(InCall') <= calls' + 1
    BY <1>3, <2>1, <2>2 DEF Inv, VersionInv
  <2>4. \A a \in Actions : profile[a].version + Cardinality(InCall') <= calls' + 1
    BY <1>3, <2>1, <2>2 DEF Inv, VersionInv
  <2> QED
    BY <1>3, <2>2, <2>3, <2>4 DEF VersionInv
<1>5. ASSUME NEW u \in Callers, pc'[u] = "write"
      PROVE  lock'[RowOf(u)'] = u /\ seen'[u] = Committed(RowOf(u))'
  <2>1. u # c /\ pc[u] = "write"
    BY <1>5 DEF Inv, Typed, Begin
  <2>2. /\ call'[u] = call[u] /\ seen'[u] = seen[u] /\ lock' = lock
        /\ UNCHANGED controlRows
    BY <2>1 DEF Inv, Typed, Begin
  <2> QED
    BY <2>1, <2>2, ViewStays
<1> QED
  BY <1>1, <1>4, <1>5 DEF Inv, LockInv

(* A step inside a call, before anything is written.                        *)
LEMMA InsideKeeps ==
  ASSUME Inv, NEW c \in Callers, GetEvidence(c) \/ SelectForUpdate(c)
  PROVE  Inv'
<1>1. /\ pc[c] # "idle" /\ pc'[c] # "idle"
      /\ \A u \in Callers \ {c} : pc'[u] = pc[u] /\ seen'[u] = seen[u]
      /\ UNCHANGED <<controlRows, call, calls>>
  BY DEF Inv, Typed, GetEvidence, SelectForUpdate
<1>2. RowOf(c) \in Rows
  BY <1>1, RowOfCall DEF Inv
<1>3. Typed'
  <2>1. Controls!TypeOK'
    BY <1>1 DEF Inv, Typed, controlRows, Controls!TypeOK
  <2>2. CASE GetEvidence(c)
    BY <2>1, <2>2 DEF Inv, Typed, GetEvidence, Controls!Recorded
  <2>3. CASE SelectForUpdate(c)
    BY <1>2, <2>1, <2>3 DEF Inv, Typed, SelectForUpdate
  <2> QED
    BY <2>2, <2>3
<1>4. VersionInv'
  <2>1. InCall' = InCall
    BY <1>1 DEF InCall
  <2> QED
    BY <1>1, <2>1 DEF Inv, VersionInv, controlRows
<1>5. ASSUME NEW u \in Callers \ {c}, pc'[u] = "write"
      PROVE  lock'[RowOf(u)'] = u /\ seen'[u] = Committed(RowOf(u))'
  <2>1. pc[u] = "write" /\ seen'[u] = seen[u] /\ call'[u] = call[u]
    BY <1>1, <1>5
  <2>2. lock[RowOf(u)] = u
    BY <2>1 DEF Inv, LockInv
  <2>3. lock'[RowOf(u)] = lock[RowOf(u)]
    <3>1. CASE GetEvidence(c)
      BY <3>1 DEF GetEvidence
    <3>2. CASE SelectForUpdate(c)
      <4>1. lock[RowOf(c)] = NoCaller /\ lock' = [lock EXCEPT ![RowOf(c)] = c]
        BY <3>2 DEF SelectForUpdate, FreeFor
      <4>2. RowOf(u) # RowOf(c)
        BY <2>2, <4>1
      <4>3. RowOf(u) \in Rows /\ DOMAIN lock = Rows
        BY <2>1, RowOfCall DEF Inv, Typed
      <4> QED
        BY <4>1, <4>2, <4>3
    <3> QED
      BY <3>1, <3>2
  <2> QED
    BY <1>1, <2>1, <2>3, ViewStays
<1>6. ASSUME pc'[c] = "write" PROVE lock'[RowOf(c)'] = c /\ seen'[c] = Committed(RowOf(c))'
  <2>1. SelectForUpdate(c)
    BY <1>6 DEF Inv, Typed, GetEvidence
  <2>2. lock'[RowOf(c)] = c /\ seen'[c] = Committed(RowOf(c))
    BY <1>2, <2>1 DEF Inv, Typed, SelectForUpdate
  <2>3. RowOf(c)' = RowOf(c)
    BY <1>1 DEF RowOf
  <2>4. Committed(RowOf(c))' = Committed(RowOf(c))
    BY <1>1, <2>3 DEF Committed, controlRows
  <2> QED
    BY <2>2, <2>3, <2>4
<1> QED
  BY <1>3, <1>4, <1>5, <1>6 DEF Inv, LockInv

(* Every step keeps the invariant and is a step of AutonomyControls.        *)
LEMMA TransactionStep ==
  ASSUME Inv, [Next]_vars PROVE Inv' /\ [Controls!Next]_controlRows
<1>1. CASE UNCHANGED vars
  <2>1. UNCHANGED controlRows
    BY <1>1 DEF vars, controlRows
  <2>2. Typed' /\ VersionInv'
    BY <1>1 DEF vars, Inv, Typed, VersionInv, InCall, Controls!TypeOK
  <2>3. LockInv'
    BY <1>1, <2>1, ViewStays DEF vars, LockInv
  <2> QED
    BY <2>1, <2>2, <2>3 DEF Inv
<1>2. ASSUME NEW c \in Callers, NEW request \in Requests, Begin(c, request)
      PROVE  Inv' /\ [Controls!Next]_controlRows
  BY <1>2, BeginKeeps DEF Begin
<1>3. ASSUME NEW c \in Callers, GetEvidence(c) \/ SelectForUpdate(c)
      PROVE  Inv' /\ [Controls!Next]_controlRows
  BY <1>3, InsideKeeps DEF GetEvidence, SelectForUpdate
<1>4. ASSUME NEW c \in Callers, SkipEvidence(c) \/ RefuseProfile(c) \/ RollBack(c)
      PROVE  Inv' /\ [Controls!Next]_controlRows
  <2>1. pc[c] # "idle" /\ Release(c) /\ UNCHANGED controlRows
    BY <1>4 DEF SkipEvidence, RefuseProfile, RollBack
  <2> QED
    BY <2>1, ReleaseKeeps DEF Writes
<1>5. ASSUME NEW c \in Callers, WriteEvidence(c) PROVE Inv' /\ Controls!Next
  BY <1>5, EvidenceWrite, ReleaseKeeps DEF Writes, WriteEvidence
<1>6. ASSUME NEW c \in Callers, WriteProfile(c) PROVE Inv' /\ Controls!Next
  BY <1>6, ProfileWrite, ReleaseKeeps DEF Writes, WriteProfile
<1>7. ASSUME NEW c \in Callers, WriteKillSwitch(c) PROVE Inv' /\ Controls!Next
  BY <1>7, SwitchWrite, ReleaseKeeps DEF Writes, WriteKillSwitch
<1> QED
  BY <1>1, <1>2, <1>3, <1>4, <1>5, <1>6, <1>7 DEF Next, Step, Requests

LEMMA TransactionInvariant == Spec => []Inv
<1>1. Inv /\ [Next]_vars => Inv'
  BY TransactionStep
<1> QED
  BY <1>1, InvInit, PTL DEF Spec

----------------------------------------------------------------------------
(* The theorems                                                             *)

THEOREM TransactionsTypeCorrect == Spec => []TypeOK
<1>1. Inv => TypeOK
  BY DEF Inv, Typed, TypeOK, Requests
<1> QED
  BY <1>1, TransactionInvariant, PTL

(* With row locks the threads' statements have the effect of the atomic     *)
(* operations: no write is lost, no evidence is counted twice, and every    *)
(* permission is decided on the row it is written to, whatever the order    *)
(* in which threads read, wait, write, fail and roll back.                  *)
THEOREM LockedRowsAreAtomic == Spec => AtomicControls
<1>1. Init => Controls!Init
  BY DEF Init
<1>2. Inv /\ [Next]_vars => [Controls!Next]_(Controls!autonomyVars)
  BY TransactionStep DEF controlRows, Controls!autonomyVars
<1> QED
  BY <1>1, <1>2, TransactionInvariant, PTL DEF Spec, AtomicControls, Controls!Spec
=============================================================================
