----------------------- MODULE AutonomyTransactions -----------------------
(***************************************************************************)
(* The transactions of promiseguard/autonomy.py statement by statement, as *)
(* concurrent request threads run them: _record_evidence looks for its     *)
(* evidence row, then selects the profile row FOR UPDATE, then writes and  *)
(* commits; set_profile and set_kill_switch select FOR UPDATE, then write  *)
(* and commit.  Rows are locked as PostgreSQL locks them.                  *)
(***************************************************************************)
EXTENDS Naturals, FiniteSets

CONSTANTS Actions, Decisions, ActionOf, PromotionThreshold,
          MaxSwitchVersion, MaxProfileVersion,
          Callers,     \* request threads
          MaxCalls,    \* bound: calls started in a behaviour
          NoCaller     \* the holder of a row nobody has locked

ASSUME ActionOfAssumption == ActionOf \in [Decisions -> Actions]
ASSUME CallerAssumption == NoCaller \notin Callers
(* No more calls are made than the bounds of AutonomyControls leave room    *)
(* for: every call writes a row at most once.                               *)
ASSUME RoomAssumption ==
  /\ MaxCalls \in Nat /\ MaxSwitchVersion \in Nat /\ MaxProfileVersion \in Nat
  /\ MaxCalls < MaxSwitchVersion /\ MaxCalls < MaxProfileVersion

VARIABLES
  killSwitch, profile, evidence,   \* the committed rows
  pc,         \* next statement of each thread
  call,       \* the call each thread is in, with its arguments
  existing,   \* local of _record_evidence: the evidence row was found
  seen,       \* the row as the thread's SELECT returned it
  lock,       \* holder of every row lock
  calls       \* calls started so far

controlRows == <<killSwitch, profile, evidence>>
vars == <<killSwitch, profile, evidence, pc, call, existing, seen, lock, calls>>

Controls == INSTANCE AutonomyControls

SwitchRow == "global_action_kill_switch"
Rows == Actions \cup {SwitchRow}

ASSUME RowsAssumption == SwitchRow \notin Actions   \* tables of their own

EvidenceCalls ==
  {c \in [op : {"record_evidence"}, id : Controls!EvidenceIds,
          successful : BOOLEAN, compensated : BOOLEAN] :
     /\ c.successful => c.id.kind = "outcome"
     /\ c.compensated => c.id.kind = "execution"}
ProfileCalls ==
  [op : {"set_profile"}, action : Actions,
   level : {"BOUNDED_AUTONOMY", "APPROVAL_REQUIRED"}]
SwitchCalls == [op : {"set_kill_switch"}, active : BOOLEAN]
NoCall == [op |-> "none"]
NoRow == [version |-> 0]

RowOf(c) == CASE call[c].op = "record_evidence" -> ActionOf[call[c].id.decision]
              [] call[c].op = "set_profile"     -> call[c].action
              [] call[c].op = "set_kill_switch" -> SwitchRow

Committed(row) == IF row = SwitchRow THEN killSwitch ELSE profile[row]

Init ==
  /\ Controls!Init
  /\ pc = [c \in Callers |-> "idle"]
  /\ call = [c \in Callers |-> NoCall]
  /\ existing = [c \in Callers |-> FALSE]
  /\ seen = [c \in Callers |-> NoRow]
  /\ lock = [row \in Rows |-> NoCaller]
  /\ calls = 0

Begin(c, request) ==
  /\ pc[c] = "idle"
  /\ calls < MaxCalls
  /\ calls' = calls + 1
  /\ call' = [call EXCEPT ![c] = request]
  /\ pc' = [pc EXCEPT ![c] =
              IF request.op = "record_evidence" THEN "get_evidence" ELSE "select"]
  /\ UNCHANGED <<controlRows, existing, seen, lock>>

GetEvidence(c) ==
  /\ pc[c] = "get_evidence"
  /\ existing' = [existing EXCEPT ![c] = Controls!Recorded(call[c].id)]
  /\ pc' = [pc EXCEPT ![c] = "select"]
  /\ UNCHANGED <<controlRows, call, seen, lock, calls>>

(* Mutant: a plain SELECT where the code says FOR UPDATE.                   *)
AlwaysFree(row) == TRUE

FreeFor(row) == lock[row] = NoCaller

SelectForUpdate(c) ==
  /\ pc[c] = "select"
  /\ FreeFor(RowOf(c))
  /\ lock' = [lock EXCEPT ![RowOf(c)] = c]
  /\ seen' = [seen EXCEPT ![c] = Committed(RowOf(c))]
  /\ pc' = [pc EXCEPT ![c] = "write"]
  /\ UNCHANGED <<controlRows, call, existing, calls>>

(* The ORM writes the columns whose value differs from the one it loaded.   *)
Flushed(row, loaded, new) ==
  [column \in DOMAIN row |->
     IF new[column] # loaded[column] THEN new[column] ELSE row[column]]

(* Mutants: a transaction ends without letting go of its lock; the caller   *)
(* keeps its arguments.                                                     *)
ReleaseKeepingLock(c) ==
  /\ pc' = [pc EXCEPT ![c] = "idle"]
  /\ call' = [call EXCEPT ![c] = NoCall]
  /\ existing' = [existing EXCEPT ![c] = FALSE]
  /\ seen' = [seen EXCEPT ![c] = NoRow]
  /\ UNCHANGED <<lock, calls>>

ReleaseKeepingCall(c) ==
  /\ pc' = [pc EXCEPT ![c] = "idle"]
  /\ existing' = [existing EXCEPT ![c] = FALSE]
  /\ seen' = [seen EXCEPT ![c] = NoRow]
  /\ lock' = [row \in Rows |-> IF lock[row] = c THEN NoCaller ELSE lock[row]]
  /\ UNCHANGED <<call, calls>>

(* The end of every transaction: row locks and locals of the thread go.     *)
Release(c) ==
  /\ pc' = [pc EXCEPT ![c] = "idle"]
  /\ call' = [call EXCEPT ![c] = NoCall]
  /\ existing' = [existing EXCEPT ![c] = FALSE]
  /\ seen' = [seen EXCEPT ![c] = NoRow]
  /\ lock' = [row \in Rows |-> IF lock[row] = c THEN NoCaller ELSE lock[row]]
  /\ UNCHANGED calls

(* The evidence was not there when this thread looked and is not there now. *)
MayInsert(c) == ~ existing[c] /\ ~ Controls!Recorded(call[c].id)

WriteEvidence(c) ==
  /\ pc[c] = "write"
  /\ call[c].op = "record_evidence"
  /\ MayInsert(c)
  /\ LET a   == RowOf(c)
         new == IF call[c].successful
                THEN Controls!AfterSuccess(seen[c])
                ELSE Controls!AfterFailure(seen[c], call[c].compensated)
     IN  profile' = [profile EXCEPT ![a] = Flushed(@, seen[c], new)]
  /\ evidence' = evidence \cup
       {Controls!EvidenceRow(call[c].id, call[c].successful, call[c].compensated)}
  /\ UNCHANGED killSwitch
  /\ Release(c)

(* The row found earlier makes the call a no-op; a row inserted since fails *)
(* the primary key and rolls the transaction back.                          *)
SkipEvidence(c) ==
  /\ pc[c] = "write"
  /\ call[c].op = "record_evidence"
  /\ existing[c] \/ Controls!Recorded(call[c].id)
  /\ UNCHANGED controlRows
  /\ Release(c)

MaySet(c) == Controls!MaySetLevel(seen[c], call[c].level)

WriteProfile(c) ==
  /\ pc[c] = "write"
  /\ call[c].op = "set_profile"
  /\ MaySet(c)
  /\ LET new == [seen[c] EXCEPT !.level = call[c].level, !.version = @ + 1]
     IN  profile' = [profile EXCEPT ![call[c].action] = Flushed(@, seen[c], new)]
  /\ UNCHANGED <<killSwitch, evidence>>
  /\ Release(c)

RefuseProfile(c) ==
  /\ pc[c] = "write"
  /\ call[c].op = "set_profile"
  /\ ~ MaySet(c)
  /\ UNCHANGED controlRows
  /\ Release(c)

WriteKillSwitch(c) ==
  /\ pc[c] = "write"
  /\ call[c].op = "set_kill_switch"
  /\ LET new == [active |-> call[c].active, version |-> seen[c].version + 1]
     IN  killSwitch' = Flushed(killSwitch, seen[c], new)
  /\ UNCHANGED <<profile, evidence>>
  /\ Release(c)

(* The connection or the process goes away: the database rolls back.        *)
RollBack(c) ==
  /\ pc[c] # "idle"
  /\ UNCHANGED controlRows
  /\ Release(c)

Step(c) == \/ GetEvidence(c)
           \/ SelectForUpdate(c)
           \/ WriteEvidence(c)
           \/ SkipEvidence(c)
           \/ WriteProfile(c)
           \/ RefuseProfile(c)
           \/ WriteKillSwitch(c)

Next == \E c \in Callers :
          \/ \E request \in EvidenceCalls \cup ProfileCalls \cup SwitchCalls :
               Begin(c, request)
          \/ Step(c)
          \/ RollBack(c)

(* Every thread keeps running and the database grants a lock it keeps       *)
(* waiting for (a queue per row in PostgreSQL), hence strong fairness of    *)
(* the SELECT.                                                              *)
Fairness == \A c \in Callers : WF_vars(Step(c)) /\ SF_vars(SelectForUpdate(c))

Spec == Init /\ [][Next]_vars /\ Fairness

----------------------------------------------------------------------------

TypeOK ==
  /\ Controls!TypeOK
  /\ pc \in [Callers -> {"idle", "get_evidence", "select", "write"}]
  /\ \A c \in Callers :
       /\ call[c] \in EvidenceCalls \cup ProfileCalls \cup SwitchCalls \cup {NoCall}
       /\ call[c] = NoCall <=> pc[c] = "idle"
  /\ existing \in [Callers -> BOOLEAN]
  /\ lock \in [Rows -> Callers \cup {NoCaller}]

(* With row locks the threads' statements have the effect of the atomic     *)
(* operations of AutonomyControls, although the evidence row is read before *)
(* the profile row is locked.                                               *)
AtomicControls == Controls!Spec

(* A call that a thread started returns: no thread waits for ever for a row *)
(* lock.                                                                    *)
CallsReturn == \A c \in Callers : pc[c] # "idle" ~> pc[c] = "idle"
=============================================================================
