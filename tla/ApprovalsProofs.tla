-------------------------- MODULE ApprovalsProofs --------------------------
(* Theorems about Approvals, for every number of threads, decisions and      *)
(* actors, every assignment of roles and every time to live.                 *)
EXTENDS Approvals, TLAPS

USE RolesAssumption, TimeAssumption, NobodyAssumption

(* What a thread has read may be old, but not wrong: a decision is dated in  *)
(* the past, and a row that was found pending has been requested, by         *)
(* somebody else, whatever has become of it since.                           *)
ReadOK(t) ==
  /\ pc[t] \in {"read", "update_if_pending"} => call[t].decided_at <= now
  /\ pc[t] = "update_if_pending" =>
       /\ approval[call[t].decision].status # "NONE"
       /\ call[t].actor # approval[call[t].decision].requested_by

PendingUndecided ==
  \A d \in Decisions :
    approval[d].status = "PENDING" => approval[d].decided_by = Nobody

IInv == TypeOK /\ (\A t \in Threads : ReadOK(t)) /\ PendingUndecided

(* The three things that happen to the table.                                *)
Requested(c) ==
  /\ approval[c.decision] = NoApproval
  /\ approval' = [approval EXCEPT ![c.decision] = PendingApproval(c)]
  /\ reported' = reported

Expired(d) ==
  /\ approval[d].status = "PENDING"
  /\ approval[d].expires_at < now
  /\ approval' = [approval EXCEPT ![d].status = "EXPIRED"]
  /\ reported' = reported

DecidedBy(c) ==
  LET d == c.decision IN
  /\ approval[d].status = "PENDING"
  /\ c.actor # approval[d].requested_by
  /\ c.decided_at <= approval[d].expires_at
  /\ approval' = [approval EXCEPT ![d] = Decided(@, c)]
  /\ reported' = reported \cup
       {[decision |-> d, actor |-> c.actor, status |-> c.target]}

TableStep ==
  \/ approval' = approval /\ reported' = reported
  \/ \E c \in RequestCalls : Requested(c)
  \/ \E d \in Decisions : Expired(d)
  \/ \E c \in DecideCalls : DecidedBy(c)

(* Every step of the program is one of them or leaves the table alone.       *)
LEMMA StepsOfTheTable ==
  TypeOK /\ (\A t \in Threads : ReadOK(t)) /\ [Next]_vars => TableStep
<1> SUFFICES ASSUME TypeOK, \A t \in Threads : ReadOK(t), [Next]_vars
             PROVE  TableStep
  OBVIOUS
<1>1. ASSUME NEW t \in Threads, Create(t) PROVE TableStep
  <2>1. call[t] \in RequestCalls
    BY <1>1 DEF Create, TypeOK, CallTyped
  <2> QED
    BY <1>1, <2>1 DEF Create, Creatable, TableStep, Requested
<1>2. ASSUME NEW t \in Threads, UpdateIfPending(t) PROVE TableStep
  <2>1. /\ call[t] \in DecideCalls
        /\ call[t].decision \in Decisions
        /\ call[t].decided_at \in Nat
        /\ call[t].decided_at <= now
        /\ now \in Nat
        /\ call[t].actor # approval[call[t].decision].requested_by
    BY <1>2 DEF UpdateIfPending, TypeOK, CallTyped, ReadOK, DecideCalls
  <2>2. approval[call[t].decision].expires_at \in Nat
    BY <2>1 DEF TypeOK, Approvals
  <2>3. CASE StillPending(call[t].decision) /\ TooLate(call[t])
             /\ approval' = [approval EXCEPT ![call[t].decision].status = "EXPIRED"]
             /\ reported' = reported
    <3>1. Expired(call[t].decision)
      BY <2>1, <2>2, <2>3 DEF Expired, StillPending, TooLate
    <3> QED
      BY <2>1, <3>1 DEF TableStep
  <2>4. CASE StillPending(call[t].decision) /\ ~ TooLate(call[t])
             /\ approval' = [approval EXCEPT ![call[t].decision] = Decided(@, call[t])]
             /\ reported' = reported \cup
                  {[decision |-> call[t].decision, actor |-> call[t].actor,
                    status |-> call[t].target]}
    <3>1. DecidedBy(call[t])
      BY <2>1, <2>2, <2>4 DEF DecidedBy, StillPending, TooLate
    <3> QED
      BY <2>1, <3>1 DEF TableStep
  <2> QED
    BY <1>2, <2>3, <2>4 DEF UpdateIfPending, TableStep
<1>3. CASE approval' = approval /\ reported' = reported
  BY <1>3 DEF TableStep
<1> QED
  BY <1>1, <1>2, <1>3
     DEF Next, vars, Tick, CallRequest, CallDecide, Get, Read

----------------------------------------------------------------------------
(* The invariant                                                             *)

LEMMA InvariantInit == Init => IInv
  BY DEF Init, IInv, TypeOK, Steps, Calls, CallTyped, ReadOK, PendingUndecided,
         NoApproval, Approvals, NoCall

(* A pending approval, an expired row and a decided row are approvals.       *)
LEMMA RowTypes ==
  ASSUME TypeOK, NEW d \in Decisions
  PROVE  /\ \A c \in RequestCalls : PendingApproval(c) \in Approvals
         /\ [approval[d] EXCEPT !.status = "EXPIRED"] \in Approvals
         /\ \A c \in DecideCalls : Decided(approval[d], c) \in Approvals
<1>1. approval[d] \in Approvals
  BY DEF TypeOK
<1>2. \A c \in RequestCalls : c.actor \in Actors /\ c.requested_at + Ttl \in Nat
  BY DEF RequestCalls
<1>3. ASSUME NEW c \in DecideCalls PROVE Decided(approval[d], c) \in Approvals
  BY <1>1, <1>3 DEF Decided, Approvals, FinalStatuses, DecideCalls
<1> QED
  BY <1>1, <1>2, <1>3 DEF PendingApproval, Approvals, FinalStatuses

(* The table has its type after every step, is never emptied and keeps its   *)
(* requesters, and a pending row has not been decided.                       *)
LEMMA TableType ==
  ASSUME TypeOK, PendingUndecided, TableStep
  PROVE  /\ approval' \in [Decisions -> Approvals]
         /\ reported' \subseteq [decision : Decisions, actor : Actors,
                                 status : {"APPROVED", "REJECTED"}]
         /\ PendingUndecided'
         /\ \A d \in Decisions :
              approval[d].status # "NONE" =>
                /\ approval'[d].status # "NONE"
                /\ approval'[d].requested_by = approval[d].requested_by
<1> USE DEF PendingUndecided
<1>1. /\ approval \in [Decisions -> Approvals]
      /\ reported \subseteq [decision : Decisions, actor : Actors,
                             status : {"APPROVED", "REJECTED"}]
  BY DEF TypeOK
<1>2. CASE approval' = approval /\ reported' = reported
  BY <1>1, <1>2
<1>3. ASSUME NEW c \in RequestCalls, Requested(c)
      PROVE  /\ approval' \in [Decisions -> Approvals]
             /\ reported' = reported
             /\ PendingUndecided'
             /\ \A e \in Decisions : approval[e].status # "NONE" =>
                                       approval'[e] = approval[e]
  <2>1. c.decision \in Decisions /\ PendingApproval(c) \in Approvals
    BY RowTypes DEF RequestCalls
  <2>2. /\ PendingApproval(c).decided_by = Nobody
        /\ approval[c.decision].status = "NONE"
    BY <1>3 DEF PendingApproval, Requested, NoApproval
  <2> QED
    BY <1>1, <1>3, <2>1, <2>2 DEF Requested
<1>4. ASSUME NEW d \in Decisions, Expired(d)
      PROVE  /\ approval' \in [Decisions -> Approvals]
             /\ reported' = reported
             /\ PendingUndecided'
             /\ \A e \in Decisions :
                  /\ approval[e].status # "NONE" => approval'[e].status # "NONE"
                  /\ approval'[e].requested_by = approval[e].requested_by
  <2> DEFINE row == [approval[d] EXCEPT !.status = "EXPIRED"]
  <2>1. row \in Approvals
    BY RowTypes
  <2>2. row.status = "EXPIRED" /\ row.requested_by = approval[d].requested_by
    BY <1>1 DEF Approvals
  <2>3. approval' = [approval EXCEPT ![d] = row]
    BY <1>4 DEF Expired
  <2> HIDE DEF row
  <2> QED
    BY <1>1, <1>4, <2>1, <2>2, <2>3 DEF Expired
<1>5. ASSUME NEW c \in DecideCalls, DecidedBy(c)
      PROVE  /\ approval' \in [Decisions -> Approvals]
             /\ reported' \subseteq [decision : Decisions, actor : Actors,
                                     status : {"APPROVED", "REJECTED"}]
             /\ PendingUndecided'
             /\ \A e \in Decisions :
                  /\ approval[e].status # "NONE" => approval'[e].status # "NONE"
                  /\ approval'[e].requested_by = approval[e].requested_by
  <2>1. /\ c.decision \in Decisions
        /\ c.actor \in Actors
        /\ c.target \in {"APPROVED", "REJECTED"}
    BY DEF DecideCalls
  <2> DEFINE row == Decided(approval[c.decision], c)
  <2>2. row \in Approvals
    BY <2>1, RowTypes
  <2>3. row.status = c.target /\ row.requested_by = approval[c.decision].requested_by
    BY <1>1, <2>1 DEF Approvals, Decided
  <2>4. approval' = [approval EXCEPT ![c.decision] = row]
    BY <1>5 DEF DecidedBy
  <2> HIDE DEF row
  <2>5. reported' \subseteq [decision : Decisions, actor : Actors,
                             status : {"APPROVED", "REJECTED"}]
    BY <1>1, <1>5, <2>1 DEF DecidedBy
  <2> QED
    BY <1>1, <2>1, <2>2, <2>3, <2>4, <2>5
<1> QED
  BY <1>1, <1>2, <1>3, <1>4, <1>5 DEF TableStep

(* The steps of the threads; what the table does is in TableType.            *)
LEMMA InvariantStep == IInv /\ [Next]_vars => IInv'
<1> SUFFICES ASSUME IInv, [Next]_vars PROVE IInv'
  OBVIOUS
<1> DEFINE Table ==
      /\ approval' \in [Decisions -> Approvals]
      /\ reported' \subseteq [decision : Decisions, actor : Actors,
                              status : {"APPROVED", "REJECTED"}]
      /\ PendingUndecided'
      /\ \A d \in Decisions :
           approval[d].status # "NONE" =>
             /\ approval'[d].status # "NONE"
             /\ approval'[d].requested_by = approval[d].requested_by
<1>1. Table
  BY StepsOfTheTable, TableType DEF IInv
<1>2. now \in Nat /\ now' \in Nat /\ now <= now'
  <2>1. now' = now \/ now' = now + 1
    BY DEF Next, Tick, CallRequest, CallDecide, Get, Create, Read, UpdateIfPending, vars
  <2> QED
    BY <2>1 DEF IInv, TypeOK
(* A thread that takes no step still knows what it knew.                     *)
<1>3. ASSUME NEW t \in Threads, pc'[t] = pc[t], call'[t] = call[t]
      PROVE  CallTyped(t)' /\ ReadOK(t)'
  <2>1. CallTyped(t) /\ ReadOK(t)
    BY DEF IInv, TypeOK
  <2>2. pc[t] \in {"read", "update_if_pending"} =>
          call[t].decision \in Decisions /\ call[t].decided_at \in Nat
    BY <2>1 DEF CallTyped, DecideCalls
  <2> QED
    BY <1>1, <1>2, <1>3, <2>1, <2>2 DEF CallTyped, ReadOK
(* So a step has to show what it does to its own thread.                     *)
<1>4. ASSUME NEW t \in Threads, NEW step \in Steps, NEW c \in Calls,
             pc' = [pc EXCEPT ![t] = step], call' = [call EXCEPT ![t] = c],
             CallTyped(t)', ReadOK(t)'
      PROVE  IInv'
  <2>1. ASSUME NEW u \in Threads PROVE CallTyped(u)' /\ ReadOK(u)'
    <3>1. CASE u = t
      BY <1>4, <3>1
    <3>2. CASE u # t
      BY <1>3, <1>4, <3>2 DEF IInv, TypeOK
    <3> QED
      BY <3>1, <3>2
  <2>2. pc' \in [Threads -> Steps] /\ call' \in [Threads -> Calls]
    BY <1>4 DEF IInv, TypeOK
  <2> QED
    BY <1>1, <1>2, <2>1, <2>2 DEF IInv, TypeOK
<1>5. ASSUME NEW t \in Threads, Return(t) PROVE IInv'
  <2>1. pc'[t] = "idle" /\ call'[t] = NoCall
    BY <1>5 DEF Return, Goto, IInv, TypeOK
  <2>2. CallTyped(t)' /\ ReadOK(t)'
    BY <2>1 DEF CallTyped, ReadOK
  <2> QED
    BY <1>4, <1>5, <2>2 DEF Return, Goto, Steps, Calls
<1>6. ASSUME NEW t \in Threads, NEW d \in Decisions, NEW actor \in Actors,
             CallRequest(t, d, actor)
      PROVE  IInv'
  <2> DEFINE c == [op |-> "request", decision |-> d, actor |-> actor,
                   requested_at |-> now]
  <2>1. c \in RequestCalls
    BY <1>2 DEF RequestCalls
  <2>2. pc' = [pc EXCEPT ![t] = "get"] /\ call' = [call EXCEPT ![t] = c]
    BY <1>6 DEF CallRequest, Goto
  <2> HIDE DEF c
  <2>3. pc'[t] = "get" /\ call'[t] = c
    BY <2>2 DEF IInv, TypeOK
  <2>4. CallTyped(t)' /\ ReadOK(t)'
    BY <2>1, <2>3 DEF CallTyped, ReadOK
  <2> QED
    BY <1>4, <2>1, <2>2, <2>4 DEF Steps, Calls
<1>7. ASSUME NEW t \in Threads, NEW d \in Decisions, NEW actor \in Actors,
             NEW role \in Roles, NEW target \in {"APPROVED", "REJECTED"},
             CallDecide(t, d, actor, role, target)
      PROVE  IInv'
  <2> DEFINE c == [op |-> "decide", decision |-> d, actor |-> actor, role |-> role,
                   target |-> target, decided_at |-> now]
  <2>1. c \in DecideCalls /\ c.decided_at = now
    BY <1>2, <1>7 DEF DecideCalls, CallDecide
  <2>2. pc' = [pc EXCEPT ![t] = "read"] /\ call' = [call EXCEPT ![t] = c]
    BY <1>7 DEF CallDecide, Goto
  <2> HIDE DEF c
  <2>3. pc'[t] = "read" /\ call'[t] = c
    BY <2>2 DEF IInv, TypeOK
  <2>4. CallTyped(t)' /\ ReadOK(t)'
    BY <1>2, <2>1, <2>3 DEF CallTyped, ReadOK
  <2> QED
    BY <1>4, <2>1, <2>2, <2>4 DEF Steps, Calls
<1>8. ASSUME NEW t \in Threads, Get(t) PROVE IInv'
  <2>1. CASE Goto(t, "create") /\ UNCHANGED call
    <3>1. call[t] \in RequestCalls
      BY <1>8 DEF Get, IInv, TypeOK, CallTyped
    <3>2. pc' = [pc EXCEPT ![t] = "create"] /\ call' = [call EXCEPT ![t] = call[t]]
      BY <2>1 DEF Goto, IInv, TypeOK
    <3>3. pc'[t] = "create" /\ call'[t] = call[t]
      BY <3>2 DEF IInv, TypeOK
    <3>4. CallTyped(t)' /\ ReadOK(t)'
      BY <3>1, <3>3 DEF CallTyped, ReadOK
    <3> QED
      BY <1>4, <3>1, <3>2, <3>4 DEF Steps, Calls
  <2> QED
    BY <1>5, <1>8, <2>1 DEF Get
(* The row that is found pending has a requester.                            *)
<1>9. ASSUME NEW t \in Threads, Read(t) PROVE IInv'
  <2>1. CASE Decidable(call[t]) /\ Goto(t, "update_if_pending") /\ UNCHANGED call
    <3>1. /\ call[t] \in DecideCalls
          /\ call[t].decided_at <= now
          /\ call[t].decision \in Decisions
          /\ call[t].decided_at \in Nat
      BY <1>9 DEF Read, IInv, TypeOK, CallTyped, ReadOK, DecideCalls
    <3>2. /\ pc' = [pc EXCEPT ![t] = "update_if_pending"]
          /\ call' = [call EXCEPT ![t] = call[t]]
      BY <2>1 DEF Goto, IInv, TypeOK
    <3>3. pc'[t] = "update_if_pending" /\ call'[t] = call[t]
      BY <3>2 DEF IInv, TypeOK
    <3>4. CallTyped(t)'
      BY <3>1, <3>3 DEF CallTyped
    <3>5. ReadOK(t)'
      BY <1>1, <1>2, <2>1, <3>1, <3>3 DEF ReadOK, Decidable
    <3> QED
      BY <1>4, <3>1, <3>2, <3>4, <3>5 DEF Steps, Calls
  <2> QED
    BY <1>5, <1>9, <2>1 DEF Read
<1>10. CASE UNCHANGED <<pc, call>>
  BY <1>1, <1>2, <1>3, <1>10 DEF IInv, TypeOK
<1> QED
  BY <1>5, <1>6, <1>7, <1>8, <1>9, <1>10
     DEF Next, vars, Tick, Create, UpdateIfPending

LEMMA Invariant == Spec => []IInv
  BY InvariantInit, InvariantStep, PTL DEF Spec

(* The approvals keep their types.                                           *)
THEOREM TypeCorrect == Spec => []TypeOK
<1>1. IInv => TypeOK
  BY DEF IInv
<1> QED
  BY <1>1, Invariant, PTL

----------------------------------------------------------------------------
(* What callers are told                                                     *)

(* A caller who was told that an approval took effect is the one whom the    *)
(* row names: a row that has been decided is never pending again.            *)
THEOREM ReportsAreStored == Spec => []ReportedIsStored
<1>1. Init => ReportedIsStored
  BY DEF Init, ReportedIsStored
<1>2. IInv /\ ReportedIsStored /\ [Next]_vars => ReportedIsStored'
  <2> SUFFICES ASSUME IInv, ReportedIsStored, [Next]_vars PROVE ReportedIsStored'
    OBVIOUS
  <2> USE DEF ReportedIsStored
  <2>1. /\ DOMAIN approval = Decisions
        /\ \A r \in reported :
             r.decision \in Decisions /\ r.status \in {"APPROVED", "REJECTED"}
    BY DEF IInv, TypeOK
  <2>2. CASE approval' = approval /\ reported' = reported
    BY <2>2
  <2>3. ASSUME NEW d \in Decisions, reported' = reported,
               approval[d].status \in {"NONE", "PENDING"},
               \A e \in Decisions \ {d} : approval'[e] = approval[e]
        PROVE  ReportedIsStored'
    <3>1. \A r \in reported : r.decision # d
      BY <2>1, <2>3
    <3> QED
      BY <2>1, <2>3, <3>1
  <2>4. ASSUME NEW c \in RequestCalls, Requested(c) PROVE ReportedIsStored'
    BY <2>1, <2>3, <2>4 DEF Requested, NoApproval, RequestCalls
  <2>5. ASSUME NEW d \in Decisions, Expired(d) PROVE ReportedIsStored'
    BY <2>1, <2>3, <2>5 DEF Expired
  <2>6. ASSUME NEW c \in DecideCalls, DecidedBy(c) PROVE ReportedIsStored'
    <3> DEFINE d == c.decision
               new == [decision |-> d, actor |-> c.actor, status |-> c.target]
    <3>1. d \in Decisions
      BY DEF DecideCalls
    <3>2. \A r \in reported : r.decision # d
      BY <2>1, <2>6 DEF DecidedBy
    <3>3. /\ \A e \in Decisions \ {d} : approval'[e] = approval[e]
          /\ approval'[d].status = c.target
          /\ approval'[d].decided_by = c.actor
      BY <2>1, <2>6, <3>1 DEF DecidedBy, Decided, IInv, TypeOK, Approvals
    <3>4. new.decision = d /\ new.actor = c.actor /\ new.status = c.target
      OBVIOUS
    <3>5. reported' = reported \cup {new}
      BY <2>6 DEF DecidedBy
    <3> HIDE DEF d, new
    <3> QED
      BY <2>1, <3>1, <3>2, <3>3, <3>4, <3>5
  <2> QED
    BY <2>2, <2>4, <2>5, <2>6, StepsOfTheTable DEF IInv, TableStep
<1> QED
  BY <1>1, <1>2, Invariant, PTL DEF Spec

----------------------------------------------------------------------------
(* What the table holds                                                      *)

(* Nobody decides a request of his own, and nobody decides after the expiry: *)
(* what was read of the row before the update can no longer change.          *)
THEOREM DecisionsAreInTime == Spec => []DecidedInTime
<1>1. Init => DecidedInTime
  BY DEF Init, DecidedInTime, NoApproval
<1>2. IInv /\ IInv' /\ DecidedInTime /\ [Next]_vars => DecidedInTime'
  <2> SUFFICES ASSUME IInv, IInv', DecidedInTime, [Next]_vars PROVE DecidedInTime'
    OBVIOUS
  <2> DEFINE RowOK(row) ==
        /\ row.status \in {"APPROVED", "REJECTED"} =>
             /\ row.decided_by \in Actors \ {row.requested_by}
             /\ row.decided_at <= row.expires_at
        /\ row.status = "EXPIRED" => row.expires_at < now' /\ row.decided_by = Nobody
  <2>1. /\ approval \in [Decisions -> Approvals]
        /\ now \in Nat /\ now' \in Nat /\ now <= now'
    <3>1. now' = now \/ now' = now + 1
      BY DEF Next, Tick, CallRequest, CallDecide, Get, Create, Read, UpdateIfPending,
             vars
    <3> QED
      BY <3>1 DEF IInv, TypeOK
  <2>2. \A d \in Decisions : RowOK(approval[d])
    <3> SUFFICES ASSUME NEW d \in Decisions PROVE RowOK(approval[d])
      OBVIOUS
    <3>1. approval[d].expires_at \in Nat
      BY <2>1 DEF Approvals
    <3> QED
      BY <2>1, <3>1 DEF DecidedInTime
  <2>3. ASSUME NEW d \in Decisions,
               \A e \in Decisions \ {d} : approval'[e] = approval[e],
               RowOK(approval'[d])
        PROVE  DecidedInTime'
    BY <2>2, <2>3 DEF DecidedInTime
  <2>4. CASE approval' = approval
    BY <2>2, <2>4 DEF DecidedInTime
  <2>5. ASSUME NEW c \in RequestCalls, Requested(c) PROVE DecidedInTime'
    <3>1. c.decision \in Decisions /\ approval'[c.decision].status = "PENDING"
      BY <2>1, <2>5 DEF Requested, PendingApproval, RequestCalls
    <3> QED
      BY <2>1, <2>3, <2>5, <3>1 DEF Requested
  <2>6. ASSUME NEW d \in Decisions, Expired(d) PROVE DecidedInTime'
    <3>1. /\ approval'[d].status = "EXPIRED"
          /\ approval'[d].expires_at = approval[d].expires_at
          /\ approval'[d].decided_by = approval[d].decided_by
          /\ approval[d].expires_at \in Nat
      BY <2>1, <2>6 DEF Expired, Approvals
    <3>2. RowOK(approval'[d])
      BY <2>1, <2>6, <3>1 DEF Expired, IInv, PendingUndecided
    <3> QED
      BY <2>1, <2>3, <2>6, <3>2 DEF Expired
  <2>7. ASSUME NEW c \in DecideCalls, DecidedBy(c) PROVE DecidedInTime'
    <3>1. /\ c.decision \in Decisions
          /\ c.actor \in Actors
          /\ c.target \in {"APPROVED", "REJECTED"}
      BY DEF DecideCalls
    <3>2. /\ approval'[c.decision].status = c.target
          /\ approval'[c.decision].requested_by = approval[c.decision].requested_by
          /\ approval'[c.decision].expires_at = approval[c.decision].expires_at
          /\ approval'[c.decision].decided_by = c.actor
          /\ approval'[c.decision].decided_at = c.decided_at
      BY <2>1, <2>7, <3>1 DEF DecidedBy, Decided, Approvals
    <3>3. RowOK(approval'[c.decision])
      BY <2>7, <3>1, <3>2 DEF DecidedBy
    <3> QED
      BY <2>1, <2>3, <2>7, <3>1, <3>3 DEF DecidedBy
  <2> QED
    BY <2>4, <2>5, <2>6, <2>7, StepsOfTheTable DEF IInv, TableStep
<1> QED
  BY <1>1, <1>2, Invariant, PTL DEF Spec

(* The table goes through one request and one decision or expiry.            *)
THEOREM ApprovalsImplementLifecycle == Spec => ImplementsLifecycle
<1>1. Init => Lifecycle!Init
  BY DEF Init, Lifecycle!Init, Column, NoApproval
<1>2. IInv /\ IInv' /\ [Next]_vars =>
        [Lifecycle!Next]_<<Column("status"), Column("requested_by"), Column("decided_by")>>
  <2> SUFFICES ASSUME IInv, IInv', [Next]_vars
               PROVE  \/ Lifecycle!Next
                      \/ UNCHANGED <<Column("status"), Column("requested_by"),
                                      Column("decided_by")>>
    OBVIOUS
  <2>1. /\ approval \in [Decisions -> Approvals]
        /\ approval' \in [Decisions -> Approvals]
    BY DEF IInv, TypeOK
  <2>2. CASE approval' = approval
    BY <2>2 DEF Column
  <2>3. ASSUME NEW c \in RequestCalls, Requested(c)
        PROVE  c.decision \in Decisions /\ c.actor \in Actors
               /\ Lifecycle!Request(c.decision, c.actor)
    <3> DEFINE d == c.decision
    <3>1. /\ d \in Decisions
          /\ c.actor \in Actors
          /\ approval[d].status = "NONE"
          /\ approval[d].decided_by = Nobody
          /\ approval'[d].status = "PENDING"
          /\ approval'[d].requested_by = c.actor
          /\ approval'[d].decided_by = Nobody
          /\ \A e \in Decisions \ {d} : approval'[e] = approval[e]
      BY <2>1, <2>3 DEF Requested, NoApproval, PendingApproval, RequestCalls
    <3> QED
      BY <3>1 DEF Lifecycle!Request, Column
  <2>4. ASSUME NEW d \in Decisions, Expired(d) PROVE Lifecycle!Expire(d)
    <3>1. /\ approval[d].status = "PENDING"
          /\ approval'[d].status = "EXPIRED"
          /\ approval'[d].requested_by = approval[d].requested_by
          /\ approval'[d].decided_by = approval[d].decided_by
          /\ \A e \in Decisions \ {d} : approval'[e] = approval[e]
      BY <2>1, <2>4 DEF Expired, Approvals
    <3> QED
      BY <3>1 DEF Lifecycle!Expire, Column
  <2>5. ASSUME NEW c \in DecideCalls, DecidedBy(c)
        PROVE  c.decision \in Decisions /\ c.actor \in Actors
               /\ Lifecycle!Decide(c.decision, c.actor)
    <3>1. /\ c.decision \in Decisions
          /\ c.actor \in Actors
          /\ c.target \in {"APPROVED", "REJECTED"}
      BY DEF DecideCalls
    <3> DEFINE d == c.decision
    <3>2. /\ approval[d].status = "PENDING"
          /\ c.actor # approval[d].requested_by
          /\ approval'[d].status = c.target
          /\ approval'[d].requested_by = approval[d].requested_by
          /\ approval'[d].decided_by = c.actor
          /\ \A e \in Decisions \ {d} : approval'[e] = approval[e]
      BY <2>1, <2>5, <3>1 DEF DecidedBy, Decided, Approvals
    <3> QED
      BY <3>1, <3>2 DEF Lifecycle!Decide, Column
  <2> QED
    BY <2>2, <2>3, <2>4, <2>5, StepsOfTheTable DEF IInv, TableStep, Lifecycle!Next
<1> QED
  BY <1>1, <1>2, Invariant, PTL DEF Spec, ImplementsLifecycle, Lifecycle!Spec
=============================================================================
