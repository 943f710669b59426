----------------------------- MODULE Approvals -----------------------------
(***************************************************************************)
(* ApprovalService of promiseguard/approval.py: concurrent threads ask for *)
(* approvals, approve and reject them.  A decision is read in one          *)
(* statement and written in another, which writes only if the row is still *)
(* pending; every call takes its time before either.  A thread that is     *)
(* lost between its statements leaves nothing behind, like one that never  *)
(* goes on.                                                                *)
(***************************************************************************)
EXTENDS Naturals

CONSTANTS
  Threads,         \* request threads
  Decisions,       \* decisions with an executable action, one approval each
  Actors,          \* who asks and who decides
  MayClaim,        \* [Actors -> SUBSET Roles]: roles bind_claimed_role accepts
  Ttl,             \* how long an approval is valid
  Nobody,          \* decided_by of an approval nobody decided
  MaxTime          \* bound: the clock stops here

Roles == {"OPERATIONS_ANALYST", "OPERATIONS_MANAGER", "AUDITOR",
          "SERVICE_IDENTITY"}
Deciders == Roles \ {"AUDITOR", "SERVICE_IDENTITY"}

ASSUME RolesAssumption == MayClaim \in [Actors -> SUBSET Roles]
ASSUME TimeAssumption == Ttl \in Nat /\ MaxTime \in Nat
ASSUME NobodyAssumption == Nobody \notin Actors

VARIABLES
  now,        \* the wall clock
  approval,   \* the approval row of every decision
  pc,         \* next statement of each thread
  call,       \* the call each thread serves
  reported    \* decisions whose callers were told that they took effect

vars == <<now, approval, pc, call, reported>>

FinalStatuses == {"APPROVED", "REJECTED", "EXPIRED"}
NoApproval == [status |-> "NONE", requested_by |-> Nobody, expires_at |-> 0,
               decided_by |-> Nobody, decided_at |-> 0]
PendingApproval(c) ==
  [status |-> "PENDING", requested_by |-> c.actor, expires_at |-> c.requested_at + Ttl,
   decided_by |-> Nobody, decided_at |-> 0]

NoCall == [op |-> "none"]

Init ==
  /\ now = 0
  /\ approval = [d \in Decisions |-> NoApproval]
  /\ pc = [t \in Threads |-> "idle"]
  /\ call = [t \in Threads |-> NoCall]
  /\ reported = {}

Tick == now < MaxTime /\ now' = now + 1 /\ UNCHANGED <<approval, pc, call, reported>>

Goto(t, step) == pc' = [pc EXCEPT ![t] = step]

(* Mutant: the thread goes on with the call it has served.                  *)
ReturnKeepingCall(t) == Goto(t, "idle") /\ UNCHANGED call

Return(t) == Goto(t, "idle") /\ call' = [call EXCEPT ![t] = NoCall]

----------------------------------------------------------------------------
(* request                                                                  *)

CallRequest(t, d, actor) ==
  /\ pc[t] = "idle"
  /\ call' = [call EXCEPT ![t] =
       [op |-> "request", decision |-> d, actor |-> actor, requested_at |-> now]]
  /\ Goto(t, "get")
  /\ UNCHANGED <<now, approval, reported>>

Get(t) ==
  /\ pc[t] = "get"
  /\ \/ approval[call[t].decision] # NoApproval /\ Return(t)
     \/ approval[call[t].decision] = NoApproval /\ Goto(t, "create") /\ UNCHANGED call
  /\ UNCHANGED <<now, approval, reported>>

(* Mutant: the row is written over.                                         *)
AlwaysCreatable(d) == TRUE

(* A row that has appeared meanwhile is another request's, with a time of   *)
(* its own: create refuses, and so does the primary key.                    *)
Creatable(d) == approval[d] = NoApproval

Create(t) ==
  LET d == call[t].decision IN
  /\ pc[t] = "create"
  /\ \/ /\ Creatable(d)
        /\ approval' = [approval EXCEPT ![d] = PendingApproval(call[t])]
     \/ ~ Creatable(d) /\ UNCHANGED approval
  /\ Return(t)
  /\ UNCHANGED <<now, reported>>

----------------------------------------------------------------------------
(* approve and reject                                                       *)

CallDecide(t, d, actor, role, target) ==
  /\ pc[t] = "idle"
  /\ role \in Deciders \cap MayClaim[actor]
  /\ call' = [call EXCEPT ![t] =
       [op |-> "decide", decision |-> d, actor |-> actor, role |-> role,
        target |-> target, decided_at |-> now]]
  /\ Goto(t, "read")
  /\ UNCHANGED <<now, approval, reported>>

(* Mutant: no separation of duties.                                         *)
PendingDecidable(c) == approval[c.decision].status = "PENDING"

Decidable(c) ==
  /\ approval[c.decision].status = "PENDING"
  /\ c.actor # approval[c.decision].requested_by

Read(t) ==
  /\ pc[t] = "read"
  /\ \/ Decidable(call[t]) /\ Goto(t, "update_if_pending") /\ UNCHANGED call
     \/ ~ Decidable(call[t]) /\ Return(t)
  /\ UNCHANGED <<now, approval, reported>>

(* Mutant: the expiry is not looked at.                                     *)
NeverTooLate(c) == FALSE

TooLate(c) == c.decided_at > approval[c.decision].expires_at

(* Mutant: update instead of update_if_pending.                             *)
AlwaysPending(d) == TRUE

StillPending(d) == approval[d].status = "PENDING"

Decided(row, c) == [row EXCEPT !.status = c.target,
                               !.decided_by = c.actor,
                               !.decided_at = c.decided_at]

(* The expired row is committed, the caller is told that it is too late.    *)
UpdateIfPending(t) ==
  LET c == call[t] IN
  /\ pc[t] = "update_if_pending"
  /\ \/ /\ StillPending(c.decision)
        /\ TooLate(c)
        /\ approval' = [approval EXCEPT ![c.decision].status = "EXPIRED"]
        /\ UNCHANGED reported
     \/ /\ StillPending(c.decision)
        /\ ~ TooLate(c)
        /\ approval' = [approval EXCEPT ![c.decision] = Decided(@, c)]
        /\ reported' = reported \cup
             {[decision |-> c.decision, actor |-> c.actor, status |-> c.target]}
     \/ ~ StillPending(c.decision) /\ UNCHANGED <<approval, reported>>
  /\ Return(t)
  /\ UNCHANGED now

Next ==
  \/ Tick
  \/ \E t \in Threads, d \in Decisions, actor \in Actors :
       \/ CallRequest(t, d, actor)
       \/ \E role \in Roles, target \in {"APPROVED", "REJECTED"} :
            CallDecide(t, d, actor, role, target)
  \/ \E t \in Threads : Get(t) \/ Create(t) \/ Read(t) \/ UpdateIfPending(t)

Spec == Init /\ [][Next]_vars

----------------------------------------------------------------------------
(* Properties                                                               *)

Approvals ==
  [status : {"NONE", "PENDING"} \cup FinalStatuses,
   requested_by : Actors \cup {Nobody}, expires_at : Nat,
   decided_by : Actors \cup {Nobody}, decided_at : Nat]

RequestCalls ==
  [op : {"request"}, decision : Decisions, actor : Actors, requested_at : Nat]
DecideCalls ==
  [op : {"decide"}, decision : Decisions, actor : Actors, role : Deciders,
   target : {"APPROVED", "REJECTED"}, decided_at : Nat]

Steps == {"idle", "get", "create", "read", "update_if_pending"}
Calls == {NoCall} \cup RequestCalls \cup DecideCalls

CallTyped(t) ==
  /\ pc[t] = "idle" => call[t] = NoCall
  /\ pc[t] \in {"get", "create"} => call[t] \in RequestCalls
  /\ pc[t] \in {"read", "update_if_pending"} => call[t] \in DecideCalls

TypeOK ==
  /\ now \in Nat
  /\ approval \in [Decisions -> Approvals]
  /\ pc \in [Threads -> Steps]
  /\ call \in [Threads -> Calls]
  /\ \A t \in Threads : CallTyped(t)
  /\ reported \subseteq [decision : Decisions, actor : Actors,
                         status : {"APPROVED", "REJECTED"}]

(* A caller who was told that an approval or rejection took effect is the   *)
(* one whose decision the row holds, now and for ever: of several callers   *)
(* who found the row pending only one is told so (_decide).                 *)
ReportedIsStored ==
  \A r \in reported :
    /\ approval[r.decision].status = r.status
    /\ approval[r.decision].decided_by = r.actor

(* Whatever threads read before, a decision in the table was taken by       *)
(* somebody other than the requester who is in the table with it, and not   *)
(* later than the expiry; a row is expired only after its expiry.           *)
DecidedInTime ==
  \A d \in Decisions :
    LET row == approval[d] IN
    /\ row.status \in {"APPROVED", "REJECTED"} =>
         /\ row.decided_by \in Actors \ {row.requested_by}
         /\ row.decided_at <= row.expires_at
    /\ row.status = "EXPIRED" => row.expires_at < now /\ row.decided_by = Nobody

Column(name) == [d \in Decisions |-> approval[d][name]]

Lifecycle == INSTANCE ApprovalLifecycle
               WITH status <- Column("status"),
                    requested_by <- Column("requested_by"),
                    decided_by <- Column("decided_by")

(* Threads that race each other, a second request and the expiry leave the  *)
(* table with one request and one decision.                                 *)
ImplementsLifecycle == Lifecycle!Spec
=============================================================================
