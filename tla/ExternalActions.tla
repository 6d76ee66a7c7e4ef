--------------------------- MODULE ExternalActions ---------------------------
(***************************************************************************)
(* From a lead review to a verified e-mail: lead_review_mission,           *)
(* decide_approval, scheduler_tick's expiry, prepare_, execute_ and        *)
(* verify_unknown_external_operation, run by concurrent sessions.          *)
(*                                                                         *)
(* Every request is one unit of work (db_session): it loads its rows when  *)
(* it starts, decides on what it loaded, and writes absolute values when   *)
(* it commits; there is no row lock and no version column check at commit. *)
(* The first audit event of a request takes the tenant's advisory lock and *)
(* keeps it to the commit, so two write phases never overlap.  A handler   *)
(* is therefore two steps: Begin... reads and checks the rows; the second  *)
(* step is its whole write phase.  A request whose checks fail raises, is  *)
(* rolled back and changes nothing, so it is no step at all: this includes *)
(* the INVALIDATED that decide_approval and prepare_external_operation     *)
(* assign just before they raise on a changed mission version.             *)
(***************************************************************************)
EXTENDS Integers, FiniteSets, StateMachine

CONSTANTS
    Sessions,     \* requests and background jobs that may run at the same time
    Missions,     \* missions under execution, all their work items ACCEPTED
    HighRisk,     \* the missions whose risk_level is high or critical
    Approvals,    \* identities of ApprovalRequest rows
    Ops,          \* operation_keys of ExternalOperation rows
    None,         \* a column or a loaded identity that is not set
    Modes,        \* what `live' can evaluate to in prepare: {"live", "demo"}
    DailyLimit,   \* min(policy, deployment) daily_send_limit
    MissionLimit, \* min(policy, deployment) mission_send_limit
    SendQuota,    \* live_email_sends included in the active subscription
    MaxCrashes,   \* bound: process deaths between provider call and commit
    MaxSends,     \* bound: provider acceptances per operation
    MaxAged       \* bound: operations that grow older than a day

ASSUME ConstantsAssumption ==
    /\ HighRisk \subseteq Missions
    /\ None \notin Missions \cup Approvals \cup Ops
    /\ Modes \subseteq {"live", "demo"}
    /\ DailyLimit \in Nat /\ MissionLimit \in Nat /\ SendQuota \in Nat
    /\ MaxCrashes \in Nat /\ MaxSends \in Nat /\ MaxAged \in Nat

VARIABLES
    mission,   \* Mission rows: status and version
    approval,  \* ApprovalRequest rows: status, mission, mission_version
    decisions, \* ApprovalDecision rows, as <<approval, decision>>
    op,        \* ExternalOperation rows
    attempts,  \* OperationAttempt rows
    metered,   \* operations with a live_email_sends UsageRecord
    sent,      \* messages the provider accepted, per operation (external)
    lost,      \* acceptances whose unit of work was rolled back (history)
    crashes,   \* process deaths so far
    aged,      \* operations whose created_at is more than a day ago
    txn        \* the requests in flight: what each has loaded

vars == <<mission, approval, decisions, op, attempts, metered, sent, lost,
          crashes, aged, txn>>

rows == <<mission, approval, decisions, op, attempts, metered>>
history == <<sent, lost, crashes, aged>>

------------------------------------------------------------------------------
(* Rows.                                                                    *)

FirstVersion == 8   \* mission.version after start_execution

MissionRow == [status : MissionStatus, version : Nat]

AbsentApproval == [status |-> "ABSENT", mission |-> None, version |-> 0]
ApprovalRow == [status : ApprovalStatus, mission : Missions, version : Nat]

AbsentOp == [status |-> "ABSENT", approval |-> None, mission |-> None,
             attempts |-> 0, demo |-> TRUE]
OpRow == [status : ExternalOperationStatus, approval : Approvals,
          mission : Missions, attempts : Nat, demo : BOOLEAN]

Results == {"SUCCEEDED", "FAILED", "UNKNOWN"}
AttemptRow == [op : Ops, number : Nat, status : Results]

(* What a request in flight holds: the handler, its arguments and the rows  *)
(* it will write from.                                                      *)
Handlers == {"idle", "lead_review", "decide", "expire", "prepare", "execute", "verify"}
Arguments == {"approve", "reject", "changes", "live", "demo", "run",
              "simulate_unknown", "succeeded", "failed"}

Idle == [handler |-> "idle", arg |-> None, approvals |-> {}, op |-> None,
         mission |-> None, row |-> Raised, attempts |-> 0]

Txn == [handler : Handlers, arg : Arguments \cup {None},
        approvals : SUBSET Approvals, op : Ops \cup {None},
        mission : Missions \cup {None}, row : MissionRow \cup {Raised},
        attempts : Nat]

(* Every column holds a value of its type: no handler ever writes the row  *)
(* of a transition that raised.                                             *)
TypeOK ==
    /\ mission \in [Missions -> MissionRow]
    /\ approval \in [Approvals -> ApprovalRow \cup {AbsentApproval}]
    /\ decisions \subseteq Approvals \X {"approve", "reject", "changes"}
    /\ op \in [Ops -> OpRow \cup {AbsentOp}]
    /\ attempts \subseteq AttemptRow
    /\ metered \subseteq Ops
    /\ sent \in [Ops -> Nat] /\ lost \in [Ops -> Nat]
    /\ crashes \in Nat
    /\ aged \subseteq Ops
    /\ txn \in [Sessions -> Txn]

Init ==
    /\ mission = [m \in Missions |-> [status |-> "EXECUTING", version |-> FirstVersion]]
    /\ approval = [a \in Approvals |-> AbsentApproval]
    /\ decisions = {}
    /\ op = [o \in Ops |-> AbsentOp]
    /\ attempts = {} /\ metered = {}
    /\ sent = [o \in Ops |-> 0] /\ lost = [o \in Ops |-> 0]
    /\ crashes = 0
    /\ aged = {}
    /\ txn = [s \in Sessions |-> Idle]

Load(s, t) == /\ txn[s] = Idle
              /\ txn' = [txn EXCEPT ![s] = t]
              /\ UNCHANGED <<rows, history>>

End(s) == txn' = [txn EXCEPT ![s] = Idle]

(* A request dies before its write phase: nothing was written.              *)
Abandon(s) == /\ txn[s] # Idle
              /\ End(s)
              /\ UNCHANGED <<rows, history>>

------------------------------------------------------------------------------
(* lead_review_mission                                                      *)

Reviewed(row, m) ==
    MissionStep(MissionStep(row, "LEAD_REVIEW"),
                IF m \in HighRisk THEN "APPROVAL_REQUIRED" ELSE "COMPLETED")

BeginLeadReview(s, m) ==
    /\ Reviewed(mission[m], m) # Raised
    /\ Load(s, [Idle EXCEPT !.handler = "lead_review", !.mission = m, !.row = mission[m]])

(* A low-risk mission is complete; a high-risk one gets a PENDING approval  *)
(* bound to the version this request writes.                                *)
LeadReview(s) ==
    LET m == txn[s].mission
        row == Reviewed(txn[s].row, m)
    IN  /\ txn[s].handler = "lead_review"
        /\ mission' = [mission EXCEPT ![m] = row]
        /\ \/ m \notin HighRisk /\ UNCHANGED approval
           \/ /\ m \in HighRisk
              /\ \E a \in Approvals :
                   /\ approval[a] = AbsentApproval
                   /\ approval' = [approval EXCEPT ![a] =
                        [status |-> "PENDING", mission |-> m, version |-> row.version]]
        /\ End(s)
        /\ UNCHANGED <<decisions, op, attempts, metered, history>>

------------------------------------------------------------------------------
(* decide_approval and the scheduler's expiry                               *)

(* Mutant of Target: whatever is not a rejection approves.                  *)
TargetLenient(d) == IF d = "reject" THEN "REJECTED" ELSE "APPROVED"

Target(d) == CASE d = "approve" -> "APPROVED"
               [] d = "reject"  -> "REJECTED"
               [] OTHER         -> "CHANGES_REQUESTED"

Decided(row, d) == MissionStep(row, IF d = "approve" THEN "APPROVED" ELSE "EXECUTING")

BeginDecide(s, a, d) ==
    LET m == approval[a].mission
    IN  /\ approval[a] # AbsentApproval
        /\ mission[m].version = approval[a].version
        /\ Target(d) \in APPROVAL_TRANSITIONS[approval[a].status]
        /\ Decided(mission[m], d) # Raised
        /\ Load(s, [Idle EXCEPT !.handler = "decide", !.arg = d, !.approvals = {a},
                                !.mission = m, !.row = mission[m]])

Decide(s) ==
    LET m == txn[s].mission
        d == txn[s].arg
    IN  /\ txn[s].handler = "decide"
        /\ approval' = [a \in Approvals |-> IF a \in txn[s].approvals
                          THEN [approval[a] EXCEPT !.status = Target(d)]
                          ELSE approval[a]]
        /\ decisions' = decisions \cup (txn[s].approvals \X {d})
        /\ mission' = [mission EXCEPT ![m] = Decided(txn[s].row, d)]
        /\ End(s)
        /\ UNCHANGED <<op, attempts, metered, history>>

(* Mutant of BeginExpire: the query's status filter is dropped.             *)
BeginExpireAny(s, batch) ==
    /\ batch # {}
    /\ \A a \in batch : approval[a] # AbsentApproval
    /\ Load(s, [Idle EXCEPT !.handler = "expire", !.approvals = batch])

(* scheduler_tick loads the PENDING approvals that the clock says expired.  *)
BeginExpire(s, batch) ==
    /\ batch # {}
    /\ \A a \in batch : approval[a].status = "PENDING"
    /\ Load(s, [Idle EXCEPT !.handler = "expire", !.approvals = batch])

Expire(s) ==
    /\ txn[s].handler = "expire"
    /\ approval' = [a \in Approvals |-> IF a \in txn[s].approvals
                      THEN [approval[a] EXCEPT !.status = "EXPIRED"]
                      ELSE approval[a]]
    /\ End(s)
    /\ UNCHANGED <<mission, decisions, op, attempts, metered, history>>

------------------------------------------------------------------------------
(* prepare_external_operation                                               *)

(* Mutant of VersionBound: any later version of the mission passes.         *)
VersionNotOlder(row, a) == row.version >= approval[a].version

(* The APPROVED transition itself moves the mission one version on.         *)
VersionBound(row, a) == row.version \in {approval[a].version, approval[a].version + 1}

LiveSucceeded == {o \in Ops : op[o].status = "SUCCEEDED" /\ ~op[o].demo}

(* quota_allows: the sends on record and this one fit into the plan.        *)
QuotaAllows == Cardinality(metered) + 1 <= SendQuota

(* Mutant of WithinLimits: one send too many.                               *)
WithinLimitsPlusOne(m) ==
    /\ Cardinality(LiveSucceeded \ aged) <= DailyLimit
    /\ Cardinality({o \in LiveSucceeded : op[o].mission = m}) <= MissionLimit
    /\ Cardinality(metered) <= SendQuota

(* validate_email_action: the limits; recipients are the environment's.     *)
(* The daily count is over created_at, the day of the prepare: a send of    *)
(* today whose operation was prepared yesterday is not counted.             *)
WithinLimits(m) ==
    /\ Cardinality(LiveSucceeded \ aged) < DailyLimit
    /\ Cardinality({o \in LiveSucceeded : op[o].mission = m}) < MissionLimit
    /\ QuotaAllows

BeginPrepare(s, a, o, mode) ==
    LET m == approval[a].mission
    IN  /\ approval[a].status = "APPROVED"
        /\ VersionBound(mission[m], a)
        /\ op[o] = AbsentOp
        /\ mode = "live" => WithinLimits(m)
        /\ Load(s, [Idle EXCEPT !.handler = "prepare", !.arg = mode, !.approvals = {a},
                                !.op = o, !.mission = m])

(* The operation_key is unique: an insert that finds it taken is rolled     *)
(* back (Abandon).  PREPARED and POLICY_REVIEWED are passed in the same     *)
(* unit of work.                                                            *)
Prepare(s) ==
    LET o == txn[s].op
    IN  /\ txn[s].handler = "prepare"
        /\ op[o] = AbsentOp
        /\ \E a \in txn[s].approvals :
             op' = [op EXCEPT ![o] =
               [status |-> "APPROVED", approval |-> a, mission |-> txn[s].mission,
                attempts |-> 0, demo |-> txn[s].arg = "demo"]]
        /\ End(s)
        /\ UNCHANGED <<mission, approval, decisions, attempts, metered, history>>

------------------------------------------------------------------------------
(* execute_external_operation                                               *)

(* Mutant of BeginExecute: an UNKNOWN operation may be executed again.      *)
BeginExecuteRetry(s, o, mode) ==
    /\ op[o].status \in {"APPROVED", "UNKNOWN"}
    /\ sent[o] < MaxSends
    /\ Load(s, [Idle EXCEPT !.handler = "execute", !.arg = mode, !.op = o,
                            !.mission = op[o].mission, !.row = mission[op[o].mission],
                            !.attempts = op[o].attempts])

BeginExecute(s, o, mode) ==
    LET m == op[o].mission
        a == op[o].approval
    IN  /\ op[o].status = "APPROVED"
        /\ approval[a].status = "APPROVED"
        /\ VersionBound(mission[m], a)
        /\ sent[o] < MaxSends
        /\ Load(s, [Idle EXCEPT !.handler = "execute", !.arg = mode, !.op = o,
                                !.mission = m, !.row = mission[m],
                                !.attempts = op[o].attempts])

(* How a provider call can end.  sent: the provider accepted the message;   *)
(* verifying: send_message returned and verify_sent was called.             *)
SendRaised ==
    {[sent |-> FALSE, verifying |-> FALSE, result |-> "FAILED"],    \* 4xx, no token
     [sent |-> FALSE, verifying |-> FALSE, result |-> "UNKNOWN"],   \* transport, 5xx
     [sent |-> TRUE,  verifying |-> FALSE, result |-> "UNKNOWN"]}   \* answer lost

SendReturned ==
    {[sent |-> TRUE,  verifying |-> TRUE,  result |-> "SUCCEEDED"], \* SENT record read
     [sent |-> TRUE,  verifying |-> TRUE,  result |-> "UNKNOWN"],   \* not verified, 5xx
     [sent |-> TRUE,  verifying |-> TRUE,  result |-> "FAILED"]}    \* verify_sent got 4xx

(* Gmail and Graph differ in how they send and in what they read back, not  *)
(* in the ways a call can end.                                              *)
ProviderOutcomes == SendRaised \cup SendReturned

Simulated == [sent |-> FALSE, verifying |-> FALSE, result |-> "UNKNOWN"]
DemoRun   == [sent |-> FALSE, verifying |-> TRUE,  result |-> "SUCCEEDED"]
Denied    == [sent |-> FALSE, verifying |-> FALSE, result |-> "FAILED"]

(* The branches of the handler; the policy is validated again, under the    *)
(* lock and on committed rows, before the provider is called.               *)
Outcomes(o, mode) ==
    CASE mode = "simulate_unknown"     -> {Simulated}
      [] mode = "run" /\ op[o].demo    -> {DemoRun}
      [] OTHER -> IF WithinLimits(op[o].mission) THEN ProviderOutcomes ELSE {Denied}

(* Mutant of MissionResult: an uncertain send fails the mission.            *)
MissionResultPessimistic(result) == IF result = "SUCCEEDED" THEN "COMPLETED" ELSE "FAILED"

MissionResult(result) == IF result = "SUCCEEDED" THEN "COMPLETED" ELSE result

(* The mission row after the handler's transitions, or Raised.              *)
Executed(row, out) ==
    LET started   == MissionStepIf(row, "APPROVED", "ACTION_EXECUTING")
        verifying == IF out.verifying
                       THEN MissionStepIf(started, "ACTION_EXECUTING", "VERIFYING")
                       ELSE started
    IN  MissionStep(verifying, MissionResult(out.result))

(* Mutant of NewAttempt: attempt numbers are not unique.                    *)
NewAttemptUnchecked(s) == txn[s].attempts + 1 > 0

(* The attempt row is inserted before anything else is written; a second    *)
(* executor of the operation holds the same attempt_number and fails on     *)
(* the unique constraint (Abandon).                                         *)
NewAttempt(s) ==
    \A t \in attempts : t.op = txn[s].op => t.number # txn[s].attempts + 1

(* Mutant of Metered: usage is recorded before the send is read back.       *)
MeteredEarly(o, out) == IF out.result # "FAILED" THEN metered \cup {o} ELSE metered

(* record_usage, once per operation, of a send that was read back.          *)
Metered(o, out) == IF out.sent /\ out.result = "SUCCEEDED" THEN metered \cup {o} ELSE metered

Provider(o, out) == sent' = [sent EXCEPT ![o] = @ + IF out.sent THEN 1 ELSE 0]

(* Mutant of ExecuteCommit: the mission is written without the table check. *)
ExecuteCommitUnchecked(s, out) ==
    LET o == txn[s].op
        m == txn[s].mission
        row == Executed(txn[s].row, out)
    IN  /\ txn[s].handler = "execute"
        /\ NewAttempt(s)
        /\ out \in Outcomes(o, txn[s].arg)
        /\ attempts' = attempts \cup
             {[op |-> o, number |-> txn[s].attempts + 1, status |-> out.result]}
        /\ op' = [op EXCEPT ![o].attempts = txn[s].attempts + 1, ![o].status = out.result]
        /\ mission' = [mission EXCEPT ![m] = row]
        /\ metered' = Metered(o, out)
        /\ Provider(o, out)
        /\ End(s)
        /\ UNCHANGED <<approval, decisions, lost, crashes, aged>>

ExecuteCommit(s, out) ==
    LET o == txn[s].op
        m == txn[s].mission
        row == Executed(txn[s].row, out)
    IN  /\ txn[s].handler = "execute"
        /\ NewAttempt(s)
        /\ out \in Outcomes(o, txn[s].arg)
        /\ row # Raised
        /\ attempts' = attempts \cup
             {[op |-> o, number |-> txn[s].attempts + 1, status |-> out.result]}
        /\ op' = [op EXCEPT ![o].attempts = txn[s].attempts + 1, ![o].status = out.result]
        /\ mission' = [mission EXCEPT ![m] = row]
        /\ metered' = Metered(o, out)
        /\ Provider(o, out)
        /\ End(s)
        /\ UNCHANGED <<approval, decisions, lost, crashes, aged>>

Rollback(s, out) ==
    LET o == txn[s].op
    IN  /\ Provider(o, out)
        /\ lost' = [lost EXCEPT ![o] = @ + IF out.sent THEN 1 ELSE 0]
        /\ End(s)
        /\ UNCHANGED <<rows, aged>>

(* The last mission transition is illegal for the loaded mission.  The      *)
(* InvalidTransition reaches `except Exception', whose own transition of    *)
(* the operation or of the mission is illegal too: the request is rolled    *)
(* back after the provider was called.                                      *)
ExecuteRaise(s, out) ==
    /\ txn[s].handler = "execute"
    /\ NewAttempt(s)
    /\ out \in Outcomes(txn[s].op, txn[s].arg)
    /\ Executed(txn[s].row, out) = Raised
    /\ Rollback(s, out)
    /\ UNCHANGED crashes

(* The process or its database connection dies between the provider call    *)
(* and the commit.                                                          *)
ExecuteCrash(s, out) ==
    /\ txn[s].handler = "execute"
    /\ NewAttempt(s)
    /\ out \in Outcomes(txn[s].op, txn[s].arg)
    /\ crashes < MaxCrashes
    /\ crashes' = crashes + 1
    /\ Rollback(s, out)

------------------------------------------------------------------------------
(* verify_unknown_external_operation                                        *)

Verified(row, outcome) ==
    MissionStep(MissionStepIf(row, "UNKNOWN", "VERIFYING"),
                IF outcome = "succeeded" THEN "COMPLETED" ELSE "FAILED")

BeginVerify(s, o, outcome) ==
    LET m == op[o].mission
    IN  /\ op[o].status = "UNKNOWN"
        /\ Verified(mission[m], outcome) # Raised
        /\ Load(s, [Idle EXCEPT !.handler = "verify", !.arg = outcome, !.op = o,
                                !.mission = m, !.row = mission[m]])

Verify(s) ==
    LET o == txn[s].op
        m == txn[s].mission
    IN  /\ txn[s].handler = "verify"
        /\ op' = [op EXCEPT ![o].status =
                    IF txn[s].arg = "succeeded" THEN "SUCCEEDED" ELSE "FAILED"]
        /\ mission' = [mission EXCEPT ![m] = Verified(txn[s].row, txn[s].arg)]
        /\ End(s)
        /\ UNCHANGED <<approval, decisions, attempts, metered, history>>

------------------------------------------------------------------------------
Begin(s) ==
    \/ \E m \in Missions : BeginLeadReview(s, m)
    \/ \E a \in Approvals, d \in {"approve", "reject", "changes"} : BeginDecide(s, a, d)
    \/ \E batch \in SUBSET Approvals : BeginExpire(s, batch)
    \/ \E a \in Approvals, o \in Ops, mode \in Modes : BeginPrepare(s, a, o, mode)
    \/ \E o \in Ops, mode \in {"run", "simulate_unknown"} : BeginExecute(s, o, mode)
    \/ \E o \in Ops, outcome \in {"succeeded", "failed"} : BeginVerify(s, o, outcome)

Finish(s) ==
    \/ LeadReview(s)
    \/ Decide(s)
    \/ Expire(s)
    \/ Prepare(s)
    \/ Verify(s)
    \/ \E out \in ProviderOutcomes \cup {Simulated, DemoRun, Denied} :
         ExecuteCommit(s, out) \/ ExecuteRaise(s, out) \/ ExecuteCrash(s, out)

(* A day passes over an operation: it leaves the window `created_at >= now  *)
(* - 1 day' of the daily count.  Operations may age in any order, which     *)
(* allows more than the clock does.                                         *)
Ages(o) ==
    /\ op[o] # AbsentOp
    /\ o \notin aged
    /\ Cardinality(aged) < MaxAged
    /\ aged' = aged \cup {o}
    /\ UNCHANGED <<rows, sent, lost, crashes, txn>>

Next ==
    \/ \E s \in Sessions : Begin(s) \/ Finish(s) \/ Abandon(s)
    \/ \E o \in Ops : Ages(o)

Spec == Init /\ [][Next]_vars

------------------------------------------------------------------------------
(* Properties of any number of concurrent sessions, crashes included.       *)

HasAttempt(o) == \E t \in attempts : t.op = o

(* Every message the provider accepted for an operation belongs to its one  *)
(* committed attempt or to a unit of work that was rolled back: whatever    *)
(* the sessions' interleaving, the unique (operation_id, attempt_number)    *)
(* lets execute_external_operation commit at most one send per operation.   *)
SendsAccounted ==
    \A o \in Ops : sent[o] <= lost[o] + (IF HasAttempt(o) THEN 1 ELSE 0)

(* Once execute_external_operation has committed a result (UNKNOWN above    *)
(* all) no session calls the provider for that operation again, not even    *)
(* one that had loaded the operation while it was still APPROVED.           *)
NoSendAfterResult ==
    [][\A o \in Ops : op[o].status \in Results => sent'[o] = sent[o]]_vars

(* No message leaves for an operation whose approval the owner has not      *)
(* approved: execute trusts the status column, and the column says APPROVED *)
(* only when decide_approval stored an approve decision.                    *)
SendNeedsApproval ==
    \A o \in Ops : sent[o] > 0 => <<op[o].approval, "approve">> \in decisions

(* The sends execute_external_operation meters stay within the plan's       *)
(* quota, within the limit of their mission and, those prepared during the  *)
(* last day, within the daily limit: sessions that passed prepare together  *)
(* are re-validated one at a time, and no verification, expiry or crash     *)
(* takes a metered send out of the counted rows.  What was prepared earlier *)
(* and sent today is not counted, so this is no bound on a day's sends.     *)
MeteredWithinLimits ==
    /\ Cardinality(metered \ aged) <= DailyLimit
    /\ \A m \in Missions : Cardinality({o \in metered : op[o].mission = m}) <= MissionLimit
    /\ Cardinality(metered) <= SendQuota
    /\ metered \subseteq LiveSucceeded

(* A send that counts against the subscription is one the provider accepted *)
(* and whose unit of work was kept, exactly once: simulated and demo runs,  *)
(* refused sends, crashes and rolled back executions leave no UsageRecord.  *)
ChargedOnlyForSent == \A o \in metered : sent[o] = lost[o] + 1

------------------------------------------------------------------------------
(* Properties that need the requests of a mission not to overlap.           *)

(* One owner approval lets at most one message out, whatever the number of  *)
(* operations prepared under it (the Mission version check of execute).     *)
OneSendPerApproval ==
    \A a \in Approvals :
      \A o1, o2 \in {o \in Ops : op[o].approval = a /\ sent[o] > 0} :
        o1 = o2 /\ sent[o1] = 1

(* An operation with a result and its mission tell the same story, so an    *)
(* UNKNOWN operation can always be verified: _mission_transition never      *)
(* rejects what verify_unknown_external_operation asks of it.               *)
OutcomeAgreement ==
    \A o \in Ops : op[o].status \in Results =>
      mission[op[o].mission].status =
        IF op[o].status = "SUCCEEDED" THEN "COMPLETED" ELSE op[o].status

(* The status decide_approval leaves is the one of the single recorded      *)
(* ApprovalDecision; an undecided or expired approval has none.             *)
DecisionAgreement ==
    \A a \in Approvals :
      {d \in {"approve", "reject", "changes"} : <<a, d>> \in decisions} =
        CASE approval[a].status = "APPROVED"          -> {"approve"}
          [] approval[a].status = "REJECTED"          -> {"reject"}
          [] approval[a].status = "CHANGES_REQUESTED" -> {"changes"}
          [] OTHER                                    -> {}

(* The empty rows of the status tables: a terminal mission, approval or     *)
(* operation never changes status again.                                    *)
TerminalStatesKept ==
    [][/\ \A m \in Missions : mission[m].status \in Terminal(MISSION_TRANSITIONS)
            => mission'[m].status = mission[m].status
       /\ \A a \in Approvals : approval[a].status \in Terminal(APPROVAL_TRANSITIONS)
            => approval'[a].status = approval[a].status
       /\ \A o \in Ops : op[o].status \in Terminal(OPERATION_TRANSITIONS)
            => op'[o].status = op[o].status]_vars

------------------------------------------------------------------------------
(* The detailed specification implements the abstract one.                  *)

(* The phase of an operation is its status, SUCCEEDED or FAILED being one.  *)
Phase(o) == CASE op[o].status = "ABSENT"   -> "absent"
              [] op[o].status = "APPROVED" -> "frozen"
              [] op[o].status = "UNKNOWN"  -> "unknown"
              [] OTHER                     -> "resolved"

Promise == INSTANCE Delivery WITH
    phase  <- [o \in Ops |-> Phase(o)],
    told   <- [o \in Ops |-> sent[o] - lost[o]],
    strays <- lost

(* Overlapping executions, crashes, late verifications and expiries never   *)
(* take an operation where Delivery does not: one result, at most one       *)
(* message told of by it, no message once it is stored, and an UNKNOWN that *)
(* verify_unknown_external_operation resolves without sending.              *)
DeliversAsPromised == Promise!Spec
==============================================================================
