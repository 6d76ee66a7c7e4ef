---------------------------- MODULE StateMachine ----------------------------
EXTENDS Naturals
(***************************************************************************)
(* The status tables of domain/state_machine.py.  Every status column the  *)
(* services write goes through `transition', which raises                  *)
(* InvalidTransition (a ValueError, answered 500 and rolled back by        *)
(* db_session) when the target is not in the table's row for the current   *)
(* status.  ABSENT is not a status of the code: it marks a row that has    *)
(* not been inserted yet.                                                  *)
(***************************************************************************)

MissionStatus ==
    {"INGESTED", "DISPATCH_REVIEW", "ROUTED", "LEAD_TRIAGE", "PLANNING",
     "READY", "EXECUTING", "LEAD_REVIEW", "APPROVAL_REQUIRED", "APPROVED",
     "ACTION_EXECUTING", "VERIFYING", "COMPLETED", "NEEDS_INFORMATION",
     "BLOCKED", "FAILED", "CANCELLED", "UNKNOWN"}

WorkItemStatus ==
    {"DRAFT", "READY", "WAITING_DEPENDENCY", "ASSIGNED", "RUNNING", "SUBMITTED",
     "ACCEPTED", "REVISION_REQUIRED", "BLOCKED", "FAILED", "CANCELLED"}

AgentRunStatus ==
    {"CREATED", "CONTEXT_PREPARED", "RUNNING", "TOOL_WAIT", "OUTPUT_SUBMITTED",
     "TIMED_OUT", "FAILED", "CANCELLED", "QUARANTINED", "CLOSED"}

ApprovalStatus ==
    {"DRAFT", "PENDING", "APPROVED", "REJECTED", "CHANGES_REQUESTED",
     "EXPIRED", "INVALIDATED", "CANCELLED"}

ExternalOperationStatus ==
    {"PREPARED", "POLICY_REVIEWED", "APPROVAL_REQUIRED", "APPROVED",
     "EXECUTING", "VERIFYING", "SUCCEEDED", "BLOCKED", "FAILED", "UNKNOWN",
     "CANCELLED"}

CollaborationRequestStatus ==
    {"PENDING", "ACCEPTED", "IN_PROGRESS", "COMPLETED", "DECLINED", "FAILED", "CANCELLED"}

MISSION_TRANSITIONS ==
    [st \in MissionStatus |->
       CASE st = "INGESTED"          -> {"DISPATCH_REVIEW", "CANCELLED"}
         [] st = "DISPATCH_REVIEW"   -> {"ROUTED", "NEEDS_INFORMATION", "CANCELLED"}
         [] st = "ROUTED"            -> {"LEAD_TRIAGE", "CANCELLED"}
         [] st = "LEAD_TRIAGE"       -> {"PLANNING", "NEEDS_INFORMATION", "BLOCKED", "CANCELLED"}
         [] st = "PLANNING"          -> {"READY", "NEEDS_INFORMATION", "BLOCKED", "CANCELLED"}
         [] st = "READY"             -> {"EXECUTING", "CANCELLED"}
         [] st = "EXECUTING"         -> {"LEAD_REVIEW", "BLOCKED", "FAILED", "CANCELLED"}
         [] st = "LEAD_REVIEW"       -> {"EXECUTING", "APPROVAL_REQUIRED", "COMPLETED", "BLOCKED", "CANCELLED"}
         [] st = "APPROVAL_REQUIRED" -> {"APPROVED", "EXECUTING", "CANCELLED"}
         [] st = "APPROVED"          -> {"ACTION_EXECUTING", "CANCELLED"}
         [] st = "ACTION_EXECUTING"  -> {"VERIFYING", "FAILED", "UNKNOWN"}
         [] st = "VERIFYING"         -> {"COMPLETED", "FAILED", "UNKNOWN"}
         [] st = "NEEDS_INFORMATION" -> {"LEAD_TRIAGE", "PLANNING", "CANCELLED"}
         [] st = "BLOCKED"           -> {"LEAD_TRIAGE", "PLANNING", "EXECUTING", "CANCELLED"}
         [] st = "UNKNOWN"           -> {"VERIFYING", "COMPLETED", "FAILED"}
         [] OTHER                    -> {}]

WORK_ITEM_TRANSITIONS ==
    [st \in WorkItemStatus |->
       CASE st = "DRAFT"              -> {"READY", "CANCELLED"}
         [] st = "READY"              -> {"WAITING_DEPENDENCY", "ASSIGNED", "CANCELLED"}
         [] st = "WAITING_DEPENDENCY" -> {"ASSIGNED", "BLOCKED", "CANCELLED"}
         [] st = "ASSIGNED"           -> {"RUNNING", "BLOCKED", "CANCELLED"}
         [] st = "RUNNING"            -> {"SUBMITTED", "BLOCKED", "FAILED", "CANCELLED"}
         [] st = "SUBMITTED"          -> {"ACCEPTED", "REVISION_REQUIRED", "BLOCKED"}
         [] st = "REVISION_REQUIRED"  -> {"ASSIGNED", "CANCELLED"}
         [] st = "BLOCKED"            -> {"READY", "ASSIGNED", "CANCELLED"}
         [] OTHER                     -> {}]

AGENT_RUN_TRANSITIONS ==
    [st \in AgentRunStatus |->
       CASE st = "CREATED"          -> {"CONTEXT_PREPARED", "CANCELLED"}
         [] st = "CONTEXT_PREPARED" -> {"RUNNING", "CANCELLED", "QUARANTINED"}
         [] st = "RUNNING"          -> {"TOOL_WAIT", "OUTPUT_SUBMITTED", "TIMED_OUT",
                                        "FAILED", "CANCELLED", "QUARANTINED"}
         [] st = "TOOL_WAIT"        -> {"RUNNING", "TIMED_OUT", "FAILED", "CANCELLED"}
         [] st = "OUTPUT_SUBMITTED" -> {"CLOSED", "QUARANTINED"}
         [] st = "CLOSED"           -> {}
         [] OTHER                   -> {"CLOSED"}]

APPROVAL_TRANSITIONS ==
    [st \in ApprovalStatus |->
       CASE st = "DRAFT"             -> {"PENDING", "CANCELLED"}
         [] st = "PENDING"           -> {"APPROVED", "REJECTED", "CHANGES_REQUESTED",
                                         "EXPIRED", "INVALIDATED", "CANCELLED"}
         [] st = "CHANGES_REQUESTED" -> {"INVALIDATED"}
         [] st = "APPROVED"          -> {"INVALIDATED"}
         [] OTHER                    -> {}]

OPERATION_TRANSITIONS ==
    [st \in ExternalOperationStatus |->
       CASE st = "PREPARED"          -> {"POLICY_REVIEWED", "BLOCKED", "CANCELLED"}
         [] st = "POLICY_REVIEWED"   -> {"APPROVAL_REQUIRED", "APPROVED", "BLOCKED", "CANCELLED"}
         [] st = "APPROVAL_REQUIRED" -> {"APPROVED", "BLOCKED", "CANCELLED"}
         [] st = "APPROVED"          -> {"EXECUTING", "CANCELLED"}
         [] st = "EXECUTING"         -> {"VERIFYING", "FAILED", "UNKNOWN"}
         [] st = "VERIFYING"         -> {"SUCCEEDED", "FAILED", "UNKNOWN"}
         [] st = "UNKNOWN"           -> {"VERIFYING", "SUCCEEDED", "FAILED"}
         [] OTHER                    -> {}]

COLLABORATION_REQUEST_TRANSITIONS ==
    [st \in CollaborationRequestStatus |->
       CASE st = "PENDING"     -> {"ACCEPTED", "DECLINED", "CANCELLED"}
         [] st = "ACCEPTED"    -> {"IN_PROGRESS", "DECLINED"}
         [] st = "IN_PROGRESS" -> {"COMPLETED", "FAILED", "CANCELLED"}
         [] OTHER              -> {}]

Terminal(table) == {st \in DOMAIN table : table[st] = {}}

(* transition(current, target, table), "RAISED" being the exception.        *)
Transition(table, current, target) ==
    IF current # "RAISED" /\ target \in table[current] THEN target ELSE "RAISED"

(* A row and the row an illegal transition would leave: the exception.     *)
Raised == [status |-> "RAISED", version |-> 0]

(* _mission_transition: the table lookup and version + 1.  Once a          *)
(* transition has raised, the later ones of the handler are not reached.   *)
MissionStep(row, target) ==
    IF row # Raised /\ target \in MISSION_TRANSITIONS[row.status]
      THEN [status |-> target, version |-> row.version + 1]
      ELSE Raised

(* The conditional transition `if mission.status == from: ...'.            *)
MissionStepIf(row, from, target) ==
    IF row.status = from THEN MissionStep(row, target) ELSE row
=============================================================================
