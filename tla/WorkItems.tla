------------------------------ MODULE WorkItems ------------------------------
(***************************************************************************)
(* The execution of one mission's plan: start_work_item, execute_agent_run *)
(* (worker_tick and the API route), submit_agent_run, review_work_item,    *)
(* lead_review_mission and the time-outs of scheduler_tick, as concurrent  *)
(* units of work on the same rows.                                         *)
(*                                                                         *)
(* As in ExternalActions a handler first loads and later writes what it    *)
(* computed from the loaded rows, and the audit lock keeps two write       *)
(* phases apart.  What is particular here: a worker selects its runs once  *)
(* per tick and its session does not expire them, so a run may be picked   *)
(* long before its turn; execute_agent_run flushes started_at before the   *)
(* model call, so the run's row stays locked (claimed) during the call.    *)
(***************************************************************************)
EXTENDS Naturals, FiniteSets, StateMachine

CONSTANTS
    Sessions,   \* API requests and worker turns that may overlap
    Schedulers, \* scheduler_tick callers; a worker's session may be both
    Items,      \* WorkItem rows of the mission
    Deps,       \* depends_on of each item (WorkItemDependency rows)
    Runs,       \* bound: AgentRun rows that may be created
    Claims,     \* verification_status of the evidence the model may submit
    None        \* an identity that is not set

(* Evidence.verification_status.                                            *)
VerificationStatus == {"verified", "unverified", "disputed"}

(* validate_acyclic accepted the plan: every set of items has one that      *)
(* depends on none of the others.                                           *)
ASSUME PlanAssumption ==
    /\ Deps \in [Items -> SUBSET Items]
    /\ \A S \in SUBSET Items : S # {} => \E i \in S : Deps[i] \cap S = {}
    /\ Claims \subseteq VerificationStatus
    /\ None \notin Items \cup Runs

VARIABLES
    item,     \* WorkItem.status
    run,      \* AgentRun rows: status, work item, the way it was closed
    grants,   \* runs with active ToolGrant rows
    evidence, \* per item, the verification_status of its artifacts' evidence
    metered,  \* runs with an agent_runs UsageRecord
    overdue,  \* running runs whose updated_at is older than timeout_seconds
    reviewed, \* lead_review_mission has committed
    txn       \* the units of work in flight

vars == <<item, run, grants, evidence, metered, overdue, reviewed, txn>>
rows == <<item, run, grants, evidence, metered, reviewed>>

------------------------------------------------------------------------------
(* Rows and requests.                                                       *)

NoRun == [status |-> "ABSENT", item |-> None, via |-> "none"]
RunRow == [status : AgentRunStatus, item : Items,
           via : {"none", "OUTPUT_SUBMITTED", "FAILED", "TIMED_OUT"}]

Idle == [handler |-> "idle", item |-> None, run |-> None, runs |-> {},
         seen |-> "RAISED", claimed |-> {}]

Txn == [handler : {"idle", "start", "picked", "execute", "submit", "accept",
                   "revise", "lead_review", "timeout"},
        item : Items \cup {None}, run : Runs \cup {None}, runs : SUBSET Runs,
        seen : WorkItemStatus \cup {"RAISED"}, claimed : SUBSET Runs]

(* Every column holds a value of its type: no handler writes the status of  *)
(* a transition that raised.                                                *)
TypeOK ==
    /\ item \in [Items -> WorkItemStatus]
    /\ run \in [Runs -> RunRow \cup {NoRun}]
    /\ grants \subseteq Runs /\ metered \subseteq Runs /\ overdue \subseteq Runs
    /\ evidence \in [Items -> SUBSET Claims]
    /\ reviewed \in BOOLEAN
    /\ txn \in [Sessions \cup Schedulers -> Txn]

(* After approve_plan and start_execution.                                  *)
Init ==
    /\ item = [i \in Items |-> IF Deps[i] = {} THEN "READY" ELSE "WAITING_DEPENDENCY"]
    /\ run = [r \in Runs |-> NoRun]
    /\ grants = {} /\ metered = {} /\ overdue = {}
    /\ evidence = [i \in Items |-> {}]
    /\ reviewed = FALSE
    /\ txn = [s \in Sessions \cup Schedulers |-> Idle]

Running(r) == run[r].status = "RUNNING"

Load(s, t) == /\ txn[s] = Idle
              /\ txn' = [txn EXCEPT ![s] = t]
              /\ UNCHANGED <<rows, overdue>>

End(s) == txn' = [txn EXCEPT ![s] = Idle]

(* A request is rolled back: an illegal transition, a deadlock on the run's *)
(* row, a crash.  The model's answer is lost with it.                       *)
Abandon(s) == /\ txn[s] # Idle
              /\ End(s)
              /\ UNCHANGED <<rows, overdue>>

(* Nobody else's uncommitted update of the run's row is in the way.         *)
Unlocked(s, r) == \A t \in (Sessions \cup Schedulers) \ {s} : r \notin txn[t].claimed

(* No tick is in the middle of its write phase, with the audit lock.        *)
AuditFree(s) == \A k \in Schedulers \ {s} : txn[k].handler = "timeout" => txn[k].claimed = {}

Commit(s) == AuditFree(s) /\ End(s)

------------------------------------------------------------------------------
(* start_work_item.  A paused company refuses the request, which is the     *)
(* same as the lead not making it.                                          *)

(* Mutant of DepsAccepted: one accepted dependency is enough.               *)
DepsAcceptedOne(i) == Deps[i] = {} \/ \E d \in Deps[i] : item[d] = "ACCEPTED"

DepsAccepted(i) == \A d \in Deps[i] : item[d] = "ACCEPTED"

(* Mutant of Assigned: a finished item may be dispatched again.             *)
AssignedFinished(i) ==
    IF item[i] \notin {"RUNNING", "SUBMITTED", "CANCELLED"} THEN "ASSIGNED" ELSE item[i]

(* Items with dependencies have their own branch, which moves only          *)
(* WAITING_DEPENDENCY to ASSIGNED.                                          *)
Assigned(i) ==
    LET from == IF Deps[i] # {} THEN {"WAITING_DEPENDENCY"}
                                ELSE {"READY", "REVISION_REQUIRED", "BLOCKED"}
    IN  IF item[i] \in from THEN Transition(WORK_ITEM_TRANSITIONS, item[i], "ASSIGNED")
                            ELSE item[i]

Started(i) == Transition(WORK_ITEM_TRANSITIONS, Assigned(i), "RUNNING")

BeginStart(s, i) ==
    /\ DepsAccepted(i)
    /\ Started(i) = "RUNNING"
    /\ Load(s, [Idle EXCEPT !.handler = "start", !.item = i])

CreateRunGrants(r) == grants' = grants \cup {r}
RevokeRunGrants(r) == grants' = grants \ {r}

Start(s) ==
    LET i == txn[s].item
    IN  /\ txn[s].handler = "start"
        /\ item' = [item EXCEPT ![i] = "RUNNING"]
        /\ \E r \in Runs :
             /\ run[r] = NoRun
             /\ run' = [run EXCEPT ![r] =
                  [status |-> "RUNNING", item |-> i, via |-> "none"]]
             /\ CreateRunGrants(r)
        /\ Commit(s)
        /\ UNCHANGED <<evidence, metered, overdue, reviewed>>

------------------------------------------------------------------------------
(* execute_agent_run and submit_agent_run                                   *)

(* The worker's select at the start of its tick, or the API request.        *)
Pick(s, r) ==
    /\ Running(r)
    /\ Load(s, [Idle EXCEPT !.handler = "picked", !.run = r])

(* The run's turn: the status check reads the picked run object, and the    *)
(* work item is loaded.                                                     *)
BeginExecute(s) ==
    /\ txn[s].handler = "picked"
    /\ txn' = [txn EXCEPT ![s].handler = "execute", ![s].seen = item[run[txn[s].run].item]]
    /\ UNCHANGED <<rows, overdue>>

(* started_at is flushed before the model is called.                        *)
Claim(s) ==
    /\ txn[s].handler = "execute" /\ txn[s].claimed = {}
    /\ Unlocked(s, txn[s].run)
    /\ txn' = [txn EXCEPT ![s].claimed = {txn[s].run}]
    /\ UNCHANGED <<rows, overdue>>

(* complete_structured answers; only the verification_status of the         *)
(* evidence matters here.                                                   *)
ModelCalled(s) == txn[s].handler = "execute" /\ txn[s].claimed # {}
ModelAnswers == SUBSET Claims

(* The two transitions that close a run that was loaded RUNNING.            *)
Closed(via) == Transition(AGENT_RUN_TRANSITIONS,
                          Transition(AGENT_RUN_TRANSITIONS, "RUNNING", via), "CLOSED")

CloseRun(r, via) ==
    /\ run' = [run EXCEPT ![r].status = Closed(via), ![r].via = via]
    /\ overdue' = overdue \ {r}

(* submit_agent_run from the loaded run and the item status at hand; the    *)
(* output carries any number of evidence claims, or none.                   *)
Submit(s, seen, claims) ==
    LET r == txn[s].run
        i == run[r].item
    IN  /\ Transition(WORK_ITEM_TRANSITIONS, seen, "SUBMITTED") = "SUBMITTED"
        /\ CloseRun(r, "OUTPUT_SUBMITTED")
        /\ RevokeRunGrants(r)
        /\ evidence' = [evidence EXCEPT ![i] = @ \cup claims]
        /\ item' = [item EXCEPT ![i] = "SUBMITTED"]
        /\ Commit(s)
        /\ UNCHANGED reviewed

(* The model answered.  When the loaded item is not RUNNING, submit raises, *)
(* `except' raises too (the run is already CLOSED): only Abandon is left.   *)
ExecuteSucceeds(s, claims) ==
    /\ ModelCalled(s)
    /\ Submit(s, txn[s].seen, claims)
    /\ metered' = metered \cup {txn[s].run}

(* Mutant of Blocked: the item's loaded status is not looked at.            *)
BlockedAlways(seen, i) == Transition(WORK_ITEM_TRANSITIONS, seen, "BLOCKED")

(* Mutant of Blocked: the item stays RUNNING when the model call fails.     *)
BlockedNever(seen, i) == item[i]

Blocked(seen, i) ==
    IF seen = "RUNNING" THEN Transition(WORK_ITEM_TRANSITIONS, seen, "BLOCKED") ELSE item[i]

(* complete_structured raises: before the flush when the tenant's budget is *)
(* used up or the provider has no agreement, after it when the provider     *)
(* fails or the answer does not fit agent_output_schema.                    *)
ModelRaises(s) == txn[s].handler = "execute" /\ Unlocked(s, txn[s].run)

(* Mutant of ExecuteFails: a failing run keeps its grants.                  *)
ExecuteFailsKeepsGrants(s) ==
    LET r == txn[s].run
        i == run[r].item
    IN  /\ ModelRaises(s)
        /\ CloseRun(r, "FAILED")
        /\ item' = [item EXCEPT ![i] = Blocked(txn[s].seen, i)]
        /\ Commit(s)
        /\ UNCHANGED <<grants, evidence, metered, reviewed>>

(* The model call failed: the run is closed and the item BLOCKED.           *)
ExecuteFails(s) ==
    LET r == txn[s].run
        i == run[r].item
    IN  /\ ModelRaises(s)
        /\ CloseRun(r, "FAILED")
        /\ RevokeRunGrants(r)
        /\ item' = [item EXCEPT ![i] = Blocked(txn[s].seen, i)]
        /\ Commit(s)
        /\ UNCHANGED <<evidence, metered, reviewed>>

(* The run_submit route: the item is read in the write phase.               *)
BeginSubmit(s, r) ==
    /\ Running(r)
    /\ Load(s, [Idle EXCEPT !.handler = "submit", !.run = r])

SubmitOutput(s, claims) ==
    /\ txn[s].handler = "submit"
    /\ Unlocked(s, txn[s].run)
    /\ Submit(s, item[run[txn[s].run].item], claims)
    /\ UNCHANGED metered

------------------------------------------------------------------------------
(* review_work_item and lead_review_mission                                 *)

(* Mutant of Passed: an artifact without verified evidence is enough.       *)
PassedAny(i) == evidence[i] # {}

(* require_work_item_quality over all artifacts of the item.                *)
Passed(i) == "verified" \in evidence[i] /\ "disputed" \notin evidence[i]

BeginReview(s, i, decision) ==
    /\ item[i] = "SUBMITTED"
    /\ decision = "accept" => Passed(i)
    /\ Load(s, [Idle EXCEPT !.handler = decision, !.item = i])

(* Mutant of Unblocked: the item just accepted is not counted as accepted.  *)
UnblockedLate(i, j) ==
    /\ i \in Deps[j] /\ item[j] = "WAITING_DEPENDENCY"
    /\ \A d \in Deps[j] : item[d] = "ACCEPTED"

(* Accepting i assigns the items that waited for it only; their other       *)
(* dependencies are read in the write phase.                                *)
Unblocked(i, j) ==
    /\ i \in Deps[j] /\ item[j] = "WAITING_DEPENDENCY"
    /\ \A d \in Deps[j] \ {i} : item[d] = "ACCEPTED"

Accept(s) ==
    LET i == txn[s].item
    IN  /\ txn[s].handler = "accept"
        /\ item' = [j \in Items |-> IF j = i THEN "ACCEPTED"
                                   ELSE IF Unblocked(i, j) THEN "ASSIGNED" ELSE item[j]]
        /\ Commit(s)
        /\ UNCHANGED <<run, grants, evidence, metered, overdue, reviewed>>

Revise(s) ==
    /\ txn[s].handler = "revise"
    /\ item' = [item EXCEPT ![txn[s].item] = "REVISION_REQUIRED"]
    /\ Commit(s)
    /\ UNCHANGED <<run, grants, evidence, metered, overdue, reviewed>>

BeginLeadReview(s) ==
    /\ ~reviewed /\ Items # {}
    /\ \A i \in Items : item[i] = "ACCEPTED"
    /\ Load(s, [Idle EXCEPT !.handler = "lead_review"])

LeadReview(s) ==
    /\ txn[s].handler = "lead_review"
    /\ reviewed' = TRUE
    /\ Commit(s)
    /\ UNCHANGED <<item, run, grants, evidence, metered, overdue>>

------------------------------------------------------------------------------
(* scheduler_tick: time-outs                                                *)

(* The clock passes updated_at + timeout_seconds of a running run.          *)
Overdue(r) ==
    /\ Running(r) /\ r \notin overdue
    /\ overdue' = overdue \cup {r}
    /\ UNCHANGED <<rows, txn>>

(* Mutant of Expired: only runs whose item is RUNNING are looked at.        *)
ExpiredOfRunningItems ==
    {r \in overdue : Running(r) /\ item[run[r].item] = "RUNNING"}

Expired == {r \in overdue : Running(r)}

(* The runs are selected together; the first one's item is loaded before    *)
(* the audit lock is taken.                                                 *)
BeginTimeout(k) ==
    \E first \in Expired :
      Load(k, [Idle EXCEPT !.handler = "timeout", !.run = first, !.runs = Expired,
                           !.seen = item[run[first].item]])

(* The loop updates one run after the other, holding the audit lock from    *)
(* the first on: it may wait for a row whose executor waits for the audit   *)
(* lock, a deadlock the database resolves by rolling the executor back      *)
(* (Abandon).  A tick that is the victim changes nothing and comes again.   *)
TimeoutRow(k, r) ==
    /\ txn[k].handler = "timeout"
    /\ r \in txn[k].runs \ txn[k].claimed
    /\ txn[k].claimed = {} => r = txn[k].run
    /\ AuditFree(k) /\ Unlocked(k, r)
    /\ txn' = [txn EXCEPT ![k].claimed = @ \cup {r}]
    /\ UNCHANGED <<rows, overdue>>

(* The item status the loop sees for a run: loaded early for the first      *)
(* run's item, in the write phase for the others.                           *)
Seen(k, i) == IF i = run[txn[k].run].item THEN txn[k].seen ELSE item[i]

(* Neither the grants are revoked nor the table consulted for the item.     *)
Timeout(k) ==
    /\ txn[k].handler = "timeout"
    /\ txn[k].claimed = txn[k].runs
    /\ run' = [r \in Runs |-> IF r \in txn[k].runs
                 THEN [run[r] EXCEPT !.status = Closed("TIMED_OUT"), !.via = "TIMED_OUT"]
                 ELSE run[r]]
    /\ item' = [i \in Items |->
         IF (\E r \in txn[k].runs : run[r].item = i) /\ Seen(k, i) = "RUNNING"
           THEN "FAILED" ELSE item[i]]
    /\ overdue' = overdue \ txn[k].runs
    /\ Commit(k)
    /\ UNCHANGED <<grants, evidence, metered, reviewed>>

------------------------------------------------------------------------------
Begin(s) ==
    \/ \E i \in Items : \/ BeginStart(s, i)
                        \/ \E decision \in {"accept", "revise"} : BeginReview(s, i, decision)
    \/ \E r \in Runs : Pick(s, r) \/ BeginSubmit(s, r)
    \/ BeginLeadReview(s)

Finish(s) ==
    \/ Start(s)
    \/ \E claims \in ModelAnswers : ExecuteSucceeds(s, claims)
    \/ \E claims \in SUBSET Claims : SubmitOutput(s, claims)
    \/ ExecuteFails(s)
    \/ Accept(s)
    \/ Revise(s)
    \/ LeadReview(s)

Next ==
    \/ \E s \in Sessions : Begin(s) \/ BeginExecute(s) \/ Claim(s) \/ Finish(s) \/ Abandon(s)
    \/ \E k \in Schedulers : BeginTimeout(k) \/ Timeout(k) \/ \E r \in Runs : TimeoutRow(k, r)
    \/ \E r \in Runs : Overdue(r)

Spec == Init /\ [][Next]_vars

(* Time passes; a tick comes round again; a model call ends (its request    *)
(* has a time-out) and the unit of work with it; the row lock a tick waits  *)
(* for is granted in turn.  Nothing is assumed of the lead or of the        *)
(* worker: it is the scheduler that must close what they leave behind.      *)
Fairness ==
    /\ \A r \in Runs : WF_vars(Overdue(r))
    /\ \A k \in Schedulers : /\ WF_vars(BeginTimeout(k)) /\ WF_vars(Timeout(k))
                             /\ \A r \in Runs : SF_vars(TimeoutRow(k, r))
    /\ \A s \in Sessions : WF_vars(txn[s].claimed # {} /\ (Finish(s) \/ Abandon(s)))

FairSpec == Spec /\ Fairness

------------------------------------------------------------------------------
(* Properties of overlapping requests.                                      *)

(* A RUNNING item always has a RUNNING run: whatever stale status a worker, *)
(* a lead or the scheduler writes, no item is left RUNNING with all its     *)
(* runs closed, where neither execute_agent_run nor scheduler_tick would    *)
(* ever look at it again.                                                   *)
NoOrphanItem ==
    \A i \in Items : item[i] = "RUNNING" => \E r \in Runs : Running(r) /\ run[r].item = i

(* review_work_item accepts only what the quality gate saw verified, and    *)
(* no late or repeated submission can undo that.                            *)
AcceptedIsVerified ==
    \A i \in Items : item[i] = "ACCEPTED" => "verified" \in evidence[i]

(* An item that waits for its dependencies is told when the last of them    *)
(* is accepted: two reviews that accept one dependency each at the same     *)
(* time do not both leave it to the other to assign it.                     *)
NobodyWaitsForNothing ==
    \A i \in Items : item[i] = "WAITING_DEPENDENCY" =>
      \E d \in Deps[i] : item[d] # "ACCEPTED"

(* The three ways of closing a run leave its books in order, in whatever   *)
(* order they overwrite each other: only a time-out (which does not call    *)
(* revoke_run_grants) leaves ToolGrant rows active, and a run that has a    *)
(* usage record never runs again.                                           *)
ClosedRunsSettled ==
    /\ \A r \in grants : Running(r) \/ run[r].via = "TIMED_OUT"
    /\ \A r \in metered : run[r].status = "CLOSED"

(* Every run that is started is closed in the end, a duplicate one that     *)
(* execute_agent_run can only fail to submit included.                      *)
EveryRunCloses == \A r \in Runs : Running(r) ~> run[r].status = "CLOSED"

(* No item stays RUNNING for ever.                                          *)
EveryItemLeavesRunning ==
    \A i \in Items : item[i] = "RUNNING" ~> item[i] # "RUNNING"

------------------------------------------------------------------------------
(* Properties of requests that do not overlap.                              *)

(* A run is open exactly while its item is RUNNING, and it is the only one. *)
OneOpenRunPerItem ==
    \A i \in Items :
      Cardinality({r \in Runs : Running(r) /\ run[r].item = i}) =
        IF item[i] = "RUNNING" THEN 1 ELSE 0

(* Work on an item starts only after all its dependencies are accepted,     *)
(* and they stay accepted while it is worked on.                            *)
StartedAfterDependencies ==
    \A i \in Items :
      item[i] \notin {"READY", "WAITING_DEPENDENCY"} =>
        \A d \in Deps[i] : item[d] = "ACCEPTED"

(* The empty rows of WORK_ITEM_TRANSITIONS: an ACCEPTED or FAILED item      *)
(* never changes again.                                                     *)
TerminalItemsKept ==
    [][\A i \in Items : item[i] \in Terminal(WORK_ITEM_TRANSITIONS) => item'[i] = item[i]]_vars

------------------------------------------------------------------------------
(* "all work items must be accepted before mission review": after the lead  *)
(* review every item is and stays accepted.                                 *)
ReviewedItemsAccepted == reviewed => \A i \in Items : item[i] = "ACCEPTED"
=============================================================================
