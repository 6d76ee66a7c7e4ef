--------------------------- MODULE MissionPlanning ---------------------------
(***************************************************************************)
(* From a routed mission to a mission in execution: accept_mission,        *)
(* plan_mission (build_plan, validate_acyclic), the owner's edits of the   *)
(* plan (update_work_item, add_dependency, remove_dependency),             *)
(* approve_plan, start_execution and set_control, on one mission.          *)
(* MissionIntake creates the mission; WorkItems takes over where this      *)
(* module ends: its Init and its PlanAssumption are what PlanAcyclic and   *)
(* HandOver state here.                                                    *)
(*                                                                         *)
(* The ORM updates the columns a handler changed and no others: an edit    *)
(* writes the mission's version, never its status, and replaces whatever   *)
(* version was committed since it loaded.                                  *)
(***************************************************************************)
EXTENDS Naturals, FiniteSets, StateMachine, UnitOfWork

CONSTANTS
    Keys,       \* item_key values the planner may use
    Answers,    \* plans the model may answer: records of keys and deps
    MaxVersion, \* bound: mission versions
    MaxPlans    \* bound: plans built

(* What _plan_schema leaves of an answer that matters here: the item keys   *)
(* and depends_on.  The schema does not ask that depends_on name items.     *)
PlanSchema == [keys : SUBSET Keys, deps : SUBSET (Keys \X Keys)]

ASSUME PlanningAssumption ==
    /\ IsFiniteSet(Keys) /\ Answers \subseteq PlanSchema
    /\ MaxVersion \in Nat /\ MaxPlans \in Nat

VARIABLES
    mission,  \* Mission: status and version
    item,     \* WorkItem.status by item_key
    deps,     \* WorkItemDependency rows, <<item, depends on>>
    plans,    \* plans built so far; the identity of the item rows
    content,  \* history: changes made to the plan so far
    shown,    \* version and content of the plan the owner looked at
    paused    \* SystemControl: company, team or mission

planVars == <<mission, item, deps, plans, content>>
vars == <<planVars, shown, paused, uow>>

------------------------------------------------------------------------------
(* Rows                                                                     *)

MissionRow == [status : MissionStatus, version : Nat]

(* Each of them reads the mission and writes it.                            *)
Handlers == {"accept", "plan", "start", "approve", "edit", "add", "remove"}

Txn == [handler : {"accept", "plan", "start"}, seen : MissionRow]
         \cup [handler : {"approve"}, seen : MissionRow,
               plan : Nat, deps : SUBSET (Keys \X Keys), content : Nat]
         \cup [handler : {"edit", "add", "remove"}, seen : MissionRow,
               plan : Nat, edge : Keys \X Keys]

(* Every column holds a value of its type.                                  *)
TypeOK ==
    /\ mission \in MissionRow
    /\ item \in [Keys -> WorkItemStatus \cup {"ABSENT"}]
    /\ deps \subseteq Keys \X Keys
    /\ plans \in 0..MaxPlans /\ content \in Nat
    /\ shown \in [version : Nat, content : Nat]
    /\ paused \in BOOLEAN
    /\ txn \in [Sessions -> Txn \cup {Idle}] /\ UnitsOK

(* confirm_dispatch has created the mission.                                *)
Init ==
    /\ mission = [status |-> "ROUTED", version |-> 3]
    /\ item = [k \in Keys |-> "ABSENT"] /\ deps = {}
    /\ plans = 0 /\ content = 0
    /\ shown = [version |-> 0, content |-> 0]
    /\ paused = FALSE
    /\ UnitsInit

Items == {k \in Keys : item[k] # "ABSENT"}

------------------------------------------------------------------------------
(* Planning                                                                 *)

(* Mutant of HasCycle: the last round is forgotten, so that a graph whose    *)
(* nodes are not all peeled off passes.                                     *)
HasCycleNot(nodes, edges) == FALSE

(* _has_cycle and validate_acyclic: nodes all of whose dependencies have    *)
(* been taken off the graph are taken off, round by round.                  *)
HasCycle(nodes, edges) ==
    LET peeled[n \in 0..Cardinality(Keys)] ==
          IF n = 0 THEN {}
          ELSE {k \in nodes : \A d \in nodes : <<k, d>> \in edges => d \in peeled[n - 1]}
    IN  peeled[Cardinality(Keys)] # nodes

ValidateAcyclic(answer) ==
    /\ answer.deps \subseteq answer.keys \X answer.keys
    /\ ~HasCycle(answer.keys, answer.deps)

(* _version: a request names the version its caller has seen; one that      *)
(* names another is refused.                                                *)
BeginMissionStep(s, h) ==
    /\ mission.version < MaxVersion
    /\ Load(s, [handler |-> h, seen |-> mission])
    /\ UNCHANGED <<planVars, shown, paused>>

BeginAccept(s) ==
    /\ mission.status = "ROUTED"
    /\ BeginMissionStep(s, "accept")

Accept(s) ==
    /\ txn[s].handler = "accept"
    /\ mission' = MissionStep(txn[s].seen, "LEAD_TRIAGE")
    /\ Commit(s, Handlers)
    /\ UNCHANGED <<item, deps, plans, content, shown, paused>>

BeginPlan(s) ==
    /\ mission.status \in {"LEAD_TRIAGE", "PLANNING"}
    /\ plans < MaxPlans /\ mission.version + 2 <= MaxVersion
    /\ BeginMissionStep(s, "plan")

(* Mutant of Planned: a replanning makes the transition again.              *)
PlannedAlways(seen) == [MissionStep(seen, "PLANNING") EXCEPT !.version = @ + 1]

(* The first plan moves the mission to PLANNING; a later one leaves the     *)
(* status column alone.                                                     *)
Planned(seen) ==
    IF seen.status = "LEAD_TRIAGE"
      THEN [MissionStep(seen, "PLANNING") EXCEPT !.version = @ + 1]
      ELSE [mission EXCEPT !.version = seen.version + 1]

(* build_plan selects the items after the model has answered, deletes them  *)
(* (their dependencies go with them) and inserts the new ones.              *)
Replaced(answer) ==
    /\ item' = [k \in Keys |-> IF k \in answer.keys THEN "DRAFT" ELSE "ABSENT"]
    /\ deps' = answer.deps

Plan(s, answer) ==
    /\ txn[s].handler = "plan"
    /\ plans < MaxPlans
    /\ ValidateAcyclic(answer)
    /\ mission' = Planned(txn[s].seen)
    /\ Replaced(answer)
    /\ plans' = plans + 1 /\ content' = content + 1
    /\ Commit(s, Handlers)
    /\ UNCHANGED <<shown, paused>>

(* The owner opens the mission.                                             *)
Show ==
    /\ mission.status = "PLANNING"
    /\ shown' = [version |-> mission.version, content |-> content]
    /\ UNCHANGED <<planVars, paused, uow>>

------------------------------------------------------------------------------
(* The owner's edits of the plan                                            *)

BeginEdit(s, h, edge) ==
    /\ mission.status = "PLANNING"
    /\ mission.version < MaxVersion
    /\ Load(s, [handler |-> h, seen |-> mission, plan |-> plans, edge |-> edge])
    /\ UNCHANGED <<planVars, shown, paused>>

BeginUpdate(s, k) == k \in Items /\ BeginEdit(s, "edit", <<k, k>>)

BeginAdd(s, k, d) ==
    /\ {k, d} \subseteq Items /\ k # d /\ <<k, d>> \notin deps
    /\ ~HasCycle(Items, deps \cup {<<k, d>>})
    /\ BeginEdit(s, "add", <<k, d>>)

BeginRemove(s, edge) == edge \in deps /\ BeginEdit(s, "remove", edge)

(* Mutant of PlanEdited: an edit does not count as a new version.           *)
PlanEditedSilently(s) ==
    /\ content' = content + 1
    /\ UNCHANGED mission

(* plan_version and version + 1, on top of the loaded version.              *)
PlanEdited(s) ==
    /\ content' = content + 1
    /\ mission' = [mission EXCEPT !.version = txn[s].seen.version + 1]

(* An item of a plan that was replaced meanwhile is no longer there to be   *)
(* updated: StaleDataError.                                                 *)
Update(s) ==
    /\ txn[s].handler = "edit" /\ txn[s].plan = plans
    /\ PlanEdited(s)
    /\ Commit(s, Handlers)
    /\ UNCHANGED <<item, deps, plans, shown, paused>>

(* Foreign keys and uq_work_item_dependency guard the insert.               *)
Add(s) ==
    /\ txn[s].handler = "add" /\ txn[s].plan = plans
    /\ txn[s].edge \notin deps
    /\ deps' = deps \cup {txn[s].edge}
    /\ PlanEdited(s)
    /\ Commit(s, Handlers)
    /\ UNCHANGED <<item, plans, shown, paused>>

(* The row may be gone already; the version is written all the same.        *)
Remove(s) ==
    /\ txn[s].handler = "remove"
    /\ deps' = IF txn[s].plan = plans THEN deps \ {txn[s].edge} ELSE deps
    /\ PlanEdited(s)
    /\ Commit(s, Handlers)
    /\ UNCHANGED <<item, plans, shown, paused>>

------------------------------------------------------------------------------
(* Approval of the plan and start of the execution                          *)

Approvable == /\ Items # {}
              /\ \A k \in Items : item[k] = "DRAFT"

(* expected_version is the version the owner was shown.                     *)
BeginApprove(s) ==
    /\ mission.status = "PLANNING" /\ Approvable
    /\ mission.version = shown.version
    /\ mission.version < MaxVersion
    /\ Load(s, [handler |-> "approve", seen |-> mission, plan |-> plans,
                deps |-> deps, content |-> content])
    /\ UNCHANGED <<planVars, shown, paused>>

(* Mutant of Ready: every item may start at once.                           *)
ReadyAll(k, edges) == Transition(WORK_ITEM_TRANSITIONS, "DRAFT", "READY")

Ready(k, edges) ==
    LET ready == Transition(WORK_ITEM_TRANSITIONS, "DRAFT", "READY")
    IN  IF \E d \in Keys : <<k, d>> \in edges
          THEN Transition(WORK_ITEM_TRANSITIONS, ready, "WAITING_DEPENDENCY")
          ELSE ready

Approve(s) ==
    /\ txn[s].handler = "approve" /\ txn[s].plan = plans
    /\ item' = [k \in Keys |-> IF k \in Items THEN Ready(k, txn[s].deps) ELSE "ABSENT"]
    /\ mission' = MissionStep(txn[s].seen, "READY")
    /\ Commit(s, Handlers)
    /\ UNCHANGED <<deps, plans, content, shown, paused>>

BeginStart(s) ==
    /\ mission.status = "READY" /\ ~paused
    /\ BeginMissionStep(s, "start")

StartExecution(s) ==
    /\ txn[s].handler = "start"
    /\ mission' = MissionStep(txn[s].seen, "EXECUTING")
    /\ Commit(s, Handlers)
    /\ UNCHANGED <<item, deps, plans, content, shown, paused>>

(* set_control writes a row of its own, which only start_execution reads.   *)
SetControl ==
    /\ paused' = ~paused
    /\ CommitAtOnce({"start"})
    /\ UNCHANGED <<planVars, shown>>

RollBack(s) == Abandon(s) /\ UNCHANGED <<planVars, shown, paused>>

------------------------------------------------------------------------------
Next ==
    \/ Show \/ SetControl
    \/ \E s \in Sessions :
         \/ BeginAccept(s) \/ Accept(s)
         \/ BeginPlan(s) \/ \E a \in Answers : Plan(s, a)
         \/ \E k \in Keys : BeginUpdate(s, k)
         \/ \E k, d \in Keys : BeginAdd(s, k, d) \/ BeginRemove(s, <<k, d>>)
         \/ Update(s) \/ Add(s) \/ Remove(s)
         \/ BeginApprove(s) \/ Approve(s)
         \/ BeginStart(s) \/ StartExecution(s)
         \/ RollBack(s)

Spec == Init /\ [][Next]_vars

------------------------------------------------------------------------------
(* Properties                                                               *)

(* The dependencies of a plan have no cycle: in every set of items one      *)
(* depends on no other of the set.  Plans come from the model and edges     *)
(* from the owner, each checked by its own function (validate_acyclic,      *)
(* _has_cycle).  A late replanning, removal or approval does no harm; an    *)
(* add_dependency that was checked against an older graph does.             *)
PlanAcyclic ==
    /\ deps \subseteq Items \X Items
    /\ "add" \notin raced =>
         \A S \in SUBSET Items :
             S # {} => \E k \in S : \A d \in S : <<k, d>> \notin deps

(* What WorkItems starts from: once a plan is approved its items wait for   *)
(* their dependencies exactly when they have any, so that start_work_item   *)
(* and review_work_item can move every one of them.  Only a change of the   *)
(* graph, an approval or a start that commits late breaks it; a late item   *)
(* update or a late second accept_mission does not.                         *)
HandOver ==
    /\ mission.status \in {"READY", "EXECUTING"}
    /\ raced \cap {"add", "remove", "plan", "approve", "start"} = {}
    => /\ Items # {}
       /\ \A k \in Items :
            item[k] = IF \E d \in Keys : <<k, d>> \in deps
                      THEN "WAITING_DEPENDENCY" ELSE "READY"

(* The version identifies the plan: a plan approved under expected_version  *)
(* is the plan the owner was shown under that version (_version, and the    *)
(* version + 1 of every edit).  A late write of a version number computed   *)
(* from an older one makes two plans share a number.                        *)
ApprovedAsShown ==
    raced \subseteq {"start", "approve"} =>
        \A s \in Sessions :
            txn[s].handler = "approve" => txn[s].content = shown.content \/ s \in late
=============================================================================
