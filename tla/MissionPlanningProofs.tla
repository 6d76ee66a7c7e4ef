------------------------ MODULE MissionPlanningProofs ------------------------
(***************************************************************************)
(* Proofs about MissionPlanning, for any number of sessions, item keys,    *)
(* model answers, versions and plans.                                      *)
(***************************************************************************)
EXTENDS MissionPlanning, UnitOfWorkProofs

(* What a request in flight is known to hold, late or not: the status it    *)
(* checked is the one it transitions from, and an edit of the plan that is  *)
(* still there is an edit of its items.                                     *)
Holds(t) ==
    /\ t.handler = "accept" => t.seen.status = "ROUTED"
    /\ t.handler = "plan" => t.seen.status \in {"LEAD_TRIAGE", "PLANNING"}
    /\ t.handler = "approve" => t.seen.status = "PLANNING"
    /\ t.handler = "start" => t.seen.status = "READY"
    /\ t.handler \in {"edit", "add", "remove"} =>
         /\ t.plan <= plans
         /\ t.plan = plans => t.edge \in Items \X Items

TypeInv ==
    /\ TypeOK
    /\ deps \subseteq Items \X Items
    /\ \A s \in Sessions : Holds(txn[s])

(* In every set of nodes one depends on no other of the set.                *)
Acyclic(nodes, edges) ==
    \A S \in SUBSET nodes : S # {} => \E k \in S : \A d \in S : <<k, d>> \notin edges

(* An add_dependency in flight that is not late has checked the graph as it *)
(* is.                                                                      *)
AddCurrent(t) == t.handler = "add" => Acyclic(Items, deps \cup {t.edge})

AcyclicInv ==
    "add" \notin raced =>
        /\ Acyclic(Items, deps)
        /\ \A s \in Sessions : s \in late \/ AddCurrent(txn[s])

(* The handlers that must not have committed late for the hand over.        *)
Shaping == {"add", "remove", "plan", "approve", "start"}

(* A request in flight that is not late has seen the mission as it is; an   *)
(* approval has seen the items and the dependencies.                        *)
SeenCurrent(t) ==
    /\ t.handler \in Handlers => t.seen = mission
    /\ t.handler \in {"add", "remove"} => mission.status = "PLANNING"
    /\ t.handler = "approve" => Approvable /\ t.deps = deps

HandOverInv ==
    raced \cap Shaping = {} =>
        /\ HandOver
        /\ \A s \in Sessions : s \in late \/ SeenCurrent(txn[s])

(* Until the plan is approved the version moves on with every change; an    *)
(* approval in flight that is not late is of what was shown.                *)
ShownCurrent(t) ==
    /\ t.handler \in Handlers => t.seen = mission
    /\ t.handler = "approve" => t.content = content /\ shown.content = content

ShownInv ==
    raced \subseteq {"start", "approve"} =>
        /\ mission.status \notin {"READY", "EXECUTING"} =>
             /\ shown.version <= mission.version
             /\ shown.version = mission.version => shown.content = content
        /\ \A s \in Sessions : s \in late \/ ShownCurrent(txn[s])

------------------------------------------------------------------------------
(* The cycle check                                                          *)

(* The nodes that are taken off the graph in the round after the one that   *)
(* has taken off those in `off'.                                            *)
Round(nodes, edges, off) == {k \in nodes : \A d \in nodes : <<k, d>> \in edges => d \in off}

(* p[n] are the nodes that are off the graph after n rounds, n = 0..m.      *)
Rounds(m, nodes, edges, p) ==
    /\ p \in [0..m -> SUBSET nodes]
    /\ \A n \in 0..m : p[n] = IF n = 0 THEN {} ELSE Round(nodes, edges, p[n - 1])

(* The rounds of _has_cycle are defined: the shortest number of rounds that *)
(* was not could be reached by one more round.                              *)
LEMMA RoundsExist ==
    ASSUME NEW N \in Nat, NEW nodes, NEW edges
    PROVE  \E p : Rounds(N, nodes, edges, p)
  <1> DEFINE Short == {m \in 0..N : ~ \E p : Rounds(m, nodes, edges, p)}
  <1>1. SUFFICES ASSUME Short # {} PROVE FALSE
    OBVIOUS
  <1>2. PICK m \in Short : \A w \in Short : m <= w
    <2>1. Short \in SUBSET Nat
      OBVIOUS
    <2> HIDE DEF Short
    <2> QED  BY <1>1, <2>1, LeastNumber
  <1>3. m # 0
    <2>1. Rounds(0, nodes, edges, [n \in 0..0 |-> {}])
      BY DEF Rounds
    <2> QED  BY <2>1
  <1>4. m - 1 \in 0..N /\ m - 1 \notin Short
    BY <1>2, <1>3
  <1>5. PICK p : Rounds(m - 1, nodes, edges, p)
    BY <1>4
  <1> DEFINE q == [n \in 0..m |-> IF n = m THEN Round(nodes, edges, p[m - 1]) ELSE p[n]]
  <1>6. \A n \in 0..m : n # m => /\ n \in 0..(m - 1) /\ q[n] = p[n]
                                 /\ n # 0 => n - 1 \in 0..m /\ n - 1 # m
    BY <1>3
  <1>7. q \in [0..m -> SUBSET nodes]
    BY <1>5, <1>6 DEF Rounds, Round
  <1>8. ASSUME NEW n \in 0..m
        PROVE  q[n] = IF n = 0 THEN {} ELSE Round(nodes, edges, q[n - 1])
    <2>1. CASE n = m
      <3>1. q[n - 1] = p[m - 1]
        BY <1>3, <2>1
      <3> QED  BY <1>3, <2>1, <3>1
    <2>2. CASE n # m
      <3>1. q[n] = p[n] /\ n \in 0..(m - 1)
        BY <1>6, <2>2
      <3>2. n # 0 => q[n - 1] = p[n - 1]
        BY <1>6, <2>2
      <3>3. p[n] = IF n = 0 THEN {} ELSE Round(nodes, edges, p[n - 1])
        BY <3>1, <1>5 DEF Rounds
      <3> QED  BY <3>1, <3>2, <3>3
    <2> QED  BY <2>1, <2>2
  <1>9. Rounds(m, nodes, edges, q)
    BY <1>7, <1>8 DEF Rounds
  <1> QED  BY <1>9

(* A graph in which _has_cycle finds no cycle has none: of every set of     *)
(* nodes, one that is taken off first depends on no other of the set.       *)
LEMMA NoCycleFound ==
    ASSUME NEW nodes, NEW edges, ~HasCycle(nodes, edges)
    PROVE  Acyclic(nodes, edges)
  <1> DEFINE N == Cardinality(Keys)
             Peels(p) == p = [n \in 0..N |->
                                IF n = 0 THEN {}
                                ELSE {k \in nodes : \A d \in nodes :
                                        <<k, d>> \in edges => d \in p[n - 1]}]
  <1>1. N \in Nat
    BY FS_CardinalityType, PlanningAssumption
  <1> HIDE DEF N
  <1>2. \E p : Peels(p)
    <2>1. PICK p : Rounds(N, nodes, edges, p)
      BY <1>1, RoundsExist
    <2>2. p = [n \in 0..N |-> IF n = 0 THEN {} ELSE Round(nodes, edges, p[n - 1])]
      BY <2>1 DEF Rounds
    <2> QED  BY <2>2 DEF Round
  <1>3. PICK p : Peels(p) /\ p[N] = nodes
    BY <1>2 DEF HasCycle, N
  <1> SUFFICES ASSUME NEW S \in SUBSET nodes, S # {}
               PROVE  \E k \in S : \A d \in S : <<k, d>> \notin edges
    BY DEF Acyclic
  <1> DEFINE Hit == {n \in 0..N : p[n] \cap S # {}}
  <1>4. Hit \in SUBSET Nat /\ N \in Hit
    BY <1>1, <1>3
  <1>5. PICK n \in Hit : \A m \in Hit : n <= m
    BY <1>4, LeastNumber
  <1>6. n # 0
    BY <1>1, <1>3, <1>5
  <1>7. n - 1 \in 0..N /\ p[n - 1] \cap S = {}
    BY <1>1, <1>5, <1>6
  <1>8. p[n] = {k \in nodes : \A d \in nodes : <<k, d>> \in edges => d \in p[n - 1]}
    BY <1>3, <1>5, <1>6
  <1> QED  BY <1>5, <1>7, <1>8

------------------------------------------------------------------------------
(* Type correctness                                                         *)

(* The type invariant, with the units of work set apart.                    *)
LEMMA TypeUnits ==
    TypeOK <=> /\ mission \in MissionRow
               /\ item \in [Keys -> WorkItemStatus \cup {"ABSENT"}]
               /\ deps \subseteq Keys \X Keys
               /\ plans \in 0..MaxPlans /\ content \in Nat
               /\ shown \in [version : Nat, content : Nat]
               /\ paused \in BOOLEAN
               /\ Units(Txn)
  BY DEF TypeOK, Units

(* The fields of a request, by its handler; every handler reads and writes  *)
(* the mission.                                                             *)
LEMMA TxnFields ==
    ASSUME NEW t \in Txn
    PROVE  /\ t # Idle /\ t.handler \in Handlers /\ t.seen \in MissionRow
           /\ t.handler = "approve" => /\ t.plan \in Nat /\ t.content \in Nat
                                       /\ t.deps \subseteq Keys \X Keys
           /\ t.handler \in {"edit", "add", "remove"} => t.plan \in Nat /\ t.edge \in Keys \X Keys
  BY DEF Txn, Handlers, Idle

(* The request that a session with this handler has in flight.              *)
LEMMA InHand ==
    ASSUME TypeInv, NEW s \in Sessions, txn[s].handler # "idle"
    PROVE  txn[s] \in Txn /\ Holds(txn[s])
  BY IdleHandler DEF TypeInv, TypeOK

(* A plan is only replaced by a later one, and its items stay.              *)
Grows == plans <= plans' /\ (plans' = plans => Items' = Items)

(* What a request holds it keeps.                                           *)
LEMMA HoldsKept ==
    ASSUME TypeInv, Grows, plans' \in Nat, NEW u \in Sessions,
           txn'[u] = txn[u] \/ txn'[u] = Idle
    PROVE  Holds(txn[u])'
  <1>1. CASE txn'[u] = Idle
    BY <1>1, IdleHandler DEF Holds
  <1>2. CASE txn'[u] = txn[u] /\ txn[u] # Idle
    <2>1. PICK t \in Txn : t = txn[u]
      BY <1>2 DEF TypeInv, TypeOK
    <2>2. Holds(t) /\ plans \in Nat
      BY <2>1, PlanningAssumption DEF TypeInv, TypeOK
    <2>3. t.handler \in {"edit", "add", "remove"} => t.plan \in Nat
      BY TxnFields
    <2>4. Holds(t)'
      BY <2>2, <2>3 DEF Holds, Grows
    <2> QED  BY <1>2, <2>1, <2>4
  <1> QED  BY <1>1, <1>2

(* The mission has been created; nothing is planned.                        *)
LEMMA TypeInit == Init => TypeInv
  <1> SUFFICES ASSUME Init PROVE TypeInv  OBVIOUS
  <1>1. Units(Txn) /\ \A s \in Sessions : txn[s] = Idle
    BY UnitsStart DEF Init
  <1>2. mission \in MissionRow /\ plans \in 0..MaxPlans
    BY PlanningAssumption DEF Init, MissionRow, MissionStatus
  <1>3. TypeOK
    BY <1>1, <1>2, TypeUnits DEF Init
  <1> QED  BY <1>1, <1>3, IdleHandler DEF Init, TypeInv, Holds

(* A step that gives no session a new request.                              *)
LEMMA TypeSettles ==
    ASSUME TypeInv, Grows, Settles(Txn),
           mission' \in MissionRow,
           item' \in [Keys -> WorkItemStatus \cup {"ABSENT"}],
           deps' \subseteq Items' \X Items',
           plans' \in 0..MaxPlans, content' \in Nat,
           shown' \in [version : Nat, content : Nat],
           paused' \in BOOLEAN
    PROVE  TypeInv'
  <1>1. Units(Txn)' /\ \A u \in Sessions : txn'[u] = txn[u] \/ txn'[u] = Idle
    BY DEF Settles
  <1>2. TypeOK'
    <2>1. deps' \subseteq Keys \X Keys
      BY DEF Items
    <2> QED  BY <1>1, <2>1, TypeUnits DEF TypeOK, Units
  <1>3. plans' \in Nat
    BY PlanningAssumption
  <1>4. \A u \in Sessions : Holds(txn[u])'
    BY <1>1, <1>3, HoldsKept
  <1> QED  BY <1>2, <1>4 DEF TypeInv

(* The first half of a handler.                                             *)
Begin(s) ==
    \/ BeginAccept(s) \/ BeginPlan(s) \/ BeginApprove(s) \/ BeginStart(s)
    \/ \E k \in Keys : BeginUpdate(s, k)
    \/ \E k, d \in Keys : BeginAdd(s, k, d) \/ BeginRemove(s, <<k, d>>)

(* What a request has seen when it has loaded its rows.                     *)
Fresh(t) ==
    /\ t \in Txn /\ Holds(t) /\ AddCurrent(t) /\ SeenCurrent(t)
    /\ t.handler = "approve" => /\ mission.status = "PLANNING"
                                /\ mission.version = shown.version /\ t.content = content

(* A request that is loaded holds what it must and has decided on the rows  *)
(* as they are.                                                             *)
LEMMA BeginLoads ==
    ASSUME TypeInv, NEW s \in Sessions, Begin(s)
    PROVE  /\ \E t : Load(s, t) /\ Fresh(t)
           /\ UNCHANGED <<mission, item, deps, plans, content, shown, paused>>
  <1> DEFINE Goal == /\ \E t : Load(s, t) /\ Fresh(t)
                     /\ UNCHANGED <<mission, item, deps, plans, content, shown, paused>>
  <1>1. mission \in MissionRow /\ plans \in Nat /\ content \in Nat /\ deps \subseteq Keys \X Keys
    BY PlanningAssumption DEF TypeInv, TypeOK
  <1>2. ASSUME NEW h \in {"accept", "plan", "start"}, BeginMissionStep(s, h),
               h = "accept" => mission.status = "ROUTED",
               h = "plan" => mission.status \in {"LEAD_TRIAGE", "PLANNING"},
               h = "start" => mission.status = "READY"
        PROVE  Goal
    <2> DEFINE t == [handler |-> h, seen |-> mission]
    <2>1. t \in Txn
      BY <1>1 DEF Txn
    <2>2. Fresh(t)
      BY <1>2, <2>1 DEF Fresh, Holds, AddCurrent, SeenCurrent
    <2> QED  BY <1>2, <2>2 DEF BeginMissionStep, planVars
  <1>3. ASSUME NEW h \in {"edit", "add", "remove"}, NEW k \in Items, NEW d \in Items,
               BeginEdit(s, h, <<k, d>>),
               h = "add" => Acyclic(Items, deps \cup {<<k, d>>})
        PROVE  Goal
    <2> DEFINE t == [handler |-> h, seen |-> mission, plan |-> plans, edge |-> <<k, d>>]
    <2>1. t \in Txn
      BY <1>1 DEF Txn, Items
    <2>2. mission.status = "PLANNING"
      BY <1>3 DEF BeginEdit
    <2>3. Holds(t)
      BY <1>1 DEF Holds
    <2>4. AddCurrent(t) /\ SeenCurrent(t) /\ t.handler # "approve"
      BY <1>3, <2>2 DEF AddCurrent, SeenCurrent
    <2>5. Fresh(t)
      BY <2>1, <2>3, <2>4 DEF Fresh
    <2> QED  BY <1>3, <2>5 DEF BeginEdit, planVars
  <1>4. CASE BeginAccept(s) \/ BeginPlan(s) \/ BeginStart(s)
    BY <1>2, <1>4 DEF BeginAccept, BeginPlan, BeginStart
  <1>5. CASE BeginApprove(s)
    <2> DEFINE t == [handler |-> "approve", seen |-> mission, plan |-> plans,
                     deps |-> deps, content |-> content]
    <2>1. t \in Txn
      BY <1>1 DEF Txn
    <2>2. Fresh(t)
      BY <1>5, <2>1 DEF BeginApprove, Fresh, Holds, AddCurrent, SeenCurrent
    <2> QED  BY <1>5, <2>2 DEF BeginApprove, planVars
  <1>6. ASSUME NEW k \in Keys, BeginUpdate(s, k) PROVE Goal
    BY <1>3, <1>6 DEF BeginUpdate
  <1>7. ASSUME NEW k \in Keys, NEW d \in Keys, BeginAdd(s, k, d) PROVE Goal
    <2>1. Acyclic(Items, deps \cup {<<k, d>>})
      BY <1>7, NoCycleFound DEF BeginAdd
    <2> QED  BY <1>3, <1>7, <2>1 DEF BeginAdd
  <1>8. ASSUME NEW k \in Keys, NEW d \in Keys, BeginRemove(s, <<k, d>>) PROVE Goal
    <2>1. k \in Items /\ d \in Items
      BY <1>8 DEF BeginRemove, TypeInv
    <2> QED  BY <1>3, <1>8, <2>1 DEF BeginRemove
  <1> QED  BY <1>4, <1>5, <1>6, <1>7, <1>8 DEF Begin

(* The second half of a handler.                                            *)
Commits(s) ==
    \/ Accept(s) \/ Approve(s) \/ StartExecution(s)
    \/ \E a \in Answers : Plan(s, a)
    \/ Update(s) \/ Add(s) \/ Remove(s)

(* The transitions of the handlers are legal from the status they check.    *)
LEMMA Stepped ==
    ASSUME NEW row \in MissionRow
    PROVE  \A from, to \in MissionStatus :
             /\ row.status = from
             /\ <<from, to>> \in {<<"ROUTED", "LEAD_TRIAGE">>, <<"LEAD_TRIAGE", "PLANNING">>,
                                  <<"PLANNING", "READY">>, <<"READY", "EXECUTING">>}
             => /\ MissionStep(row, to) = [status |-> to, version |-> row.version + 1]
                /\ MissionStep(row, to) \in MissionRow
  <1> SUFFICES ASSUME NEW from \in MissionStatus, NEW to \in MissionStatus, row.status = from,
                      <<from, to>> \in {<<"ROUTED", "LEAD_TRIAGE">>, <<"LEAD_TRIAGE", "PLANNING">>,
                                        <<"PLANNING", "READY">>, <<"READY", "EXECUTING">>}
               PROVE  /\ MissionStep(row, to) = [status |-> to, version |-> row.version + 1]
                      /\ MissionStep(row, to) \in MissionRow
    OBVIOUS
  <1>1. to \in MISSION_TRANSITIONS[from]
    BY DEF MISSION_TRANSITIONS
  <1>2. row # Raised
    BY DEF Raised, MissionRow, MissionStatus
  <1> QED  BY <1>1, <1>2 DEF MissionStep, MissionRow

(* The status that approve_plan gives an item.                              *)
LEMMA ReadyStatus ==
    ASSUME NEW k, NEW edges
    PROVE  Ready(k, edges) = IF \E d \in Keys : <<k, d>> \in edges
                             THEN "WAITING_DEPENDENCY" ELSE "READY"
  <1>1. /\ "READY" \in WORK_ITEM_TRANSITIONS["DRAFT"]
        /\ "WAITING_DEPENDENCY" \in WORK_ITEM_TRANSITIONS["READY"]
    BY DEF WORK_ITEM_TRANSITIONS, WorkItemStatus
  <1> QED  BY <1>1 DEF Ready, Transition

(* What a commit writes on the mission: the step of its handler, or a       *)
(* version on top of the one it loaded.                                     *)
LEMMA MissionWritten ==
    ASSUME TypeInv, NEW s \in Sessions, Commits(s)
    PROVE  \E t \in Txn :
             /\ t = txn[s] /\ Holds(t)
             /\ Commit(s, Handlers) /\ UNCHANGED <<shown, paused>>
             /\ mission' \in MissionRow
             /\ mission'.version = t.seen.version + 1 \/ mission'.version = t.seen.version + 2
             /\ t.handler = "accept" => mission'.status = "LEAD_TRIAGE"
             /\ t.handler = "plan" => mission'.status \in {"PLANNING", mission.status}
             /\ t.handler = "approve" => mission'.status = "READY"
             /\ t.handler = "start" => t.seen.status = "READY" /\ mission'.status = "EXECUTING"
             /\ t.handler \in {"edit", "add", "remove"} => mission'.status = mission.status
  <1>1. txn[s].handler # "idle"
    BY DEF Commits, Accept, Approve, StartExecution, Plan, Update, Add, Remove
  <1>2. PICK t \in Txn : t = txn[s] /\ Holds(t)
    BY <1>1, InHand
  <1>3. Commit(s, Handlers) /\ UNCHANGED <<shown, paused>>
    BY DEF Commits, Accept, Approve, StartExecution, Plan, Update, Add, Remove
  <1>4. t.seen \in MissionRow /\ mission \in MissionRow /\ t.seen.version \in Nat
    BY TxnFields DEF TypeInv, TypeOK, MissionRow
  <1>5. {"ROUTED", "LEAD_TRIAGE", "PLANNING", "READY", "EXECUTING"} \subseteq MissionStatus
    BY DEF MissionStatus
  <1> DEFINE Goal ==
         /\ mission' \in MissionRow
         /\ mission'.version = t.seen.version + 1 \/ mission'.version = t.seen.version + 2
         /\ t.handler = "accept" => mission'.status = "LEAD_TRIAGE"
         /\ t.handler = "plan" => mission'.status \in {"PLANNING", mission.status}
         /\ t.handler = "approve" => mission'.status = "READY"
         /\ t.handler = "start" => t.seen.status = "READY" /\ mission'.status = "EXECUTING"
         /\ t.handler \in {"edit", "add", "remove"} => mission'.status = mission.status
  <1>6. ASSUME Accept(s) PROVE Goal
    <2>1. t.handler = "accept" /\ t.seen.status = "ROUTED"
      BY <1>2, <1>6 DEF Accept, Holds
    <2>2. mission' = MissionStep(t.seen, "LEAD_TRIAGE")
      BY <1>2, <1>6 DEF Accept
    <2> QED  BY <1>4, <1>5, <2>1, <2>2, Stepped
  <1>7. ASSUME Approve(s) PROVE Goal
    <2>1. t.handler = "approve" /\ t.seen.status = "PLANNING"
      BY <1>2, <1>7 DEF Approve, Holds
    <2>2. mission' = MissionStep(t.seen, "READY")
      BY <1>2, <1>7 DEF Approve
    <2> QED  BY <1>4, <1>5, <2>1, <2>2, Stepped
  <1>8. ASSUME StartExecution(s) PROVE Goal
    <2>1. t.handler = "start" /\ t.seen.status = "READY"
      BY <1>2, <1>8 DEF StartExecution, Holds
    <2>2. mission' = MissionStep(t.seen, "EXECUTING")
      BY <1>2, <1>8 DEF StartExecution
    <2> QED  BY <1>4, <1>5, <2>1, <2>2, Stepped
  <1>9. ASSUME NEW a \in Answers, Plan(s, a) PROVE Goal
    <2>1. t.handler = "plan" /\ t.seen.status \in {"LEAD_TRIAGE", "PLANNING"}
      BY <1>2, <1>9 DEF Plan, Holds
    <2>2. mission' = Planned(t.seen)
      BY <1>2, <1>9 DEF Plan
    <2>3. CASE t.seen.status = "LEAD_TRIAGE"
      <3>1. MissionStep(t.seen, "PLANNING") = [status |-> "PLANNING", version |-> t.seen.version + 1]
        BY <1>4, <1>5, <2>3, Stepped
      <3>2. mission' = [status |-> "PLANNING", version |-> (t.seen.version + 1) + 1]
        BY <2>2, <2>3, <3>1 DEF Planned
      <3> QED  BY <1>4, <1>5, <2>1, <3>2 DEF MissionRow
    <2>4. CASE t.seen.status # "LEAD_TRIAGE"
      <3>1. mission' = [mission EXCEPT !.version = t.seen.version + 1]
        BY <2>2, <2>4 DEF Planned
      <3>2. mission' = [status |-> mission.status, version |-> t.seen.version + 1]
        BY <1>4, <3>1 DEF MissionRow
      <3> QED  BY <1>4, <2>1, <3>2 DEF MissionRow
    <2> QED  BY <2>3, <2>4
  <1>10. ASSUME Update(s) \/ Add(s) \/ Remove(s) PROVE Goal
    <2>1. t.handler \in {"edit", "add", "remove"}
      BY <1>2, <1>10 DEF Update, Add, Remove
    <2>2. mission' = [mission EXCEPT !.version = t.seen.version + 1]
      BY <1>2, <1>10 DEF Update, Add, Remove, PlanEdited
    <2>3. mission' = [status |-> mission.status, version |-> t.seen.version + 1]
      BY <1>4, <2>2 DEF MissionRow
    <2> QED  BY <1>4, <2>1, <2>3 DEF MissionRow
  <1>11. Goal
    BY <1>6, <1>7, <1>8, <1>9, <1>10 DEF Commits
  <1> QED  BY <1>2, <1>3, <1>11

(* Every other request reads the mission, which a commit has written.       *)
LEMMA OthersLate ==
    ASSUME TypeInv, NEW s \in Sessions, Commit(s, Handlers)
    PROVE  /\ Settles(Txn)
           /\ \A u \in Sessions : u \in late' \/ txn'[u] = Idle
           /\ txn[s].handler \notin raced' => s \notin late
  <1>1. Units(Txn)
    BY TypeUnits DEF TypeInv
  <1>2. \A u \in Sessions : txn[u] # Idle => txn[u].handler \in Handlers
    BY <1>1, TxnFields DEF Units
  <1>3. Settles(Txn)
    BY <1>1, Settled
  <1> QED  BY <1>1, <1>2, <1>3, CommitUnits

(* The items that approve_plan moves, as its commit leaves them.            *)
LEMMA ApprovedItems ==
    ASSUME TypeInv, NEW s \in Sessions, Approve(s)
    PROVE  /\ item' \in [Keys -> WorkItemStatus \cup {"ABSENT"}]
           /\ Items' = Items
           /\ \A k \in Items : item'[k] = IF \E d \in Keys : <<k, d>> \in txn[s].deps
                                          THEN "WAITING_DEPENDENCY" ELSE "READY"
  <1> DEFINE New(k) == IF \E d \in Keys : <<k, d>> \in txn[s].deps
                       THEN "WAITING_DEPENDENCY" ELSE "READY"
  <1>1. item' = [k \in Keys |-> IF k \in Items THEN New(k) ELSE "ABSENT"]
    BY ReadyStatus DEF Approve
  <1>2. \A k \in Keys : New(k) \in WorkItemStatus /\ New(k) # "ABSENT"
    BY DEF WorkItemStatus
  <1>3. \A k \in Items : k \in Keys
    BY DEF Items
  <1> HIDE DEF New
  <1>4. item' \in [Keys -> WorkItemStatus \cup {"ABSENT"}]
    BY <1>1, <1>2
  <1>5. Items' = Items
    BY <1>1, <1>2, <1>3 DEF Items
  <1>6. \A k \in Items : item'[k] = New(k)
    BY <1>1, <1>3
  <1> QED  BY <1>4, <1>5, <1>6 DEF New

(* The items and dependencies of an answer that passed validate_acyclic.    *)
LEMMA PlannedItems ==
    ASSUME TypeInv, NEW s \in Sessions, NEW a \in Answers, Plan(s, a)
    PROVE  /\ item' \in [Keys -> WorkItemStatus \cup {"ABSENT"}]
           /\ Items' = a.keys /\ deps' = a.deps
           /\ deps' \subseteq Items' \X Items' /\ Acyclic(Items', deps')
           /\ plans' = plans + 1 /\ plans' \in 0..MaxPlans /\ content' = content + 1
  <1>1. a.keys \subseteq Keys
    BY PlanningAssumption DEF PlanSchema
  <1>2. item' = [k \in Keys |-> IF k \in a.keys THEN "DRAFT" ELSE "ABSENT"] /\ deps' = a.deps
    BY DEF Plan, Replaced
  <1>3. item' \in [Keys -> WorkItemStatus \cup {"ABSENT"}]
    BY <1>2 DEF WorkItemStatus
  <1>4. Items' = a.keys
    BY <1>1, <1>2 DEF Items
  <1>5. a.deps \subseteq a.keys \X a.keys /\ Acyclic(a.keys, a.deps)
    BY NoCycleFound DEF Plan, ValidateAcyclic
  <1>6. plans' = plans + 1 /\ plans' \in 0..MaxPlans /\ content' = content + 1
    BY PlanningAssumption DEF Plan, TypeInv, TypeOK
  <1> QED  BY <1>2, <1>3, <1>4, <1>5, <1>6

(* What a commit writes on the plan.                                        *)
LEMMA PlanWritten ==
    ASSUME TypeInv, NEW s \in Sessions, Commits(s)
    PROVE  /\ item' \in [Keys -> WorkItemStatus \cup {"ABSENT"}]
           /\ deps' \subseteq Items' \X Items'
           /\ plans' \in 0..MaxPlans /\ content' \in Nat
           /\ Grows
  <1>1. /\ item \in [Keys -> WorkItemStatus \cup {"ABSENT"}]
        /\ deps \subseteq Items \X Items
        /\ plans \in 0..MaxPlans /\ content \in Nat
    BY DEF TypeInv, TypeOK
  <1>2. item' = item => Items' = Items
    BY DEF Items
  <1>3. CASE Accept(s) \/ StartExecution(s) \/ Update(s)
    BY <1>1, <1>2, <1>3 DEF Accept, StartExecution, Update, PlanEdited, Grows
  <1>4. CASE Approve(s)
    BY <1>1, <1>4, ApprovedItems DEF Approve, Grows
  <1>5. ASSUME NEW a \in Answers, Plan(s, a)
        PROVE  /\ item' \in [Keys -> WorkItemStatus \cup {"ABSENT"}]
               /\ deps' \subseteq Items' \X Items'
               /\ plans' \in 0..MaxPlans /\ content' \in Nat
               /\ Grows
    BY <1>1, <1>5, PlannedItems DEF Grows
  <1>6. CASE Add(s)
    <2>1. txn[s].handler = "add" /\ txn[s].plan = plans
      BY <1>6 DEF Add
    <2>2. txn[s].edge \in Items \X Items
      BY <2>1, InHand DEF Holds
    <2> QED  BY <1>1, <1>2, <1>6, <2>2 DEF Add, PlanEdited, Grows
  <1>7. CASE Remove(s)
    BY <1>1, <1>2, <1>7 DEF Remove, PlanEdited, Grows
  <1> QED  BY <1>3, <1>4, <1>5, <1>6, <1>7 DEF Commits

(* A step that only loads rows.                                             *)
LEMMA TypeLoad ==
    ASSUME TypeInv, NEW s \in Sessions, NEW t, Fresh(t), Load(s, t),
           UNCHANGED <<mission, item, deps, plans, content, shown, paused>>
    PROVE  /\ TypeInv'
           /\ txn'[s] = t
           /\ \A u \in Sessions : u # s => txn'[u] = txn[u]
           /\ late' = late /\ raced' = raced
  <1>1. t \in Txn /\ t # Idle
    BY TxnFields DEF Fresh
  <1>2. /\ Units(Txn)' /\ txn'[s] = t
        /\ \A u \in Sessions : u # s => txn'[u] = txn[u]
        /\ late' = late /\ raced' = raced
    <2>1. Units(Txn)
      BY TypeUnits DEF TypeInv
    <2> QED  BY <1>1, <2>1, LoadUnits
  <1>3. TypeOK'
    BY <1>2, TypeUnits DEF TypeInv, TypeOK, Units
  <1>4. Items' = Items
    BY DEF Items
  <1>5. \A u \in Sessions : Holds(txn[u])'
    <2> SUFFICES ASSUME NEW u \in Sessions PROVE Holds(txn[u])'  OBVIOUS
    <2>1. CASE u = s
      BY <2>1, <1>2, <1>4 DEF Fresh, Holds
    <2>2. CASE u # s
      <3>1. Grows /\ plans' \in Nat
        BY <1>4, PlanningAssumption DEF Grows, TypeInv, TypeOK
      <3> QED  BY <2>2, <3>1, <1>2, HoldsKept
    <2> QED  BY <2>1, <2>2
  <1> QED  BY <1>2, <1>3, <1>4, <1>5 DEF TypeInv

(* Every step keeps the types.                                              *)
LEMMA TypeNext == ASSUME TypeInv, [Next]_vars PROVE TypeInv'
  <1>0. Units(Txn)
    BY TypeUnits DEF TypeInv
  <1>1. ASSUME NEW s \in Sessions, Begin(s) PROVE TypeInv'
    BY <1>1, BeginLoads, TypeLoad
  <1>2. ASSUME NEW s \in Sessions, Commits(s) PROVE TypeInv'
    <2>1. /\ Commit(s, Handlers) /\ UNCHANGED <<shown, paused>>
          /\ mission' \in MissionRow
      BY <1>2, MissionWritten
    <2>2. Settles(Txn)
      BY <2>1, OthersLate
    <2>3. shown' \in [version : Nat, content : Nat] /\ paused' \in BOOLEAN
      BY <2>1 DEF TypeInv, TypeOK
    <2> QED  BY <1>2, <2>1, <2>2, <2>3, PlanWritten, TypeSettles
  <1>3. CASE /\ UNCHANGED planVars
             /\ shown' \in [version : Nat, content : Nat] /\ paused' \in BOOLEAN
             /\ \/ \E s \in Sessions : Abandon(s)
                \/ \E hit : CommitAtOnce(hit)
                \/ UNCHANGED uow
    <2>1. Settles(Txn)
      BY <1>0, <1>3, Settled
    <2>2. UNCHANGED <<mission, item, deps, plans, content>> /\ Items' = Items
      BY <1>3 DEF planVars, Items
    <2>3. Grows
      BY <2>2, PlanningAssumption DEF Grows, TypeInv, TypeOK
    <2> QED  BY <1>3, <2>1, <2>2, <2>3, TypeSettles DEF TypeInv, TypeOK
  <1>4. shown \in [version : Nat, content : Nat] /\ paused \in BOOLEAN
    BY DEF TypeInv, TypeOK
  <1>5. CASE Show
    <2>1. mission.version \in Nat /\ content \in Nat
      BY DEF TypeInv, TypeOK, MissionRow
    <2> QED  BY <1>3, <1>4, <1>5, <2>1 DEF Show
  <1>6. CASE SetControl
    BY <1>3, <1>4, <1>6 DEF SetControl
  <1>7. ASSUME NEW s \in Sessions, RollBack(s) PROVE TypeInv'
    BY <1>3, <1>4, <1>7 DEF RollBack
  <1>8. CASE UNCHANGED vars
    BY <1>3, <1>4, <1>8 DEF vars
  <1> QED  BY <1>1, <1>2, <1>5, <1>6, <1>7, <1>8 DEF Next, Begin, Commits

(* It holds throughout.                                                     *)
LEMMA TypeAlways == Spec => []TypeInv
  BY TypeInit, TypeNext, PTL DEF Spec

(* Every column of the mission, its items and its plan holds a value of its *)
(* type, and no transition of these handlers raises, whatever commits late. *)
THEOREM TypeCorrect == Spec => []TypeOK
  <1>1. TypeInv => TypeOK
    BY DEF TypeInv
  <1> QED  BY <1>1, TypeAlways, PTL

------------------------------------------------------------------------------
(* The dependencies of a plan                                               *)

(* A part of a graph without a cycle has none.                              *)
LEMMA AcyclicPart ==
    ASSUME NEW nodes, NEW edges, Acyclic(nodes, edges), NEW part, part \subseteq edges
    PROVE  Acyclic(nodes, part)
  BY DEF Acyclic

(* Every step keeps it.                                                     *)
LEMMA AcyclicNext == ASSUME TypeInv, AcyclicInv, [Next]_vars PROVE AcyclicInv'
  <1>0. Units(Txn)
    BY TypeUnits DEF TypeInv
  <1>1. ASSUME NEW s \in Sessions, Begin(s) PROVE AcyclicInv'
    <2>1. PICK t : Load(s, t) /\ Fresh(t)
      BY <1>1, BeginLoads
    <2>2. UNCHANGED <<mission, item, deps, plans, content, shown, paused>> /\ Items' = Items
      BY <1>1, BeginLoads DEF Items
    <2>3. /\ txn'[s] = t
          /\ \A u \in Sessions : u # s => txn'[u] = txn[u]
          /\ late' = late /\ raced' = raced
      BY <2>1, <2>2, TypeLoad
    <2>4. ASSUME NEW u \in Sessions, u \in late \/ AddCurrent(txn[u])
          PROVE  u \in late' \/ AddCurrent(txn[u])'
      <3>1. CASE u = s
        BY <2>1, <2>2, <2>3, <3>1 DEF Fresh, AddCurrent
      <3>2. CASE u # s
        BY <2>2, <2>3, <2>4, <3>2 DEF AddCurrent
      <3> QED  BY <3>1, <3>2
    <2> QED  BY <2>2, <2>3, <2>4 DEF AcyclicInv
  <1>2. ASSUME NEW s \in Sessions, Commits(s) PROVE AcyclicInv'
    <2>1. Commit(s, Handlers)
      BY <1>2, MissionWritten
    <2>2. /\ \A u \in Sessions : u \in late' \/ txn'[u] = Idle
          /\ txn[s].handler \notin raced' => s \notin late
          /\ raced \subseteq raced'
      BY <2>1, OthersLate DEF Settles
    <2>3. \A u \in Sessions : u \in late' \/ AddCurrent(txn[u])'
      BY <2>2, IdleHandler DEF AddCurrent
    <2>4. ASSUME "add" \notin raced' PROVE Acyclic(Items', deps')
      <3>1. Acyclic(Items, deps) /\ \A u \in Sessions : u \in late \/ AddCurrent(txn[u])
        BY <2>2, <2>4 DEF AcyclicInv
      <3>2. item' = item => Items' = Items
        BY DEF Items
      <3>3. CASE Accept(s) \/ StartExecution(s) \/ Update(s)
        BY <3>1, <3>2, <3>3 DEF Accept, StartExecution, Update
      <3>4. CASE Approve(s)
        BY <3>1, <3>4, ApprovedItems DEF Approve
      <3>5. ASSUME NEW a \in Answers, Plan(s, a) PROVE Acyclic(Items', deps')
        BY <3>5, PlannedItems
      <3>6. CASE Add(s)
        <4>1. txn[s].handler = "add" /\ Items' = Items /\ deps' = deps \cup {txn[s].edge}
          BY <3>2, <3>6 DEF Add
        <4> QED  BY <2>2, <2>4, <3>1, <4>1 DEF AddCurrent
      <3>7. CASE Remove(s)
        <4>1. deps' \subseteq deps /\ Items' = Items
          BY <3>2, <3>7 DEF Remove
        <4> QED  BY <3>1, <4>1, AcyclicPart
      <3> QED  BY <1>2, <3>3, <3>4, <3>5, <3>6, <3>7 DEF Commits
    <2> QED  BY <2>3, <2>4 DEF AcyclicInv
  <1>3. CASE /\ UNCHANGED planVars
             /\ \/ \E s \in Sessions : Abandon(s)
                \/ \E hit : CommitAtOnce(hit)
                \/ UNCHANGED uow
    <2>1. Settles(Txn)
      BY <1>0, <1>3, Settled
    <2>2. UNCHANGED <<item, deps>> /\ Items' = Items
      BY <1>3 DEF planVars, Items
    <2>3. ASSUME NEW u \in Sessions, u \in late \/ AddCurrent(txn[u])
          PROVE  u \in late' \/ AddCurrent(txn[u])'
      <3>1. CASE txn'[u] = Idle
        BY <3>1, IdleHandler DEF AddCurrent
      <3>2. CASE txn'[u] = txn[u] /\ (u \in late => u \in late')
        BY <2>2, <2>3, <3>2 DEF AddCurrent
      <3> QED  BY <2>1, <3>1, <3>2 DEF Settles
    <2>4. raced \subseteq raced'
      BY <2>1 DEF Settles
    <2> QED  BY <2>2, <2>3, <2>4 DEF AcyclicInv
  <1>4. CASE Show \/ SetControl
    BY <1>3, <1>4 DEF Show, SetControl
  <1>5. ASSUME NEW s \in Sessions, RollBack(s) PROVE AcyclicInv'
    BY <1>3, <1>5 DEF RollBack
  <1>6. CASE UNCHANGED vars
    BY <1>3, <1>6 DEF vars
  <1> QED  BY <1>1, <1>2, <1>4, <1>5, <1>6 DEF Next, Begin, Commits

(* The plan of a mission has no cycle, whether validate_acyclic or          *)
(* _has_cycle checked the edges, unless an add_dependency that checked an   *)
(* older graph commits late; a dependency always names items of the plan.   *)
THEOREM PlanStaysAcyclic == Spec => []PlanAcyclic
  <1>1. Init => AcyclicInv
    <2> SUFFICES ASSUME Init PROVE AcyclicInv  OBVIOUS
    <2>1. deps = {} /\ \A s \in Sessions : txn[s] = Idle
      BY UnitsStart DEF Init
    <2> QED  BY <2>1, IdleHandler DEF AcyclicInv, AddCurrent, Acyclic
  <1>2. TypeInv /\ AcyclicInv => PlanAcyclic
    BY DEF TypeInv, AcyclicInv, Acyclic, PlanAcyclic
  <1> QED  BY <1>1, <1>2, AcyclicNext, TypeAlways, PTL DEF Spec

------------------------------------------------------------------------------
(* Where WorkItems takes over                                               *)

(* Every step keeps it.                                                     *)
LEMMA HandOverNext == ASSUME TypeInv, HandOverInv, [Next]_vars PROVE HandOverInv'
  <1>0. Units(Txn)
    BY TypeUnits DEF TypeInv
  <1>1. ASSUME NEW s \in Sessions, Begin(s) PROVE HandOverInv'
    <2>1. PICK t : Load(s, t) /\ Fresh(t)
      BY <1>1, BeginLoads
    <2>2. UNCHANGED <<mission, item, deps, plans, content, shown, paused>> /\ Items' = Items
      BY <1>1, BeginLoads DEF Items
    <2>3. /\ txn'[s] = t
          /\ \A u \in Sessions : u # s => txn'[u] = txn[u]
          /\ late' = late /\ raced' = raced
      BY <2>1, <2>2, TypeLoad
    <2>4. ASSUME NEW u \in Sessions, u \in late \/ SeenCurrent(txn[u])
          PROVE  u \in late' \/ SeenCurrent(txn[u])'
      <3>1. CASE u = s
        BY <2>1, <2>2, <2>3, <3>1 DEF Fresh, SeenCurrent, Approvable
      <3>2. CASE u # s
        BY <2>2, <2>3, <2>4, <3>2 DEF SeenCurrent, Approvable
      <3> QED  BY <3>1, <3>2
    <2>5. HandOver => HandOver'
      BY <2>2, <2>3 DEF HandOver
    <2> QED  BY <2>3, <2>4, <2>5 DEF HandOverInv
  <1>2. ASSUME NEW s \in Sessions, Commits(s) PROVE HandOverInv'
    <2>1. PICK t \in Txn :
             /\ t = txn[s] /\ Commit(s, Handlers)
             /\ t.handler = "accept" => mission'.status = "LEAD_TRIAGE"
             /\ t.handler = "plan" => t.seen.status \in {"LEAD_TRIAGE", "PLANNING"}
             /\ t.handler = "plan" => mission'.status \in {"PLANNING", mission.status}
             /\ t.handler = "start" => t.seen.status = "READY"
             /\ t.handler \in {"edit", "add", "remove"} => mission'.status = mission.status
      BY <1>2, MissionWritten DEF Holds
    <2>2. /\ \A u \in Sessions : u \in late' \/ txn'[u] = Idle
          /\ t.handler \notin raced' => s \notin late
          /\ raced \subseteq raced'
      BY <2>1, OthersLate DEF Settles
    <2>3. \A u \in Sessions : u \in late' \/ SeenCurrent(txn[u])'
      BY <2>2, IdleHandler DEF SeenCurrent, Handlers
    <2>4. ASSUME raced' \cap Shaping = {} PROVE HandOver'
      <3>1. raced \cap Shaping = {} /\ HandOver
        BY <2>2, <2>4 DEF HandOverInv
      <3>2. t.handler \in Shaping => SeenCurrent(t)
        BY <2>1, <2>2, <2>4, <3>1 DEF HandOverInv
      <3>3. item' = item => Items' = Items
        BY DEF Items
      <3>4. CASE Accept(s)
        BY <2>1, <3>4 DEF Accept, HandOver
      <3>5. CASE Update(s)
        BY <2>1, <3>1, <3>3, <3>5 DEF Update, HandOver, Shaping
      <3>6. CASE StartExecution(s)
        <4>1. t.handler = "start" /\ UNCHANGED <<item, deps>>
          BY <2>1, <3>6 DEF StartExecution
        <4>2. mission.status = "READY"
          BY <2>1, <3>2, <4>1 DEF SeenCurrent, Shaping, Handlers
        <4> QED  BY <3>1, <3>3, <4>1, <4>2 DEF HandOver, Shaping
      <3>7. CASE Approve(s)
        <4>1. t.handler = "approve" /\ deps' = deps
          BY <2>1, <3>7 DEF Approve
        <4>2. Approvable /\ t.deps = deps
          BY <3>2, <4>1 DEF SeenCurrent, Shaping
        <4> QED  BY <2>1, <3>7, <4>1, <4>2, ApprovedItems DEF HandOver, Approvable
      <3>8. ASSUME NEW a \in Answers, Plan(s, a) PROVE HandOver'
        <4>1. t.handler = "plan"
          BY <2>1, <3>8 DEF Plan
        <4>2. mission.status \in {"LEAD_TRIAGE", "PLANNING"}
          BY <2>1, <3>2, <4>1 DEF SeenCurrent, Shaping, Handlers
        <4> QED  BY <2>1, <4>1, <4>2 DEF HandOver
      <3>9. CASE Add(s) \/ Remove(s)
        <4>1. t.handler \in {"add", "remove"}
          BY <2>1, <3>9 DEF Add, Remove
        <4>2. mission.status = "PLANNING"
          BY <3>2, <4>1 DEF SeenCurrent, Shaping
        <4> QED  BY <2>1, <4>1, <4>2 DEF HandOver
      <3> QED  BY <1>2, <3>4, <3>5, <3>6, <3>7, <3>8, <3>9 DEF Commits
    <2> QED  BY <2>3, <2>4 DEF HandOverInv
  <1>3. CASE /\ UNCHANGED planVars
             /\ \/ \E s \in Sessions : Abandon(s)
                \/ \E hit : CommitAtOnce(hit)
                \/ UNCHANGED uow
    <2>1. Settles(Txn)
      BY <1>0, <1>3, Settled
    <2>2. UNCHANGED <<mission, item, deps>> /\ Items' = Items
      BY <1>3 DEF planVars, Items
    <2>3. ASSUME NEW u \in Sessions, u \in late \/ SeenCurrent(txn[u])
          PROVE  u \in late' \/ SeenCurrent(txn[u])'
      <3>1. CASE txn'[u] = Idle
        BY <3>1, IdleHandler DEF SeenCurrent, Handlers
      <3>2. CASE txn'[u] = txn[u] /\ (u \in late => u \in late')
        BY <2>2, <2>3, <3>2 DEF SeenCurrent, Approvable
      <3> QED  BY <2>1, <3>1, <3>2 DEF Settles
    <2>4. raced \subseteq raced'
      BY <2>1 DEF Settles
    <2>5. raced \cap Shaping = {} /\ HandOver => HandOver'
      BY <2>2 DEF HandOver, Shaping
    <2> QED  BY <2>3, <2>4, <2>5 DEF HandOverInv
  <1>4. CASE Show \/ SetControl
    BY <1>3, <1>4 DEF Show, SetControl
  <1>5. ASSUME NEW s \in Sessions, RollBack(s) PROVE HandOverInv'
    BY <1>3, <1>5 DEF RollBack
  <1>6. CASE UNCHANGED vars
    BY <1>3, <1>6 DEF vars
  <1> QED  BY <1>1, <1>2, <1>4, <1>5, <1>6 DEF Next, Begin, Commits

(* Once approve_plan has committed, the items wait for their dependencies   *)
(* exactly when they have any, unless an approval, a start or a change of   *)
(* the graph commits late.                                                  *)
THEOREM ItemsAreHandedOver == Spec => []HandOver
  <1>1. Init => HandOverInv
    <2> SUFFICES ASSUME Init PROVE HandOverInv  OBVIOUS
    <2>1. mission.status = "ROUTED" /\ \A s \in Sessions : txn[s] = Idle
      BY UnitsStart DEF Init
    <2> QED  BY <2>1, IdleHandler DEF HandOverInv, HandOver, SeenCurrent, Handlers
  <1>2. HandOverInv => HandOver
    BY DEF HandOverInv, HandOver, Shaping
  <1> QED  BY <1>1, <1>2, HandOverNext, TypeAlways, PTL DEF Spec

------------------------------------------------------------------------------
(* What the owner approves                                                  *)

(* Every step keeps it.                                                     *)
LEMMA ShownNext == ASSUME TypeInv, ShownInv, [Next]_vars PROVE ShownInv'
  <1> DEFINE Open(m, s, c) == m.status \notin {"READY", "EXECUTING"} =>
                                /\ s.version <= m.version
                                /\ s.version = m.version => s.content = c
  <1>0. Units(Txn)
    BY TypeUnits DEF TypeInv
  <1>1. ASSUME NEW s \in Sessions, Begin(s) PROVE ShownInv'
    <2>1. PICK t : Load(s, t) /\ Fresh(t)
      BY <1>1, BeginLoads
    <2>2. UNCHANGED <<mission, item, deps, plans, content, shown, paused>>
      BY <1>1, BeginLoads
    <2>3. /\ txn'[s] = t
          /\ \A u \in Sessions : u # s => txn'[u] = txn[u]
          /\ late' = late /\ raced' = raced
      BY <2>1, <2>2, TypeLoad
    <2> SUFFICES ASSUME raced \subseteq {"start", "approve"}, ShownInv PROVE ShownInv'
      BY <2>3 DEF ShownInv
    <2>4. Open(mission, shown, content) /\ \A u \in Sessions : u \in late \/ ShownCurrent(txn[u])
      BY DEF ShownInv
    <2>5. ShownCurrent(t)
      BY <2>1, <2>4 DEF Fresh, SeenCurrent, ShownCurrent
    <2>6. ASSUME NEW u \in Sessions PROVE u \in late' \/ ShownCurrent(txn[u])'
      <3>1. CASE u = s
        BY <2>2, <2>3, <2>5, <3>1 DEF ShownCurrent
      <3>2. CASE u # s
        BY <2>2, <2>3, <2>4, <3>2 DEF ShownCurrent
      <3> QED  BY <3>1, <3>2
    <2> QED  BY <2>2, <2>4, <2>6 DEF ShownInv
  <1>2. ASSUME NEW s \in Sessions, Commits(s) PROVE ShownInv'
    <2>1. PICK t \in Txn :
             /\ t = txn[s] /\ Holds(t) /\ Commit(s, Handlers) /\ UNCHANGED <<shown, paused>>
             /\ mission'.version = t.seen.version + 1 \/ mission'.version = t.seen.version + 2
             /\ t.handler = "approve" => mission'.status = "READY"
             /\ t.handler = "start" => mission'.status = "EXECUTING"
             /\ t.handler \in {"edit", "add", "remove"} => mission'.status = mission.status
      BY <1>2, MissionWritten
    <2>2. /\ \A u \in Sessions : u \in late' \/ txn'[u] = Idle
          /\ t.handler \notin raced' => s \notin late
          /\ raced \subseteq raced'
      BY <2>1, OthersLate DEF Settles
    <2>3. \A u \in Sessions : u \in late' \/ ShownCurrent(txn[u])'
      BY <2>2, IdleHandler DEF ShownCurrent, Handlers
    <2>4. ASSUME raced' \subseteq {"start", "approve"} PROVE Open(mission', shown', content')
      <3>1. CASE t.handler \in {"start", "approve"}
        BY <2>1, <3>1
      <3>2. CASE t.handler \notin {"start", "approve"}
        <4>1. t.handler \in Handlers
          BY TxnFields
        <4>2. Open(mission, shown, content) /\ t.seen = mission
          BY <2>1, <2>2, <2>4, <3>2, <4>1 DEF ShownInv, ShownCurrent
        <4>3. \/ mission.status \notin {"READY", "EXECUTING"}
              \/ mission'.status = mission.status
          BY <2>1, <3>2, <4>1, <4>2 DEF Holds, Handlers
        <4>4. mission.version \in Nat /\ shown.version \in Nat
          BY DEF TypeInv, TypeOK, MissionRow
        <4> QED  BY <2>1, <4>2, <4>3, <4>4
      <3> QED  BY <3>1, <3>2
    <2> QED  BY <2>3, <2>4 DEF ShownInv
  <1>3. CASE /\ UNCHANGED <<planVars, shown>>
             /\ \/ \E s \in Sessions : Abandon(s)
                \/ \E hit : CommitAtOnce(hit)
                \/ UNCHANGED uow
    <2>1. Settles(Txn)
      BY <1>0, <1>3, Settled
    <2>2. UNCHANGED <<mission, content, shown>>
      BY <1>3 DEF planVars
    <2>3. ASSUME NEW u \in Sessions, u \in late \/ ShownCurrent(txn[u])
          PROVE  u \in late' \/ ShownCurrent(txn[u])'
      <3>1. CASE txn'[u] = Idle
        BY <3>1, IdleHandler DEF ShownCurrent, Handlers
      <3>2. CASE txn'[u] = txn[u] /\ (u \in late => u \in late')
        BY <2>2, <2>3, <3>2 DEF ShownCurrent
      <3> QED  BY <2>1, <3>1, <3>2 DEF Settles
    <2>4. raced \subseteq raced'
      BY <2>1 DEF Settles
    <2> QED  BY <2>2, <2>3, <2>4 DEF ShownInv
  <1>4. CASE Show
    <2>1. /\ UNCHANGED <<mission, content, txn, late, raced>>
          /\ shown' = [version |-> mission.version, content |-> content]
      BY <1>4 DEF Show, planVars, uow
    <2>2. mission.version \in Nat
      BY DEF TypeInv, TypeOK, MissionRow
    <2>3. shown'.version = mission.version /\ shown'.content = content
      BY <2>1
    <2>4. \A u \in Sessions : ShownCurrent(txn[u]) => ShownCurrent(txn[u])'
      BY <2>1, <2>3 DEF ShownCurrent
    <2> QED  BY <2>1, <2>2, <2>3, <2>4 DEF ShownInv
  <1>5. CASE SetControl
    BY <1>3, <1>5 DEF SetControl
  <1>6. ASSUME NEW s \in Sessions, RollBack(s) PROVE ShownInv'
    BY <1>3, <1>6 DEF RollBack
  <1>7. CASE UNCHANGED vars
    BY <1>3, <1>7 DEF vars
  <1> QED  BY <1>1, <1>2, <1>4, <1>5, <1>6, <1>7 DEF Next, Begin, Commits

(* expected_version identifies the plan: an approval that is not late is of *)
(* the plan the owner was shown, as long as no accept_mission, replanning   *)
(* or edit has committed late.                                              *)
THEOREM ApprovalIsOfWhatWasShown == Spec => []ApprovedAsShown
  <1>1. Init => ShownInv
    <2> SUFFICES ASSUME Init PROVE ShownInv  OBVIOUS
    <2>1. \A s \in Sessions : txn[s] = Idle
      BY UnitsStart DEF Init
    <2> QED  BY <2>1, IdleHandler DEF Init, ShownInv, ShownCurrent, Handlers
  <1>2. ShownInv => ApprovedAsShown
    BY DEF ShownInv, ShownCurrent, ApprovedAsShown
  <1> QED  BY <1>1, <1>2, ShownNext, TypeAlways, PTL DEF Spec
=============================================================================
