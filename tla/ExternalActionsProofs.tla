------------------------ MODULE ExternalActionsProofs ------------------------
(***************************************************************************)
(* Proofs about ExternalActions for every set of sessions, missions,       *)
(* approvals and operations and for every limit.                           *)
(***************************************************************************)
EXTENDS ExternalActions, FiniteSetTheorems, TLAPS

(* What a request in flight has loaded is what its write phase relies on:   *)
(* rows that exist and still exist, and mission transitions that were legal *)
(* from the loaded mission.                                                 *)
Holds(t) ==
    /\ t.handler = "lead_review" =>
         /\ t.mission \in Missions /\ t.row \in MissionRow
         /\ Reviewed(t.row, t.mission) # Raised
    /\ t.handler = "decide" =>
         /\ t.mission \in Missions /\ t.row \in MissionRow
         /\ t.arg \in {"approve", "reject", "changes"}
         /\ Decided(t.row, t.arg) # Raised
         /\ \A a \in t.approvals : approval[a] # AbsentApproval
    /\ t.handler = "expire" => \A a \in t.approvals : approval[a] # AbsentApproval
    /\ t.handler = "prepare" => t.op \in Ops /\ t.mission \in Missions
    /\ t.handler = "execute" =>
         /\ t.op \in Ops /\ op[t.op] # AbsentOp
         /\ t.mission \in Missions /\ t.row \in MissionRow
    /\ t.handler = "verify" =>
         /\ t.op \in Ops /\ op[t.op] # AbsentOp
         /\ t.mission \in Missions /\ t.row \in MissionRow
         /\ Verified(t.row, t.arg) # Raised

TypeInv == TypeOK /\ \A s \in Sessions : Holds(txn[s])

------------------------------------------------------------------------------
(* A mission row after a transition is a row or the exception.              *)
LEMMA MissionStepType ==
    ASSUME NEW row \in MissionRow \cup {Raised}, NEW target \in MissionStatus
    PROVE  MissionStep(row, target) \in MissionRow \cup {Raised}
  BY DEF MissionStep, MissionRow, Raised

(* RAISED is no status: the exception is not a row.                         *)
LEMMA RaisedIsNoRow == Raised \notin MissionRow
  BY DEF Raised, MissionRow, MissionStatus

(* The conditional transition keeps a row a row, or raises.                 *)
LEMMA MissionStepIfType ==
    ASSUME NEW row \in MissionRow \cup {Raised}, NEW target \in MissionStatus, NEW from
    PROVE  MissionStepIf(row, from, target) \in MissionRow \cup {Raised}
  BY MissionStepType DEF MissionStepIf

(* The four handlers that move a mission leave a row or raise.              *)
LEMMA ReviewedType ==
    ASSUME NEW row \in MissionRow, NEW m
    PROVE  Reviewed(row, m) \in MissionRow \cup {Raised}
  <1>1. {"LEAD_REVIEW", "APPROVAL_REQUIRED", "COMPLETED"} \subseteq MissionStatus
    BY DEF MissionStatus
  <1>2. MissionStep(row, "LEAD_REVIEW") \in MissionRow \cup {Raised}
    BY <1>1, MissionStepType
  <1> QED  BY <1>1, <1>2, MissionStepType DEF Reviewed

(* decide_approval: the owner's decision leaves a row or raises.            *)
LEMMA DecidedType ==
    ASSUME NEW row \in MissionRow, NEW d
    PROVE  Decided(row, d) \in MissionRow \cup {Raised}
  <1>1. {"APPROVED", "EXECUTING"} \subseteq MissionStatus
    BY DEF MissionStatus
  <1> QED  BY <1>1, MissionStepType DEF Decided

(* verify_unknown_external_operation: a row or the exception.               *)
LEMMA VerifiedType ==
    ASSUME NEW row \in MissionRow, NEW d
    PROVE  Verified(row, d) \in MissionRow \cup {Raised}
  <1>1. {"VERIFYING", "COMPLETED", "FAILED"} \subseteq MissionStatus
    BY DEF MissionStatus
  <1>2. MissionStepIf(row, "UNKNOWN", "VERIFYING") \in MissionRow \cup {Raised}
    BY <1>1, MissionStepIfType
  <1> QED  BY <1>1, <1>2, MissionStepType DEF Verified

AllOutcomes == ProviderOutcomes \cup {Simulated, DemoRun, Denied}

(* Every way execute can end is a result with two flags.                    *)
LEMMA OutcomeType ==
    ASSUME NEW out \in AllOutcomes
    PROVE  out.result \in Results
  BY DEF AllOutcomes, ProviderOutcomes, SendRaised, SendReturned, Simulated, DemoRun, Denied, Results

(* execute_external_operation: a row or the exception.                      *)
LEMMA ExecutedType ==
    ASSUME NEW row \in MissionRow, NEW out \in AllOutcomes
    PROVE  Executed(row, out) \in MissionRow \cup {Raised}
  <1> DEFINE started == MissionStepIf(row, "APPROVED", "ACTION_EXECUTING")
             verifying == IF out.verifying
                            THEN MissionStepIf(started, "ACTION_EXECUTING", "VERIFYING")
                            ELSE started
  <1>1. {"ACTION_EXECUTING", "VERIFYING", "COMPLETED", "FAILED", "UNKNOWN"} \subseteq MissionStatus
    BY DEF MissionStatus
  <1>2. MissionResult(out.result) \in MissionStatus
    BY <1>1, OutcomeType DEF MissionResult, Results
  <1>3. started \in MissionRow \cup {Raised}
    BY <1>1, MissionStepIfType
  <1>4. verifying \in MissionRow \cup {Raised}
    <2> HIDE DEF started
    <2> QED  BY <1>1, <1>3, MissionStepIfType
  <1>5. MissionStep(verifying, MissionResult(out.result)) \in MissionRow \cup {Raised}
    <2> HIDE DEF verifying
    <2> QED  BY <1>2, <1>4, MissionStepType
  <1> QED  BY <1>5 DEF Executed

------------------------------------------------------------------------------
(* Type correctness.                                                        *)

(* The initial rows and sessions satisfy the type invariant.                *)
LEMMA TypeInit == Init => TypeInv
  <1> SUFFICES ASSUME Init PROVE TypeInv  OBVIOUS
  <1>1. "EXECUTING" \in MissionStatus /\ FirstVersion \in Nat
    BY DEF MissionStatus, FirstVersion
  <1>2. Idle \in Txn
    BY DEF Idle, Txn, Handlers
  <1>3. TypeOK
    BY <1>1, <1>2 DEF Init, TypeOK, MissionRow
  <1>4. \A s \in Sessions : Holds(txn[s])
    BY DEF Init, Holds, Idle
  <1> QED  BY <1>3, <1>4 DEF TypeInv

(* Starting a request changes no row, and what it loads holds.              *)
LEMMA TypeLoad ==
    ASSUME TypeInv, NEW s \in Sessions, NEW t \in Txn, Load(s, t), Holds(t)
    PROVE  TypeInv'
  <1>1. TypeOK'
    BY DEF TypeInv, TypeOK, Load, rows, history
  <1>2. \A u \in Sessions : Holds(txn'[u])
    BY DEF TypeInv, TypeOK, Load
  <1>3. \A u \in Sessions : Holds(txn'[u]) => Holds(txn[u])'
    BY DEF Holds, Load, rows
  <1> QED  BY <1>1, <1>2, <1>3 DEF TypeInv

(* A write phase that removes no approval and no operation disturbs no      *)
(* other request.                                                           *)
LEMMA HoldsFrame ==
    ASSUME TypeInv, NEW s \in Sessions, End(s),
           \A a \in Approvals : approval[a] # AbsentApproval => approval'[a] # AbsentApproval,
           \A o \in Ops : op[o] # AbsentOp => op'[o] # AbsentOp
    PROVE  \A u \in Sessions : Holds(txn[u])'
  <1> SUFFICES ASSUME NEW u \in Sessions PROVE Holds(txn[u])'  OBVIOUS
  <1>1. CASE u = s
    <2>1. txn'[u] = Idle
      BY <1>1 DEF End, TypeInv, TypeOK
    <2> QED  BY <2>1 DEF Holds, Idle
  <1>2. CASE u # s
    <2>1. txn'[u] = txn[u] /\ Holds(txn[u]) /\ txn[u] \in Txn
      BY <1>2 DEF End, TypeInv, TypeOK
    <2>2. txn[u].approvals \subseteq Approvals
      BY <2>1 DEF Txn
    <2> QED  BY <2>1, <2>2 DEF Holds
  <1> QED  BY <1>1, <1>2

(* Ending a request keeps what every other request holds.                   *)
LEMMA EndType ==
    ASSUME TypeInv, NEW s \in Sessions, End(s)
    PROVE  txn' \in [Sessions -> Txn]
  <1>1. Idle \in Txn
    BY DEF Idle, Txn, Handlers
  <1> QED  BY <1>1 DEF TypeInv, TypeOK, End

(* A session without a request is a session.                                *)
LEMMA IdleType == Idle \in Txn
  BY DEF Idle, Txn, Handlers

(* Every Begin... step keeps the type invariant.                            *)
LEMMA TypeBegin ==
    ASSUME TypeInv, NEW s \in Sessions, Begin(s)
    PROVE  TypeInv'
  <1>0. TypeOK
    BY DEF TypeInv
  <1>1. CASE \E m \in Missions : BeginLeadReview(s, m)
    <2> PICK m \in Missions : BeginLeadReview(s, m)  BY <1>1
    <2> DEFINE t == [Idle EXCEPT !.handler = "lead_review", !.mission = m, !.row = mission[m]]
    <2>1. t \in Txn
      BY <1>0 DEF TypeOK, Txn, Idle, Handlers
    <2>2. Holds(t)
      BY <1>0 DEF TypeOK, Holds, Idle, BeginLeadReview
    <2>3. Load(s, t)
      BY DEF BeginLeadReview
    <2> HIDE DEF t
    <2> QED  BY <2>1, <2>2, <2>3, TypeLoad
  <1>2. CASE \E a \in Approvals, d \in {"approve", "reject", "changes"} : BeginDecide(s, a, d)
    <2> PICK a \in Approvals, d \in {"approve", "reject", "changes"} : BeginDecide(s, a, d)
      BY <1>2
    <2> DEFINE m == approval[a].mission
               t == [Idle EXCEPT !.handler = "decide", !.arg = d, !.approvals = {a},
                                 !.mission = m, !.row = mission[m]]
    <2>1. m \in Missions
      BY <1>0 DEF TypeOK, ApprovalRow, BeginDecide
    <2>2. t \in Txn
      BY <1>0, <2>1 DEF TypeOK, Txn, Idle, Handlers, Arguments
    <2>3. Holds(t)
      BY <1>0, <2>1 DEF TypeOK, Holds, Idle, BeginDecide
    <2>4. Load(s, t)
      BY DEF BeginDecide
    <2> HIDE DEF t
    <2> QED  BY <2>2, <2>3, <2>4, TypeLoad
  <1>3. CASE \E batch \in SUBSET Approvals : BeginExpire(s, batch)
    <2> PICK batch \in SUBSET Approvals : BeginExpire(s, batch)  BY <1>3
    <2> DEFINE t == [Idle EXCEPT !.handler = "expire", !.approvals = batch]
    <2>1. t \in Txn
      BY DEF Txn, Idle, Handlers
    <2>2. Holds(t)
      <3>1. t.handler = "expire" /\ t.approvals = batch
        BY DEF Idle
      <3>2. AbsentApproval.status # "PENDING"
        BY DEF AbsentApproval
      <3>3. \A a \in batch : approval[a] # AbsentApproval
        BY <3>2 DEF BeginExpire
      <3> HIDE DEF t
      <3> QED  BY <3>1, <3>3 DEF Holds
    <2>3. Load(s, t)
      BY DEF BeginExpire
    <2> HIDE DEF t
    <2> QED  BY <2>1, <2>2, <2>3, TypeLoad
  <1>4. CASE \E a \in Approvals, o \in Ops, mode \in Modes : BeginPrepare(s, a, o, mode)
    <2> PICK a \in Approvals, o \in Ops, mode \in Modes : BeginPrepare(s, a, o, mode)
      BY <1>4
    <2> DEFINE m == approval[a].mission
               t == [Idle EXCEPT !.handler = "prepare", !.arg = mode, !.approvals = {a},
                                 !.op = o, !.mission = m]
    <2>1. m \in Missions
      BY <1>0 DEF TypeOK, ApprovalRow, AbsentApproval, BeginPrepare
    <2>2. t \in Txn
      BY <2>1, ConstantsAssumption DEF Txn, Idle, Handlers, Arguments
    <2>3. Holds(t)
      BY <2>1 DEF Holds, Idle
    <2>4. Load(s, t)
      BY DEF BeginPrepare
    <2> HIDE DEF t
    <2> QED  BY <2>2, <2>3, <2>4, TypeLoad
  <1>5. CASE \E o \in Ops, mode \in {"run", "simulate_unknown"} : BeginExecute(s, o, mode)
    <2> PICK o \in Ops, mode \in {"run", "simulate_unknown"} : BeginExecute(s, o, mode)
      BY <1>5
    <2> DEFINE m == op[o].mission
               t == [Idle EXCEPT !.handler = "execute", !.arg = mode, !.op = o,
                                 !.mission = m, !.row = mission[m],
                                 !.attempts = op[o].attempts]
    <2>1. op[o] # AbsentOp /\ m \in Missions /\ op[o].attempts \in Nat
      BY <1>0 DEF TypeOK, OpRow, AbsentOp, BeginExecute
    <2>2. t \in Txn
      BY <1>0, <2>1 DEF TypeOK, Txn, Idle, Handlers, Arguments
    <2>3. Holds(t)
      BY <1>0, <2>1 DEF TypeOK, Holds, Idle
    <2>4. Load(s, t)
      BY DEF BeginExecute
    <2> HIDE DEF t
    <2> QED  BY <2>2, <2>3, <2>4, TypeLoad
  <1>6. CASE \E o \in Ops, outcome \in {"succeeded", "failed"} : BeginVerify(s, o, outcome)
    <2> PICK o \in Ops, outcome \in {"succeeded", "failed"} : BeginVerify(s, o, outcome)
      BY <1>6
    <2> DEFINE m == op[o].mission
               t == [Idle EXCEPT !.handler = "verify", !.arg = outcome, !.op = o,
                                 !.mission = m, !.row = mission[m]]
    <2>1. op[o] # AbsentOp /\ m \in Missions
      BY <1>0 DEF TypeOK, OpRow, AbsentOp, BeginVerify
    <2>2. t \in Txn
      BY <1>0, <2>1 DEF TypeOK, Txn, Idle, Handlers, Arguments
    <2>3. Holds(t)
      BY <1>0, <2>1 DEF TypeOK, Holds, Idle, BeginVerify
    <2>4. Load(s, t)
      BY DEF BeginVerify
    <2> HIDE DEF t
    <2> QED  BY <2>2, <2>3, <2>4, TypeLoad
  <1> QED  BY <1>1, <1>2, <1>3, <1>4, <1>5, <1>6 DEF Begin

(* lead_review_mission keeps the type invariant.                            *)
LEMMA TypeLeadReview ==
    ASSUME TypeInv, NEW s \in Sessions, LeadReview(s)
    PROVE  TypeInv'
  <1> DEFINE m == txn[s].mission
             row == Reviewed(txn[s].row, m)
  <1>0. TypeOK /\ Holds(txn[s]) /\ End(s) /\ txn[s].handler = "lead_review"
    BY DEF TypeInv, LeadReview
  <1>1. m \in Missions /\ row \in MissionRow
    BY <1>0, ReviewedType DEF Holds
  <1> HIDE DEF m, row
  <1>2. mission' = [mission EXCEPT ![m] = row]
    BY DEF LeadReview, m, row
  <1>3. /\ approval' \in [Approvals -> ApprovalRow \cup {AbsentApproval}]
        /\ \A a \in Approvals : approval[a] # AbsentApproval => approval'[a] # AbsentApproval
    <2>1. CASE UNCHANGED approval
      BY <1>0, <2>1 DEF TypeOK
    <2>2. ASSUME NEW a \in Approvals,
                 approval' = [approval EXCEPT ![a] =
                   [status |-> "PENDING", mission |-> m, version |-> row.version]]
          PROVE  <1>3
      <3> DEFINE new == [status |-> "PENDING", mission |-> m, version |-> row.version]
      <3>1. new \in ApprovalRow
        BY <1>1 DEF ApprovalRow, ApprovalStatus, MissionRow
      <3>2. new # AbsentApproval
        <4>1. new.status # AbsentApproval.status
          BY DEF AbsentApproval
        <4> QED  BY <4>1
      <3> HIDE DEF new
      <3> QED  BY <1>0, <2>2, <3>1, <3>2 DEF TypeOK, new
    <2> QED  BY <2>1, <2>2 DEF LeadReview, m, row
  <1>4. TypeOK'
    <2>1. mission' \in [Missions -> MissionRow]
      BY <1>0, <1>1, <1>2 DEF TypeOK
    <2> QED  BY <1>0, <1>3, <2>1, EndType DEF TypeOK, LeadReview, history
  <1>5. \A u \in Sessions : Holds(txn[u])'
    BY <1>0, <1>3, HoldsFrame DEF LeadReview
  <1> QED  BY <1>4, <1>5 DEF TypeInv

(* Writing a legal status into existing approvals keeps the table a table.  *)
LEMMA ApprovalWrite ==
    ASSUME TypeOK, NEW batch \in SUBSET Approvals, NEW st \in ApprovalStatus,
           \A a \in batch : approval[a] # AbsentApproval,
           approval' = [a \in Approvals |-> IF a \in batch
                          THEN [approval[a] EXCEPT !.status = st] ELSE approval[a]]
    PROVE  /\ approval' \in [Approvals -> ApprovalRow \cup {AbsentApproval}]
           /\ \A a \in Approvals : approval[a] # AbsentApproval => approval'[a] # AbsentApproval
  <1>1. ASSUME NEW a \in Approvals
        PROVE  /\ approval'[a] \in ApprovalRow \cup {AbsentApproval}
               /\ approval[a] # AbsentApproval => approval'[a] # AbsentApproval
    <2>1. CASE a \in batch
      <3>1. approval[a] \in ApprovalRow /\ approval'[a] = [approval[a] EXCEPT !.status = st]
        BY <2>1 DEF TypeOK
      <3>2. approval'[a] \in ApprovalRow
        BY <3>1 DEF ApprovalRow
      <3>3. AbsentApproval \notin ApprovalRow
        BY DEF AbsentApproval, ApprovalRow, ApprovalStatus
      <3> QED  BY <3>2, <3>3
    <2>2. CASE a \notin batch
      BY <2>2 DEF TypeOK
    <2> QED  BY <2>1, <2>2
  <1> QED  BY <1>1

(* decide_approval keeps the type invariant.                                *)
LEMMA TypeDecide ==
    ASSUME TypeInv, NEW s \in Sessions, Decide(s)
    PROVE  TypeInv'
  <1> DEFINE m == txn[s].mission
             d == txn[s].arg
             batch == txn[s].approvals
  <1>0. TypeOK /\ Holds(txn[s]) /\ End(s) /\ txn[s].handler = "decide" /\ txn[s] \in Txn
    BY DEF TypeInv, TypeOK, Decide
  <1>1. m \in Missions /\ Decided(txn[s].row, d) \in MissionRow
    BY <1>0, DecidedType DEF Holds
  <1>2. /\ d \in {"approve", "reject", "changes"}
        /\ batch \in SUBSET Approvals
        /\ \A a \in batch : approval[a] # AbsentApproval
    BY <1>0 DEF Holds, Txn
  <1>3. Target(d) \in ApprovalStatus
    BY <1>2 DEF Target, ApprovalStatus
  <1>4. /\ approval' \in [Approvals -> ApprovalRow \cup {AbsentApproval}]
        /\ \A a \in Approvals : approval[a] # AbsentApproval => approval'[a] # AbsentApproval
    <2>1. approval' = [a \in Approvals |-> IF a \in batch
                         THEN [approval[a] EXCEPT !.status = Target(d)] ELSE approval[a]]
      BY DEF Decide
    <2> HIDE DEF batch, d
    <2> QED  BY <1>0, <1>2, <1>3, <2>1, ApprovalWrite
  <1>5. decisions' \subseteq Approvals \X {"approve", "reject", "changes"}
    BY <1>0, <1>2 DEF TypeOK, Decide
  <1>6. TypeOK'
    BY <1>0, <1>1, <1>4, <1>5, EndType DEF TypeOK, Decide, history
  <1>7. \A u \in Sessions : Holds(txn[u])'
    BY <1>0, <1>4, HoldsFrame DEF Decide
  <1> QED  BY <1>6, <1>7 DEF TypeInv

(* The expiry of scheduler_tick keeps the type invariant.                   *)
LEMMA TypeExpire ==
    ASSUME TypeInv, NEW s \in Sessions, Expire(s)
    PROVE  TypeInv'
  <1>0. TypeOK /\ Holds(txn[s]) /\ End(s) /\ txn[s].handler = "expire" /\ txn[s] \in Txn
    BY DEF TypeInv, TypeOK, Expire
  <1>1. /\ txn[s].approvals \in SUBSET Approvals
        /\ \A a \in txn[s].approvals : approval[a] # AbsentApproval
        /\ "EXPIRED" \in ApprovalStatus
    BY <1>0 DEF Holds, Txn, ApprovalStatus
  <1>2. /\ approval' \in [Approvals -> ApprovalRow \cup {AbsentApproval}]
        /\ \A a \in Approvals : approval[a] # AbsentApproval => approval'[a] # AbsentApproval
    <2>1. approval' = [a \in Approvals |-> IF a \in txn[s].approvals
                         THEN [approval[a] EXCEPT !.status = "EXPIRED"] ELSE approval[a]]
      BY DEF Expire
    <2> QED  BY <1>0, <1>1, <2>1, ApprovalWrite
  <1>3. TypeOK'
    BY <1>0, <1>2, EndType DEF TypeOK, Expire, history
  <1>4. \A u \in Sessions : Holds(txn[u])'
    BY <1>0, <1>2, HoldsFrame DEF Expire
  <1> QED  BY <1>3, <1>4 DEF TypeInv

(* ABSENT is no status: an operation not inserted is not a row.             *)
LEMMA AbsentOpIsNoRow == AbsentOp \notin OpRow
  BY DEF AbsentOp, OpRow, ExternalOperationStatus

(* prepare_external_operation keeps the type invariant.                     *)
LEMMA TypePrepare ==
    ASSUME TypeInv, NEW s \in Sessions, Prepare(s)
    PROVE  TypeInv'
  <1>0. TypeOK /\ Holds(txn[s]) /\ End(s) /\ txn[s].handler = "prepare" /\ txn[s] \in Txn
    BY DEF TypeInv, TypeOK, Prepare
  <1>1. txn[s].op \in Ops /\ txn[s].mission \in Missions
    BY <1>0 DEF Holds
  <1>2. PICK a \in Approvals :
          op' = [op EXCEPT ![txn[s].op] =
            [status |-> "APPROVED", approval |-> a, mission |-> txn[s].mission,
             attempts |-> 0, demo |-> txn[s].arg = "demo"]]
    BY <1>0 DEF Prepare, Txn
  <1> DEFINE new == [status |-> "APPROVED", approval |-> a, mission |-> txn[s].mission,
                     attempts |-> 0, demo |-> txn[s].arg = "demo"]
  <1>3. new \in OpRow
    BY <1>1 DEF OpRow, ExternalOperationStatus
  <1> HIDE DEF new
  <1>4. /\ op' \in [Ops -> OpRow \cup {AbsentOp}]
        /\ \A o \in Ops : op[o] # AbsentOp => op'[o] # AbsentOp
    BY <1>0, <1>2, <1>3, AbsentOpIsNoRow DEF TypeOK, new
  <1>5. TypeOK'
    BY <1>0, <1>4, EndType DEF TypeOK, Prepare, history
  <1>6. \A u \in Sessions : Holds(txn[u])'
    BY <1>0, <1>4, HoldsFrame DEF Prepare
  <1> QED  BY <1>5, <1>6 DEF TypeInv

(* Counting an acceptance keeps a counter a counter.                        *)
LEMMA CounterType ==
    ASSUME NEW cnt \in [Ops -> Nat], NEW o \in Ops, NEW out
    PROVE  [cnt EXCEPT ![o] = @ + IF out.sent THEN 1 ELSE 0] \in [Ops -> Nat]
  OBVIOUS

(* An operation row after its columns are written is an operation row.      *)
LEMMA OpWrite ==
    ASSUME TypeOK, NEW o \in Ops, op[o] # AbsentOp,
           NEW st \in ExternalOperationStatus, NEW n \in Nat
    PROVE  /\ [op EXCEPT ![o].attempts = n, ![o].status = st] \in [Ops -> OpRow \cup {AbsentOp}]
           /\ [op EXCEPT ![o].status = st] \in [Ops -> OpRow \cup {AbsentOp}]
           /\ [op[o] EXCEPT !.attempts = n, !.status = st] \in OpRow
           /\ [op[o] EXCEPT !.status = st] \in OpRow
  <1>1. op[o] \in OpRow
    BY DEF TypeOK
  <1>2. [op[o] EXCEPT !.attempts = n, !.status = st] \in OpRow
    BY <1>1 DEF OpRow
  <1>3. [op[o] EXCEPT !.status = st] \in OpRow
    BY <1>1 DEF OpRow
  <1>4. /\ [op EXCEPT ![o].attempts = n, ![o].status = st]
             = [op EXCEPT ![o] = [op[o] EXCEPT !.attempts = n, !.status = st]]
        /\ [op EXCEPT ![o].status = st] = [op EXCEPT ![o] = [op[o] EXCEPT !.status = st]]
    BY DEF TypeOK
  <1> QED  BY <1>2, <1>3, <1>4 DEF TypeOK

(* A committed execute_external_operation keeps the type invariant.         *)
LEMMA TypeExecuteCommit ==
    ASSUME TypeInv, NEW s \in Sessions, NEW out \in AllOutcomes, ExecuteCommit(s, out)
    PROVE  TypeInv'
  <1> DEFINE o == txn[s].op
             m == txn[s].mission
             n == txn[s].attempts + 1
             row == Executed(txn[s].row, out)
  <1>0. TypeOK /\ Holds(txn[s]) /\ End(s) /\ txn[s].handler = "execute" /\ txn[s] \in Txn
    BY DEF TypeInv, TypeOK, ExecuteCommit
  <1>1. /\ o \in Ops /\ op[o] # AbsentOp /\ m \in Missions /\ n \in Nat
        /\ row \in MissionRow
        /\ out.result \in Results /\ out.result \in ExternalOperationStatus
    BY <1>0, ExecutedType, OutcomeType
       DEF Holds, Txn, ExecuteCommit, Results, ExternalOperationStatus
  <1>2. /\ attempts' = attempts \cup {[op |-> o, number |-> n, status |-> out.result]}
        /\ op' = [op EXCEPT ![o].attempts = n, ![o].status = out.result]
        /\ mission' = [mission EXCEPT ![m] = row]
        /\ metered' \in {metered, metered \cup {o}}
        /\ sent' = [sent EXCEPT ![o] = @ + IF out.sent THEN 1 ELSE 0]
    BY DEF ExecuteCommit, Provider, Metered
  <1> HIDE DEF o, m, n, row
  <1>3. attempts' \subseteq AttemptRow /\ metered' \subseteq Ops
    BY <1>0, <1>1, <1>2 DEF TypeOK, AttemptRow
  <1>4. sent' \in [Ops -> Nat]
    BY <1>0, <1>1, <1>2, CounterType DEF TypeOK
  <1>5. op' \in [Ops -> OpRow \cup {AbsentOp}]
    BY <1>0, <1>1, <1>2, OpWrite
  <1>6. \A q \in Ops : op[q] # AbsentOp => op'[q] # AbsentOp
    <2>1. op'[o] \in OpRow /\ \A q \in Ops : q # o => op'[q] = op[q]
      BY <1>0, <1>1, <1>2, OpWrite DEF TypeOK
    <2> QED  BY <2>1, AbsentOpIsNoRow
  <1>7. mission' \in [Missions -> MissionRow]
    BY <1>0, <1>1, <1>2 DEF TypeOK
  <1>8. TypeOK'
    BY <1>0, <1>3, <1>4, <1>5, <1>7, EndType DEF TypeOK, ExecuteCommit
  <1>9. \A u \in Sessions : Holds(txn[u])'
    BY <1>0, <1>6, HoldsFrame DEF ExecuteCommit
  <1> QED  BY <1>8, <1>9 DEF TypeInv

(* A rolled-back execute_external_operation keeps it too.                   *)
LEMMA TypeRollback ==
    ASSUME TypeInv, NEW s \in Sessions, NEW out, txn[s].handler = "execute",
           Rollback(s, out), crashes' \in Nat
    PROVE  TypeInv'
  <1>0. TypeOK /\ Holds(txn[s]) /\ End(s)
    BY DEF TypeInv, Rollback
  <1>1. txn[s].op \in Ops
    BY <1>0 DEF Holds
  <1>2. sent' \in [Ops -> Nat] /\ lost' \in [Ops -> Nat]
    BY <1>0, <1>1, CounterType DEF TypeOK, Rollback, Provider
  <1>3. TypeOK'
    BY <1>0, <1>2, EndType DEF TypeOK, Rollback, rows
  <1>4. \A u \in Sessions : Holds(txn[u])'
    BY <1>0, HoldsFrame DEF Rollback, rows
  <1> QED  BY <1>3, <1>4 DEF TypeInv

(* verify_unknown_external_operation keeps the type invariant.              *)
LEMMA TypeVerify ==
    ASSUME TypeInv, NEW s \in Sessions, Verify(s)
    PROVE  TypeInv'
  <1> DEFINE o == txn[s].op
             m == txn[s].mission
             row == Verified(txn[s].row, txn[s].arg)
             st == IF txn[s].arg = "succeeded" THEN "SUCCEEDED" ELSE "FAILED"
  <1>0. TypeOK /\ Holds(txn[s]) /\ End(s) /\ txn[s].handler = "verify"
    BY DEF TypeInv, Verify
  <1>1. o \in Ops /\ op[o] # AbsentOp /\ m \in Missions /\ row \in MissionRow
    BY <1>0, VerifiedType DEF Holds
  <1>2. st \in ExternalOperationStatus
    BY DEF ExternalOperationStatus
  <1>3. op' = [op EXCEPT ![o].status = st] /\ mission' = [mission EXCEPT ![m] = row]
    BY DEF Verify
  <1> HIDE DEF o, m, row, st
  <1>4. op' \in [Ops -> OpRow \cup {AbsentOp}] /\ op'[o] \in OpRow
    <2>1. 0 \in Nat
      OBVIOUS
    <2> QED  BY <1>0, <1>1, <1>2, <1>3, <2>1, OpWrite DEF TypeOK
  <1>5. \A q \in Ops : op[q] # AbsentOp => op'[q] # AbsentOp
    BY <1>0, <1>1, <1>3, <1>4, AbsentOpIsNoRow DEF TypeOK
  <1>6. mission' \in [Missions -> MissionRow]
    BY <1>0, <1>1, <1>3 DEF TypeOK
  <1>7. TypeOK'
    BY <1>0, <1>4, <1>6, EndType DEF TypeOK, Verify, history
  <1>8. \A u \in Sessions : Holds(txn[u])'
    BY <1>0, <1>5, HoldsFrame DEF Verify
  <1> QED  BY <1>7, <1>8 DEF TypeInv

(* Every step keeps the type invariant.                                     *)
LEMMA TypeNext == TypeInv /\ [Next]_vars => TypeInv'
  <1> SUFFICES ASSUME TypeInv, [Next]_vars PROVE TypeInv'  OBVIOUS
  <1>1. ASSUME NEW s \in Sessions, Begin(s) PROVE TypeInv'
    BY <1>1, TypeBegin
  <1>2. ASSUME NEW s \in Sessions, Finish(s) PROVE TypeInv'
    <2>1. CASE LeadReview(s)  BY <2>1, TypeLeadReview
    <2>2. CASE Decide(s)      BY <2>2, TypeDecide
    <2>3. CASE Expire(s)      BY <2>3, TypeExpire
    <2>4. CASE Prepare(s)     BY <2>4, TypePrepare
    <2>5. CASE Verify(s)      BY <2>5, TypeVerify
    <2>6. ASSUME NEW out \in AllOutcomes, ExecuteCommit(s, out) PROVE TypeInv'
      BY <2>6, TypeExecuteCommit
    <2>7. ASSUME NEW out, ExecuteRaise(s, out) PROVE TypeInv'
      BY <2>7, TypeRollback DEF ExecuteRaise, TypeInv, TypeOK
    <2>8. ASSUME NEW out, ExecuteCrash(s, out) PROVE TypeInv'
      BY <2>8, TypeRollback DEF ExecuteCrash, TypeInv, TypeOK
    <2> QED  BY <1>2, <2>1, <2>2, <2>3, <2>4, <2>5, <2>6, <2>7, <2>8 DEF Finish, AllOutcomes
  <1>3. ASSUME NEW s \in Sessions, Abandon(s) PROVE TypeInv'
    <2>1. TypeOK'
      BY <1>3, EndType DEF TypeInv, TypeOK, Abandon, rows, history
    <2>2. \A u \in Sessions : Holds(txn[u])'
      BY <1>3, HoldsFrame DEF Abandon, rows
    <2> QED  BY <2>1, <2>2 DEF TypeInv
  <1>4. CASE UNCHANGED vars
    BY <1>4 DEF TypeInv, TypeOK, Holds, vars
  <1>5. ASSUME NEW o \in Ops, Ages(o) PROVE TypeInv'
    BY <1>5 DEF Ages, rows, TypeInv, TypeOK, Holds
  <1> QED  BY <1>1, <1>2, <1>3, <1>4, <1>5 DEF Next

(* The type invariant holds throughout.                                     *)
LEMMA TypeInvariant == Spec => []TypeInv
  BY TypeInit, TypeNext, PTL DEF Spec

(* Every row the handlers write, in any interleaving of any number of       *)
(* sessions and with any number of crashes, is a row of its table: no       *)
(* handler commits a mission, approval or operation through an illegal      *)
(* transition.                                                              *)
THEOREM TypeCorrect == Spec => []TypeOK
  <1>1. TypeInv => TypeOK
    BY DEF TypeInv
  <1> QED  BY <1>1, TypeInvariant, PTL

------------------------------------------------------------------------------
(* At most one committed send.                                              *)

(* An operation is APPROVED exactly until its attempt number 1 is inserted, *)
(* so every executor that passed the status check is about to insert that   *)
(* same attempt.                                                            *)
OpInv ==
    /\ \A t \in attempts : t.number = 1
    /\ \A o \in Ops :
         /\ op[o].status \in {"ABSENT", "APPROVED"} \cup Results
         /\ op[o].status \in Results => HasAttempt(o)
         /\ op[o].status \in {"ABSENT", "APPROVED"} => op[o].attempts = 0 /\ ~HasAttempt(o)
    /\ \A s \in Sessions :
         /\ txn[s].handler = "execute" => txn[s].attempts = 0
         /\ txn[s].handler = "verify" => HasAttempt(txn[s].op)

SendInv == OpInv /\ SendsAccounted

(* Before any request nothing is sent, attempted or lost.                   *)
LEMMA SendInit == Init => SendInv
  <1> SUFFICES ASSUME Init PROVE SendInv  OBVIOUS
  <1>1. \A o \in Ops : ~HasAttempt(o)
    BY DEF Init, HasAttempt
  <1>2. \A o \in Ops : op[o].status = "ABSENT" /\ op[o].attempts = 0
    BY DEF Init, AbsentOp
  <1>3. \A s \in Sessions : txn[s].handler = "idle"
    BY DEF Init, Idle
  <1>4. OpInv
    BY <1>1, <1>2, <1>3 DEF Init, OpInv, Results
  <1>5. SendsAccounted
    BY DEF Init, SendsAccounted
  <1> QED  BY <1>4, <1>5 DEF SendInv

(* Steps that touch neither operations nor attempts nor the counters.       *)
LEMMA SendFrame ==
    ASSUME SendInv, TypeInv, NEW s \in Sessions, NEW t,
           UNCHANGED <<op, attempts, sent, lost>>,
           txn' = [txn EXCEPT ![s] = t],
           t.handler = "execute" => t.attempts = 0,
           t.handler = "verify" => HasAttempt(t.op)
    PROVE  SendInv'
  <1>1. SendsAccounted'
    BY DEF SendInv, SendsAccounted, HasAttempt
  <1>2. ASSUME NEW u \in Sessions
        PROVE  /\ txn'[u].handler = "execute" => txn'[u].attempts = 0
               /\ txn'[u].handler = "verify" => \E x \in attempts : x.op = txn'[u].op
    <2>1. txn'[u] = IF u = s THEN t ELSE txn[u]
      BY DEF TypeInv, TypeOK
    <2> QED  BY <2>1 DEF SendInv, OpInv, HasAttempt
  <1>3. OpInv'
    BY <1>2 DEF SendInv, OpInv, HasAttempt
  <1> QED  BY <1>1, <1>3 DEF SendInv

(* A write phase that leaves operations alone, then the end of it.          *)
LEMMA SendEnd ==
    ASSUME SendInv, TypeInv, NEW s \in Sessions, End(s),
           UNCHANGED <<op, attempts, sent, lost>>
    PROVE  SendInv'
  BY SendFrame DEF End, Idle

(* Starting a request keeps the sends accounted for.                        *)
LEMMA SendBegin ==
    ASSUME SendInv, TypeInv, NEW s \in Sessions, Begin(s)
    PROVE  SendInv'
  <1>1. ASSUME NEW t, Load(s, t), t.handler \notin {"execute", "verify"}
        PROVE  SendInv'
    BY <1>1, SendFrame DEF Load, rows, history
  <1>2. ASSUME NEW m \in Missions, BeginLeadReview(s, m) PROVE SendInv'
    BY <1>1, <1>2 DEF BeginLeadReview, Idle
  <1>3. ASSUME NEW a \in Approvals, NEW d \in {"approve", "reject", "changes"},
               BeginDecide(s, a, d)
        PROVE  SendInv'
    BY <1>1, <1>3 DEF BeginDecide, Idle
  <1>4. ASSUME NEW batch \in SUBSET Approvals, BeginExpire(s, batch) PROVE SendInv'
    BY <1>1, <1>4 DEF BeginExpire, Idle
  <1>5. ASSUME NEW a \in Approvals, NEW o \in Ops, NEW mode \in Modes,
               BeginPrepare(s, a, o, mode)
        PROVE  SendInv'
    BY <1>1, <1>5 DEF BeginPrepare, Idle
  <1>6. ASSUME NEW o \in Ops, NEW mode \in {"run", "simulate_unknown"}, BeginExecute(s, o, mode)
        PROVE  SendInv'
    <2> DEFINE t == [Idle EXCEPT !.handler = "execute", !.arg = mode, !.op = o,
                                 !.mission = op[o].mission, !.row = mission[op[o].mission],
                                 !.attempts = op[o].attempts]
    <2>1. Load(s, t) /\ op[o].status = "APPROVED"
      BY <1>6 DEF BeginExecute
    <2>2. t.handler = "execute" /\ t.attempts = 0
      BY <2>1 DEF Idle, SendInv, OpInv
    <2> HIDE DEF t
    <2> QED  BY <2>1, <2>2, SendFrame DEF Load, rows, history
  <1>7. ASSUME NEW o \in Ops, NEW outcome \in {"succeeded", "failed"}, BeginVerify(s, o, outcome)
        PROVE  SendInv'
    <2> DEFINE t == [Idle EXCEPT !.handler = "verify", !.arg = outcome, !.op = o,
                                 !.mission = op[o].mission, !.row = mission[op[o].mission]]
    <2>1. Load(s, t) /\ op[o].status = "UNKNOWN"
      BY <1>7 DEF BeginVerify
    <2>2. t.handler = "verify" /\ t.op = o
      BY DEF Idle
    <2>3. HasAttempt(o)
      BY <2>1 DEF SendInv, OpInv, Results
    <2> HIDE DEF t
    <2> QED  BY <2>1, <2>2, <2>3, SendFrame DEF Load, rows, history
  <1> QED  BY <1>2, <1>3, <1>4, <1>5, <1>6, <1>7 DEF Begin

(* An executor whose attempt number is still free works on an operation     *)
(* without any attempt.                                                     *)
LEMMA NewAttemptIsFirst ==
    ASSUME SendInv, NEW s \in Sessions, txn[s].handler = "execute", NewAttempt(s)
    PROVE  txn[s].attempts + 1 = 1 /\ ~HasAttempt(txn[s].op)
  BY DEF SendInv, OpInv, NewAttempt, HasAttempt

(* A new operation row has no attempt and no send of its own.               *)
LEMMA SendPrepare ==
    ASSUME SendInv, TypeInv, NEW s \in Sessions, Prepare(s)
    PROVE  SendInv'
  <1> DEFINE o == txn[s].op
  <1>0. o \in Ops /\ op[o] = AbsentOp /\ txn' = [txn EXCEPT ![s] = Idle]
        /\ attempts' = attempts /\ sent' = sent /\ lost' = lost
    BY DEF TypeInv, Holds, Prepare, End, history
  <1>1. ~HasAttempt(o)
    BY <1>0 DEF SendInv, OpInv, AbsentOp
  <1>2. /\ op'[o].status = "APPROVED" /\ op'[o].attempts = 0
        /\ \A q \in Ops : q # o => op'[q] = op[q]
    BY <1>0 DEF Prepare, TypeInv, TypeOK
  <1>3. ASSUME NEW u \in Sessions
        PROVE  /\ txn'[u].handler = "execute" => txn'[u].attempts = 0
               /\ txn'[u].handler = "verify" => HasAttempt(txn'[u].op)
    BY <1>0 DEF TypeInv, TypeOK, SendInv, OpInv, Idle
  <1>4. \A q : HasAttempt(q)' <=> HasAttempt(q)
    BY <1>0 DEF HasAttempt
  <1> HIDE DEF o
  <1>5. ASSUME NEW q \in Ops
        PROVE  /\ op'[q].status \in {"ABSENT", "APPROVED"} \cup Results
               /\ op'[q].status \in Results => HasAttempt(q)
               /\ op'[q].status \in {"ABSENT", "APPROVED"} => op'[q].attempts = 0 /\ ~HasAttempt(q)
    BY <1>1, <1>2 DEF SendInv, OpInv, Results
  <1>6. OpInv'
    BY <1>0, <1>3, <1>5 DEF SendInv, OpInv, HasAttempt
  <1>7. SendsAccounted'
    BY <1>0 DEF SendInv, SendsAccounted, HasAttempt
  <1> QED  BY <1>6, <1>7 DEF SendInv

(* A committed send is the operation's first attempt.                       *)
LEMMA SendExecuteCommit ==
    ASSUME SendInv, TypeInv, NEW s \in Sessions, NEW out \in AllOutcomes, ExecuteCommit(s, out)
    PROVE  SendInv'
  <1>a. PICK o \in Ops : o = txn[s].op
    BY DEF TypeInv, Holds, ExecuteCommit
  <1> DEFINE row == [op |-> o, number |-> 1, status |-> out.result]
  <1>0. txn[s].attempts + 1 = 1 /\ ~HasAttempt(o)
    BY <1>a, NewAttemptIsFirst DEF ExecuteCommit
  <1>1. /\ o \in Ops /\ op[o] \in OpRow /\ out.result \in Results
        /\ op' = [op EXCEPT ![o].attempts = 1, ![o].status = out.result]
        /\ attempts' = attempts \cup {row}
        /\ txn' = [txn EXCEPT ![s] = Idle] /\ lost' = lost
        /\ sent' = [sent EXCEPT ![o] = @ + IF out.sent THEN 1 ELSE 0]
    BY <1>a, <1>0, OutcomeType DEF TypeInv, TypeOK, Holds, ExecuteCommit, End, Provider
  <1>2. row.op = o /\ row.number = 1
    OBVIOUS
  <1> HIDE DEF row
  <1>3. /\ HasAttempt(o)'
        /\ \A q : HasAttempt(q) => HasAttempt(q)'
        /\ \A q : q # o /\ HasAttempt(q)' => HasAttempt(q)
    BY <1>1, <1>2 DEF HasAttempt
  <1>4. op'[o].status = out.result /\ \A q \in Ops : q # o => op'[q] = op[q]
    BY <1>1 DEF TypeInv, TypeOK, OpRow
  <1>5. ASSUME NEW u \in Sessions
        PROVE  /\ txn'[u].handler = "execute" => txn'[u].attempts = 0
               /\ txn'[u].handler = "verify" => HasAttempt(txn'[u].op)
    BY <1>1 DEF TypeInv, TypeOK, SendInv, OpInv, Idle
  <1>6. "APPROVED" \notin Results /\ "ABSENT" \notin Results
    BY DEF Results
  <1>7. ASSUME NEW q \in Ops
        PROVE  /\ op'[q].status \in {"ABSENT", "APPROVED"} \cup Results
               /\ op'[q].status \in Results => HasAttempt(q)'
               /\ op'[q].status \in {"ABSENT", "APPROVED"} => op'[q].attempts = 0 /\ ~HasAttempt(q)'
    <2>1. CASE q = o
      BY <1>1, <1>3, <1>4, <1>6, <2>1
    <2>2. CASE q # o
      BY <1>3, <1>4, <2>2 DEF SendInv, OpInv
    <2> QED  BY <2>1, <2>2
  <1>8. \A t \in attempts' : t.number = 1
    BY <1>1, <1>2 DEF SendInv, OpInv
  <1>9. OpInv'
    <2>1. \A u \in Sessions : txn'[u].handler = "verify" => \E t \in attempts' : t.op = txn'[u].op
      BY <1>1, <1>5 DEF HasAttempt
    <2> QED  BY <1>5, <1>7, <1>8, <2>1 DEF OpInv, HasAttempt
  <1>10. SendsAccounted'
    <2> SUFFICES ASSUME NEW q \in Ops
                 PROVE  sent'[q] <= lost'[q] + (IF HasAttempt(q)' THEN 1 ELSE 0)
      BY DEF SendsAccounted
    <2>1. CASE q = o
      <3>1. sent[q] <= lost[q] /\ sent[q] \in Nat /\ lost[q] \in Nat
        BY <1>0, <2>1 DEF SendInv, SendsAccounted, TypeInv, TypeOK
      <3>2. sent'[q] <= sent[q] + 1
        BY <1>1, <2>1 DEF TypeInv, TypeOK
      <3>3. sent'[q] \in Nat
        BY <1>1, <2>1 DEF TypeInv, TypeOK
      <3> QED  BY <1>1, <1>3, <2>1, <3>1, <3>2, <3>3
    <2>2. CASE q # o
      BY <1>1, <1>3, <2>2 DEF SendInv, SendsAccounted, TypeInv, TypeOK
    <2> QED  BY <2>1, <2>2
  <1> QED  BY <1>9, <1>10 DEF SendInv

(* A rolled-back request leaves the rows; its acceptance counts as lost.    *)
LEMMA SendRollback ==
    ASSUME SendInv, TypeInv, NEW s \in Sessions, NEW out, txn[s].handler = "execute",
           Rollback(s, out)
    PROVE  SendInv'
  <1> DEFINE o == txn[s].op
             k == IF out.sent THEN 1 ELSE 0
  <1>0. /\ o \in Ops /\ k \in Nat
        /\ op' = op /\ attempts' = attempts /\ txn' = [txn EXCEPT ![s] = Idle]
        /\ sent' = [sent EXCEPT ![o] = @ + k] /\ lost' = [lost EXCEPT ![o] = @ + k]
    BY DEF TypeInv, Holds, Rollback, Provider, End, rows
  <1>1. ASSUME NEW u \in Sessions
        PROVE  /\ txn'[u].handler = "execute" => txn'[u].attempts = 0
               /\ txn'[u].handler = "verify" => HasAttempt(txn'[u].op)
    BY <1>0 DEF TypeInv, TypeOK, SendInv, OpInv, Idle
  <1>2. OpInv'
    BY <1>0, <1>1 DEF SendInv, OpInv, HasAttempt
  <1>3. SendsAccounted'
    <2> HIDE DEF o, k
    <2> SUFFICES ASSUME NEW q \in Ops
                 PROVE  sent'[q] <= lost'[q] + (IF HasAttempt(q)' THEN 1 ELSE 0)
      BY DEF SendsAccounted
    <2>1. HasAttempt(q)' <=> HasAttempt(q)
      BY <1>0 DEF HasAttempt
    <2>2. sent[q] \in Nat /\ lost[q] \in Nat
          /\ sent[q] <= lost[q] + (IF HasAttempt(q) THEN 1 ELSE 0)
      BY DEF SendInv, SendsAccounted, TypeInv, TypeOK
    <2>3. \/ sent'[q] = sent[q] + k /\ lost'[q] = lost[q] + k
          \/ sent'[q] = sent[q] /\ lost'[q] = lost[q]
      BY <1>0 DEF TypeInv, TypeOK
    <2> QED  BY <1>0, <2>1, <2>2, <2>3
  <1> QED  BY <1>2, <1>3 DEF SendInv

(* The operator's verdict leaves attempts and counters alone.               *)
LEMMA SendVerify ==
    ASSUME SendInv, TypeInv, NEW s \in Sessions, Verify(s)
    PROVE  SendInv'
  <1> DEFINE o == txn[s].op
             st == IF txn[s].arg = "succeeded" THEN "SUCCEEDED" ELSE "FAILED"
  <1>0. /\ o \in Ops /\ op[o] \in OpRow /\ HasAttempt(o) /\ st \in Results
        /\ op' = [op EXCEPT ![o].status = st] /\ txn' = [txn EXCEPT ![s] = Idle]
        /\ attempts' = attempts /\ sent' = sent /\ lost' = lost
    BY DEF TypeInv, TypeOK, Holds, Verify, End, history, SendInv, OpInv, Results
  <1>1. op'[o].status = st /\ \A q \in Ops : q # o => op'[q] = op[q]
    BY <1>0 DEF TypeInv, TypeOK, OpRow
  <1>2. ASSUME NEW u \in Sessions
        PROVE  /\ txn'[u].handler = "execute" => txn'[u].attempts = 0
               /\ txn'[u].handler = "verify" => HasAttempt(txn'[u].op)
    BY <1>0 DEF TypeInv, TypeOK, SendInv, OpInv, Idle
  <1>3. "APPROVED" \notin Results /\ "ABSENT" \notin Results
    BY DEF Results
  <1> HIDE DEF o, st
  <1>4. ASSUME NEW q \in Ops
        PROVE  /\ op'[q].status \in {"ABSENT", "APPROVED"} \cup Results
               /\ op'[q].status \in Results => HasAttempt(q)
               /\ op'[q].status \in {"ABSENT", "APPROVED"} => op'[q].attempts = 0 /\ ~HasAttempt(q)
    BY <1>0, <1>1, <1>3 DEF SendInv, OpInv
  <1>5. OpInv'
    BY <1>0, <1>2, <1>4 DEF SendInv, OpInv, HasAttempt
  <1>6. SendsAccounted'
    BY <1>0 DEF SendInv, SendsAccounted, HasAttempt
  <1> QED  BY <1>5, <1>6 DEF SendInv

(* Every step keeps the sends accounted for.                                *)
LEMMA SendNext == SendInv /\ TypeInv /\ [Next]_vars => SendInv'
  <1> SUFFICES ASSUME SendInv, TypeInv, [Next]_vars PROVE SendInv'  OBVIOUS
  <1>1. ASSUME NEW s \in Sessions, Begin(s) PROVE SendInv'
    BY <1>1, SendBegin
  <1>2. ASSUME NEW s \in Sessions, Finish(s) PROVE SendInv'
    <2>1. CASE LeadReview(s)  BY <2>1, SendEnd DEF LeadReview, history
    <2>2. CASE Decide(s)      BY <2>2, SendEnd DEF Decide, history
    <2>3. CASE Expire(s)      BY <2>3, SendEnd DEF Expire, history
    <2>4. CASE Prepare(s)     BY <2>4, SendPrepare
    <2>5. CASE Verify(s)      BY <2>5, SendVerify
    <2>6. ASSUME NEW out \in AllOutcomes, ExecuteCommit(s, out) PROVE SendInv'
      BY <2>6, SendExecuteCommit
    <2>7. ASSUME NEW out, ExecuteRaise(s, out) \/ ExecuteCrash(s, out) PROVE SendInv'
      BY <2>7, SendRollback DEF ExecuteRaise, ExecuteCrash
    <2> QED  BY <1>2, <2>1, <2>2, <2>3, <2>4, <2>5, <2>6, <2>7 DEF Finish, AllOutcomes
  <1>3. ASSUME NEW s \in Sessions, Abandon(s) PROVE SendInv'
    BY <1>3, SendEnd DEF Abandon, rows, history
  <1>4. ASSUME UNCHANGED <<op, attempts, sent, lost, txn>> PROVE SendInv'
    BY <1>4 DEF SendInv, OpInv, SendsAccounted, HasAttempt
  <1>5. CASE UNCHANGED vars
    BY <1>4, <1>5 DEF vars
  <1>6. ASSUME NEW o \in Ops, Ages(o) PROVE SendInv'
    BY <1>4, <1>6 DEF Ages, rows
  <1> QED  BY <1>1, <1>2, <1>3, <1>5, <1>6 DEF Next

(* The accounting invariant holds throughout.                               *)
LEMMA SendInvariant == Spec => []SendInv
  BY SendInit, SendNext, TypeInvariant, PTL DEF Spec

(* Whatever the sessions do, the messages a provider accepted for an        *)
(* operation are its one committed attempt plus the units of work that were *)
(* rolled back after the provider call.                                     *)
THEOREM SendsAccountedAlways == Spec => []SendsAccounted
  <1>1. SendInv => SendsAccounted
    BY DEF SendInv
  <1> QED  BY <1>1, SendInvariant, PTL

(* Only an executor with a free attempt number reaches the provider.        *)
LEMMA WhoSends ==
    ASSUME TypeInv, [Next]_vars, NEW o \in Ops, sent'[o] # sent[o]
    PROVE  \E s \in Sessions :
             txn[s].handler = "execute" /\ txn[s].op = o /\ NewAttempt(s)
  <1>1. ASSUME NEW s \in Sessions, NEW out, txn[s].handler = "execute", NewAttempt(s),
               Provider(txn[s].op, out)
        PROVE  txn[s].op = o
    BY <1>1 DEF Provider, TypeInv, TypeOK
  <1>2. ASSUME NEW s \in Sessions, NEW out,
               ExecuteCommit(s, out) \/ ExecuteRaise(s, out) \/ ExecuteCrash(s, out)
        PROVE  txn[s].handler = "execute" /\ txn[s].op = o /\ NewAttempt(s)
    BY <1>1, <1>2 DEF ExecuteCommit, ExecuteRaise, ExecuteCrash, Rollback
  <1>3. ASSUME sent' = sent PROVE FALSE
    BY <1>3
  <1>4. ASSUME NEW s \in Sessions, Begin(s) PROVE FALSE
    BY <1>3, <1>4 DEF Begin, BeginLeadReview, BeginDecide, BeginExpire, BeginPrepare,
                      BeginExecute, BeginVerify, Load, history
  <1>5. ASSUME NEW s \in Sessions,
               LeadReview(s) \/ Decide(s) \/ Expire(s) \/ Prepare(s) \/ Verify(s) \/ Abandon(s)
        PROVE  FALSE
    BY <1>3, <1>5 DEF LeadReview, Decide, Expire, Prepare, Verify, Abandon, history
  <1>6. CASE UNCHANGED vars
    BY <1>3, <1>6 DEF vars
  <1>7. ASSUME NEW q \in Ops, Ages(q) PROVE FALSE
    BY <1>3, <1>7 DEF Ages
  <1> QED  BY <1>2, <1>4, <1>5, <1>6, <1>7 DEF Next, Finish

(* UNKNOWN is never retried: once execute_external_operation has committed  *)
(* a result, no session, however stale what it loaded, reaches the provider *)
(* for that operation again.                                                *)
THEOREM NoSendAfterResultAlways == Spec => NoSendAfterResult
  <1>1. ASSUME TypeInv, SendInv, [Next]_vars,
               NEW o \in Ops, op[o].status \in Results
        PROVE  sent'[o] = sent[o]
    <2>1. HasAttempt(o)
      BY <1>1 DEF SendInv, OpInv
    <2>2. ASSUME sent'[o] # sent[o] PROVE FALSE
      <3>1. PICK s \in Sessions :
              txn[s].handler = "execute" /\ txn[s].op = o /\ NewAttempt(s)
        BY <1>1, <2>2, WhoSends
      <3> QED  BY <1>1, <2>1, <3>1, NewAttemptIsFirst
    <2> QED  BY <2>2
  <1>2. TypeInv /\ SendInv /\ [Next]_vars =>
          [\A o \in Ops : op[o].status \in Results => sent'[o] = sent[o]]_vars
    BY <1>1
  <1> QED  BY <1>2, TypeInvariant, SendInvariant, PTL DEF Spec, NoSendAfterResult

------------------------------------------------------------------------------
(* The owner's approval.                                                    *)

(* APPROVED in the status column, an operation, and a request that is       *)
(* preparing one, each rest on a stored approve decision.                   *)
ApprovalInv ==
    /\ \A a \in Approvals : approval[a].status = "APPROVED" => <<a, "approve">> \in decisions
    /\ \A s \in Sessions : txn[s].handler = "prepare" =>
         \A a \in txn[s].approvals : <<a, "approve">> \in decisions
    /\ \A o \in Ops : op[o] # AbsentOp => <<op[o].approval, "approve">> \in decisions
    /\ \A o \in Ops : sent[o] > 0 => op[o] # AbsentOp

(* Before any request there is no approval to account for.                  *)
LEMMA ApprovalInit == Init => ApprovalInv
  <1> SUFFICES ASSUME Init PROVE ApprovalInv  OBVIOUS
  <1>1. \A a \in Approvals : approval[a].status = "ABSENT"
    BY DEF Init, AbsentApproval
  <1>2. \A s \in Sessions : txn[s].handler = "idle"
    BY DEF Init, Idle
  <1> QED  BY <1>1, <1>2 DEF Init, ApprovalInv

(* Steps that write no approval, no operation and no decision.              *)
LEMMA ApprovalFrame ==
    ASSUME ApprovalInv, TypeInv, UNCHANGED <<approval, decisions, op, sent>>,
           NEW s \in Sessions, NEW t, txn' = [txn EXCEPT ![s] = t],
           t.handler = "prepare" => \A a \in t.approvals : <<a, "approve">> \in decisions
    PROVE  ApprovalInv'
  <1>1. \A u \in Sessions : txn'[u] = IF u = s THEN t ELSE txn[u]
    BY DEF TypeInv, TypeOK
  <1> QED  BY <1>1 DEF ApprovalInv

(* Starting a request keeps approvals and decisions together.               *)
LEMMA ApprovalBegin ==
    ASSUME ApprovalInv, TypeInv, NEW s \in Sessions, Begin(s)
    PROVE  ApprovalInv'
  <1>1. ASSUME NEW t, Load(s, t), t.handler # "prepare" PROVE ApprovalInv'
    BY <1>1, ApprovalFrame DEF Load, rows, history
  <1>2. ASSUME NEW a \in Approvals, NEW o \in Ops, NEW mode \in Modes,
               BeginPrepare(s, a, o, mode)
        PROVE  ApprovalInv'
    <2> DEFINE t == [Idle EXCEPT !.handler = "prepare", !.arg = mode, !.approvals = {a},
                                 !.op = o, !.mission = approval[a].mission]
    <2>1. Load(s, t) /\ <<a, "approve">> \in decisions
      BY <1>2 DEF BeginPrepare, ApprovalInv
    <2>2. t.approvals = {a}
      BY DEF Idle
    <2> HIDE DEF t
    <2> QED  BY <2>1, <2>2, ApprovalFrame DEF Load, rows, history
  <1>3. ASSUME NEW m \in Missions, BeginLeadReview(s, m) PROVE ApprovalInv'
    BY <1>1, <1>3 DEF BeginLeadReview, Idle
  <1>4. ASSUME NEW a \in Approvals, NEW d \in {"approve", "reject", "changes"},
               BeginDecide(s, a, d)
        PROVE  ApprovalInv'
    BY <1>1, <1>4 DEF BeginDecide, Idle
  <1>5. ASSUME NEW batch \in SUBSET Approvals, BeginExpire(s, batch) PROVE ApprovalInv'
    BY <1>1, <1>5 DEF BeginExpire, Idle
  <1>6. ASSUME NEW o \in Ops, NEW mode, BeginExecute(s, o, mode) PROVE ApprovalInv'
    BY <1>1, <1>6 DEF BeginExecute, Idle
  <1>7. ASSUME NEW o \in Ops, NEW outcome, BeginVerify(s, o, outcome) PROVE ApprovalInv'
    BY <1>1, <1>7 DEF BeginVerify, Idle
  <1> QED  BY <1>2, <1>3, <1>4, <1>5, <1>6, <1>7 DEF Begin

(* The end of a request, for what it leaves of the approvals.               *)
LEMMA ApprovalEnd ==
    ASSUME ApprovalInv, TypeInv, NEW s \in Sessions, End(s), decisions \subseteq decisions',
           \A a \in Approvals : approval'[a].status = "APPROVED" =>
             approval[a].status = "APPROVED" \/ <<a, "approve">> \in decisions',
           \A o \in Ops : op'[o] # AbsentOp =>
             \/ op[o] # AbsentOp /\ op'[o].approval = op[o].approval
             \/ <<op'[o].approval, "approve">> \in decisions,
           \A o \in Ops : op[o] # AbsentOp => op'[o] # AbsentOp,
           \A o \in Ops : sent'[o] > 0 => sent[o] > 0 \/ op[o] # AbsentOp
    PROVE  ApprovalInv'
  <1>1. \A u \in Sessions : txn'[u] = IF u = s THEN Idle ELSE txn[u]
    BY DEF TypeInv, TypeOK, End
  <1>2. \A u \in Sessions : txn'[u].handler = "prepare" => txn'[u] = txn[u]
    BY <1>1 DEF Idle
  <1> QED  BY <1>2 DEF ApprovalInv

(* Every write phase keeps approvals and decisions together.                *)
LEMMA ApprovalFinish ==
    ASSUME ApprovalInv, TypeInv, NEW s \in Sessions, Finish(s)
    PROVE  ApprovalInv'
  <1>0. TypeOK /\ Holds(txn[s]) /\ txn[s] \in Txn
    BY DEF TypeInv, TypeOK
  <1>1. CASE LeadReview(s)
    <2>1. \A a \in Approvals : approval'[a].status = "APPROVED" => approval[a].status = "APPROVED"
      BY <1>0, <1>1 DEF LeadReview, TypeOK
    <2> QED  BY <1>1, <2>1, ApprovalEnd DEF LeadReview, history
  <1>2. CASE Decide(s)
    <2>1. decisions \subseteq decisions'
      BY <1>2 DEF Decide
    <2>2. ASSUME NEW a \in Approvals, approval'[a].status = "APPROVED"
          PROVE  approval[a].status = "APPROVED" \/ <<a, "approve">> \in decisions'
      <3>1. CASE a \notin txn[s].approvals
        BY <1>2, <2>2, <3>1 DEF Decide
      <3>2. CASE a \in txn[s].approvals
        <4>1. approval[a] \in ApprovalRow
          BY <1>0, <1>2, <3>2 DEF Holds, Decide, TypeOK
        <4>2. Target(txn[s].arg) = "APPROVED"
          BY <1>2, <2>2, <3>2, <4>1 DEF Decide, ApprovalRow
        <4>3. txn[s].arg = "approve"
          BY <4>2 DEF Target
        <4> QED  BY <1>2, <3>2, <4>3 DEF Decide
      <3> QED  BY <3>1, <3>2
    <2> QED  BY <1>2, <2>1, <2>2, ApprovalEnd DEF Decide, history
  <1>3. CASE Expire(s)
    <2>1. ASSUME NEW a \in Approvals, approval'[a].status = "APPROVED"
          PROVE  approval[a].status = "APPROVED"
      <3>1. CASE a \notin txn[s].approvals
        BY <1>3, <2>1, <3>1 DEF Expire
      <3>2. CASE a \in txn[s].approvals
        <4>1. approval[a] \in ApprovalRow
          BY <1>0, <1>3, <3>2 DEF Holds, Expire, TypeOK
        <4>2. approval'[a].status = "EXPIRED"
          BY <1>3, <3>2, <4>1 DEF Expire, ApprovalRow
        <4> QED  BY <2>1, <4>2
      <3> QED  BY <3>1, <3>2
    <2> QED  BY <1>3, <2>1, ApprovalEnd DEF Expire, history
  <1>4. CASE Prepare(s)
    <2>1. ASSUME NEW o \in Ops, op'[o] # AbsentOp
          PROVE  \/ op[o] # AbsentOp /\ op'[o].approval = op[o].approval
                 \/ <<op'[o].approval, "approve">> \in decisions
      <3>1. CASE o # txn[s].op
        BY <1>0, <1>4, <2>1, <3>1 DEF Prepare, TypeOK
      <3>2. CASE o = txn[s].op
        <4>1. op'[o].approval \in txn[s].approvals
          BY <1>0, <1>4, <3>2 DEF Prepare, TypeOK
        <4> QED  BY <1>4, <4>1 DEF Prepare, ApprovalInv
      <3> QED  BY <3>1, <3>2
    <2>2. \A o \in Ops : op[o] # AbsentOp => op'[o] # AbsentOp
      BY <1>0, <1>4 DEF Prepare, TypeOK
    <2> QED  BY <1>4, <2>1, <2>2, ApprovalEnd DEF Prepare, history
  <1>5. CASE Verify(s)
    <2>1. ASSUME NEW o \in Ops
          PROVE  /\ op'[o] # AbsentOp => op[o] # AbsentOp /\ op'[o].approval = op[o].approval
                 /\ op[o] # AbsentOp => op'[o] # AbsentOp
      <3>1. CASE o # txn[s].op
        BY <1>0, <1>5, <3>1 DEF Verify, TypeOK
      <3>2. CASE o = txn[s].op
        <4>1. op[o] \in OpRow /\ op[o] # AbsentOp
          BY <1>0, <1>5, <3>2 DEF Holds, Verify, TypeOK
        <4>2. op'[o].approval = op[o].approval /\ op'[o].status \in {"SUCCEEDED", "FAILED"}
          BY <1>0, <1>5, <3>2, <4>1 DEF Verify, TypeOK, OpRow
        <4>3. AbsentOp.status \notin {"SUCCEEDED", "FAILED"}
          BY DEF AbsentOp
        <4> QED  BY <4>1, <4>2, <4>3
      <3> QED  BY <3>1, <3>2
    <2> QED  BY <1>5, <2>1, ApprovalEnd DEF Verify, history
  <1>6. ASSUME NEW out \in AllOutcomes, ExecuteCommit(s, out) PROVE ApprovalInv'
    <2>0. txn[s].op \in Ops /\ op[txn[s].op] # AbsentOp /\ op[txn[s].op] \in OpRow
      BY <1>0, <1>6 DEF Holds, ExecuteCommit, TypeOK
    <2>1. ASSUME NEW o \in Ops
          PROVE  /\ op'[o] # AbsentOp => op[o] # AbsentOp /\ op'[o].approval = op[o].approval
                 /\ op[o] # AbsentOp => op'[o] # AbsentOp
      <3>1. CASE o # txn[s].op
        BY <1>0, <1>6, <3>1 DEF ExecuteCommit, TypeOK
      <3>2. CASE o = txn[s].op
        <4>1. op'[o].approval = op[o].approval /\ op'[o].status \in Results
          BY <1>0, <1>6, <2>0, <3>2, OutcomeType DEF ExecuteCommit, TypeOK, OpRow
        <4>2. AbsentOp.status \notin Results
          BY DEF AbsentOp, Results
        <4> QED  BY <2>0, <3>2, <4>1, <4>2
      <3> QED  BY <3>1, <3>2
    <2>2. \A o \in Ops : sent'[o] > 0 => sent[o] > 0 \/ op[o] # AbsentOp
      BY <1>0, <1>6, <2>0 DEF ExecuteCommit, Provider, TypeOK
    <2> QED  BY <1>6, <2>1, <2>2, ApprovalEnd DEF ExecuteCommit
  <1>7. ASSUME NEW out, ExecuteRaise(s, out) \/ ExecuteCrash(s, out) PROVE ApprovalInv'
    <2>0. txn[s].op \in Ops /\ op[txn[s].op] # AbsentOp /\ Rollback(s, out)
      BY <1>0, <1>7 DEF Holds, ExecuteRaise, ExecuteCrash
    <2>1. \A o \in Ops : sent'[o] > 0 => sent[o] > 0 \/ op[o] # AbsentOp
      BY <1>0, <2>0 DEF Rollback, Provider, TypeOK
    <2> QED  BY <2>0, <2>1, ApprovalEnd DEF Rollback, rows
  <1> QED  BY <1>1, <1>2, <1>3, <1>4, <1>5, <1>6, <1>7 DEF Finish, AllOutcomes

(* Every step keeps approvals and decisions together.                       *)
LEMMA ApprovalNext == ApprovalInv /\ TypeInv /\ [Next]_vars => ApprovalInv'
  <1> SUFFICES ASSUME ApprovalInv, TypeInv, [Next]_vars PROVE ApprovalInv'  OBVIOUS
  <1>1. ASSUME NEW s \in Sessions, Begin(s) PROVE ApprovalInv'
    BY <1>1, ApprovalBegin
  <1>2. ASSUME NEW s \in Sessions, Finish(s) PROVE ApprovalInv'
    BY <1>2, ApprovalFinish
  <1>3. ASSUME NEW s \in Sessions, Abandon(s) PROVE ApprovalInv'
    BY <1>3, ApprovalEnd DEF Abandon, rows, history
  <1>4. ASSUME UNCHANGED <<approval, decisions, op, sent, txn>> PROVE ApprovalInv'
    BY <1>4 DEF ApprovalInv
  <1>5. CASE UNCHANGED vars
    BY <1>4, <1>5 DEF vars
  <1>6. ASSUME NEW o \in Ops, Ages(o) PROVE ApprovalInv'
    BY <1>4, <1>6 DEF Ages, rows
  <1> QED  BY <1>1, <1>2, <1>3, <1>5, <1>6 DEF Next

(* No message ever leaves for an operation whose approval the owner has not *)
(* approved, in any interleaving of decisions, expiries and executions.     *)
THEOREM SendNeedsApprovalAlways == Spec => []SendNeedsApproval
  <1>1. ApprovalInv => SendNeedsApproval
    BY DEF ApprovalInv, SendNeedsApproval
  <1> QED  BY <1>1, ApprovalInit, ApprovalNext, TypeInvariant, PTL DEF Spec

------------------------------------------------------------------------------
(* The limits.                                                              *)

(* The sends on record are among the live operations that succeeded, of     *)
(* which there are finitely many; nobody verifies one of them, since an     *)
(* operation that is verified has an attempt that was not metered.          *)
MeterInv ==
    /\ IsFiniteSet(LiveSucceeded)
    /\ MeteredWithinLimits
    /\ \A s \in Sessions :
         /\ txn[s].handler = "execute" => txn[s].arg \in {"run", "simulate_unknown"}
         /\ txn[s].handler = "verify" => txn[s].op \notin metered

(* Nothing is on record before anything is sent.                            *)
LEMMA MeterInit == Init => MeterInv
  <1> SUFFICES ASSUME Init PROVE MeterInv  OBVIOUS
  <1>1. LiveSucceeded = {}
    BY DEF Init, LiveSucceeded, AbsentOp
  <1>2. IsFiniteSet(LiveSucceeded) /\ MeteredWithinLimits
    <2>1. metered = {} /\ metered \ aged = {}
      BY DEF Init
    <2>2. \A m \in Missions : {o \in metered : op[o].mission = m} = {}
      BY <2>1
    <2> QED  BY <1>1, <2>1, <2>2, FS_EmptySet, ConstantsAssumption DEF MeteredWithinLimits
  <1>3. \A s \in Sessions : txn[s].handler = "idle"
    BY DEF Init, Idle
  <1> QED  BY <1>2, <1>3 DEF MeterInv

(* Steps that leave the operations and the record alone.                    *)
LEMMA MeterFrame ==
    ASSUME MeterInv, TypeInv, NEW s \in Sessions, NEW t,
           UNCHANGED <<op, metered, aged>>,
           txn' = [txn EXCEPT ![s] = t],
           t.handler = "execute" => t.arg \in {"run", "simulate_unknown"},
           t.handler = "verify" => t.op \notin metered
    PROVE  MeterInv'
  <1>1. LiveSucceeded' = LiveSucceeded
    BY DEF LiveSucceeded
  <1>2. \A u \in Sessions : txn'[u] = IF u = s THEN t ELSE txn[u]
    BY DEF TypeInv, TypeOK
  <1>3. ASSUME NEW u \in Sessions
        PROVE  /\ txn'[u].handler = "execute" => txn'[u].arg \in {"run", "simulate_unknown"}
               /\ txn'[u].handler = "verify" => txn'[u].op \notin metered'
    BY <1>2 DEF MeterInv
  <1> QED  BY <1>1, <1>3 DEF MeterInv, MeteredWithinLimits

(* A write phase that leaves them alone, then the end of it.                *)
LEMMA MeterEnd ==
    ASSUME MeterInv, TypeInv, NEW s \in Sessions, End(s), UNCHANGED <<op, metered, aged>>
    PROVE  MeterInv'
  BY MeterFrame DEF End, Idle

(* Starting a request.                                                      *)
LEMMA MeterBegin ==
    ASSUME MeterInv, TypeInv, NEW s \in Sessions, Begin(s)
    PROVE  MeterInv'
  <1>1. ASSUME NEW t, Load(s, t), t.handler \notin {"execute", "verify"}
        PROVE  MeterInv'
    BY <1>1, MeterFrame DEF Load, rows, history
  <1>2. ASSUME NEW m \in Missions, BeginLeadReview(s, m) PROVE MeterInv'
    BY <1>1, <1>2 DEF BeginLeadReview, Idle
  <1>3. ASSUME NEW a \in Approvals, NEW d \in {"approve", "reject", "changes"},
               BeginDecide(s, a, d)
        PROVE  MeterInv'
    BY <1>1, <1>3 DEF BeginDecide, Idle
  <1>4. ASSUME NEW batch \in SUBSET Approvals, BeginExpire(s, batch) PROVE MeterInv'
    BY <1>1, <1>4 DEF BeginExpire, Idle
  <1>5. ASSUME NEW a \in Approvals, NEW o \in Ops, NEW mode \in Modes,
               BeginPrepare(s, a, o, mode)
        PROVE  MeterInv'
    BY <1>1, <1>5 DEF BeginPrepare, Idle
  <1>6. ASSUME NEW o \in Ops, NEW mode \in {"run", "simulate_unknown"}, BeginExecute(s, o, mode)
        PROVE  MeterInv'
    <2> DEFINE t == [Idle EXCEPT !.handler = "execute", !.arg = mode, !.op = o,
                                 !.mission = op[o].mission, !.row = mission[op[o].mission],
                                 !.attempts = op[o].attempts]
    <2>1. Load(s, t)
      BY <1>6 DEF BeginExecute
    <2>2. t.handler = "execute" /\ t.arg = mode
      BY DEF Idle
    <2> HIDE DEF t
    <2> QED  BY <2>1, <2>2, MeterFrame DEF Load, rows, history
  <1>7. ASSUME NEW o \in Ops, NEW outcome \in {"succeeded", "failed"}, BeginVerify(s, o, outcome)
        PROVE  MeterInv'
    <2> DEFINE t == [Idle EXCEPT !.handler = "verify", !.arg = outcome, !.op = o,
                                 !.mission = op[o].mission, !.row = mission[op[o].mission]]
    <2>1. Load(s, t) /\ op[o].status = "UNKNOWN"
      BY <1>7 DEF BeginVerify
    <2>2. t.handler = "verify" /\ t.op = o
      BY DEF Idle
    <2>3. o \notin metered
      BY <2>1 DEF MeterInv, MeteredWithinLimits, LiveSucceeded
    <2> HIDE DEF t
    <2> QED  BY <2>1, <2>2, <2>3, MeterFrame DEF Load, rows, history
  <1> QED  BY <1>2, <1>3, <1>4, <1>5, <1>6, <1>7 DEF Begin

(* Only a live send that was validated again under the lock is metered.     *)
LEMMA WhatIsMetered ==
    ASSUME MeterInv, NEW s \in Sessions, NEW out, ExecuteCommit(s, out), metered' # metered
    PROVE  /\ metered' = metered \cup {txn[s].op} /\ out.result = "SUCCEEDED"
           /\ ~op[txn[s].op].demo /\ WithinLimits(op[txn[s].op].mission)
  <1>1. out \in Outcomes(txn[s].op, txn[s].arg) /\ txn[s].arg \in {"run", "simulate_unknown"}
    BY DEF ExecuteCommit, MeterInv
  <1>2. /\ out.sent /\ out.result = "SUCCEEDED"
        /\ metered' = metered \cup {txn[s].op}
    BY DEF ExecuteCommit, Metered
  <1>3. txn[s].arg # "simulate_unknown"
    BY <1>1, <1>2 DEF Outcomes, Simulated
  <1>4. ~op[txn[s].op].demo
    BY <1>1, <1>2, <1>3 DEF Outcomes, DemoRun
  <1>5. WithinLimits(op[txn[s].op].mission)
    BY <1>1, <1>2, <1>3, <1>4 DEF Outcomes, Denied
  <1> QED  BY <1>2, <1>4, <1>5

(* One more than a part of a set that is below its limit is within it.      *)
LEMMA OneMore ==
    ASSUME NEW S, NEW C, NEW B, NEW A, NEW e, NEW lim \in Nat,
           IsFiniteSet(S), C \subseteq S, B \subseteq C, A \subseteq B \cup {e},
           Cardinality(C) < lim
    PROVE  Cardinality(A) <= lim
  <1>1. /\ IsFiniteSet(C) /\ IsFiniteSet(B)
        /\ Cardinality(B) \in Nat /\ Cardinality(C) \in Nat
        /\ Cardinality(B) <= Cardinality(C)
    BY FS_Subset, FS_CardinalityType
  <1>2. /\ IsFiniteSet(B \cup {e}) /\ Cardinality(B \cup {e}) \in Nat
        /\ Cardinality(B \cup {e}) <= Cardinality(B) + 1
    <2>1. IsFiniteSet(B \cup {e})
      BY <1>1, FS_AddElement
    <2>2. Cardinality(B \cup {e}) =
            IF e \in B THEN Cardinality(B) ELSE Cardinality(B) + 1
      BY <1>1, FS_AddElement
    <2> QED  BY <1>1, <2>1, <2>2
  <1>3. Cardinality(A) \in Nat /\ Cardinality(A) <= Cardinality(B \cup {e})
    BY <1>2, FS_Subset, FS_CardinalityType
  <1> QED  BY <1>1, <1>2, <1>3

(* A committed execution is the operation's first attempt; if it is metered *)
(* it was within the limits that it was validated against.                  *)
LEMMA MeterExecute ==
    ASSUME MeterInv, SendInv, TypeInv, NEW s \in Sessions, NEW out \in AllOutcomes,
           ExecuteCommit(s, out)
    PROVE  MeterInv'
  <1>1. PICK o \in Ops : o = txn[s].op
    BY DEF TypeInv, Holds, ExecuteCommit
  <1>2. ~HasAttempt(o)
    BY <1>1, NewAttemptIsFirst DEF ExecuteCommit
  <1>3. o \notin LiveSucceeded /\ o \notin metered
    BY <1>2 DEF LiveSucceeded, SendInv, OpInv, Results, MeterInv, MeteredWithinLimits
  <1>4. /\ op[o] \in OpRow
        /\ op' = [op EXCEPT ![o].attempts = txn[s].attempts + 1, ![o].status = out.result]
        /\ txn' = [txn EXCEPT ![s] = Idle]
    BY <1>1 DEF TypeInv, TypeOK, Holds, ExecuteCommit, End
  <1>5. /\ op'[o].status = out.result /\ op'[o].demo = op[o].demo
        /\ op'[o].mission = op[o].mission
        /\ \A q \in Ops : q # o => op'[q] = op[q]
    BY <1>4 DEF TypeInv, TypeOK, OpRow
  <1>a. aged' = aged
    BY DEF ExecuteCommit
  <1>6. LiveSucceeded \subseteq LiveSucceeded' /\ LiveSucceeded' \subseteq LiveSucceeded \cup {o}
    BY <1>3, <1>5 DEF LiveSucceeded
  <1>7. IsFiniteSet(LiveSucceeded')
    <2>1. IsFiniteSet(LiveSucceeded \cup {o})
      BY FS_AddElement DEF MeterInv
    <2> QED  BY <1>6, <2>1, FS_Subset
  <1>8. MeteredWithinLimits'
    <2>1. CASE metered' = metered
      <3>1. \A m \in Missions :
              {q \in metered' : op'[q].mission = m} = {q \in metered : op[q].mission = m}
        BY <1>3, <1>5, <2>1 DEF TypeInv, TypeOK
      <3> QED  BY <1>6, <1>a, <2>1, <3>1 DEF MeterInv, MeteredWithinLimits
    <2>2. CASE metered' # metered
      <3>1. /\ metered' = metered \cup {o} /\ out.result = "SUCCEEDED"
            /\ ~op[o].demo /\ WithinLimits(op[o].mission)
        BY <1>1, <2>2, WhatIsMetered
      <3>2. o \in LiveSucceeded'
        BY <1>5, <3>1 DEF LiveSucceeded
      <3>3. metered' \subseteq LiveSucceeded'
        BY <1>6, <3>1, <3>2 DEF MeterInv, MeteredWithinLimits
      <3>4. Cardinality(metered' \ aged') <= DailyLimit
        <4>1. /\ metered \ aged \subseteq LiveSucceeded \ aged
              /\ LiveSucceeded \ aged \subseteq LiveSucceeded
              /\ metered' \ aged' \subseteq (metered \ aged) \cup {o}
          BY <1>a, <3>1 DEF MeterInv, MeteredWithinLimits
        <4>2. IsFiniteSet(LiveSucceeded) /\ Cardinality(LiveSucceeded \ aged) < DailyLimit
          BY <3>1 DEF MeterInv, WithinLimits
        <4> DEFINE New == metered' \ aged'
                   Old == metered \ aged
                   All == LiveSucceeded \ aged
        <4>3. New \subseteq Old \cup {o} /\ Old \subseteq All /\ All \subseteq LiveSucceeded
          BY <4>1
        <4>4. Cardinality(All) < DailyLimit /\ DailyLimit \in Nat
          BY <4>2, ConstantsAssumption
        <4> HIDE DEF New, Old, All
        <4>5. Cardinality(New) <= DailyLimit
          BY <4>2, <4>3, <4>4, OneMore
        <4> QED  BY <4>5 DEF New
      <3>5. Cardinality(metered') <= SendQuota
        <4>1. IsFiniteSet(metered)
          BY FS_Subset DEF MeterInv, MeteredWithinLimits
        <4>2. Cardinality(metered') = Cardinality(metered) + 1 /\ Cardinality(metered) \in Nat
          BY <1>3, <3>1, <4>1, FS_AddElement, FS_CardinalityType
        <4> QED  BY <3>1, <4>2, ConstantsAssumption DEF WithinLimits, QuotaAllows
      <3>6. ASSUME NEW m \in Missions
            PROVE  Cardinality({q \in metered' : op'[q].mission = m}) <= MissionLimit
        <4>1. {q \in metered' : op'[q].mission = m} =
                {q \in metered : op[q].mission = m} \cup
                  (IF op[o].mission = m THEN {o} ELSE {})
          BY <1>3, <1>5, <3>1 DEF TypeInv, TypeOK
        <4>2. CASE op[o].mission # m
          BY <4>1, <4>2 DEF MeterInv, MeteredWithinLimits
        <4>3. CASE op[o].mission = m
          <5>1. /\ {q \in metered : op[q].mission = m}
                     \subseteq {q \in LiveSucceeded : op[q].mission = m}
                /\ {q \in LiveSucceeded : op[q].mission = m} \subseteq LiveSucceeded
                /\ {q \in metered' : op'[q].mission = m}
                     \subseteq {q \in metered : op[q].mission = m} \cup {o}
            BY <4>1, <4>3 DEF MeterInv, MeteredWithinLimits
          <5>2. Cardinality({q \in LiveSucceeded : op[q].mission = m}) < MissionLimit
            BY <3>1, <4>3 DEF WithinLimits
          <5> QED  BY <5>1, <5>2, OneMore, ConstantsAssumption DEF MeterInv
        <4> QED  BY <4>2, <4>3
      <3> QED  BY <3>3, <3>4, <3>5, <3>6 DEF MeteredWithinLimits
    <2> QED  BY <2>1, <2>2
  <1>9. ASSUME NEW u \in Sessions
        PROVE  /\ txn'[u].handler = "execute" => txn'[u].arg \in {"run", "simulate_unknown"}
               /\ txn'[u].handler = "verify" => txn'[u].op \notin metered'
    <2>1. txn'[u] = IF u = s THEN Idle ELSE txn[u]
      BY <1>4 DEF TypeInv, TypeOK
    <2>2. CASE u = s
      BY <2>1, <2>2 DEF Idle
    <2>3. CASE u # s
      <3>1. metered' \subseteq metered \cup {o}
        BY <1>1 DEF ExecuteCommit, Metered
      <3>2. txn[u].handler = "verify" => txn[u].op # o
        BY <1>2 DEF SendInv, OpInv
      <3> QED  BY <2>1, <2>3, <3>1, <3>2 DEF MeterInv
    <2> QED  BY <2>2, <2>3
  <1> QED  BY <1>7, <1>8, <1>9 DEF MeterInv

(* prepare_external_operation and verify_unknown_external_operation write   *)
(* an operation that is not on record.                                      *)
LEMMA MeterWrite ==
    ASSUME MeterInv, TypeInv, NEW s \in Sessions, End(s), UNCHANGED <<metered, aged>>,
           NEW o \in Ops, o \notin metered, \A q \in Ops : q # o => op'[q] = op[q]
    PROVE  MeterInv'
  <1>1. /\ LiveSucceeded' \subseteq LiveSucceeded \cup {o}
        /\ \A q \in LiveSucceeded : q # o => q \in LiveSucceeded'
    BY DEF LiveSucceeded
  <1>2. IsFiniteSet(LiveSucceeded')
    <2>1. IsFiniteSet(LiveSucceeded \cup {o})
      BY FS_AddElement DEF MeterInv
    <2> QED  BY <1>1, <2>1, FS_Subset
  <1>3. MeteredWithinLimits'
    <2>1. \A m \in Missions :
            {q \in metered' : op'[q].mission = m} = {q \in metered : op[q].mission = m}
      BY DEF TypeInv, TypeOK
    <2> QED  BY <1>1, <2>1 DEF MeterInv, MeteredWithinLimits
  <1>4. ASSUME NEW u \in Sessions
        PROVE  /\ txn'[u].handler = "execute" => txn'[u].arg \in {"run", "simulate_unknown"}
               /\ txn'[u].handler = "verify" => txn'[u].op \notin metered'
    <2>1. txn'[u] = IF u = s THEN Idle ELSE txn[u]
      BY DEF End, TypeInv, TypeOK
    <2> QED  BY <2>1 DEF MeterInv, Idle
  <1> QED  BY <1>2, <1>3, <1>4 DEF MeterInv

(* Every step keeps the record within the limits.                           *)
LEMMA MeterNext == MeterInv /\ SendInv /\ TypeInv /\ [Next]_vars => MeterInv'
  <1> SUFFICES ASSUME MeterInv, SendInv, TypeInv, [Next]_vars PROVE MeterInv'  OBVIOUS
  <1>1. ASSUME NEW s \in Sessions, Begin(s) PROVE MeterInv'
    BY <1>1, MeterBegin
  <1>2. ASSUME NEW s \in Sessions, Finish(s) PROVE MeterInv'
    <2>1. CASE LeadReview(s)  BY <2>1, MeterEnd DEF LeadReview, history
    <2>2. CASE Decide(s)      BY <2>2, MeterEnd DEF Decide, history
    <2>3. CASE Expire(s)      BY <2>3, MeterEnd DEF Expire, history
    <2>4. CASE Prepare(s)
      <3>1. PICK o \in Ops : o = txn[s].op /\ op[o] = AbsentOp
        BY <2>4 DEF TypeInv, Holds, Prepare
      <3>2. o \notin metered
        BY <3>1 DEF MeterInv, MeteredWithinLimits, LiveSucceeded, AbsentOp
      <3>3. \A q \in Ops : q # o => op'[q] = op[q]
        BY <2>4, <3>1 DEF Prepare, TypeInv, TypeOK
      <3> QED  BY <2>4, <3>2, <3>3, MeterWrite DEF Prepare, history
    <2>5. CASE Verify(s)
      <3>1. PICK o \in Ops : o = txn[s].op
        BY <2>5 DEF TypeInv, Holds, Verify
      <3>2. o \notin metered
        BY <2>5, <3>1 DEF MeterInv, Verify
      <3>3. \A q \in Ops : q # o => op'[q] = op[q]
        BY <2>5, <3>1 DEF Verify, TypeInv, TypeOK
      <3> QED  BY <2>5, <3>2, <3>3, MeterWrite DEF Verify, history
    <2>6. ASSUME NEW out \in AllOutcomes, ExecuteCommit(s, out) PROVE MeterInv'
      BY <2>6, MeterExecute
    <2>7. ASSUME NEW out, ExecuteRaise(s, out) \/ ExecuteCrash(s, out) PROVE MeterInv'
      BY <2>7, MeterEnd DEF ExecuteRaise, ExecuteCrash, Rollback, rows
    <2> QED  BY <1>2, <2>1, <2>2, <2>3, <2>4, <2>5, <2>6, <2>7 DEF Finish, AllOutcomes
  <1>3. ASSUME NEW s \in Sessions, Abandon(s) PROVE MeterInv'
    BY <1>3, MeterEnd DEF Abandon, rows, history
  <1>4. CASE UNCHANGED vars
    BY <1>4 DEF MeterInv, MeteredWithinLimits, LiveSucceeded, vars
  <1>5. ASSUME NEW o \in Ops, Ages(o) PROVE MeterInv'
    <2>1. UNCHANGED <<op, metered, txn>> /\ aged' = aged \cup {o}
      BY <1>5 DEF Ages, rows
    <2>2. Cardinality(metered \ aged') <= DailyLimit
      <3>1. IsFiniteSet(metered)
        BY FS_Subset DEF MeterInv, MeteredWithinLimits
      <3>2. IsFiniteSet(metered \ aged) /\ metered \ aged' \subseteq metered \ aged
        BY <2>1, <3>1, FS_Subset
      <3>3. /\ Cardinality(metered \ aged') <= Cardinality(metered \ aged)
            /\ Cardinality(metered \ aged') \in Nat /\ Cardinality(metered \ aged) \in Nat
        BY <3>2, FS_Subset, FS_CardinalityType
      <3> QED  BY <3>3, ConstantsAssumption DEF MeterInv, MeteredWithinLimits
    <2> QED  BY <2>1, <2>2 DEF MeterInv, MeteredWithinLimits, LiveSucceeded
  <1> QED  BY <1>1, <1>2, <1>3, <1>4, <1>5 DEF Next

(* The metered sends stay within the quota, the limit of their mission and, *)
(* those prepared during the last day, the daily limit, however many        *)
(* prepared operations are executed at the same time.                       *)
THEOREM MeteredWithinLimitsAlways == Spec => []MeteredWithinLimits
  <1>1. MeterInv => MeteredWithinLimits
    BY DEF MeterInv
  <1> QED  BY <1>1, MeterInit, MeterNext, SendInvariant, TypeInvariant, PTL DEF Spec

------------------------------------------------------------------------------
(* ExternalActions implements Delivery.                                     *)

(* What was lost had been sent.                                             *)
StrayInv == \A o \in Ops : lost[o] <= sent[o]

(* Nothing is lost before anything is sent.                                 *)
LEMMA StrayInit == Init => StrayInv
  BY DEF Init, StrayInv

(* The provider's count and the count of the lost move together, or the     *)
(* provider's alone.                                                        *)
LEMMA StrayNext == StrayInv /\ TypeInv /\ [Next]_vars => StrayInv'
  <1> SUFFICES ASSUME StrayInv, TypeInv, [Next]_vars, NEW o \in Ops
               PROVE  lost'[o] <= sent'[o]
    BY DEF StrayInv
  <1>0. sent \in [Ops -> Nat] /\ lost \in [Ops -> Nat] /\ lost[o] <= sent[o]
    BY DEF TypeInv, TypeOK, StrayInv
  <1>1. ASSUME UNCHANGED <<sent, lost>> PROVE lost'[o] <= sent'[o]
    BY <1>0, <1>1
  <1>2. ASSUME NEW q, NEW k \in {0, 1}, sent' = [sent EXCEPT ![q] = @ + k],
               lost' = lost \/ lost' = [lost EXCEPT ![q] = @ + k]
        PROVE  lost'[o] <= sent'[o]
    BY <1>0, <1>2
  <1>3. ASSUME NEW s \in Sessions, Begin(s) PROVE lost'[o] <= sent'[o]
    BY <1>1, <1>3, Zenon
    DEF Begin, BeginLeadReview, BeginDecide, BeginExpire, BeginPrepare, BeginExecute,
        BeginVerify, Load, history
  <1>4. ASSUME NEW s \in Sessions,
               LeadReview(s) \/ Decide(s) \/ Expire(s) \/ Prepare(s) \/ Verify(s) \/ Abandon(s)
        PROVE  lost'[o] <= sent'[o]
    BY <1>1, <1>4 DEF LeadReview, Decide, Expire, Prepare, Verify, Abandon, history
  <1>5. ASSUME NEW s \in Sessions, NEW out,
               ExecuteCommit(s, out) \/ ExecuteRaise(s, out) \/ ExecuteCrash(s, out)
        PROVE  lost'[o] <= sent'[o]
    <2> DEFINE k == IF out.sent THEN 1 ELSE 0
    <2>1. /\ sent' = [sent EXCEPT ![txn[s].op] = @ + k]
          /\ lost' = lost \/ lost' = [lost EXCEPT ![txn[s].op] = @ + k]
      BY <1>5 DEF ExecuteCommit, ExecuteRaise, ExecuteCrash, Rollback, Provider
    <2>2. k \in {0, 1}
      OBVIOUS
    <2> QED  BY <1>2, <2>1, <2>2
  <1>6. CASE UNCHANGED vars
    BY <1>1, <1>6 DEF vars, history
  <1>7. ASSUME NEW q \in Ops, Ages(q) PROVE lost'[o] <= sent'[o]
    BY <1>1, <1>7 DEF Ages
  <1> QED  BY <1>3, <1>4, <1>5, <1>6, <1>7 DEF Next, Finish

(* What was lost had been sent, always.                                     *)
LEMMA StrayInvariant == Spec => []StrayInv
  BY StrayInit, StrayNext, TypeInvariant, PTL DEF Spec

(* A metered operation has its attempt, so no provider is called for it     *)
(* again; before its attempt all it had sent was lost.                      *)
LEMMA ChargedNext ==
    ASSUME ChargedOnlyForSent, MeterInv, SendInv, StrayInv, TypeInv, [Next]_vars
    PROVE  ChargedOnlyForSent'
  <1>0. /\ sent \in [Ops -> Nat] /\ lost \in [Ops -> Nat] /\ metered \subseteq Ops
        /\ \A q \in metered : HasAttempt(q)
    BY DEF TypeInv, TypeOK, MeterInv, MeteredWithinLimits, LiveSucceeded, SendInv, OpInv, Results
  <1>1. ASSUME UNCHANGED <<metered, sent, lost>> PROVE ChargedOnlyForSent'
    BY <1>1 DEF ChargedOnlyForSent
  <1>2. ASSUME NEW s \in Sessions, Begin(s) PROVE ChargedOnlyForSent'
    BY <1>1, <1>2, Zenon
    DEF Begin, BeginLeadReview, BeginDecide, BeginExpire, BeginPrepare, BeginExecute,
        BeginVerify, Load, rows, history
  <1>3. ASSUME NEW s \in Sessions,
               LeadReview(s) \/ Decide(s) \/ Expire(s) \/ Prepare(s) \/ Verify(s) \/ Abandon(s)
        PROVE  ChargedOnlyForSent'
    BY <1>1, <1>3 DEF LeadReview, Decide, Expire, Prepare, Verify, Abandon, rows, history
  <1>4. ASSUME NEW s \in Sessions, NEW out,
               ExecuteCommit(s, out) \/ ExecuteRaise(s, out) \/ ExecuteCrash(s, out)
        PROVE  ChargedOnlyForSent'
    <2>1. PICK o \in Ops : o = txn[s].op
      BY <1>4 DEF TypeInv, Holds, ExecuteCommit, ExecuteRaise, ExecuteCrash
    <2>2. ~HasAttempt(o) /\ o \notin metered
      BY <1>0, <1>4, <2>1, NewAttemptIsFirst DEF ExecuteCommit, ExecuteRaise, ExecuteCrash
    <2>3. \A q \in metered : sent'[q] = sent[q] /\ lost'[q] = lost[q]
      BY <1>0, <1>4, <2>1, <2>2
      DEF ExecuteCommit, ExecuteRaise, ExecuteCrash, Rollback, Provider
    <2>4. ASSUME metered' # metered
          PROVE  metered' = metered \cup {o} /\ sent'[o] = lost'[o] + 1
      <3>1. /\ ExecuteCommit(s, out) /\ out.sent /\ metered' = metered \cup {o}
            /\ sent' = [sent EXCEPT ![o] = @ + IF out.sent THEN 1 ELSE 0] /\ lost' = lost
        BY <1>4, <2>1, <2>4
        DEF ExecuteCommit, ExecuteRaise, ExecuteCrash, Rollback, rows, Metered, Provider
      <3>2. sent[o] = lost[o]
        BY <1>0, <2>2 DEF SendInv, SendsAccounted, StrayInv
      <3> QED  BY <1>0, <3>1, <3>2
    <2> QED  BY <2>3, <2>4 DEF ChargedOnlyForSent
  <1>5. CASE UNCHANGED vars
    BY <1>1, <1>5 DEF vars
  <1>6. ASSUME NEW o \in Ops, Ages(o) PROVE ChargedOnlyForSent'
    BY <1>1, <1>6 DEF Ages, rows
  <1> QED  BY <1>2, <1>3, <1>4, <1>5, <1>6 DEF Next, Finish

(* Only a message that a provider accepted and that is on record is         *)
(* charged, whatever overlaps, crashes or is rolled back.                   *)
THEOREM OnlySentIsCharged == Spec => []ChargedOnlyForSent
  <1>1. Init => ChargedOnlyForSent
    BY DEF Init, ChargedOnlyForSent
  <1>2. ChargedOnlyForSent /\ MeterInv /\ SendInv /\ StrayInv /\ TypeInv /\ [Next]_vars
          => ChargedOnlyForSent'
    BY ChargedNext
  <1> QED  BY <1>1, <1>2, MeterInit, MeterNext, SendInvariant, StrayInvariant, TypeInvariant, PTL
          DEF Spec

(* The first state of the rows is the first state of the promise.           *)
LEMMA DeliveryInit == Init => Promise!Init
  <1> SUFFICES ASSUME Init PROVE Promise!Init  OBVIOUS
  <1>1. \A o \in Ops : Phase(o) = "absent" /\ sent[o] - lost[o] = 0
    BY DEF Init, AbsentOp, Phase
  <1> QED  BY <1>1 DEF Init, Promise!Init

(* A step that leaves operations and messages alone is invisible.           *)
LEMMA DeliveryStutter ==
    ASSUME UNCHANGED <<op, sent, lost>>
    PROVE  UNCHANGED Promise!vars
  <1>1. \A o \in Ops : Phase(o)' = Phase(o) /\ (sent[o] - lost[o])' = sent[o] - lost[o]
    BY DEF Phase
  <1> QED  BY <1>1 DEF Promise!vars

(* The functions of the promise change at one operation only.               *)
LEMMA DeliveryAt ==
    ASSUME NEW o \in Ops, NEW p, NEW n,
           Phase(o)' = p, \A q \in Ops : q # o => Phase(q)' = Phase(q),
           (sent[o] - lost[o])' = n,
           \A q \in Ops : q # o => (sent[q] - lost[q])' = sent[q] - lost[q]
    PROVE  /\ [q \in Ops |-> Phase(q)]' = [[q \in Ops |-> Phase(q)] EXCEPT ![o] = p]
           /\ [q \in Ops |-> sent[q] - lost[q]]'
                = [[q \in Ops |-> sent[q] - lost[q]] EXCEPT ![o] = n]
  OBVIOUS

(* An insert of the operation freezes it.                                   *)
LEMMA DeliveryPrepare ==
    ASSUME TypeInv, SendInv, NEW s \in Sessions, Prepare(s)
    PROVE  Promise!Next
  <1>a. PICK o \in Ops : o = txn[s].op
    BY DEF TypeInv, Holds, Prepare
  <1>1. /\ op[o] = AbsentOp /\ sent' = sent /\ lost' = lost
        /\ op'[o].status = "APPROVED" /\ \A q \in Ops : q # o => op'[q] = op[q]
    BY <1>a DEF Prepare, TypeInv, TypeOK, history
  <1>2. Phase(o) = "absent" /\ Phase(o)' = "frozen"
    BY <1>1 DEF Phase, AbsentOp
  <1>3. /\ \A q \in Ops : q # o => Phase(q)' = Phase(q)
        /\ \A q \in Ops : (sent[q] - lost[q])' = sent[q] - lost[q]
    BY <1>1 DEF Phase
  <1>4. Promise!Freeze(o)
    BY <1>1, <1>2, <1>3 DEF Promise!Freeze
  <1> QED  BY <1>4 DEF Promise!Next

(* The commit of an execution is the promise's one execution.               *)
LEMMA DeliveryExecute ==
    ASSUME TypeInv, SendInv, StrayInv, NEW s \in Sessions, NEW out \in AllOutcomes,
           ExecuteCommit(s, out)
    PROVE  Promise!Next
  <1>a. PICK o \in Ops : o = txn[s].op
    BY DEF TypeInv, Holds, ExecuteCommit
  <1> DEFINE n == IF out.sent THEN 1 ELSE 0
             result == IF out.result = "UNKNOWN" THEN "unknown" ELSE "resolved"
  <1>0. ~HasAttempt(o) /\ op[o] \in OpRow /\ out.result \in Results
    BY <1>a, NewAttemptIsFirst, OutcomeType DEF ExecuteCommit, TypeInv, TypeOK, Holds
  <1>1. op[o].status = "APPROVED"
    BY <1>0 DEF SendInv, OpInv, OpRow, ExternalOperationStatus
  <1>2. /\ op'[o].status = out.result /\ \A q \in Ops : q # o => op'[q] = op[q]
        /\ sent' = [sent EXCEPT ![o] = @ + n] /\ lost' = lost
    BY <1>a, <1>0 DEF ExecuteCommit, Provider, TypeInv, TypeOK, OpRow
  <1>3. sent[o] = lost[o] /\ sent[o] \in Nat
    BY <1>0 DEF SendInv, SendsAccounted, StrayInv, TypeInv, TypeOK
  <1>4. sent[o] - lost[o] = 0 /\ (sent[o] - lost[o])' = n
    BY <1>2, <1>3 DEF TypeInv, TypeOK
  <1>5. \A q \in Ops : q # o => (sent[q] - lost[q])' = sent[q] - lost[q]
    BY <1>2 DEF TypeInv, TypeOK
  <1>6. Phase(o) = "frozen" /\ Phase(o)' = result
    BY <1>0, <1>1, <1>2 DEF Phase, Results
  <1>7. \A q \in Ops : q # o => Phase(q)' = Phase(q)
    BY <1>2 DEF Phase
  <1>8. n \in 0..1 /\ result \in {"unknown", "resolved"}
    OBVIOUS
  <1> HIDE DEF n, result
  <1>9. Promise!Execute(o, result, n)
    BY <1>2, <1>4, <1>5, <1>6, <1>7, DeliveryAt DEF Promise!Execute
  <1> QED  BY <1>8, <1>9 DEF Promise!Next

(* A message whose unit of work is rolled back is a stray one of a frozen   *)
(* operation.                                                               *)
LEMMA DeliveryRollback ==
    ASSUME TypeInv, SendInv, NEW s \in Sessions, NEW out, txn[s].handler = "execute",
           NewAttempt(s), Rollback(s, out)
    PROVE  Promise!Next \/ UNCHANGED Promise!vars
  <1>a. PICK o \in Ops : o = txn[s].op
    BY DEF TypeInv, Holds
  <1>0. ~HasAttempt(o) /\ op[o] \in OpRow /\ op' = op
    BY <1>a, NewAttemptIsFirst DEF Rollback, rows, TypeInv, TypeOK, Holds
  <1>1. op[o].status = "APPROVED"
    BY <1>0 DEF SendInv, OpInv, OpRow, ExternalOperationStatus
  <1>2. CASE out.sent
    <2>1. sent' = [sent EXCEPT ![o] = @ + 1] /\ lost' = [lost EXCEPT ![o] = @ + 1]
      BY <1>a, <1>2 DEF Rollback, Provider
    <2>2. \A q \in Ops : Phase(q)' = Phase(q) /\ (sent[q] - lost[q])' = sent[q] - lost[q]
      BY <1>0, <2>1 DEF Phase, TypeInv, TypeOK
    <2>3. Promise!Stray(o)
      BY <1>1, <2>1, <2>2 DEF Phase, Promise!Stray
    <2> QED  BY <2>3 DEF Promise!Next
  <1>3. CASE ~out.sent
    <2>1. sent' = sent /\ lost' = lost
      BY <1>a, <1>3 DEF Rollback, Provider, TypeInv, TypeOK
    <2> QED  BY <1>0, <2>1, DeliveryStutter
  <1> QED  BY <1>2, <1>3

(* A verdict on an UNKNOWN operation resolves it; a second one, which had   *)
(* loaded the operation before the first, changes nothing that was          *)
(* promised.                                                                *)
LEMMA DeliveryVerify ==
    ASSUME TypeInv, SendInv, NEW s \in Sessions, Verify(s)
    PROVE  Promise!Next \/ UNCHANGED Promise!vars
  <1>a. PICK o \in Ops : o = txn[s].op
    BY DEF TypeInv, Holds, Verify
  <1>0. HasAttempt(o) /\ op[o] \in OpRow /\ sent' = sent /\ lost' = lost
    BY <1>a DEF Verify, TypeInv, TypeOK, Holds, SendInv, OpInv, history
  <1>1. op[o].status \in Results
    BY <1>0 DEF SendInv, OpInv
  <1>2. op'[o].status \in {"SUCCEEDED", "FAILED"} /\ \A q \in Ops : q # o => op'[q] = op[q]
    BY <1>a, <1>0 DEF Verify, TypeInv, TypeOK, OpRow
  <1>3. Phase(o)' = "resolved" /\ Phase(o) \in {"unknown", "resolved"}
    BY <1>1, <1>2 DEF Phase, Results
  <1>4. /\ \A q \in Ops : q # o => Phase(q)' = Phase(q)
        /\ \A q \in Ops : (sent[q] - lost[q])' = sent[q] - lost[q]
    BY <1>0, <1>2 DEF Phase
  <1>5. CASE Phase(o) = "unknown"
    <2>1. Promise!Resolve(o)
      BY <1>0, <1>3, <1>4, <1>5 DEF Promise!Resolve
    <2> QED  BY <2>1 DEF Promise!Next
  <1>6. CASE Phase(o) = "resolved"
    <2>1. \A q \in Ops : Phase(q)' = Phase(q)
      BY <1>3, <1>4, <1>6
    <2> QED  BY <1>0, <1>4, <2>1 DEF Promise!vars
  <1> QED  BY <1>3, <1>5, <1>6

(* Every step is one of the promise, or invisible.                          *)
LEMMA DeliveryNext ==
    TypeInv /\ SendInv /\ StrayInv /\ [Next]_vars => [Promise!Next]_(Promise!vars)
  <1> SUFFICES ASSUME TypeInv, SendInv, StrayInv, [Next]_vars
               PROVE  Promise!Next \/ UNCHANGED Promise!vars
    OBVIOUS
  <1>1. ASSUME NEW s \in Sessions, Begin(s) PROVE UNCHANGED Promise!vars
    BY <1>1, DeliveryStutter, Zenon
    DEF Begin, BeginLeadReview, BeginDecide, BeginExpire, BeginPrepare, BeginExecute,
        BeginVerify, Load, rows, history
  <1>2. ASSUME NEW s \in Sessions,
               LeadReview(s) \/ Decide(s) \/ Expire(s) \/ Abandon(s)
        PROVE  UNCHANGED Promise!vars
    BY <1>2, DeliveryStutter DEF LeadReview, Decide, Expire, Abandon, rows, history
  <1>3. ASSUME NEW s \in Sessions, Prepare(s) \/ Verify(s)
        PROVE  Promise!Next \/ UNCHANGED Promise!vars
    BY <1>3, DeliveryPrepare, DeliveryVerify
  <1>4. ASSUME NEW s \in Sessions, NEW out \in AllOutcomes, ExecuteCommit(s, out)
        PROVE  Promise!Next
    BY <1>4, DeliveryExecute
  <1>5. ASSUME NEW s \in Sessions, NEW out, ExecuteRaise(s, out) \/ ExecuteCrash(s, out)
        PROVE  Promise!Next \/ UNCHANGED Promise!vars
    BY <1>5, DeliveryRollback DEF ExecuteRaise, ExecuteCrash
  <1>6. CASE UNCHANGED vars
    BY <1>6, DeliveryStutter DEF vars, rows, history
  <1>7. ASSUME NEW o \in Ops, Ages(o) PROVE UNCHANGED Promise!vars
    BY <1>7, DeliveryStutter DEF Ages, rows
  <1> QED  BY <1>1, <1>2, <1>3, <1>4, <1>5, <1>6, <1>7 DEF Next, Finish, AllOutcomes

(* The handlers of external_actions.py, with overlapping sessions, crashes  *)
(* and late verdicts, implement Delivery for every instance: an operation   *)
(* is executed once, tells of at most one message, and sends nothing once   *)
(* its result is stored.                                                    *)
THEOREM DeliversAsPromisedAlways == Spec => DeliversAsPromised
  BY DeliveryInit, DeliveryNext, TypeInvariant, SendInvariant, StrayInvariant, PTL
  DEF Spec, DeliversAsPromised, Promise!Spec

------------------------------------------------------------------------------
(* One request at a time                                                    *)

(* Requests that do not overlap.                                            *)
Serial == \A s, t \in Sessions : s = t

(* An approval is bound to a version its mission has reached; once approved *)
(* the mission is APPROVED until it is more than one version further on.    *)
BoundInv ==
    \A a \in Approvals : approval[a] # AbsentApproval =>
      LET row == mission[approval[a].mission]
      IN  /\ approval[a].version <= row.version
          /\ approval[a].status = "APPROVED" /\ row.version <= approval[a].version + 1
               => row.status = "APPROVED"

(* An operation stands under an approval of its mission that stays          *)
(* APPROVED.                                                                *)
OpsBound ==
    \A o \in Ops : op[o] # AbsentOp =>
      /\ approval[op[o].approval].status = "APPROVED"
      /\ approval[op[o].approval].mission = op[o].mission

(* A mission has at most one operation with a result.                       *)
OneResult ==
    \A o, q \in Ops :
      op[o].status \in Results /\ op[q].status \in Results /\ op[o].mission = op[q].mission
        => o = q

RowsInv == BoundInv /\ OpsBound /\ OneResult /\ OutcomeAgreement /\ DecisionAgreement

(* The request in flight has loaded the rows as they are.                   *)
Fresh(t) ==
    /\ t.handler \in {"lead_review", "decide", "execute", "verify"} => t.row = mission[t.mission]
    /\ t.handler = "decide" =>
         \E a \in Approvals : /\ t.approvals = {a} /\ approval[a].status = "PENDING"
                              /\ approval[a].mission = t.mission
                              /\ approval[a].version = t.row.version
    /\ t.handler = "expire" => \A a \in t.approvals : approval[a].status = "PENDING"
    /\ t.handler = "prepare" =>
         \A a \in t.approvals : approval[a].status = "APPROVED" /\ approval[a].mission = t.mission
    /\ t.handler = "execute" =>
         /\ op[t.op].status = "APPROVED" /\ op[t.op].mission = t.mission
         /\ VersionBound(t.row, op[t.op].approval)
    /\ t.handler = "verify" => op[t.op].status = "UNKNOWN" /\ op[t.op].mission = t.mission

SerialInv == RowsInv /\ \A s \in Sessions : Fresh(txn[s])

(* lead_review_mission leads on from EXECUTING, two versions up.            *)
LEMMA ReviewedStep ==
    ASSUME NEW row \in MissionRow, NEW m, Reviewed(row, m) # Raised
    PROVE  row.status = "EXECUTING" /\ Reviewed(row, m).version = row.version + 2
  <1> DEFINE mid == [status |-> "LEAD_REVIEW", version |-> row.version + 1]
  <1>1. row.status \in MissionStatus /\ row.version \in Nat
    BY DEF MissionRow
  <1>2. MissionStep(row, "LEAD_REVIEW") # Raised
    BY DEF Reviewed, MissionStep
  <1>3. row.status = "EXECUTING" /\ MissionStep(row, "LEAD_REVIEW") = mid
    BY <1>1, <1>2 DEF MissionStep, MISSION_TRANSITIONS, MissionStatus
  <1>4. PICK st : Reviewed(row, m) = MissionStep(mid, st)
    BY <1>3 DEF Reviewed
  <1>5. Reviewed(row, m) = [status |-> st, version |-> row.version + 2]
    BY <1>1, <1>4 DEF MissionStep
  <1> QED  BY <1>3, <1>5

(* A decision finds a mission without a result, one version earlier.        *)
LEMMA DecidedStep ==
    ASSUME NEW row \in MissionRow, NEW d, Decided(row, d) # Raised
    PROVE  /\ row.status \in {"READY", "LEAD_REVIEW", "APPROVAL_REQUIRED", "BLOCKED"}
           /\ Decided(row, d) = [status |-> IF d = "approve" THEN "APPROVED" ELSE "EXECUTING",
                                 version |-> row.version + 1]
  <1>1. row.status \in MissionStatus
    BY DEF MissionRow
  <1>2. CASE d = "approve"
    BY <1>1, <1>2 DEF Decided, MissionStep, MISSION_TRANSITIONS, MissionStatus
  <1>3. CASE d # "approve"
    BY <1>1, <1>3 DEF Decided, MissionStep, MISSION_TRANSITIONS, MissionStatus
  <1> QED  BY <1>2, <1>3

(* Every way execute can end is legal for an APPROVED mission, and takes it *)
(* to the result at least two versions on.                                  *)
LEMMA ExecutedStep ==
    ASSUME NEW row \in MissionRow, row.status = "APPROVED", NEW out \in AllOutcomes
    PROVE  /\ Executed(row, out) # Raised
           /\ Executed(row, out).status = MissionResult(out.result)
           /\ Executed(row, out).version >= row.version + 2
  <1> DEFINE v == row.version
             started == [status |-> "ACTION_EXECUTING", version |-> v + 1]
             checked == [status |-> "VERIFYING", version |-> v + 2]
             last == IF out.verifying THEN checked ELSE started
             target == MissionResult(out.result)
  <1>1. v \in Nat /\ row # Raised
    BY RaisedIsNoRow DEF MissionRow
  <1>2. MissionStepIf(row, "APPROVED", "ACTION_EXECUTING") = started
    BY <1>1 DEF MissionStepIf, MissionStep, MISSION_TRANSITIONS, MissionStatus
  <1>3. MissionStepIf(started, "ACTION_EXECUTING", "VERIFYING") = checked
    BY <1>1 DEF MissionStepIf, MissionStep, MISSION_TRANSITIONS, MissionStatus, Raised
  <1>4. Executed(row, out) = MissionStep(last, target)
    BY <1>2, <1>3 DEF Executed
  <1>5. target \in {"COMPLETED", "FAILED", "UNKNOWN"}
    BY OutcomeType DEF MissionResult, Results
  <1>6. ~out.verifying => target \in {"FAILED", "UNKNOWN"}
    BY DEF AllOutcomes, ProviderOutcomes, SendRaised, SendReturned, Simulated, DemoRun, Denied,
           MissionResult
  <1>7. target \in MISSION_TRANSITIONS[last.status] /\ last # Raised
    BY <1>5, <1>6 DEF MISSION_TRANSITIONS, MissionStatus, Raised
  <1>8. last.version \in {v + 1, v + 2}
    OBVIOUS
  <1> HIDE DEF last, target, v
  <1>9. Executed(row, out) = [status |-> target, version |-> last.version + 1]
    BY <1>4, <1>7 DEF MissionStep
  <1>10. Executed(row, out).status # "RAISED"
    BY <1>5, <1>9
  <1> QED  BY <1>1, <1>8, <1>9, <1>10 DEF target, v, Raised

(* The verdict of verify takes an UNKNOWN mission to the result.            *)
LEMMA VerifiedStep ==
    ASSUME NEW row \in MissionRow, row.status = "UNKNOWN", NEW arg
    PROVE  LET st == IF arg = "succeeded" THEN "SUCCEEDED" ELSE "FAILED"
           IN  Verified(row, arg) = [status |-> MissionResult(st), version |-> row.version + 2]
  <1> DEFINE mid == [status |-> "VERIFYING", version |-> row.version + 1]
             target == IF arg = "succeeded" THEN "COMPLETED" ELSE "FAILED"
  <1>1. row # Raised /\ row.version \in Nat
    BY RaisedIsNoRow DEF MissionRow
  <1>2. MissionStepIf(row, "UNKNOWN", "VERIFYING") = mid
    BY <1>1 DEF MissionStepIf, MissionStep, MISSION_TRANSITIONS, MissionStatus
  <1>3. Verified(row, arg) = MissionStep(mid, target)
    BY <1>2 DEF Verified
  <1>4. mid # Raised /\ target \in MISSION_TRANSITIONS[mid.status]
    BY DEF MISSION_TRANSITIONS, MissionStatus, Raised
  <1>5. Verified(row, arg) = [status |-> target, version |-> row.version + 2]
    BY <1>1, <1>3, <1>4 DEF MissionStep
  <1> QED  BY <1>5 DEF MissionResult

(* The columns of an operation that is there, and of an approval.           *)
LEMMA RowFields ==
    ASSUME TypeInv
    PROVE  /\ \A o \in Ops : op[o].status # "ABSENT" =>
                op[o] # AbsentOp /\ op[o].approval \in Approvals /\ op[o].mission \in Missions
           /\ \A o \in Ops : op[o] # AbsentOp => op[o].status # "ABSENT"
           /\ \A a \in Approvals : approval[a].status # "ABSENT" =>
                /\ approval[a] # AbsentApproval /\ approval[a].mission \in Missions
                /\ approval[a].version \in Nat
           /\ \A a \in Approvals : approval[a] # AbsentApproval =>
                approval[a] \in ApprovalRow /\ approval[a].status # "ABSENT"
           /\ \A m \in Missions : mission[m] \in MissionRow /\ mission[m].version \in Nat
  <1>1. AbsentOp.status = "ABSENT" /\ AbsentApproval.status = "ABSENT"
    BY DEF AbsentOp, AbsentApproval
  <1>2. /\ \A o \in Ops : op[o] \in OpRow \cup {AbsentOp}
        /\ \A a \in Approvals : approval[a] \in ApprovalRow \cup {AbsentApproval}
        /\ \A m \in Missions : mission[m] \in MissionRow
    BY DEF TypeInv, TypeOK
  <1>3. \A r \in OpRow : r.status # "ABSENT" /\ r.approval \in Approvals /\ r.mission \in Missions
    BY DEF OpRow, ExternalOperationStatus
  <1>4. \A r \in ApprovalRow : r.status # "ABSENT" /\ r.mission \in Missions /\ r.version \in Nat
    BY DEF ApprovalRow, ApprovalStatus
  <1>5. \A r \in MissionRow : r.version \in Nat
    BY DEF MissionRow
  <1> QED  BY <1>1, <1>2, <1>3, <1>4, <1>5

(* Nothing is there before the first request.                               *)
LEMMA SerialInit == Init => SerialInv
  <1> SUFFICES ASSUME Init PROVE SerialInv  OBVIOUS
  <1>1. /\ \A a \in Approvals : approval[a] = AbsentApproval /\ approval[a].status = "ABSENT"
        /\ \A o \in Ops : op[o] = AbsentOp /\ op[o].status = "ABSENT"
        /\ \A s \in Sessions : txn[s].handler = "idle"
        /\ decisions = {}
    BY DEF Init, AbsentApproval, AbsentOp, Idle
  <1>2. BoundInv /\ OpsBound /\ OneResult /\ OutcomeAgreement
    BY <1>1 DEF BoundInv, OpsBound, OneResult, OutcomeAgreement, Results
  <1>3. DecisionAgreement
    BY <1>1 DEF DecisionAgreement
  <1>4. \A s \in Sessions : Fresh(txn[s])
    BY <1>1 DEF Fresh
  <1> QED  BY <1>2, <1>3, <1>4 DEF SerialInv, RowsInv

(* Nobody but the request that starts is in flight.                         *)
LEMMA SerialLoad ==
    ASSUME Serial, TypeInv, SerialInv, NEW s \in Sessions, NEW t, Load(s, t), Fresh(t)
    PROVE  SerialInv'
  <1>1. UNCHANGED <<mission, approval, decisions, op>>
    BY DEF Load, rows
  <1>2. \A u \in Sessions : txn'[u] = t
    BY DEF Load, Serial, TypeInv, TypeOK
  <1>3. \A u \in Sessions : Fresh(txn[u])'
    BY <1>1, <1>2 DEF Fresh, VersionBound
  <1>4. RowsInv'
    BY <1>1 DEF SerialInv, RowsInv, BoundInv, OpsBound, OneResult, OutcomeAgreement,
                DecisionAgreement
  <1> QED  BY <1>3, <1>4 DEF SerialInv

(* Nobody at all is when it has ended.                                      *)
LEMMA SerialEnd ==
    ASSUME Serial, TypeInv, NEW s \in Sessions, End(s)
    PROVE  \A u \in Sessions : Fresh(txn[u])'
  <1>1. \A u \in Sessions : txn'[u] = Idle
    BY DEF End, Serial, TypeInv, TypeOK
  <1> QED  BY <1>1 DEF Fresh, Idle

(* A request that starts has loaded the rows as they are.                   *)
LEMMA SerialBegin ==
    ASSUME Serial, TypeInv, SerialInv, NEW s \in Sessions, Begin(s)
    PROVE  SerialInv'
  <1>1. ASSUME NEW m \in Missions, BeginLeadReview(s, m) PROVE SerialInv'
    <2> DEFINE t == [Idle EXCEPT !.handler = "lead_review", !.mission = m, !.row = mission[m]]
    <2>1. Load(s, t) /\ Fresh(t)
      BY <1>1 DEF BeginLeadReview, Fresh, Idle
    <2> QED  BY <2>1, SerialLoad
  <1>2. ASSUME NEW a \in Approvals, NEW d \in {"approve", "reject", "changes"},
               BeginDecide(s, a, d)
        PROVE  SerialInv'
    <2> DEFINE m == approval[a].mission
               t == [Idle EXCEPT !.handler = "decide", !.arg = d, !.approvals = {a},
                                 !.mission = m, !.row = mission[m]]
    <2>1. approval[a].status \in ApprovalStatus
      BY <1>2, RowFields DEF BeginDecide, ApprovalRow
    <2>2. approval[a].status = "PENDING"
      BY <1>2, <2>1 DEF BeginDecide, Target, APPROVAL_TRANSITIONS, ApprovalStatus
    <2>3. Load(s, t) /\ mission[m].version = approval[a].version
      BY <1>2 DEF BeginDecide
    <2>4. /\ t.handler = "decide" /\ t.approvals = {a} /\ t.mission = m
          /\ t.row = mission[m]
      BY DEF Idle
    <2> HIDE DEF t
    <2>5. Fresh(t)
      BY <2>2, <2>3, <2>4 DEF Fresh
    <2> QED  BY <2>3, <2>5, SerialLoad
  <1>3. ASSUME NEW batch \in SUBSET Approvals, BeginExpire(s, batch) PROVE SerialInv'
    <2> DEFINE t == [Idle EXCEPT !.handler = "expire", !.approvals = batch]
    <2>1. Load(s, t) /\ Fresh(t)
      BY <1>3 DEF BeginExpire, Fresh, Idle
    <2> QED  BY <2>1, SerialLoad
  <1>4. ASSUME NEW a \in Approvals, NEW o \in Ops, NEW mode \in Modes,
               BeginPrepare(s, a, o, mode)
        PROVE  SerialInv'
    <2> DEFINE t == [Idle EXCEPT !.handler = "prepare", !.arg = mode, !.approvals = {a},
                                 !.op = o, !.mission = approval[a].mission]
    <2>1. Load(s, t) /\ Fresh(t)
      BY <1>4 DEF BeginPrepare, Fresh, Idle
    <2> QED  BY <2>1, SerialLoad
  <1>5. ASSUME NEW o \in Ops, NEW mode \in {"run", "simulate_unknown"}, BeginExecute(s, o, mode)
        PROVE  SerialInv'
    <2> DEFINE m == op[o].mission
               t == [Idle EXCEPT !.handler = "execute", !.arg = mode, !.op = o,
                                 !.mission = m, !.row = mission[m],
                                 !.attempts = op[o].attempts]
    <2>1. /\ Load(s, t) /\ op[o].status = "APPROVED"
          /\ VersionBound(mission[m], op[o].approval)
      BY <1>5 DEF BeginExecute
    <2>2. t.handler = "execute" /\ t.op = o /\ t.mission = m /\ t.row = mission[m]
      BY DEF Idle
    <2> HIDE DEF t
    <2>3. Fresh(t)
      BY <2>1, <2>2 DEF Fresh
    <2> QED  BY <2>1, <2>3, SerialLoad
  <1>6. ASSUME NEW o \in Ops, NEW outcome \in {"succeeded", "failed"}, BeginVerify(s, o, outcome)
        PROVE  SerialInv'
    <2> DEFINE m == op[o].mission
               t == [Idle EXCEPT !.handler = "verify", !.arg = outcome, !.op = o,
                                 !.mission = m, !.row = mission[m]]
    <2>1. Load(s, t) /\ Fresh(t)
      BY <1>6 DEF BeginVerify, Fresh, Idle
    <2> QED  BY <2>1, SerialLoad
  <1> QED  BY <1>1, <1>2, <1>3, <1>4, <1>5, <1>6 DEF Begin

(* The statuses a mission with a result or with an approval in force has.   *)
Settled == {"APPROVED", "COMPLETED", "FAILED", "UNKNOWN"}

(* A mission without a result and without an approval in force moves on,    *)
(* and approvals that are not in force may with it.                         *)
LEMMA MissionMoves ==
    ASSUME TypeInv, RowsInv, NEW m \in Missions, NEW new \in MissionRow,
           mission' = [mission EXCEPT ![m] = new],
           mission[m].version < new.version, mission[m].status \notin Settled,
           UNCHANGED op,
           \A a \in Approvals :
             \/ approval'[a] = approval[a]
             \/ /\ approval[a].status # "APPROVED"
                /\ approval'[a].mission = m /\ approval'[a].version <= new.version
                /\ approval'[a].status = "APPROVED" => new.status = "APPROVED"
    PROVE  (BoundInv /\ OpsBound /\ OneResult /\ OutcomeAgreement)'
  <1>1. /\ mission'[m] = new /\ \A n \in Missions : n # m => mission'[n] = mission[n]
        /\ mission[m].version \in Nat /\ new.version \in Nat
    BY DEF TypeInv, TypeOK, MissionRow
  <1>2. BoundInv'
    <2> SUFFICES ASSUME NEW a \in Approvals, approval'[a] # AbsentApproval
                 PROVE  LET row == mission'[approval'[a].mission]
                        IN  /\ approval'[a].version <= row.version
                            /\ approval'[a].status = "APPROVED"
                                 /\ row.version <= approval'[a].version + 1
                                 => row.status = "APPROVED"
      BY DEF BoundInv
    <2>1. CASE approval'[a] = approval[a]
      <3>1. /\ approval[a].mission \in Missions /\ approval[a].version \in Nat
            /\ approval[a] # AbsentApproval
        BY <2>1, RowFields
      <3>2. /\ approval[a].version <= mission[approval[a].mission].version
            /\ approval[a].status = "APPROVED"
                 /\ mission[approval[a].mission].version <= approval[a].version + 1
                 => mission[approval[a].mission].status = "APPROVED"
        BY <3>1 DEF RowsInv, BoundInv
      <3>3. CASE approval[a].mission = m
        BY <1>1, <2>1, <3>1, <3>2, <3>3 DEF Settled
      <3>4. CASE approval[a].mission # m
        BY <1>1, <2>1, <3>1, <3>2, <3>4
      <3> QED  BY <3>3, <3>4
    <2>2. CASE approval'[a] # approval[a]
      BY <1>1, <2>2
    <2> QED  BY <2>1, <2>2
  <1>3. OpsBound'
    <2> SUFFICES ASSUME NEW o \in Ops, op[o] # AbsentOp
                 PROVE  /\ approval'[op[o].approval].status = "APPROVED"
                        /\ approval'[op[o].approval].mission = op[o].mission
      BY DEF OpsBound
    <2>1. op[o].approval \in Approvals /\ approval[op[o].approval].status = "APPROVED"
          /\ approval[op[o].approval].mission = op[o].mission
      BY RowFields DEF RowsInv, OpsBound
    <2> QED  BY <2>1
  <1>4. OutcomeAgreement'
    <2> SUFFICES ASSUME NEW o \in Ops, op[o].status \in Results
                 PROVE  mission'[op[o].mission].status =
                          IF op[o].status = "SUCCEEDED" THEN "COMPLETED" ELSE op[o].status
      BY DEF OutcomeAgreement
    <2>1. op[o].mission \in Missions
      BY RowFields DEF Results
    <2>2. mission[op[o].mission].status =
            IF op[o].status = "SUCCEEDED" THEN "COMPLETED" ELSE op[o].status
      BY DEF RowsInv, OutcomeAgreement
    <2>3. op[o].mission # m
      BY <2>2 DEF Settled, Results
    <2> QED  BY <1>1, <2>1, <2>2, <2>3
  <1>5. OneResult'
    BY DEF RowsInv, OneResult
  <1> QED  BY <1>2, <1>3, <1>4, <1>5

(* Statuses without a decision.                                             *)
Undecided == {"ABSENT", "PENDING", "EXPIRED"}

(* Approvals that no decision is about come and expire.                     *)
LEMMA DecisionsKept ==
    ASSUME DecisionAgreement, UNCHANGED decisions,
           \A a \in Approvals :
             \/ approval'[a].status = approval[a].status
             \/ approval[a].status \in Undecided /\ approval'[a].status \in Undecided
    PROVE  DecisionAgreement'
  <1> SUFFICES ASSUME NEW a \in Approvals
               PROVE  {d \in {"approve", "reject", "changes"} : <<a, d>> \in decisions} =
                        CASE approval'[a].status = "APPROVED"          -> {"approve"}
                          [] approval'[a].status = "REJECTED"          -> {"reject"}
                          [] approval'[a].status = "CHANGES_REQUESTED" -> {"changes"}
                          [] OTHER                                     -> {}
    BY DEF DecisionAgreement
  <1> DEFINE D == {d \in {"approve", "reject", "changes"} : <<a, d>> \in decisions}
  <1>1. D = CASE approval[a].status = "APPROVED"          -> {"approve"}
              [] approval[a].status = "REJECTED"          -> {"reject"}
              [] approval[a].status = "CHANGES_REQUESTED" -> {"changes"}
              [] OTHER                                    -> {}
    BY DEF DecisionAgreement
  <1> HIDE DEF D
  <1>2. D = CASE approval'[a].status = "APPROVED"          -> {"approve"}
              [] approval'[a].status = "REJECTED"          -> {"reject"}
              [] approval'[a].status = "CHANGES_REQUESTED" -> {"changes"}
              [] OTHER                                     -> {}
    <2>1. CASE approval'[a].status = approval[a].status
      BY <1>1, <2>1
    <2>2. CASE approval[a].status \in Undecided /\ approval'[a].status \in Undecided
      BY <1>1, <2>2 DEF Undecided
    <2> QED  BY <2>1, <2>2
  <1> QED  BY <1>2 DEF D

(* lead_review_mission.                                                     *)
LEMMA SerialLeadReview ==
    ASSUME Serial, TypeInv, SerialInv, NEW s \in Sessions, LeadReview(s)
    PROVE  SerialInv'
  <1>1. PICK m \in Missions, new \in MissionRow :
          /\ m = txn[s].mission /\ new = Reviewed(mission[m], m)
          /\ mission[m].status = "EXECUTING" /\ new.version = mission[m].version + 2
    <2>1. /\ txn[s].handler = "lead_review" /\ Holds(txn[s]) /\ Fresh(txn[s])
      BY DEF LeadReview, TypeInv, SerialInv
    <2>2. /\ txn[s].mission \in Missions /\ txn[s].row = mission[txn[s].mission]
          /\ txn[s].row \in MissionRow /\ Reviewed(txn[s].row, txn[s].mission) # Raised
      BY <2>1 DEF Holds, Fresh
    <2> QED  BY <2>2, ReviewedStep, ReviewedType
  <1>2. /\ mission' = [mission EXCEPT ![m] = new] /\ UNCHANGED <<op, decisions>>
        /\ End(s)
    <2>1. txn[s].row = mission[m]
      BY <1>1 DEF LeadReview, SerialInv, Fresh
    <2> QED  BY <1>1, <2>1 DEF LeadReview
  <1>3. \A a \in Approvals :
          \/ approval'[a] = approval[a]
          \/ /\ approval[a].status = "ABSENT" /\ approval'[a].status = "PENDING"
             /\ approval'[a].mission = m /\ approval'[a].version = new.version
    <2>1. txn[s].row = mission[m]
      BY <1>1 DEF LeadReview, SerialInv, Fresh
    <2>2. CASE UNCHANGED approval
      BY <2>2
    <2>3. ASSUME NEW b \in Approvals, approval[b] = AbsentApproval,
                 approval' = [approval EXCEPT ![b] =
                    [status |-> "PENDING", mission |-> m, version |-> new.version]]
          PROVE  <1>3
      BY <2>3 DEF AbsentApproval, TypeInv, TypeOK
    <2> QED  BY <1>1, <2>1, <2>2, <2>3 DEF LeadReview
  <1>4. mission[m].version \in Nat
    BY RowFields
  <1>5. (BoundInv /\ OpsBound /\ OneResult /\ OutcomeAgreement)'
    <2>1. new.version <= new.version /\ mission[m].version < new.version
      BY <1>1, <1>4
    <2> QED  BY <1>1, <1>2, <1>3, <2>1, MissionMoves DEF SerialInv, Settled
  <1>6. DecisionAgreement'
    <2>1. \A a \in Approvals :
            \/ approval'[a].status = approval[a].status
            \/ approval[a].status \in Undecided /\ approval'[a].status \in Undecided
      BY <1>3 DEF Undecided
    <2>2. DecisionAgreement /\ UNCHANGED decisions
      BY <1>2 DEF SerialInv, RowsInv
    <2> QED  BY <2>1, <2>2, DecisionsKept
  <1> QED  BY <1>2, <1>5, <1>6, SerialEnd DEF SerialInv, RowsInv

(* decide_approval.                                                         *)
LEMMA SerialDecide ==
    ASSUME Serial, TypeInv, SerialInv, NEW s \in Sessions, Decide(s)
    PROVE  SerialInv'
  <1>1. txn[s].handler = "decide" /\ Holds(txn[s]) /\ Fresh(txn[s])
    BY DEF Decide, TypeInv, SerialInv
  <1>2. PICK a \in Approvals : /\ txn[s].approvals = {a} /\ approval[a].status = "PENDING"
                               /\ approval[a].mission = txn[s].mission
                               /\ approval[a].version = txn[s].row.version
    BY <1>1 DEF Fresh
  <1>3. PICK m \in Missions, d \in {"approve", "reject", "changes"} :
          /\ m = txn[s].mission /\ d = txn[s].arg /\ txn[s].row = mission[m]
          /\ Decided(mission[m], d) # Raised
    BY <1>1 DEF Holds, Fresh
  <1> DEFINE new == Decided(mission[m], d)
  <1>4. /\ mission[m].status \in {"READY", "LEAD_REVIEW", "APPROVAL_REQUIRED", "BLOCKED"}
        /\ new \in MissionRow
        /\ new.status = IF d = "approve" THEN "APPROVED" ELSE "EXECUTING"
        /\ new.version = mission[m].version + 1
    BY <1>3, RowFields, DecidedStep, DecidedType
  <1>5. /\ mission' = [mission EXCEPT ![m] = new] /\ UNCHANGED op /\ End(s)
        /\ decisions' = decisions \cup {<<a, d>>}
        /\ approval'[a] = [approval[a] EXCEPT !.status = Target(d)]
        /\ \A b \in Approvals : b # a => approval'[b] = approval[b]
    BY <1>2, <1>3 DEF Decide
  <1> HIDE DEF new
  <1>6. /\ approval'[a].status = Target(d) /\ approval'[a].mission = m
        /\ approval'[a].version = approval[a].version
    BY <1>2, <1>3, <1>5, RowFields DEF ApprovalRow
  <1>7. Target(d) = "APPROVED" => d = "approve"
    BY DEF Target
  <1>8. (BoundInv /\ OpsBound /\ OneResult /\ OutcomeAgreement)'
    <2>1. /\ mission[m].version \in Nat /\ mission[m].version < new.version
          /\ approval[a].version <= new.version
      BY <1>2, <1>3, <1>4, RowFields
    <2>2. \A b \in Approvals :
             \/ approval'[b] = approval[b]
             \/ /\ approval[b].status # "APPROVED"
                /\ approval'[b].mission = m /\ approval'[b].version <= new.version
                /\ approval'[b].status = "APPROVED" => new.status = "APPROVED"
      <3>1. /\ approval[a].status # "APPROVED"
            /\ approval'[a].mission = m /\ approval'[a].version <= new.version
        BY <1>2, <1>6, <2>1
      <3>2. approval'[a].status = "APPROVED" => new.status = "APPROVED"
        BY <1>4, <1>6, <1>7
      <3> QED  BY <1>5, <3>1, <3>2
    <2>3. mission[m].status \notin Settled /\ RowsInv
      BY <1>4 DEF SerialInv, Settled
    <2> QED  BY <1>4, <1>5, <2>1, <2>2, <2>3, MissionMoves
  <1>9. DecisionAgreement'
    <2> SUFFICES ASSUME NEW b \in Approvals
                 PROVE  {e \in {"approve", "reject", "changes"} : <<b, e>> \in decisions'} =
                          CASE approval'[b].status = "APPROVED"          -> {"approve"}
                            [] approval'[b].status = "REJECTED"          -> {"reject"}
                            [] approval'[b].status = "CHANGES_REQUESTED" -> {"changes"}
                            [] OTHER                                     -> {}
      BY DEF DecisionAgreement
    <2> DEFINE D == {e \in {"approve", "reject", "changes"} : <<b, e>> \in decisions}
               E == {e \in {"approve", "reject", "changes"} : <<b, e>> \in decisions'}
    <2>1. D = CASE approval[b].status = "APPROVED"          -> {"approve"}
                [] approval[b].status = "REJECTED"          -> {"reject"}
                [] approval[b].status = "CHANGES_REQUESTED" -> {"changes"}
                [] OTHER                                    -> {}
      BY DEF SerialInv, RowsInv, DecisionAgreement
    <2>2. CASE b = a
      <3>1. D = {}
        BY <1>2, <2>1, <2>2
      <3>2. E = {d}
        BY <1>5, <2>2, <3>1
      <3>3. {d} = CASE Target(d) = "APPROVED"          -> {"approve"}
                    [] Target(d) = "REJECTED"          -> {"reject"}
                    [] Target(d) = "CHANGES_REQUESTED" -> {"changes"}
                    [] OTHER                           -> {}
        BY DEF Target
      <3> HIDE DEF E
      <3>4. E = CASE approval'[b].status = "APPROVED"          -> {"approve"}
                  [] approval'[b].status = "REJECTED"          -> {"reject"}
                  [] approval'[b].status = "CHANGES_REQUESTED" -> {"changes"}
                  [] OTHER                                     -> {}
        BY <1>6, <2>2, <3>2, <3>3
      <3> QED  BY <3>4 DEF E
    <2>3. CASE b # a
      <3>1. E = D /\ approval'[b] = approval[b]
        BY <1>5, <2>3
      <3> HIDE DEF D
      <3>2. E = CASE approval'[b].status = "APPROVED"          -> {"approve"}
                  [] approval'[b].status = "REJECTED"          -> {"reject"}
                  [] approval'[b].status = "CHANGES_REQUESTED" -> {"changes"}
                  [] OTHER                                     -> {}
        BY <2>1, <3>1
      <3> QED  BY <3>2 DEF E
    <2> QED  BY <2>2, <2>3
  <1> QED  BY <1>5, <1>8, <1>9, SerialEnd DEF SerialInv, RowsInv

(* The scheduler's expiry.                                                  *)
LEMMA SerialExpire ==
    ASSUME Serial, TypeInv, SerialInv, NEW s \in Sessions, Expire(s)
    PROVE  SerialInv'
  <1>1. /\ txn[s].handler = "expire" /\ Fresh(txn[s]) /\ End(s)
        /\ UNCHANGED <<mission, decisions, op>>
    BY DEF Expire, SerialInv
  <1>2. \A a \in Approvals :
          \/ approval'[a] = approval[a]
          \/ /\ approval[a].status = "PENDING" /\ approval'[a].status = "EXPIRED"
             /\ approval'[a].mission = approval[a].mission
             /\ approval'[a].version = approval[a].version
    <2> SUFFICES ASSUME NEW a \in Approvals, a \in txn[s].approvals
                 PROVE  /\ approval[a].status = "PENDING" /\ approval'[a].status = "EXPIRED"
                        /\ approval'[a].mission = approval[a].mission
                        /\ approval'[a].version = approval[a].version
      BY DEF Expire
    <2>1. approval[a].status = "PENDING" /\ approval[a] \in ApprovalRow
      BY <1>1, RowFields DEF Fresh
    <2> QED  BY <2>1 DEF Expire, ApprovalRow
  <1>3. BoundInv'
    <2> SUFFICES ASSUME NEW a \in Approvals, approval'[a] # AbsentApproval
                 PROVE  LET row == mission[approval'[a].mission]
                        IN  /\ approval'[a].version <= row.version
                            /\ approval'[a].status = "APPROVED"
                                 /\ row.version <= approval'[a].version + 1
                                 => row.status = "APPROVED"
      BY <1>1 DEF BoundInv
    <2>1. approval[a] # AbsentApproval
      BY <1>2, RowFields
    <2> QED  BY <1>2, <2>1 DEF SerialInv, RowsInv, BoundInv
  <1>4. OpsBound'
    <2>1. \A o \in Ops : op[o] # AbsentOp => op[o].approval \in Approvals
      BY RowFields
    <2> QED  BY <1>1, <1>2, <2>1 DEF SerialInv, RowsInv, OpsBound
  <1>5. (OneResult /\ OutcomeAgreement)'
    BY <1>1 DEF SerialInv, RowsInv, OneResult, OutcomeAgreement
  <1>6. DecisionAgreement'
    <2>1. \A a \in Approvals :
            \/ approval'[a].status = approval[a].status
            \/ approval[a].status \in Undecided /\ approval'[a].status \in Undecided
      BY <1>2 DEF Undecided
    <2>2. DecisionAgreement /\ UNCHANGED decisions
      BY <1>1 DEF SerialInv, RowsInv
    <2> QED  BY <2>1, <2>2, DecisionsKept
  <1> QED  BY <1>1, <1>3, <1>4, <1>5, <1>6, SerialEnd DEF SerialInv, RowsInv

(* prepare_external_operation.                                              *)
LEMMA SerialPrepare ==
    ASSUME Serial, TypeInv, SerialInv, NEW s \in Sessions, Prepare(s)
    PROVE  SerialInv'
  <1>1. /\ txn[s].handler = "prepare" /\ Fresh(txn[s]) /\ End(s)
        /\ UNCHANGED <<mission, approval, decisions>>
    BY DEF Prepare, SerialInv
  <1>2. PICK o \in Ops : o = txn[s].op
    BY <1>1 DEF TypeInv, Holds
  <1>3. PICK a \in txn[s].approvals :
          op' = [op EXCEPT ![o] =
            [status |-> "APPROVED", approval |-> a, mission |-> txn[s].mission,
             attempts |-> 0, demo |-> txn[s].arg = "demo"]]
    BY <1>2 DEF Prepare
  <1>4. /\ op'[o].status = "APPROVED" /\ op'[o].approval = a /\ op'[o].mission = txn[s].mission
        /\ \A q \in Ops : q # o => op'[q] = op[q]
    BY <1>3 DEF TypeInv, TypeOK
  <1>5. approval[a].status = "APPROVED" /\ approval[a].mission = txn[s].mission
    BY <1>1, <1>3 DEF Fresh
  <1>6. OpsBound'
    BY <1>1, <1>4, <1>5 DEF SerialInv, RowsInv, OpsBound
  <1>7. "APPROVED" \notin Results
    BY DEF Results
  <1>8. (OneResult /\ OutcomeAgreement)'
    BY <1>1, <1>4, <1>7 DEF SerialInv, RowsInv, OneResult, OutcomeAgreement
  <1>9. (BoundInv /\ DecisionAgreement)'
    BY <1>1 DEF SerialInv, RowsInv, BoundInv, DecisionAgreement
  <1> QED  BY <1>1, <1>6, <1>8, <1>9, SerialEnd DEF SerialInv, RowsInv

(* An executor works on an operation whose mission is APPROVED, at the      *)
(* version its approval is bound to.                                        *)
LEMMA ExecutorFinds ==
    ASSUME TypeInv, SerialInv, NEW s \in Sessions, txn[s].handler = "execute"
    PROVE  /\ txn[s].op \in Ops /\ op[txn[s].op].status = "APPROVED"
           /\ txn[s].mission = op[txn[s].op].mission /\ txn[s].mission \in Missions
           /\ txn[s].row = mission[txn[s].mission]
           /\ mission[txn[s].mission].status = "APPROVED"
           /\ VersionBound(mission[txn[s].mission], op[txn[s].op].approval)
  <1>1. PICK o \in Ops : o = txn[s].op
    BY DEF TypeInv, Holds
  <1>2. /\ op[o].status = "APPROVED" /\ op[o].mission = txn[s].mission
        /\ txn[s].mission \in Missions /\ txn[s].row = mission[txn[s].mission]
        /\ VersionBound(txn[s].row, op[o].approval)
    BY <1>1 DEF TypeInv, Holds, SerialInv, Fresh
  <1>3. PICK a \in Approvals : a = op[o].approval
    BY <1>2, RowFields
  <1>4. /\ approval[a].status = "APPROVED" /\ approval[a].mission = txn[s].mission
        /\ approval[a] # AbsentApproval /\ approval[a].version \in Nat
    <2>1. op[o] # AbsentOp
      BY <1>2, RowFields
    <2>2. approval[a].status = "APPROVED" /\ approval[a].mission = txn[s].mission
      BY <1>2, <1>3, <2>1 DEF SerialInv, RowsInv, OpsBound
    <2> QED  BY <2>2, RowFields
  <1>5. mission[txn[s].mission].version <= approval[a].version + 1
    BY <1>2, <1>3, <1>4 DEF VersionBound
  <1>6. mission[txn[s].mission].status = "APPROVED"
    BY <1>4, <1>5 DEF SerialInv, RowsInv, BoundInv
  <1> QED  BY <1>1, <1>2, <1>6

(* A mission in force or unknown gets its result, and so does its one       *)
(* operation.                                                               *)
LEMMA ResultMoves ==
    ASSUME TypeInv, RowsInv, NEW o \in Ops, NEW m \in Missions, NEW new \in MissionRow,
           op[o].status # "ABSENT", op[o].mission = m,
           mission' = [mission EXCEPT ![m] = new],
           \/ mission[m].status = "APPROVED"
           \/ mission[m].status = "UNKNOWN" /\ op[o].status = "UNKNOWN",
           new.version >= mission[m].version + 2,
           op'[o].status \in Results, new.status = MissionResult(op'[o].status),
           op'[o].approval = op[o].approval, op'[o].mission = m,
           \A q \in Ops : q # o => op'[q] = op[q],
           UNCHANGED <<approval, decisions>>
    PROVE  RowsInv'
  <1>1. /\ mission'[m] = new /\ \A n \in Missions : n # m => mission'[n] = mission[n]
        /\ mission[m].version \in Nat /\ new.version \in Nat
    BY DEF TypeInv, TypeOK, MissionRow
  <1>2. BoundInv'
    <2> SUFFICES ASSUME NEW a \in Approvals, approval[a] # AbsentApproval
                 PROVE  LET row == mission'[approval[a].mission]
                        IN  /\ approval[a].version <= row.version
                            /\ approval[a].status = "APPROVED"
                                 /\ row.version <= approval[a].version + 1
                                 => row.status = "APPROVED"
      BY DEF BoundInv
    <2>1. approval[a].mission \in Missions /\ approval[a].version \in Nat
      BY RowFields
    <2>2. /\ approval[a].version <= mission[approval[a].mission].version
          /\ approval[a].status = "APPROVED"
               /\ mission[approval[a].mission].version <= approval[a].version + 1
               => mission[approval[a].mission].status = "APPROVED"
      BY DEF RowsInv, BoundInv
    <2>3. CASE approval[a].mission = m
      BY <1>1, <2>1, <2>2, <2>3
    <2>4. CASE approval[a].mission # m
      BY <1>1, <2>1, <2>2, <2>4
    <2> QED  BY <2>3, <2>4
  <1>3. OpsBound'
    <2>1. op[o] # AbsentOp
      BY RowFields
    <2> QED  BY <2>1 DEF RowsInv, OpsBound
  <1>4. ASSUME NEW q \in Ops, q # o, op[q].status \in Results
        PROVE  op[q].mission # m /\ op[q].mission \in Missions
    <2>1. op[q].mission \in Missions
      BY <1>4, RowFields DEF Results
    <2>2. mission[op[q].mission].status =
            IF op[q].status = "SUCCEEDED" THEN "COMPLETED" ELSE op[q].status
      BY <1>4 DEF RowsInv, OutcomeAgreement
    <2>3. op[o].status = "UNKNOWN" => op[q].mission # m
      BY <1>4 DEF RowsInv, OneResult, Results
    <2> QED  BY <1>4, <2>1, <2>2, <2>3 DEF Results
  <1>5. OutcomeAgreement'
    <2> SUFFICES ASSUME NEW q \in Ops, op'[q].status \in Results
                 PROVE  mission'[op'[q].mission].status =
                          IF op'[q].status = "SUCCEEDED" THEN "COMPLETED" ELSE op'[q].status
      BY DEF OutcomeAgreement
    <2>1. CASE q = o
      BY <1>1, <2>1 DEF MissionResult
    <2>2. CASE q # o
      <3>1. op'[q] = op[q] /\ op[q].mission # m /\ op[q].mission \in Missions
        BY <1>4, <2>2
      <3> QED  BY <1>1, <3>1 DEF RowsInv, OutcomeAgreement
    <2> QED  BY <2>1, <2>2
  <1>6. OneResult'
    BY <1>4 DEF RowsInv, OneResult
  <1>7. DecisionAgreement'
    BY DEF RowsInv, DecisionAgreement
  <1> QED  BY <1>2, <1>3, <1>5, <1>6, <1>7 DEF RowsInv

(* execute_external_operation.                                              *)
LEMMA SerialExecute ==
    ASSUME Serial, TypeInv, SerialInv, NEW s \in Sessions, NEW out \in AllOutcomes,
           ExecuteCommit(s, out)
    PROVE  SerialInv'
  <1>1. txn[s].handler = "execute" /\ End(s) /\ UNCHANGED <<approval, decisions>>
    BY DEF ExecuteCommit
  <1>2. PICK o \in Ops, m \in Missions :
          /\ o = txn[s].op /\ m = txn[s].mission /\ m = op[o].mission
          /\ op[o].status = "APPROVED" /\ mission[m].status = "APPROVED"
          /\ txn[s].row = mission[m]
    BY <1>1, ExecutorFinds
  <1>3. PICK new \in MissionRow :
          /\ new = Executed(mission[m], out)
          /\ new.status = MissionResult(out.result) /\ new.version >= mission[m].version + 2
    BY <1>2, RowFields, ExecutedStep, ExecutedType
  <1>4. /\ mission' = [mission EXCEPT ![m] = new]
        /\ op' = [op EXCEPT ![o].attempts = txn[s].attempts + 1, ![o].status = out.result]
    BY <1>2, <1>3 DEF ExecuteCommit
  <1>5. op \in [Ops -> OpRow \cup {AbsentOp}] /\ op[o] \in OpRow
    BY <1>2, RowFields DEF TypeInv, TypeOK
  <1>6. /\ op'[o].status = out.result /\ op'[o].approval = op[o].approval
        /\ op'[o].mission = m /\ \A q \in Ops : q # o => op'[q] = op[q]
    BY <1>2, <1>4, <1>5 DEF OpRow
  <1>7. RowsInv'
    BY <1>1, <1>2, <1>3, <1>4, <1>6, OutcomeType, ResultMoves DEF SerialInv
  <1> QED  BY <1>1, <1>7, SerialEnd DEF SerialInv

(* verify_unknown_external_operation.                                       *)
LEMMA SerialVerify ==
    ASSUME Serial, TypeInv, SerialInv, NEW s \in Sessions, Verify(s)
    PROVE  SerialInv'
  <1>1. txn[s].handler = "verify" /\ End(s) /\ UNCHANGED <<approval, decisions>>
    BY DEF Verify
  <1>2. PICK o \in Ops, m \in Missions :
          /\ o = txn[s].op /\ m = txn[s].mission /\ m = op[o].mission
          /\ op[o].status = "UNKNOWN" /\ txn[s].row = mission[m]
    BY <1>1 DEF TypeInv, Holds, SerialInv, Fresh
  <1>3. mission[m].status = "UNKNOWN" /\ mission[m] \in MissionRow
    BY <1>2, RowFields DEF SerialInv, RowsInv, OutcomeAgreement, Results
  <1> DEFINE st == IF txn[s].arg = "succeeded" THEN "SUCCEEDED" ELSE "FAILED"
             new == [status |-> MissionResult(st), version |-> mission[m].version + 2]
  <1>4. Verified(mission[m], txn[s].arg) = new
    BY <1>3, VerifiedStep
  <1>5. new \in MissionRow /\ st \in Results /\ new.version >= mission[m].version + 2
    BY <1>3 DEF MissionRow, MissionStatus, MissionResult, Results
  <1>6. new.status = MissionResult(st)
    OBVIOUS
  <1>7. mission' = [mission EXCEPT ![m] = new] /\ op' = [op EXCEPT ![o].status = st]
    BY <1>2, <1>4 DEF Verify
  <1> HIDE DEF st, new
  <1>8. op \in [Ops -> OpRow \cup {AbsentOp}] /\ op[o] \in OpRow
    BY <1>2, RowFields DEF TypeInv, TypeOK
  <1>9. /\ op'[o].status = st /\ op'[o].approval = op[o].approval
        /\ op'[o].mission = m /\ \A q \in Ops : q # o => op'[q] = op[q]
    BY <1>2, <1>7, <1>8 DEF OpRow
  <1>10. RowsInv'
    BY <1>1, <1>2, <1>3, <1>5, <1>6, <1>7, <1>9, ResultMoves DEF SerialInv
  <1> QED  BY <1>1, <1>10, SerialEnd DEF SerialInv

(* Every step of requests that do not overlap keeps the rows in agreement,  *)
(* crashes between the provider call and the commit included.               *)
LEMMA SerialNext ==
    ASSUME Serial, TypeInv, SerialInv, [Next]_vars
    PROVE  SerialInv'
  <1>1. ASSUME NEW s \in Sessions, End(s), UNCHANGED <<mission, approval, decisions, op>>
        PROVE  SerialInv'
    <2>1. RowsInv'
      BY <1>1 DEF SerialInv, RowsInv, BoundInv, OpsBound, OneResult, OutcomeAgreement,
                  DecisionAgreement
    <2> QED  BY <1>1, <2>1, SerialEnd DEF SerialInv
  <1>2. ASSUME NEW s \in Sessions, NEW out, ExecuteRaise(s, out) \/ ExecuteCrash(s, out)
        PROVE  SerialInv'
    BY <1>1, <1>2 DEF ExecuteRaise, ExecuteCrash, Rollback, rows
  <1>3. ASSUME NEW s \in Sessions, Abandon(s) PROVE SerialInv'
    BY <1>1, <1>3 DEF Abandon, rows
  <1>4. ASSUME NEW s \in Sessions, Finish(s) PROVE SerialInv'
    BY <1>2, <1>4, SerialLeadReview, SerialDecide, SerialExpire, SerialPrepare, SerialExecute,
       SerialVerify DEF Finish, AllOutcomes
  <1>5. ASSUME UNCHANGED <<mission, approval, decisions, op, txn>> PROVE SerialInv'
    BY <1>5 DEF SerialInv, RowsInv, BoundInv, OpsBound, OneResult, OutcomeAgreement,
                DecisionAgreement, Fresh, VersionBound
  <1>6. CASE UNCHANGED vars
    BY <1>5, <1>6 DEF vars
  <1>7. ASSUME NEW o \in Ops, Ages(o) PROVE SerialInv'
    BY <1>5, <1>7 DEF Ages, rows
  <1> QED  BY <1>3, <1>4, <1>6, <1>7, SerialBegin DEF Next

(* It holds throughout.                                                     *)
LEMMA SerialInvariant == ASSUME Serial PROVE Spec => []SerialInv
  <1>1. TypeInv /\ SerialInv /\ [Next]_vars => SerialInv'
    BY SerialNext
  <1> QED  BY <1>1, SerialInit, TypeInvariant, PTL DEF Spec

(* When requests do not overlap, the status of an approval is the one of    *)
(* its single recorded decision.                                            *)
THEOREM DecisionsAgree == ASSUME Serial PROVE Spec => []DecisionAgreement
  <1>1. SerialInv => DecisionAgreement
    BY DEF SerialInv, RowsInv
  <1> QED  BY <1>1, SerialInvariant, PTL

(* When requests do not overlap, an operation with a result and its mission *)
(* tell the same story, crashes included: verify_unknown_external_operation *)
(* never finds a mission it cannot move.                                    *)
THEOREM OutcomesAgree == ASSUME Serial PROVE Spec => []OutcomeAgreement
  <1>1. SerialInv => OutcomeAgreement
    BY DEF SerialInv, RowsInv
  <1> QED  BY <1>1, SerialInvariant, PTL

(* The rows a request writes when requests do not overlap: a mission that   *)
(* is not over, an approval that is pending, an operation without a final   *)
(* result.                                                                  *)
LEMMA SerialWrites ==
    ASSUME TypeInv, SerialInv, [Next]_vars
    PROVE  /\ \A m \in Missions : mission'[m] # mission[m] =>
                mission[m].status \in {"EXECUTING", "READY", "LEAD_REVIEW", "APPROVAL_REQUIRED",
                                       "BLOCKED", "APPROVED", "UNKNOWN"}
           /\ \A a \in Approvals : approval'[a] # approval[a] =>
                approval[a].status \in {"ABSENT", "PENDING"}
           /\ \A o \in Ops : op'[o] # op[o] => op[o].status \in {"ABSENT", "APPROVED", "UNKNOWN"}
  <1> DEFINE Early == {"EXECUTING", "READY", "LEAD_REVIEW", "APPROVAL_REQUIRED", "BLOCKED",
                       "APPROVED", "UNKNOWN"}
             M == \A m \in Missions : mission'[m] # mission[m] => mission[m].status \in Early
             A == \A a \in Approvals : approval'[a] # approval[a] =>
                     approval[a].status \in {"ABSENT", "PENDING"}
             O == \A o \in Ops : op'[o] # op[o] => op[o].status \in {"ABSENT", "APPROVED", "UNKNOWN"}
  <1>0. /\ mission \in [Missions -> MissionRow]
        /\ approval \in [Approvals -> ApprovalRow \cup {AbsentApproval}]
        /\ op \in [Ops -> OpRow \cup {AbsentOp}]
    BY DEF TypeInv, TypeOK
  <1>1. ASSUME NEW s \in Sessions, LeadReview(s) PROVE M /\ A /\ O
    <2>1. PICK m \in Missions : m = txn[s].mission /\ mission[m].status = "EXECUTING"
      BY <1>1, ReviewedStep DEF LeadReview, TypeInv, Holds, SerialInv, Fresh
    <2>2. M
      BY <1>0, <1>1, <2>1 DEF LeadReview
    <2>3. A /\ O
      BY <1>0, <1>1 DEF LeadReview, AbsentApproval
    <2> QED  BY <2>2, <2>3
  <1>2. ASSUME NEW s \in Sessions, Decide(s) PROVE M /\ A /\ O
    <2>1. PICK m \in Missions : m = txn[s].mission /\ mission[m].status \in Early
      BY <1>2, DecidedStep DEF Decide, TypeInv, Holds, SerialInv, Fresh
    <2>2. M
      BY <1>0, <1>2, <2>1 DEF Decide
    <2>3. A /\ O
      BY <1>0, <1>2 DEF Decide, SerialInv, Fresh
    <2> QED  BY <2>2, <2>3
  <1>3. ASSUME NEW s \in Sessions, Expire(s) PROVE M /\ A /\ O
    BY <1>0, <1>3 DEF Expire, SerialInv, Fresh
  <1>4. ASSUME NEW s \in Sessions, Prepare(s) PROVE M /\ A /\ O
    <2>1. PICK o \in Ops : o = txn[s].op /\ op[o].status = "ABSENT"
      BY <1>4 DEF Prepare, TypeInv, Holds, AbsentOp
    <2>2. \A q \in Ops : q # o => op'[q] = op[q]
      BY <1>0, <1>4, <2>1 DEF Prepare
    <2> QED  BY <1>4, <2>1, <2>2 DEF Prepare
  <1>5. ASSUME NEW s \in Sessions, NEW out, ExecuteCommit(s, out) PROVE M /\ A /\ O
    <2>1. PICK o \in Ops, m \in Missions :
            /\ o = txn[s].op /\ op[o].status = "APPROVED"
            /\ m = txn[s].mission /\ mission[m].status = "APPROVED"
      BY <1>5, ExecutorFinds DEF ExecuteCommit
    <2>2. M
      BY <1>0, <1>5, <2>1 DEF ExecuteCommit
    <2>3. \A q \in Ops : q # o => op'[q] = op[q]
      BY <1>0, <1>5, <2>1 DEF ExecuteCommit
    <2> QED  BY <1>5, <2>1, <2>2, <2>3 DEF ExecuteCommit
  <1>6. ASSUME NEW s \in Sessions, Verify(s) PROVE M /\ A /\ O
    <2>1. PICK o \in Ops, m \in Missions :
            /\ o = txn[s].op /\ op[o].status = "UNKNOWN"
            /\ m = txn[s].mission /\ m = op[o].mission
      BY <1>6 DEF Verify, TypeInv, Holds, SerialInv, Fresh
    <2>2. mission[m].status = "UNKNOWN"
      BY <2>1 DEF SerialInv, RowsInv, OutcomeAgreement, Results
    <2>3. M
      BY <1>0, <1>6, <2>1, <2>2 DEF Verify
    <2>4. \A q \in Ops : q # o => op'[q] = op[q]
      BY <1>0, <1>6, <2>1 DEF Verify
    <2> QED  BY <1>6, <2>1, <2>3, <2>4 DEF Verify
  <1>7. ASSUME UNCHANGED <<mission, approval, op>> PROVE M /\ A /\ O
    BY <1>7
  <1>8. ASSUME NEW s \in Sessions, Begin(s) \/ Abandon(s) PROVE M /\ A /\ O
    <2>1. CASE Abandon(s)
      BY <1>7, <2>1 DEF Abandon, rows
    <2>2. CASE Begin(s)
      BY <1>7, <2>2, Zenon
      DEF Begin, BeginLeadReview, BeginDecide, BeginExpire, BeginPrepare, BeginExecute,
          BeginVerify, Load, rows
    <2> QED  BY <1>8, <2>1, <2>2
  <1>9. ASSUME NEW s \in Sessions, NEW out, ExecuteRaise(s, out) \/ ExecuteCrash(s, out)
        PROVE  M /\ A /\ O
    BY <1>7, <1>9 DEF ExecuteRaise, ExecuteCrash, Rollback, rows
  <1>10. ASSUME UNCHANGED vars PROVE M /\ A /\ O
    BY <1>7, <1>10 DEF vars
  <1>11. ASSUME NEW o \in Ops, Ages(o) PROVE M /\ A /\ O
    BY <1>7, <1>11 DEF Ages, rows
  <1> HIDE DEF M, A, O
  <1>12. M /\ A /\ O
    BY <1>1, <1>2, <1>3, <1>4, <1>5, <1>6, <1>8, <1>9, <1>10, <1>11 DEF Next, Finish
  <1> QED  BY <1>12 DEF M, A, O

(* When requests do not overlap, a mission, an approval and an operation    *)
(* in a terminal status keep it: no handler leaves a row of the status      *)
(* tables that is empty.                                                    *)
THEOREM TerminalStatesStay == ASSUME Serial PROVE Spec => TerminalStatesKept
  <1> DEFINE Kept == /\ \A m \in Missions : mission[m].status \in Terminal(MISSION_TRANSITIONS)
                          => mission'[m].status = mission[m].status
                     /\ \A a \in Approvals : approval[a].status \in Terminal(APPROVAL_TRANSITIONS)
                          => approval'[a].status = approval[a].status
                     /\ \A o \in Ops : op[o].status \in Terminal(OPERATION_TRANSITIONS)
                          => op'[o].status = op[o].status
  <1>1. Terminal(MISSION_TRANSITIONS) \cap {"EXECUTING", "READY", "LEAD_REVIEW",
            "APPROVAL_REQUIRED", "BLOCKED", "APPROVED", "UNKNOWN"} = {}
    BY DEF Terminal, MISSION_TRANSITIONS, MissionStatus
  <1>2. Terminal(APPROVAL_TRANSITIONS) \cap {"ABSENT", "PENDING"} = {}
    BY DEF Terminal, APPROVAL_TRANSITIONS, ApprovalStatus
  <1>3. Terminal(OPERATION_TRANSITIONS) \cap {"ABSENT", "APPROVED", "UNKNOWN"} = {}
    BY DEF Terminal, OPERATION_TRANSITIONS, ExternalOperationStatus
  <1>4. TypeInv /\ SerialInv /\ [Next]_vars => [Kept]_vars
    <2> SUFFICES ASSUME TypeInv, SerialInv, [Next]_vars PROVE Kept  OBVIOUS
    <2>1. \A m \in Missions : mission[m].status \in Terminal(MISSION_TRANSITIONS)
            => mission'[m] = mission[m]
      BY <1>1, SerialWrites
    <2>2. \A a \in Approvals : approval[a].status \in Terminal(APPROVAL_TRANSITIONS)
            => approval'[a] = approval[a]
      BY <1>2, SerialWrites
    <2>3. \A o \in Ops : op[o].status \in Terminal(OPERATION_TRANSITIONS) => op'[o] = op[o]
      BY <1>3, SerialWrites
    <2> QED  BY <2>1, <2>2, <2>3
  <1> QED  BY <1>4, TypeInvariant, SerialInvariant, PTL DEF Spec, TerminalStatesKept

(* Nothing is lost when requests neither overlap nor crash.                 *)
NothingLost == \A o \in Ops : lost[o] = 0

(* A provider call is never followed by an illegal transition then.         *)
LEMMA NothingLostNext ==
    ASSUME Serial, MaxCrashes = 0, TypeInv, SerialInv, NothingLost, [Next]_vars
    PROVE  NothingLost'
  <1>1. ASSUME NEW s \in Sessions, NEW out \in AllOutcomes, ExecuteRaise(s, out) PROVE FALSE
    <2>1. txn[s].handler = "execute" /\ Executed(txn[s].row, out) = Raised
      BY <1>1 DEF ExecuteRaise
    <2>2. txn[s].row \in MissionRow /\ txn[s].row.status = "APPROVED"
      BY <2>1, ExecutorFinds, RowFields
    <2> QED  BY <2>1, <2>2, ExecutedStep
  <1>2. ASSUME NEW s \in Sessions, NEW out, ExecuteCrash(s, out) PROVE FALSE
    BY <1>2 DEF ExecuteCrash, TypeInv, TypeOK
  <1>3. ASSUME lost' = lost PROVE NothingLost'
    BY <1>3 DEF NothingLost
  <1>4. ASSUME NEW s \in Sessions, NEW out, ExecuteCommit(s, out) PROVE lost' = lost
    BY <1>4 DEF ExecuteCommit
  <1>5. ASSUME NEW s \in Sessions, Begin(s) PROVE lost' = lost
    BY <1>5, Zenon DEF Begin, BeginLeadReview, BeginDecide, BeginExpire, BeginPrepare,
                       BeginExecute, BeginVerify, Load, history
  <1>6. ASSUME NEW s \in Sessions,
               LeadReview(s) \/ Decide(s) \/ Expire(s) \/ Prepare(s) \/ Verify(s) \/ Abandon(s)
        PROVE  lost' = lost
    BY <1>6 DEF LeadReview, Decide, Expire, Prepare, Verify, Abandon, history
  <1>7. CASE UNCHANGED vars
    BY <1>3, <1>7 DEF vars
  <1>8. ASSUME NEW o \in Ops, Ages(o) PROVE lost' = lost
    BY <1>8 DEF Ages
  <1> QED  BY <1>1, <1>2, <1>3, <1>4, <1>5, <1>6, <1>7, <1>8 DEF Next, Finish, AllOutcomes

(* One owner approval lets at most one message out, whatever the number of  *)
(* operations that are prepared under it, when requests neither overlap     *)
(* nor crash between the provider call and the commit.                      *)
THEOREM OneSendForOneApproval ==
    ASSUME Serial, MaxCrashes = 0
    PROVE  Spec => []OneSendPerApproval
  <1>1. Init => NothingLost
    BY DEF Init, NothingLost
  <1>2. TypeInv /\ SerialInv /\ NothingLost /\ [Next]_vars => NothingLost'
    BY NothingLostNext
  <1>3. TypeInv /\ SendInv /\ SerialInv /\ NothingLost => OneSendPerApproval
    <2> SUFFICES ASSUME TypeInv, SendInv, SerialInv, NothingLost, NEW a \in Approvals,
                        NEW o \in Ops, NEW q \in Ops,
                        op[o].approval = a, op[q].approval = a, sent[o] > 0, sent[q] > 0
                 PROVE  o = q /\ sent[o] = 1
      BY DEF OneSendPerApproval
    <2>1. ASSUME NEW r \in Ops, sent[r] > 0, op[r].approval = a
          PROVE  sent[r] = 1 /\ op[r].status \in Results /\ op[r].mission = approval[a].mission
      <3>1. sent[r] <= 1 /\ HasAttempt(r)
        BY <2>1 DEF SendInv, SendsAccounted, NothingLost, TypeInv, TypeOK
      <3>2. op[r].status \in Results
        BY <3>1 DEF SendInv, OpInv
      <3>3. op[r] # AbsentOp
        BY <3>2, RowFields DEF Results
      <3> QED  BY <2>1, <3>1, <3>2, <3>3 DEF SerialInv, RowsInv, OpsBound, TypeInv, TypeOK
    <2>2. o = q
      BY <2>1 DEF SerialInv, RowsInv, OneResult
    <2> QED  BY <2>1, <2>2
  <1> QED  BY <1>1, <1>2, <1>3, TypeInvariant, SendInvariant, SerialInvariant, PTL DEF Spec
==============================================================================
