--------------------------- MODULE WorkItemsProofs ---------------------------
(***************************************************************************)
(* Proofs about WorkItems, for every plan and any number of sessions,      *)
(* schedulers and runs.                                                    *)
(***************************************************************************)
EXTENDS WorkItems, FiniteSetTheorems, TLAPS

Procs == Sessions \cup Schedulers

(* What a request in flight is known to hold: the identities it loaded are  *)
(* rows, and rows are never deleted.                                        *)
Holds(t) ==
    /\ t.handler \in {"start", "accept", "revise"} => t.item \in Items
    /\ t.handler \in {"picked", "execute", "submit", "timeout"} =>
         t.run \in Runs /\ run[t.run] # NoRun
    /\ t.handler = "timeout" => \A r \in t.runs : run[r] # NoRun

TypeInv == TypeOK /\ \A s \in Procs : Holds(txn[s])

(* RAISED is no status, ABSENT neither.                                     *)
LEMMA NotStatus ==
    /\ "RAISED" \notin WorkItemStatus
    /\ NoRun \notin RunRow
    /\ {"RUNNING", "CLOSED"} \subseteq AgentRunStatus
    /\ {"READY", "WAITING_DEPENDENCY", "ASSIGNED", "RUNNING", "SUBMITTED", "ACCEPTED",
        "REVISION_REQUIRED", "BLOCKED", "FAILED"} \subseteq WorkItemStatus
  BY DEF WorkItemStatus, AgentRunStatus, NoRun, RunRow

(* A session without a request is a session.                                *)
LEMMA IdleType == Idle \in Txn /\ Holds(Idle)
  BY DEF Idle, Txn, Holds

(* A run that was created has a work item of the mission.                   *)
LEMMA RunItem ==
    ASSUME TypeOK, NEW r \in Runs, run[r] # NoRun
    PROVE  run[r] \in RunRow /\ run[r].item \in Items
  BY DEF TypeOK, RunRow

(* A running run was created.                                               *)
LEMMA RunningIsRow ==
    ASSUME NEW r \in Runs, Running(r)
    PROVE  run[r] # NoRun
  BY DEF Running, NoRun

(* A failed model call leaves the item's status a status.                   *)
LEMMA BlockedType ==
    ASSUME TypeOK, NEW i \in Items, NEW seen
    PROVE  Blocked(seen, i) \in WorkItemStatus /\ Blocked(seen, i) \in {"BLOCKED", item[i]}
                            /\ (seen = "RUNNING" => Blocked(seen, i) = "BLOCKED")
                            /\ (seen # "RUNNING" => Blocked(seen, i) = item[i])
  <1>1. CASE seen = "RUNNING"
    <2>1. "BLOCKED" \in WORK_ITEM_TRANSITIONS["RUNNING"]
      BY NotStatus DEF WORK_ITEM_TRANSITIONS
    <2> QED  BY <1>1, <2>1, NotStatus DEF Blocked, Transition
  <1>2. CASE seen # "RUNNING"
    BY <1>2 DEF Blocked, TypeOK
  <1> QED  BY <1>1, <1>2

------------------------------------------------------------------------------
(* Type correctness.                                                        *)

(* The plan as approved satisfies the type invariant.                       *)
LEMMA TypeInit == Init => TypeInv
  <1> SUFFICES ASSUME Init PROVE TypeInv  OBVIOUS
  <1>1. TypeOK
    BY NotStatus, IdleType DEF Init, TypeOK
  <1>2. \A s \in Procs : txn[s] = Idle
    BY DEF Init, Procs
  <1> QED  BY <1>1, <1>2, IdleType DEF TypeInv

(* No created run disappears: what the others hold stays held.              *)
LEMMA HoldsFrame ==
    ASSUME NEW t \in Txn, Holds(t),
           \A r \in Runs : run[r] # NoRun => run'[r] # NoRun
    PROVE  /\ t.handler \in {"start", "accept", "revise"} => t.item \in Items
           /\ t.handler \in {"picked", "execute", "submit", "timeout"} =>
                t.run \in Runs /\ run'[t.run] # NoRun
           /\ t.handler = "timeout" => \A r \in t.runs : run'[r] # NoRun
  BY DEF Holds, Txn

(* One request moves on to t, the rows keep their types.                    *)
LEMMA TypeStep ==
    ASSUME TypeInv, NEW s \in Procs, NEW t \in Txn,
           txn' = [txn EXCEPT ![s] = t],
           /\ t.handler \in {"start", "accept", "revise"} => t.item \in Items
           /\ t.handler \in {"picked", "execute", "submit", "timeout"} =>
                t.run \in Runs /\ run'[t.run] # NoRun
           /\ t.handler = "timeout" => \A r \in t.runs : run'[r] # NoRun,
           \A r \in Runs : run[r] # NoRun => run'[r] # NoRun,
           item' \in [Items -> WorkItemStatus],
           run' \in [Runs -> RunRow \cup {NoRun}],
           grants' \subseteq Runs, metered' \subseteq Runs, overdue' \subseteq Runs,
           evidence' \in [Items -> SUBSET Claims],
           reviewed' \in BOOLEAN
    PROVE  TypeInv'
  <1>1. TypeOK'
    BY DEF TypeInv, TypeOK, Procs
  <1>2. ASSUME NEW u \in Procs PROVE Holds(txn[u])'
    <2>1. CASE u = s
      <3>1. txn'[u] = t
        BY <2>1 DEF TypeInv, TypeOK, Procs
      <3> QED  BY <3>1 DEF Holds
    <2>2. CASE u # s
      <3>1. txn'[u] = txn[u] /\ txn[u] \in Txn /\ Holds(txn[u])
        BY <2>2 DEF TypeInv, TypeOK, Procs
      <3> QED  BY <3>1, HoldsFrame DEF Holds
    <2> QED  BY <2>1, <2>2
  <1> QED  BY <1>1, <1>2 DEF TypeInv

(* The end of a write phase that leaves the runs alone or closes some.      *)
LEMMA TypeEnd ==
    ASSUME TypeInv, NEW s \in Procs, End(s),
           \A r \in Runs : run[r] # NoRun => run'[r] # NoRun,
           item' \in [Items -> WorkItemStatus],
           run' \in [Runs -> RunRow \cup {NoRun}],
           grants' \subseteq Runs, metered' \subseteq Runs, overdue' \subseteq Runs,
           evidence' \in [Items -> SUBSET Claims],
           reviewed' \in BOOLEAN
    PROVE  TypeInv'
  <1>1. Idle \in Txn /\ Idle.handler = "idle"
    BY IdleType DEF Idle
  <1> QED  BY <1>1, TypeStep DEF End

(* A step that only changes what a request holds.                           *)
LEMMA TypeLoad ==
    ASSUME TypeInv, NEW s \in Procs, NEW t \in Txn, Holds(t),
           txn' = [txn EXCEPT ![s] = t], UNCHANGED <<rows, overdue>>
    PROVE  TypeInv'
  <1>1. UNCHANGED <<item, run, grants, evidence, metered, reviewed, overdue>>
    BY DEF rows
  <1> QED  BY <1>1, TypeStep DEF Holds, TypeInv, TypeOK

(* The table lets a RUNNING run be closed in each of the three ways.        *)
LEMMA ClosedStatus ==
    ASSUME NEW via \in {"OUTPUT_SUBMITTED", "FAILED", "TIMED_OUT"}
    PROVE  Closed(via) = "CLOSED"
  BY DEF Closed, Transition, AGENT_RUN_TRANSITIONS, AgentRunStatus

(* Closing a run.                                                           *)
LEMMA CloseType ==
    ASSUME TypeInv, NEW r \in Runs, run[r] # NoRun,
           NEW via \in {"OUTPUT_SUBMITTED", "FAILED"}, CloseRun(r, via)
    PROVE  /\ run' \in [Runs -> RunRow \cup {NoRun}]
           /\ overdue' \subseteq Runs
           /\ \A q \in Runs : run[q] # NoRun => run'[q] # NoRun
           /\ \A q \in Runs : q # r => run'[q] = run[q]
           /\ run'[r].item = run[r].item /\ run'[r].status = "CLOSED"
  <1>1. run[r] \in RunRow
    BY RunItem DEF TypeInv
  <1>2. [run[r] EXCEPT !.status = "CLOSED", !.via = via] \in RunRow
    BY <1>1, NotStatus DEF RunRow
  <1>3. run' = [run EXCEPT ![r] = [run[r] EXCEPT !.status = "CLOSED", !.via = via]]
    BY ClosedStatus DEF CloseRun, TypeInv, TypeOK
  <1>4. run'[r] = [run[r] EXCEPT !.status = "CLOSED", !.via = via]
    BY <1>3 DEF TypeInv, TypeOK
  <1>5. run'[r].item = run[r].item /\ run'[r].status = "CLOSED"
    BY <1>1, <1>4 DEF RunRow
  <1> QED  BY <1>2, <1>3, <1>4, <1>5, NotStatus DEF CloseRun, TypeInv, TypeOK

(* The steps of a request before its write phase, and of a request that     *)
(* dies: no row changes.                                                    *)
Loading(s) ==
    \/ Begin(s) \/ BeginExecute(s) \/ Claim(s) \/ Abandon(s)
    \/ BeginTimeout(s) \/ \E r \in Runs : TimeoutRow(s, r)

(* What such a step leaves the request with: rows read now, or what it had  *)
(* and one more lock.                                                       *)
FreshlyRead(t) ==
    /\ t.handler = "accept" => "verified" \in evidence[t.item]
    /\ t.handler \in {"execute", "timeout"} => t.seen = item[run[t.run].item]

SameButLocks(t, u) ==
    t.handler = u.handler /\ t.item = u.item /\ t.run = u.run /\ t.runs = u.runs /\ t.seen = u.seen

(* Every such step replaces one request and touches no row.                 *)
LEMMA LoadingStep ==
    ASSUME TypeInv, NEW s \in Procs, Loading(s)
    PROVE  /\ UNCHANGED <<rows, overdue>>
           /\ \E t \in Txn : /\ txn' = [txn EXCEPT ![s] = t]
                             /\ Holds(t)
                             /\ FreshlyRead(t) \/ SameButLocks(t, txn[s])
  <1> USE DEF Procs
  <1>0. txn[s] \in Txn /\ Holds(txn[s]) /\ Idle \in Txn /\ TypeOK
    BY IdleType DEF TypeInv, TypeOK
  <1>1. ASSUME NEW i \in Items, BeginStart(s, i) PROVE UNCHANGED <<rows, overdue>> /\
           \E t \in Txn : txn' = [txn EXCEPT ![s] = t] /\ Holds(t) /\ FreshlyRead(t)
    <2> DEFINE t == [Idle EXCEPT !.handler = "start", !.item = i]
    <2>1. t \in Txn /\ Holds(t) /\ FreshlyRead(t)
      BY DEF Idle, Txn, Holds, FreshlyRead
    <2> QED  BY <1>1, <2>1 DEF BeginStart, Load
  <1>2. ASSUME NEW i \in Items, NEW d \in {"accept", "revise"}, BeginReview(s, i, d)
        PROVE UNCHANGED <<rows, overdue>> /\
           \E t \in Txn : txn' = [txn EXCEPT ![s] = t] /\ Holds(t) /\ FreshlyRead(t)
    <2> DEFINE t == [Idle EXCEPT !.handler = d, !.item = i]
    <2>1. t \in Txn /\ Holds(t)
      BY DEF Idle, Txn, Holds
    <2>2. FreshlyRead(t)
      BY <1>2 DEF Idle, BeginReview, Passed, FreshlyRead
    <2> QED  BY <1>2, <2>1, <2>2 DEF BeginReview, Load
  <1>3. ASSUME NEW r \in Runs, NEW h \in {"picked", "submit"}, Running(r),
               Load(s, [Idle EXCEPT !.handler = h, !.run = r])
        PROVE UNCHANGED <<rows, overdue>> /\
           \E t \in Txn : txn' = [txn EXCEPT ![s] = t] /\ Holds(t) /\ FreshlyRead(t)
    <2> DEFINE t == [Idle EXCEPT !.handler = h, !.run = r]
    <2>1. t \in Txn /\ Holds(t) /\ FreshlyRead(t)
      BY <1>3, RunningIsRow DEF Idle, Txn, Holds, FreshlyRead
    <2> QED  BY <1>3, <2>1 DEF Load
  <1>4. ASSUME BeginLeadReview(s) PROVE UNCHANGED <<rows, overdue>> /\
           \E t \in Txn : txn' = [txn EXCEPT ![s] = t] /\ Holds(t) /\ FreshlyRead(t)
    <2> DEFINE t == [Idle EXCEPT !.handler = "lead_review"]
    <2>1. t \in Txn /\ Holds(t) /\ FreshlyRead(t)
      BY DEF Idle, Txn, Holds, FreshlyRead
    <2> QED  BY <1>4, <2>1 DEF BeginLeadReview, Load
  <1>5. ASSUME BeginExecute(s) PROVE UNCHANGED <<rows, overdue>> /\
           \E t \in Txn : txn' = [txn EXCEPT ![s] = t] /\ Holds(t) /\ FreshlyRead(t)
    <2> DEFINE t == [txn[s] EXCEPT !.handler = "execute", !.seen = item[run[txn[s].run].item]]
    <2>1. txn[s].run \in Runs /\ run[txn[s].run] # NoRun
      BY <1>0, <1>5 DEF BeginExecute, Holds
    <2>2. item[run[txn[s].run].item] \in WorkItemStatus
      BY <1>0, <2>1, RunItem DEF TypeOK
    <2>3. t \in Txn /\ t.handler = "execute" /\ t.run = txn[s].run
                    /\ t.seen = item[run[txn[s].run].item]
      BY <1>0, <2>2 DEF Txn
    <2>4. Holds(t) /\ FreshlyRead(t)
      BY <2>1, <2>3 DEF Holds, FreshlyRead
    <2>5. txn' = [txn EXCEPT ![s] = t]
      BY <1>0, <1>5 DEF BeginExecute, TypeOK
    <2> QED  BY <1>5, <2>3, <2>4, <2>5 DEF BeginExecute
  <1>6. ASSUME NEW c \in SUBSET Runs, txn' = [txn EXCEPT ![s].claimed = c]
        PROVE  \E t \in Txn : txn' = [txn EXCEPT ![s] = t] /\ Holds(t) /\ SameButLocks(t, txn[s])
    <2> DEFINE t == [txn[s] EXCEPT !.claimed = c]
    <2>1. t \in Txn /\ SameButLocks(t, txn[s])
      BY <1>0 DEF Txn, SameButLocks
    <2>2. Holds(t)
      BY <1>0, <2>1 DEF Holds, SameButLocks
    <2>3. txn' = [txn EXCEPT ![s] = t]
      BY <1>0, <1>6 DEF TypeOK
    <2> QED  BY <2>1, <2>2, <2>3
  <1>7. ASSUME Claim(s) PROVE UNCHANGED <<rows, overdue>> /\
           \E t \in Txn : txn' = [txn EXCEPT ![s] = t] /\ Holds(t) /\ SameButLocks(t, txn[s])
    <2>1. {txn[s].run} \in SUBSET Runs
      BY <1>0, <1>7 DEF Claim, Holds
    <2> QED  BY <1>6, <1>7, <2>1 DEF Claim
  <1>8. ASSUME Abandon(s) PROVE UNCHANGED <<rows, overdue>> /\
           \E t \in Txn : txn' = [txn EXCEPT ![s] = t] /\ Holds(t) /\ FreshlyRead(t)
    <2>1. FreshlyRead(Idle)
      BY DEF FreshlyRead, Idle
    <2> QED  BY <1>8, <2>1, IdleType DEF Abandon, End
  <1>9. ASSUME BeginTimeout(s) PROVE UNCHANGED <<rows, overdue>> /\
           \E t \in Txn : txn' = [txn EXCEPT ![s] = t] /\ Holds(t) /\ FreshlyRead(t)
    <2>1. PICK first \in Expired :
            Load(s, [Idle EXCEPT !.handler = "timeout", !.run = first, !.runs = Expired,
                                 !.seen = item[run[first].item]])
      BY <1>9 DEF BeginTimeout
    <2> DEFINE t == [Idle EXCEPT !.handler = "timeout", !.run = first, !.runs = Expired,
                                 !.seen = item[run[first].item]]
    <2>2. Expired \subseteq Runs /\ \A r \in Expired : run[r] # NoRun
      BY <1>0, RunningIsRow DEF Expired, TypeOK
    <2>3. item[run[first].item] \in WorkItemStatus
      BY <1>0, <2>2, RunItem DEF TypeOK
    <2>4. t \in Txn /\ t.handler = "timeout" /\ t.run = first /\ t.runs = Expired
                    /\ t.seen = item[run[first].item]
      BY <2>2, <2>3 DEF Idle, Txn
    <2>5. Holds(t) /\ FreshlyRead(t)
      BY <2>2, <2>4 DEF Holds, FreshlyRead
    <2> QED  BY <2>1, <2>4, <2>5 DEF Load
  <1>10. ASSUME NEW r \in Runs, TimeoutRow(s, r) PROVE UNCHANGED <<rows, overdue>> /\
           \E t \in Txn : txn' = [txn EXCEPT ![s] = t] /\ Holds(t) /\ SameButLocks(t, txn[s])
    <2>1. txn[s].claimed \cup {r} \in SUBSET Runs
      BY <1>0 DEF Txn
    <2>2. txn' = [txn EXCEPT ![s].claimed = txn[s].claimed \cup {r}]
      BY <1>10 DEF TimeoutRow
    <2> QED  BY <1>6, <1>10, <2>1, <2>2 DEF TimeoutRow
  <1> QED
    <2>1. CASE Begin(s)
      BY <2>1, <1>1, <1>2, <1>3, <1>4 DEF Begin, Pick, BeginSubmit
    <2>2. CASE ~Begin(s)
      BY <2>2, <1>5, <1>7, <1>8, <1>9, <1>10 DEF Loading
    <2> QED  BY <2>1, <2>2

(* submit_agent_run, from either caller: the run is closed, its item is     *)
(* SUBMITTED, every other row is left alone.                                *)
LEMMA SubmitEffect ==
    ASSUME TypeInv, NEW s \in Procs, txn[s].handler \in {"execute", "submit"},
           NEW seen, NEW claims \in SUBSET Claims, Submit(s, seen, claims)
    PROVE  LET r == txn[s].run
               i == run[r].item
           IN  /\ r \in Runs /\ run[r] # NoRun /\ i \in Items
               /\ run' \in [Runs -> RunRow \cup {NoRun}]
               /\ \A q \in Runs : run[q] # NoRun => run'[q] # NoRun
               /\ \A q \in Runs : q # r => run'[q] = run[q]
               /\ run'[r].item = i
               /\ item' = [item EXCEPT ![i] = "SUBMITTED"]
               /\ item' \in [Items -> WorkItemStatus]
               /\ evidence' = [evidence EXCEPT ![i] = @ \cup claims]
               /\ evidence' \in [Items -> SUBSET Claims]
               /\ grants' \subseteq Runs /\ overdue' \subseteq Runs /\ reviewed' \in BOOLEAN
               /\ End(s)
  <1> DEFINE r == txn[s].run
             i == run[r].item
  <1>1. r \in Runs /\ run[r] # NoRun
    BY DEF TypeInv, Holds
  <1>2. i \in Items
    BY <1>1, RunItem DEF TypeInv
  <1>3. CloseRun(r, "OUTPUT_SUBMITTED") /\ End(s) /\ reviewed' = reviewed
        /\ grants' = grants \ {r}
        /\ item' = [item EXCEPT ![i] = "SUBMITTED"]
        /\ evidence' = [evidence EXCEPT ![i] = @ \cup claims]
    BY DEF Submit, Commit, RevokeRunGrants
  <1>4. item' \in [Items -> WorkItemStatus] /\ evidence' \in [Items -> SUBSET Claims]
    BY <1>2, <1>3, NotStatus DEF TypeInv, TypeOK
  <1>5. grants' \subseteq Runs /\ reviewed' \in BOOLEAN
    BY <1>3 DEF TypeInv, TypeOK
  <1> QED  BY <1>1, <1>2, <1>3, <1>4, <1>5, CloseType

(* A failed model call: the run is closed, its item gets the status Blocked *)
(* computes.                                                                *)
LEMMA FailEffect ==
    ASSUME TypeInv, NEW s \in Procs, ExecuteFails(s)
    PROVE  LET r == txn[s].run
               i == run[r].item
           IN  /\ txn[s].handler = "execute"
               /\ r \in Runs /\ run[r] # NoRun /\ i \in Items
               /\ run' \in [Runs -> RunRow \cup {NoRun}]
               /\ \A q \in Runs : run[q] # NoRun => run'[q] # NoRun
               /\ \A q \in Runs : q # r => run'[q] = run[q]
               /\ run'[r].item = i
               /\ item' = [item EXCEPT ![i] = Blocked(txn[s].seen, i)]
               /\ item' \in [Items -> WorkItemStatus]
               /\ grants' \subseteq Runs /\ overdue' \subseteq Runs
               /\ UNCHANGED <<evidence, metered, reviewed>>
               /\ End(s)
  <1> DEFINE r == txn[s].run
             i == run[r].item
  <1>1. r \in Runs /\ run[r] # NoRun /\ txn[s].handler = "execute"
    BY DEF TypeInv, Holds, ExecuteFails, ModelRaises
  <1>2. i \in Items
    BY <1>1, RunItem DEF TypeInv
  <1>3. CloseRun(r, "FAILED") /\ End(s) /\ UNCHANGED <<evidence, metered, reviewed>>
        /\ grants' = grants \ {r}
        /\ item' = [item EXCEPT ![i] = Blocked(txn[s].seen, i)]
    BY DEF ExecuteFails, Commit, RevokeRunGrants
  <1>4. Blocked(txn[s].seen, i) \in WorkItemStatus
    BY <1>2, BlockedType DEF TypeInv
  <1>5. item' \in [Items -> WorkItemStatus] /\ grants' \subseteq Runs
    BY <1>2, <1>3, <1>4 DEF TypeInv, TypeOK
  <1> QED  BY <1>1, <1>2, <1>3, <1>5, CloseType

(* start_work_item: one run that did not exist is created for the item.     *)
LEMMA StartEffect ==
    ASSUME TypeInv, NEW s \in Procs, Start(s)
    PROVE  LET i == txn[s].item
           IN  \E r \in Runs :
                 /\ i \in Items /\ run[r] = NoRun
                 /\ run' = [run EXCEPT ![r] =
                      [status |-> "RUNNING", item |-> i, via |-> "none"]]
                 /\ run' \in [Runs -> RunRow \cup {NoRun}]
                 /\ \A q \in Runs : run[q] # NoRun => run'[q] = run[q]
                 /\ run'[r].status = "RUNNING" /\ run'[r].item = i
                 /\ item' = [item EXCEPT ![i] = "RUNNING"]
                 /\ item' \in [Items -> WorkItemStatus]
                 /\ grants' \subseteq Runs
                 /\ UNCHANGED <<evidence, metered, overdue, reviewed>>
                 /\ End(s)
  <1> DEFINE i == txn[s].item
             row == [status |-> "RUNNING", item |-> i, via |-> "none"]
  <1>1. i \in Items
    BY DEF TypeInv, Holds, Start
  <1>2. PICK r \in Runs : run[r] = NoRun /\ run' = [run EXCEPT ![r] = row]
                          /\ grants' = grants \cup {r}
    BY DEF Start, CreateRunGrants
  <1>3. row \in RunRow /\ row.status = "RUNNING" /\ row.item = i
    BY <1>1, NotStatus DEF RunRow
  <1>4. run' \in [Runs -> RunRow \cup {NoRun}] /\ run'[r] = row
        /\ \A q \in Runs : q # r => run'[q] = run[q]
    BY <1>2, <1>3 DEF TypeInv, TypeOK
  <1>5. item' = [item EXCEPT ![i] = "RUNNING"] /\ End(s)
        /\ UNCHANGED <<evidence, metered, overdue, reviewed>>
    BY DEF Start, Commit
  <1>6. item' \in [Items -> WorkItemStatus] /\ grants' \subseteq Runs
    BY <1>1, <1>2, <1>5, NotStatus DEF TypeInv, TypeOK
  <1> QED  BY <1>1, <1>2, <1>3, <1>4, <1>5, <1>6

(* scheduler_tick: the selected runs are closed and keep their items.       *)
LEMMA TimeoutEffect ==
    ASSUME TypeInv, NEW k \in Procs, Timeout(k)
    PROVE  /\ txn[k].handler = "timeout" /\ txn[k].run \in Runs
           /\ run' \in [Runs -> RunRow \cup {NoRun}]
           /\ \A q \in Runs : run[q] # NoRun => run'[q] # NoRun /\ run'[q].item = run[q].item
           /\ \A q \in Runs \ txn[k].runs : run'[q] = run[q]
           /\ item' \in [Items -> WorkItemStatus]
           /\ overdue' \subseteq Runs
           /\ UNCHANGED <<grants, evidence, metered, reviewed>>
           /\ End(k)
  <1>1. txn[k].handler = "timeout" /\ txn[k].run \in Runs
        /\ \A r \in txn[k].runs : run[r] # NoRun
    BY DEF TypeInv, Holds, Timeout
  <1>2. ASSUME NEW q \in Runs
        PROVE  /\ run'[q] \in RunRow \cup {NoRun}
               /\ run[q] # NoRun => run'[q] # NoRun /\ run'[q].item = run[q].item
               /\ q \notin txn[k].runs => run'[q] = run[q]
    <2>1. CASE q \in txn[k].runs
      <3>1. run[q] \in RunRow
        BY <1>1, <2>1, RunItem DEF TypeInv
      <3>2. run'[q] = [run[q] EXCEPT !.status = "CLOSED", !.via = "TIMED_OUT"]
        BY <2>1, ClosedStatus DEF Timeout
      <3>3. run'[q] \in RunRow /\ run'[q].item = run[q].item
        BY <3>1, <3>2, NotStatus DEF RunRow
      <3> QED  BY <2>1, <3>3, NotStatus
    <2>2. CASE q \notin txn[k].runs
      BY <2>2 DEF Timeout, TypeInv, TypeOK
    <2> QED  BY <2>1, <2>2
  <1>3. run' \in [Runs -> RunRow \cup {NoRun}]
    <2>1. run' = [q \in Runs |-> run'[q]]
      BY DEF Timeout
    <2> QED  BY <1>2, <2>1
  <1>4. item' \in [Items -> WorkItemStatus]
    BY NotStatus DEF Timeout, TypeInv, TypeOK
  <1>5. overdue' \subseteq Runs /\ UNCHANGED <<grants, evidence, metered, reviewed>> /\ End(k)
    BY DEF Timeout, Commit, TypeInv, TypeOK
  <1> QED  BY <1>1, <1>2, <1>3, <1>4, <1>5

(* review_work_item: only item statuses change.                             *)
LEMMA ReviewEffect ==
    ASSUME TypeInv, NEW s \in Procs, Accept(s) \/ Revise(s)
    PROVE  /\ txn[s].item \in Items
           /\ item' \in [Items -> WorkItemStatus]
           /\ UNCHANGED <<run, grants, evidence, metered, overdue, reviewed>>
           /\ End(s)
  <1>1. txn[s].item \in Items
    BY DEF TypeInv, Holds, Accept, Revise
  <1>2. item' \in [Items -> WorkItemStatus]
    BY <1>1, NotStatus DEF Accept, Revise, TypeInv, TypeOK
  <1> QED  BY <1>1, <1>2 DEF Accept, Revise, Commit

(* The clock touches nothing a request holds.                               *)
LEMMA OverdueType ==
    ASSUME TypeInv, NEW r \in Runs, Overdue(r)
    PROVE  TypeInv'
  <1>1. overdue' \subseteq Runs /\ UNCHANGED <<item, run, grants, evidence, metered, reviewed, txn>>
    BY DEF Overdue, rows, TypeInv, TypeOK
  <1> QED  BY <1>1 DEF TypeInv, TypeOK, Holds

(* The steps of the system, sorted by what they write.                      *)
LEMMA NextCases ==
    ASSUME Next
    PROVE  \/ \E s \in Procs : Loading(s)
           \/ \E s \in Procs : Start(s)
           \/ \E s \in Procs, claims \in SUBSET Claims : ExecuteSucceeds(s, claims)
           \/ \E s \in Procs, claims \in SUBSET Claims : SubmitOutput(s, claims)
           \/ \E s \in Procs : ExecuteFails(s)
           \/ \E s \in Procs : Accept(s) \/ Revise(s)
           \/ \E s \in Procs : LeadReview(s)
           \/ \E s \in Procs : Timeout(s)
           \/ \E r \in Runs : Overdue(r)
  BY DEF Next, Finish, Loading, Procs, ModelAnswers

(* Every step keeps the type invariant.                                     *)
LEMMA TypeNext == TypeInv /\ [Next]_vars => TypeInv'
  <1> SUFFICES ASSUME TypeInv, [Next]_vars PROVE TypeInv'
    OBVIOUS
  <1>0. item \in [Items -> WorkItemStatus] /\ run \in [Runs -> RunRow \cup {NoRun}]
        /\ grants \subseteq Runs /\ metered \subseteq Runs /\ overdue \subseteq Runs
        /\ evidence \in [Items -> SUBSET Claims] /\ reviewed \in BOOLEAN
    BY DEF TypeInv, TypeOK
  <1>1. ASSUME NEW s \in Procs, Loading(s) PROVE TypeInv'
    BY <1>1, LoadingStep, TypeLoad
  <1>2. ASSUME NEW s \in Procs, Start(s) PROVE TypeInv'
    BY <1>0, <1>2, StartEffect, TypeEnd
  <1>3. ASSUME NEW s \in Procs, NEW claims \in SUBSET Claims, ExecuteSucceeds(s, claims) PROVE TypeInv'
    <2>1. Submit(s, txn[s].seen, claims) /\ txn[s].handler \in {"execute", "submit"}
          /\ metered' = metered \cup {txn[s].run}
      BY <1>3 DEF ExecuteSucceeds, ModelCalled
    <2> QED  BY <1>0, <2>1, SubmitEffect, TypeEnd
  <1>4. ASSUME NEW s \in Procs, NEW claims \in SUBSET Claims, SubmitOutput(s, claims) PROVE TypeInv'
    <2>1. Submit(s, item[run[txn[s].run].item], claims)
          /\ txn[s].handler \in {"execute", "submit"} /\ metered' = metered
      BY <1>4 DEF SubmitOutput
    <2> QED  BY <1>0, <2>1, SubmitEffect, TypeEnd
  <1>5. ASSUME NEW s \in Procs, ExecuteFails(s) PROVE TypeInv'
    BY <1>0, <1>5, FailEffect, TypeEnd
  <1>6. ASSUME NEW s \in Procs, Accept(s) \/ Revise(s) PROVE TypeInv'
    BY <1>0, <1>6, ReviewEffect, TypeEnd
  <1>7. ASSUME NEW s \in Procs, LeadReview(s) PROVE TypeInv'
    BY <1>0, <1>7, TypeEnd DEF LeadReview, Commit
  <1>8. ASSUME NEW s \in Procs, Timeout(s) PROVE TypeInv'
    BY <1>0, <1>8, TimeoutEffect, TypeEnd
  <1>9. ASSUME NEW r \in Runs, Overdue(r) PROVE TypeInv'
    BY <1>9, OverdueType
  <1>10. CASE UNCHANGED vars
    BY <1>10 DEF vars, TypeInv, TypeOK, Holds
  <1> QED
    BY <1>1, <1>2, <1>3, <1>4, <1>5, <1>6, <1>7, <1>8, <1>9, <1>10, NextCases

(* The type invariant holds throughout.                                     *)
LEMMA TypeInvariant == Spec => []TypeInv
  BY TypeInit, TypeNext, PTL DEF Spec

(* No handler of the work-item services ever writes a status that is none,  *)
(* whatever stale row it computed the status from.                          *)
THEOREM WorkTypeCorrect == Spec => []TypeOK
  <1>1. TypeInv => TypeOK
    BY DEF TypeInv
  <1> QED  BY TypeInvariant, <1>1, PTL

------------------------------------------------------------------------------
(* No item is left RUNNING without a RUNNING run.                           *)

(* Request t will not close run r and leave item i as it is: it has seen    *)
(* the item RUNNING, or it will read it again.                              *)
Minds(t, r, i) ==
    /\ t.handler = "execute" /\ t.run = r => t.seen = "RUNNING"
    /\ t.handler = "timeout" /\ r \in t.runs /\ run[t.run].item = i => t.seen = "RUNNING"

(* Run r keeps item i going, and every request that may close it knows.     *)
Carries(r, i) ==
    Running(r) /\ run[r].item = i /\ \A s \in Procs : Minds(txn[s], r, i)

(* The strengthening of NoOrphanItem that is inductive.                     *)
Carried == \A i \in Items : item[i] = "RUNNING" => \E r \in Runs : Carries(r, i)

(* Initially nothing is RUNNING.                                            *)
LEMMA CarriedInit == Init => Carried
  BY DEF Init, Carried

(* A run that carried an item still does when its row is left alone and a   *)
(* request ends.                                                            *)
LEMMA CarriesFrame ==
    ASSUME TypeInv, NEW s \in Procs, End(s), NEW r \in Runs, NEW i \in Items, Carries(r, i),
           run'[r] = run[r],
           \A q \in Runs : run[q] # NoRun => run'[q].item = run[q].item
    PROVE  Carries(r, i)'
  <1>1. Running(r)' /\ run'[r].item = i
    BY DEF Carries, Running
  <1>2. ASSUME NEW u \in Procs PROVE Minds(txn[u], r, i)'
    <2>1. CASE u = s
      <3>1. txn'[u] = Idle
        BY <2>1 DEF End, TypeInv, TypeOK, Procs
      <3>2. Idle.handler = "idle"
        BY DEF Idle
      <3> QED  BY <3>1, <3>2 DEF Minds
    <2>2. CASE u # s
      <3>1. txn'[u] = txn[u] /\ Holds(txn[u]) /\ Minds(txn[u], r, i)
        BY <2>2 DEF End, TypeInv, TypeOK, Procs, Carries
      <3>2. txn[u].handler = "timeout" => run'[txn[u].run].item = run[txn[u].run].item
        BY <3>1 DEF Holds
      <3> QED  BY <3>1, <3>2 DEF Minds
    <2> QED  BY <2>1, <2>2
  <1> QED  BY <1>1, <1>2 DEF Carries

(* A request that loads rows sees a RUNNING item as RUNNING.                *)
LEMMA CarriedLoading ==
    ASSUME TypeInv, Carried, NEW s \in Procs, Loading(s)
    PROVE  Carried'
  <1>1. UNCHANGED <<item, run>>
    BY LoadingStep DEF rows
  <1>2. PICK t \in Txn : /\ txn' = [txn EXCEPT ![s] = t]
                         /\ FreshlyRead(t) \/ SameButLocks(t, txn[s])
    BY LoadingStep
  <1>3. ASSUME NEW i \in Items, item[i] = "RUNNING", NEW r \in Runs, Carries(r, i)
        PROVE  Carries(r, i)'
    <2>1. Minds(t, r, i)
      BY <1>2, <1>3 DEF FreshlyRead, SameButLocks, Carries, Minds
    <2>2. ASSUME NEW u \in Procs PROVE Minds(txn[u], r, i)'
      <3>1. txn'[u] = t \/ txn'[u] = txn[u]
        BY <1>2 DEF TypeInv, TypeOK, Procs
      <3> QED  BY <1>1, <1>3, <2>1, <3>1 DEF Minds, Carries
    <2> QED  BY <1>1, <1>3, <2>2 DEF Carries, Running
  <1> QED  BY <1>1, <1>3 DEF Carried

(* start_work_item: nobody can hold the run it creates.                     *)
LEMMA CarriedStart ==
    ASSUME TypeInv, Carried, NEW s \in Procs, Start(s)
    PROVE  Carried'
  <1>1. PICK i \in Items, r \in Runs :
          /\ run[r] = NoRun
          /\ \A q \in Runs : run[q] # NoRun => run'[q] = run[q]
          /\ run'[r].status = "RUNNING" /\ run'[r].item = i
          /\ item' = [item EXCEPT ![i] = "RUNNING"]
          /\ End(s)
    BY StartEffect
  <1>2. Carries(r, i)'
    <2>1. ASSUME NEW u \in Procs PROVE Minds(txn[u], r, i)'
      <3>1. txn'[u] = Idle \/ (txn'[u] = txn[u] /\ Holds(txn[u]))
        BY <1>1 DEF End, TypeInv, TypeOK, Procs
      <3>2. Idle.handler = "idle"
        BY DEF Idle
      <3> QED  BY <1>1, <3>1, <3>2 DEF Minds, Holds
    <2> QED  BY <1>1, <2>1 DEF Carries, Running
  <1>3. ASSUME NEW j \in Items, item'[j] = "RUNNING", j # i
        PROVE  \E q \in Runs : Carries(q, j)'
    <2>1. item[j] = "RUNNING"
      BY <1>1, <1>3 DEF TypeInv, TypeOK
    <2>2. PICK q \in Runs : Carries(q, j)
      BY <2>1 DEF Carried
    <2>3. run[q] # NoRun
      BY <2>2, RunningIsRow DEF Carries
    <2> QED  BY <1>1, <2>2, <2>3, CarriesFrame
  <1> QED  BY <1>2, <1>3 DEF Carried

(* A submission closes a run of an item it makes SUBMITTED.                 *)
LEMMA CarriedSubmit ==
    ASSUME TypeInv, Carried, NEW s \in Procs, txn[s].handler \in {"execute", "submit"},
           NEW seen, NEW claims \in SUBSET Claims, Submit(s, seen, claims)
    PROVE  Carried'
  <1> DEFINE r == txn[s].run
             i == run[r].item
  <1>1. /\ i \in Items /\ End(s)
        /\ \A q \in Runs : q # r => run'[q] = run[q]
        /\ run'[r].item = i
        /\ item' = [item EXCEPT ![i] = "SUBMITTED"]
    BY SubmitEffect
  <1>2. ASSUME NEW j \in Items, item'[j] = "RUNNING"
        PROVE  \E q \in Runs : Carries(q, j)'
    <2>1. item[j] = "RUNNING" /\ j # i
      BY <1>1, <1>2 DEF TypeInv, TypeOK
    <2>2. PICK q \in Runs : Carries(q, j)
      BY <2>1 DEF Carried
    <2>3. q # r
      BY <2>1, <2>2 DEF Carries
    <2> QED  BY <1>1, <2>2, <2>3, CarriesFrame
  <1> QED  BY <1>2 DEF Carried

(* A failed model call blocks the item, or closes a run that does not carry *)
(* it.                                                                      *)
LEMMA CarriedFails ==
    ASSUME TypeInv, Carried, NEW s \in Procs, ExecuteFails(s)
    PROVE  Carried'
  <1> DEFINE r == txn[s].run
             i == run[r].item
  <1>1. /\ txn[s].handler = "execute" /\ i \in Items /\ End(s)
        /\ \A q \in Runs : q # r => run'[q] = run[q]
        /\ run'[r].item = i
        /\ item' = [item EXCEPT ![i] = Blocked(txn[s].seen, i)]
    BY FailEffect
  <1>2. ASSUME NEW j \in Items, item'[j] = "RUNNING"
        PROVE  \E q \in Runs : Carries(q, j)'
    <2>1. item[j] = "RUNNING" /\ (j = i => txn[s].seen # "RUNNING")
      BY <1>1, <1>2, BlockedType DEF TypeInv, TypeOK
    <2>2. PICK q \in Runs : Carries(q, j)
      BY <2>1 DEF Carried
    <2>3. q # r
      BY <1>1, <2>1, <2>2 DEF Carries, Minds
    <2> QED  BY <1>1, <2>2, <2>3, CarriesFrame
  <1> QED  BY <1>2 DEF Carried

(* A tick fails every item whose last run it closes.                        *)
LEMMA CarriedTimeout ==
    ASSUME TypeInv, Carried, NEW k \in Procs, Timeout(k)
    PROVE  Carried'
  <1>1. /\ txn[k].handler = "timeout" /\ End(k)
        /\ \A q \in Runs : run[q] # NoRun => run'[q].item = run[q].item
        /\ \A q \in Runs \ txn[k].runs : run'[q] = run[q]
    BY TimeoutEffect
  <1>2. ASSUME NEW j \in Items, item'[j] = "RUNNING"
        PROVE  \E q \in Runs : Carries(q, j)'
    <2>1. /\ item[j] = "RUNNING"
          /\ ~((\E q \in txn[k].runs : run[q].item = j) /\ Seen(k, j) = "RUNNING")
      BY <1>2 DEF Timeout
    <2>2. PICK q \in Runs : Carries(q, j)
      BY <2>1 DEF Carried
    <2>3. q \notin txn[k].runs
      BY <1>1, <2>1, <2>2 DEF Carries, Minds, Seen
    <2> QED  BY <1>1, <2>2, <2>3, CarriesFrame
  <1> QED  BY <1>2 DEF Carried

(* A review makes no item RUNNING.                                          *)
LEMMA CarriedReview ==
    ASSUME TypeInv, Carried, NEW s \in Procs, Accept(s) \/ Revise(s)
    PROVE  Carried'
  <1>1. run' = run /\ End(s)
    BY ReviewEffect
  <1>2. ASSUME NEW j \in Items, item'[j] = "RUNNING"
        PROVE  item[j] = "RUNNING"
    BY <1>2 DEF Accept, Revise, TypeInv, TypeOK
  <1> QED  BY <1>1, <1>2, CarriesFrame DEF Carried

(* Every step keeps it.                                                     *)
LEMMA CarriedNext == TypeInv /\ Carried /\ [Next]_vars => Carried'
  <1> SUFFICES ASSUME TypeInv, Carried, [Next]_vars PROVE Carried'
    OBVIOUS
  <1>1. ASSUME NEW s \in Procs, NEW claims \in SUBSET Claims,
               ExecuteSucceeds(s, claims) \/ SubmitOutput(s, claims)
        PROVE  Carried'
    <2>1. txn[s].handler \in {"execute", "submit"} /\ \E seen : Submit(s, seen, claims)
      BY <1>1 DEF ExecuteSucceeds, SubmitOutput, ModelCalled
    <2> QED  BY <2>1, CarriedSubmit
  <1>2. ASSUME NEW s \in Procs, LeadReview(s) PROVE Carried'
    <2>1. UNCHANGED <<item, run>> /\ End(s)
      BY <1>2 DEF LeadReview, Commit
    <2> QED  BY <2>1, CarriesFrame DEF Carried
  <1>3. ASSUME NEW r \in Runs, Overdue(r) PROVE Carried'
    BY <1>3 DEF Overdue, rows, Carried, Carries, Running, Minds
  <1>4. CASE UNCHANGED vars
    BY <1>4 DEF vars, Carried, Carries, Running, Minds
  <1> QED
    BY <1>1, <1>2, <1>3, <1>4, NextCases, CarriedLoading, CarriedStart, CarriedFails,
       CarriedTimeout, CarriedReview

(* No item is ever left RUNNING with all its runs closed, for any plan and  *)
(* any number of workers, leads and schedulers: start_work_item,            *)
(* execute_agent_run, submit_agent_run and scheduler_tick never strand one. *)
THEOREM NoOrphanItemAlways == Spec => []NoOrphanItem
  <1>1. Carried => NoOrphanItem
    BY DEF Carried, Carries, NoOrphanItem
  <1>2. Spec => []Carried
    BY TypeInvariant, CarriedInit, CarriedNext, PTL DEF Spec
  <1> QED  BY <1>1, <1>2, PTL

------------------------------------------------------------------------------
(* Accepted work is verified, and no dependent waits in vain.               *)

(* An accept request in flight has passed the quality gate, and evidence is *)
(* only ever added.                                                         *)
GatePassed ==
    /\ \A i \in Items : item[i] = "ACCEPTED" => "verified" \in evidence[i]
    /\ \A s \in Procs : txn[s].handler = "accept" => "verified" \in evidence[txn[s].item]

(* Nothing is accepted or under review when the plan is approved.           *)
LEMMA GateInit == Init => GatePassed
  BY IdleType DEF Init, GatePassed, Procs, Idle

(* A request ends; no item becomes ACCEPTED and no evidence is withdrawn.   *)
LEMMA GateFrame ==
    ASSUME TypeInv, GatePassed, NEW s \in Procs, End(s),
           \A i \in Items : evidence[i] \subseteq evidence'[i],
           \A i \in Items : item'[i] = "ACCEPTED" => item[i] = "ACCEPTED"
    PROVE  GatePassed'
  <1>1. ASSUME NEW u \in Procs, txn'[u].handler = "accept"
        PROVE  "verified" \in evidence'[txn'[u].item]
    <2>1. txn'[u] = txn[u] \/ txn'[u] = Idle
      BY DEF End, TypeInv, TypeOK, Procs
    <2>2. txn'[u] = txn[u] /\ txn[u].item \in Items
      BY <1>1, <2>1 DEF Idle, TypeInv, Holds
    <2> QED  BY <1>1, <2>2 DEF GatePassed
  <1> QED  BY <1>1 DEF GatePassed

(* The step that accepts: the gate was passed when the request loaded.      *)
LEMMA GateAccept ==
    ASSUME TypeInv, GatePassed, NEW s \in Procs, Accept(s)
    PROVE  GatePassed'
  <1>1. txn[s].item \in Items /\ evidence' = evidence /\ End(s)
    BY ReviewEffect
  <1>2. "verified" \in evidence[txn[s].item]
    BY DEF Accept, GatePassed
  <1>3. ASSUME NEW i \in Items, item'[i] = "ACCEPTED" PROVE "verified" \in evidence[i]
    BY <1>2, <1>3 DEF Accept, GatePassed
  <1>4. ASSUME NEW u \in Procs, txn'[u].handler = "accept"
        PROVE  "verified" \in evidence[txn'[u].item]
    <2>1. txn'[u] = txn[u] \/ txn'[u] = Idle
      BY <1>1 DEF End, TypeInv, TypeOK, Procs
    <2>2. txn'[u] = txn[u]
      BY <1>4, <2>1 DEF Idle
    <2> QED  BY <1>4, <2>2 DEF GatePassed
  <1> QED  BY <1>1, <1>3, <1>4 DEF GatePassed

(* Every step keeps it.                                                     *)
LEMMA GateNext == TypeInv /\ GatePassed /\ [Next]_vars => GatePassed'
  <1> SUFFICES ASSUME TypeInv, GatePassed, [Next]_vars PROVE GatePassed'
    OBVIOUS
  <1>1. ASSUME NEW s \in Procs, Loading(s) PROVE GatePassed'
    <2>1. UNCHANGED <<item, evidence>>
      BY <1>1, LoadingStep DEF rows
    <2>2. PICK t \in Txn : /\ txn' = [txn EXCEPT ![s] = t]
                           /\ FreshlyRead(t) \/ SameButLocks(t, txn[s])
      BY <1>1, LoadingStep
    <2>3. t.handler = "accept" => "verified" \in evidence[t.item]
      BY <2>2 DEF FreshlyRead, SameButLocks, GatePassed
    <2>4. \A u \in Procs : txn'[u] = t \/ txn'[u] = txn[u]
      BY <2>2 DEF TypeInv, TypeOK, Procs
    <2> QED  BY <2>1, <2>3, <2>4 DEF GatePassed
  <1>2. ASSUME NEW s \in Procs, Start(s) PROVE GatePassed'
    <2>1. PICK i \in Items : item' = [item EXCEPT ![i] = "RUNNING"] /\ evidence' = evidence /\ End(s)
      BY <1>2, StartEffect
    <2>2. \A j \in Items : item'[j] = "ACCEPTED" => item[j] = "ACCEPTED"
      BY <2>1 DEF TypeInv, TypeOK
    <2> QED  BY <2>1, <2>2, GateFrame
  <1>3. ASSUME NEW s \in Procs, NEW claims \in SUBSET Claims,
               ExecuteSucceeds(s, claims) \/ SubmitOutput(s, claims)
        PROVE  GatePassed'
    <2>1. txn[s].handler \in {"execute", "submit"} /\ \E seen : Submit(s, seen, claims)
      BY <1>3 DEF ExecuteSucceeds, SubmitOutput, ModelCalled
    <2>2. PICK i \in Items : /\ item' = [item EXCEPT ![i] = "SUBMITTED"] /\ End(s)
                             /\ evidence' = [evidence EXCEPT ![i] = @ \cup claims]
      BY <2>1, SubmitEffect
    <2>3. \A j \in Items : /\ item'[j] = "ACCEPTED" => item[j] = "ACCEPTED"
                           /\ evidence[j] \subseteq evidence'[j]
      BY <2>2 DEF TypeInv, TypeOK
    <2> QED  BY <2>2, <2>3, GateFrame
  <1>4. ASSUME NEW s \in Procs, ExecuteFails(s) PROVE GatePassed'
    <2> DEFINE i == run[txn[s].run].item
    <2>1. /\ i \in Items /\ item' = [item EXCEPT ![i] = Blocked(txn[s].seen, i)]
          /\ evidence' = evidence /\ End(s)
      BY <1>4, FailEffect
    <2>2. Blocked(txn[s].seen, i) \in {"BLOCKED", item[i]}
      BY <2>1, BlockedType DEF TypeInv
    <2>3. \A j \in Items : item'[j] = "ACCEPTED" => item[j] = "ACCEPTED"
      BY <2>1, <2>2 DEF TypeInv, TypeOK
    <2> QED  BY <2>1, <2>3, GateFrame
  <1>5. ASSUME NEW s \in Procs, Revise(s) PROVE GatePassed'
    <2>1. evidence' = evidence /\ End(s)
      BY <1>5, ReviewEffect
    <2>2. \A j \in Items : item'[j] = "ACCEPTED" => item[j] = "ACCEPTED"
      BY <1>5 DEF Revise, TypeInv, TypeOK
    <2> QED  BY <2>1, <2>2, GateFrame
  <1>6. ASSUME NEW s \in Procs, LeadReview(s) PROVE GatePassed'
    BY <1>6, GateFrame DEF LeadReview, Commit
  <1>7. ASSUME NEW s \in Procs, Timeout(s) PROVE GatePassed'
    <2>1. evidence' = evidence /\ End(s)
      BY <1>7, TimeoutEffect
    <2>2. \A j \in Items : item'[j] = "ACCEPTED" => item[j] = "ACCEPTED"
      BY <1>7 DEF Timeout
    <2> QED  BY <2>1, <2>2, GateFrame
  <1>8. ASSUME NEW r \in Runs, Overdue(r) PROVE GatePassed'
    BY <1>8 DEF Overdue, rows, GatePassed
  <1>9. CASE UNCHANGED vars
    BY <1>9 DEF vars, GatePassed
  <1> QED
    BY <1>1, <1>2, <1>3, <1>4, <1>5, <1>6, <1>7, <1>8, <1>9, NextCases, GateAccept

(* An ACCEPTED item always has verified evidence: review_work_item's gate   *)
(* is checked before the audit lock is taken and used after, and neither a  *)
(* late submission nor another review in between can make it wrong.         *)
THEOREM AcceptedIsVerifiedAlways == Spec => []AcceptedIsVerified
  <1>1. GatePassed => AcceptedIsVerified
    BY DEF GatePassed, AcceptedIsVerified
  <1>2. Spec => []GatePassed
    BY TypeInvariant, GateInit, GateNext, PTL DEF Spec
  <1> QED  BY <1>1, <1>2, PTL

(* A write phase that neither accepts an item nor makes one wait.           *)
LEMMA WaitFrame ==
    ASSUME TypeInv, NobodyWaitsForNothing,
           \A i \in Items : item'[i] = "ACCEPTED" => item[i] = "ACCEPTED",
           \A i \in Items : item'[i] = "WAITING_DEPENDENCY" => item[i] = "WAITING_DEPENDENCY"
    PROVE  NobodyWaitsForNothing'
  BY PlanAssumption DEF NobodyWaitsForNothing, TypeInv, TypeOK

(* Accepting an item tells every dependent it was the last to wait for.     *)
LEMMA WaitAccept ==
    ASSUME TypeInv, NobodyWaitsForNothing, NEW s \in Procs, Accept(s)
    PROVE  NobodyWaitsForNothing'
  <1> DEFINE i == txn[s].item
  <1>1. i \in Items
    BY ReviewEffect
  <1>2. ASSUME NEW j \in Items, item'[j] = "WAITING_DEPENDENCY"
        PROVE  \E d \in Deps[j] : item'[d] # "ACCEPTED"
    <2>1. item[j] = "WAITING_DEPENDENCY" /\ ~Unblocked(i, j)
      BY <1>2 DEF Accept
    <2>2. Deps[j] \subseteq Items
      BY PlanAssumption
    <2>3. \E d \in Deps[j] \ {i} : item[d] # "ACCEPTED"
      BY <2>1 DEF Unblocked, NobodyWaitsForNothing
    <2>4. PICK d \in Deps[j] \ {i} : item[d] # "ACCEPTED"
      BY <2>3
    <2>5. item'[d] # "ACCEPTED"
      BY <2>2, <2>4 DEF Accept
    <2> QED  BY <2>4, <2>5
  <1> QED  BY <1>2 DEF NobodyWaitsForNothing

(* Every step keeps it.                                                     *)
LEMMA WaitNext ==
    TypeInv /\ NobodyWaitsForNothing /\ [Next]_vars => NobodyWaitsForNothing'
  <1> SUFFICES ASSUME TypeInv, NobodyWaitsForNothing, [Next]_vars PROVE NobodyWaitsForNothing'
    OBVIOUS
  <1> DEFINE Same == \A i \in Items : /\ item'[i] = "ACCEPTED" => item[i] = "ACCEPTED"
                                      /\ item'[i] = "WAITING_DEPENDENCY" =>
                                           item[i] = "WAITING_DEPENDENCY"
  <1>1. ASSUME NEW s \in Procs, Loading(s) PROVE Same
    BY <1>1, LoadingStep DEF rows
  <1>2. ASSUME NEW s \in Procs, Start(s) PROVE Same
    <2>1. PICK i \in Items : item' = [item EXCEPT ![i] = "RUNNING"]
      BY <1>2, StartEffect
    <2> QED  BY <2>1 DEF TypeInv, TypeOK
  <1>3. ASSUME NEW s \in Procs, NEW claims \in SUBSET Claims,
               ExecuteSucceeds(s, claims) \/ SubmitOutput(s, claims)
        PROVE  Same
    <2>1. txn[s].handler \in {"execute", "submit"} /\ \E seen : Submit(s, seen, claims)
      BY <1>3 DEF ExecuteSucceeds, SubmitOutput, ModelCalled
    <2>2. PICK i \in Items : item' = [item EXCEPT ![i] = "SUBMITTED"]
      BY <2>1, SubmitEffect
    <2> QED  BY <2>2 DEF TypeInv, TypeOK
  <1>4. ASSUME NEW s \in Procs, ExecuteFails(s) PROVE Same
    <2> DEFINE i == run[txn[s].run].item
    <2>1. i \in Items /\ item' = [item EXCEPT ![i] = Blocked(txn[s].seen, i)]
      BY <1>4, FailEffect
    <2>2. Blocked(txn[s].seen, i) \in {"BLOCKED", item[i]}
      BY <2>1, BlockedType DEF TypeInv
    <2> QED  BY <2>1, <2>2 DEF TypeInv, TypeOK
  <1>5. ASSUME NEW s \in Procs, Revise(s) PROVE Same
    BY <1>5 DEF Revise, TypeInv, TypeOK
  <1>6. ASSUME NEW s \in Procs, LeadReview(s) PROVE Same
    BY <1>6 DEF LeadReview
  <1>7. ASSUME NEW s \in Procs, Timeout(s) PROVE Same
    BY <1>7 DEF Timeout
  <1>8. ASSUME NEW r \in Runs, Overdue(r) PROVE Same
    BY <1>8 DEF Overdue, rows
  <1>9. CASE UNCHANGED vars
    BY <1>9 DEF vars, NobodyWaitsForNothing
  <1>10. Same => NobodyWaitsForNothing'
    BY WaitFrame
  <1> HIDE DEF Same
  <1> QED
    BY <1>1, <1>2, <1>3, <1>4, <1>5, <1>6, <1>7, <1>8, <1>9, <1>10, NextCases, WaitAccept

(* No item waits for dependencies that are all accepted: two overlapping    *)
(* reviews of review_work_item never each leave the dependent to the other. *)
THEOREM NobodyWaitsForNothingAlways == Spec => []NobodyWaitsForNothing
  <1>1. Init => NobodyWaitsForNothing
    BY PlanAssumption DEF Init, NobodyWaitsForNothing
  <1> QED  BY TypeInvariant, <1>1, WaitNext, PTL DEF Spec

------------------------------------------------------------------------------
(* ClosedRunsSettled is inductive with the types: a run whose grants are    *)
(* revoked or whose usage is recorded is closed in the same unit of work,   *)
(* and start_work_item only ever uses a new run.                            *)

(* The two ways of closing a run that revoke its grants.                    *)
LEMMA SettleClose ==
    ASSUME TypeInv, ClosedRunsSettled, NEW r \in Runs, run[r] # NoRun,
           NEW via \in {"OUTPUT_SUBMITTED", "FAILED"}, CloseRun(r, via),
           grants' = grants \ {r}, metered' \subseteq metered \cup {r}
    PROVE  ClosedRunsSettled'
  <1>1. /\ \A q \in Runs : q # r => run'[q] = run[q]
        /\ run'[r].status = "CLOSED"
    BY CloseType
  <1>2. grants \subseteq Runs /\ metered \subseteq Runs
    BY DEF TypeInv, TypeOK
  <1>3. ASSUME NEW q \in grants' PROVE Running(q)' \/ run'[q].via = "TIMED_OUT"
    BY <1>1, <1>2 DEF ClosedRunsSettled, Running
  <1>4. ASSUME NEW q \in metered' PROVE run'[q].status = "CLOSED"
    BY <1>1, <1>2 DEF ClosedRunsSettled
  <1> QED  BY <1>3, <1>4 DEF ClosedRunsSettled

(* A time-out leaves the grants of the runs it closes.                      *)
LEMMA SettleTimeout ==
    ASSUME TypeInv, ClosedRunsSettled, NEW k \in Procs, Timeout(k)
    PROVE  ClosedRunsSettled'
  <1>1. grants \subseteq Runs /\ metered \subseteq Runs
        /\ grants' = grants /\ metered' = metered
    BY DEF TypeInv, TypeOK, Timeout
  <1>2. ASSUME NEW q \in Runs \ txn[k].runs PROVE run'[q] = run[q]
    BY <1>2, TimeoutEffect
  <1>3. ASSUME NEW q \in Runs, q \in txn[k].runs
        PROVE  run'[q].status = "CLOSED" /\ run'[q].via = "TIMED_OUT"
    <2>1. run[q] \in RunRow
      BY <1>3, RunItem DEF TypeInv, Holds, Timeout
    <2>2. run'[q] = [run[q] EXCEPT !.status = "CLOSED", !.via = "TIMED_OUT"]
      BY <1>3, ClosedStatus DEF Timeout
    <2> QED  BY <2>1, <2>2 DEF RunRow
  <1>4. ASSUME NEW q \in grants' PROVE Running(q)' \/ run'[q].via = "TIMED_OUT"
    BY <1>1, <1>2, <1>3 DEF ClosedRunsSettled, Running
  <1>5. ASSUME NEW q \in metered' PROVE run'[q].status = "CLOSED"
    BY <1>1, <1>2, <1>3 DEF ClosedRunsSettled
  <1> QED  BY <1>4, <1>5 DEF ClosedRunsSettled

(* A new run is neither closed nor metered.                                 *)
LEMMA SettleStart ==
    ASSUME TypeInv, ClosedRunsSettled, NEW s \in Procs, Start(s)
    PROVE  ClosedRunsSettled'
  <1>1. PICK r \in Runs :
          /\ run[r] = NoRun /\ grants' = grants \cup {r} /\ metered' = metered
          /\ run' = [run EXCEPT ![r] = [status |-> "RUNNING", item |-> txn[s].item, via |-> "none"]]
    BY DEF Start, CreateRunGrants
  <1>2. grants \subseteq Runs /\ metered \subseteq Runs /\ run[r].status = "ABSENT"
    BY <1>1 DEF TypeInv, TypeOK, NoRun
  <1>3. run'[r].status = "RUNNING" /\ \A q \in Runs : q # r => run'[q] = run[q]
    BY <1>1 DEF TypeInv, TypeOK
  <1>4. ASSUME NEW q \in grants' PROVE Running(q)' \/ run'[q].via = "TIMED_OUT"
    BY <1>1, <1>2, <1>3 DEF ClosedRunsSettled, Running
  <1>5. ASSUME NEW q \in metered' PROVE run'[q].status = "CLOSED"
    BY <1>1, <1>2, <1>3 DEF ClosedRunsSettled
  <1> QED  BY <1>4, <1>5 DEF ClosedRunsSettled

(* Every step keeps it.                                                     *)
LEMMA SettleNext ==
    TypeInv /\ ClosedRunsSettled /\ [Next]_vars => ClosedRunsSettled'
  <1> SUFFICES ASSUME TypeInv, ClosedRunsSettled, [Next]_vars PROVE ClosedRunsSettled'
    OBVIOUS
  <1>0. ASSUME UNCHANGED <<run, grants, metered>> PROVE ClosedRunsSettled'
    BY <1>0 DEF ClosedRunsSettled, Running
  <1>1. ASSUME NEW s \in Procs, Loading(s) PROVE ClosedRunsSettled'
    BY <1>0, <1>1, LoadingStep DEF rows
  <1>2. ASSUME NEW s \in Procs, NEW claims \in SUBSET Claims,
               ExecuteSucceeds(s, claims) \/ SubmitOutput(s, claims)
        PROVE  ClosedRunsSettled'
    <2>1. txn[s].handler \in {"execute", "submit"} /\ \E seen : Submit(s, seen, claims)
      BY <1>2 DEF ExecuteSucceeds, SubmitOutput, ModelCalled
    <2>2. txn[s].run \in Runs /\ run[txn[s].run] # NoRun
      BY <2>1 DEF TypeInv, Holds
    <2>3. CloseRun(txn[s].run, "OUTPUT_SUBMITTED") /\ grants' = grants \ {txn[s].run}
      BY <2>1 DEF Submit, RevokeRunGrants
    <2>4. metered' \subseteq metered \cup {txn[s].run}
      BY <1>2 DEF ExecuteSucceeds, SubmitOutput
    <2> QED  BY <2>2, <2>3, <2>4, SettleClose
  <1>3. ASSUME NEW s \in Procs, ExecuteFails(s) PROVE ClosedRunsSettled'
    <2>1. txn[s].run \in Runs /\ run[txn[s].run] # NoRun
      BY <1>3 DEF ExecuteFails, TypeInv, Holds, ModelRaises
    <2>2. /\ CloseRun(txn[s].run, "FAILED")
          /\ grants' = grants \ {txn[s].run} /\ metered' = metered
      BY <1>3 DEF ExecuteFails, RevokeRunGrants
    <2> QED  BY <2>1, <2>2, SettleClose
  <1>4. ASSUME NEW s \in Procs, Accept(s) \/ Revise(s) \/ LeadReview(s) PROVE ClosedRunsSettled'
    BY <1>0, <1>4 DEF Accept, Revise, LeadReview
  <1>5. ASSUME NEW r \in Runs, Overdue(r) PROVE ClosedRunsSettled'
    BY <1>0, <1>5 DEF Overdue, rows
  <1>6. CASE UNCHANGED vars
    BY <1>0, <1>6 DEF vars
  <1> QED
    BY <1>1, <1>2, <1>3, <1>4, <1>5, <1>6, NextCases, SettleStart, SettleTimeout

(* A time-out is the only way of closing a run that leaves its ToolGrant    *)
(* rows active, and a run with a usage record never runs again, in whatever *)
(* order executors, submitters and schedulers overwrite each other.         *)
THEOREM ClosedRunsSettledAlways == Spec => []ClosedRunsSettled
  <1>1. Init => ClosedRunsSettled
    BY DEF Init, ClosedRunsSettled
  <1> QED  BY TypeInvariant, <1>1, SettleNext, PTL DEF Spec

------------------------------------------------------------------------------
(* Requests that do not overlap.  WI_serial checks four properties with one *)
(* unit of work at a time; here they are proved for every plan and number   *)
(* of runs, from the same hypothesis.                                       *)

(* At most one unit of work is in flight, a tick of the scheduler included. *)
Serial == \A s, t \in Procs : s = t

(* What the rows are then known to satisfy between units of work.           *)
RunsInv ==
    /\ \A r \in Runs : Running(r) => item[run[r].item] = "RUNNING"
    /\ \A q, r \in Runs : Running(q) /\ Running(r) /\ run[q].item = run[r].item => q = r

RowsInv == RunsInv /\ StartedAfterDependencies /\ ReviewedItemsAccepted

(* What a request has loaded is still so when it writes.                    *)
Fresh(t) ==
    /\ t.handler = "start" => DepsAccepted(t.item) /\ Started(t.item) = "RUNNING"
    /\ t.handler \in {"picked", "execute", "submit"} => Running(t.run)
    /\ t.handler \in {"execute", "timeout"} => t.seen = item[run[t.run].item]
    /\ t.handler \in {"accept", "revise"} => item[t.item] = "SUBMITTED"
    /\ t.handler = "lead_review" => \A i \in Items : item[i] = "ACCEPTED"
    /\ t.handler = "timeout" => \A r \in t.runs : Running(r)

SerialInv == RowsInv /\ \A s \in Procs : Fresh(txn[s])

(* The items that never change again stay as they are in this step.         *)
Final == {"ACCEPTED", "FAILED", "CANCELLED"}
FinalKept == \A i \in Items : item[i] \in Final => item'[i] = item[i]

(* The statuses without a row in WORK_ITEM_TRANSITIONS.                     *)
LEMMA FinalStatuses == Terminal(WORK_ITEM_TRANSITIONS) = Final
  BY DEF Terminal, WORK_ITEM_TRANSITIONS, WorkItemStatus, Final

(* start_work_item starts no item that is RUNNING or has ended.             *)
LEMMA StartedFrom ==
    ASSUME TypeOK, NEW i \in Items, Started(i) = "RUNNING"
    PROVE  item[i] \notin Final \cup {"RUNNING", "SUBMITTED"}
  <1>1. ASSUME item[i] \in Final \cup {"RUNNING", "SUBMITTED"} PROVE FALSE
    <2>1. Assigned(i) = item[i]
      BY <1>1 DEF Assigned, Final
    <2>2. "RUNNING" \notin WORK_ITEM_TRANSITIONS[item[i]]
      BY <1>1 DEF WORK_ITEM_TRANSITIONS, WorkItemStatus, Final
    <2> QED  BY <2>1, <2>2 DEF Started, Transition
  <1> QED  BY <1>1

(* No run, no started item and no request at the beginning.                 *)
LEMMA SerialInit == Init => SerialInv
  <1> SUFFICES ASSUME Init PROVE SerialInv  OBVIOUS
  <1>1. \A r \in Runs : ~Running(r)
    BY DEF Init, Running, NoRun
  <1>2. StartedAfterDependencies
    BY DEF Init, StartedAfterDependencies
  <1>3. ReviewedItemsAccepted
    BY DEF Init, ReviewedItemsAccepted
  <1>4. \A s \in Procs : txn[s] = Idle
    BY DEF Init, Procs
  <1>5. Fresh(Idle)
    BY DEF Fresh, Idle
  <1> QED  BY <1>1, <1>2, <1>3, <1>4, <1>5 DEF SerialInv, RowsInv, RunsInv

(* The only request goes on to t and the rows stay.                         *)
LEMMA SerialMoves ==
    ASSUME Serial, TypeInv, SerialInv, NEW s \in Procs, NEW t,
           txn' = [txn EXCEPT ![s] = t], UNCHANGED <<item, run, reviewed>>, Fresh(t)
    PROVE  SerialInv'
  <1>1. \A u \in Procs : txn'[u] = t
    BY DEF Serial, TypeInv, TypeOK, Procs
  <1>2. RowsInv'
    BY DEF SerialInv, RowsInv, RunsInv, StartedAfterDependencies, ReviewedItemsAccepted, Running
  <1>3. ASSUME NEW u \in Procs PROVE Fresh(txn[u])'
    BY <1>1 DEF Fresh, DepsAccepted, Started, Assigned, Running
  <1> QED  BY <1>2, <1>3 DEF SerialInv

(* The only request ends: nobody holds anything.                            *)
LEMMA SerialEnd ==
    ASSUME Serial, TypeInv, NEW s \in Procs, End(s), RowsInv'
    PROVE  SerialInv'
  <1>1. \A u \in Procs : txn'[u] = Idle
    BY DEF End, Serial, TypeInv, TypeOK, Procs
  <1>2. ASSUME NEW u \in Procs PROVE Fresh(txn[u])'
    BY <1>1 DEF Fresh, Idle
  <1> QED  BY <1>2 DEF SerialInv

(* The steps before a write phase read the rows as they are.                *)
LEMMA SerialLoading ==
    ASSUME Serial, TypeInv, SerialInv, NEW s \in Procs, Loading(s)
    PROVE  SerialInv'
  <1> DEFINE Goal == SerialInv'
  <1>0. UNCHANGED <<item, run, reviewed>> /\ txn[s] \in Txn /\ Fresh(txn[s])
        /\ txn \in [Procs -> Txn]
    BY LoadingStep DEF rows, TypeInv, TypeOK, Procs, SerialInv
  <1>1. ASSUME NEW t, Load(s, t), Fresh(t) PROVE Goal
    BY <1>0, <1>1, SerialMoves DEF Load
  <1>2. ASSUME NEW i \in Items, BeginStart(s, i) PROVE Goal
    <2> DEFINE t == [Idle EXCEPT !.handler = "start", !.item = i]
    <2>1. t.handler = "start" /\ t.item = i
      BY DEF Idle
    <2>2. Load(s, t) /\ DepsAccepted(i) /\ Started(i) = "RUNNING"
      BY <1>2 DEF BeginStart
    <2> HIDE DEF t
    <2>3. Fresh(t)
      BY <2>1, <2>2 DEF Fresh
    <2> QED  BY <1>1, <2>2, <2>3
  <1>3. ASSUME NEW i \in Items, NEW d \in {"accept", "revise"}, BeginReview(s, i, d) PROVE Goal
    <2> DEFINE t == [Idle EXCEPT !.handler = d, !.item = i]
    <2>1. t.handler = d /\ t.item = i
      BY DEF Idle
    <2>2. Load(s, t) /\ item[i] = "SUBMITTED"
      BY <1>3 DEF BeginReview
    <2> HIDE DEF t
    <2>3. Fresh(t)
      BY <2>1, <2>2 DEF Fresh
    <2> QED  BY <1>1, <2>2, <2>3
  <1>4. ASSUME NEW r \in Runs, NEW h \in {"picked", "submit"}, Running(r),
               Load(s, [Idle EXCEPT !.handler = h, !.run = r])
        PROVE  Goal
    <2> DEFINE t == [Idle EXCEPT !.handler = h, !.run = r]
    <2>1. t.handler = h /\ t.run = r
      BY DEF Idle
    <2>2. Load(s, t)
      BY <1>4
    <2> HIDE DEF t
    <2>3. Fresh(t)
      BY <1>4, <2>1, <2>2 DEF Fresh
    <2> QED  BY <1>1, <2>2, <2>3
  <1>5. ASSUME BeginLeadReview(s) PROVE Goal
    <2> DEFINE t == [Idle EXCEPT !.handler = "lead_review"]
    <2>1. t.handler = "lead_review"
      BY DEF Idle
    <2>2. Load(s, t) /\ \A i \in Items : item[i] = "ACCEPTED"
      BY <1>5 DEF BeginLeadReview
    <2> HIDE DEF t
    <2>3. Fresh(t)
      BY <2>1, <2>2 DEF Fresh
    <2> QED  BY <1>1, <2>2, <2>3
  <1>6. ASSUME BeginExecute(s) PROVE Goal
    <2> DEFINE t == [txn[s] EXCEPT !.handler = "execute", !.seen = item[run[txn[s].run].item]]
    <2>1. t.handler = "execute" /\ t.run = txn[s].run /\ t.seen = item[run[t.run].item]
      BY <1>0 DEF Txn
    <2>2. Running(txn[s].run) /\ txn' = [txn EXCEPT ![s] = t]
      BY <1>0, <1>6 DEF BeginExecute, Fresh
    <2> HIDE DEF t
    <2>3. Fresh(t)
      BY <2>1, <2>2 DEF Fresh
    <2> QED  BY <1>0, <2>2, <2>3, SerialMoves
  <1>7. ASSUME NEW c, txn' = [txn EXCEPT ![s].claimed = c] PROVE Goal
    <2> DEFINE t == [txn[s] EXCEPT !.claimed = c]
    <2>1. SameButLocks(t, txn[s])
      BY <1>0 DEF Txn, SameButLocks
    <2>2. txn' = [txn EXCEPT ![s] = t]
      BY <1>0, <1>7
    <2> HIDE DEF t
    <2>3. Fresh(t)
      BY <1>0, <2>1 DEF Fresh, SameButLocks
    <2> QED  BY <1>0, <2>2, <2>3, SerialMoves
  <1>8. ASSUME Abandon(s) PROVE Goal
    <2>1. RowsInv'
      BY <1>0 DEF SerialInv, RowsInv, RunsInv, StartedAfterDependencies,
                  ReviewedItemsAccepted, Running
    <2> QED  BY <1>8, <2>1, SerialEnd DEF Abandon
  <1>9. ASSUME BeginTimeout(s) PROVE Goal
    <2>1. PICK first \in Expired :
            Load(s, [Idle EXCEPT !.handler = "timeout", !.run = first, !.runs = Expired,
                                 !.seen = item[run[first].item]])
      BY <1>9 DEF BeginTimeout
    <2> DEFINE t == [Idle EXCEPT !.handler = "timeout", !.run = first, !.runs = Expired,
                                 !.seen = item[run[first].item]]
    <2>2. t.handler = "timeout" /\ t.run = first /\ t.runs = Expired
          /\ t.seen = item[run[first].item]
      BY DEF Idle
    <2>3. Load(s, t) /\ \A r \in Expired : Running(r)
      BY <2>1 DEF Expired
    <2> HIDE DEF t
    <2>4. Fresh(t)
      BY <2>2, <2>3 DEF Fresh
    <2> QED  BY <1>1, <2>3, <2>4
  <1> QED
    <2>1. Claim(s) => \E c : txn' = [txn EXCEPT ![s].claimed = c]
      BY DEF Claim
    <2>2. ASSUME NEW r \in Runs, TimeoutRow(s, r) PROVE \E c : txn' = [txn EXCEPT ![s].claimed = c]
      BY <2>2 DEF TimeoutRow
    <2>3. CASE Begin(s)
      BY <2>3, <1>2, <1>3, <1>4, <1>5 DEF Begin, Pick, BeginSubmit
    <2>4. CASE ~Begin(s)
      BY <2>1, <2>2, <2>4, <1>6, <1>7, <1>8, <1>9 DEF Loading
    <2> QED  BY <2>3, <2>4

(* A write phase keeps the items' part of the invariant when it leaves the  *)
(* final items alone and starts none before its dependencies.               *)
LEMMA SerialItems ==
    ASSUME TypeInv, SerialInv, FinalKept, reviewed' = reviewed,
           \A i \in Items : item[i] \in {"READY", "WAITING_DEPENDENCY"} =>
              \/ item'[i] = item[i]
              \/ \A d \in Deps[i] : item'[d] = "ACCEPTED"
    PROVE  StartedAfterDependencies' /\ ReviewedItemsAccepted'
  <1>0. \A i \in Items : Deps[i] \subseteq Items
    BY PlanAssumption
  <1>1. \A i \in Items : item[i] = "ACCEPTED" => item'[i] = "ACCEPTED"
    BY DEF FinalKept, Final
  <1>2. ReviewedItemsAccepted'
    BY <1>1 DEF SerialInv, RowsInv, ReviewedItemsAccepted
  <1>3. ASSUME NEW i \in Items, item'[i] \notin {"READY", "WAITING_DEPENDENCY"}, NEW d \in Deps[i]
        PROVE  item'[d] = "ACCEPTED"
    <2>1. CASE item[i] \in {"READY", "WAITING_DEPENDENCY"}
      BY <1>3, <2>1
    <2>2. CASE item[i] \notin {"READY", "WAITING_DEPENDENCY"}
      BY <1>0, <1>1, <1>3, <2>2 DEF SerialInv, RowsInv, StartedAfterDependencies
    <2> QED  BY <2>1, <2>2
  <1> QED  BY <1>2, <1>3 DEF StartedAfterDependencies

(* start_work_item: the item had no open run and its dependencies are       *)
(* accepted.                                                                *)
LEMMA SerialStart ==
    ASSUME Serial, TypeInv, SerialInv, NEW s \in Procs, Start(s)
    PROVE  SerialInv' /\ FinalKept
  <1> DEFINE i == txn[s].item
  <1>1. PICK r \in Runs :
          /\ i \in Items /\ run[r] = NoRun
          /\ run' = [run EXCEPT ![r] = [status |-> "RUNNING", item |-> i, via |-> "none"]]
          /\ run'[r].status = "RUNNING" /\ run'[r].item = i
          /\ item' = [item EXCEPT ![i] = "RUNNING"] /\ reviewed' = reviewed /\ End(s)
    BY StartEffect
  <1>2. DepsAccepted(i) /\ Started(i) = "RUNNING"
    BY DEF Start, SerialInv, Fresh
  <1>3. item[i] \notin Final \cup {"RUNNING", "SUBMITTED"}
    BY <1>1, <1>2, StartedFrom DEF TypeInv
  <1> HIDE DEF i
  <1>4. item'[i] = "RUNNING" /\ \A j \in Items : j # i => item'[j] = item[j]
    BY <1>1 DEF TypeInv, TypeOK
  <1>5. \A q \in Runs : q # r => run'[q] = run[q]
    BY <1>1 DEF TypeInv, TypeOK
  <1>6. FinalKept
    BY <1>3, <1>4 DEF FinalKept
  <1>7. \A d \in Deps[i] : item'[d] = "ACCEPTED"
    <2>1. Deps[i] \subseteq Items
      BY <1>1, PlanAssumption
    <2> QED  BY <1>2, <1>6, <2>1 DEF DepsAccepted, FinalKept, Final
  <1>8. StartedAfterDependencies' /\ ReviewedItemsAccepted'
    BY <1>1, <1>4, <1>6, <1>7, SerialItems
  <1>9. ASSUME NEW q \in Runs, q # r, Running(q)'
        PROVE  Running(q) /\ run'[q].item = run[q].item /\ run[q].item \in Items
               /\ item[run[q].item] = "RUNNING" /\ run[q].item # i
    <2>1. Running(q) /\ run'[q] = run[q]
      BY <1>5, <1>9 DEF Running
    <2>2. run[q].item \in Items
      BY <2>1, RunningIsRow, RunItem DEF TypeInv
    <2>3. item[run[q].item] = "RUNNING"
      BY <2>1 DEF SerialInv, RowsInv, RunsInv
    <2> QED  BY <1>3, <2>1, <2>2, <2>3
  <1>10. RunsInv'
    <2>1. ASSUME NEW q \in Runs, Running(q)' PROVE item'[run'[q].item] = "RUNNING"
      BY <1>1, <1>4, <1>9, <2>1
    <2>2. ASSUME NEW p \in Runs, NEW q \in Runs, Running(p)', Running(q)',
                 run'[p].item = run'[q].item
          PROVE  p = q
      BY <1>1, <1>9, <2>2 DEF SerialInv, RowsInv, RunsInv
    <2> QED  BY <2>1, <2>2 DEF RunsInv
  <1> QED  BY <1>1, <1>6, <1>8, <1>10, SerialEnd DEF RowsInv

(* A RUNNING item is left together with its only run: submit_agent_run and  *)
(* the failure path of execute_agent_run.                                   *)
LEMMA SerialClose ==
    ASSUME Serial, TypeInv, SerialInv, NEW s \in Procs, End(s),
           NEW r \in Runs, Running(r), NEW st, st # "RUNNING",
           \A q \in Runs : q # r => run'[q] = run[q],
           run'[r].status = "CLOSED",
           item' = [item EXCEPT ![run[r].item] = st], reviewed' = reviewed
    PROVE  SerialInv' /\ FinalKept
  <1> DEFINE i == run[r].item
  <1>1. i \in Items /\ item[i] = "RUNNING"
    BY RunningIsRow, RunItem DEF TypeInv, SerialInv, RowsInv, RunsInv
  <1>2. item'[i] = st /\ \A j \in Items : j # i => item'[j] = item[j]
    BY <1>1 DEF TypeInv, TypeOK
  <1>3. FinalKept
    BY <1>1, <1>2 DEF FinalKept, Final
  <1>4. StartedAfterDependencies' /\ ReviewedItemsAccepted'
    BY <1>1, <1>2, <1>3, SerialItems
  <1>5. ASSUME NEW q \in Runs, Running(q)'
        PROVE  Running(q) /\ run'[q].item = run[q].item /\ run[q].item \in Items
               /\ item[run[q].item] = "RUNNING" /\ run[q].item # i
    <2>1. q # r
      BY <1>5 DEF Running
    <2>2. Running(q) /\ run'[q] = run[q]
      BY <1>5, <2>1 DEF Running
    <2>3. run[q].item \in Items
      BY <2>2, RunningIsRow, RunItem DEF TypeInv
    <2>4. item[run[q].item] = "RUNNING" /\ run[q].item # i
      BY <2>1, <2>2 DEF SerialInv, RowsInv, RunsInv
    <2> QED  BY <2>2, <2>3, <2>4
  <1>6. RunsInv'
    <2>1. ASSUME NEW q \in Runs, Running(q)' PROVE item'[run'[q].item] = "RUNNING"
      BY <1>2, <1>5, <2>1
    <2>2. ASSUME NEW p \in Runs, NEW q \in Runs, Running(p)', Running(q)',
                 run'[p].item = run'[q].item
          PROVE  p = q
      BY <1>5, <2>2 DEF SerialInv, RowsInv, RunsInv
    <2> QED  BY <2>1, <2>2 DEF RunsInv
  <1> QED  BY <1>3, <1>4, <1>6, SerialEnd DEF RowsInv

(* A submission, from either caller.                                        *)
LEMMA SerialSubmit ==
    ASSUME Serial, TypeInv, SerialInv, NEW s \in Procs, txn[s].handler \in {"execute", "submit"},
           NEW seen, NEW claims \in SUBSET Claims, Submit(s, seen, claims)
    PROVE  SerialInv' /\ FinalKept
  <1> DEFINE r == txn[s].run
  <1>1. r \in Runs /\ run[r] # NoRun /\ Running(r)
    BY DEF TypeInv, Holds, SerialInv, Fresh
  <1>2. CloseRun(r, "OUTPUT_SUBMITTED") /\ End(s) /\ reviewed' = reviewed
        /\ item' = [item EXCEPT ![run[r].item] = "SUBMITTED"]
    BY DEF Submit, Commit
  <1>3. run'[r].status = "CLOSED" /\ \A q \in Runs : q # r => run'[q] = run[q]
    BY <1>1, <1>2, CloseType
  <1> HIDE DEF r
  <1> QED  BY <1>1, <1>2, <1>3, SerialClose

(* A failed model call.                                                     *)
LEMMA SerialFails ==
    ASSUME Serial, TypeInv, SerialInv, NEW s \in Procs, ExecuteFails(s)
    PROVE  SerialInv' /\ FinalKept
  <1> DEFINE r == txn[s].run
  <1>1. txn[s].handler = "execute"
    BY DEF ExecuteFails, ModelRaises
  <1>2. r \in Runs /\ run[r] # NoRun /\ Running(r) /\ txn[s].seen = item[run[r].item]
    BY <1>1 DEF TypeInv, Holds, SerialInv, Fresh
  <1>3. run[r].item \in Items /\ txn[s].seen = "RUNNING"
    BY <1>2, RunItem DEF TypeInv, SerialInv, RowsInv, RunsInv
  <1>4. Blocked(txn[s].seen, run[r].item) = "BLOCKED"
    BY <1>3, BlockedType DEF TypeInv
  <1>5. CloseRun(r, "FAILED") /\ End(s) /\ reviewed' = reviewed
        /\ item' = [item EXCEPT ![run[r].item] = "BLOCKED"]
    BY <1>4 DEF ExecuteFails, Commit
  <1>6. run'[r].status = "CLOSED" /\ \A q \in Runs : q # r => run'[q] = run[q]
    BY <1>2, <1>5, CloseType
  <1> HIDE DEF r
  <1> QED  BY <1>2, <1>5, <1>6, SerialClose

(* review_work_item: a SUBMITTED item has no open run, and an item it       *)
(* unblocks has all its dependencies accepted.                              *)
LEMMA SerialReview ==
    ASSUME Serial, TypeInv, SerialInv, NEW s \in Procs, Accept(s) \/ Revise(s)
    PROVE  SerialInv' /\ FinalKept
  <1> DEFINE i == txn[s].item
  <1>1. i \in Items /\ run' = run /\ reviewed' = reviewed /\ End(s)
    BY ReviewEffect
  <1>2. item[i] = "SUBMITTED"
    BY DEF Accept, Revise, SerialInv, Fresh
  <1>3. ASSUME NEW j \in Items
        PROVE  \/ j = i /\ item'[j] \in {"ACCEPTED", "REVISION_REQUIRED"}
               \/ j # i /\ item'[j] = item[j]
               \/ j # i /\ item[j] = "WAITING_DEPENDENCY" /\ item'[j] = "ASSIGNED"
                        /\ Accept(s) /\ Unblocked(i, j)
    <2>1. CASE Accept(s)
      BY <2>1 DEF Accept, Unblocked
    <2>2. CASE Revise(s)
      BY <1>1, <2>2 DEF Revise, TypeInv, TypeOK
    <2> QED  BY <2>1, <2>2
  <1>4. FinalKept
    BY <1>2, <1>3 DEF FinalKept, Final
  <1>5. ASSUME NEW j \in Items, item[j] \in {"READY", "WAITING_DEPENDENCY"}, item'[j] # item[j],
               NEW d \in Deps[j]
        PROVE  item'[d] = "ACCEPTED"
    <2>1. Accept(s) /\ Unblocked(i, j) /\ d \in Items
      BY <1>2, <1>3, <1>5, PlanAssumption
    <2>2. d # i => item[d] = "ACCEPTED"
      BY <1>5, <2>1 DEF Unblocked
    <2> QED  BY <2>1, <2>2, <1>4 DEF Accept, FinalKept, Final
  <1>6. StartedAfterDependencies' /\ ReviewedItemsAccepted'
    BY <1>1, <1>4, <1>5, SerialItems
  <1>7. RunsInv'
    <2>1. ASSUME NEW q \in Runs, Running(q) PROVE item'[run[q].item] = "RUNNING"
      <3>1. run[q].item \in Items /\ item[run[q].item] = "RUNNING"
        BY <2>1, RunningIsRow, RunItem DEF TypeInv, SerialInv, RowsInv, RunsInv
      <3> QED  BY <1>2, <1>3, <3>1
    <2> QED  BY <1>1, <2>1 DEF SerialInv, RowsInv, RunsInv, Running
  <1> QED  BY <1>1, <1>4, <1>6, <1>7, SerialEnd DEF RowsInv

(* lead_review_mission: every item is still accepted.                       *)
LEMMA SerialLeadReview ==
    ASSUME Serial, TypeInv, SerialInv, NEW s \in Procs, LeadReview(s)
    PROVE  SerialInv' /\ FinalKept
  <1>1. UNCHANGED <<item, run>> /\ End(s)
    BY DEF LeadReview, Commit
  <1>2. \A i \in Items : item[i] = "ACCEPTED"
    BY DEF LeadReview, SerialInv, Fresh
  <1>3. RowsInv'
    BY <1>1, <1>2 DEF SerialInv, RowsInv, RunsInv, StartedAfterDependencies,
                      ReviewedItemsAccepted, Running
  <1> QED  BY <1>1, <1>3, SerialEnd DEF FinalKept

(* scheduler_tick fails exactly the RUNNING items whose run it closes.      *)
LEMMA SerialTimeout ==
    ASSUME Serial, TypeInv, SerialInv, NEW k \in Procs, Timeout(k)
    PROVE  SerialInv' /\ FinalKept
  <1> DEFINE closed == txn[k].runs
  <1>1. /\ \A q \in Runs : run[q] # NoRun => run'[q].item = run[q].item
        /\ \A q \in Runs \ closed : run'[q] = run[q]
        /\ reviewed' = reviewed /\ End(k) /\ txn[k].handler = "timeout"
    BY TimeoutEffect
  <1>2. /\ \A r \in closed : Running(r)
        /\ \A i \in Items : Seen(k, i) = item[i]
        /\ closed \subseteq Runs
    BY <1>1 DEF SerialInv, Fresh, Seen, TypeInv, TypeOK, Txn, Procs
  <1>3. ASSUME NEW i \in Items
        PROVE  \/ item'[i] = item[i]
               \/ /\ item[i] = "RUNNING" /\ item'[i] = "FAILED"
                  /\ \E r \in closed : run[r].item = i
    BY <1>2 DEF Timeout
  <1>4. FinalKept
    BY <1>3 DEF FinalKept, Final
  <1>5. StartedAfterDependencies' /\ ReviewedItemsAccepted'
    BY <1>1, <1>3, <1>4, SerialItems
  <1>6. ASSUME NEW q \in Runs, Running(q)'
        PROVE  /\ Running(q) /\ run'[q].item = run[q].item
               /\ item'[run[q].item] = "RUNNING"
    <2>1. q \notin closed
      <3>1. ASSUME q \in closed PROVE FALSE
        <4>1. run[q] \in RunRow
          BY <1>2, <3>1, RunningIsRow, RunItem DEF TypeInv
        <4>2. run'[q] = [run[q] EXCEPT !.status = "CLOSED", !.via = "TIMED_OUT"]
          BY <3>1, ClosedStatus DEF Timeout
        <4> QED  BY <1>6, <4>1, <4>2 DEF RunRow, Running
      <3> QED  BY <3>1
    <2>2. run'[q] = run[q] /\ Running(q)
      BY <1>1, <1>6, <2>1 DEF Running
    <2>3. run[q].item \in Items /\ item[run[q].item] = "RUNNING"
      BY <2>2, RunningIsRow, RunItem DEF TypeInv, SerialInv, RowsInv, RunsInv
    <2>4. \A r \in closed : run[r].item # run[q].item
      BY <1>2, <2>1, <2>2 DEF SerialInv, RowsInv, RunsInv
    <2> QED  BY <1>3, <2>2, <2>3, <2>4
  <1>7. RunsInv'
    BY <1>6 DEF SerialInv, RowsInv, RunsInv
  <1> QED  BY <1>1, <1>4, <1>5, <1>7, SerialEnd DEF RowsInv

(* Every step keeps it, and no step touches an item that has ended.         *)
LEMMA SerialNext ==
    ASSUME Serial
    PROVE  TypeInv /\ SerialInv /\ [Next]_vars => SerialInv' /\ FinalKept
  <1> SUFFICES ASSUME TypeInv, SerialInv, [Next]_vars PROVE SerialInv' /\ FinalKept
    OBVIOUS
  <1>1. ASSUME NEW s \in Procs, Loading(s) PROVE SerialInv' /\ FinalKept
    <2>1. item' = item
      BY <1>1, LoadingStep DEF rows
    <2> QED  BY <1>1, <2>1, SerialLoading DEF FinalKept
  <1>2. ASSUME NEW s \in Procs, NEW claims \in SUBSET Claims,
               ExecuteSucceeds(s, claims) \/ SubmitOutput(s, claims)
        PROVE  SerialInv' /\ FinalKept
    <2>1. txn[s].handler \in {"execute", "submit"} /\ \E seen : Submit(s, seen, claims)
      BY <1>2 DEF ExecuteSucceeds, SubmitOutput, ModelCalled
    <2> QED  BY <2>1, SerialSubmit
  <1>3. ASSUME UNCHANGED <<item, run, reviewed, txn>> PROVE SerialInv' /\ FinalKept
    <2>1. RowsInv'
      BY <1>3 DEF SerialInv, RowsInv, RunsInv, StartedAfterDependencies,
                  ReviewedItemsAccepted, Running
    <2>2. ASSUME NEW u \in Procs PROVE Fresh(txn[u])'
      BY <1>3 DEF SerialInv, Fresh, DepsAccepted, Started, Assigned, Running
    <2> QED  BY <1>3, <2>1, <2>2 DEF SerialInv, FinalKept
  <1>4. ASSUME NEW r \in Runs, Overdue(r) PROVE SerialInv' /\ FinalKept
    BY <1>3, <1>4 DEF Overdue, rows
  <1>5. CASE UNCHANGED vars
    BY <1>3, <1>5 DEF vars
  <1> QED
    BY <1>1, <1>2, <1>4, <1>5, NextCases, SerialStart, SerialFails, SerialReview,
       SerialLeadReview, SerialTimeout

(* The invariant holds throughout.                                          *)
LEMMA SerialInvariant ==
    ASSUME Serial
    PROVE  Spec => []SerialInv
  BY TypeInvariant, SerialInit, SerialNext, PTL DEF Spec

(* An item has exactly one open AgentRun while it is RUNNING and none       *)
(* otherwise, when requests do not overlap: start_work_item never opens a   *)
(* second one, and every way of closing a run moves its item.               *)
THEOREM OneOpenRunAlways ==
    ASSUME Serial
    PROVE  Spec => []OneOpenRunPerItem
  <1>1. ASSUME SerialInv, NoOrphanItem PROVE OneOpenRunPerItem
    <2>1. ASSUME NEW i \in Items
          PROVE  Cardinality({r \in Runs : Running(r) /\ run[r].item = i}) =
                   IF item[i] = "RUNNING" THEN 1 ELSE 0
      <3> DEFINE open == {r \in Runs : Running(r) /\ run[r].item = i}
      <3>1. CASE item[i] = "RUNNING"
        <4>1. PICK r \in Runs : Running(r) /\ run[r].item = i
          BY <1>1, <3>1 DEF NoOrphanItem
        <4>2. open = {r}
          BY <1>1, <4>1 DEF SerialInv, RowsInv, RunsInv
        <4> QED  BY <3>1, <4>2, FS_Singleton
      <3>2. CASE item[i] # "RUNNING"
        <4>1. open = {}
          BY <1>1, <3>2 DEF SerialInv, RowsInv, RunsInv
        <4> QED  BY <3>2, <4>1, FS_EmptySet
      <3> QED  BY <3>1, <3>2
    <2> QED  BY <2>1 DEF OneOpenRunPerItem
  <1> QED  BY <1>1, SerialInvariant, NoOrphanItemAlways, PTL

(* Work on an item starts only after all its dependencies are accepted, and *)
(* they stay accepted: the check of start_work_item and the unblocking of   *)
(* review_work_item agree with every later write.                           *)
THEOREM DependenciesComeFirst ==
    ASSUME Serial
    PROVE  Spec => []StartedAfterDependencies
  <1>1. SerialInv => StartedAfterDependencies
    BY DEF SerialInv, RowsInv
  <1> QED  BY <1>1, SerialInvariant, PTL

(* After lead_review_mission every item is and stays accepted.              *)
THEOREM ReviewedStaysAccepted ==
    ASSUME Serial
    PROVE  Spec => []ReviewedItemsAccepted
  <1>1. SerialInv => ReviewedItemsAccepted
    BY DEF SerialInv, RowsInv
  <1> QED  BY <1>1, SerialInvariant, PTL

(* An item in a status without a row in WORK_ITEM_TRANSITIONS never changes *)
(* again, although scheduler_tick and the write phases of review_work_item  *)
(* do not all consult the table.                                            *)
THEOREM TerminalItemsStay ==
    ASSUME Serial
    PROVE  Spec => TerminalItemsKept
  <1>1. TypeInv /\ SerialInv /\ [Next]_vars =>
          [\A i \in Items : item[i] \in Terminal(WORK_ITEM_TRANSITIONS) => item'[i] = item[i]]_vars
    BY SerialNext, FinalStatuses DEF FinalKept
  <1> QED  BY <1>1, TypeInvariant, SerialInvariant, PTL DEF Spec, TerminalItemsKept
=============================================================================
