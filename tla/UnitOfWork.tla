------------------------------ MODULE UnitOfWork ------------------------------
(***************************************************************************)
(* db_session: one database transaction per request, committed when the    *)
(* route returns and rolled back when it raises.  A handler loads rows,    *)
(* decides on what it loaded, and writes; append_audit takes the tenant's  *)
(* advisory lock before the first write is flushed, so write phases do not *)
(* overlap, but the rows written were read before the lock was taken.      *)
(*                                                                         *)
(* A unit of work is therefore two steps, Load and Commit (or Abandon).    *)
(* `late' and `raced' are history: the requests in flight whose rows       *)
(* somebody else has committed to since they loaded them, and the handlers *)
(* that have committed as such.  While raced is empty the committed        *)
(* requests might as well have run one after the other, however their life *)
(* times overlapped; a property that excuses some handlers in raced holds  *)
(* whichever of the other handlers were late.                              *)
(***************************************************************************)
CONSTANT Sessions       \* requests and worker turns that may be in flight

VARIABLES
    txn,   \* what each unit of work has loaded
    late,  \* history: units of work whose loaded rows have changed since
    raced  \* history: handlers of late units of work that have committed

uow == <<txn, late, raced>>

Idle == [handler |-> "idle"]

UnitsInit == /\ txn = [s \in Sessions |-> Idle]
             /\ late = {}
             /\ raced = {}

InFlight == {s \in Sessions : txn[s] # Idle}

Reading(hit) == {s \in InFlight : txn[s].handler \in hit}

Load(s, t) == /\ txn[s] = Idle
              /\ txn' = [txn EXCEPT ![s] = t]
              /\ UNCHANGED <<late, raced>>

End(s) == txn' = [txn EXCEPT ![s] = Idle]

(* The commit writes rows that the handlers in `hit' read.                  *)
Commit(s, hit) == /\ End(s)
                  /\ late' = (late \cup Reading(hit)) \ {s}
                  /\ raced' = raced \cup (IF s \in late THEN {txn[s].handler} ELSE {})

(* Rolled back: the handler raised, a constraint failed, a crash.           *)
Abandon(s) == /\ txn[s] # Idle
              /\ End(s)
              /\ late' = late \ {s}
              /\ UNCHANGED raced

(* A commit that is one step of its own: nothing it read can be stale.      *)
CommitAtOnce(hit) == /\ late' = late \cup Reading(hit)
                     /\ UNCHANGED <<txn, raced>>

UnitsOK == late \subseteq InFlight
=============================================================================
