------------------------------- MODULE Delivery -------------------------------
(***************************************************************************)
(* What the external operations of a tenant promise, without missions,     *)
(* approvals, sessions and attempts.  An operation is frozen once, then    *)
(* executed: the execution leaves at most one message and a result.  An    *)
(* unknown result is resolved without another message.  A message can only *)
(* escape the record (its unit of work is rolled back after the provider   *)
(* took it) while the operation has no result.                             *)
(***************************************************************************)
EXTENDS Naturals

CONSTANT Ops   \* external operations

VARIABLES
    phase,    \* "absent", "frozen", "unknown" or "resolved"
    told,     \* messages that the operation's result tells of
    strays    \* messages that no row tells of

vars == <<phase, told, strays>>

Init == /\ phase = [o \in Ops |-> "absent"]
        /\ told = [o \in Ops |-> 0]
        /\ strays = [o \in Ops |-> 0]

Freeze(o) == /\ phase[o] = "absent"
             /\ phase' = [phase EXCEPT ![o] = "frozen"]
             /\ UNCHANGED <<told, strays>>

Execute(o, result, n) == /\ phase[o] = "frozen"
                         /\ told[o] = 0
                         /\ phase' = [phase EXCEPT ![o] = result]
                         /\ told' = [told EXCEPT ![o] = n]
                         /\ UNCHANGED strays

Stray(o) == /\ phase[o] = "frozen"
            /\ strays' = [strays EXCEPT ![o] = @ + 1]
            /\ UNCHANGED <<phase, told>>

Resolve(o) == /\ phase[o] = "unknown"
              /\ phase' = [phase EXCEPT ![o] = "resolved"]
              /\ UNCHANGED <<told, strays>>

Next == \E o \in Ops :
    \/ Freeze(o)
    \/ \E result \in {"unknown", "resolved"}, n \in 0 .. 1 : Execute(o, result, n)
    \/ Stray(o)
    \/ Resolve(o)

Spec == Init /\ [][Next]_vars
=============================================================================
