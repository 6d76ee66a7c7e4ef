---------------------------- MODULE BillingProofs ----------------------------
(***************************************************************************)
(* Proofs about Billing, for any number of sessions, subscriptions and     *)
(* invoices and either value of the pricing setting.                       *)
(***************************************************************************)
EXTENDS Billing, UnitOfWorkProofs, FiniteSetTheorems

(* Why a subscription may be in use after its trial.                        *)
Justified(ref) == ref /\ (PricesInEnv \/ approved)

(* What a request in flight is known to hold, late or not: the invoice and  *)
(* subscription it names are rows, and what its activation was allowed by   *)
(* is never taken back.                                                     *)
Holds(t) ==
    /\ t.handler \in {"build", "invoice"} => t.sub \in Invoiced
    /\ t.handler = "invoice" /\ t.op = "transition" => t.to \in {"OPEN", "PAID", "VOID"}
    /\ t.handler = "subscription" /\ t.op = "transition" =>
         /\ sub[t.sub] # NoSub
         /\ t.to \in {"ACTIVE", "PAST_DUE"} /\ sub[t.sub].trial
              => Justified(t.ref \/ sub[t.sub].ref)

TypeInv ==
    /\ TypeOK
    /\ \A s \in Sessions : Holds(txn[s])
    /\ \A u \in Subs : sub[u] # NoSub => catalog = "seeded"
    /\ approval["seeded"] = "APPROVED" => approved
    /\ ActivationJustified

(* A request that is not late decided on the subscriptions as they are.     *)
SubCurrent(t) ==
    t.handler = "subscription" =>
        /\ t.op = "create" => NoActiveSubscription
        /\ t.op = "transition" => t.sub \in ActiveSubscriptions

OneLiveInv ==
    "subscription" \notin raced =>
        /\ \A u, v \in ActiveSubscriptions : u = v
        /\ \A s \in Sessions : s \in late \/ SubCurrent(txn[s])

(* A request that is not late decided on its invoice as it is.              *)
InvoiceCurrent(t) ==
    t.handler = "invoice" =>
        /\ t.op = "transition" => t.to \in InvoiceTransitions[invoice[t.sub]]
        /\ t.op = "webhook" => invoice[t.sub] = "OPEN"

PaidOnce(u) ==
    /\ invoice[u] # "PAID" => <<u, "PAID">> \notin event /\ <<u, "webhook_paid">> \notin event
    /\ <<u, "PAID">> \notin event \/ <<u, "webhook_paid">> \notin event

PaymentInv ==
    /\ \A u \in Invoiced : invoice[u] = "PAID"
                             => <<u, "PAID">> \in event \/ <<u, "webhook_paid">> \in event
    /\ "invoice" \notin raced =>
         /\ \A u \in Invoiced : PaidOnce(u)
         /\ \A s \in Sessions : s \in late \/ InvoiceCurrent(txn[s])

------------------------------------------------------------------------------
(* Type correctness and the justification of an activation                  *)

(* Rows are never deleted, a trial stays one, a reference and an approval   *)
(* are not forgotten.                                                       *)
Grows ==
    /\ \A u \in Subs : sub[u] # NoSub => /\ sub'[u] # NoSub
                                         /\ sub'[u].trial = sub[u].trial
                                         /\ sub[u].ref => sub'[u].ref
    /\ approved => approved'

(* The type invariant, with the units of work set apart.                    *)
LEMMA TypeUnits ==
    TypeOK <=> /\ catalog \in Catalogs
               /\ approval \in [Catalogs -> Decision]
               /\ sub \in [Subs -> SubRow \cup {NoSub}]
               /\ invoice \in [Invoiced -> InvoiceStatus]
               /\ event \subseteq Invoiced \X EventKinds
               /\ approved \in BOOLEAN
               /\ Units(Txn)
  BY DEF TypeOK, Units

(* No request is the record of an idle session.                             *)
LEMMA NotIdle == \A t \in Txn : t # Idle /\ t.handler \in
                                  {"subscription", "build", "invoice", "price"}
  BY DEF Txn, Idle

(* An idle session holds nothing.                                           *)
LEMMA IdleHolds == Holds(Idle)
  BY IdleHandler DEF Holds

(* The fields of a request, by its handler.                                 *)
LEMMA TxnFields ==
    ASSUME NEW t \in Txn
    PROVE  /\ t.handler = "subscription" =>
                \/ t.op = "create" /\ t.trial \in BOOLEAN
                \/ t.op = "transition" /\ t.sub \in Subs /\ t.to \in SubStatus
                                       /\ t.ref \in BOOLEAN
           /\ t.handler = "build" => t.sub \in Subs
           /\ t.handler = "invoice" =>
                /\ t.sub \in Subs
                /\ \/ t.op = "transition" /\ t.to \in InvoiceStatus /\ t.known \in BOOLEAN
                   \/ t.op = "webhook"
           /\ t.handler = "price" => t.catalog \in Catalogs /\ t.decision \in Decision
                                       /\ t.loaded \in Decision
  BY DEF Txn

(* What a request holds it keeps while the rows only grow.                  *)
LEMMA HoldsKept ==
    ASSUME TypeInv, Grows, NEW u \in Sessions, txn'[u] = txn[u] \/ txn'[u] = Idle
    PROVE  Holds(txn[u])'
  <1>1. CASE txn'[u] = Idle
    BY <1>1, IdleHandler DEF Holds
  <1>2. CASE txn'[u] = txn[u]
    <2>1. PICK t \in Txn \cup {Idle} : t = txn[u]
      BY DEF TypeInv, TypeOK
    <2>2. Holds(t)
      BY <2>1 DEF TypeInv
    <2>3. t = Idle \/ (t \in Txn /\ (t.handler = "subscription" /\ t.op = "transition"
                                       => t.sub \in Subs))
      BY TxnFields
    <2>4. Holds(t)'
      BY <2>2, <2>3, IdleHandler DEF Holds, Justified, Grows
    <2> QED  BY <2>1, <2>4, <1>2
  <1> QED  BY <1>1, <1>2

(* The tables and the catalogue at the start.                               *)
LEMMA TypeInit == Init => TypeInv
  <1> SUFFICES ASSUME Init PROVE TypeInv  OBVIOUS
  <1>1. Units(Txn) /\ \A s \in Sessions : txn[s] = Idle
    BY UnitsStart DEF Init
  <1>2. TypeOK
    BY <1>1, TypeUnits DEF Init, Catalogs, Decision, InvoiceStatus
  <1>3. ActivationJustified
    BY DEF Init, ActivationJustified, NoSub
  <1>4. "seeded" \in Catalogs /\ approval["seeded"] # "APPROVED"
    BY DEF Init, Catalogs
  <1> QED  BY <1>1, <1>2, <1>3, <1>4, IdleHolds DEF TypeInv, Init

(* A step that only loads rows.                                             *)
LEMMA TypeLoad ==
    ASSUME TypeInv, NEW s \in Sessions, NEW t \in Txn, Holds(t), Load(s, t),
           UNCHANGED billing
    PROVE  TypeInv'
  <1>1. /\ Units(Txn)' /\ txn'[s] = t
        /\ \A u \in Sessions : u # s => txn'[u] = txn[u]
    <2>1. Units(Txn) /\ t # Idle
      BY NotIdle, TypeUnits DEF TypeInv
    <2> QED  BY <2>1, LoadUnits
  <1>2. UNCHANGED <<catalog, approval, sub, invoice, event, approved>>
    BY DEF billing
  <1>3. TypeOK'
    BY <1>1, <1>2, TypeUnits DEF TypeInv, TypeOK, Units
  <1>4. \A u \in Sessions : Holds(txn[u])'
    <2> SUFFICES ASSUME NEW u \in Sessions PROVE Holds(txn[u])'  OBVIOUS
    <2>1. CASE u = s
      BY <2>1, <1>1, <1>2 DEF Holds, Justified
    <2>2. CASE u # s
      BY <2>2, <1>1, <1>2, HoldsKept DEF Grows
    <2> QED  BY <2>1, <2>2
  <1>5. ActivationJustified'
    BY <1>2 DEF TypeInv, ActivationJustified
  <1> QED  BY <1>2, <1>3, <1>4, <1>5 DEF TypeInv

(* A step that ends at most one request and lets the rows grow.             *)
LEMMA TypeCommit ==
    ASSUME TypeInv, Grows, Units(Txn)',
           \A u \in Sessions : txn'[u] = txn[u] \/ txn'[u] = Idle,
           catalog' \in Catalogs, catalog = "seeded" => catalog' = "seeded",
           approval' \in [Catalogs -> Decision], approved' \in BOOLEAN,
           approval'["seeded"] = "APPROVED" => approved',
           sub' \in [Subs -> SubRow \cup {NoSub}],
           \A u \in Subs : sub'[u] # NoSub => catalog' = "seeded",
           invoice' \in [Invoiced -> InvoiceStatus],
           event' \subseteq Invoiced \X EventKinds,
           ActivationJustified'
    PROVE  TypeInv'
  BY HoldsKept, TypeUnits DEF TypeInv, TypeOK, Units

(* Seeding the catalogue.                                                   *)
LEMMA TypeSeed == ASSUME TypeInv, EnsurePlanCatalog PROVE TypeInv'
  <1>1. Units(Txn)' /\ txn' = txn
    BY AtOnceUnits DEF TypeInv, TypeOK, Units, EnsurePlanCatalog
  <1>2. Grows /\ ActivationJustified'
    BY DEF Grows, EnsurePlanCatalog, TypeInv, ActivationJustified
  <1>3. catalog' = "seeded" /\ UNCHANGED <<approval, sub, invoice, event, approved>>
    BY DEF EnsurePlanCatalog
  <1> QED  BY <1>1, <1>2, <1>3, TypeCommit DEF TypeInv, TypeOK, Catalogs

(* The first half of a handler.                                             *)
Begin(s) ==
    \/ \E d \in Decision : BeginApprovePricing(s, d)
    \/ \E trial \in BOOLEAN : BeginCreateSubscription(s, trial)
    \/ \E u \in Subs, to \in SubStatus, ref \in BOOLEAN :
          BeginTransitionSubscription(s, u, to, ref)
    \/ \E u \in Invoiced :
          \/ \E to \in InvoiceStatus : BeginTransitionInvoice(s, u, to)
          \/ BeginBuildInvoice(s, u) \/ BeginWebhook(s, u)

(* A request that is loaded holds what it must and has decided on the rows  *)
(* as they are; an activation is allowed by the catalogue it is sold from.  *)
LEMMA BeginLoads ==
    ASSUME TypeInv, NEW s \in Sessions, Begin(s)
    PROVE  /\ \E t \in Txn : Load(s, t) /\ Holds(t) /\ SubCurrent(t) /\ InvoiceCurrent(t)
           /\ UNCHANGED billing
  <1> DEFINE Goal == /\ \E t \in Txn : Load(s, t) /\ Holds(t) /\ SubCurrent(t) /\ InvoiceCurrent(t)
                     /\ UNCHANGED billing
  <1>1. ASSUME NEW d \in Decision, BeginApprovePricing(s, d) PROVE Goal
    <2> DEFINE t == [handler |-> "price", catalog |-> catalog, decision |-> d,
                     loaded |-> approval[catalog]]
    <2>1. t \in Txn /\ Holds(t) /\ SubCurrent(t) /\ InvoiceCurrent(t)
      BY DEF TypeInv, TypeOK, Txn, Holds, SubCurrent, InvoiceCurrent
    <2> QED  BY <1>1, <2>1 DEF BeginApprovePricing
  <1>2. ASSUME NEW trial \in BOOLEAN, BeginCreateSubscription(s, trial) PROVE Goal
    <2> DEFINE t == [handler |-> "subscription", op |-> "create", trial |-> trial]
    <2>1. t \in Txn /\ Holds(t) /\ SubCurrent(t) /\ InvoiceCurrent(t)
      BY <1>2 DEF Txn, Holds, SubCurrent, InvoiceCurrent, BeginCreateSubscription
    <2> QED  BY <1>2, <2>1 DEF BeginCreateSubscription
  <1>3. ASSUME NEW u \in Invoiced, NEW to \in InvoiceStatus, BeginTransitionInvoice(s, u, to)
        PROVE  Goal
    <2> DEFINE t == [handler |-> "invoice", op |-> "transition", sub |-> u, to |-> to,
                     known |-> <<u, to>> \in event]
    <2>1. to \in {"OPEN", "PAID", "VOID"}
      BY <1>3 DEF BeginTransitionInvoice, InvoiceTransitions, TypeInv, TypeOK, InvoiceStatus
    <2>2. t \in Txn /\ Holds(t) /\ SubCurrent(t) /\ InvoiceCurrent(t)
      BY <1>3, <2>1, BillingAssumption
      DEF Txn, Holds, SubCurrent, InvoiceCurrent, BeginTransitionInvoice
    <2> QED  BY <1>3, <2>2 DEF BeginTransitionInvoice
  <1>4. ASSUME NEW u \in Invoiced, BeginBuildInvoice(s, u) PROVE Goal
    <2> DEFINE t == [handler |-> "build", sub |-> u]
    <2>1. t \in Txn /\ Holds(t) /\ SubCurrent(t) /\ InvoiceCurrent(t)
      BY BillingAssumption DEF Txn, Holds, SubCurrent, InvoiceCurrent
    <2> QED  BY <1>4, <2>1 DEF BeginBuildInvoice
  <1>5. ASSUME NEW u \in Invoiced, BeginWebhook(s, u) PROVE Goal
    <2> DEFINE t == [handler |-> "invoice", op |-> "webhook", sub |-> u]
    <2>1. t \in Txn /\ Holds(t) /\ SubCurrent(t) /\ InvoiceCurrent(t)
      BY <1>5, BillingAssumption
      DEF Txn, Holds, SubCurrent, InvoiceCurrent, BeginWebhook, PayableByWebhook
    <2> QED  BY <1>5, <2>1 DEF BeginWebhook
  <1>6. ASSUME NEW u \in Subs, NEW to \in SubStatus, NEW ref \in BOOLEAN,
               BeginTransitionSubscription(s, u, to, ref)
        PROVE  Goal
    <2> DEFINE t == [handler |-> "subscription", op |-> "transition", sub |-> u, to |-> to,
                     ref |-> ref]
    <2>1. t \in Txn
      BY DEF Txn
    <2>2. to \in SubscriptionTransitions[sub[u].status] /\ (to = "ACTIVE" => MayActivate(ref))
      BY <1>6 DEF BeginTransitionSubscription
    <2>3. sub[u] # NoSub
      BY <2>2 DEF SubscriptionTransitions, NoSub
    <2>4. sub[u] \in SubRow /\ catalog = "seeded"
      BY <2>3 DEF TypeInv, TypeOK
    <2>5. u \in ActiveSubscriptions
      BY <2>2, <2>4 DEF SubscriptionTransitions, SubRow, SubStatus, ActiveSubscriptions, Live
    <2>6. to \in {"ACTIVE", "PAST_DUE"} /\ sub[u].trial => Justified(ref \/ sub[u].ref)
      <3>1. CASE to = "ACTIVE"
        BY <2>2, <2>4, <3>1 DEF MayActivate, PricingIsApproved, TypeInv, Justified
      <3>2. CASE to = "PAST_DUE"
        <4>1. sub[u].status = "ACTIVE"
          BY <2>2, <2>4, <3>2 DEF SubscriptionTransitions, SubRow, SubStatus
        <4> QED  BY <4>1 DEF TypeInv, ActivationJustified, Justified
      <3> QED  BY <3>1, <3>2
    <2>7. Holds(t) /\ SubCurrent(t) /\ InvoiceCurrent(t)
      BY <2>3, <2>5, <2>6 DEF Holds, SubCurrent, InvoiceCurrent
    <2> QED  BY <1>6, <2>1, <2>7 DEF BeginTransitionSubscription
  <1> QED  BY <1>1, <1>2, <1>3, <1>4, <1>5, <1>6 DEF Begin

(* Deciding on the prices of the catalogue that was loaded.                 *)
LEMMA TypeApprovePricing ==
    ASSUME TypeInv, NEW s \in Sessions, ApprovePricing(s)
    PROVE  TypeInv'
  <1>1. PICK t \in Txn : t = txn[s] /\ t.handler = "price"
    BY IdleHandler DEF ApprovePricing, TypeInv, TypeOK
  <1>2. t.catalog \in Catalogs /\ t.decision \in Decision
    BY <1>1, TxnFields
  <1>3. Units(Txn)' /\ \A u \in Sessions : txn'[u] = txn[u] \/ txn'[u] = Idle
    <2>1. Units(Txn) /\ Commit(s, {"subscription"})
      BY TypeUnits DEF TypeInv, ApprovePricing
    <2> QED  BY <2>1, CommitUnits
  <1>4. /\ approval' = [approval EXCEPT ![t.catalog] =
                           IF t.decision = t.loaded THEN @ ELSE t.decision]
        /\ approved' = (approved \/ approval'["seeded"] = "APPROVED")
        /\ UNCHANGED <<catalog, sub, invoice, event>>
    BY <1>1 DEF ApprovePricing
  <1>5. Grows /\ ActivationJustified'
    BY <1>4 DEF Grows, TypeInv, ActivationJustified
  <1> QED  BY <1>2, <1>3, <1>4, <1>5, TypeCommit DEF TypeInv, TypeOK

(* Creating a subscription: one without a trial is ACTIVE at once.          *)
LEMMA TypeCreate ==
    ASSUME TypeInv, NEW s \in Sessions, CreateSubscription(s)
    PROVE  TypeInv'
  <1>1. PICK t \in Txn : t = txn[s] /\ t.handler = "subscription" /\ t.op = "create"
    BY IdleHandler DEF CreateSubscription, TypeInv, TypeOK
  <1>2. t.trial \in BOOLEAN
    BY <1>1, TxnFields
  <1>3. Units(Txn)' /\ \A u \in Sessions : txn'[u] = txn[u] \/ txn'[u] = Idle
    <2>1. Units(Txn) /\ Commit(s, {"subscription"})
      BY TypeUnits DEF TypeInv, CreateSubscription
    <2> QED  BY <2>1, CommitUnits
  <1>4. PICK u \in Subs :
          /\ sub[u] = NoSub
          /\ sub' = [sub EXCEPT ![u] = [status |-> InitialStatus(t.trial),
                                        trial |-> t.trial, ref |-> FALSE]]
    BY <1>1 DEF CreateSubscription
  <1>5. catalog' = "seeded" /\ UNCHANGED <<approval, invoice, event, approved>>
    BY DEF CreateSubscription
  <1> DEFINE row == [status |-> InitialStatus(t.trial), trial |-> t.trial, ref |-> FALSE]
  <1>6. row \in SubRow /\ row # NoSub
    BY <1>2 DEF SubRow, SubStatus, InitialStatus, NoSub
  <1>7. /\ sub' \in [Subs -> SubRow \cup {NoSub}]
        /\ sub'[u] = row
        /\ \A v \in Subs : v # u => sub'[v] = sub[v]
    BY <1>4, <1>6 DEF TypeInv, TypeOK
  <1>8. row.status \in {"ACTIVE", "PAST_DUE"} => ~row.trial
    BY <1>2 DEF InitialStatus
  <1>9. Grows
    BY <1>4, <1>5, <1>7 DEF Grows
  <1>10. ActivationJustified'
    BY <1>5, <1>7, <1>8 DEF TypeInv, ActivationJustified
  <1> QED  BY <1>3, <1>5, <1>7, <1>9, <1>10, TypeCommit DEF TypeInv, TypeOK, Catalogs

(* Changing a subscription's status, whatever it has become meanwhile.      *)
LEMMA TypeTransition ==
    ASSUME TypeInv, NEW s \in Sessions, TransitionSubscription(s)
    PROVE  TypeInv'
  <1>1. PICK t \in Txn : t = txn[s] /\ t.handler = "subscription" /\ t.op = "transition"
    BY IdleHandler DEF TransitionSubscription, TypeInv, TypeOK
  <1>2. t.sub \in Subs /\ t.to \in SubStatus /\ t.ref \in BOOLEAN
    BY <1>1, TxnFields
  <1>3. Units(Txn)' /\ \A u \in Sessions : txn'[u] = txn[u] \/ txn'[u] = Idle
    <2>1. Units(Txn) /\ Commit(s, {"subscription"})
      BY TypeUnits DEF TypeInv, TransitionSubscription
    <2> QED  BY <2>1, CommitUnits
  <1>4. Holds(t)
    BY <1>1 DEF TypeInv
  <1>5. sub[t.sub] # NoSub /\ sub[t.sub] \in SubRow
    BY <1>1, <1>2, <1>4 DEF Holds, TypeInv, TypeOK
  <1>6. /\ sub' = [sub EXCEPT ![t.sub].status = t.to, ![t.sub].ref = @ \/ t.ref]
        /\ UNCHANGED <<catalog, approval, invoice, event, approved>>
    BY <1>1 DEF TransitionSubscription
  <1> DEFINE row == [status |-> t.to, trial |-> sub[t.sub].trial,
                     ref |-> sub[t.sub].ref \/ t.ref]
  <1>7. row \in SubRow /\ row # NoSub
    BY <1>2, <1>5 DEF SubRow, NoSub, SubStatus
  <1>8. /\ sub' \in [Subs -> SubRow \cup {NoSub}]
        /\ sub'[t.sub] = row
        /\ \A v \in Subs : v # t.sub => sub'[v] = sub[v]
    <2>1. sub'[t.sub] = row
      BY <1>2, <1>5, <1>6 DEF TypeInv, TypeOK, SubRow
    <2>2. \A v \in Subs : v # t.sub => sub'[v] = sub[v]
      BY <1>2, <1>6 DEF TypeInv, TypeOK
    <2>3. DOMAIN sub' = Subs /\ sub' = [v \in Subs |-> sub'[v]]
      BY <1>6 DEF TypeInv, TypeOK
    <2> QED  BY <2>1, <2>2, <2>3, <1>7 DEF TypeInv, TypeOK
  <1>9. Grows
    <2>1. sub'[t.sub] # NoSub
      BY <1>7, <1>8
    <2>2. sub'[t.sub].trial = sub[t.sub].trial /\ (sub[t.sub].ref => sub'[t.sub].ref)
      <3>1. row.trial = sub[t.sub].trial /\ row.ref = (sub[t.sub].ref \/ t.ref)
        OBVIOUS
      <3> QED  BY <1>8, <3>1, Zenon
    <2>3. approved => approved'
      BY <1>6
    <2> QED  BY <1>8, <2>1, <2>2, <2>3 DEF Grows
  <1>10. ActivationJustified'
    <2>1. row.status \in {"ACTIVE", "PAST_DUE"} /\ row.trial
            => row.ref /\ (PricesInEnv \/ approved)
      BY <1>1, <1>4 DEF Holds, Justified
    <2> QED  BY <1>6, <1>8, <2>1 DEF TypeInv, ActivationJustified
  <1>11. \A v \in Subs : sub'[v] # NoSub => catalog' = "seeded"
    BY <1>2, <1>5, <1>6, <1>8 DEF TypeInv
  <1> QED  BY <1>3, <1>6, <1>8, <1>9, <1>10, <1>11, TypeCommit DEF TypeInv, TypeOK

(* The three handlers that write an invoice.                                *)
LEMMA TypeInvoice ==
    ASSUME TypeInv, NEW s \in Sessions,
           BuildInvoice(s) \/ TransitionInvoice(s) \/ Webhook(s)
    PROVE  TypeInv'
  <1>1. PICK t \in Txn : t = txn[s] /\ t.handler \in {"build", "invoice"}
    BY IdleHandler DEF BuildInvoice, TransitionInvoice, Webhook, TypeInv, TypeOK
  <1>2. t.sub \in Invoiced
    BY <1>1 DEF TypeInv, Holds
  <1>3. Units(Txn)' /\ \A u \in Sessions : txn'[u] = txn[u] \/ txn'[u] = Idle
    <2>1. Units(Txn) /\ \E hit : Commit(s, hit)
      BY TypeUnits DEF TypeInv, BuildInvoice, TransitionInvoice, Webhook
    <2>2. PICK hit : Commit(s, hit)
      BY <2>1
    <2> QED  BY <2>1, <2>2, CommitUnits
  <1>4. UNCHANGED <<catalog, approval, sub, approved>>
    BY DEF BuildInvoice, TransitionInvoice, Webhook
  <1>5. Grows /\ ActivationJustified'
    BY <1>4 DEF Grows, TypeInv, ActivationJustified
  <1>6. invoice' \in [Invoiced -> InvoiceStatus] /\ event' \subseteq Invoiced \X EventKinds
    <2>1. CASE BuildInvoice(s)
      BY <1>1, <1>2, <2>1 DEF BuildInvoice, TypeInv, TypeOK, InvoiceStatus
    <2>2. CASE Webhook(s)
      BY <1>1, <1>2, <2>2 DEF Webhook, TypeInv, TypeOK, InvoiceStatus, EventKinds
    <2>3. CASE TransitionInvoice(s)
      <3>1. t.to \in InvoiceStatus
        BY <1>1, <2>3, TxnFields DEF TransitionInvoice
      <3>2. t.to \in {"OPEN", "PAID", "VOID"}
        BY <1>1, <2>3 DEF TransitionInvoice, TypeInv, Holds
      <3> QED  BY <1>1, <1>2, <2>3, <3>1, <3>2 DEF TransitionInvoice, TypeInv, TypeOK, EventKinds
    <2> QED  BY <2>1, <2>2, <2>3
  <1> QED  BY <1>3, <1>4, <1>5, <1>6, TypeCommit DEF TypeInv, TypeOK

(* Every step keeps it.                                                     *)
LEMMA TypeNext == ASSUME TypeInv, [Next]_vars PROVE TypeInv'
  <1>1. ASSUME NEW s \in Sessions, RollBack(s) PROVE TypeInv'
    <2>1. Units(Txn)' /\ \A u \in Sessions : txn'[u] = txn[u] \/ txn'[u] = Idle
      <3>1. Units(Txn) /\ Abandon(s)
        BY <1>1, TypeUnits DEF TypeInv, RollBack
      <3> QED  BY <3>1, AbandonUnits
    <2>2. UNCHANGED <<catalog, approval, sub, invoice, event, approved>>
      BY <1>1 DEF RollBack, billing
    <2>3. Grows /\ ActivationJustified'
      BY <2>2 DEF Grows, TypeInv, ActivationJustified
    <2> QED  BY <2>1, <2>2, <2>3, TypeCommit DEF TypeInv, TypeOK
  <1>2. CASE UNCHANGED vars
    <2>1. /\ UNCHANGED <<catalog, approval, sub, invoice, event, approved>>
          /\ UNCHANGED uow
      BY <1>2 DEF vars
    <2>2. Units(Txn)' /\ txn' = txn
      <3>1. Units(Txn)
        BY TypeUnits DEF TypeInv
      <3> QED  BY <3>1, <2>1, SameUnits
    <2>3. Grows /\ ActivationJustified'
      BY <2>1 DEF Grows, TypeInv, ActivationJustified
    <2> QED  BY <2>1, <2>2, <2>3, TypeCommit DEF TypeInv, TypeOK
  <1> QED  BY <1>1, <1>2, TypeSeed, BeginLoads, TypeLoad, TypeApprovePricing,
              TypeCreate, TypeTransition, TypeInvoice DEF Next, Begin

(* The type invariant, with what it rests on.                               *)
LEMMA TypeAlways == Spec => []TypeInv
  BY TypeInit, TypeNext, PTL DEF Spec

(* Every row of the plan, approval, subscription, invoice and event tables  *)
(* keeps its type, and a request names rows that exist.                     *)
THEOREM TypeCorrect == Spec => []TypeOK
  <1>1. TypeInv => TypeOK
    BY DEF TypeInv
  <1> QED  BY <1>1, TypeAlways, PTL

(* transition_subscription never activates after a trial without a contract *)
(* or payment reference and an approval of the seeded catalogue, however    *)
(* approve_pricing, ensure_plan_catalog and other transitions interleave    *)
(* with it.                                                                 *)
THEOREM ActivationIsJustified == Spec => []ActivationJustified
  <1>1. TypeInv => ActivationJustified
    BY DEF TypeInv
  <1> QED  BY <1>1, TypeAlways, PTL

------------------------------------------------------------------------------
(* At most one subscription is live                                         *)

(* A step that leaves the subscriptions alone and gives no session a new    *)
(* request.                                                                 *)
LEMMA LiveKept ==
    ASSUME OneLiveInv, sub' = sub, raced \subseteq raced',
           \A u \in Sessions : \/ txn'[u] = Idle
                               \/ txn'[u] = txn[u] /\ (u \in late => u \in late')
    PROVE  OneLiveInv'
  <1> SUFFICES ASSUME "subscription" \notin raced'
               PROVE  /\ \A u, v \in ActiveSubscriptions' : u = v
                      /\ \A s \in Sessions : s \in late' \/ SubCurrent(txn[s])'
    BY DEF OneLiveInv
  <1>1. /\ \A u, v \in ActiveSubscriptions : u = v
        /\ \A s \in Sessions : s \in late \/ SubCurrent(txn[s])
    BY DEF OneLiveInv
  <1>2. ActiveSubscriptions' = ActiveSubscriptions
    BY DEF ActiveSubscriptions
  <1>3. ASSUME NEW s \in Sessions PROVE s \in late' \/ SubCurrent(txn[s])'
    <2>1. CASE txn'[s] = Idle
      BY <2>1, IdleHandler DEF SubCurrent
    <2>2. CASE txn'[s] = txn[s] /\ (s \in late => s \in late')
      BY <1>1, <1>2, <2>2 DEF SubCurrent, NoActiveSubscription
    <2> QED  BY <2>1, <2>2
  <1> QED  BY <1>1, <1>2, <1>3

(* A step that only loads rows.                                             *)
LEMMA LiveLoad ==
    ASSUME TypeInv, OneLiveInv, NEW s \in Sessions, NEW t \in Txn, Load(s, t),
           UNCHANGED billing, SubCurrent(t)
    PROVE  OneLiveInv'
  <1>1. /\ txn'[s] = t
        /\ \A u \in Sessions : u # s => txn'[u] = txn[u]
        /\ late' = late /\ raced' = raced
    <2>1. Units(Txn) /\ t # Idle
      BY NotIdle, TypeUnits DEF TypeInv
    <2> QED  BY <2>1, LoadUnits
  <1>2. ActiveSubscriptions' = ActiveSubscriptions
    BY DEF ActiveSubscriptions, billing
  <1>3. ASSUME NEW u \in Sessions, u \in late \/ SubCurrent(txn[u])
        PROVE  u \in late' \/ SubCurrent(txn[u])'
    <2>1. CASE u = s
      BY <1>1, <1>2, <2>1 DEF SubCurrent, NoActiveSubscription
    <2>2. CASE u # s
      BY <1>1, <1>2, <1>3, <2>2 DEF SubCurrent, NoActiveSubscription
    <2> QED  BY <2>1, <2>2
  <1> QED  BY <1>1, <1>2, <1>3 DEF OneLiveInv

(* A commit of a subscription handler: every other one in flight is late.   *)
LEMMA LiveCommit ==
    ASSUME TypeInv, OneLiveInv, NEW s \in Sessions, txn[s].handler = "subscription",
           Commit(s, {"subscription"}),
           s \notin late /\ "subscription" \notin raced /\ SubCurrent(txn[s])
             => \A u, v \in ActiveSubscriptions' : u = v
    PROVE  OneLiveInv'
  <1> SUFFICES ASSUME "subscription" \notin raced'
               PROVE  /\ \A u, v \in ActiveSubscriptions' : u = v
                      /\ \A u \in Sessions : u \in late' \/ SubCurrent(txn[u])'
    BY DEF OneLiveInv
  <1>1. Units(Txn)
    BY TypeUnits DEF TypeInv
  <1>2. /\ txn'[s] = Idle
        /\ \A u \in Sessions : u # s => txn'[u] = txn[u]
        /\ \A u \in Sessions : u # s /\ txn[u] # Idle /\ txn[u].handler \in {"subscription"}
                                 => u \in late'
        /\ raced \subseteq raced'
        /\ txn[s].handler \notin raced' => s \notin late
    BY <1>1, CommitUnits
  <1>3. s \notin late /\ "subscription" \notin raced /\ SubCurrent(txn[s])
    BY <1>2 DEF OneLiveInv
  <1>4. ASSUME NEW u \in Sessions PROVE u \in late' \/ SubCurrent(txn[u])'
    BY <1>2, IdleHandler DEF SubCurrent
  <1> QED  BY <1>3, <1>4

(* Two subscriptions are never live before somebody was late.               *)
LEMMA LiveNext == ASSUME TypeInv, OneLiveInv, [Next]_vars PROVE OneLiveInv'
  <1>0. Units(Txn)
    BY TypeUnits DEF TypeInv
  <1>1. CASE EnsurePlanCatalog
    <2>1. txn' = txn /\ raced' = raced /\ late \subseteq late'
      BY <1>0, <1>1, AtOnceUnits DEF EnsurePlanCatalog
    <2> QED  BY <1>1, <2>1, LiveKept DEF EnsurePlanCatalog
  <1>2. ASSUME NEW s \in Sessions, Begin(s) PROVE OneLiveInv'
    BY <1>2, BeginLoads, LiveLoad
  <1>3. ASSUME NEW s \in Sessions,
               ApprovePricing(s) \/ BuildInvoice(s) \/ TransitionInvoice(s) \/ Webhook(s)
        PROVE  OneLiveInv'
    <2>1. sub' = sub /\ \E hit : Commit(s, hit)
      BY <1>3 DEF ApprovePricing, BuildInvoice, TransitionInvoice, Webhook
    <2>2. PICK hit : Commit(s, hit)
      BY <2>1
    <2>3. /\ raced \subseteq raced'
          /\ \A u \in Sessions : \/ txn'[u] = Idle
                                 \/ txn'[u] = txn[u] /\ (u \in late => u \in late')
      BY <1>0, <2>2, CommitUnits
    <2> QED  BY <2>1, <2>3, LiveKept
  <1>4. ASSUME NEW s \in Sessions, CreateSubscription(s) PROVE OneLiveInv'
    <2>1. PICK t \in Txn : t = txn[s] /\ t.handler = "subscription" /\ t.op = "create"
      BY <1>4, IdleHandler DEF CreateSubscription, TypeInv, TypeOK
    <2>2. PICK u \in Subs : \E row : sub' = [sub EXCEPT ![u] = row]
      BY <1>4 DEF CreateSubscription
    <2>3. \A v \in Subs : v # u => sub'[v] = sub[v]
      BY <2>2 DEF TypeInv, TypeOK
    <2>4. SubCurrent(txn[s]) => ActiveSubscriptions' \subseteq {u}
      BY <2>1, <2>3 DEF SubCurrent, NoActiveSubscription, ActiveSubscriptions
    <2> QED  BY <1>4, <2>1, <2>4, LiveCommit DEF CreateSubscription
  <1>5. ASSUME NEW s \in Sessions, TransitionSubscription(s) PROVE OneLiveInv'
    <2>1. PICK t \in Txn : t = txn[s] /\ t.handler = "subscription" /\ t.op = "transition"
      BY <1>5, IdleHandler DEF TransitionSubscription, TypeInv, TypeOK
    <2>2. \A v \in Subs : v # t.sub => sub'[v] = sub[v]
      BY <1>5, <2>1 DEF TransitionSubscription, TypeInv, TypeOK
    <2>3. SubCurrent(txn[s]) => ActiveSubscriptions' \subseteq ActiveSubscriptions
      BY <2>1, <2>2 DEF SubCurrent, ActiveSubscriptions
    <2>4. "subscription" \notin raced => \A u, v \in ActiveSubscriptions : u = v
      BY DEF OneLiveInv
    <2> QED  BY <1>5, <2>1, <2>3, <2>4, LiveCommit DEF TransitionSubscription
  <1>6. ASSUME NEW s \in Sessions, RollBack(s) PROVE OneLiveInv'
    <2>1. sub' = sub /\ Abandon(s)
      BY <1>6 DEF RollBack, billing
    <2>2. /\ txn'[s] = Idle /\ raced' = raced
          /\ \A u \in Sessions : u # s => txn'[u] = txn[u] /\ (u \in late <=> u \in late')
      BY <1>0, <2>1, AbandonUnits
    <2> QED  BY <2>1, <2>2, LiveKept
  <1>7. CASE UNCHANGED vars
    BY <1>7, LiveKept DEF vars, uow
  <1> QED  BY <1>1, <1>2, <1>3, <1>4, <1>5, <1>6, <1>7 DEF Next, Begin

(* create_subscription leaves a tenant with one live subscription at most,  *)
(* as long as no creation or transition committed what had changed since it *)
(* looked: active_subscription's answer is unique.                          *)
THEOREM OneIsLive == Spec => []OneLiveSubscription
  <1>1. Init => OneLiveInv
    <2> SUFFICES ASSUME Init PROVE OneLiveInv  OBVIOUS
    <2>1. \A s \in Sessions : txn[s] = Idle
      BY UnitsStart DEF Init
    <2>2. ActiveSubscriptions = {}
      BY DEF Init, ActiveSubscriptions, NoSub, Live
    <2> QED  BY <2>1, <2>2, IdleHandler DEF OneLiveInv, SubCurrent
  <1>2. OneLiveInv => OneLiveSubscription
    BY AtMostOne DEF OneLiveInv, OneLiveSubscription
  <1> QED  BY <1>1, <1>2, LiveNext, TypeAlways, PTL DEF Spec

------------------------------------------------------------------------------
(* Payments                                                                 *)

(* A step that keeps the invoices of the requests in flight and all events. *)
LEMMA PaymentKept ==
    ASSUME TypeInv, PaymentInv, event' = event, raced \subseteq raced',
           \A u \in Invoiced : \/ invoice'[u] = invoice[u]
                               \/ invoice[u] = "ABSENT" /\ invoice'[u] = "DRAFT",
           \A u \in Sessions : \/ txn'[u] = Idle
                               \/ txn'[u] = txn[u] /\ (u \in late => u \in late')
    PROVE  PaymentInv'
  <1>1. \A u \in Invoiced : invoice'[u] = "PAID" => invoice[u] = "PAID"
    OBVIOUS
  <1>2. ASSUME NEW u \in Invoiced, PaidOnce(u) PROVE PaidOnce(u)'
    BY <1>2 DEF PaidOnce
  <1>3. ASSUME NEW s \in Sessions, s \in late \/ InvoiceCurrent(txn[s])
        PROVE  s \in late' \/ InvoiceCurrent(txn[s])'
    <2>1. CASE txn'[s] = Idle
      BY <2>1, IdleHandler DEF InvoiceCurrent
    <2>2. CASE txn'[s] = txn[s] /\ s \in late /\ s \in late'
      BY <2>2
    <2>3. CASE txn'[s] = txn[s] /\ InvoiceCurrent(txn[s]) /\ txn[s].handler = "invoice"
      <3>1. PICK t \in Txn : t = txn[s]
        BY <2>3, IdleHandler DEF TypeInv, TypeOK
      <3>2. t.sub \in Invoiced
        BY <2>3, <3>1 DEF TypeInv, Holds
      <3>3. t.op \in {"transition", "webhook"}
        BY <2>3, <3>1, TxnFields
      <3>4. invoice[t.sub] # "ABSENT"
        BY <2>3, <3>1, <3>3 DEF InvoiceCurrent, InvoiceTransitions
      <3> QED  BY <2>3, <3>1, <3>2, <3>4 DEF InvoiceCurrent
    <2>4. CASE txn'[s] = txn[s] /\ txn[s].handler # "invoice"
      BY <2>4 DEF InvoiceCurrent
    <2> QED  BY <1>3, <2>1, <2>2, <2>3, <2>4
  <1> QED  BY <1>1, <1>2, <1>3 DEF PaymentInv

(* A step that only loads rows.                                             *)
LEMMA PaymentLoad ==
    ASSUME TypeInv, PaymentInv, NEW s \in Sessions, NEW t \in Txn, Load(s, t),
           UNCHANGED billing, InvoiceCurrent(t)
    PROVE  PaymentInv'
  <1>1. /\ txn'[s] = t
        /\ \A u \in Sessions : u # s => txn'[u] = txn[u]
        /\ late' = late /\ raced' = raced
    <2>1. Units(Txn) /\ t # Idle
      BY NotIdle, TypeUnits DEF TypeInv
    <2> QED  BY <2>1, LoadUnits
  <1>2. invoice' = invoice /\ event' = event
    BY DEF billing
  <1>3. ASSUME NEW u \in Sessions, u \in late \/ InvoiceCurrent(txn[u])
        PROVE  u \in late' \/ InvoiceCurrent(txn[u])'
    <2>1. CASE u = s
      BY <1>1, <1>2, <2>1 DEF InvoiceCurrent
    <2>2. CASE u # s
      BY <1>1, <1>2, <1>3, <2>2 DEF InvoiceCurrent
    <2> QED  BY <2>1, <2>2
  <1> QED  BY <1>1, <1>2, <1>3 DEF PaymentInv, PaidOnce

(* An invoice handler moves the invoice to `to' and records the event k of  *)
(* it, a payment exactly when to is PAID.  If it was not late the invoice   *)
(* had not been paid.                                                       *)
LEMMA PaymentCommit ==
    ASSUME TypeInv, PaymentInv, NEW s \in Sessions, txn[s].handler = "invoice",
           NEW u \in Invoiced, NEW to \in {"OPEN", "PAID", "VOID"}, NEW k,
           k \in {"PAID", "webhook_paid"} <=> to = "PAID",
           invoice' = [invoice EXCEPT ![u] = to], event' = event \cup {<<u, k>>},
           Commit(s, {"invoice"}),
           InvoiceCurrent(txn[s]) => invoice[u] # "PAID"
    PROVE  PaymentInv'
  <1>1. Units(Txn)
    BY TypeUnits DEF TypeInv
  <1>2. /\ txn'[s] = Idle
        /\ \A v \in Sessions : v # s => txn'[v] = txn[v]
        /\ \A v \in Sessions : v # s /\ txn[v] # Idle /\ txn[v].handler \in {"invoice"}
                                 => v \in late'
        /\ raced \subseteq raced'
        /\ txn[s].handler \notin raced' => s \notin late
    BY <1>1, CommitUnits
  <1>3. invoice'[u] = to /\ \A v \in Invoiced : v # u => invoice'[v] = invoice[v]
    BY DEF TypeInv, TypeOK
  <1>4. \A v \in Invoiced : invoice'[v] = "PAID"
          => <<v, "PAID">> \in event' \/ <<v, "webhook_paid">> \in event'
    BY <1>3 DEF PaymentInv
  <1>5. ASSUME "invoice" \notin raced', NEW v \in Invoiced PROVE PaidOnce(v)'
    <2>1. InvoiceCurrent(txn[s]) /\ PaidOnce(v)
      BY <1>2, <1>5 DEF PaymentInv
    <2>2. CASE v = u
      <3>1. <<u, "PAID">> \notin event /\ <<u, "webhook_paid">> \notin event
        BY <2>1, <2>2 DEF PaidOnce
      <3> QED  BY <1>3, <2>2, <3>1 DEF PaidOnce
    <2>3. CASE v # u
      BY <1>3, <2>1, <2>3 DEF PaidOnce
    <2> QED  BY <2>2, <2>3
  <1>6. ASSUME NEW v \in Sessions PROVE v \in late' \/ InvoiceCurrent(txn[v])'
    BY <1>2, IdleHandler DEF InvoiceCurrent
  <1> QED  BY <1>4, <1>5, <1>6 DEF PaymentInv

(* No step pays an invoice without an event, and none twice unless late.    *)
LEMMA PaymentNext == ASSUME TypeInv, PaymentInv, [Next]_vars PROVE PaymentInv'
  <1>0. Units(Txn)
    BY TypeUnits DEF TypeInv
  <1>1. CASE EnsurePlanCatalog
    <2>1. txn' = txn /\ raced' = raced /\ late \subseteq late'
      BY <1>0, <1>1, AtOnceUnits DEF EnsurePlanCatalog
    <2> QED  BY <1>1, <2>1, PaymentKept DEF EnsurePlanCatalog
  <1>2. ASSUME NEW s \in Sessions, Begin(s) PROVE PaymentInv'
    BY <1>2, BeginLoads, PaymentLoad
  <1>3. ASSUME NEW s \in Sessions, ApprovePricing(s) \/ CreateSubscription(s)
                                     \/ TransitionSubscription(s)
        PROVE  PaymentInv'
    <2>1. invoice' = invoice /\ event' = event /\ Commit(s, {"subscription"})
      BY <1>3 DEF ApprovePricing, CreateSubscription, TransitionSubscription
    <2>2. /\ raced \subseteq raced'
          /\ \A u \in Sessions : \/ txn'[u] = Idle
                                 \/ txn'[u] = txn[u] /\ (u \in late => u \in late')
      BY <1>0, <2>1, CommitUnits
    <2> QED  BY <2>1, <2>2, PaymentKept
  <1>4. ASSUME NEW s \in Sessions, BuildInvoice(s) PROVE PaymentInv'
    <2>1. \A u \in Invoiced : \/ invoice'[u] = invoice[u]
                              \/ invoice[u] = "ABSENT" /\ invoice'[u] = "DRAFT"
      BY <1>4 DEF BuildInvoice, TypeInv, TypeOK
    <2>2. event' = event /\ Commit(s, {"build"})
      BY <1>4 DEF BuildInvoice
    <2>3. /\ raced \subseteq raced'
          /\ \A u \in Sessions : \/ txn'[u] = Idle
                                 \/ txn'[u] = txn[u] /\ (u \in late => u \in late')
      BY <1>0, <2>2, CommitUnits
    <2> QED  BY <2>1, <2>2, <2>3, PaymentKept
  <1>5. ASSUME NEW s \in Sessions, TransitionInvoice(s) PROVE PaymentInv'
    <2>1. PICK t \in Txn : t = txn[s] /\ t.handler = "invoice" /\ t.op = "transition"
      BY <1>5, IdleHandler DEF TransitionInvoice, TypeInv, TypeOK
    <2>2. t.sub \in Invoiced /\ t.to \in {"OPEN", "PAID", "VOID"}
      BY <2>1 DEF TypeInv, Holds
    <2>3. InvoiceCurrent(txn[s]) => invoice[t.sub] # "PAID"
      BY <2>1 DEF InvoiceCurrent, InvoiceTransitions
    <2>4. /\ invoice' = [invoice EXCEPT ![t.sub] = t.to]
          /\ event' = event \cup {<<t.sub, t.to>>}
          /\ Commit(s, {"invoice"})
      BY <1>5, <2>1 DEF TransitionInvoice
    <2> QED  BY <2>1, <2>2, <2>3, <2>4, PaymentCommit
  <1>6. ASSUME NEW s \in Sessions, Webhook(s) PROVE PaymentInv'
    <2>1. PICK t \in Txn : t = txn[s] /\ t.handler = "invoice" /\ t.op = "webhook"
      BY <1>6, IdleHandler DEF Webhook, TypeInv, TypeOK
    <2>2. t.sub \in Invoiced
      BY <2>1 DEF TypeInv, Holds
    <2>3. InvoiceCurrent(txn[s]) => invoice[t.sub] # "PAID"
      BY <2>1 DEF InvoiceCurrent
    <2>4. /\ invoice' = [invoice EXCEPT ![t.sub] = "PAID"]
          /\ event' = event \cup {<<t.sub, "webhook_paid">>}
          /\ Commit(s, {"invoice"})
      BY <1>6, <2>1 DEF Webhook
    <2> QED  BY <2>1, <2>2, <2>3, <2>4, PaymentCommit
  <1>7. ASSUME NEW s \in Sessions, RollBack(s) PROVE PaymentInv'
    <2>1. invoice' = invoice /\ event' = event /\ Abandon(s)
      BY <1>7 DEF RollBack, billing
    <2>2. /\ txn'[s] = Idle /\ raced' = raced
          /\ \A u \in Sessions : u # s => txn'[u] = txn[u] /\ (u \in late <=> u \in late')
      BY <1>0, <2>1, AbandonUnits
    <2> QED  BY <2>1, <2>2, PaymentKept
  <1>8. CASE UNCHANGED vars
    BY <1>8, PaymentKept DEF vars, uow
  <1> QED  BY <1>1, <1>2, <1>3, <1>4, <1>5, <1>6, <1>7, <1>8 DEF Next, Begin

(* The payment events of an invoice are counted.                            *)
LEMMA PaymentsCounted == PaymentInv => PaymentsAccounted
  <1> SUFFICES ASSUME PaymentInv, NEW u \in Invoiced
               PROVE  /\ invoice[u] = "PAID" => Payments(u) # {}
                      /\ "invoice" \notin raced
                           => Cardinality(Payments(u)) = IF invoice[u] = "PAID" THEN 1 ELSE 0
    BY DEF PaymentsAccounted
  <1>1. invoice[u] = "PAID" => Payments(u) # {}
    BY DEF PaymentInv, Payments
  <1>2. ASSUME "invoice" \notin raced, invoice[u] = "PAID" PROVE Cardinality(Payments(u)) = 1
    <2>1. \E k : Payments(u) = {k}
      BY <1>2 DEF PaymentInv, PaidOnce, Payments
    <2> QED  BY <2>1, FS_Singleton
  <1>3. ASSUME "invoice" \notin raced, invoice[u] # "PAID" PROVE Cardinality(Payments(u)) = 0
    <2>1. Payments(u) = {}
      BY <1>3 DEF PaymentInv, PaidOnce, Payments
    <2> QED  BY <2>1, FS_EmptySet
  <1> QED  BY <1>1, <1>2, <1>3

(* transition_invoice and the payment webhook leave exactly one payment     *)
(* event on a PAID invoice and none on another, unless one of the two       *)
(* committed late; a PAID invoice has one even then.                        *)
THEOREM PaymentsAreAccounted == Spec => []PaymentsAccounted
  <1>1. Init => PaymentInv
    <2> SUFFICES ASSUME Init PROVE PaymentInv  OBVIOUS
    <2>1. \A s \in Sessions : txn[s] = Idle
      BY UnitsStart DEF Init
    <2> QED  BY <2>1, IdleHandler DEF Init, PaymentInv, PaidOnce, InvoiceCurrent
  <1> QED  BY <1>1, PaymentsCounted, PaymentNext, TypeAlways, PTL DEF Spec

=============================================================================
