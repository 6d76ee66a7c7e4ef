------------------------------- MODULE Billing -------------------------------
(***************************************************************************)
(* A tenant's plan catalogue and its price approvals, its subscriptions    *)
(* and their invoices: the handlers of services/commercial/billing.py and  *)
(* the routes that call them, with the payment webhook.                    *)
(*                                                                         *)
(* The billing period of a subscription is never moved on, so that each    *)
(* subscription has at most one invoice.  What an invoice charges is fixed *)
(* when it is built and plays no part in what happens to it later; amounts *)
(* and usage records are left out.                                         *)
(***************************************************************************)
EXTENDS Naturals, FiniteSets, UnitOfWork

CONSTANTS
    Subs,         \* bound: TenantSubscription rows
    Invoiced,     \* bound: the ones an invoice is built for
    PricesInEnv   \* settings.commercial_pricing_approved

ASSUME BillingAssumption == PricesInEnv \in BOOLEAN /\ Invoiced \subseteq Subs

VARIABLES
    catalog,   \* "empty", or "seeded" with the reference plans
    approval,  \* PricingApproval.decision by the catalogue it is bound to
    sub,       \* TenantSubscription rows
    invoice,   \* Invoice.status by subscription
    event,     \* BillingEvent keys
    approved   \* history: the seeded catalogue has been approved

billing == <<catalog, approval, sub, invoice, event, approved>>
vars == <<catalog, approval, sub, invoice, event, approved, uow>>

------------------------------------------------------------------------------
(* Rows                                                                     *)

Catalogs == {"empty", "seeded"}
Decision == {"NONE", "APPROVED", "REJECTED"}
SubStatus == {"TRIALING", "ACTIVE", "PAST_DUE", "CANCELLED"}
Live == {"TRIALING", "ACTIVE", "PAST_DUE"}
NoSub == [status |-> "ABSENT", trial |-> FALSE, ref |-> FALSE]
SubRow == [status : SubStatus, trial : BOOLEAN, ref : BOOLEAN]
InvoiceStatus == {"ABSENT", "DRAFT", "OPEN", "PAID", "VOID"}
EventKinds == {"OPEN", "PAID", "VOID", "webhook_paid"}

Txn == [handler : {"subscription"}, op : {"create"}, trial : BOOLEAN]
         \cup [handler : {"subscription"}, op : {"transition"}, sub : Subs, to : SubStatus,
               ref : BOOLEAN]
         \cup [handler : {"build"}, sub : Subs]
         \cup [handler : {"invoice"}, op : {"transition"}, sub : Subs, to : InvoiceStatus,
               known : BOOLEAN]
         \cup [handler : {"invoice"}, op : {"webhook"}, sub : Subs]
         \cup [handler : {"price"}, catalog : Catalogs, decision : Decision,
               loaded : Decision]

(* Every column holds a value of its type.                                  *)
TypeOK ==
    /\ catalog \in Catalogs
    /\ approval \in [Catalogs -> Decision]
    /\ sub \in [Subs -> SubRow \cup {NoSub}]
    /\ invoice \in [Invoiced -> InvoiceStatus]
    /\ event \subseteq Invoiced \X EventKinds
    /\ approved \in BOOLEAN
    /\ txn \in [Sessions -> Txn \cup {Idle}] /\ UnitsOK

Init ==
    /\ catalog = "empty"
    /\ approval = [c \in Catalogs |-> "NONE"]
    /\ sub = [u \in Subs |-> NoSub]
    /\ invoice = [u \in Invoiced |-> "ABSENT"]
    /\ event = {}
    /\ approved = FALSE
    /\ UnitsInit

------------------------------------------------------------------------------
(* The catalogue and its price approval                                     *)

(* ensure_plan_catalog, from the route that lists the plans.                *)
EnsurePlanCatalog ==
    /\ catalog = "empty"
    /\ catalog' = "seeded"
    /\ CommitAtOnce({"subscription"})
    /\ UNCHANGED <<approval, sub, invoice, event, approved>>

(* approve_pricing: the decision is bound to the catalogue's content hash.  *)
BeginApprovePricing(s, d) ==
    /\ d \in {"APPROVED", "REJECTED"}
    /\ Load(s, [handler |-> "price", catalog |-> catalog, decision |-> d,
                loaded |-> approval[catalog]])
    /\ UNCHANGED billing

(* uq_pricing_approval_catalog stops a second insert; a decision that is    *)
(* the loaded one is not written again.                                     *)
ApprovePricing(s) ==
    LET t == txn[s] IN
    /\ t.handler = "price"
    /\ t.loaded = "NONE" => approval[t.catalog] = "NONE"
    /\ approval' = [approval EXCEPT ![t.catalog] = IF t.decision = t.loaded THEN @ ELSE t.decision]
    /\ approved' = (approved \/ approval'["seeded"] = "APPROVED")
    /\ Commit(s, {"subscription"})
    /\ UNCHANGED <<catalog, sub, invoice, event>>

(* Mutant of PricingIsApproved: an approval of any catalogue will do. *)
PricingIsApprovedEver == \E c \in Catalogs : approval[c] = "APPROVED"

PricingIsApproved == approval[catalog] = "APPROVED"

------------------------------------------------------------------------------
(* Subscriptions                                                            *)

ActiveSubscriptions == {u \in Subs : sub[u].status \in Live}

(* Mutant of NoActiveSubscription: a lapsed payment frees the tenant. *)
NoActiveSubscriptionButDue == \A u \in Subs : sub[u].status \notin Live \ {"PAST_DUE"}

NoActiveSubscription == ActiveSubscriptions = {}

(* create_subscription seeds the catalogue.                                 *)
BeginCreateSubscription(s, trial) ==
    /\ NoActiveSubscription
    /\ Load(s, [handler |-> "subscription", op |-> "create", trial |-> trial])
    /\ UNCHANGED billing

(* Mutant of InitialStatus: a status that the transition table lacks. *)
InitialStatusPending(trial) == IF trial THEN "TRIALING" ELSE "PENDING"

InitialStatus(trial) == IF trial THEN "TRIALING" ELSE "ACTIVE"

CreateSubscription(s) ==
    LET t == txn[s] IN
    /\ t.handler = "subscription" /\ t.op = "create"
    /\ \E u \in Subs :
          /\ sub[u] = NoSub
          /\ sub' = [sub EXCEPT ![u] = [status |-> InitialStatus(t.trial),
                                        trial |-> t.trial, ref |-> FALSE]]
    /\ catalog' = "seeded"
    /\ Commit(s, {"subscription"})
    /\ UNCHANGED <<approval, invoice, event, approved>>

SubscriptionTransitions ==
    [ABSENT |-> {}, TRIALING |-> {"ACTIVE", "CANCELLED"}, ACTIVE |-> {"PAST_DUE", "CANCELLED"},
     PAST_DUE |-> {"ACTIVE", "CANCELLED"}, CANCELLED |-> {}]

MayActivate(ref) == (PricesInEnv \/ PricingIsApproved) /\ ref

BeginTransitionSubscription(s, u, to, ref) ==
    /\ to \in SubscriptionTransitions[sub[u].status]
    /\ to = "ACTIVE" => MayActivate(ref)
    /\ Load(s, [handler |-> "subscription", op |-> "transition", sub |-> u, to |-> to,
                ref |-> ref])
    /\ UNCHANGED billing

TransitionSubscription(s) ==
    LET t == txn[s] IN
    /\ t.handler = "subscription" /\ t.op = "transition"
    /\ sub' = [sub EXCEPT ![t.sub].status = t.to, ![t.sub].ref = @ \/ t.ref]
    /\ Commit(s, {"subscription"})
    /\ UNCHANGED <<catalog, approval, invoice, event, approved>>

------------------------------------------------------------------------------
(* Invoices                                                                 *)

(* build_invoice, of a subscription in any state; an invoice of the same    *)
(* period is returned as it is.                                             *)
BeginBuildInvoice(s, u) ==
    /\ u \in Invoiced /\ sub[u] # NoSub
    /\ invoice[u] = "ABSENT"
    /\ Load(s, [handler |-> "build", sub |-> u])
    /\ UNCHANGED billing

(* uq_invoice_number.                                                       *)
BuildInvoice(s) ==
    LET t == txn[s] IN
    /\ t.handler = "build"
    /\ invoice[t.sub] = "ABSENT"
    /\ invoice' = [invoice EXCEPT ![t.sub] = "DRAFT"]
    /\ Commit(s, {"build"})
    /\ UNCHANGED <<catalog, approval, sub, event, approved>>

(* Mutant of InvoiceTransitions: a paid invoice may be voided. *)
InvoiceTransitionsRefund ==
    [ABSENT |-> {}, DRAFT |-> {"OPEN", "VOID"}, OPEN |-> {"PAID", "VOID"}, PAID |-> {"VOID"},
     VOID |-> {}]

InvoiceTransitions ==
    [ABSENT |-> {}, DRAFT |-> {"OPEN", "VOID"}, OPEN |-> {"PAID", "VOID"}, PAID |-> {},
     VOID |-> {}]

(* transition_invoice; PAID comes with a reference or manual evidence.      *)
BeginTransitionInvoice(s, u, to) ==
    /\ to \in InvoiceTransitions[invoice[u]]
    /\ Load(s, [handler |-> "invoice", op |-> "transition", sub |-> u, to |-> to,
                known |-> <<u, to>> \in event])
    /\ UNCHANGED billing

(* The event is inserted unless it was found; its key is unique.            *)
TransitionInvoice(s) ==
    LET t == txn[s] IN
    /\ t.handler = "invoice" /\ t.op = "transition"
    /\ ~t.known => <<t.sub, t.to>> \notin event
    /\ invoice' = [invoice EXCEPT ![t.sub] = t.to]
    /\ event' = event \cup {<<t.sub, t.to>>}
    /\ Commit(s, {"invoice"})
    /\ UNCHANGED <<catalog, approval, sub, approved>>

PayableByWebhook(u) == invoice[u] = "OPEN"

(* verify_billing_webhook for a verified payload; an invoice that is not    *)
(* open is left alone.                                                      *)
BeginWebhook(s, u) ==
    /\ PayableByWebhook(u)
    /\ Load(s, [handler |-> "invoice", op |-> "webhook", sub |-> u])
    /\ UNCHANGED billing

Webhook(s) ==
    LET t == txn[s] IN
    /\ t.handler = "invoice" /\ t.op = "webhook"
    /\ <<t.sub, "webhook_paid">> \notin event
    /\ invoice' = [invoice EXCEPT ![t.sub] = "PAID"]
    /\ event' = event \cup {<<t.sub, "webhook_paid">>}
    /\ Commit(s, {"invoice"})
    /\ UNCHANGED <<catalog, approval, sub, approved>>

------------------------------------------------------------------------------
RollBack(s) == Abandon(s) /\ UNCHANGED billing

Next ==
    \/ EnsurePlanCatalog
    \/ \E s \in Sessions :
          \/ \E d \in Decision : BeginApprovePricing(s, d)
          \/ \E trial \in BOOLEAN : BeginCreateSubscription(s, trial)
          \/ \E u \in Subs :
                \E to \in SubStatus, ref \in BOOLEAN :
                      BeginTransitionSubscription(s, u, to, ref)
          \/ \E u \in Invoiced :
                \/ \E to \in InvoiceStatus : BeginTransitionInvoice(s, u, to)
                \/ BeginBuildInvoice(s, u) \/ BeginWebhook(s, u)
          \/ ApprovePricing(s) \/ CreateSubscription(s) \/ TransitionSubscription(s)
          \/ BuildInvoice(s) \/ TransitionInvoice(s) \/ Webhook(s)
          \/ RollBack(s)

Spec == Init /\ [][Next]_vars

------------------------------------------------------------------------------
(* Properties                                                               *)

(* A tenant has one subscription that is not cancelled, as long as neither  *)
(* a creation nor a transition committed what had changed since it looked:  *)
(* nothing in the database stops a second one (active_subscription takes    *)
(* the latest, and usage and quotas follow it).                             *)
OneLiveSubscription ==
    "subscription" \notin raced => Cardinality(ActiveSubscriptions) <= 1

(* docs/BILLING_AND_METERING.md: "Paid activation requires: 1. accountable  *)
(* commercial price approval; 2. a contract or payment-provider             *)
(* confirmation reference."  A subscription that has left its trial for     *)
(* ACTIVE has its reference, and the catalogue it was sold from has been    *)
(* approved: an approval of another catalogue does not count, however the   *)
(* requests overlap.  A subscription created without a trial is ACTIVE with *)
(* neither.                                                                 *)
ActivationJustified ==
    \A u \in Subs : sub[u].status \in {"ACTIVE", "PAST_DUE"} /\ sub[u].trial
                        => sub[u].ref /\ (PricesInEnv \/ approved)

Payments(u) == {k \in {"PAID", "webhook_paid"} : <<u, k>> \in event}

(* An invoice is PAID with exactly one payment event, and no other invoice  *)
(* has one, whether finance records the payment or the provider's webhook   *)
(* announces it, delivered again or not; unless one of the two was late.    *)
(* Even then no invoice is PAID without a payment event.                    *)
PaymentsAccounted ==
    \A u \in Invoiced :
        /\ invoice[u] = "PAID" => Payments(u) # {}
        /\ "invoice" \notin raced
             => Cardinality(Payments(u)) = IF invoice[u] = "PAID" THEN 1 ELSE 0
=============================================================================
