# WorkBuddy: TLA+ models, model checking and proofs

WorkBuddy is a multi-tenant "digital company": incoming mail becomes a mission,
a lead plans it as work items, agents (model calls) work on the items, the lead
reviews the results, the owner approves, and an e-mail is sent through Gmail or
Microsoft Graph. Around it there are mail synchronisation, subscriptions and
invoices, and release gates. This directory holds TLA+ modules that model these
parts, TLC runs on small instances, and TLAPS proofs for every size of
instance.

Paths below are relative to the repository's root; `services/...` stands for
`src/workbuddy/services/...`.

## 1. The system

### 1.1 How it runs

A FastAPI application (two replicas in the production deployment) and a worker
(`services/worker.py`, two replicas) share one PostgreSQL database. Three facts
of the code decide how everything behaves under concurrency, and all modules
are built on them.

* **One unit of work per request** (`api/deps.py`, `db_session`). A request
  loads rows, changes them in memory and commits once; any exception rolls
  everything back. A status assigned just before a `raise` is therefore never
  stored.
* **No locking of what was read.** Isolation is READ COMMITTED, there is no
  `SELECT ... FOR UPDATE` and no `version_id_col`. Sessions are created with
  `autoflush=False, expire_on_commit=False`: a row is read once and used until
  the session ends. Two requests that overlap both decide on the old row and
  the later commit wins. `Mission.version` is a number the handlers compare
  themselves, not a database check.
* **The audit lock** (`services/audit.py`). The first `append_audit` of a unit
  of work takes `pg_advisory_xact_lock` of the tenant and holds it to the
  commit. Write phases of one tenant are therefore serialised; the reads and
  checks before them are not.

So a handler is two steps: *Begin...* reads rows and checks them; the second
step is its whole write phase, computed from what was loaded. Between the two,
other units of work may commit. A request whose checks fail is no step.

The ORM writes the columns whose value a handler changed, and no others. Where
that matters (an edit that writes a version but no status, two signatures of
one role, a synchronisation and a webhook on one account) the modules write
columns, not rows.

### 1.2 Components

| Component | State | Operations | Interacts with | Hard part | Correct when |
|---|---|---|---|---|---|
| State machine `domain/state_machine.py` | none | `transition`, status tables | every service | tables are consulted on loaded, possibly stale, rows | terminal statuses stay |
| External actions `services/external_actions.py` | operations, attempts | prepare, execute, verify | approvals, missions, policies, providers | provider call inside a transaction, crashes, two executors | at most one committed send per operation, none without approval, UNKNOWN never retried |
| Approvals, lead review `services/mission_service.py` | missions, approvals, decisions | `lead_review_mission`, `decide_approval`, expiry | external actions, scheduler | decision, expiry and execution overlap | status agrees with the recorded decision; one approval, one message |
| Work items, runs, executor `services/mission_service.py`, `executor.py`, `quality.py`, `tools.py` | items, runs, grants, artifacts, evidence | start, execute, submit, review | worker, scheduler, model gateway | long model calls, runs picked long before their turn, time-outs racing answers | no item stranded, only verified work accepted, dependants are released |
| Scheduler `services/scheduler.py` | none | `scheduler_tick` | runs, items, approvals | races late answers; waits for row locks while it holds the audit lock | every run is closed in the end |
| Worker `services/worker.py` | none | `worker_tick` | executor, scheduler, mail | one selection per tick, two replicas | a run is delivered at most as often as it is safe |
| Audit, outbox `services/audit.py`, `outbox.py` | hash chain, events | `append_audit`, `publish_batch` | all | two publishers, attempts counted from stale rows | chain unbroken, every event published |
| Policies, quotas `services/policies.py`, `commercial/billing.py` | counts | `validate_email_action`, `check_quota`, `record_usage` | external actions | checked twice, on moving counts | limits kept |
| Pause `services/control.py` | pause flags | `set_control`, `assert_not_paused` | start, planning | pause between approval and execution | paused means nothing goes out |
| Intake, dispatch, planning `services/mission_service.py`, `dispatch.py`, `planner.py` | missions, work items, dependencies | create, route, plan, replan, approve plan, start | model gateway, governance | a replanning model call outlasting the plan's approval | one mission per source, plan acyclic and frozen once approved |
| Governance `services/governance.py` | dependencies, memory | edit items, add and remove dependencies | planning | two additions that are each acyclic | acyclic |
| Collaboration `services/collaboration_service.py` | requests | request, accept, respond, deliver | missions | two status vocabularies on one column | no answer lost |
| Mail `services/mail_sync.py`, `connectors/*`, `api/beta_routes.py` | accounts, cursor, `sync_status`, OAuth states | sync, webhooks, watch renewal | worker, intake | cursor and status written by three actors | every message imported once |
| Model gateway `services/model_gateway.py` | calls, budget | structured call | executor, planner | budget read before, spent after the call | spend within budget |
| Pilot gates `services/pilot.py`, `gates.py`, `gate_signing.py` | programme, evidence, signatures, incidents | verify, attest, evaluate, preflight | external actions, GA gates | signature bound to a snapshot that changes; the send that is evidence needs the gates | a ready gate is signed for current evidence; no live send before gates B and C |
| GA, legal, operations `services/commercial/ga.py`, `operations.py` | releases, documents, tickets, observation window | submit, approve, observe, report | pilot gates | incidents restart a window that must still end | thirty quiet days release |
| Billing `services/commercial/billing.py`, `services/payments/*` | subscriptions, invoices | create, change, pay, webhook | quotas | webhook against request, duplicates | one active subscription, an invoice settles once |
| Onboarding `services/commercial/onboarding.py` | checklists, users | advance, invite | billing | invite quota under concurrency | quota kept |
| Skills, constitutions | versions | draft, review, approve, publish | missions | a mission is bound while versions are published | a mission is bound to a published version |
| On-call, lifecycle, business metrics | schedules, deletions, reports | look-ups, purges | none | sequential | not modelled |
| Feishu application `feishu-app/` | none | polls the API | API | repeated polling | not modelled |
| API, sessions, security `api/*`, `security.py`, `db/session.py` | tokens | routing, unit of work | all | the transaction discipline above | the base of all modules |
| Deployment, migrations, scripts | none | none | none | none | not modelled |

The hazards, each at its line, are listed in `PROJECT.json` with the properties
that cover them.

## 2. What is modelled

| Module | Part | Extends |
|---|---|---|
| `StateMachine` | the status tables and `transition` | |
| `UnitOfWork` | `db_session`, the audit lock, late commits | |
| `MissionIntake` | mail row, dispatch, confirmation, collaboration, constitutions | both |
| `MissionPlanning` | accept, plan, edit, approve, start, pause | both |
| `WorkItems` | runs, executor, scheduler, reviews | `StateMachine` |
| `ExternalActions` | approvals, external operations, policies | `StateMachine`; instantiates `Delivery` |
| `Delivery` | abstract: what an external operation promises | |
| `MailSync` | webhooks, synchronisation, watches, worker | `UnitOfWork` |
| `Billing` | catalogue, price approval, subscriptions, invoices | `UnitOfWork` |
| `Gates` | pilot programme, evidence, signatures, live-send preflight | `UnitOfWork` |
| `Observation` | observation window and go/no-go | |

The mission's life is cut where one module's final state is the next one's
`Init`: `MissionIntake` ends with the mission `confirm_dispatch` creates,
`MissionPlanning` starts there and ends in EXECUTING with `HandOver` and
`PlanAcyclic`, which are `WorkItems`' `Init` and `PlanAssumption`;
`ExternalActions` starts with a mission in EXECUTING.

### 2.1 `StateMachine` and `UnitOfWork`

The six status tables of `domain/state_machine.py`, `transition` (as
`Transition`, with `"RAISED"` for the exception), and `_mission_transition`
(`MissionStep`: the table and `version + 1`). Handlers chain several
transitions in memory and commit once; `Raised` is absorbing, so a chain with
an illegal link yields `Raised`, which is never written (`TypeOK`).

`UnitOfWork` is section 1.1 as a module: `Load`, `Commit`, `Abandon`. It keeps
two history variables. `late` is the set of requests in flight whose loaded
rows somebody has committed to since; `raced` is the set of handlers that have
committed while late. While `raced` is empty the committed requests might as
well have run one after the other. Many properties of this code fail under
some race and hold under all others; such a property names the handlers whose
late commit it excuses, and TLC checks that no other one breaks it. This says
more than a serial run would, and shows exactly which missing lock matters.
(`WorkItems` and `ExternalActions` have units of work of their own, because
executors, schedulers and provider calls have more steps.)

### 2.2 `ExternalActions`

Rows of missions, approvals, decisions, operations, attempts and usage records;
`txn[s]` is what a request has loaded. `sent` is the provider's own record,
`lost` counts acceptances whose unit of work was rolled back.

| Code | Actions |
|---|---|
| `lead_review_mission` | `BeginLeadReview`, `LeadReview` |
| `decide_approval` | `BeginDecide`, `Decide` |
| expiry loop of `scheduler_tick` | `BeginExpire`, `Expire` |
| `prepare_external_operation`, `validate_email_action` | `BeginPrepare`, `Prepare` |
| `execute_external_operation` | `BeginExecute`, then `ExecuteCommit`, `ExecuteRaise` or `ExecuteCrash` |
| `verify_unknown_external_operation` | `BeginVerify`, `Verify` |
| `db_session` roll-back | `Abandon`, `Rollback` |

The provider (external) may refuse, fail before or after accepting, accept
without the answer arriving, or accept and then answer the verification with
success, nothing, 5xx or 4xx (`ProviderOutcomes`). `ExecuteRaise` is the case
in which the mission row that was loaded does not allow the final transition:
`except Exception` raises a second time and the whole unit of work is rolled
back after the provider was called.

Abstractions. Content hashes are computed from columns no handler changes, so
their comparison cannot fail and is left out. Recipient policy and the
connected account are the environment's choice (a refused prepare is no step; a
refused execute is `Denied`). The clock that decides expiry is
nondeterministic, and so is the one behind the daily limit: `Ages` takes an
operation out of the window of `validate_email_action`, which is over
`created_at`, the moment of the prepare (`policies.py:92-99`).
The INVALIDATED that prepare and decide assign before they raise is rolled back
and hence no step.

### 2.3 `WorkItems`

One mission after `start_execution`: items, their dependencies, runs, grants,
evidence, usage records, and the units of work in flight.

| Code | Actions |
|---|---|
| `start_work_item` | `BeginStart`, `Start` |
| `worker_tick`, `execute_agent_run` | `Pick`, `BeginExecute`, `Claim`, then `ExecuteSucceeds` or `ExecuteFails` |
| `submit_agent_run` (route) | `BeginSubmit`, `SubmitOutput` |
| `review_work_item` | `BeginReview`, then `Accept` or `Revise` |
| `lead_review_mission` | `BeginLeadReview`, `LeadReview` |
| time-out loop of `scheduler_tick` | `BeginTimeout`, `TimeoutRow`, `Timeout`; the clock is `Overdue` |
| roll-back, crash, deadlock victim | `Abandon` |

`Pick` and `BeginExecute` are separate because a worker selects all its runs
once per tick and its session never refreshes them: the run's status is
checked on the old object, the item is read when the run's turn comes. `Claim`
is the flush of `started_at`, which keeps the run's row locked during the model
call; `TimeoutRow` is the scheduler's update of one row, which needs that lock
while it holds the audit lock. The deadlock this makes possible is resolved by
the database, which rolls the executor back.

Abstractions. The quality gate is modelled for items that require one verified
piece of evidence (what the heuristic planner produces: with its two
requirements, the 80 % coverage rule always includes at least one verified
claim) and no disputed one. Evidence is a set per item over all artifacts,
because the gate reads all artifacts; a submission adds any set of claims, the
empty one included. `reviewed` is the first lead review; a mission that the
owner sends back and the lead reviews again is `ExternalActions`' subject. Pausing the
company refuses `start_work_item`, which is the lead not asking. A scheduler tick that is rolled
back changes nothing and comes again. `PlanAssumption` states that the plan is
acyclic (`validate_acyclic` has accepted it).

### 2.4 `MissionIntake`

One mail and one mission. `BeginDispatch`, then `Dispatch` or `ModelRaises`
(`create_dispatch`, `propose_dispatch`); `BeginConfirm`, `Confirm`
(`confirm_dispatch` with `_auto_create_collaboration_requests`);
`RequestCollaboration`, `BeginAnswer`, `Answer` (the table handlers and
`respond_collaboration`, which has a vocabulary of its own); `CreateDraft`,
`BeginCharterStep`, `CharterStep` (constitutions); `IngestAgain`,
`ProviderDelete` (the mail row). What the rules and the model propose is
reduced to the supporting teams; the owner chooses the primary one.

### 2.5 `MissionPlanning`

One mission from ROUTED to EXECUTING: `BeginAccept`/`Accept`,
`BeginPlan`/`Plan`, `BeginUpdate`/`Update`, `BeginAdd`/`Add`,
`BeginRemove`/`Remove`, `BeginApprove`/`Approve`,
`BeginStart`/`StartExecution`, `SetControl`; `Show` is the owner looking at the
plan. `validate_acyclic` and `_has_cycle` are both Kahn's algorithm
(`HasCycle`, round by round); `PlanAcyclic` states acyclicity in another way,
so that the run also checks the algorithm. `plans` is the identity of the item
rows: an edit of an item that was replaced fails in the database.

### 2.6 `MailSync`

One mailbox, Graph or Gmail, and the row of one message; the provider is a log
of changes of that message. Graph: `BeginNotify`/`Notify`
(`graph_webhook_receive`), `BeginDelta`, `Delta`, `LookUp`, `SyncGraphFolder`
(`sync_graph_folder`, from the route or the worker), `GraphWatch`. Gmail:
`BeginHistory`, `InitializeCursor`, `HistoryChanges`, `GmailWebhook`,
`ResyncRequired`, `HistoryFailed` (`gmail_webhook`), `BeginFull`,
`ListMessages`, `GmailSync`, `GmailSyncFailed` (`gmail_sync`), `RegisterWatch`
(the route or the worker). Both: `Reconnect` (the OAuth callbacks on an account
that is there). A notice that was sent stays deliverable, so it may be lost,
repeated and reordered. The provider's answers and the look-up of the row are
steps of their own.

Three things of the code shape the module. *Folders*: the route takes a
`folder_id`, the worker synchronises the inbox. A run of another folder
(`inbox = FALSE`) writes the whole cursor map back as it was loaded, ends with
`sync_status = "idle"` like any run, and may meet the message when it was moved
(`FolderDelta`; the connector asks for immutable ids). A folder id that names
the inbox in another spelling, and so has a cursor of its own, is not modelled.
*Event ids*: `EventId` is the code's
`subscription:sequenceNumber:resource:lifecycleEvent`; `Numbered` are the
changes whose notification has a number, and all others share one id, so that
only the first is accepted. *Bounded listing*: a full synchronisation lists at
most `limit` messages of 30 days, so the message may be missing from it
(`ListMessages`).

### 2.7 `Billing`

`EnsurePlanCatalog`, `BeginApprovePricing`/`ApprovePricing`, creation and
transition of subscriptions, `BuildInvoice`, `TransitionInvoice`, and the
payment `Webhook`. The catalogue's content hash is one of two values: before
and after the reference plans are seeded. Amounts and taxes are left out.

### 2.8 `Gates`

The pilot programme, its mailbox mode, evidence, signatures, incidents and one
live send. A snapshot hash is the set of VERIFIED rows it covers. `evaluate_gate`
and `live_send_pilot_preflight` are several statements under READ COMMITTED:
`BeginPrepare`, `ReadSignatures` and `Prepare` are the preflight's three groups
of reads. They are made only if `settings.require_pilot_for_live_send` is set
(`RequirePilot`; the default is off, and then prepare reads nothing of this).
`RecordSystemGateEvidence` is the evidence the live send itself adds.
`AutomaticReady` of gate D counts the verified live sends of the whole tenant,
as the code does; one that this programme's preflight did not admit, be it
another programme's or one from before the setting, is `SentElsewhere`.

### 2.9 `Observation`

`start_observation_window`, `check_observation_window`, the tickets and
incidents they count and the go/no-go report. Requests are single steps here;
the question is one of time, not of overlap.

### 2.10 Abstract specification, MC and proof modules

`Delivery` has four actions: an operation is frozen, executed once (with at
most one message that its result tells of), and an unknown result is resolved;
a stray message (accepted, then rolled back) is possible only before there is a
result. `ExternalActions!Promise` maps rows to it (`Phase`, `sent - lost`,
`lost`), and `DeliversAsPromised` is the refinement.

`MC*` modules add the values and symmetry sets of the TLC instances. A module
`XProofs` holds the theorems about `X`; there is one for `UnitOfWork` and for
each of the seven components with invariants: section 5.

## 3. Runs

| Run | Instance | Shows |
|---|---|---|
| `EA_concurrent` | 2 sessions, 1 high-risk mission, 2 approvals, 2 operations, 1 crash, 1 operation older than a day; daily limit 1 | `TypeOK`; every accepted message is the operation's single committed attempt or a rolled-back unit of work (`SendsAccounted`); nothing is sent for an operation that has a result (`NoSendAfterResult`); nothing is sent without a recorded approval (`SendNeedsApproval`); metered sends keep the limits, the daily one by the day of the prepare (`MeteredWithinLimits`), and each of them went out exactly once (`ChargedOnlyForSent`); the handlers implement `Delivery` (`DeliversAsPromised`) |
| `EA_serial` | 1 session, 3 missions (2 high-risk), 3 approvals, 3 operations, live and demo | one approval lets one message out (`OneSendPerApproval`); operation and mission tell the same story, so UNKNOWN is always verifiable (`OutcomeAgreement`); status agrees with the recorded decision (`DecisionAgreement`); terminal statuses stay (`TerminalStatesKept`) |
| `WI_concurrent` | 2 sessions, 1 scheduler, join of 3 items (one waits for two), 2 runs, all three evidence claims | `TypeOK`; no item is RUNNING with all runs closed (`NoOrphanItem`); only verified work is accepted (`AcceptedIsVerified`); no dependant is forgotten, also when its two dependencies are accepted at the same time (`NobodyWaitsForNothing`); closed runs leave grants and usage records in order (`ClosedRunsSettled`) |
| `WI_serial` | 1 process that is session and scheduler, join of 3 items, 4 runs | runs and items agree (`OneOpenRunPerItem`); work starts after its dependencies (`StartedAfterDependencies`); a reviewed mission's items are accepted (`ReviewedItemsAccepted`); terminal items stay (`TerminalItemsKept`) |
| `WI_live` | 2 sessions, 1 scheduler, 1 item, 2 runs, fairness | every run is closed in the end (`EveryRunCloses`), no item stays RUNNING (`EveryItemLeavesRunning`) |
| `MP_concurrent` | 2 sessions, 3 item keys, 5 model answers (no dependencies, chain, cycle, unknown dependency, empty), 2 plans, version at most 8 | `TypeOK`; only an addition checked against an older graph makes a cycle (`PlanAcyclic`); an approved plan is what `WorkItems` starts from unless a change of the graph, the approval or the start commits late (`HandOver`); the version number identifies the plan the owner was shown (`ApprovedAsShown`) |
| `MI_concurrent` | 2 sessions, 2 proposals, 2 teams, 1 collaboration request, 2 charter versions | `TypeOK`; one mission, one confirmed proposal, each supporting team asked once (`ConfirmedOnce`); a mission's charter is published (`CharterBound`); a closed request stays closed (`ClosedStaysClosed`) |
| `MS_concurrent` | 2 sessions, 2 changes, Graph (inbox and other folders) and Gmail | `TypeOK`; no accepted notice is forgotten (`WakeUpKept`); the cursor never passes what the row shows (`NeverBehindCursor`); the exceptions are part of the properties |
| `BI_concurrent` | 2 sessions, 2 subscriptions, 1 invoice, 2 catalogues | `TypeOK`; one live subscription (`OneLiveSubscription`); no trial becomes ACTIVE without reference and approved prices (`ActivationJustified`); a paid invoice has one payment event (`PaymentsAccounted`) |
| `GT_concurrent` | 2 sessions, gates B, D, PRODUCTION, 4 evidence rows, 1 incident, preflight required | `TypeOK`; D is not ready before B and C were ready together, unless the tenant sent elsewhere or rows changed under the preflight (`ControlledSendFirst`) |
| `MS_v_graph_only` | violation; 1 session, fairness | finding 1 below |
| `OW_v_restart` | violation; 2 incidents, window of 1 day, 4 days, fairness | finding 2 |

The properties are divided on purpose. The `*_concurrent` ones survive every
interleaving. The `*_serial` ones hold when the units of work on a mission do
not overlap, and most of them fail when they do: the code's checks are made on
rows loaded before the audit lock. The runs of the other modules are concurrent
and use `raced` (section 2.1) to say which late commits break a property.

**Bounds.** Two sessions suffice for every race of the code, since a race is a
stale write over one other commit, and a third unit of work in between is
another commit of the same kind; the scheduler is a third process. Two
operations under one approval and two approvals of one mission are the smallest
numbers at which the version check, the daily limit and repeated reviews
matter. One crash is enough to lose one attempt and to send again; `MaxSends`
only stops a crashed operation from being sent for ever. `MaxAged` lets one
operation of `EA_concurrent`, and all of `EA_serial`, leave the daily window.
Two runs give one item
a duplicate run or a second try; four runs let each of three items run and one
run again. The join of `WI_concurrent` is the smallest plan in which one item
waits for two, and its two runs are one for each of them. Three item keys
are the smallest cycle that no single edge shows and
the smallest chain; two plans let one replace another under an edit. Two changes of a message
let one be missed while the other is read, and allow put, delete and change.
`Numbered` is all changes in `MS_concurrent`: a notification that shares its id
with an accepted one is refused and changes nothing, so every behaviour with
fewer numbers is also one of this instance.
Two proposals are needed to confirm two at once, two subscriptions to sell one
twice. `GT_concurrent` has one gate for B and C, which are alike, and one role;
the production gate's own evidence is that of any gate; without `RequirePilot`
its property is void, since prepare then reads no gate. The largest runs are
`BI_concurrent` (4.2 million states), `MS_concurrent` (3.7), `WI_concurrent`,
`GT_concurrent` (2.4 each) and `EA_concurrent` (2.2). The theorems of
section 5 hold without any of these bounds. Deadlock checking is off, except in
`GT_concurrent`: the finite instances stop when their rows (approvals,
operations, runs, plans, invoices) are used up, as missions do.

**Fairness.** `WI_live`: time passes (`Overdue`). A tick comes
again and finishes: `main` of the worker calls `scheduler_tick` in an endless
loop. A model call ends (the gateway's HTTP client has a time-out) and with it
the unit of work that holds the run's row. Strong fairness of `TimeoutRow`
stands for the row lock's queue: a waiting update is granted in turn even when
other sessions claim the row again and again. Nothing is assumed of leads or
workers: they may never come back, and the scheduler must close what they
leave. `MS_v_graph_only`: the worker's loop takes every pending account up
again and its steps are not failed for ever at the same place (strong fairness,
generous on purpose: the violation is not one of scheduling). `OW_v_restart`:
days pass and the checker runs again and again.

Each property is also checked the other way round: `PROJECT.json` names a
plausible bug for each (definitions marked "Mutant of ..." in the modules) that
makes TLC report it violated.

## 4. Findings

Kept as runs that must report a violation:

1. **Without a Gmail topic, Graph accounts are never served by the worker.**
   `threshold` is assigned inside `if settings.gmail_topic_name:` and read for
   every Graph account with a subscription (`services/worker.py:83`): the tick
   raises `UnboundLocalError` for that account before it renews the
   subscription and before the pending delta. `api/beta_routes.py:382` says
   that notifications schedule the delta synchronisation;
   `docs/MICROSOFT_GRAPH_SETUP.md:23` asks for the renewal.
2. **A restarted observation window never ends.** The branch that completes it
   asks for `p0_p1_count == 0`, the branch that restarts it stores the count
   (`services/commercial/operations.py:180`), and `start_observation_window`
   returns the same row. The docstring at line 162 says "Reset if found,
   complete if 30 days passed."

Met while modelling, visible in the definitions and in the exceptions of the
properties, and not kept as runs of their own.

External actions and work:

* The `OperationAttempt` is flushed, not committed, before the provider is
  called: a crash loses it and the message is sent again
  (`docs/EXTERNAL_ACTION_SAFETY.md:9`: every provider call produces an
  OperationAttempt). The `Stray` step of `Delivery` is this case.
* A 4xx answer of `verify_sent` is treated like one of `send_message` and
  records an accepted message as FAILED (`EXTERNAL_ACTION_SAFETY.md:13`: UNKNOWN).
* Two operations prepared under one approval and loaded together both pass the
  version check and both send (`EXTERNAL_ACTION_SAFETY.md:6`).
* `ExecuteRaise`: a mission that moved on makes the handler raise after the
  provider call, and the roll-back loses the attempt (the comment at
  `external_actions.py:236` says that the attempt is preserved).
* INVALIDATED is assigned and rolled back (`external_actions.py:61`,
  `decide_approval`); `docs/SECURITY_BOUNDARIES.md:12` says a protected change
  invalidates the approval. The stale approval stays unusable because the
  version check fails again.
* Overlapping requests may replace a terminal status (an expiry over a
  rejection, a review's `revise` over an acceptance).
* `verify_unknown_external_operation` does not meter the send it completes, and
  a run closed through the submit route is not metered.
* The daily limit counts SUCCEEDED operations by `created_at`: one that was
  prepared more than a day ago and is sent today is counted neither then nor
  now, and any number of them may go out in a day
  (`docs/SECURITY_BOUNDARIES.md:15`).
* Neither prepare nor execute reads the company's pause, although
  `docs/PILOT_OPERATIONS.md:90` pauses external writes with it.
* A BLOCKED or REVISION_REQUIRED item with dependencies cannot be restarted
  (`mission_service.py:284`; the comment at `executor.py:62` says that the lead
  can create a new AgentRun).
* A time-out closes a run without revoking its grants; `ClosedRunsSettled`
  shows that it is the only way of closing that does.
* An expired approval leaves its mission in APPROVAL_REQUIRED, and a disputed
  piece of evidence bars its item for ever: no handler leads on.

Intake and planning:

* A dispatch or plan request whose model call fails rolls its FAILED
  ModelInvocation back; the executor commits its own.
* Two additions that are each acyclic form a cycle; a replanning that outlasts
  an approval replaces the approved items; a version number may be written
  twice and then names two plans.
* `respond_collaboration` writes REQUESTED's successors and REJECTED, which the
  status table does not know.

Mail:

* A notice accepted between the delta and the commit of a synchronisation is
  overwritten by `idle`: its change waits for the next notice.
* A Gmail full synchronisation asks for the profile after it has fetched, a
  watch (`worker.py:61`) and a reconnection replace the cursor: changes in
  between are never asked for. A reconnection forgets deletions.
* The synchronisation of any folder sets `sync_status` to `idle`
  (`mail_sync.py:76-79`): one of another folder may clear the inbox's `pending`
  without fetching anything of it. Its delta may also mark a message as deleted
  that was moved back to the inbox.
* `sequenceNumber` is optional (`beta_routes.py:358`): without it a second change
  of a message is taken for a duplicate of the first and schedules nothing.
* A Gmail full synchronisation lists at most `limit` messages of 30 days and
  moves the cursor past the changes of all others.
* Overlapping delta synchronisations may move the cursor past a deletion that
  neither of them stored.

Gates and operations:

* Two overlapping signatures of one role mix columns and may leave an APPROVE
  for a snapshot nobody approved. The GA gates' HMAC over the row
  (`gate_signing.py`) would reject such a row; pilot gates have none.
* The preflight runs only with `require_pilot_for_live_send`, which is off by
  default (`settings.py:103`, `external_actions.py:77`).
* Verified live sends are counted for the tenant, not for the programme
  (`pilot.py:322-325`): gate D of a second programme may be ready although its
  B and C never were. Likewise after a send from before the setting.
* The preflight's reads are not one snapshot and `execute` does not repeat
  them: an incident opened after prepare does not stop the send, although the
  message says that "live send is blocked while a P0/P1 pilot incident is open".
* `docs/RELEASE_GATES.md:27` says that re-verifying evidence voids signatures;
  REJECTED and VERIFIED again restores the same snapshot and with it the old
  signatures, because `evaluate_gate` compares the stored hash with today's
  (`pilot.py:353-358`) and nothing deletes a signature.
* Each live send adds evidence to gate D and so revokes D's signatures.
* Window lengths from 1 to 90 days are accepted, a restart always takes 30, and
  the report accepts any COMPLETED window. Legal approvals are counted, not
  compared with the documents.

Billing:

* `trial_days=0` creates an ACTIVE subscription without price approval or
  reference (`docs/BILLING_AND_METERING.md` asks for both).
* Two overlapping creations leave two live subscriptions. A manual payment or
  a VOID that overlaps the webhook leaves two payment events, or one on a
  voided invoice.
* The billing period never moves on. Model cost is charged as an overage of its
  metric and again as model cost overage (`billing.py:147-157`).

## 5. Proofs

Checked by TLAPS for every value of the constants: any number of sessions,
schedulers, missions, approvals, operations, items, runs, proposals, teams,
changes, subscriptions, gates and evidence rows. Every invariant and every
action property of section 3 is a theorem; what stays with TLC is listed at the
end.

**Assumptions**, evaluated by TLC on every run: limits and bounds are naturals
and `None` is no identity (`ConstantsAssumption`, `IntakeAssumption`,
`MailAssumption`); dependencies are items (`PlanAssumption`, whose acyclicity the
proofs do not use); item keys are finitely many (`PlanningAssumption`: a plan is
a list); invoices belong to subscriptions (`BillingAssumption`); the gates'
names are not those of the two other kinds of requests, each evidence row is of
a type its gate asks for (`GatesAssumption`).

**Hypotheses of the serial theorems.** The properties of `EA_serial` and
`WI_serial` fail when units of work overlap (section 4), so their theorems say
`ASSUME Serial`: any two units of work are the same one, as in the runs. Rows,
limits, plans and the order of requests stay arbitrary. `OneSendForOneApproval`
also assumes `MaxCrashes = 0`: a crash after the provider call loses the attempt
and the message is sent again.

### `UnitOfWorkProofs`

Lemmas only: what `Load`, `Commit`, `Abandon` and `CommitAtOnce` leave of the
other requests (`LoadUnits`, `CommitUnits`, `AbandonUnits`, `Settled`), and
least and highest numbers of a set. The five modules built on `UnitOfWork` share
one argument: *a request in flight that is not late has loaded the rows as they
are* (their `...Current` predicates). A commit makes late exactly the requests
that read what it writes, and a handler outside `raced` did not commit late, so
it wrote from current rows.

### `ExternalActionsProofs`

* `TypeCorrect` (`TypeOK`). `TypeOK` is not inductive: that a write is legal
  depends on the row loaded at Begin. The strengthening `TypeInv` adds `Holds`:
  what a request in flight has loaded fits its handler, and the transitions it
  is about to make were legal for the loaded row.
* `SendsAccountedAlways` (`SendsAccounted`). The invariant `SendInv` adds
  `OpInv`: an operation has a result exactly when it has an attempt, its
  attempts are numbered 1 only, and an executor in flight loaded attempt count
  0. Hence the unique key admits one commit per operation, however many
  executors loaded it.
* `NoSendAfterResultAlways` (`NoSendAfterResult`), an action property: only an
  executor with a free attempt number reaches the provider (`WhoSends`), and an
  operation with a result has no free number left.
* `DeliversAsPromisedAlways` (`DeliversAsPromised`): the refinement. Initial
  states map to initial states and every step to a step of `Delivery` or to a
  stutter, using `TypeInv`, `SendInv` and `StrayInv` (what was lost had been
  sent): an executor whose attempt number is free works on a frozen operation
  that tells of no message yet; a second verdict on a resolved operation is a
  stutter.
* `SendNeedsApprovalAlways` (`SendNeedsApproval`). `ApprovalInv`: an APPROVED
  status has its approve decision, and decisions are never deleted, whatever
  overwrites the status; operations exist only under approvals that have one,
  and so do the requests in flight that will create or execute them.
* `MeteredWithinLimitsAlways` (`MeteredWithinLimits`). `MeterInv`: the metered
  sends are among the finitely many live operations that succeeded, which the
  check under the lock counts as far as they are of the day, and no verification
  in flight is of one of them.
* `OnlySentIsCharged` (`ChargedOnlyForSent`), from the same invariants: an
  executor meters in the unit of work of its single committed attempt.
* Serial: `DecisionsAgree`, `OutcomesAgree`, and the action property
  `TerminalStatesStay` rest on `SerialInv`. Its part
  on rows: an approval is bound to a version its mission has reached, and while
  the mission is at most one version further on it is APPROVED (`BoundInv`); an
  operation stands under an APPROVED approval of its mission (`OpsBound`); a
  mission has one operation with a result (`OneResult`). Its part on the request:
  `Fresh`, what it has loaded is still so. `OneSendForOneApproval` follows from
  `OneResult` and `SendsAccounted`.

### `WorkItemsProofs`

* `WorkTypeCorrect` (`TypeOK`), with `Holds` for each kind of request.
* `NoOrphanItemAlways` (`NoOrphanItem`). The property alone is not inductive: a
  stale executor may close the run of an item that was restarted meanwhile.
  `Carried` says that each RUNNING item has a run that *carries* it: open, and
  every request in flight that may close it has itself seen the item RUNNING,
  so that it will move the item too.
* `AcceptedIsVerifiedAlways` (`AcceptedIsVerified`). `GatePassed`: an accept in
  flight passed the gate when it loaded, and evidence only grows.
* `NobodyWaitsForNothingAlways` (`NobodyWaitsForNothing`), inductive with the
  types: `Accept` reads the other dependencies under the lock.
* `ClosedRunsSettledAlways` (`ClosedRunsSettled`), inductive with the types:
  grants are revoked and usage is recorded in the unit of work that closes the
  run, and `start_work_item` only ever uses a new run.
* Serial: `OneOpenRunAlways`, `DependenciesComeFirst`, `ReviewedStaysAccepted`
  and the action property `TerminalItemsStay`. `SerialInv`: an open run's item is
  RUNNING and no two open runs share one (`RunsInv`); the request in flight is
  `Fresh` (a start found the dependencies accepted, an executor's run is open, a
  tick's selected runs all are). No write then touches an item that has ended
  (`FinalKept`), which is what keeps dependencies and reviews valid.
  `OneOpenRunPerItem` needs `NoOrphanItem` as well, for the run that is there.

### `MissionIntakeProofs`

`TypeCorrect` (with `charter[1]` published, which gives a confirmation its
charter); `CharterStaysBound` (a charter step that is not late moves its version
from the status it has); `ClosedRequestsStayClosed`, an action property (an
answer that is not late answers the request as it is); `ConfirmedOnlyOnce`.
`ConfirmInv` for the last: CONFIRMED is exactly the mission's origin, which the
unique key on the source decides even for late confirmations; each supporting
team has exactly one request that the confirmation opened; two open proposals
need a late dispatch.

### `MissionPlanningProofs`

* `TypeCorrect`: each handler's transitions are legal from the status it loaded.
* `PlanStaysAcyclic`. `NoCycleFound` is about the code's two cycle checks, for
  every finite graph: if the rounds that take off nodes without open
  dependencies take off all, then every set of nodes has one that depends on no
  other of the set (the node of the set taken off in the earliest round, a least
  number, so no induction over data). `AcyclicInv` adds that an addition in
  flight that is not late has checked the graph as it is.
* `ItemsAreHandedOver`: `SeenCurrent`, a request that is not late has seen the
  mission, and an approval the items and dependencies, as they are.
* `ApprovalIsOfWhatWasShown`: until the approval the version moves on with every
  change, so that the version shown names one content (`ShownInv`).

### `MailSyncProofs`

* `TypeCorrect`. `Learns`: what a synchronisation in flight has learnt is what
  the provider's log says at the position it asked up to; no cursor runs ahead
  of the log.
* `WakeUpIsKept`. `Hears`: a synchronisation past its delta will move the cursor
  past every notice accepted before, except those the property calls unheard; one
  of another folder clears only what its own commit adds to the unheard.
* `NeverBehindTheCursor`. `CursorInv`, with `CurrentInv`: a request that is not
  late has loaded the cursor and looked up the row as they are.

### `BillingProofs`

`TypeCorrect`; `ActivationIsJustified` (an approval of the seeded catalogue, a
reference and a trial are never taken back, so what a request saw still
justifies what it writes, late or not); `OneIsLive` (a creation that is not late
has found no live subscription); `PaymentsAreAccounted` (a payment that is not
late found its invoice as it is, and an invoice that is not PAID has no payment
event).

### `GatesProofs`

`TypeCorrect` (a row that was signed when it was loaded is signed still, so
mixed columns are those of signatures); `SendIsControlled` (`PreflightInv`, under
`RequirePilot`: a preflight in flight that
is not late finds what it has read unchanged, so that after its second read the
gates have been ready together).

**Only model-checked**: `EveryRunCloses` and `EveryItemLeavesRunning`, liveness
under fairness, which is out of the prover's reach as anything with ENABLED is;
and the two runs that report a violation. That the cycle checks raise no false
alarm would need induction over the rounds, which the prover cannot do; no
property depends on it.

## 6. Plan

What is left, most important first:

1. Weaker hypotheses than `Serial`: the serial properties for overlapping units
   of work on different missions, or with the scheduler's tick beside a session,
   as far as they hold there.
2. Safety lemmas under the liveness properties (a tick that holds the audit lock
   can always go on or be rolled back), as invariants of `WI_live`.
3. A safety property of `Observation` (a COMPLETED window had no incident since
   it started) with its theorem.

## 7. Not modelled

* Data and I/O: prompts, schemas, HTTP, tokens and OAuth states, MIME, object
  storage, amounts and taxes, the contents of the audit hash chain, HMAC seals.
* User interface and routes beyond the handlers they call; roles.
* Reports (`business`, dashboards, daily metrics) and rows nobody reads back
  (drills, legal documents, penetration tests, memory, skills).
* `publish_batch`: it has no broker yet and stamps rows nobody else reads.
* Customer onboarding: independent checklist rows; the seat count and the
  insert of an invitation are two statements without a constraint, so two
  invitations may both find the last seat free.
* The model budget: the sum is read before the call and spent after it, so
  overlapping calls may pass it by one call each.
* The Feishu application, a client with tables of its own.
* Migrations, deployment, scripts, seed data; on-call look-ups and retention
  purges, which are sequential and have no protocol.
