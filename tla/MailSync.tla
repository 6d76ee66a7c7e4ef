------------------------------- MODULE MailSync -------------------------------
(***************************************************************************)
(* One connected mailbox and the row of one of its messages: the Graph     *)
(* webhook and delta synchronisation, the Gmail webhook with its history   *)
(* synchronisation, the Gmail full synchronisation, the watches and the    *)
(* worker that renews them.                                                *)
(*                                                                         *)
(* The provider is a log of changes of the message.  It announces every    *)
(* change with a notice that may be delivered never, late, twice or out of *)
(* order: a notice that was sent stays deliverable.                        *)
(*                                                                         *)
(* The account's cursor is a map of folders for Graph; `cursor' is its     *)
(* inbox entry, the folder that is watched.  Message ids are immutable     *)
(* ("IdType=ImmutableId"): a message that is moved keeps its row, and the  *)
(* synchronisation of another folder may write it.                         *)
(*                                                                         *)
(* The message's text is the number of the change that wrote it.  SyncRun  *)
(* rows and the status of webhook events are written and never read,       *)
(* credentials are refreshed in place; they are left out, as are the       *)
(* status of a Graph account and the sync_status of a Gmail account, which *)
(* no handler reads.                                                       *)
(***************************************************************************)
EXTENDS Naturals, Sequences, UnitOfWork

CONSTANTS
    MaxChanges,  \* bound: changes of the message at the provider
    Numbered,    \* the changes whose Graph notification has a sequenceNumber
    GmailTopic   \* settings.gmail_topic_name is set

ASSUME MailAssumption == MaxChanges \in Nat /\ GmailTopic \in BOOLEAN

VARIABLES
    provider, \* MailAccount.provider
    log,      \* the provider's changes: "put" a text, "del" the message
    row,      \* MailMessage
    account,  \* MailAccount
    watch,    \* the subscription, when there is one
    event,    \* the changes whose notice has a ProviderWebhookEvent
    detached, \* history: the cursor was moved past changes nobody fetched, or the
              \* row was written for another folder than the cursor's
    unheard   \* history: notices whose pending flag a synchronisation that did not
              \* fetch their change has cleared, or will clear

mail == <<provider, log, row, account, watch, event, detached, unheard>>
vars == <<provider, log, row, account, watch, event, detached, unheard, uow>>

------------------------------------------------------------------------------
(* Rows                                                                     *)

Changes == 1..MaxChanges
Lifecycle == MaxChanges + 1          \* a lifecycle notice; each is a new event
Notices == Changes \cup {Lifecycle}
NoCursor == MaxChanges + 2           \* MailAccount.cursor is null

Absent == [text |-> 0, gone |-> FALSE]
Unlooked == [text |-> 0, gone |-> TRUE]   \* the row has not been looked up yet
MailRow == [text : Changes \cup {0}, gone : BOOLEAN]

Account == [cursor : 0..MaxChanges \cup {NoCursor},
            sync : {"idle", "pending", "running"},
            status : {"active", "RESYNC_REQUIRED", "error"}]

Latest == Len(log)
Alive == Latest > 0 /\ log[Latest] = "put"

(* What a synchronisation learnt about the message: nothing yet, nothing    *)
(* new, its text, or that it is gone.                                       *)
Learnt == [kind : {"unread", "none", "del"}, text : {0}] \cup [kind : {"put"}, text : Changes]
Unread == [kind |-> "unread", text |-> 0]

Txn == [handler : {"notify"}, notice : Notices, loaded : Account]
         \cup [handler : {"delta"}, inbox : BOOLEAN, loaded : Account, row : MailRow,
               learnt : Learnt, upto : 0..MaxChanges]
         \cup [handler : {"history"}, notice : Changes, loaded : Account, row : MailRow,
               learnt : Learnt, upto : 0..MaxChanges]
         \cup [handler : {"full"}, loaded : Account, row : MailRow, learnt : Learnt]

(* Every column holds a value of its type; a Graph account is never left    *)
(* running, because a failed run is rolled back.                            *)
TypeOK ==
    /\ provider \in {"graph", "gmail"}
    /\ log \in Seq({"put", "del"}) /\ Latest <= MaxChanges
    /\ row \in MailRow
    /\ account \in Account
    /\ account.sync \in {"idle", "pending"}
    /\ watch \in {"none", "live"}
    /\ event \subseteq Changes
    /\ detached \in BOOLEAN /\ unheard \subseteq Changes
    /\ txn \in [Sessions -> Txn \cup {Idle}] /\ UnitsOK

(* gmail_callback stores the history id of the profile, which may come      *)
(* without one; graph_callback stores none, and delta starts from nothing.  *)
FirstCursors == IF provider = "graph" THEN {0} ELSE {Latest, NoCursor}

(* The account has just been connected.                                     *)
Init ==
    /\ provider \in {"graph", "gmail"}
    /\ log = <<>>
    /\ row = Absent
    /\ account \in [cursor : FirstCursors, sync : {"idle"}, status : {"active"}]
    /\ watch = "none"
    /\ event = {}
    /\ detached = FALSE /\ unheard = {}
    /\ UnitsInit

------------------------------------------------------------------------------
(* The provider (external)                                                  *)

(* A Gmail message that was deleted does not come back; an Outlook item may *)
(* be moved out of the folder and in again.                                 *)
Change(kind) ==
    /\ Latest < MaxChanges
    /\ kind = "del" => Alive
    /\ kind = "put" /\ provider = "gmail" => Latest = 0 \/ Alive
    /\ log' = Append(log, kind)
    /\ UNCHANGED <<provider, row, account, watch, event, detached, unheard, uow>>

Announced(n) == watch # "none" /\ n \in 1..Latest \cup {Lifecycle}

------------------------------------------------------------------------------
(* What a synchronisation writes                                            *)

(* The ORM writes the columns whose value differs from the loaded one.      *)
Net(loaded, new, current) == [k \in DOMAIN new |-> IF new[k] = loaded[k] THEN current[k]
                                                   ELSE new[k]]

(* Mutant of Mirrored: a deletion is not taken over. *)
MirroredNoDelete(old, learnt) ==
    CASE learnt.kind = "put" -> [text |-> learnt.text, gone |-> FALSE]
      [] OTHER -> old

(* ingest_mail and the deletion branches: the row after what was learnt.    *)
Mirrored(old, learnt) ==
    CASE learnt.kind = "put" -> [text |-> learnt.text, gone |-> FALSE]
      [] learnt.kind = "del" -> [old EXCEPT !.gone = old # Absent]
      [] OTHER -> old

(* A row that was absent when it was looked for is inserted; the unique key *)
(* of the message stops a second insert.                                    *)
MessageUnique(t) == t.row = Absent /\ t.learnt.kind = "put" => row = Absent

WriteRow(t) == /\ MessageUnique(t)
               /\ row' = Net(t.row, Mirrored(t.row, t.learnt), row)

(* A changed message is audited, and append_audit flushes: "running" has    *)
(* reached the database, so that "idle" is a change.  Another message of    *)
(* the same answer may have been changed, too.                              *)
Flushes(t) == {Mirrored(t.row, t.learnt) # t.row, TRUE}

(* Mutant of Synchronised: the run is not marked as over. *)
SynchronisedRunning(t, cursor, flushed) ==
    Net(t.loaded, [cursor |-> cursor, sync |-> "running", status |-> "active"], account)

Synchronised(t, cursor, flushed) ==
    LET done == [cursor |-> cursor, sync |-> "idle", status |-> "active"]
        base == IF flushed THEN [t.loaded EXCEPT !.sync = "running"] ELSE t.loaded
    IN  Net(base, done, account)

(* The row is looked up when the provider has answered.  Gmail's answers    *)
(* name the message, and get_message fetches it as it is by now.            *)
LookUp(s) ==
    LET t == txn[s] IN
    /\ t.handler \in {"delta", "history", "full"}
    /\ t.learnt # Unread /\ t.row = Unlooked
    /\ IF provider = "gmail" /\ t.learnt.kind = "put"
       THEN Alive /\ txn' = [txn EXCEPT ![s].row = row, ![s].learnt.text = Latest]
       ELSE txn' = [txn EXCEPT ![s].row = row]
    /\ UNCHANGED <<mail, late, raced>>

Handlers == {"notify", "delta", "history", "full"}

------------------------------------------------------------------------------
(* Graph: notices schedule, delta synchronises                              *)

(* subscription:sequenceNumber:resource:lifecycleEvent; without a sequence  *)
(* number all changes of the message share one id.                          *)
EventId(n) == IF n \in Changes \ Numbered THEN 0 ELSE n

Known(n) == \E m \in event : EventId(m) = EventId(n)

(* graph_webhook_receive, one notification of the batch.  An event whose id *)
(* is known already is a duplicate and changes nothing.                     *)
BeginNotify(s, n) ==
    /\ provider = "graph" /\ Announced(n)
    /\ ~Known(n)
    /\ Load(s, [handler |-> "notify", notice |-> n, loaded |-> account])
    /\ UNCHANGED mail

(* Mutant of Scheduled: only a lifecycle event schedules. *)
ScheduledByLifecycle(n, loaded) ==
    [loaded EXCEPT !.sync = IF n = Lifecycle THEN "pending" ELSE @]

Scheduled(n, loaded) == [loaded EXCEPT !.sync = "pending"]

PastDelta ==
    {s \in InFlight : txn[s].handler = "delta" /\ txn[s].inbox /\ txn[s].learnt # Unread}

(* uq_provider_webhook_event lets one of two deliveries commit.             *)
Notify(s) ==
    LET t == txn[s] IN
    /\ t.handler = "notify"
    /\ ~Known(t.notice)
    /\ event' = event \cup ({t.notice} \cap Changes)
    /\ account' = Net(t.loaded, Scheduled(t.notice, t.loaded), account)
    /\ unheard' = unheard \cup
         (IF s \in late \/ PastDelta # {} THEN {t.notice} \cap Changes ELSE {})
    /\ End(s) /\ late' = late \ {s}
    /\ UNCHANGED <<provider, log, row, watch, detached, raced>>

(* graph_sync of a folder, and worker_tick for an account that is pending,  *)
(* of the inbox.  The worker first renews a subscription that is due, which *)
(* moves its expiry, or fails and ends the turn.  It cannot tell whether    *)
(* one is due when no Gmail topic is configured, and gives the account up.  *)
BeginDelta(s, worker, inbox) ==
    /\ provider = "graph"
    /\ worker => inbox /\ account.sync = "pending" /\ (watch = "none" \/ GmailTopic)
    /\ Load(s, [handler |-> "delta", inbox |-> inbox, loaded |-> account,
                row |-> Unlooked, learnt |-> Unread, upto |-> 0])
    /\ UNCHANGED mail

None == [kind |-> "none", text |-> 0]
Put  == [kind |-> "put", text |-> Latest]
Del  == [kind |-> "del", text |-> 0]

(* delta of the inbox: the changes since the loaded cursor; without one,    *)
(* the items that are in the folder.                                        *)
InboxDelta(cursor) == IF Latest = cursor \/ (cursor = 0 /\ ~Alive) THEN None
                      ELSE IF Alive THEN Put ELSE Del

(* delta of another folder, for a message that came to the inbox first: it  *)
(* may have been moved there, and away again.                               *)
FolderDelta == {None} \cup (IF ~Alive /\ Latest > 0 THEN {Put} ELSE {})
                 \cup (IF \E c \in 1..Latest : log[c] = "del" THEN {Del} ELSE {})

(* The run will store the position it has reached, or, for another folder,  *)
(* the inbox entry of the map as it was loaded.                             *)
Delta(s) ==
    LET t == txn[s] IN
    /\ t.handler = "delta" /\ t.learnt = Unread
    /\ \E answer \in IF t.inbox THEN {InboxDelta(t.loaded.cursor)} ELSE FolderDelta :
         txn' = [txn EXCEPT ![s].upto = IF t.inbox THEN Latest ELSE t.loaded.cursor,
                            ![s].learnt = answer]
    /\ UNCHANGED <<mail, late, raced>>

Waiting == {n \in Changes : provider = "graph" /\ n \in event /\ account.cursor < n}

(* sync_graph_folder from the last page on.  The cursor column is the whole *)
(* map, and the new deltaLink of one folder writes the entries of all.  Any *)
(* folder's run ends with "idle".  Whatever fails in it rolls the whole run *)
(* back, the assignment of "error" included.                                *)
SyncGraphFolder(s) ==
    LET t == txn[s] IN
    /\ t.handler = "delta" /\ t.row # Unlooked
    /\ WriteRow(t)
    /\ \E flushed \in Flushes(t) :
         account' = [Synchronised(t, t.upto, flushed) EXCEPT !.cursor = t.upto]
    /\ unheard' = unheard \cup (IF ~t.inbox /\ account.sync # account'.sync THEN Waiting ELSE {})
    /\ detached' = (detached \/ (~t.inbox /\ row' # row))
    /\ Commit(s, IF <<row', account'>> = <<row, account>> THEN {} ELSE Handlers)
    /\ UNCHANGED <<provider, log, watch, event>>

(* graph_watch: creates or renews the subscription and its binding.         *)
GraphWatch ==
    /\ provider = "graph"
    /\ watch = "none"
    /\ watch' = "live"
    /\ UNCHANGED <<provider, log, row, account, event, detached, unheard, uow>>

------------------------------------------------------------------------------
(* Gmail: the notice is the synchronisation                                 *)

(* gmail_webhook for an event it does not know; a push has its own id.      *)
BeginHistory(s, n) ==
    /\ provider = "gmail" /\ Announced(n)
    /\ n \notin event
    /\ Load(s, [handler |-> "history", notice |-> n, loaded |-> account,
                row |-> Unlooked, learnt |-> Unread, upto |-> 0])
    /\ UNCHANGED mail

(* uq_provider_webhook_event again.                                         *)
Received(s) ==
    /\ txn[s].notice \notin event
    /\ event' = event \cup {txn[s].notice}
    /\ UNCHANGED <<provider, log, watch, unheard>>

(* An account without a cursor starts at the notice.                        *)
InitializeCursor(s) ==
    LET t == txn[s] IN
    /\ t.handler = "history" /\ t.loaded.cursor = NoCursor
    /\ account' = [account EXCEPT !.cursor = t.notice]
    /\ Received(s)
    /\ detached' = TRUE
    /\ Commit(s, Handlers)
    /\ UNCHANGED row

(* history_changes: a message that was deleted since the cursor is not      *)
(* fetched, one that was changed will be.                                   *)
HistoryChanges(s) ==
    LET t == txn[s] IN
    /\ t.handler = "history" /\ t.learnt = Unread /\ t.loaded.cursor # NoCursor
    /\ txn' = [txn EXCEPT ![s].upto = Latest, ![s].learnt =
                  IF Latest = t.loaded.cursor THEN None ELSE IF Alive THEN Put ELSE Del]
    /\ UNCHANGED <<mail, late, raced>>

NewCursor(t) == t.upto

GmailWebhook(s) ==
    LET t == txn[s] IN
    /\ t.handler = "history" /\ t.row # Unlooked
    /\ WriteRow(t)
    /\ \E flushed \in Flushes(t) : account' = Synchronised(t, NewCursor(t), flushed)
    /\ Received(s)
    /\ Commit(s, IF <<row', account'>> = <<row, account>> THEN {} ELSE Handlers)
    /\ UNCHANGED detached

(* A 404: the cursor has expired, or the message that was to be fetched has *)
(* been deleted in the meantime.                                            *)
Answers404(t) == \/ t.learnt = Unread /\ t.loaded.cursor # NoCursor /\ t.loaded.cursor < Latest
                 \/ t.learnt.kind = "put" /\ t.row = Unlooked /\ ~Alive

ResyncRequired(s) ==
    LET t == txn[s] IN
    /\ t.handler = "history" /\ Answers404(t)
    /\ account' = Net(t.loaded, [t.loaded EXCEPT !.status = "RESYNC_REQUIRED"], account)
    /\ Received(s)
    /\ Commit(s, Handlers)
    /\ UNCHANGED <<row, detached>>

(* Any other HTTP error is committed with the event, and then raised.       *)
HistoryFailed(s) ==
    LET t == txn[s] IN
    /\ t.handler = "history" /\ t.loaded.cursor # NoCursor
    /\ Received(s)
    /\ Commit(s, {})
    /\ UNCHANGED <<row, account, detached>>

(* gmail_sync: lists the messages, fetches them, asks for the profile.      *)
BeginFull(s) ==
    /\ provider = "gmail"
    /\ Load(s, [handler |-> "full", loaded |-> account, row |-> Unlooked, learnt |-> Unread])
    /\ UNCHANGED mail

(* At most `limit' messages of the last 30 days are listed: the message may *)
(* be there and not be among them.                                          *)
ListMessages(s) ==
    /\ txn[s].handler = "full" /\ txn[s].learnt = Unread
    /\ \E answer \in {None} \cup (IF Alive THEN {Put} ELSE {}) :
         txn' = [txn EXCEPT ![s].learnt = answer]
    /\ UNCHANGED <<mail, late, raced>>

(* What the full synchronisation has not seen although the cursor will      *)
(* cover it: a deletion, a later change, a change of an unlisted message.   *)
Unseen(t) ==
    IF Alive THEN t.learnt.text # Latest /\ (t.learnt = None => t.loaded.cursor # Latest)
             ELSE row' # Absent /\ ~row'.gone

(* The profile's history id is the head of the log when the messages have   *)
(* been fetched.                                                            *)
GmailSync(s) ==
    LET t == txn[s] IN
    /\ t.handler = "full" /\ t.row # Unlooked
    /\ WriteRow(t)
    /\ \E flushed \in Flushes(t) : account' = Synchronised(t, Latest, flushed)
    /\ detached' = (detached \/ Unseen(t))
    /\ Commit(s, IF <<row', account'>> = <<row, account>> THEN {} ELSE Handlers)
    /\ UNCHANGED <<provider, log, watch, event, unheard>>

(* Whatever fails is committed as an error.                                 *)
GmailSyncFailed(s) ==
    LET t == txn[s] IN
    /\ t.handler = "full"
    /\ account' = Net(t.loaded, [t.loaded EXCEPT !.status = "error"], account)
    /\ Commit(s, IF account' = account THEN {} ELSE Handlers)
    /\ UNCHANGED <<provider, log, row, watch, event, detached, unheard>>

(* register_watch answers with the mailbox's history id of the moment.      *)
WatchCursor == Latest

(* gmail_watch, and worker_tick for an active account whose watch the clock *)
(* says is due: the history id of the new watch becomes the cursor.         *)
RegisterWatch(worker) ==
    /\ provider = "gmail" /\ GmailTopic
    /\ worker => account.status = "active"
    /\ watch' = "live"
    /\ account' = [account EXCEPT !.cursor = WatchCursor]
    /\ <<watch', account'>> # <<watch, account>>
    /\ detached' = (detached \/ account.cursor # Latest)
    /\ CommitAtOnce(IF account' = account THEN {} ELSE Handlers)
    /\ UNCHANGED <<provider, log, row, event, unheard>>

------------------------------------------------------------------------------
(* save_credentials of an account that is there.                            *)
Reconnected(cursor) == [account EXCEPT !.cursor = cursor, !.status = "active"]

(* gmail_callback or graph_callback again: the cursor starts anew.  What    *)
(* was deleted since the last synchronisation will not be reported, and a   *)
(* Gmail account skips what has changed.  The notices whose change had been *)
(* fetched ask for nothing more.                                            *)
Reconnect ==
    /\ \E cursor \in FirstCursors : account' = Reconnected(cursor)
    /\ account' # account
    /\ detached' = (detached \/ IF provider = "graph" THEN row # Absent
                                                  ELSE account'.cursor # account.cursor)
    /\ unheard' = unheard \cup {n \in event : provider = "graph" /\ n <= account.cursor}
    /\ CommitAtOnce(Handlers)
    /\ UNCHANGED <<provider, log, row, watch, event>>

(* The provider cannot be reached, a constraint fails, the process stops.   *)
RollBack(s) == Abandon(s) /\ UNCHANGED mail

Next ==
    \/ \E kind \in {"put", "del"} : Change(kind)
    \/ \E s \in Sessions :
          \/ \E n \in Notices : BeginNotify(s, n)
          \/ \E n \in Changes : BeginHistory(s, n)
          \/ \E w, inbox \in BOOLEAN : BeginDelta(s, w, inbox)
          \/ Notify(s) \/ Delta(s) \/ LookUp(s) \/ SyncGraphFolder(s)
          \/ InitializeCursor(s) \/ HistoryChanges(s) \/ GmailWebhook(s)
          \/ ResyncRequired(s) \/ HistoryFailed(s)
          \/ BeginFull(s) \/ ListMessages(s) \/ GmailSync(s) \/ GmailSyncFailed(s)
          \/ RollBack(s)
    \/ GraphWatch
    \/ \E w \in BOOLEAN : RegisterWatch(w)
    \/ Reconnect

Spec == Init /\ [][Next]_vars

(* The worker's loop takes every pending account up again, whatever else    *)
(* runs, and the provider does not fail it for ever at the same place;      *)
(* every request ends.                                                      *)
Fairness ==
    \A s \in Sessions :
        /\ WF_vars(Notify(s) \/ RollBack(s))
        /\ SF_vars(BeginDelta(s, TRUE, TRUE)) /\ SF_vars(Delta(s))
        /\ SF_vars(LookUp(s)) /\ SF_vars(SyncGraphFolder(s))

FairSpec == Spec /\ Fairness

------------------------------------------------------------------------------
(* Properties                                                               *)

(* beta_routes.py: "Notifications schedule folder delta sync; delta remains *)
(* the source of truth".  A pending account is synchronised.                *)
PendingIsSynchronised == account.sync = "pending" ~> account.sync = "idle"

(* The change of a notification that graph_webhook_receive accepted has     *)
(* been fetched, or the account is pending: failed and crashed runs and     *)
(* repeated and reordered notifications do not lose the wake-up, nor does a *)
(* run of another folder that found the account idle and flushed nothing.   *)
(* Excepted are notifications accepted between the delta and the commit of  *)
(* a run of the inbox, or after one when they had loaded the account before *)
(* it; those whose pending flag a run of another folder has cleared; and    *)
(* runs that wrote over one another.  A notification that is dropped as a   *)
(* duplicate, because it has no sequenceNumber, wakes nobody.               *)
WakeUpKept == "delta" \notin raced /\ Waiting \ unheard # {} => account.sync = "pending"

(* The row shows the message as it was at change c, or later.               *)
Shows(c) ==
    IF log[c] = "put"
    THEN row.text >= c /\ (row.gone => \E d \in c+1..Latest : log[d] = "del")
    ELSE row = Absent \/ row.gone \/ row.text > c

(* The committed cursor never runs ahead of the message's row, whatever is  *)
(* lost, repeated, reordered, rolled back or answered with an error.        *)
(* Excepted are cursors moved past changes that nobody fetched (a watch, a  *)
(* first notice, a reconnection, a full synchronisation that missed a       *)
(* deletion, a later change or an unlisted message), rows written by a run  *)
(* of another folder, and runs that wrote over one another.  (A change      *)
(* below the cursor is never asked for again.)                              *)
NeverBehindCursor ==
    ~detached /\ {"delta", "history", "full"} \cap raced = {} /\ account.cursor \in Changes
        => Shows(account.cursor)
=============================================================================
