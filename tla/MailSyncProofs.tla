--------------------------- MODULE MailSyncProofs ---------------------------
(***************************************************************************)
(* Proofs about MailSync, for any number of sessions and changes at the    *)
(* provider.                                                               *)
(***************************************************************************)
EXTENDS MailSync, UnitOfWorkProofs

Syncs == {"delta", "history", "full"}

(* A run that moves the cursor of the folder it asked for.                  *)
Own(t) == t.handler = "history" \/ (t.handler = "delta" /\ t.inbox)

(* What such a run learnt is what the provider's log says at the position   *)
(* it asked up to.  The message itself may be a later one.                  *)
OwnLearns(t) ==
    /\ t.learnt.kind = "put" => t.upto > 0 /\ log[t.upto] = "put" /\ t.upto <= t.learnt.text
    /\ t.learnt.kind = "del" => t.upto > 0 /\ log[t.upto] = "del"
    /\ t.learnt.kind = "none" =>
         \/ t.upto = t.loaded.cursor
         \/ /\ t.handler = "delta" /\ t.loaded.cursor = 0
            /\ t.upto = 0 \/ log[t.upto] = "del"

(* A run of another folder writes the loaded inbox entry back.              *)
Learns(t) ==
    /\ t.handler # "full" => t.upto <= Latest
    /\ Own(t) => OwnLearns(t)
    /\ t.handler = "delta" /\ ~t.inbox /\ t.learnt.kind # "unread" => t.upto = t.loaded.cursor
    /\ t.learnt.kind = "unread" => t.row = Unlooked

(* No cursor runs ahead of the provider's log, and a Graph account always   *)
(* has one.                                                                 *)
Reached(cursor) == cursor <= Latest \/ (cursor = NoCursor /\ provider = "gmail")

(* What a request in flight is known to hold, late or not.                  *)
Holds(t) ==
    /\ t.handler \in {"notify", "delta"} => provider = "graph"
    /\ t.handler \in {"history", "full"} => provider = "gmail"
    /\ t.handler = "notify" => t.notice <= Latest \/ t.notice = Lifecycle
    /\ t.handler = "history" => t.notice <= Latest
    /\ t.handler \in Syncs => Learns(t) /\ Reached(t.loaded.cursor)

TypeInv ==
    /\ TypeOK
    /\ Reached(account.cursor)
    /\ \A n \in event : n <= Latest
    /\ \A s \in Sessions : Holds(txn[s])

(* A request in flight that is not late has loaded the cursor, and looked   *)
(* up the row, as they are; if it found the account pending it still is.    *)
Current(t) ==
    /\ t.handler \in Syncs => /\ t.loaded.cursor = account.cursor
                              /\ t.row # Unlooked => t.row = row
    /\ t.handler = "notify" /\ t.loaded.sync = "pending" => account.sync = "pending"

CurrentInv == \A s \in Sessions : s \in late \/ Current(txn[s])

(* A run of the inbox past its delta will move the cursor past every notice *)
(* that was accepted before.                                                *)
Hears(t) ==
    t.handler = "delta" /\ t.inbox /\ t.learnt.kind # "unread" =>
        \A n \in event \ unheard : n <= t.upto

WakeInv == WakeUpKept /\ \A s \in Sessions : Hears(txn[s])

(* Before its first delta a Graph account has no row.                       *)
CursorInv ==
    /\ NeverBehindCursor
    /\ ~detached /\ Syncs \cap raced = {} /\ provider = "graph" /\ account.cursor = 0
         => row = Absent

------------------------------------------------------------------------------
(* Type correctness                                                         *)

(* The type invariant, with the units of work set apart.                    *)
LEMMA TypeUnits ==
    TypeOK <=> /\ provider \in {"graph", "gmail"}
               /\ log \in Seq({"put", "del"}) /\ Latest <= MaxChanges
               /\ row \in MailRow
               /\ account \in Account
               /\ account.sync \in {"idle", "pending"}
               /\ watch \in {"none", "live"}
               /\ event \subseteq Changes
               /\ detached \in BOOLEAN /\ unheard \subseteq Changes
               /\ Units(Txn)
  BY DEF TypeOK, Units

(* The fields of a request, by its handler.                                 *)
LEMMA TxnFields ==
    ASSUME NEW t \in Txn
    PROVE  /\ t # Idle /\ t.handler \in Handlers /\ t.loaded \in Account
           /\ t.handler = "notify" => t.notice \in Notices
           /\ t.handler = "history" => t.notice \in Changes
           /\ t.handler \in Syncs => t.row \in MailRow /\ t.learnt \in Learnt
           /\ t.handler \in {"delta", "history"} => t.upto \in 0..MaxChanges
           /\ t.handler = "delta" => t.inbox \in BOOLEAN
  BY DEF Txn, Handlers, Syncs, Idle

(* What can have been learnt.                                               *)
LEMMA LearntFields ==
    ASSUME NEW l \in Learnt
    PROVE  /\ l.kind \in {"unread", "none", "del", "put"}
           /\ l.kind = "put" => l.text \in Changes
           /\ l = Unread <=> l.kind = "unread"
  BY DEF Learnt, Unread

(* The columns of a row and of an account.                                  *)
LEMMA RowFields ==
    /\ \A r \in MailRow : r.text \in Changes \cup {0} /\ r.gone \in BOOLEAN
    /\ Absent \in MailRow /\ Unlooked \in MailRow
    /\ \A a \in Account : /\ a.cursor \in 0..MaxChanges \cup {NoCursor}
                          /\ a.sync \in {"idle", "pending", "running"}
                          /\ a.status \in {"active", "RESYNC_REQUIRED", "error"}
  BY DEF MailRow, Account, Absent, Unlooked

(* The request that a session with this handler has in flight.              *)
LEMMA InHand ==
    ASSUME TypeInv, NEW s \in Sessions, txn[s].handler # "idle"
    PROVE  txn[s] \in Txn /\ Holds(txn[s])
  BY IdleHandler DEF TypeInv, TypeOK

(* The number of changes.                                                   *)
LEMMA LatestType == TypeInv => /\ Latest \in 0..MaxChanges /\ MaxChanges \in Nat
                               /\ \A i \in 1..Latest : log[i] \in {"put", "del"}
  BY MailAssumption DEF TypeInv, TypeOK, Latest

(* The provider's log only grows.                                           *)
LogGrows ==
    /\ provider' = provider
    /\ Latest <= Latest' /\ Latest' \in Nat
    /\ \A i \in 1..Latest : log'[i] = log[i]

(* What a request holds it keeps while the log grows.                       *)
LEMMA HoldsKept ==
    ASSUME TypeInv, LogGrows, NEW u \in Sessions, txn'[u] = txn[u] \/ txn'[u] = Idle
    PROVE  Holds(txn[u])'
  <1>1. CASE txn'[u] = Idle
    BY <1>1, IdleHandler DEF Holds, Syncs
  <1>2. CASE txn'[u] = txn[u] /\ txn[u] # Idle
    <2>1. PICK t \in Txn : t = txn[u]
      BY <1>2 DEF TypeInv, TypeOK
    <2>2. Holds(t) /\ Latest \in Nat
      BY <2>1, LatestType DEF TypeInv
    <2>3. ASSUME t.handler \in Syncs, Learns(t) PROVE Learns(t)'
      <3>1. CASE t.handler = "full"
        BY <2>3, <3>1 DEF Learns, Own
      <3>2. CASE t.handler # "full"
        <4>1. t.upto \in Nat
          BY <2>3, <3>2, TxnFields, MailAssumption DEF Syncs
        <4>2. t.upto <= Latest /\ t.upto <= Latest'
          BY <2>2, <2>3, <3>2, <4>1 DEF LogGrows, Learns
        <4>3. t.upto > 0 => log'[t.upto] = log[t.upto]
          BY <2>2, <4>1, <4>2 DEF LogGrows
        <4>4. Own(t) => OwnLearns(t)'
          BY <2>3, <4>1, <4>3 DEF Learns, OwnLearns
        <4> QED  BY <2>3, <4>2, <4>4 DEF Learns, Own
      <3> QED  BY <3>1, <3>2
    <2>4. ASSUME t.handler \in Syncs, Reached(t.loaded.cursor) PROVE Reached(t.loaded.cursor)'
      <3>1. t.loaded.cursor \in Nat
        BY TxnFields, RowFields, MailAssumption DEF NoCursor
      <3> QED  BY <2>2, <2>4, <3>1 DEF Reached, LogGrows
    <2>5. t.handler \in {"notify", "history"} => t.notice \in Nat
      BY TxnFields, MailAssumption DEF Notices, Changes, Lifecycle
    <2>6. Holds(t)'
      BY <2>2, <2>3, <2>4, <2>5 DEF Holds, LogGrows
    <2> QED  BY <1>2, <2>1, <2>6
  <1> QED  BY <1>1, <1>2

(* The account has just been connected.                                     *)
LEMMA TypeInit == Init => TypeInv
  <1> SUFFICES ASSUME Init PROVE TypeInv  OBVIOUS
  <1>1. Units(Txn) /\ \A s \in Sessions : txn[s] = Idle
    BY UnitsStart DEF Init
  <1>2. Latest = 0 /\ log \in Seq({"put", "del"})
    BY DEF Init, Latest
  <1>3. /\ account \in Account /\ account.sync = "idle"
        /\ Reached(account.cursor)
    BY <1>2, MailAssumption DEF Init, FirstCursors, Account, Reached
  <1>4. TypeOK
    <2>1. Latest <= MaxChanges /\ row \in MailRow
      BY <1>2, RowFields, MailAssumption DEF Init
    <2>2. detached \in BOOLEAN /\ unheard \subseteq Changes /\ event \subseteq Changes
      BY DEF Init
    <2> QED  BY <1>1, <1>2, <1>3, <2>1, <2>2, TypeUnits DEF Init
  <1> QED  BY <1>1, <1>2, <1>3, <1>4, IdleHandler DEF Init, TypeInv, Holds, Syncs

(* A step that gives no session a new request.                              *)
LEMMA TypeSettles ==
    ASSUME TypeInv, LogGrows, Settles(Txn),
           log' \in Seq({"put", "del"}), Latest' <= MaxChanges,
           row' \in MailRow,
           account' \in Account, account'.sync \in {"idle", "pending"},
           Reached(account.cursor)',
           watch' \in {"none", "live"},
           event' \subseteq Changes, \A n \in event' : n <= Latest',
           detached' \in BOOLEAN, unheard' \subseteq Changes
    PROVE  TypeInv'
  <1>1. Units(Txn)' /\ \A u \in Sessions : txn'[u] = txn[u] \/ txn'[u] = Idle
    BY DEF Settles
  <1>2. TypeOK'
    <2>1. provider' \in {"graph", "gmail"}
      BY DEF LogGrows, TypeInv, TypeOK
    <2> QED  BY <1>1, <2>1, TypeUnits DEF TypeOK, Units
  <1>3. \A u \in Sessions : Holds(txn[u])'
    BY <1>1, HoldsKept
  <1> QED  BY <1>2, <1>3 DEF TypeInv

(* The first half of a handler.                                             *)
Begin(s) ==
    \/ \E n \in Notices : BeginNotify(s, n)
    \/ \E n \in Changes : BeginHistory(s, n)
    \/ \E w, inbox \in BOOLEAN : BeginDelta(s, w, inbox)
    \/ BeginFull(s)

(* A request that is loaded has seen the account as it is and has asked     *)
(* the provider nothing yet.                                                *)
LEMMA BeginLoads ==
    ASSUME TypeInv, NEW s \in Sessions, Begin(s)
    PROVE  /\ \E t \in Txn : Load(s, t) /\ Holds(t) /\ Current(t) /\ Hears(t)
           /\ UNCHANGED mail
  <1> DEFINE Goal == /\ \E t \in Txn : Load(s, t) /\ Holds(t) /\ Current(t) /\ Hears(t)
                     /\ UNCHANGED mail
  <1>1. /\ account \in Account /\ Latest \in Nat /\ Unlooked \in MailRow
        /\ Unread \in Learnt /\ Unread.kind = "unread" /\ 0 \in 0..MaxChanges
        /\ Reached(account.cursor)
    BY LatestType, RowFields, MailAssumption DEF TypeInv, TypeOK, Unread, Learnt
  <1>2. ASSUME NEW n \in Notices, BeginNotify(s, n) PROVE Goal
    <2> DEFINE t == [handler |-> "notify", notice |-> n, loaded |-> account]
    <2>1. t \in Txn
      BY <1>1 DEF Txn
    <2>2. Holds(t) /\ Current(t) /\ Hears(t)
      BY <1>1, <1>2 DEF BeginNotify, Announced, Holds, Current, Hears, Syncs
    <2> QED  BY <1>2, <2>1, <2>2 DEF BeginNotify
  <1>3. ASSUME NEW n \in Changes, BeginHistory(s, n) PROVE Goal
    <2> DEFINE t == [handler |-> "history", notice |-> n, loaded |-> account,
                     row |-> Unlooked, learnt |-> Unread, upto |-> 0]
    <2>1. t \in Txn
      BY <1>1 DEF Txn
    <2>2. Learns(t)
      BY <1>1 DEF Learns, OwnLearns
    <2>3. n <= Latest
      BY <1>1, <1>3, MailAssumption DEF BeginHistory, Announced, Changes, Lifecycle
    <2>4. Holds(t) /\ Current(t) /\ Hears(t)
      BY <1>1, <1>3, <2>2, <2>3 DEF BeginHistory, Holds, Current, Hears, Syncs
    <2> QED  BY <1>3, <2>1, <2>4 DEF BeginHistory
  <1>4. ASSUME NEW w \in BOOLEAN, NEW inbox \in BOOLEAN, BeginDelta(s, w, inbox) PROVE Goal
    <2> DEFINE t == [handler |-> "delta", inbox |-> inbox, loaded |-> account,
                     row |-> Unlooked, learnt |-> Unread, upto |-> 0]
    <2>1. t \in Txn
      BY <1>1 DEF Txn
    <2>2. Learns(t)
      BY <1>1 DEF Learns, OwnLearns
    <2>3. Holds(t) /\ Current(t) /\ Hears(t)
      BY <1>1, <1>4, <2>2 DEF BeginDelta, Holds, Current, Hears, Syncs
    <2> QED  BY <1>4, <2>1, <2>3 DEF BeginDelta
  <1>5. CASE BeginFull(s)
    <2> DEFINE t == [handler |-> "full", loaded |-> account, row |-> Unlooked, learnt |-> Unread]
    <2>1. t \in Txn
      BY <1>1 DEF Txn
    <2>2. Learns(t)
      BY <1>1 DEF Learns, Own
    <2>3. Holds(t) /\ Current(t) /\ Hears(t)
      BY <1>1, <1>5, <2>2 DEF BeginFull, Holds, Current, Hears, Syncs
    <2> QED  BY <1>5, <2>1, <2>3 DEF BeginFull
  <1> QED  BY <1>2, <1>3, <1>4, <1>5 DEF Begin

(* A request in flight hears from the provider or looks up the row.         *)
Reads(s) == LookUp(s) \/ Delta(s) \/ HistoryChanges(s) \/ ListMessages(s)

(* Records the answer of the provider: the log up to its end.               *)
LEMMA AnswerRead ==
    ASSUME TypeInv, NEW t \in Txn, t.handler \in Syncs, Holds(t), t.learnt = Unread,
           Own(t), NEW l \in Learnt,
           l.kind = "put" => Alive /\ l.text = Latest,
           l.kind = "del" => Latest > 0 /\ ~Alive,
           l.kind = "none" =>
             \/ Latest = t.loaded.cursor
             \/ t.handler = "delta" /\ t.loaded.cursor = 0 /\ ~Alive,
           l.kind # "unread"
    PROVE  LET u == [t EXCEPT !.upto = Latest, !.learnt = l]
           IN  /\ u \in Txn /\ u.handler = t.handler /\ u.loaded = t.loaded
               /\ t.handler = "delta" => u.inbox = t.inbox
               /\ u.row = Unlooked /\ u.upto = Latest
               /\ Holds(u)
  <1> DEFINE u == [t EXCEPT !.upto = Latest, !.learnt = l]
  <1>0. t.handler \in {"delta", "history"}
    BY DEF Own
  <1>1. Latest \in 0..MaxChanges /\ (Latest > 0 => log[Latest] \in {"put", "del"})
    BY LatestType, MailAssumption
  <1>2. u \in Txn
    BY <1>0, <1>1 DEF Txn
  <1>3. /\ u.handler = t.handler /\ u.loaded = t.loaded /\ u.row = t.row
        /\ u.upto = Latest /\ u.learnt = l
        /\ t.handler = "history" => u.notice = t.notice
        /\ t.handler = "delta" => u.inbox = t.inbox
    BY <1>0 DEF Txn
  <1>4. t.row = Unlooked
    BY DEF Holds, Learns, Unread
  <1> HIDE DEF u
  <1>5. Learns(u)
    <2>1. Latest <= Latest /\ Latest \in Nat
      BY <1>1, MailAssumption
    <2>2. OwnLearns(u)
      BY <1>1, <1>3, <2>1 DEF OwnLearns, Alive
    <2>3. u.handler = "delta" => u.inbox
      BY <1>3 DEF Own
    <2> QED  BY <1>3, <2>1, <2>2, <2>3 DEF Learns
  <1>6. Holds(u)
    BY <1>3, <1>5 DEF Holds, Syncs
  <1>7. /\ u \in Txn /\ u.handler = t.handler /\ u.loaded = t.loaded
        /\ t.handler = "delta" => u.inbox = t.inbox
        /\ u.row = Unlooked /\ u.upto = Latest /\ Holds(u)
    BY <1>2, <1>3, <1>4, <1>6
  <1> QED  BY <1>7 DEF u

(* What a read changes: the request, and nothing else.                      *)
LEMMA ReadStep ==
    ASSUME TypeInv, NEW s \in Sessions, Reads(s)
    PROVE  /\ \E t, u \in Txn :
                /\ t = txn[s] /\ txn' = [txn EXCEPT ![s] = u]
                /\ t.handler \in Syncs /\ u.handler = t.handler /\ u.loaded = t.loaded
                /\ Holds(u)
                /\ u.row # Unlooked => u.row = row
                /\ t.handler = "delta" =>
                     /\ u.inbox = t.inbox
                     /\ u.inbox => \/ u.upto = Latest
                                   \/ u.upto = t.upto /\ t.learnt.kind # "unread"
           /\ UNCHANGED <<mail, late, raced>>
  <1>1. txn[s].handler \in Syncs /\ UNCHANGED <<mail, late, raced>>
    BY DEF Reads, LookUp, Delta, HistoryChanges, ListMessages, Syncs
  <1>2. PICK t \in Txn : t = txn[s] /\ Holds(t)
    BY <1>1, InHand DEF Syncs
  <1>3. t.handler \in Syncs /\ t.learnt \in Learnt /\ t.row \in MailRow
    BY <1>1, <1>2, TxnFields
  <1>4. txn \in [Sessions -> Txn \cup {Idle}]
    BY DEF TypeInv, TypeOK
  <1> DEFINE Goal == \E u \in Txn :
                /\ txn' = [txn EXCEPT ![s] = u]
                /\ u.handler = t.handler /\ u.loaded = t.loaded
                /\ Holds(u)
                /\ u.row # Unlooked => u.row = row
                /\ t.handler = "delta" =>
                     /\ u.inbox = t.inbox
                     /\ u.inbox => \/ u.upto = Latest
                                   \/ u.upto = t.upto /\ t.learnt.kind # "unread"
  <1>5. /\ None \in Learnt /\ Del \in Learnt /\ (Latest > 0 => Put \in Learnt)
        /\ None.kind = "none" /\ Del.kind = "del" /\ Put.kind = "put" /\ Put.text = Latest
    BY LatestType, MailAssumption DEF Learnt, None, Put, Del, Changes
  <1>6. ASSUME NEW l \in Learnt, t.learnt = Unread, Own(t),
               txn' = [txn EXCEPT ![s].upto = Latest, ![s].learnt = l],
               l.kind = "put" => Alive /\ l.text = Latest,
               l.kind = "del" => Latest > 0 /\ ~Alive,
               l.kind = "none" =>
                 \/ Latest = t.loaded.cursor
                 \/ t.handler = "delta" /\ t.loaded.cursor = 0 /\ ~Alive,
               l.kind # "unread"
        PROVE  Goal
    <2> DEFINE u == [t EXCEPT !.upto = Latest, !.learnt = l]
    <2>1. txn' = [txn EXCEPT ![s] = u]
      BY <1>2, <1>4, <1>6
    <2>2. /\ u \in Txn /\ u.handler = t.handler /\ u.loaded = t.loaded
          /\ t.handler = "delta" => u.inbox = t.inbox
          /\ u.row = Unlooked /\ u.upto = Latest /\ Holds(u)
      BY <1>2, <1>3, <1>6, AnswerRead
    <2> HIDE DEF u
    <2> QED  BY <2>1, <2>2
  <1>7. ASSUME Delta(s), t.inbox PROVE Goal
    <2> DEFINE l == InboxDelta(t.loaded.cursor)
    <2>1. /\ t.handler = "delta" /\ t.learnt = Unread /\ Own(t)
          /\ txn' = [txn EXCEPT ![s].upto = Latest, ![s].learnt = l]
      BY <1>2, <1>7 DEF Delta, Own
    <2>2. t.loaded.cursor <= Latest /\ t.loaded.cursor \in Nat /\ Latest \in Nat
      BY <1>2, <2>1, TxnFields, RowFields, LatestType, MailAssumption
      DEF Holds, Reached, Syncs, NoCursor
    <2>3. /\ l \in Learnt /\ l.kind # "unread"
          /\ l.kind = "put" => Alive /\ l.text = Latest
          /\ l.kind = "none" => Latest = t.loaded.cursor \/ (t.loaded.cursor = 0 /\ ~Alive)
          /\ l.kind = "del" => Latest > 0 /\ ~Alive
      BY <1>5, <2>2 DEF InboxDelta, Alive
    <2> HIDE DEF l
    <2> QED  BY <1>6, <2>1, <2>3
  <1>8. ASSUME HistoryChanges(s) PROVE Goal
    <2> DEFINE l == IF Latest = t.loaded.cursor THEN None ELSE IF Alive THEN Put ELSE Del
    <2>1. /\ t.handler = "history" /\ t.learnt = Unread /\ t.loaded.cursor # NoCursor /\ Own(t)
          /\ txn' = [txn EXCEPT ![s].upto = Latest, ![s].learnt = l]
      BY <1>2, <1>8 DEF HistoryChanges, Own
    <2>2. t.loaded.cursor <= Latest /\ t.loaded.cursor \in Nat /\ Latest \in Nat
      BY <1>2, <2>1, TxnFields, RowFields, LatestType, MailAssumption
      DEF Holds, Reached, Syncs, NoCursor
    <2>3. /\ l \in Learnt /\ l.kind # "unread"
          /\ l.kind = "put" => Alive /\ l.text = Latest
          /\ l.kind = "none" => Latest = t.loaded.cursor
          /\ l.kind = "del" => Latest > 0 /\ ~Alive
      BY <1>5, <2>2 DEF Alive
    <2> HIDE DEF l
    <2> QED  BY <1>6, <2>1, <2>3
  <1>9. ASSUME ListMessages(s) PROVE Goal
    <2>1. PICK l \in {None} \cup (IF Alive THEN {Put} ELSE {}) :
            txn' = [txn EXCEPT ![s].learnt = l]
      BY <1>2, <1>9 DEF ListMessages
    <2>2. l \in Learnt /\ l.kind # "unread" /\ t.handler = "full" /\ t.learnt = Unread
      BY <1>2, <1>5, <1>9 DEF Alive, ListMessages
    <2> DEFINE u == [t EXCEPT !.learnt = l]
    <2>3. txn' = [txn EXCEPT ![s] = u]
      BY <1>2, <1>4, <2>1
    <2>4. /\ u \in Txn /\ u.handler = t.handler /\ u.loaded = t.loaded
          /\ u.row = t.row /\ u.learnt = l
      BY <2>2 DEF Txn
    <2>5. t.row = Unlooked
      BY <1>2, <1>3, <2>2 DEF Holds, Learns, Unread
    <2> HIDE DEF u
    <2>6. Learns(u)
      BY <2>2, <2>4, <2>5 DEF Learns, Own
    <2>7. Holds(u)
      BY <1>2, <2>2, <2>4, <2>6 DEF Holds, Syncs
    <2> QED  BY <2>2, <2>3, <2>4, <2>5, <2>7
  <1>10. ASSUME LookUp(s) PROVE Goal
    <2>1. t.learnt # Unread /\ t.learnt.kind # "unread" /\ row \in MailRow
      BY <1>2, <1>3, <1>10, LearntFields DEF LookUp, TypeInv, TypeOK
    <2>2. CASE provider = "gmail" /\ t.learnt.kind = "put"
      <3> DEFINE u == [t EXCEPT !.row = row, !.learnt.text = Latest]
      <3>1. Alive /\ txn' = [txn EXCEPT ![s] = u]
        BY <1>2, <1>4, <1>10, <2>2 DEF LookUp
      <3>2. Latest \in Changes
        BY <3>1, LatestType DEF Alive, Changes
      <3>0. t.handler \in {"history", "full"}
        BY <1>2, <1>3, <2>2 DEF Holds, Syncs
      <3>3. /\ u \in Txn /\ u.handler = t.handler /\ u.loaded = t.loaded
            /\ u.row = row /\ u.learnt = [kind |-> "put", text |-> Latest]
            /\ t.handler = "history" => u.notice = t.notice /\ u.upto = t.upto
        BY <1>3, <2>1, <2>2, <3>0, <3>2 DEF Txn, Learnt
      <3> HIDE DEF u
      <3>4. Learns(u)
        BY <1>2, <1>3, <2>2, <3>0, <3>3 DEF Holds, Learns, Own, OwnLearns, Syncs
      <3>5. Holds(u)
        BY <1>2, <1>3, <3>3, <3>4 DEF Holds, Syncs
      <3> QED  BY <2>1, <3>0, <3>1, <3>3, <3>5
    <2>3. CASE ~(provider = "gmail" /\ t.learnt.kind = "put")
      <3> DEFINE u == [t EXCEPT !.row = row]
      <3>1. txn' = [txn EXCEPT ![s] = u]
        BY <1>2, <1>4, <1>10, <2>3 DEF LookUp
      <3>2. /\ u \in Txn /\ u.handler = t.handler /\ u.loaded = t.loaded
            /\ u.row = row /\ u.learnt = t.learnt
            /\ t.handler = "history" => u.notice = t.notice /\ u.upto = t.upto
            /\ t.handler = "delta" => u.inbox = t.inbox /\ u.upto = t.upto
        BY <1>3, <2>1 DEF Txn, Syncs
      <3> HIDE DEF u
      <3>3. Learns(u)
        BY <1>2, <1>3, <2>1, <3>2 DEF Holds, Learns, Own, OwnLearns, Syncs
      <3>4. Holds(u)
        BY <1>2, <1>3, <3>2, <3>3 DEF Holds, Syncs
      <3> QED  BY <2>1, <3>1, <3>2, <3>4
    <2> QED  BY <2>2, <2>3
  <1>11. ASSUME Delta(s), ~t.inbox PROVE Goal
    <2>1. /\ t.handler = "delta" /\ t.learnt = Unread
          /\ \E l \in FolderDelta :
               txn' = [txn EXCEPT ![s].upto = t.loaded.cursor, ![s].learnt = l]
      BY <1>2, <1>11 DEF Delta
    <2>2. PICK l \in FolderDelta :
            txn' = [txn EXCEPT ![s].upto = t.loaded.cursor, ![s].learnt = l]
      BY <2>1
    <2>3. l \in Learnt /\ l.kind # "unread"
      <3>1. l = None \/ (l = Put /\ Latest > 0) \/ l = Del
        BY DEF FolderDelta
      <3> QED  BY <1>5, <3>1
    <2>4. t.loaded.cursor \in 0..MaxChanges /\ t.loaded.cursor <= Latest
      BY <1>2, <2>1, TxnFields, RowFields, LatestType, MailAssumption
      DEF Holds, Reached, Syncs, NoCursor
    <2> DEFINE u == [t EXCEPT !.upto = t.loaded.cursor, !.learnt = l]
    <2>5. txn' = [txn EXCEPT ![s] = u]
      BY <1>2, <1>4, <2>2
    <2>6. /\ u \in Txn /\ u.handler = t.handler /\ u.loaded = t.loaded /\ u.inbox = t.inbox
          /\ u.row = t.row /\ u.learnt = l /\ u.upto = t.loaded.cursor
      BY <2>1, <2>3, <2>4 DEF Txn
    <2>7. t.row = Unlooked
      BY <1>2, <1>3, <2>1 DEF Holds, Learns, Unread
    <2> HIDE DEF u
    <2>8. Learns(u)
      BY <1>11, <2>1, <2>3, <2>4, <2>6, <2>7 DEF Learns, Own
    <2>9. Holds(u)
      BY <1>2, <2>1, <2>6, <2>8 DEF Holds, Syncs
    <2> QED  BY <1>11, <2>1, <2>5, <2>6, <2>7, <2>9
  <1>12. Goal
    BY <1>7, <1>8, <1>9, <1>10, <1>11 DEF Reads
  <1> QED  BY <1>1, <1>2, <1>3, <1>12

(* The other requests do not notice it.                                     *)
LEMMA ReadUnits ==
    ASSUME TypeInv, NEW s \in Sessions, NEW u \in Txn, txn[s] \in Txn,
           txn' = [txn EXCEPT ![s] = u], UNCHANGED late
    PROVE  /\ Units(Txn)' /\ txn'[s] = u
           /\ \A v \in Sessions : v # s => txn'[v] = txn[v]
  <1>1. txn \in [Sessions -> Txn \cup {Idle}] /\ late \subseteq InFlight
    BY DEF TypeInv, TypeOK, UnitsOK
  <1>2. /\ txn' \in [Sessions -> Txn \cup {Idle}] /\ txn'[s] = u
        /\ \A v \in Sessions : v # s => txn'[v] = txn[v]
    BY <1>1
  <1>3. u # Idle
    BY TxnFields
  <1>4. UnitsOK'
    BY <1>1, <1>2, <1>3 DEF UnitsOK, InFlight
  <1> QED  BY <1>2, <1>4 DEF Units

(* A step of the requests only: somebody loads or reads.                    *)
LEMMA TypeRequest ==
    ASSUME TypeInv, UNCHANGED mail, Units(Txn)', NEW s \in Sessions,
           Holds(txn'[s]), \A v \in Sessions : v # s => txn'[v] = txn[v]
    PROVE  TypeInv'
  <1>1. UNCHANGED <<provider, log, row, account, watch, event, detached, unheard>>
    BY DEF mail
  <1>2. TypeOK'
    BY <1>1, TypeUnits DEF TypeInv, TypeOK, Units, Latest
  <1>3. Latest' = Latest /\ LogGrows
    BY <1>1, LatestType, MailAssumption DEF Latest, LogGrows
  <1>4. \A v \in Sessions : Holds(txn[v])'
    <2> SUFFICES ASSUME NEW v \in Sessions PROVE Holds(txn[v])'  OBVIOUS
    <2>1. CASE v = s
      BY <1>1, <1>3, <2>1 DEF Holds, Learns, OwnLearns, Reached
    <2>2. CASE v # s
      BY <1>3, <2>2, HoldsKept
    <2> QED  BY <2>1, <2>2
  <1> QED  BY <1>1, <1>2, <1>3, <1>4 DEF TypeInv, Reached

(* The ORM's update of an account, column by column.                        *)
LEMMA NetAccount ==
    ASSUME NEW loaded \in Account, NEW new \in Account, NEW current \in Account
    PROVE  LET net == Net(loaded, new, current)
           IN  /\ net \in Account
               /\ net.cursor = IF new.cursor = loaded.cursor THEN current.cursor ELSE new.cursor
               /\ net.sync = IF new.sync = loaded.sync THEN current.sync ELSE new.sync
  <1>1. DOMAIN new = {"cursor", "sync", "status"}
    BY DEF Account
  <1>2. Net(loaded, new, current) =
          [cursor |-> IF new.cursor = loaded.cursor THEN current.cursor ELSE new.cursor,
           sync   |-> IF new.sync = loaded.sync THEN current.sync ELSE new.sync,
           status |-> IF new.status = loaded.status THEN current.status ELSE new.status]
    BY <1>1 DEF Net
  <1> QED  BY <1>2, RowFields DEF Account

(* The ORM's update of a message row: the new row, if nobody else wrote.    *)
LEMMA NetRow ==
    ASSUME NEW loaded \in MailRow, NEW new \in MailRow, NEW current \in MailRow
    PROVE  /\ Net(loaded, new, current) \in MailRow
           /\ loaded = current => Net(loaded, new, current) = new
  <1>1. DOMAIN new = {"text", "gone"} /\ new = [text |-> new.text, gone |-> new.gone]
    BY DEF MailRow
  <1>2. Net(loaded, new, current) =
          [text |-> IF new.text = loaded.text THEN current.text ELSE new.text,
           gone |-> IF new.gone = loaded.gone THEN current.gone ELSE new.gone]
    BY <1>1 DEF Net
  <1>3. Net(loaded, new, current) \in MailRow
    BY <1>2, RowFields DEF MailRow
  <1>4. ASSUME loaded = current PROVE Net(loaded, new, current) = new
    <2>1. /\ (IF new.text = loaded.text THEN current.text ELSE new.text) = new.text
          /\ (IF new.gone = loaded.gone THEN current.gone ELSE new.gone) = new.gone
      BY <1>4
    <2> QED  BY <1>1, <1>2, <2>1
  <1> QED  BY <1>3, <1>4

(* The row as a synchronisation would have it.                              *)
LEMMA MirroredType ==
    ASSUME NEW r \in MailRow, NEW l \in Learnt
    PROVE  /\ Mirrored(r, l) \in MailRow
           /\ l.kind = "put" => Mirrored(r, l) = [text |-> l.text, gone |-> FALSE]
           /\ l.kind = "del" => Mirrored(r, l) = [r EXCEPT !.gone = r # Absent]
           /\ l.kind \notin {"put", "del"} => Mirrored(r, l) = r
  <1>1. CASE l.kind = "put"
    BY <1>1, LearntFields DEF Mirrored, MailRow
  <1>2. CASE l.kind = "del"
    <2>1. (r # Absent) \in BOOLEAN
      OBVIOUS
    <2>2. Mirrored(r, l) = [r EXCEPT !.gone = r # Absent]
      BY <1>2 DEF Mirrored
    <2> QED  BY <1>2, <2>1, <2>2 DEF MailRow
  <1>3. CASE l.kind \notin {"put", "del"}
    BY <1>3 DEF Mirrored
  <1> QED  BY <1>1, <1>2, <1>3

(* The account after a synchronisation: its cursor is the new one, unless   *)
(* it had not moved, and it is never left running.                          *)
LEMMA SynchronisedType ==
    ASSUME TypeInv, NEW t \in Txn, NEW cursor \in 0..MaxChanges, NEW flushed \in BOOLEAN
    PROVE  /\ Synchronised(t, cursor, flushed) \in Account
           /\ Synchronised(t, cursor, flushed).sync \in {"idle", "pending"}
           /\ Synchronised(t, cursor, flushed).cursor =
                IF cursor = t.loaded.cursor THEN account.cursor ELSE cursor
  <1> DEFINE done == [cursor |-> cursor, sync |-> "idle", status |-> "active"]
             base == IF flushed THEN [t.loaded EXCEPT !.sync = "running"] ELSE t.loaded
  <1>1. account \in Account /\ account.sync \in {"idle", "pending"} /\ t.loaded \in Account
    BY TxnFields DEF TypeInv, TypeOK
  <1>2. done \in Account /\ done.cursor = cursor /\ done.sync = "idle"
    BY DEF Account
  <1>3. base \in Account /\ base.cursor = t.loaded.cursor
    BY <1>1 DEF Account
  <1>4. Synchronised(t, cursor, flushed) = Net(base, done, account)
    BY DEF Synchronised
  <1> HIDE DEF done, base
  <1> QED  BY <1>1, <1>2, <1>3, <1>4, NetAccount

(* A step that leaves the provider alone and gives no session a new         *)
(* request.                                                                 *)
LEMMA TypeWrite ==
    ASSUME TypeInv, Settles(Txn), UNCHANGED <<provider, log>>,
           row' \in MailRow,
           account' \in Account, account'.sync \in {"idle", "pending"},
           Reached(account'.cursor),
           watch' \in {"none", "live"},
           event' \subseteq event \cup {n \in Changes : n <= Latest},
           detached' \in BOOLEAN, unheard' \subseteq Changes
    PROVE  TypeInv'
  <1>1. Latest' = Latest /\ LogGrows
    BY LatestType, MailAssumption DEF Latest, LogGrows
  <1>2. log' \in Seq({"put", "del"}) /\ Latest' <= MaxChanges
    BY <1>1 DEF TypeInv, TypeOK
  <1>3. event' \subseteq Changes /\ \A n \in event' : n <= Latest'
    BY <1>1 DEF TypeInv, TypeOK
  <1>4. Reached(account.cursor)'
    BY <1>1 DEF Reached
  <1> QED  BY <1>1, <1>2, <1>3, <1>4, TypeSettles

(* The commit of a synchronisation.                                         *)
SyncCommits(s) == SyncGraphFolder(s) \/ GmailWebhook(s) \/ GmailSync(s)

(* What it writes: the row and the cursor, in the columns that differ from  *)
(* what it loaded.                                                          *)
LEMMA SyncStep ==
    ASSUME TypeInv, NEW s \in Sessions, SyncCommits(s)
    PROVE  \E t \in Txn, cursor \in 0..MaxChanges :
             /\ t = txn[s] /\ t.handler \in Syncs /\ Holds(t)
             /\ t.row # Unlooked /\ t.learnt.kind # "unread"
             /\ cursor = IF t.handler = "full" THEN Latest ELSE t.upto
             /\ row' \in MailRow /\ (t.row = row => row' = Mirrored(row, t.learnt))
             /\ account' \in Account /\ account'.sync \in {"idle", "pending"}
             /\ \/ account'.cursor = cursor
                \/ cursor = t.loaded.cursor /\ account'.cursor = account.cursor
             /\ Reached(account'.cursor)
             /\ Commit(s, IF <<row', account'>> = <<row, account>> THEN {} ELSE Handlers)
             /\ UNCHANGED <<provider, log, watch>>
             /\ unheard' \subseteq Changes
             /\ event' = event \/ (t.handler = "history" /\ event' = event \cup {t.notice})
             /\ detached => detached'
             /\ t.handler = "full" /\ ~detached' => ~Unseen(t)
             /\ t.handler = "delta" /\ ~t.inbox /\ ~detached' => row' = row
  <1>1. txn[s].handler \in Syncs
    BY DEF SyncCommits, SyncGraphFolder, GmailWebhook, GmailSync, Syncs
  <1>2. PICK t \in Txn : t = txn[s] /\ Holds(t)
    BY <1>1, InHand DEF Syncs
  <1>3. /\ t.handler \in Syncs /\ t.row \in MailRow /\ t.learnt \in Learnt
        /\ t.handler # "full" => t.upto \in 0..MaxChanges /\ t.upto <= Latest
    BY <1>1, <1>2, TxnFields DEF Holds, Learns, Syncs
  <1> DEFINE cursor == IF t.handler = "full" THEN Latest ELSE t.upto
  <1>4. cursor \in 0..MaxChanges /\ cursor <= Latest
    BY <1>3, LatestType
  <1>5. /\ t.row # Unlooked /\ WriteRow(t)
        /\ Commit(s, IF <<row', account'>> = <<row, account>> THEN {} ELSE Handlers)
        /\ UNCHANGED <<provider, log, watch>>
    BY <1>2 DEF SyncCommits, SyncGraphFolder, GmailWebhook, GmailSync, Received
  <1>6. event' = event \/ (t.handler = "history" /\ event' = event \cup {t.notice})
    BY <1>2 DEF SyncCommits, SyncGraphFolder, GmailWebhook, GmailSync, Received
  <1>7. t.learnt.kind # "unread"
    BY <1>2, <1>3, <1>5 DEF Holds, Learns
  <1>8. row' \in MailRow /\ (t.row = row => row' = Mirrored(row, t.learnt))
    <2>1. row \in MailRow /\ Mirrored(t.row, t.learnt) \in MailRow
      BY <1>3, MirroredType DEF TypeInv, TypeOK
    <2> QED  BY <1>3, <1>5, <2>1, NetRow DEF WriteRow
  <1>9. /\ account' \in Account /\ account'.sync \in {"idle", "pending"}
        /\ \/ account'.cursor = cursor
           \/ cursor = t.loaded.cursor /\ account'.cursor = account.cursor
    <2>1. PICK flushed \in BOOLEAN :
            \/ account' = Synchronised(t, cursor, flushed)
            \/ account' = [Synchronised(t, cursor, flushed) EXCEPT !.cursor = cursor]
      <3>1. Flushes(t) \subseteq BOOLEAN
        BY DEF Flushes
      <3> QED  BY <1>2, <3>1 DEF SyncCommits, SyncGraphFolder, GmailWebhook, GmailSync, NewCursor
    <2> DEFINE a == Synchronised(t, cursor, flushed)
    <2>2. /\ a \in Account /\ a.sync \in {"idle", "pending"}
          /\ a.cursor = IF cursor = t.loaded.cursor THEN account.cursor ELSE cursor
      BY <1>4, SynchronisedType
    <2> HIDE DEF a, cursor
    <2>3. account' = a \/ account' = [a EXCEPT !.cursor = cursor]
      BY <2>1 DEF a
    <2> QED  BY <1>4, <2>2, <2>3 DEF Account
  <1>10. Reached(account'.cursor)
    BY <1>4, <1>9 DEF TypeInv, Reached
  <1>11. /\ detached => detached'
         /\ t.handler = "full" /\ ~detached' => ~Unseen(t)
         /\ t.handler = "delta" /\ ~t.inbox /\ ~detached' => row' = row
    <2>1. CASE SyncGraphFolder(s)
      <3>1. /\ t.handler = "delta"
            /\ detached' = (detached \/ (~t.inbox /\ row' # row))
        BY <1>2, <2>1 DEF SyncGraphFolder
      <3> QED  BY <3>1
    <2>2. CASE GmailWebhook(s)
      BY <1>2, <2>2 DEF GmailWebhook
    <2>3. CASE GmailSync(s)
      <3>1. t.handler = "full" /\ detached' = (detached \/ Unseen(t))
        BY <1>2, <2>3, Zenon DEF GmailSync
      <3> QED  BY <3>1, Zenon
    <2> QED  BY <2>1, <2>2, <2>3 DEF SyncCommits
  <1>12. unheard' \subseteq Changes
    <2>1. Waiting \subseteq Changes /\ unheard \subseteq Changes
      BY DEF Waiting, TypeInv, TypeOK
    <2> QED  BY <2>1 DEF SyncCommits, SyncGraphFolder, GmailWebhook, GmailSync, Received
  <1> HIDE DEF cursor
  <1> QED  BY <1>2, <1>3, <1>4, <1>5, <1>6, <1>7, <1>8, <1>9, <1>10, <1>11, <1>12 DEF cursor

(* A failed Gmail run writes the status of the account and nothing else of  *)
(* it.                                                                      *)
LEMMA StatusStep ==
    ASSUME TypeInv, NEW s \in Sessions, ResyncRequired(s) \/ GmailSyncFailed(s)
    PROVE  /\ account' \in Account
           /\ account'.cursor = account.cursor /\ account'.sync = account.sync
  <1>1. txn[s].handler # "idle"
    BY DEF ResyncRequired, GmailSyncFailed
  <1>2. PICK t \in Txn : t = txn[s]
    BY <1>1, InHand
  <1>3. PICK status \in {"RESYNC_REQUIRED", "error"} :
          account' = Net(t.loaded, [t.loaded EXCEPT !.status = status], account)
    BY <1>2 DEF ResyncRequired, GmailSyncFailed
  <1> DEFINE new == [t.loaded EXCEPT !.status = status]
  <1>4. t.loaded \in Account /\ account \in Account
    BY TxnFields DEF TypeInv, TypeOK
  <1>5. new \in Account /\ new.cursor = t.loaded.cursor /\ new.sync = t.loaded.sync
    BY <1>4 DEF Account
  <1>6. account' = Net(t.loaded, new, account)
    BY <1>3
  <1> HIDE DEF new
  <1> QED  BY <1>4, <1>5, <1>6, NetAccount

(* A notice that is accepted: the account is pending, or it was when the    *)
(* notice loaded it and is left as it is.                                   *)
LEMMA NotifyStep ==
    ASSUME TypeInv, NEW s \in Sessions, Notify(s)
    PROVE  \E t \in Txn :
             /\ t = txn[s] /\ t.handler = "notify" /\ t.notice \in Notices /\ Holds(t)
             /\ account' \in Account /\ account'.cursor = account.cursor
             /\ account'.sync = IF t.loaded.sync = "pending" THEN account.sync ELSE "pending"
             /\ event' = event \cup ({t.notice} \cap Changes)
             /\ unheard' = unheard \cup
                  (IF s \in late \/ PastDelta # {} THEN {t.notice} \cap Changes ELSE {})
             /\ Abandon(s)
             /\ UNCHANGED <<provider, log, row, watch, detached>>
  <1>1. txn[s].handler = "notify"
    BY DEF Notify
  <1>2. PICK t \in Txn : t = txn[s] /\ Holds(t)
    BY <1>1, InHand
  <1>3. t.handler = "notify" /\ t.notice \in Notices /\ t # Idle /\ t.loaded \in Account
    BY <1>1, <1>2, TxnFields
  <1> DEFINE new == [t.loaded EXCEPT !.sync = "pending"]
  <1>4. new \in Account /\ new.cursor = t.loaded.cursor /\ new.sync = "pending"
    BY <1>3 DEF Account
  <1>5. account' = Net(t.loaded, new, account)
    BY <1>2 DEF Notify, Scheduled
  <1>6. account \in Account
    BY DEF TypeInv, TypeOK
  <1> HIDE DEF new
  <1>7. /\ account' \in Account /\ account'.cursor = account.cursor
        /\ account'.sync = IF t.loaded.sync = "pending" THEN account.sync ELSE "pending"
    BY <1>3, <1>4, <1>5, <1>6, NetAccount
  <1>8. /\ event' = event \cup ({t.notice} \cap Changes)
        /\ unheard' = unheard \cup
             (IF s \in late \/ PastDelta # {} THEN {t.notice} \cap Changes ELSE {})
        /\ UNCHANGED <<provider, log, row, watch, detached>>
    BY <1>2 DEF Notify
  <1>9. Abandon(s)
    BY <1>2, <1>3 DEF Notify, Abandon
  <1> QED  BY <1>2, <1>3, <1>7, <1>8, <1>9

(* A first notice, a watch and a reconnection set the cursor and nothing    *)
(* else that a synchronisation reads.                                       *)
LEMMA CursorStep ==
    ASSUME TypeInv,
           \/ \E s \in Sessions : InitializeCursor(s)
           \/ \E w \in BOOLEAN : RegisterWatch(w)
           \/ Reconnect
    PROVE  /\ account' \in Account /\ account'.sync = account.sync
           /\ Reached(account'.cursor)
  <1>1. account \in Account /\ Latest \in 0..MaxChanges /\ MaxChanges \in Nat
    BY LatestType DEF TypeInv, TypeOK
  <1>2. ASSUME NEW s \in Sessions, InitializeCursor(s)
        PROVE  \E c \in 0..MaxChanges : c <= Latest /\ account' = [account EXCEPT !.cursor = c]
    <2>1. PICK t \in Txn : t = txn[s] /\ Holds(t) /\ t.handler = "history"
      BY <1>2, InHand DEF InitializeCursor
    <2>2. t.notice \in Changes /\ t.notice <= Latest
      BY <2>1, TxnFields DEF Holds
    <2>3. t.notice \in 0..MaxChanges
      BY <1>1, <2>2 DEF Changes
    <2> QED  BY <1>2, <2>1, <2>2, <2>3 DEF InitializeCursor
  <1>3. ASSUME NEW w \in BOOLEAN, RegisterWatch(w)
        PROVE  \E c \in 0..MaxChanges : c <= Latest /\ account' = [account EXCEPT !.cursor = c]
    BY <1>1, <1>3 DEF RegisterWatch, WatchCursor
  <1>4. ASSUME NEW c \in 0..MaxChanges, c <= Latest, account' = [account EXCEPT !.cursor = c]
        PROVE  /\ account' \in Account /\ account'.sync = account.sync
               /\ Reached(account'.cursor)
    BY <1>1, <1>4 DEF Account, Reached
  <1>5. CASE Reconnect
    <2>1. PICK c \in FirstCursors : account' = Reconnected(c)
      BY <1>5 DEF Reconnect
    <2>2. c \in 0..MaxChanges \cup {NoCursor} /\ Reached(c)
      BY <1>1, <2>1 DEF FirstCursors, Reached, TypeInv, TypeOK
    <2> QED  BY <1>1, <2>1, <2>2 DEF Reconnected, Account
  <1> QED  BY <1>2, <1>3, <1>4, <1>5

(* Every step keeps the types.                                              *)
LEMMA TypeNext == ASSUME TypeInv, [Next]_vars PROVE TypeInv'
  <1>0. /\ Units(Txn)
        /\ row \in MailRow /\ account \in Account /\ account.sync \in {"idle", "pending"}
        /\ Reached(account.cursor)
        /\ watch \in {"none", "live"} /\ event \subseteq Changes
        /\ detached \in BOOLEAN /\ unheard \subseteq Changes
    BY TypeUnits DEF TypeInv, TypeOK
  <1>1. ASSUME NEW s \in Sessions, Begin(s) PROVE TypeInv'
    <2>1. PICK t \in Txn : Load(s, t) /\ Holds(t)
      BY <1>1, BeginLoads
    <2>2. /\ Units(Txn)' /\ txn'[s] = t
          /\ \A u \in Sessions : u # s => txn'[u] = txn[u]
      BY <1>0, <2>1, LoadUnits, TxnFields
    <2> QED  BY <1>1, <2>1, <2>2, BeginLoads, TypeRequest
  <1>2. ASSUME NEW s \in Sessions, Reads(s) PROVE TypeInv'
    <2>1. UNCHANGED <<mail, late, raced>>
      BY <1>2, ReadStep
    <2>2. PICK u \in Txn : txn[s] \in Txn /\ txn' = [txn EXCEPT ![s] = u] /\ Holds(u)
      BY <1>2, ReadStep
    <2>3. /\ Units(Txn)' /\ txn'[s] = u
          /\ \A v \in Sessions : v # s => txn'[v] = txn[v]
      BY <2>1, <2>2, ReadUnits
    <2> QED  BY <2>1, <2>2, <2>3, TypeRequest
  <1>3. ASSUME NEW s \in Sessions, SyncCommits(s) PROVE TypeInv'
    <2>1. PICK t \in Txn :
             /\ t.handler = "history" => t.notice \in Changes /\ t.notice <= Latest
             /\ row' \in MailRow
             /\ account' \in Account /\ account'.sync \in {"idle", "pending"}
             /\ Reached(account'.cursor)
             /\ \E hit : Commit(s, hit)
             /\ UNCHANGED <<provider, log, watch>> /\ unheard' \subseteq Changes
             /\ event' = event \/ (t.handler = "history" /\ event' = event \cup {t.notice})
      BY <1>3, SyncStep, TxnFields DEF Holds
    <2>2. Settles(Txn)
      BY <1>0, <2>1, Settled
    <2>3. detached' \in BOOLEAN
      BY <1>0, <1>3 DEF SyncCommits, SyncGraphFolder, GmailWebhook, GmailSync
    <2>4. event' \subseteq event \cup {n \in Changes : n <= Latest}
      BY <2>1
    <2> QED  BY <1>0, <2>1, <2>2, <2>3, <2>4, TypeWrite
  <1>4. ASSUME NEW s \in Sessions, Notify(s) PROVE TypeInv'
    <2>1. PICK t \in Txn :
             /\ t.notice \in Notices /\ (t.notice <= Latest \/ t.notice = Lifecycle)
             /\ account' \in Account /\ account'.cursor = account.cursor
             /\ account'.sync \in {account.sync, "pending"}
             /\ event' = event \cup ({t.notice} \cap Changes)
             /\ unheard' \subseteq unheard \cup ({t.notice} \cap Changes)
             /\ Abandon(s)
             /\ UNCHANGED <<provider, log, row, watch, detached>>
      BY <1>4, NotifyStep DEF Holds
    <2>2. Settles(Txn)
      BY <1>0, <2>1, Settled
    <2>3. Lifecycle \notin Changes
      BY MailAssumption DEF Lifecycle, Changes
    <2>4. /\ event' \subseteq event \cup {n \in Changes : n <= Latest}
          /\ unheard' \subseteq Changes
      BY <1>0, <2>1, <2>3
    <2> QED  BY <1>0, <2>1, <2>2, <2>4, TypeWrite
  <1>5. ASSUME NEW s \in Sessions, Received(s), txn[s].handler = "history", Settles(Txn), row' = row,
               account' \in Account, account'.sync = account.sync, Reached(account'.cursor),
               detached' \in BOOLEAN
        PROVE  TypeInv'
    <2>1. PICK t \in Txn : t = txn[s] /\ Holds(t) /\ t.handler = "history"
      BY <1>5, InHand
    <2>2. t.notice \in Changes /\ t.notice <= Latest
      BY <2>1, TxnFields DEF Holds
    <2>3. event' \subseteq event \cup {n \in Changes : n <= Latest}
      BY <1>5, <2>1, <2>2 DEF Received
    <2> QED  BY <1>0, <1>5, <2>3, TypeWrite DEF Received
  <1>6. ASSUME NEW s \in Sessions, InitializeCursor(s) PROVE TypeInv'
    <2>1. Settles(Txn)
      BY <1>0, <1>6, Settled DEF InitializeCursor
    <2> QED  BY <1>5, <1>6, <2>1, CursorStep DEF InitializeCursor
  <1>7. ASSUME NEW s \in Sessions, ResyncRequired(s) PROVE TypeInv'
    <2>1. Settles(Txn)
      BY <1>0, <1>7, Settled DEF ResyncRequired
    <2> QED  BY <1>0, <1>5, <1>7, <2>1, StatusStep DEF ResyncRequired
  <1>8. ASSUME NEW s \in Sessions, HistoryFailed(s) PROVE TypeInv'
    <2>1. Settles(Txn)
      BY <1>0, <1>8, Settled DEF HistoryFailed
    <2> QED  BY <1>0, <1>5, <1>8, <2>1 DEF HistoryFailed
  <1>9. ASSUME NEW s \in Sessions, GmailSyncFailed(s) PROVE TypeInv'
    <2>1. Settles(Txn)
      BY <1>0, <1>9, Settled DEF GmailSyncFailed
    <2> QED  BY <1>0, <1>9, <2>1, StatusStep, TypeWrite DEF GmailSyncFailed
  <1>10. ASSUME NEW kind \in {"put", "del"}, Change(kind) PROVE TypeInv'
    <2>1. Settles(Txn)
      BY <1>0, <1>10, Settled DEF Change
    <2>2. /\ log \in Seq({"put", "del"}) /\ log' = Append(log, kind)
          /\ Latest \in Nat /\ Latest < MaxChanges
          /\ UNCHANGED <<provider, row, account, watch, event, detached, unheard>>
      BY <1>10, LatestType, MailAssumption DEF Change, TypeInv, TypeOK
    <2>3. log' \in Seq({"put", "del"}) /\ Latest' = Latest + 1
      BY <2>2 DEF Latest
    <2>4. LogGrows
      BY <2>2, <2>3 DEF LogGrows, Latest
    <2>5. account.cursor \in Nat /\ \A n \in event : n \in Nat
      BY <1>0, RowFields, MailAssumption DEF NoCursor, Changes
    <2>6. Reached(account.cursor)' /\ \A n \in event' : n <= Latest'
      BY <2>2, <2>3, <2>5 DEF TypeInv, Reached
    <2>7. Latest' <= MaxChanges
      BY <2>2, <2>3, MailAssumption
    <2> QED  BY <1>0, <2>1, <2>2, <2>3, <2>4, <2>6, <2>7, TypeSettles
  <1>11. CASE /\ UNCHANGED <<provider, log, row, account, event, detached, unheard>>
              /\ watch' \in {"none", "live"}
              /\ UNCHANGED uow \/ \E s \in Sessions : Abandon(s)
    <2>1. Settles(Txn)
      BY <1>0, <1>11, Settled
    <2> QED  BY <1>0, <1>11, <2>1, TypeWrite
  <1>12. ASSUME NEW s \in Sessions, RollBack(s) PROVE TypeInv'
    BY <1>0, <1>11, <1>12 DEF RollBack, mail
  <1>13. CASE GraphWatch
    BY <1>0, <1>11, <1>13 DEF GraphWatch
  <1>14. ASSUME NEW w \in BOOLEAN, RegisterWatch(w) PROVE TypeInv'
    <2>1. Settles(Txn)
      BY <1>0, <1>14, Settled DEF RegisterWatch
    <2>2. detached' \in BOOLEAN /\ watch' \in {"none", "live"}
      BY <1>14 DEF RegisterWatch
    <2> QED  BY <1>0, <1>14, <2>1, <2>2, CursorStep, TypeWrite DEF RegisterWatch
  <1>15. CASE Reconnect
    <2>1. Settles(Txn)
      BY <1>0, <1>15, Settled DEF Reconnect
    <2>2. detached' \in BOOLEAN
      BY <1>15 DEF Reconnect
    <2>3. unheard' \subseteq Changes
      BY <1>0, <1>15 DEF Reconnect
    <2> QED  BY <1>0, <1>15, <2>1, <2>2, <2>3, CursorStep, TypeWrite DEF Reconnect
  <1>16. CASE UNCHANGED vars
    BY <1>0, <1>11, <1>16 DEF vars
  <1> QED  BY <1>1, <1>2, <1>3, <1>4, <1>6, <1>7, <1>8, <1>9, <1>10, <1>12, <1>13, <1>14, <1>15,
              <1>16 DEF Next, Begin, Reads, SyncCommits

(* It holds throughout.                                                     *)
LEMMA TypeAlways == Spec => []TypeInv
  BY TypeInit, TypeNext, PTL DEF Spec

(* Every column holds a value of its type and a failed run never leaves an  *)
(* account running, whatever columns overlapping synchronisations, notices, *)
(* watches and reconnections write over each other.                         *)
THEOREM TypeCorrect == Spec => []TypeOK
  <1>1. TypeInv => TypeOK
    BY DEF TypeInv
  <1> QED  BY <1>1, TypeAlways, PTL

------------------------------------------------------------------------------
(* What a request that is not late has seen                                 *)

(* A commit that every handler reads makes every other request late.        *)
LEMMA AllLate ==
    ASSUME TypeInv, (\E s \in Sessions : Commit(s, Handlers)) \/ CommitAtOnce(Handlers)
    PROVE  \A u \in Sessions : txn'[u] = Idle \/ u \in late'
  <1>1. Units(Txn)
    BY TypeUnits DEF TypeInv
  <1>2. \A u \in Sessions : txn[u] # Idle => txn[u].handler \in Handlers
    BY TxnFields DEF TypeInv, TypeOK
  <1>3. ASSUME NEW s \in Sessions, Commit(s, Handlers)
        PROVE  \A u \in Sessions : txn'[u] = Idle \/ u \in late'
    BY <1>1, <1>2, <1>3, CommitUnits
  <1>4. ASSUME CommitAtOnce(Handlers)
        PROVE  \A u \in Sessions : txn'[u] = Idle \/ u \in late'
    BY <1>1, <1>2, <1>4, AtOnceUnits
  <1> QED  BY <1>3, <1>4

(* The columns that requests rely on stay as they are.                      *)
Steady ==
    /\ row' = row /\ account'.cursor = account.cursor
    /\ account.sync = "pending" => account'.sync = "pending"

(* A step that gives no session a new request, and that leaves these        *)
(* columns alone or makes everybody late.                                   *)
LEMMA CurrentSettles ==
    ASSUME CurrentInv, Settles(Txn),
           Steady \/ \A u \in Sessions : txn'[u] = Idle \/ u \in late'
    PROVE  CurrentInv'
  <1> SUFFICES ASSUME NEW u \in Sessions, u \notin late', txn'[u] # Idle PROVE Current(txn[u])'
    <2>1. ASSUME NEW u \in Sessions, txn'[u] = Idle PROVE Current(txn[u])'
      BY <2>1, IdleHandler DEF Current, Syncs
    <2> QED  BY <2>1 DEF CurrentInv
  <1>1. Steady /\ txn'[u] = txn[u] /\ u \notin late
    BY DEF Settles
  <1>2. Current(txn[u])
    BY <1>1 DEF CurrentInv
  <1> QED  BY <1>1, <1>2 DEF Current, Steady

(* Every step keeps it.                                                     *)
LEMMA CurrentNext == ASSUME TypeInv, CurrentInv, [Next]_vars PROVE CurrentInv'
  <1>0. Units(Txn)
    BY TypeUnits DEF TypeInv
  <1>1. ASSUME NEW s \in Sessions, Begin(s) PROVE CurrentInv'
    <2>1. PICK t \in Txn : Load(s, t) /\ Current(t)
      BY <1>1, BeginLoads
    <2>2. /\ txn'[s] = t /\ late' = late
          /\ \A u \in Sessions : u # s => txn'[u] = txn[u]
      BY <1>0, <2>1, LoadUnits, TxnFields
    <2>3. UNCHANGED mail
      BY <1>1, BeginLoads
    <2> QED  BY <2>1, <2>2, <2>3 DEF CurrentInv, Current, mail
  <1>2. ASSUME NEW s \in Sessions, Reads(s) PROVE CurrentInv'
    <2>1. UNCHANGED <<mail, late, raced>>
      BY <1>2, ReadStep
    <2>2. PICK t \in Txn, u \in Txn :
             /\ t = txn[s] /\ txn' = [txn EXCEPT ![s] = u]
             /\ t.handler \in Syncs /\ u.handler = t.handler /\ u.loaded = t.loaded
             /\ u.row # Unlooked => u.row = row
      BY <1>2, ReadStep
    <2>3. /\ txn'[s] = u
          /\ \A v \in Sessions : v # s => txn'[v] = txn[v]
      BY <2>1, <2>2, ReadUnits
    <2>4. s \in late \/ Current(u)
      BY <2>2 DEF CurrentInv, Current, Syncs
    <2> QED  BY <2>1, <2>3, <2>4 DEF CurrentInv, Current, mail
  <1>3. ASSUME NEW s \in Sessions, NEW hit, Commit(s, hit),
               hit = Handlers \/ Steady
        PROVE  CurrentInv'
    <2>1. Settles(Txn)
      BY <1>0, <1>3, Settled
    <2> QED  BY <1>3, <2>1, AllLate, CurrentSettles
  <1>4. ASSUME NEW s \in Sessions, SyncCommits(s) PROVE CurrentInv'
    <2>1. Commit(s, IF <<row', account'>> = <<row, account>> THEN {} ELSE Handlers)
      BY <1>4 DEF SyncCommits, SyncGraphFolder, GmailWebhook, GmailSync
    <2>2. CASE <<row', account'>> = <<row, account>>
      BY <1>3, <2>1, <2>2 DEF Steady
    <2>3. CASE <<row', account'>> # <<row, account>>
      BY <1>3, <2>1, <2>3
    <2> QED  BY <2>2, <2>3
  <1>5. ASSUME NEW s \in Sessions, Notify(s) PROVE CurrentInv'
    <2>1. Abandon(s) /\ Steady
      BY <1>5, NotifyStep DEF Steady
    <2>2. Settles(Txn)
      BY <1>0, <2>1, Settled
    <2> QED  BY <2>1, <2>2, CurrentSettles
  <1>6. ASSUME NEW s \in Sessions,
               \/ InitializeCursor(s) \/ ResyncRequired(s) \/ HistoryFailed(s)
               \/ GmailSyncFailed(s)
        PROVE  CurrentInv'
    <2>1. CASE InitializeCursor(s)
      BY <1>3, <2>1 DEF InitializeCursor
    <2>2. CASE ResyncRequired(s)
      BY <1>3, <2>2 DEF ResyncRequired
    <2>3. CASE HistoryFailed(s)
      BY <1>3, <2>3 DEF HistoryFailed, Steady
    <2>4. CASE GmailSyncFailed(s)
      <3>1. Steady
        BY <2>4, StatusStep DEF GmailSyncFailed, Steady
      <3> QED  BY <1>3, <2>4, <3>1 DEF GmailSyncFailed
    <2> QED  BY <1>6, <2>1, <2>2, <2>3, <2>4
  <1>7. ASSUME Steady, UNCHANGED uow \/ \E s \in Sessions : Abandon(s)
        PROVE  CurrentInv'
    <2>1. Settles(Txn)
      BY <1>0, <1>7, Settled
    <2> QED  BY <1>7, <2>1, CurrentSettles
  <1>8. ASSUME NEW kind \in {"put", "del"}, Change(kind) PROVE CurrentInv'
    BY <1>7, <1>8 DEF Change, Steady
  <1>9. ASSUME NEW s \in Sessions, RollBack(s) PROVE CurrentInv'
    BY <1>7, <1>9 DEF RollBack, mail, Steady
  <1>10. CASE GraphWatch
    BY <1>7, <1>10 DEF GraphWatch, Steady
  <1>11. ASSUME NEW w \in BOOLEAN, RegisterWatch(w) PROVE CurrentInv'
    <2>1. Settles(Txn)
      BY <1>0, <1>11, Settled DEF RegisterWatch
    <2>2. CASE account' = account
      BY <1>11, <2>1, <2>2, CurrentSettles DEF RegisterWatch, Steady
    <2>3. CASE account' # account
      BY <1>11, <2>1, <2>3, AllLate, CurrentSettles DEF RegisterWatch
    <2> QED  BY <2>2, <2>3
  <1>12. CASE Reconnect
    <2>1. Settles(Txn)
      BY <1>0, <1>12, Settled DEF Reconnect
    <2> QED  BY <1>12, <2>1, AllLate, CurrentSettles DEF Reconnect
  <1>13. CASE UNCHANGED vars
    BY <1>7, <1>13 DEF vars, uow, Steady
  <1> QED  BY <1>1, <1>2, <1>4, <1>5, <1>6, <1>8, <1>9, <1>10, <1>11, <1>12, <1>13
           DEF Next, Begin, Reads, SyncCommits

(* It holds throughout.                                                     *)
LEMMA CurrentAlways == Spec => []CurrentInv
  <1>1. Init => CurrentInv
    BY UnitsStart, IdleHandler DEF Init, CurrentInv, Current, Syncs
  <1> QED  BY <1>1, TypeAlways, CurrentNext, PTL DEF Spec

------------------------------------------------------------------------------
(* No wake-up is lost                                                       *)

(* A Gmail account waits for nothing: its notices are synchronisations.     *)
LEMMA WakeGmail == TypeInv /\ provider = "gmail" => WakeInv
  <1> SUFFICES ASSUME TypeInv, provider = "gmail" PROVE WakeInv  OBVIOUS
  <1>1. Waiting = {}
    BY DEF Waiting
  <1>2. \A s \in Sessions : Hears(txn[s])
    BY DEF TypeInv, Holds, Hears
  <1> QED  BY <1>1, <1>2 DEF WakeInv, WakeUpKept

(* A step that accepts no notice and gives no session a new request.        *)
LEMMA WakeSettles ==
    ASSUME WakeInv, Settles(Txn), event' = event, unheard \subseteq unheard',
           "delta" \notin raced' =>
               /\ (Waiting \ unheard)' \subseteq Waiting \ unheard
               /\ (Waiting \ unheard)' # {} /\ account.sync = "pending"
                    => account'.sync = "pending"
    PROVE  WakeInv'
  <1>1. WakeUpKept'
    BY DEF Settles, WakeInv, WakeUpKept
  <1>2. ASSUME NEW u \in Sessions PROVE Hears(txn[u])'
    <2>1. CASE txn'[u] = Idle
      BY <2>1, IdleHandler DEF Hears
    <2>2. CASE txn'[u] = txn[u]
      BY <2>2 DEF WakeInv, Hears
    <2> QED  BY <2>1, <2>2 DEF Settles
  <1> QED  BY <1>1, <1>2 DEF WakeInv

(* The commit of a delta of the inbox that is not late moves the cursor     *)
(* past everything that was heard; one of another folder leaves the cursor, *)
(* and what it clears is counted as unheard.                                *)
LEMMA WakeSync ==
    ASSUME TypeInv, CurrentInv, WakeInv, NEW s \in Sessions, SyncGraphFolder(s)
    PROVE  WakeInv'
  <1>0. Units(Txn)
    BY TypeUnits DEF TypeInv
  <1>1. PICK t \in Txn :
             /\ t = txn[s] /\ t.learnt.kind # "unread" /\ Holds(t) /\ t.handler = "delta"
             /\ \/ account'.cursor = t.upto
                \/ t.upto = t.loaded.cursor /\ account'.cursor = account.cursor
             /\ \E hit : Commit(s, hit)
    <2>1. txn[s].handler = "delta"
      BY DEF SyncGraphFolder
    <2> QED  BY <2>1, SyncStep DEF SyncCommits
  <1>2. /\ UNCHANGED <<provider, event>>
        /\ unheard' = unheard \cup (IF ~t.inbox /\ account.sync # account'.sync THEN Waiting ELSE {})
    BY <1>1 DEF SyncGraphFolder
  <1>3. Settles(Txn)
    BY <1>0, <1>1, Settled
  <1>4. ASSUME "delta" \notin raced'
        PROVE  t.loaded.cursor = account.cursor /\ account'.cursor = t.upto
    <2>1. s \notin late
      BY <1>0, <1>1, <1>4, CommitUnits
    <2> QED  BY <1>1, <2>1 DEF CurrentInv, Current, Syncs
  <1>5. ASSUME "delta" \notin raced', t.inbox PROVE (Waiting \ unheard)' = {}
    <2>1. \A n \in event \ unheard : n <= t.upto
      BY <1>1, <1>5 DEF WakeInv, Hears
    <2>2. \A n \in Changes : n \in Nat
      BY MailAssumption DEF Changes
    <2>3. t.upto \in Nat
      BY <1>1, TxnFields, MailAssumption
    <2> QED  BY <1>2, <1>4, <1>5, <2>1, <2>2, <2>3 DEF Waiting
  <1>6. ASSUME "delta" \notin raced', ~t.inbox
        PROVE  /\ (Waiting \ unheard)' \subseteq Waiting \ unheard
               /\ (Waiting \ unheard)' # {} => account'.sync = account.sync
    <2>1. account'.cursor = account.cursor
      BY <1>1, <1>4, <1>6 DEF Holds, Learns, Syncs
    <2>2. Waiting' = Waiting
      BY <1>2, <2>1 DEF Waiting
    <2> QED  BY <1>2, <1>6, <2>2
  <1>7. unheard \subseteq unheard'
    BY <1>2
  <1>8. "delta" \notin raced' =>
          /\ (Waiting \ unheard)' \subseteq Waiting \ unheard
          /\ (Waiting \ unheard)' # {} /\ account.sync = "pending" => account'.sync = "pending"
    BY <1>5, <1>6
  <1> QED  BY <1>2, <1>3, <1>7, <1>8, WakeSettles

(* A notice makes the account pending, unless a synchronisation that will   *)
(* not have heard of it is about to set it idle.                            *)
LEMMA WakeNotify ==
    ASSUME TypeInv, CurrentInv, WakeInv, NEW s \in Sessions, Notify(s)
    PROVE  WakeInv'
  <1>0. Units(Txn)
    BY TypeUnits DEF TypeInv
  <1>1. PICK t \in Txn :
             /\ t = txn[s] /\ t.handler = "notify"
             /\ account'.cursor = account.cursor
             /\ account'.sync = IF t.loaded.sync = "pending" THEN account.sync ELSE "pending"
             /\ event' = event \cup ({t.notice} \cap Changes)
             /\ unheard' = unheard \cup
                  (IF s \in late \/ PastDelta # {} THEN {t.notice} \cap Changes ELSE {})
             /\ Abandon(s)
             /\ provider' = provider
    BY NotifyStep
  <1>2. /\ txn'[s] = Idle /\ raced' = raced
        /\ \A u \in Sessions : u # s => txn'[u] = txn[u]
    BY <1>0, <1>1, AbandonUnits
  <1>3. WakeUpKept'
    <2> SUFFICES ASSUME "delta" \notin raced, (Waiting \ unheard)' # {}
                 PROVE  account'.sync = "pending"
      BY <1>2 DEF WakeUpKept
    <2>1. CASE t.notice \in unheard' \/ t.notice \notin Changes
      <3>1. (Waiting \ unheard)' \subseteq Waiting \ unheard
        BY <1>1, <2>1 DEF Waiting
      <3> QED  BY <1>1, <3>1 DEF WakeInv, WakeUpKept
    <2>2. CASE t.notice \notin unheard' /\ t.notice \in Changes
      <3>1. s \notin late
        BY <1>1, <2>2
      <3> QED  BY <1>1, <3>1 DEF CurrentInv, Current
    <2> QED  BY <2>1, <2>2
  <1>4. ASSUME NEW u \in Sessions PROVE Hears(txn[u])'
    <2>1. CASE u = s
      BY <1>2, <2>1, IdleHandler DEF Hears
    <2>2. CASE u # s
      <3>1. SUFFICES ASSUME txn[u].handler = "delta", txn[u].inbox,
                            txn[u].learnt.kind # "unread"
                     PROVE  \A n \in event' \ unheard' : n <= txn[u].upto
        BY <1>2, <2>2 DEF Hears
      <3>2. u \in PastDelta
        BY <3>1, IdleHandler DEF PastDelta, InFlight, Unread
      <3>3. event' \ unheard' \subseteq event \ unheard
        BY <1>1, <3>2
      <3> QED  BY <3>1, <3>3 DEF WakeInv, Hears
    <2> QED  BY <2>1, <2>2
  <1> QED  BY <1>3, <1>4 DEF WakeInv

(* Every step keeps it.                                                     *)
LEMMA WakeNext == ASSUME TypeInv, CurrentInv, WakeInv, [Next]_vars PROVE WakeInv'
  <1>0. Units(Txn) /\ TypeInv' /\ provider \in {"graph", "gmail"}
    BY TypeUnits, TypeNext DEF TypeInv
  <1>1. provider' = provider
    BY DEF Next, Change, BeginNotify, BeginHistory, BeginDelta, Notify, Delta, LookUp,
           SyncGraphFolder, InitializeCursor, HistoryChanges, GmailWebhook,
           ResyncRequired, HistoryFailed, BeginFull, ListMessages, GmailSync, GmailSyncFailed,
           RollBack, GraphWatch, RegisterWatch, Reconnect, Received, mail, vars
  <1>2. CASE provider = "gmail"
    <2>1. (TypeInv /\ provider = "gmail" => WakeInv)'
      BY WakeGmail, PTL
    <2> QED  BY <1>0, <1>1, <1>2, <2>1
  <1>3. CASE provider = "graph"
    <2>1. ASSUME NEW s \in Sessions, Begin(s) PROVE WakeInv'
      <3>1. PICK t \in Txn : Load(s, t) /\ Hears(t)
        BY <2>1, BeginLoads
      <3>2. /\ txn'[s] = t /\ raced' = raced
            /\ \A u \in Sessions : u # s => txn'[u] = txn[u]
        BY <1>0, <3>1, LoadUnits, TxnFields
      <3>3. UNCHANGED mail
        BY <2>1, BeginLoads
      <3> QED  BY <3>1, <3>2, <3>3 DEF WakeInv, WakeUpKept, Waiting, Hears, mail
    <2>2. ASSUME NEW s \in Sessions, Reads(s) PROVE WakeInv'
      <3>1. UNCHANGED <<mail, late, raced>>
        BY <2>2, ReadStep
      <3>2. PICK t \in Txn, u \in Txn :
               /\ t = txn[s] /\ txn' = [txn EXCEPT ![s] = u] /\ u.handler = t.handler
               /\ t.handler = "delta" =>
                    /\ u.inbox = t.inbox
                    /\ u.inbox => \/ u.upto = Latest
                                  \/ u.upto = t.upto /\ t.learnt.kind # "unread"
        BY <2>2, ReadStep
      <3>3. /\ txn'[s] = u
            /\ \A v \in Sessions : v # s => txn'[v] = txn[v]
        BY <3>1, <3>2, ReadUnits
      <3>4. Hears(u)
        BY <3>2 DEF TypeInv, WakeInv, Hears
      <3> QED  BY <3>1, <3>3, <3>4 DEF WakeInv, WakeUpKept, Waiting, Hears, mail
    <2>3. ASSUME NEW s \in Sessions,
                 \/ GmailWebhook(s) \/ GmailSync(s) \/ GmailSyncFailed(s)
                 \/ InitializeCursor(s) \/ ResyncRequired(s) \/ HistoryFailed(s)
          PROVE  FALSE
      <3>1. txn[s].handler \in {"history", "full"}
        BY <2>3 DEF GmailWebhook, GmailSync, GmailSyncFailed, InitializeCursor, ResyncRequired,
                    HistoryFailed
      <3> QED  BY <1>3, <3>1 DEF TypeInv, Holds
    <2>4. ASSUME UNCHANGED <<account, event, unheard>>,
                 UNCHANGED uow \/ \E s \in Sessions : Abandon(s)
          PROVE  WakeInv'
      <3>1. Settles(Txn)
        BY <1>0, <2>4, Settled
      <3> QED  BY <1>1, <2>4, <3>1, WakeSettles DEF Waiting
    <2>5. ASSUME NEW kind \in {"put", "del"}, Change(kind) PROVE WakeInv'
      BY <2>4, <2>5 DEF Change
    <2>6. ASSUME NEW s \in Sessions, RollBack(s) PROVE WakeInv'
      BY <2>4, <2>6 DEF RollBack, mail
    <2>7. CASE GraphWatch
      BY <2>4, <2>7 DEF GraphWatch
    <2>8. CASE Reconnect
      <3>1. Settles(Txn)
        BY <1>0, <2>8, Settled DEF Reconnect
      <3>2. /\ account' = Reconnected(0) /\ event' = event
            /\ unheard' = unheard \cup {n \in event : n <= account.cursor}
        BY <1>3, <2>8 DEF Reconnect, FirstCursors
      <3>3. account.cursor \in Nat /\ account'.cursor = 0 /\ account'.sync = account.sync
        BY <3>2, RowFields, MailAssumption DEF Reconnected, TypeInv, TypeOK, Account, NoCursor
      <3>4. (Waiting \ unheard)' \subseteq Waiting \ unheard
        BY <1>1, <3>2, <3>3, MailAssumption DEF Waiting, Changes
      <3> QED  BY <3>1, <3>2, <3>3, <3>4, WakeSettles
    <2>9. CASE UNCHANGED vars
      BY <2>4, <2>9 DEF vars, uow
    <2>10. ASSUME NEW w \in BOOLEAN, RegisterWatch(w) PROVE FALSE
      BY <1>3, <2>10 DEF RegisterWatch
    <2> QED  BY <2>1, <2>2, <2>3, <2>5, <2>6, <2>7, <2>8, <2>9, <2>10, WakeSync, WakeNotify
             DEF Next, Begin, Reads
  <1> QED  BY <1>0, <1>2, <1>3

(* No failed, crashed, repeated or reordered run, of the inbox or of        *)
(* another folder, loses the wake-up of a notification that was accepted,   *)
(* other than those that WakeUpKept excepts: its change has been fetched or *)
(* the account is pending, for any number of sessions and changes.          *)
THEOREM WakeUpIsKept == Spec => []WakeUpKept
  <1>1. Init => WakeInv
    BY UnitsStart, IdleHandler DEF Init, WakeInv, WakeUpKept, Waiting, Hears
  <1>2. WakeInv => WakeUpKept
    BY DEF WakeInv
  <1> QED  BY <1>1, <1>2, TypeAlways, CurrentAlways, WakeNext, PTL DEF Spec

------------------------------------------------------------------------------
(* The cursor never runs ahead of the row                                   *)

(* A step that moves neither the cursor nor the row, whatever the provider  *)
(* does.                                                                    *)
LEMMA CursorSteady ==
    ASSUME TypeInv, CursorInv, LogGrows, row' = row, account'.cursor = account.cursor,
           detached => detached', raced \subseteq raced'
    PROVE  CursorInv'
  <1>1. ASSUME ~detached', Syncs \cap raced' = {}, account.cursor \in Changes
        PROVE  Shows(account.cursor)'
    <2>1. Shows(account.cursor)
      BY <1>1 DEF CursorInv, NeverBehindCursor, Syncs
    <2>2. account.cursor \in 1..Latest /\ Latest \in Nat
      BY <1>1, LatestType, MailAssumption DEF TypeInv, Reached, Changes, NoCursor
    <2>3. log'[account.cursor] = log[account.cursor] /\ Latest <= Latest' /\ Latest' \in Nat
      BY <2>2 DEF LogGrows
    <2>4. ASSUME NEW d \in account.cursor + 1 .. Latest, log[d] = "del"
          PROVE  d \in account.cursor + 1 .. Latest' /\ log'[d] = "del"
      BY <2>2, <2>3, <2>4 DEF LogGrows
    <2> QED  BY <2>1, <2>3, <2>4 DEF Shows
  <1>2. NeverBehindCursor'
    BY <1>1 DEF NeverBehindCursor, Syncs
  <1> QED  BY <1>2 DEF CursorInv, LogGrows

(* What a row that is not there or marked as deleted shows.                 *)
LEMMA ShowsGone ==
    ASSUME NEW c, log'[c] = "del", row' = Absent \/ row'.gone
    PROVE  Shows(c)'
  BY DEF Shows

(* The commit of a synchronisation that is not late: the row is what the    *)
(* provider's log says at the new cursor, or was already.                   *)
LEMMA CursorSync ==
    ASSUME TypeInv, CurrentInv, CursorInv, NEW s \in Sessions, SyncCommits(s)
    PROVE  CursorInv'
  <1>0. Units(Txn) /\ row \in MailRow
    BY TypeUnits DEF TypeInv, TypeOK
  <1>1. PICK t \in Txn, cursor \in 0..MaxChanges :
             /\ t = txn[s] /\ t.handler \in Syncs /\ Holds(t)
             /\ t.row # Unlooked /\ t.learnt.kind # "unread"
             /\ cursor = IF t.handler = "full" THEN Latest ELSE t.upto
             /\ t.row = row => row' = Mirrored(row, t.learnt)
             /\ \/ account'.cursor = cursor
                \/ cursor = t.loaded.cursor /\ account'.cursor = account.cursor
             /\ \E hit : Commit(s, hit)
             /\ UNCHANGED <<provider, log>>
             /\ detached => detached'
             /\ t.handler = "full" /\ ~detached' => ~Unseen(t)
             /\ t.handler = "delta" /\ ~t.inbox /\ ~detached' => row' = row
    BY SyncStep
  <1>2. SUFFICES ASSUME ~detached', Syncs \cap raced' = {}
                 PROVE  /\ account'.cursor \in Changes => Shows(account.cursor)'
                        /\ provider = "graph" /\ account'.cursor = 0 => row' = Absent
    BY <1>1 DEF CursorInv, NeverBehindCursor, Syncs
  <1>3. s \notin late /\ raced \subseteq raced'
    <2>1. txn[s].handler \notin raced'
      BY <1>1, <1>2
    <2> QED  BY <1>0, <1>1, <2>1, CommitUnits
  <1>4. t.loaded.cursor = account.cursor /\ t.row = row
    BY <1>1, <1>3 DEF CurrentInv, Current
  <1>5. ~detached /\ Syncs \cap raced = {}
    <2>1. ~detached
      BY <1>1, <1>2, Zenon
    <2> QED  BY <1>2, <1>3, <2>1
  <1>6. account'.cursor = cursor /\ Latest' = Latest
    BY <1>1, <1>4 DEF Latest
  <1>7. t.learnt \in Learnt /\ Learns(t) /\ row' = Mirrored(row, t.learnt)
    BY <1>1, <1>4, TxnFields DEF Holds
  <1>8. t.learnt.kind \in {"none", "put", "del"}
    BY <1>1, <1>7, LearntFields
  <1>9. /\ t.learnt.kind = "put" => row' = [text |-> t.learnt.text, gone |-> FALSE]
        /\ t.learnt.kind = "del" => row' = Absent \/ row'.gone
        /\ t.learnt.kind = "none" => row' = row
    <2>1. /\ t.learnt.kind = "put" => row' = [text |-> t.learnt.text, gone |-> FALSE]
          /\ t.learnt.kind = "del" => row' = [row EXCEPT !.gone = row # Absent]
          /\ t.learnt.kind = "none" => row' = row
      BY <1>0, <1>7, MirroredType
    <2>2. ASSUME t.learnt.kind = "del" PROVE row' = Absent \/ row'.gone
      <3>1. CASE row = Absent
        BY <2>1, <2>2, <3>1 DEF Absent
      <3>2. CASE row # Absent
        BY <1>0, <2>1, <2>2, <3>2 DEF MailRow
      <3> QED  BY <3>1, <3>2
    <2> QED  BY <2>1, <2>2
  <1>10. provider = "graph" /\ account.cursor = 0 => row = Absent
    BY <1>5 DEF CursorInv
  <1>11. ASSUME cursor = account.cursor, row' = row
         PROVE  /\ cursor \in Changes => Shows(cursor)'
                /\ provider = "graph" /\ cursor = 0 => row' = Absent
    <2>1. ASSUME cursor \in Changes PROVE Shows(cursor)
      BY <1>5, <1>11, <2>1 DEF CursorInv, NeverBehindCursor, Syncs
    <2> QED  BY <1>1, <1>6, <1>10, <1>11, <2>1 DEF Shows
  <1>12. ASSUME cursor \in Changes, log[cursor] = "put", t.learnt.kind = "put",
                cursor <= t.learnt.text
         PROVE  Shows(cursor)'
    <2>1. row'.text = t.learnt.text /\ ~row'.gone
      BY <1>9, <1>12
    <2> QED  BY <1>1, <1>12, <2>1, LearntFields, MailAssumption DEF Shows, Changes
  <1>13. CASE Own(t)
    <2>1. OwnLearns(t) /\ cursor = t.upto
      BY <1>1, <1>7, <1>13 DEF Learns, Own
    <2>2. ASSUME t.learnt.kind = "put" PROVE cursor > 0 /\ (cursor \in Changes => Shows(cursor)')
      BY <1>12, <2>1, <2>2 DEF OwnLearns
    <2>3. ASSUME t.learnt.kind = "del" PROVE cursor > 0 /\ Shows(cursor)'
      BY <1>1, <1>9, <2>1, <2>3, ShowsGone DEF OwnLearns
    <2>4. ASSUME t.learnt.kind = "none", cursor # account.cursor
          PROVE  Shows(cursor)' /\ row' = Absent
      <3>1. /\ t.handler = "delta" /\ account.cursor = 0 /\ cursor # 0
            /\ log[cursor] = "del"
        BY <1>4, <2>1, <2>4 DEF OwnLearns
      <3>2. row' = Absent
        BY <1>1, <1>9, <1>10, <2>4, <3>1 DEF Holds
      <3> QED  BY <1>1, <3>1, <3>2, ShowsGone
    <2>5. CASE t.learnt.kind = "none" /\ cursor = account.cursor
      BY <1>6, <1>9, <1>11, <2>5
    <2> QED  BY <1>6, <1>8, <2>2, <2>3, <2>4, <2>5
  <1>14. CASE t.handler = "delta" /\ ~t.inbox
    <2>1. row' = row /\ cursor = account.cursor
      BY <1>1, <1>2, <1>4, <1>7, <1>14 DEF Learns
    <2> QED  BY <1>6, <1>11, <2>1
  <1>15. CASE t.handler = "full"
    <2>1. ~Unseen(t) /\ cursor = Latest /\ provider # "graph" /\ Latest \in Nat
      BY <1>1, <1>2, <1>15, LatestType, MailAssumption DEF Holds
    <2>2. ASSUME Alive, t.learnt.text = Latest, cursor \in Changes PROVE Shows(cursor)'
      <3>1. t.learnt.kind = "put"
        BY <1>7, <1>8, <2>1, <2>2, MailAssumption DEF Learnt, Changes
      <3> QED  BY <1>12, <2>1, <2>2, <3>1 DEF Alive
    <2>3. ASSUME Alive, t.learnt.text # Latest PROVE row' = row /\ cursor = account.cursor
      <3>1. t.learnt = None /\ t.loaded.cursor = Latest
        BY <2>1, <2>3 DEF Unseen
      <3> QED  BY <1>4, <1>9, <2>1, <3>1 DEF None
    <2>4. ASSUME ~Alive, cursor \in Changes PROVE Shows(cursor)'
      <3>1. row' = Absent \/ row'.gone
        BY <2>1, <2>4 DEF Unseen
      <3>2. log[cursor] = "del"
        BY <2>1, <2>4, LatestType DEF Alive, Changes
      <3> QED  BY <1>1, <3>1, <3>2, ShowsGone
    <2> QED  BY <1>6, <1>11, <2>1, <2>2, <2>3, <2>4
  <1> QED  BY <1>1, <1>13, <1>14, <1>15 DEF Own, Syncs

(* Every step keeps it.                                                     *)
LEMMA CursorNext == ASSUME TypeInv, CurrentInv, CursorInv, [Next]_vars PROVE CursorInv'
  <1>0. Units(Txn) /\ provider \in {"graph", "gmail"}
    BY TypeUnits DEF TypeInv
  <1>1. ASSUME UNCHANGED <<provider, log, row>>, account'.cursor = account.cursor,
               detached => detached', raced \subseteq raced'
        PROVE  CursorInv'
    <2>1. LogGrows
      BY <1>1, LatestType, MailAssumption DEF LogGrows, Latest
    <2> QED  BY <1>1, <2>1, CursorSteady
  <1>2. ASSUME NEW s \in Sessions, Begin(s) PROVE CursorInv'
    <2>1. UNCHANGED mail /\ raced' = raced
      BY <1>2, BeginLoads DEF Load
    <2> QED  BY <1>1, <2>1 DEF mail
  <1>3. ASSUME NEW s \in Sessions, Reads(s) PROVE CursorInv'
    <2>1. UNCHANGED <<mail, raced>>
      BY <1>3, ReadStep
    <2> QED  BY <1>1, <2>1 DEF mail
  <1>4. ASSUME NEW s \in Sessions, Notify(s) PROVE CursorInv'
    <2>1. /\ account'.cursor = account.cursor /\ raced' = raced
          /\ UNCHANGED <<provider, log, row, detached>>
      BY <1>4, NotifyStep DEF Abandon
    <2> QED  BY <1>1, <2>1
  <1>5. ASSUME NEW s \in Sessions, ResyncRequired(s) \/ GmailSyncFailed(s) PROVE CursorInv'
    <2>1. account'.cursor = account.cursor
      BY <1>5, StatusStep
    <2>2. UNCHANGED <<provider, log, row, detached>> /\ raced \subseteq raced'
      BY <1>5 DEF ResyncRequired, GmailSyncFailed, Received, Commit
    <2> QED  BY <1>1, <2>1, <2>2
  <1>6. ASSUME NEW s \in Sessions, HistoryFailed(s) PROVE CursorInv'
    BY <1>1, <1>6 DEF HistoryFailed, Received, Commit
  <1>7. ASSUME NEW s \in Sessions, InitializeCursor(s) PROVE CursorInv'
    BY <1>7 DEF InitializeCursor, CursorInv, NeverBehindCursor
  <1>8. ASSUME NEW kind \in {"put", "del"}, Change(kind) PROVE CursorInv'
    <2>1. log \in Seq({"put", "del"}) /\ log' = Append(log, kind) /\ Latest \in Nat
      BY <1>8, LatestType, MailAssumption DEF Change, TypeInv, TypeOK
    <2>2. LogGrows
      BY <1>8, <2>1 DEF LogGrows, Latest, Change
    <2>3. raced' = raced
      BY <1>8 DEF Change, uow
    <2> QED  BY <1>8, <2>2, <2>3, CursorSteady DEF Change
  <1>9. ASSUME NEW s \in Sessions, RollBack(s) PROVE CursorInv'
    BY <1>1, <1>9 DEF RollBack, Abandon, mail, uow
  <1>10. CASE GraphWatch
    BY <1>1, <1>10 DEF GraphWatch, uow
  <1>11. ASSUME NEW w \in BOOLEAN, RegisterWatch(w) PROVE CursorInv'
    <2>1. CASE detached'
      BY <2>1 DEF CursorInv, NeverBehindCursor
    <2>2. CASE ~detached'
      <3>1. account.cursor = Latest /\ account' = [account EXCEPT !.cursor = Latest]
        BY <1>11, <2>2 DEF RegisterWatch, WatchCursor
      <3>2. account'.cursor = account.cursor
        BY <3>1 DEF TypeInv, TypeOK, Account
      <3> QED  BY <1>1, <1>11, <3>2 DEF RegisterWatch, CommitAtOnce
    <2> QED  BY <2>1, <2>2
  <1>12. CASE Reconnect
    <2>1. UNCHANGED <<provider, log, row>> /\ raced' = raced
      BY <1>12 DEF Reconnect, CommitAtOnce
    <2>2. CASE detached'
      BY <2>2 DEF CursorInv, NeverBehindCursor
    <2>3. CASE ~detached' /\ provider = "gmail"
      <3>1. account'.cursor = account.cursor /\ ~detached
        BY <1>12, <2>3 DEF Reconnect
      <3> QED  BY <1>1, <2>1, <3>1
    <2>4. CASE ~detached' /\ provider = "graph"
      <3>1. account' = Reconnected(0) /\ row = Absent
        BY <1>12, <2>4 DEF Reconnect, FirstCursors
      <3>2. account'.cursor = 0 /\ 0 \notin Changes
        BY <3>1, MailAssumption DEF Reconnected, TypeInv, TypeOK, Account, Changes
      <3> QED  BY <2>1, <3>1, <3>2 DEF CursorInv, NeverBehindCursor
    <2> QED  BY <1>0, <2>2, <2>3, <2>4
  <1>13. CASE UNCHANGED vars
    BY <1>1, <1>13 DEF vars, uow
  <1> QED  BY <1>2, <1>3, <1>4, <1>5, <1>6, <1>7, <1>8, <1>9, <1>10, <1>11, <1>12, <1>13, CursorSync
           DEF Next, Begin, Reads, SyncCommits

(* A change below the committed cursor, which no synchronisation will ask   *)
(* for again, is in the message's row, however synchronisations fail,       *)
(* overlap or are repeated, except where a late one has committed, the      *)
(* cursor was moved past changes that nobody fetched or a run of another    *)
(* folder wrote the row.                                                    *)
THEOREM NeverBehindTheCursor == Spec => []NeverBehindCursor
  <1>1. Init => CursorInv
    BY MailAssumption DEF Init, CursorInv, NeverBehindCursor, FirstCursors, Latest, NoCursor,
                          Changes
  <1>2. CursorInv => NeverBehindCursor
    BY DEF CursorInv
  <1> QED  BY <1>1, <1>2, TypeAlways, CurrentAlways, CursorNext, PTL DEF Spec

=============================================================================
