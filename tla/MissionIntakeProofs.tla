------------------------- MODULE MissionIntakeProofs -------------------------
(***************************************************************************)
(* Proofs about MissionIntake, for any number of sessions, proposals,      *)
(* teams, collaboration requests and charter versions.                     *)
(***************************************************************************)
EXTENDS MissionIntake, UnitOfWorkProofs

(* What a request in flight is known to hold, late or not: the proposal and *)
(* the collaboration request it loaded are rows, and nobody loads the       *)
(* charter that the seed published to move it on.                           *)
Holds(t) ==
    /\ t.handler = "confirm" => decision[t.decision] # NoDecision
    /\ t.handler = "answer" => request[t.request] # NoRequest
    /\ t.handler = "charter" => t.version # 1

TypeInv ==
    /\ TypeOK
    /\ \A s \in Sessions : Holds(txn[s])
    /\ charter[1] = "published"

(* The requests that confirm_dispatch has opened to a team.                 *)
OpenedByDispatch(t) ==
    {q \in Requests : /\ request[q] # NoRequest
                      /\ request[q].opened = "dispatch"
                      /\ request[q].team = t}

Supporters == decision[mission.origin].supporting \ {mission.team}

(* A dispatch in flight that is not late has found no open proposal.        *)
DispatchCurrent(t) ==
    t.handler = "dispatch" => \A d \in Decisions : decision[d].status # "PROPOSED"

ConfirmInv ==
    /\ \A d \in Decisions : decision[d].status = "CONFIRMED" <=> d = mission.origin
    /\ mission = NoMission => \A q \in Requests : request[q] = NoRequest
    /\ mission # NoMission =>
         \A t \in Teams :
             IF t \in Supporters THEN \E q \in Requests : OpenedByDispatch(t) = {q}
                                 ELSE OpenedByDispatch(t) = {}
    /\ "dispatch" \notin raced =>
         /\ \A c, d \in Decisions : decision[c].status = "PROPOSED"
                                      /\ decision[d].status = "PROPOSED" => c = d
         /\ \A s \in Sessions : s \in late \/ DispatchCurrent(txn[s])

(* A charter step in flight that is not late moves its version on from the  *)
(* status it has.                                                           *)
CharterCurrent(t) ==
    t.handler = "charter" => t.to \in CONSTITUTION_TRANSITIONS[charter[t.version]]

CharterInv ==
    /\ CharterBound
    /\ "charter" \notin raced => \A s \in Sessions : s \in late \/ CharterCurrent(txn[s])

(* An answer in flight that is not late answers the request as it is.       *)
AnswerCurrent(t) ==
    t.handler = "answer" =>
        /\ request[t.request].status = t.from
        /\ t.to \in IF t.via = "table" THEN Moves(t.from) ELSE Responses(t.from)

AnswerInv == "answer" \notin raced => \A s \in Sessions : s \in late \/ AnswerCurrent(txn[s])

------------------------------------------------------------------------------
(* Type correctness                                                         *)

rows == <<deleted, decision, mission, request, charter>>

(* Proposals and collaboration requests are never deleted.                  *)
Grows ==
    /\ \A d \in Decisions : decision[d] # NoDecision => decision'[d] # NoDecision
    /\ \A q \in Requests : request[q] # NoRequest => request'[q] # NoRequest

(* The type invariant, with the units of work set apart.                    *)
LEMMA TypeUnits ==
    TypeOK <=> /\ deleted \in BOOLEAN
               /\ decision \in [Decisions -> DecisionRow \cup {NoDecision}]
               /\ mission \in MissionRow \cup {NoMission}
               /\ request \in [Requests -> RequestRow \cup {NoRequest}]
               /\ charter \in [Versions -> CharterStatus]
               /\ Units(Txn)
  BY DEF TypeOK, Units

(* No request is the record of an idle session, and no row is an absent one.*)
LEMMA Distinct ==
    /\ \A t \in Txn : t # Idle
    /\ NoDecision \notin DecisionRow /\ NoRequest \notin RequestRow
    /\ \A m \in MissionRow : m # NoMission
    /\ NoMission.origin = None /\ None \notin Decisions
    /\ 1 \in Versions
  <1>1. \A t \in Txn : t # Idle
    BY DEF Txn, Idle
  <1>2. NoDecision \notin DecisionRow
    BY DEF NoDecision, DecisionRow
  <1>3. NoRequest \notin RequestRow
    <2>1. "ABSENT" \notin RequestStatus
      BY DEF RequestStatus, CollaborationRequestStatus
    <2> QED  BY <2>1 DEF NoRequest, RequestRow
  <1>4. \A m \in MissionRow : m # NoMission
    BY IntakeAssumption DEF MissionRow, NoMission
  <1> QED  BY <1>1, <1>2, <1>3, <1>4, IntakeAssumption DEF NoMission, Versions

(* The fields of a request, by its handler.                                 *)
LEMMA TxnFields ==
    ASSUME NEW t \in Txn
    PROVE  /\ t.handler = "confirm" => t.decision \in Decisions /\ t.charter \in Versions
           /\ t.handler = "answer" => /\ t.via \in {"table", "respond"}
                                      /\ t.request \in Requests
                                      /\ t.from \in RequestStatus /\ t.to \in RequestStatus
           /\ t.handler = "charter" => t.version \in Versions /\ t.to \in CharterStatus
  BY DEF Txn

(* The request that a session with this handler has in flight.              *)
LEMMA InHand ==
    ASSUME TypeInv, NEW s \in Sessions, txn[s].handler # "idle"
    PROVE  txn[s] \in Txn /\ Holds(txn[s])
  BY IdleHandler DEF TypeInv, TypeOK

(* What a request holds it keeps while the rows only grow.                  *)
LEMMA HoldsKept ==
    ASSUME TypeInv, Grows, NEW u \in Sessions, txn'[u] = txn[u] \/ txn'[u] = Idle
    PROVE  Holds(txn[u])'
  <1>1. CASE txn'[u] = Idle
    BY <1>1, IdleHandler DEF Holds
  <1>2. CASE txn'[u] = txn[u]
    <2>1. PICK t \in Txn \cup {Idle} : t = txn[u]
      BY DEF TypeInv, TypeOK
    <2>2. Holds(t)
      BY <2>1 DEF TypeInv
    <2>3. t = Idle \/ (t \in Txn /\ (t.handler = "confirm" => t.decision \in Decisions)
                                 /\ (t.handler = "answer" => t.request \in Requests))
      BY TxnFields
    <2>4. Holds(t)'
      BY <2>2, <2>3, IdleHandler DEF Holds, Grows
    <2> QED  BY <2>1, <2>4, <1>2
  <1> QED  BY <1>1, <1>2

(* The mail has been ingested and the seed has run.                         *)
LEMMA TypeInit == Init => TypeInv
  <1> SUFFICES ASSUME Init PROVE TypeInv  OBVIOUS
  <1>1. Units(Txn) /\ \A s \in Sessions : txn[s] = Idle
    BY UnitsStart DEF Init
  <1>2. TypeOK
    BY <1>1, TypeUnits DEF Init, CharterStatus
  <1>3. charter[1] = "published"
    BY Distinct DEF Init
  <1> QED  BY <1>1, <1>2, <1>3, IdleHandler DEF TypeInv, Holds

(* A step that gives no session a new request and lets the rows grow.       *)
LEMMA TypeSettles ==
    ASSUME TypeInv, Grows, Settles(Txn),
           deleted' \in BOOLEAN,
           decision' \in [Decisions -> DecisionRow \cup {NoDecision}],
           mission' \in MissionRow \cup {NoMission},
           request' \in [Requests -> RequestRow \cup {NoRequest}],
           charter' \in [Versions -> CharterStatus],
           charter'[1] = "published"
    PROVE  TypeInv'
  <1>1. Units(Txn)' /\ \A u \in Sessions : txn'[u] = txn[u] \/ txn'[u] = Idle
    BY DEF Settles
  <1>2. TypeOK'
    BY <1>1, TypeUnits DEF TypeOK, Units
  <1>3. \A u \in Sessions : Holds(txn[u])'
    BY <1>1, HoldsKept
  <1> QED  BY <1>2, <1>3 DEF TypeInv

(* The first half of a handler.                                             *)
Begin(s) ==
    \/ BeginDispatch(s)
    \/ \E d \in Decisions : BeginConfirm(s, d)
    \/ \E q \in Requests, to \in RequestStatus : BeginAnswer(s, q, to)
    \/ \E v \in Versions : BeginCharterStep(s, v)

(* There is a published charter, and current_constitution finds one.        *)
LEMMA CurrentCharterPublished ==
    ASSUME TypeInv
    PROVE  CurrentCharter \in Versions /\ charter[CurrentCharter] = "published"
  <1> DEFINE Published == {v \in Versions : charter[v] = "published"}
  <1>1. Published \in SUBSET (1..MaxCharter) /\ Published # {}
    BY Distinct DEF TypeInv, Versions
  <1>2. \E v \in Published : \A w \in Published : w <= v
    BY <1>1, HighestVersion, IntakeAssumption
  <1>3. \E v \in Versions : /\ charter[v] = "published"
                            /\ \A w \in Versions : w > v => charter[w] # "published"
    BY <1>2 DEF Versions
  <1> QED  BY <1>3 DEF CurrentCharter

(* A request that is loaded holds what it must and has decided on the rows  *)
(* as they are.                                                             *)
LEMMA BeginLoads ==
    ASSUME TypeInv, NEW s \in Sessions, Begin(s)
    PROVE  /\ \E t \in Txn : /\ Load(s, t) /\ Holds(t)
                             /\ DispatchCurrent(t) /\ CharterCurrent(t) /\ AnswerCurrent(t)
                             /\ t.handler = "confirm" => charter[t.charter] = "published"
           /\ UNCHANGED rows
  <1> DEFINE Fresh(t) == /\ t \in Txn /\ Holds(t)
                         /\ DispatchCurrent(t) /\ CharterCurrent(t) /\ AnswerCurrent(t)
                         /\ t.handler = "confirm" => charter[t.charter] = "published"
             Goal == (\E t : Load(s, t) /\ Fresh(t)) /\ UNCHANGED rows
  <1>1. CASE BeginDispatch(s)
    <2>1. Fresh([handler |-> "dispatch"])
      BY <1>1 DEF BeginDispatch, Undispatched, Txn, Holds, DispatchCurrent, CharterCurrent,
                  AnswerCurrent
    <2> QED  BY <1>1, <2>1 DEF BeginDispatch, rows
  <1>2. ASSUME NEW d \in Decisions, BeginConfirm(s, d) PROVE Goal
    <2> DEFINE t == [handler |-> "confirm", decision |-> d, charter |-> CurrentCharter]
    <2>1. CurrentCharter \in Versions /\ charter[CurrentCharter] = "published"
      BY CurrentCharterPublished
    <2>2. t \in Txn
      BY <2>1 DEF Txn
    <2>3. Fresh(t)
      BY <1>2, <2>1, <2>2 DEF BeginConfirm, Holds, DispatchCurrent, CharterCurrent, AnswerCurrent
    <2> QED  BY <1>2, <2>3 DEF BeginConfirm, rows
  <1>3. ASSUME NEW q \in Requests, NEW to \in RequestStatus, BeginAnswer(s, q, to) PROVE Goal
    <2>1. request[q] # NoRequest /\ request[q].status \in RequestStatus
      BY <1>3 DEF BeginAnswer, TypeInv, TypeOK, RequestRow
    <2>2. PICK via \in {"table", "respond"} :
             /\ to \in IF via = "table" THEN Moves(request[q].status)
                                        ELSE Responses(request[q].status)
             /\ Load(s, [handler |-> "answer", via |-> via, request |-> q,
                         from |-> request[q].status, to |-> to])
      BY <1>3 DEF BeginAnswer
    <2> DEFINE t == [handler |-> "answer", via |-> via, request |-> q,
                     from |-> request[q].status, to |-> to]
    <2>3. t \in Txn
      BY <2>1 DEF Txn
    <2>4. Fresh(t)
      BY <2>1, <2>2, <2>3 DEF Holds, DispatchCurrent, CharterCurrent, AnswerCurrent
    <2> QED  BY <1>3, <2>2, <2>4 DEF BeginAnswer, rows
  <1>4. ASSUME NEW v \in Versions, BeginCharterStep(s, v) PROVE Goal
    <2>1. PICK to \in CONSTITUTION_TRANSITIONS[charter[v]] :
             Load(s, [handler |-> "charter", version |-> v, to |-> to])
      BY <1>4 DEF BeginCharterStep
    <2> DEFINE t == [handler |-> "charter", version |-> v, to |-> to]
    <2>2. charter[v] \in CharterStatus
      BY DEF TypeInv, TypeOK
    <2>3. to \in CharterStatus /\ charter[v] # "published"
      BY <2>1, <2>2 DEF CONSTITUTION_TRANSITIONS, CharterStatus
    <2>4. t \in Txn /\ v # 1
      BY <2>3 DEF Txn, TypeInv
    <2>5. Fresh(t)
      BY <2>1, <2>4 DEF Holds, DispatchCurrent, CharterCurrent, AnswerCurrent
    <2> QED  BY <1>4, <2>1, <2>5 DEF BeginCharterStep, rows
  <1>5. Goal
    BY <1>1, <1>2, <1>3, <1>4 DEF Begin
  <1> QED  BY <1>5

(* A step that only loads rows.                                             *)
LEMMA TypeLoad ==
    ASSUME TypeInv, NEW s \in Sessions, NEW t \in Txn, Holds(t), Load(s, t), UNCHANGED rows
    PROVE  TypeInv'
  <1>1. /\ Units(Txn)' /\ txn'[s] = t
        /\ \A u \in Sessions : u # s => txn'[u] = txn[u]
    <2>1. Units(Txn) /\ t # Idle
      BY Distinct, TypeUnits DEF TypeInv
    <2> QED  BY <2>1, LoadUnits
  <1>2. UNCHANGED <<deleted, decision, mission, request, charter>>
    BY DEF rows
  <1>3. TypeOK'
    BY <1>1, <1>2, TypeUnits DEF TypeInv, TypeOK, Units
  <1>4. \A u \in Sessions : Holds(txn[u])'
    <2> SUFFICES ASSUME NEW u \in Sessions PROVE Holds(txn[u])'  OBVIOUS
    <2>1. CASE u = s
      BY <2>1, <1>1, <1>2 DEF Holds
    <2>2. CASE u # s
      BY <2>2, <1>1, <1>2, HoldsKept DEF Grows
    <2> QED  BY <2>1, <2>2
  <1> QED  BY <1>2, <1>3, <1>4 DEF TypeInv

(* The requests _auto_create_collaboration_requests opens: one row for each *)
(* team that is asked, all of them new.                                     *)
LEMMA OpenedRows ==
    ASSUME TypeInv, NEW d \in Decisions, decision[d] # NoDecision, NEW team,
           OpenRequests(d, team)
    PROVE  /\ request' \in [Requests -> RequestRow \cup {NoRequest}]
           /\ \A q \in Requests : request[q] # NoRequest => request'[q] = request[q]
           /\ \E row \in [Asked(d, team) -> Requests] :
                /\ \A t, u \in Asked(d, team) : row[t] = row[u] => t = u
                /\ \A t \in Asked(d, team) :
                     request'[row[t]] = [status |-> "PENDING", team |-> t,
                                         opened |-> "dispatch", artifact |-> FALSE]
                /\ \A q \in Requests : (\A t \in Asked(d, team) : row[t] # q)
                                         => request'[q] = request[q]
  <1> DEFINE asked == Asked(d, team)
             Pending(t) == [status |-> "PENDING", team |-> t,
                            opened |-> "dispatch", artifact |-> FALSE]
  <1>1. PICK row \in [asked -> {q \in Requests : request[q] = NoRequest}] :
          /\ \A t, u \in asked : row[t] = row[u] => t = u
          /\ request' = [q \in Requests |->
               IF \E t \in asked : row[t] = q
                 THEN Pending(CHOOSE t \in asked : row[t] = q)
                 ELSE request[q]]
    BY DEF OpenRequests
  <1>2. asked \subseteq Teams
    BY DEF Asked, TypeInv, TypeOK, DecisionRow
  <1>3. \A t \in asked : Pending(t) \in RequestRow
    BY <1>2 DEF RequestRow, RequestStatus, CollaborationRequestStatus
  <1>4. \A t \in asked : row[t] \in Requests /\ request[row[t]] = NoRequest
    BY <1>1
  <1>5. ASSUME NEW t \in asked PROVE request'[row[t]] = Pending(t)
    <2>1. (CHOOSE u \in asked : row[u] = row[t]) = t
      BY <1>1
    <2> QED  BY <1>1, <1>4, <2>1
  <1>6. \A q \in Requests : (\A t \in asked : row[t] # q) => request'[q] = request[q]
    BY <1>1
  <1>7. ASSUME NEW q \in Requests PROVE request'[q] \in RequestRow \cup {NoRequest}
    <2>1. CASE \E t \in asked : row[t] = q
      BY <1>3, <1>5, <2>1
    <2>2. CASE ~ \E t \in asked : row[t] = q
      BY <1>6, <2>2 DEF TypeInv, TypeOK
    <2> QED  BY <2>1, <2>2
  <1>8. request' \in [Requests -> RequestRow \cup {NoRequest}]
    BY <1>1, <1>7
  <1>9. \A q \in Requests : request[q] # NoRequest => request'[q] = request[q]
    BY <1>4, <1>6
  <1>10. row \in [asked -> Requests]
    BY <1>1
  <1>11. \A t \in asked :
             request'[row[t]] = [status |-> "PENDING", team |-> t,
                                 opened |-> "dispatch", artifact |-> FALSE]
    BY <1>5
  <1> HIDE DEF asked
  <1> QED  BY <1>1, <1>6, <1>8, <1>9, <1>10, <1>11 DEF asked

(* What confirm_dispatch writes.                                            *)
LEMMA ConfirmWrites ==
    ASSUME TypeInv, NEW s \in Sessions, NEW team \in Teams, Confirm(s, team)
    PROVE  \E t \in Txn :
             /\ t = txn[s] /\ t.handler = "confirm"
             /\ t.decision \in Decisions /\ decision[t.decision] \in DecisionRow
             /\ t.charter \in Versions
             /\ mission = NoMission
             /\ mission' = [origin |-> t.decision, team |-> team, charter |-> t.charter]
             /\ decision' \in [Decisions -> DecisionRow \cup {NoDecision}]
             /\ decision'[t.decision].status = "CONFIRMED"
             /\ decision'[t.decision].supporting = decision[t.decision].supporting
             /\ \A d \in Decisions : d # t.decision => decision'[d] = decision[d]
             /\ decision'[t.decision] # NoDecision
             /\ OpenRequests(t.decision, team)
  <1>1. txn[s] \in Txn /\ Holds(txn[s]) /\ txn[s].handler = "confirm"
    BY InHand DEF Confirm
  <1>2. PICK t \in Txn : t = txn[s]
    BY <1>1
  <1>3. t.decision \in Decisions /\ t.charter \in Versions /\ t.handler = "confirm"
    BY <1>1, <1>2, TxnFields
  <1>4. decision[t.decision] \in DecisionRow
    BY <1>1, <1>2, <1>3 DEF Holds, TypeInv, TypeOK
  <1>5. decision' = [decision EXCEPT ![t.decision].status = "CONFIRMED"]
    BY <1>2 DEF Confirm
  <1>6. \A d \in Decisions : d # t.decision => decision'[d] = decision[d]
    BY <1>3, <1>5 DEF TypeInv, TypeOK
  <1>7. decision'[t.decision] = [decision[t.decision] EXCEPT !.status = "CONFIRMED"]
    BY <1>3, <1>5 DEF TypeInv, TypeOK
  <1>8. /\ decision'[t.decision] \in DecisionRow
        /\ decision'[t.decision].status = "CONFIRMED"
        /\ decision'[t.decision].supporting = decision[t.decision].supporting
    BY <1>4, <1>7 DEF DecisionRow
  <1>9. decision' \in [Decisions -> DecisionRow \cup {NoDecision}]
    BY <1>3, <1>5, <1>8, <1>6 DEF TypeInv, TypeOK
  <1>10. decision'[t.decision] # NoDecision
    BY <1>8, Distinct
  <1>11. /\ mission = NoMission
         /\ mission' = [origin |-> t.decision, team |-> team, charter |-> t.charter]
         /\ OpenRequests(t.decision, team)
    BY <1>2 DEF Confirm, MissionSourceUnique
  <1> QED  BY <1>2, <1>3, <1>4, <1>6, <1>8, <1>9, <1>10, <1>11

(* Confirming a proposal.                                                   *)
LEMMA TypeConfirm ==
    ASSUME TypeInv, NEW s \in Sessions, NEW team \in Teams, Confirm(s, team)
    PROVE  TypeInv'
  <1>1. PICK t \in Txn :
             /\ t.decision \in Decisions /\ decision[t.decision] \in DecisionRow
             /\ t.charter \in Versions
             /\ mission' = [origin |-> t.decision, team |-> team, charter |-> t.charter]
             /\ decision' \in [Decisions -> DecisionRow \cup {NoDecision}]
             /\ \A d \in Decisions : d # t.decision => decision'[d] = decision[d]
             /\ decision'[t.decision] # NoDecision
             /\ OpenRequests(t.decision, team)
    BY ConfirmWrites
  <1>2. mission' \in MissionRow
    BY <1>1 DEF MissionRow
  <1>3. /\ request' \in [Requests -> RequestRow \cup {NoRequest}]
        /\ \A q \in Requests : request[q] # NoRequest => request'[q] = request[q]
    BY <1>1, OpenedRows, Distinct
  <1>4. Grows
    BY <1>1, <1>3 DEF Grows
  <1>5. Settles(Txn)
    <2>1. Units(Txn) /\ Commit(s, {"dispatch", "confirm"})
      BY TypeUnits DEF TypeInv, Confirm
    <2> QED  BY <2>1, Settled
  <1> QED  BY <1>1, <1>2, <1>3, <1>4, <1>5, TypeSettles DEF Confirm, TypeInv, TypeOK

(* What an answer writes: the status and the artifact of one request.       *)
LEMMA AnswerWrites ==
    ASSUME TypeInv, NEW s \in Sessions, Answer(s)
    PROVE  \E t \in Txn :
             /\ t = txn[s] /\ t.handler = "answer" /\ t.request \in Requests
             /\ request[t.request] \in RequestRow
             /\ request'[t.request] \in RequestRow
             /\ request'[t.request].status = NewStatus(s)
             /\ request'[t.request].opened = request[t.request].opened
             /\ request'[t.request].team = request[t.request].team
             /\ \A q \in Requests : q # t.request => request'[q] = request[q]
             /\ request' \in [Requests -> RequestRow \cup {NoRequest}]
  <1>1. txn[s] \in Txn /\ Holds(txn[s]) /\ txn[s].handler = "answer"
    BY InHand DEF Answer
  <1>2. PICK t \in Txn : t = txn[s]
    BY <1>1
  <1>3. /\ t.request \in Requests /\ t.to \in RequestStatus /\ t.handler = "answer"
    BY <1>1, <1>2, TxnFields
  <1>4. request[t.request] \in RequestRow
    BY <1>1, <1>2, <1>3 DEF Holds, TypeInv, TypeOK
  <1>5. NewStatus(s) \in RequestStatus
    BY <1>2, <1>3, <1>4 DEF NewStatus, RequestRow
  <1> DEFINE done == (request[t.request].artifact \/ t.to = "COMPLETED") /\ t.via = "table"
  <1>6. request' = [request EXCEPT ![t.request].status = NewStatus(s),
                                   ![t.request].artifact = (@ \/ t.to = "COMPLETED")
                                                             /\ t.via = "table"]
    BY <1>2 DEF Answer
  <1>7. request'[t.request] = [request[t.request] EXCEPT !.status = NewStatus(s),
                                                         !.artifact = done]
    BY <1>3, <1>4, <1>6 DEF TypeInv, TypeOK, RequestRow
  <1>8. \A q \in Requests : q # t.request => request'[q] = request[q]
    BY <1>3, <1>6 DEF TypeInv, TypeOK
  <1>9. /\ request'[t.request] \in RequestRow
        /\ request'[t.request].status = NewStatus(s)
        /\ request'[t.request].opened = request[t.request].opened
        /\ request'[t.request].team = request[t.request].team
    <2>1. done \in BOOLEAN
      OBVIOUS
    <2> HIDE DEF done
    <2> QED  BY <1>4, <1>5, <1>7, <2>1 DEF RequestRow
  <1>10. request' \in [Requests -> RequestRow \cup {NoRequest}]
    <2>1. DOMAIN request' = Requests /\ request' = [q \in Requests |-> request'[q]]
      BY <1>6 DEF TypeInv, TypeOK
    <2> QED  BY <1>8, <1>9, <2>1 DEF TypeInv, TypeOK
  <1> QED  BY <1>2, <1>3, <1>4, <1>8, <1>9, <1>10

(* Answering a collaboration request.                                       *)
LEMMA TypeAnswer == ASSUME TypeInv, NEW s \in Sessions, Answer(s) PROVE TypeInv'
  <1>1. PICK t \in Txn :
             /\ request'[t.request] \in RequestRow
             /\ \A q \in Requests : q # t.request => request'[q] = request[q]
             /\ request' \in [Requests -> RequestRow \cup {NoRequest}]
    BY AnswerWrites
  <1>2. UNCHANGED <<deleted, decision, mission, charter>>
    BY DEF Answer
  <1>3. Grows
    BY <1>1, <1>2, Distinct DEF Grows
  <1>4. Settles(Txn)
    <2>1. Units(Txn) /\ Commit(s, {"answer"})
      BY TypeUnits DEF TypeInv, Answer
    <2> QED  BY <2>1, Settled
  <1> QED  BY <1>1, <1>2, <1>3, <1>4, TypeSettles DEF TypeInv, TypeOK

(* What a charter step and a new draft write: one version, which is not the *)
(* first.                                                                   *)
LEMMA CharterWrites ==
    ASSUME TypeInv, CreateDraft \/ \E s \in Sessions : CharterStep(s)
    PROVE  /\ charter' \in [Versions -> CharterStatus]
           /\ charter'[1] = "published"
           /\ UNCHANGED <<deleted, decision, mission, request>>
           /\ Settles(Txn)
  <1>0. Units(Txn) /\ charter \in [Versions -> CharterStatus] /\ charter[1] = "published"
    BY TypeUnits DEF TypeInv
  <1>1. CASE CreateDraft
    BY <1>0, <1>1, Distinct, Settled DEF CreateDraft, CharterStatus
  <1>2. ASSUME NEW s \in Sessions, CharterStep(s)
        PROVE  /\ charter' \in [Versions -> CharterStatus]
               /\ charter'[1] = "published"
               /\ UNCHANGED <<deleted, decision, mission, request>>
               /\ Settles(Txn)
    <2>1. PICK t \in Txn : t = txn[s] /\ t.handler = "charter" /\ t.version # 1
      BY <1>2, InHand DEF CharterStep, Holds
    <2>2. t.version \in Versions /\ t.to \in CharterStatus
      BY <2>1, TxnFields
    <2>3. Settles(Txn)
      BY <1>0, <1>2, Settled DEF CharterStep
    <2> QED  BY <1>0, <1>2, <2>1, <2>2, <2>3, Distinct DEF CharterStep
  <1> QED  BY <1>1, <1>2

(* What create_dispatch writes: one proposal that was not there.            *)
LEMMA DispatchWrites ==
    ASSUME TypeInv, NEW s \in Sessions, NEW supporting \in Proposals, Dispatch(s, supporting)
    PROVE  \E d \in Decisions :
             /\ decision[d] = NoDecision
             /\ decision'[d] = [status |-> "PROPOSED", supporting |-> supporting]
             /\ decision'[d] \in DecisionRow
             /\ \A c \in Decisions : c # d => decision'[c] = decision[c]
             /\ decision' \in [Decisions -> DecisionRow \cup {NoDecision}]
  <1>1. PICK d \in Decisions :
         /\ decision[d] = NoDecision
         /\ decision' = [decision EXCEPT ![d] =
                           [status |-> "PROPOSED", supporting |-> supporting]]
    BY DEF Dispatch
  <1>2. [status |-> "PROPOSED", supporting |-> supporting] \in DecisionRow
    BY DEF Proposals, DecisionRow
  <1> QED  BY <1>1, <1>2 DEF TypeInv, TypeOK

(* What request_collaboration writes: one request that was not there.       *)
LEMMA RequestWrites ==
    ASSUME TypeInv, NEW q \in Requests, NEW team \in Teams, RequestCollaboration(q, team)
    PROVE  /\ request[q] = NoRequest
           /\ request'[q] \in RequestRow /\ request'[q].opened = "lead"
           /\ \A p \in Requests : p # q => request'[p] = request[p]
           /\ request' \in [Requests -> RequestRow \cup {NoRequest}]
  <1> DEFINE row == [status |-> "REQUESTED", team |-> team, opened |-> "lead",
                     artifact |-> FALSE]
  <1>1. row \in RequestRow
    BY DEF RequestRow, RequestStatus
  <1> QED  BY <1>1 DEF RequestCollaboration, TypeInv, TypeOK

(* Every step keeps the types.                                              *)
LEMMA TypeNext == ASSUME TypeInv, [Next]_vars PROVE TypeInv'
  <1>0. Units(Txn)
    BY TypeUnits DEF TypeInv
  <1>1. CASE IngestAgain \/ ProviderDelete
    <2>1. Settles(Txn)
      BY <1>0, <1>1, Settled DEF IngestAgain, ProviderDelete
    <2> QED  BY <1>1, <2>1, TypeSettles DEF IngestAgain, ProviderDelete, Grows, TypeInv, TypeOK
  <1>2. CASE CreateDraft \/ \E s \in Sessions : CharterStep(s)
    BY <1>2, CharterWrites, TypeSettles DEF Grows, TypeInv, TypeOK
  <1>3. ASSUME NEW q \in Requests, NEW team \in Teams, RequestCollaboration(q, team)
        PROVE  TypeInv'
    <2>1. Settles(Txn)
      BY <1>0, <1>3, Settled DEF RequestCollaboration
    <2>2. Grows /\ request' \in [Requests -> RequestRow \cup {NoRequest}]
      BY <1>3, RequestWrites, Distinct DEF Grows, RequestCollaboration
    <2> QED  BY <1>3, <2>1, <2>2, TypeSettles DEF RequestCollaboration, TypeInv, TypeOK
  <1>4. ASSUME NEW s \in Sessions, NEW supporting \in Proposals, Dispatch(s, supporting)
        PROVE  TypeInv'
    <2>1. Settles(Txn)
      BY <1>0, <1>4, Settled DEF Dispatch
    <2>2. Grows /\ decision' \in [Decisions -> DecisionRow \cup {NoDecision}]
      BY <1>4, DispatchWrites, Distinct DEF Grows, Dispatch
    <2> QED  BY <1>4, <2>1, <2>2, TypeSettles DEF Dispatch, TypeInv, TypeOK
  <1>5. ASSUME NEW s \in Sessions, ModelRaises(s) \/ RollBack(s) PROVE TypeInv'
    <2>1. Settles(Txn)
      BY <1>0, <1>5, Settled DEF ModelRaises, RollBack
    <2> QED  BY <1>5, <2>1, TypeSettles DEF ModelRaises, RollBack, Grows, TypeInv, TypeOK
  <1>6. CASE UNCHANGED vars
    <2>1. Settles(Txn)
      BY <1>0, <1>6, Settled DEF vars
    <2> QED  BY <1>6, <2>1, TypeSettles DEF vars, Grows, TypeInv, TypeOK
  <1> QED  BY <1>1, <1>2, <1>3, <1>4, <1>5, <1>6, BeginLoads, TypeLoad, TypeConfirm, TypeAnswer
           DEF Next, Begin

(* The type invariant, with what it rests on.                               *)
LEMMA TypeAlways == Spec => []TypeInv
  BY TypeInit, TypeNext, PTL DEF Spec

(* Every row of the mail, proposal, mission, collaboration and constitution *)
(* tables keeps its type, and a confirmation always finds a published       *)
(* charter to bind the mission to.                                          *)
THEOREM TypeCorrect == Spec => []TypeOK
  <1>1. TypeInv => TypeOK
    BY DEF TypeInv
  <1> QED  BY <1>1, TypeAlways, PTL

------------------------------------------------------------------------------
(* Charters                                                                 *)

(* A step that gives no session a new request, keeps the published charters *)
(* and binds the mission to one of them.                                    *)
LEMMA CharterSettles ==
    ASSUME TypeInv, CharterInv, Settles(Txn),
           "charter" \notin raced' =>
             \A v \in Versions : /\ charter[v] = "published" => charter'[v] = "published"
                                 /\ charter'[v] # charter[v] =>
                                      \A u \in Sessions :
                                        txn[u].handler = "charter" /\ txn[u].version = v
                                          => u \in late' \/ txn'[u] = Idle \/ charter[v] = "ABSENT",
           \/ mission' = mission
           \/ \E s \in Sessions : txn[s].handler = "confirm" /\ mission'.charter = txn[s].charter
    PROVE  CharterInv'
  <1> SUFFICES ASSUME "charter" \notin raced'
               PROVE  /\ mission' # NoMission => charter'[mission'.charter] = "published"
                      /\ \A s \in Sessions : txn'[s].handler = "confirm" =>
                           charter'[txn'[s].charter] = "published"
                      /\ \A s \in Sessions : s \in late' \/ CharterCurrent(txn[s])'
    BY DEF CharterInv, CharterBound
  <1>1. "charter" \notin raced
    BY DEF Settles
  <1>2. ASSUME NEW s \in Sessions, txn[s].handler = "confirm"
        PROVE  charter'[txn[s].charter] = "published"
    <2>1. txn[s].charter \in Versions
      BY <1>2, InHand, TxnFields
    <2> QED  BY <1>1, <1>2, <2>1 DEF CharterInv, CharterBound
  <1>3. mission' # NoMission => charter'[mission'.charter] = "published"
    <2>1. mission # NoMission => mission.charter \in Versions
      BY DEF TypeInv, TypeOK, MissionRow
    <2> QED  BY <1>1, <1>2, <2>1 DEF CharterInv, CharterBound
  <1>4. \A s \in Sessions : txn'[s].handler = "confirm" => charter'[txn'[s].charter] = "published"
    BY <1>2, IdleHandler DEF Settles
  <1>5. ASSUME NEW s \in Sessions PROVE s \in late' \/ CharterCurrent(txn[s])'
    <2>1. CASE txn'[s] = Idle \/ s \in late \/ txn[s].handler # "charter"
      BY <2>1, IdleHandler DEF Settles, CharterCurrent
    <2>2. CASE txn'[s] = txn[s] /\ s \notin late /\ txn[s].handler = "charter"
      <3>1. PICK t \in Txn : t = txn[s] /\ t.version \in Versions
        BY <2>2, InHand, TxnFields
      <3>2. t.to \in CONSTITUTION_TRANSITIONS[charter[t.version]]
        BY <1>1, <2>2, <3>1 DEF CharterInv, CharterCurrent
      <3>3. charter[t.version] # "ABSENT"
        BY <3>2 DEF CONSTITUTION_TRANSITIONS, CharterStatus
      <3>4. CASE charter'[t.version] = charter[t.version]
        BY <2>2, <3>1, <3>2, <3>4 DEF CharterCurrent
      <3>5. CASE charter'[t.version] # charter[t.version]
        BY <2>2, <3>1, <3>3, <3>5, InHand, Distinct
      <3> QED  BY <3>4, <3>5
    <2> QED  BY <2>1, <2>2 DEF Settles
  <1> QED  BY <1>3, <1>4, <1>5

(* A published charter that a mission is bound to, or that a confirmation   *)
(* in flight has chosen, is not taken back unless a charter step is late.   *)
LEMMA CharterNext == ASSUME TypeInv, CharterInv, [Next]_vars PROVE CharterInv'
  <1>0. Units(Txn)
    BY TypeUnits DEF TypeInv
  <1>1. ASSUME NEW s \in Sessions, Begin(s) PROVE CharterInv'
    <2>1. PICK t \in Txn : /\ Load(s, t) /\ CharterCurrent(t)
                           /\ t.handler = "confirm" => charter[t.charter] = "published"
      BY <1>1, BeginLoads
    <2>2. charter' = charter /\ mission' = mission
      BY <1>1, BeginLoads DEF rows
    <2>3. /\ txn'[s] = t
          /\ \A u \in Sessions : u # s => txn'[u] = txn[u]
          /\ late' = late /\ raced' = raced
      BY <1>0, <2>1, LoadUnits, Distinct
    <2>4. ASSUME NEW u \in Sessions, u \in late \/ CharterCurrent(txn[u])
          PROVE  u \in late' \/ CharterCurrent(txn[u])'
      <3>1. CASE u = s
        BY <2>1, <2>2, <2>3, <3>1 DEF CharterCurrent
      <3>2. CASE u # s
        BY <2>2, <2>3, <2>4, <3>2 DEF CharterCurrent
      <3> QED  BY <3>1, <3>2
    <2>5. CharterBound'
      BY <2>1, <2>2, <2>3 DEF CharterInv, CharterBound
    <2> QED  BY <2>3, <2>4, <2>5 DEF CharterInv
  <1>2. CASE /\ charter' = charter /\ mission' = mission
             /\ \/ \E s \in Sessions : Abandon(s) \/ \E hit : Commit(s, hit)
                \/ \E hit : CommitAtOnce(hit)
                \/ UNCHANGED uow
    BY <1>0, <1>2, Settled, CharterSettles
  <1>3. ASSUME NEW s \in Sessions, NEW team \in Teams, Confirm(s, team) PROVE CharterInv'
    <2>1. Settles(Txn)
      BY <1>0, <1>3, Settled DEF Confirm
    <2> QED  BY <1>3, <2>1, CharterSettles DEF Confirm
  <1>4. CASE CreateDraft
    <2>1. Settles(Txn)
      BY <1>0, <1>4, Settled DEF CreateDraft
    <2>2. \A v \in Versions : charter'[v] # charter[v] => charter[v] = "ABSENT"
      BY <1>4 DEF CreateDraft, TypeInv, TypeOK
    <2> QED  BY <1>4, <2>1, <2>2, CharterSettles DEF CreateDraft
  <1>5. ASSUME NEW s \in Sessions, CharterStep(s) PROVE CharterInv'
    <2>1. Settles(Txn)
      BY <1>0, <1>5, Settled DEF CharterStep
    <2>2. PICK t \in Txn : t = txn[s] /\ t.handler = "charter"
      BY <1>5, InHand DEF CharterStep
    <2>3. t.version \in Versions
      BY <2>2, TxnFields
    <2>4. \A v \in Versions : v # t.version => charter'[v] = charter[v]
      BY <1>5, <2>2, <2>3 DEF CharterStep, TypeInv, TypeOK
    <2>5. /\ txn'[s] = Idle
          /\ \A u \in Sessions : u # s /\ txn[u] # Idle /\ txn[u].handler \in {"charter", "confirm"}
                                   => u \in late'
          /\ raced \subseteq raced'
          /\ txn[s].handler \notin raced' => s \notin late
      BY <1>0, <1>5, CommitUnits DEF CharterStep
    <2>6. ASSUME "charter" \notin raced' PROVE charter[t.version] # "published"
      <3>1. t.to \in CONSTITUTION_TRANSITIONS[charter[t.version]]
        BY <2>2, <2>5, <2>6 DEF CharterInv, CharterCurrent
      <3> QED  BY <3>1 DEF CONSTITUTION_TRANSITIONS, CharterStatus
    <2>7. \A u \in Sessions : txn[u].handler = "charter" => u \in late' \/ txn'[u] = Idle
      BY <2>5, IdleHandler
    <2> QED  BY <1>5, <2>1, <2>4, <2>6, <2>7, CharterSettles DEF CharterStep
  <1>6. CASE \/ IngestAgain \/ ProviderDelete
             \/ \E q \in Requests, t \in Teams : RequestCollaboration(q, t)
    BY <1>2, <1>6 DEF IngestAgain, ProviderDelete, RequestCollaboration
  <1>7. ASSUME NEW s \in Sessions,
               \/ \E supporting \in Proposals : Dispatch(s, supporting)
               \/ ModelRaises(s) \/ Answer(s) \/ RollBack(s)
        PROVE  CharterInv'
    BY <1>2, <1>7 DEF Dispatch, ModelRaises, Answer, RollBack
  <1>8. CASE UNCHANGED vars
    BY <1>2, <1>8 DEF vars
  <1> QED  BY <1>1, <1>3, <1>4, <1>5, <1>6, <1>7, <1>8 DEF Next, Begin

(* confirm_dispatch binds a mission to a published constitution, and that   *)
(* version stays published whatever is drafted, reviewed and published      *)
(* meanwhile, unless a charter step that was late commits.                  *)
THEOREM CharterStaysBound == Spec => []CharterBound
  <1>1. Init => CharterInv
    <2> SUFFICES ASSUME Init PROVE CharterInv  OBVIOUS
    <2>1. \A s \in Sessions : txn[s] = Idle
      BY UnitsStart DEF Init
    <2> QED  BY <2>1, IdleHandler DEF Init, CharterInv, CharterBound, CharterCurrent
  <1>2. CharterInv => CharterBound
    BY DEF CharterInv
  <1> QED  BY <1>1, <1>2, CharterNext, TypeAlways, PTL DEF Spec

------------------------------------------------------------------------------
(* Answers to collaboration requests                                        *)

(* Whoever is not late moves a request on from where it is: closed requests *)
(* take no answer, and a pending one is accepted or declined first.         *)
LEMMA AnswersOpen ==
    ASSUME NEW t \in Txn, t.handler = "answer", AnswerCurrent(t)
    PROVE  /\ t.from \notin Closed
           /\ t.from = "PENDING" => t.to \in {"ACCEPTED", "DECLINED"}
  <1>1. /\ Moves("PENDING") = {"ACCEPTED", "DECLINED"}
        /\ \A st \in Closed : Moves(st) = {}
    BY DEF Moves, CollaborationRequestStatus, COLLABORATION_REQUEST_TRANSITIONS, Closed
  <1>2. Responses("PENDING") = {} /\ \A st \in Closed : Responses(st) = {}
    BY DEF Responses, Closed
  <1> QED  BY <1>1, <1>2, TxnFields DEF AnswerCurrent

(* A step that gives no session a new request, and touches the request row  *)
(* of no answer that stays in flight and is not late.                       *)
LEMMA AnswerSettles ==
    ASSUME TypeInv, AnswerInv, Settles(Txn),
           \A u \in Sessions : txn[u].handler = "answer" =>
              \/ txn'[u] = Idle \/ u \in late'
              \/ request'[txn[u].request] = request[txn[u].request]
    PROVE  AnswerInv'
  <1> SUFFICES ASSUME "answer" \notin raced', NEW s \in Sessions, s \notin late'
               PROVE  AnswerCurrent(txn[s])'
    BY DEF AnswerInv
  <1>1. CASE txn'[s] = Idle
    BY <1>1, IdleHandler DEF AnswerCurrent
  <1>2. CASE txn'[s] = txn[s] /\ (s \in late => s \in late')
    <2>1. AnswerCurrent(txn[s])
      BY <1>2 DEF AnswerInv, Settles
    <2>2. txn[s].handler = "answer" => request'[txn[s].request] = request[txn[s].request]
      BY <1>2, IdleHandler
    <2> QED  BY <1>2, <2>1, <2>2 DEF AnswerCurrent
  <1> QED  BY <1>1, <1>2 DEF Settles

(* Every step keeps it, and no step reopens a request.                      *)
LEMMA AnswerNext ==
    ASSUME TypeInv, AnswerInv, [Next]_vars
    PROVE  /\ AnswerInv'
           /\ "answer" \notin raced' =>
                \A q \in Requests :
                  /\ request[q].status \in Closed => request'[q] = request[q]
                  /\ request[q].status = "PENDING" =>
                       request'[q].status \in {"PENDING", "ACCEPTED", "DECLINED"}
  <1> DEFINE Kept == "answer" \notin raced' =>
                \A q \in Requests :
                  /\ request[q].status \in Closed => request'[q] = request[q]
                  /\ request[q].status = "PENDING" =>
                       request'[q].status \in {"PENDING", "ACCEPTED", "DECLINED"}
  <1>0. Units(Txn)
    BY TypeUnits DEF TypeInv
  <1>1. ASSUME NEW s \in Sessions, Begin(s) PROVE AnswerInv' /\ Kept
    <2>1. PICK t \in Txn : Load(s, t) /\ AnswerCurrent(t)
      BY <1>1, BeginLoads
    <2>2. request' = request
      BY <1>1, BeginLoads DEF rows
    <2>3. /\ txn'[s] = t
          /\ \A u \in Sessions : u # s => txn'[u] = txn[u]
          /\ late' = late /\ raced' = raced
      BY <1>0, <2>1, LoadUnits, Distinct
    <2>4. ASSUME NEW u \in Sessions, u \in late \/ AnswerCurrent(txn[u])
          PROVE  u \in late' \/ AnswerCurrent(txn[u])'
      <3>1. CASE u = s
        BY <2>1, <2>2, <2>3, <3>1 DEF AnswerCurrent
      <3>2. CASE u # s
        BY <2>2, <2>3, <2>4, <3>2 DEF AnswerCurrent
      <3> QED  BY <3>1, <3>2
    <2> QED  BY <2>2, <2>3, <2>4 DEF AnswerInv
  <1>2. CASE /\ \A q \in Requests : request[q] # NoRequest => request'[q] = request[q]
             /\ \/ \E s \in Sessions : Abandon(s) \/ \E hit : Commit(s, hit)
                \/ \E hit : CommitAtOnce(hit)
                \/ UNCHANGED uow
    <2>1. Settles(Txn)
      BY <1>0, <1>2, Settled
    <2>2. ASSUME NEW u \in Sessions, txn[u].handler = "answer"
          PROVE  request'[txn[u].request] = request[txn[u].request]
      <3>1. txn[u] \in Txn /\ Holds(txn[u])
        BY <2>2, InHand
      <3>2. txn[u].request \in Requests /\ request[txn[u].request] # NoRequest
        BY <2>2, <3>1, TxnFields DEF Holds
      <3> QED  BY <1>2, <3>2
    <2>3. \A q \in Requests : request[q].status \in Closed \cup {"PENDING"}
                                => request[q] # NoRequest
      BY DEF NoRequest, Closed
    <2> QED  BY <1>2, <2>1, <2>2, <2>3, AnswerSettles
  <1>3. ASSUME NEW s \in Sessions, NEW team \in Teams, Confirm(s, team) PROVE AnswerInv' /\ Kept
    <2>1. \A q \in Requests : request[q] # NoRequest => request'[q] = request[q]
      BY <1>3, ConfirmWrites, OpenedRows, Distinct
    <2> QED  BY <1>2, <1>3, <2>1 DEF Confirm
  <1>4. ASSUME NEW q \in Requests, NEW team \in Teams, RequestCollaboration(q, team)
        PROVE  AnswerInv' /\ Kept
    BY <1>2, <1>4, RequestWrites DEF RequestCollaboration
  <1>5. ASSUME NEW s \in Sessions, Answer(s) PROVE AnswerInv' /\ Kept
    <2>1. PICK t \in Txn :
             /\ t = txn[s] /\ t.handler = "answer" /\ t.request \in Requests
             /\ request'[t.request].status = NewStatus(s)
             /\ \A q \in Requests : q # t.request => request'[q] = request[q]
      BY <1>5, AnswerWrites
    <2>2. /\ txn'[s] = Idle
          /\ \A u \in Sessions : u # s /\ txn[u] # Idle /\ txn[u].handler \in {"answer"}
                                   => u \in late'
          /\ raced \subseteq raced'
          /\ txn[s].handler \notin raced' => s \notin late
      BY <1>0, <1>5, CommitUnits DEF Answer
    <2>3. \A u \in Sessions : txn[u].handler = "answer" => u \in late' \/ txn'[u] = Idle
      BY <2>2, IdleHandler
    <2>4. Settles(Txn)
      BY <1>0, <1>5, Settled DEF Answer
    <2>5. ASSUME "answer" \notin raced'
          PROVE  /\ request[t.request].status \notin Closed
                 /\ request[t.request].status = "PENDING"
                      => NewStatus(s) \in {"ACCEPTED", "DECLINED"}
      <3>1. AnswerCurrent(t)
        BY <2>1, <2>2, <2>5 DEF AnswerInv
      <3>2. t.from \notin Closed /\ (t.from = "PENDING" => t.to \in {"ACCEPTED", "DECLINED"})
        BY <2>1, <3>1, AnswersOpen
      <3> QED  BY <2>1, <3>1, <3>2 DEF AnswerCurrent, NewStatus
    <2> QED  BY <2>1, <2>3, <2>4, <2>5, AnswerSettles
  <1>6. CASE IngestAgain \/ ProviderDelete \/ CreateDraft
    BY <1>2, <1>6 DEF IngestAgain, ProviderDelete, CreateDraft
  <1>7. ASSUME NEW s \in Sessions,
               \/ \E supporting \in Proposals : Dispatch(s, supporting)
               \/ ModelRaises(s) \/ CharterStep(s) \/ RollBack(s)
        PROVE  AnswerInv' /\ Kept
    BY <1>2, <1>7 DEF Dispatch, ModelRaises, CharterStep, RollBack
  <1>8. CASE UNCHANGED vars
    BY <1>2, <1>8 DEF vars
  <1> QED  BY <1>1, <1>3, <1>4, <1>5, <1>6, <1>7, <1>8 DEF Next, Begin

(* respond_collaboration and the handlers that follow the table never       *)
(* reopen a closed request and never skip the acceptance of a pending one,  *)
(* as long as no answer commits late.                                       *)
THEOREM ClosedRequestsStayClosed == Spec => ClosedStaysClosed
  <1>1. Init => AnswerInv
    <2> SUFFICES ASSUME Init PROVE AnswerInv  OBVIOUS
    <2>1. \A s \in Sessions : txn[s] = Idle
      BY UnitsStart DEF Init
    <2> QED  BY <2>1, IdleHandler DEF AnswerInv, AnswerCurrent
  <1> QED  BY <1>1, AnswerNext, TypeAlways, PTL DEF Spec, ClosedStaysClosed

------------------------------------------------------------------------------
(* One confirmation                                                         *)

(* A step that gives no session a new request, leaves the proposals alone   *)
(* and opens no request in the dispatcher's name.                           *)
LEMMA ConfirmSettles ==
    ASSUME TypeInv, ConfirmInv, Settles(Txn), UNCHANGED <<decision, mission>>,
           mission = NoMission => request' = request,
           \A t \in Teams : OpenedByDispatch(t)' = OpenedByDispatch(t)
    PROVE  ConfirmInv'
  <1>1. ASSUME NEW s \in Sessions, s \in late \/ DispatchCurrent(txn[s])
        PROVE  s \in late' \/ DispatchCurrent(txn[s])'
    <2>1. CASE txn'[s] = Idle
      BY <2>1, IdleHandler DEF DispatchCurrent
    <2>2. CASE txn'[s] = txn[s] /\ (s \in late => s \in late')
      BY <1>1, <2>2 DEF DispatchCurrent
    <2> QED  BY <2>1, <2>2 DEF Settles
  <1>2. raced \subseteq raced' /\ Supporters' = Supporters
    BY DEF Settles, Supporters
  <1>3. mission = NoMission => \A q \in Requests : request'[q] = NoRequest
    BY DEF ConfirmInv
  <1> QED  BY <1>1, <1>2, <1>3 DEF ConfirmInv

(* Every step keeps it.                                                     *)
LEMMA ConfirmNext == ASSUME TypeInv, ConfirmInv, [Next]_vars PROVE ConfirmInv'
  <1>0. Units(Txn)
    BY TypeUnits DEF TypeInv
  <1>1. ASSUME NEW s \in Sessions, Begin(s) PROVE ConfirmInv'
    <2>1. PICK t \in Txn : Load(s, t) /\ DispatchCurrent(t)
      BY <1>1, BeginLoads
    <2>2. UNCHANGED <<decision, mission, request>>
      BY <1>1, BeginLoads DEF rows
    <2>3. /\ txn'[s] = t
          /\ \A u \in Sessions : u # s => txn'[u] = txn[u]
          /\ late' = late /\ raced' = raced
      BY <1>0, <2>1, LoadUnits, Distinct
    <2>4. ASSUME NEW u \in Sessions, u \in late \/ DispatchCurrent(txn[u])
          PROVE  u \in late' \/ DispatchCurrent(txn[u])'
      <3>1. CASE u = s
        BY <2>1, <2>2, <2>3, <3>1 DEF DispatchCurrent
      <3>2. CASE u # s
        BY <2>2, <2>3, <2>4, <3>2 DEF DispatchCurrent
      <3> QED  BY <3>1, <3>2
    <2>5. /\ Supporters' = Supporters
          /\ \A team \in Teams : OpenedByDispatch(team)' = OpenedByDispatch(team)
      BY <2>2 DEF Supporters, OpenedByDispatch
    <2> QED  BY <2>2, <2>3, <2>4, <2>5 DEF ConfirmInv
  <1>2. CASE /\ UNCHANGED <<decision, mission, request>>
             /\ \/ \E s \in Sessions : Abandon(s) \/ \E hit : Commit(s, hit)
                \/ \E hit : CommitAtOnce(hit)
                \/ UNCHANGED uow
    <2>1. Settles(Txn)
      BY <1>0, <1>2, Settled
    <2>2. \A t \in Teams : OpenedByDispatch(t)' = OpenedByDispatch(t)
      BY <1>2 DEF OpenedByDispatch
    <2> QED  BY <1>2, <2>1, <2>2, ConfirmSettles
  <1>3. ASSUME NEW q \in Requests, NEW team \in Teams, RequestCollaboration(q, team)
        PROVE  ConfirmInv'
    <2>1. Settles(Txn)
      BY <1>0, <1>3, Settled DEF RequestCollaboration
    <2>2. \A t \in Teams : OpenedByDispatch(t)' = OpenedByDispatch(t)
      BY <1>3, RequestWrites DEF OpenedByDispatch
    <2> QED  BY <1>3, <2>1, <2>2, ConfirmSettles DEF RequestCollaboration
  <1>4. ASSUME NEW s \in Sessions, Answer(s) PROVE ConfirmInv'
    <2>1. Settles(Txn)
      BY <1>0, <1>4, Settled DEF Answer
    <2>2. PICK t \in Txn :
             /\ t.request \in Requests
             /\ request[t.request] \in RequestRow /\ request'[t.request] \in RequestRow
             /\ request'[t.request].opened = request[t.request].opened
             /\ request'[t.request].team = request[t.request].team
             /\ \A q \in Requests : q # t.request => request'[q] = request[q]
      BY <1>4, AnswerWrites
    <2>3. request[t.request] # NoRequest /\ request'[t.request] # NoRequest
      BY <2>2, Distinct
    <2>4. mission # NoMission
      BY <2>2, <2>3 DEF ConfirmInv
    <2>5. \A team \in Teams : OpenedByDispatch(team)' = OpenedByDispatch(team)
      BY <2>2, <2>3 DEF OpenedByDispatch
    <2> QED  BY <1>4, <2>1, <2>4, <2>5, ConfirmSettles DEF Answer
  <1>5. ASSUME NEW s \in Sessions, NEW supporting \in Proposals, Dispatch(s, supporting)
        PROVE  ConfirmInv'
    <2>1. PICK d \in Decisions :
             /\ decision[d] = NoDecision
             /\ decision'[d] = [status |-> "PROPOSED", supporting |-> supporting]
             /\ \A c \in Decisions : c # d => decision'[c] = decision[c]
      BY <1>5, DispatchWrites
    <2>2. UNCHANGED <<mission, request>> /\ txn[s].handler = "dispatch"
      BY <1>5 DEF Dispatch
    <2>3. d # mission.origin /\ decision'[d].status = "PROPOSED"
      BY <2>1 DEF ConfirmInv, NoDecision
    <2>4. /\ txn'[s] = Idle
          /\ \A u \in Sessions : u # s => txn'[u] = txn[u]
          /\ \A u \in Sessions : u # s /\ txn[u] # Idle /\ txn[u].handler \in {"dispatch"}
                                   => u \in late'
          /\ raced \subseteq raced'
          /\ txn[s].handler \notin raced' => s \notin late
      BY <1>0, <1>5, CommitUnits DEF Dispatch
    <2>5. \A c \in Decisions : decision'[c].status = "CONFIRMED" <=> c = mission'.origin
      BY <2>1, <2>2, <2>3 DEF ConfirmInv
    <2>6. ASSUME mission # NoMission PROVE Supporters' = Supporters
      <3>1. mission.origin \in Decisions
        BY <2>6 DEF TypeInv, TypeOK, MissionRow
      <3> QED  BY <2>1, <2>2, <2>3, <3>1 DEF Supporters
    <2>7. \A team \in Teams : OpenedByDispatch(team)' = OpenedByDispatch(team)
      BY <2>2 DEF OpenedByDispatch
    <2>8. ASSUME "dispatch" \notin raced'
          PROVE  /\ \A c, e \in Decisions : decision'[c].status = "PROPOSED"
                                              /\ decision'[e].status = "PROPOSED" => c = e
                 /\ \A u \in Sessions : u \in late' \/ DispatchCurrent(txn[u])'
      <3>1. \A c \in Decisions : decision[c].status # "PROPOSED"
        BY <2>2, <2>4, <2>8 DEF ConfirmInv, DispatchCurrent
      <3>2. \A c \in Decisions : decision'[c].status = "PROPOSED" => c = d
        BY <2>1, <3>1
      <3>3. \A u \in Sessions : u \in late' \/ txn'[u].handler # "dispatch"
        BY <2>4, IdleHandler
      <3> QED  BY <3>2, <3>3 DEF DispatchCurrent
    <2>9. mission' = NoMission => \A q \in Requests : request'[q] = NoRequest
      BY <2>2 DEF ConfirmInv
    <2>10. mission' # NoMission =>
             \A t \in Teams :
               IF t \in Supporters' THEN \E q \in Requests : OpenedByDispatch(t)' = {q}
                                    ELSE OpenedByDispatch(t)' = {}
      BY <2>2, <2>6, <2>7 DEF ConfirmInv
    <2> QED  BY <2>5, <2>8, <2>9, <2>10 DEF ConfirmInv
  <1>6. ASSUME NEW s \in Sessions, NEW team \in Teams, Confirm(s, team) PROVE ConfirmInv'
    <2>1. PICK t \in Txn :
             /\ t = txn[s] /\ t.handler = "confirm"
             /\ t.decision \in Decisions /\ decision[t.decision] \in DecisionRow
             /\ mission = NoMission
             /\ mission' = [origin |-> t.decision, team |-> team, charter |-> t.charter]
             /\ decision'[t.decision].status = "CONFIRMED"
             /\ decision'[t.decision].supporting = decision[t.decision].supporting
             /\ \A d \in Decisions : d # t.decision => decision'[d] = decision[d]
             /\ OpenRequests(t.decision, team)
      BY <1>6, ConfirmWrites
    <2>2. mission'.origin = t.decision /\ mission'.team = team /\ mission' # NoMission
      BY <2>1, Distinct
    <2>3. \A d \in Decisions : decision[d].status # "CONFIRMED"
      BY <2>1, Distinct DEF ConfirmInv
    <2>4. \A d \in Decisions : decision'[d].status = "CONFIRMED" <=> d = mission'.origin
      BY <2>1, <2>2, <2>3
    <2>5. Supporters' = Asked(t.decision, team)
      BY <2>1, <2>2 DEF Supporters, Asked
    <2>6. \A q \in Requests : request[q] = NoRequest
      BY <2>1 DEF ConfirmInv
    <2>7. PICK row \in [Asked(t.decision, team) -> Requests] :
             /\ \A u, v \in Asked(t.decision, team) : row[u] = row[v] => u = v
             /\ \A u \in Asked(t.decision, team) :
                  request'[row[u]] = [status |-> "PENDING", team |-> u,
                                      opened |-> "dispatch", artifact |-> FALSE]
             /\ \A q \in Requests : (\A u \in Asked(t.decision, team) : row[u] # q)
                                      => request'[q] = request[q]
      BY <2>1, OpenedRows, Distinct
    <2>8. ASSUME NEW u \in Teams
          PROVE  IF u \in Supporters' THEN \E q \in Requests : OpenedByDispatch(u)' = {q}
                                      ELSE OpenedByDispatch(u)' = {}
      <3>1. \A v \in Asked(t.decision, team) :
              /\ row[v] \in Requests /\ request'[row[v]].team = v
              /\ request'[row[v]].opened = "dispatch"
              /\ request'[row[v]] # NoRequest
        <4> SUFFICES ASSUME NEW v \in Asked(t.decision, team)
                     PROVE  /\ row[v] \in Requests /\ request'[row[v]].team = v
                            /\ request'[row[v]].opened = "dispatch"
                            /\ request'[row[v]] # NoRequest
          OBVIOUS
        <4>1. request'[row[v]] = [status |-> "PENDING", team |-> v,
                                  opened |-> "dispatch", artifact |-> FALSE]
          BY <2>7
        <4>2. request'[row[v]].status = "PENDING" /\ NoRequest.status = "ABSENT"
          BY <4>1 DEF NoRequest
        <4>3. request'[row[v]] # NoRequest
          BY <4>2
        <4> QED  BY <4>1, <4>3
      <3>2. \A q \in Requests : request'[q] # NoRequest
                                  => \E v \in Asked(t.decision, team) : row[v] = q
        BY <2>6, <2>7
      <3>3. CASE u \in Asked(t.decision, team)
        <4>1. OpenedByDispatch(u)' = {row[u]}
          BY <3>1, <3>2, <3>3 DEF OpenedByDispatch
        <4> QED  BY <2>5, <3>1, <3>3, <4>1
      <3>4. CASE u \notin Asked(t.decision, team)
        <4>1. OpenedByDispatch(u)' = {}
          BY <3>1, <3>2, <3>4 DEF OpenedByDispatch
        <4> QED  BY <2>5, <3>4, <4>1
      <3> QED  BY <3>3, <3>4
    <2>9. /\ txn'[s] = Idle
          /\ \A u \in Sessions : u # s => txn'[u] = txn[u]
          /\ \A u \in Sessions : u # s /\ txn[u] # Idle
                                   /\ txn[u].handler \in {"dispatch", "confirm"} => u \in late'
          /\ raced \subseteq raced'
      BY <1>0, <1>6, CommitUnits DEF Confirm
    <2>10. \A u \in Sessions : u \in late' \/ DispatchCurrent(txn[u])'
      <3>1. \A u \in Sessions : u \in late' \/ txn'[u].handler # "dispatch"
        BY <2>9, IdleHandler
      <3> QED  BY <3>1 DEF DispatchCurrent
    <2>11. \A c \in Decisions : decision'[c].status = "PROPOSED" => decision[c].status = "PROPOSED"
      BY <2>1
    <2>12. "dispatch" \notin raced' =>
             \A c, d \in Decisions : decision'[c].status = "PROPOSED"
                                       /\ decision'[d].status = "PROPOSED" => c = d
      BY <2>9, <2>11 DEF ConfirmInv
    <2> QED  BY <2>2, <2>4, <2>8, <2>10, <2>12 DEF ConfirmInv
  <1>7. CASE IngestAgain \/ ProviderDelete \/ CreateDraft
    BY <1>2, <1>7 DEF IngestAgain, ProviderDelete, CreateDraft
  <1>8. ASSUME NEW s \in Sessions, ModelRaises(s) \/ CharterStep(s) \/ RollBack(s)
        PROVE  ConfirmInv'
    BY <1>2, <1>8 DEF ModelRaises, CharterStep, RollBack
  <1>9. CASE UNCHANGED vars
    BY <1>2, <1>9 DEF vars
  <1> QED  BY <1>1, <1>3, <1>4, <1>5, <1>6, <1>7, <1>8, <1>9 DEF Next, Begin

(* The requests and proposals are counted.                                  *)
LEMMA ConfirmCounted == ConfirmInv => ConfirmedOnce
  <1> SUFFICES ASSUME ConfirmInv PROVE ConfirmedOnce  OBVIOUS
  <1>1. ASSUME mission # NoMission, NEW t \in Teams
        PROVE  Cardinality(OpenedByDispatch(t)) = IF t \in Supporters THEN 1 ELSE 0
    <2>1. CASE t \in Supporters
      <3>1. PICK q \in Requests : OpenedByDispatch(t) = {q}
        BY <1>1, <2>1 DEF ConfirmInv
      <3> QED  BY <2>1, <3>1, FS_Singleton
    <2>2. CASE t \notin Supporters
      <3>1. OpenedByDispatch(t) = {}
        BY <1>1, <2>2 DEF ConfirmInv
      <3> QED  BY <2>2, <3>1, FS_EmptySet
    <2> QED  BY <2>1, <2>2
  <1>2. "dispatch" \notin raced =>
          Cardinality({d \in Decisions : decision[d].status = "PROPOSED"}) <= 1
    <2> DEFINE S == {d \in Decisions : decision[d].status = "PROPOSED"}
    <2> SUFFICES ASSUME "dispatch" \notin raced PROVE Cardinality(S) <= 1  OBVIOUS
    <2>1. \A c, d \in S : c = d
      BY DEF ConfirmInv
    <2> HIDE DEF S
    <2> QED  BY <2>1, AtMostOne
  <1> QED  BY <1>1, <1>2 DEF ConfirmInv, ConfirmedOnce, OpenedByDispatch, Supporters

(* However many proposals are made and confirmed at the same time, the mail *)
(* has one mission, exactly its proposal is CONFIRMED, and each supporting  *)
(* team of it has been asked once (uq_mission_source).                      *)
THEOREM ConfirmedOnlyOnce == Spec => []ConfirmedOnce
  <1>1. Init => ConfirmInv
    <2> SUFFICES ASSUME Init PROVE ConfirmInv  OBVIOUS
    <2>1. \A s \in Sessions : txn[s] = Idle
      BY UnitsStart DEF Init
    <2>2. \A d \in Decisions : decision[d].status = "ABSENT"
      BY DEF Init, NoDecision
    <2> QED  BY <2>1, <2>2, IdleHandler, Distinct DEF Init, ConfirmInv, DispatchCurrent
  <1> QED  BY <1>1, ConfirmCounted, ConfirmNext, TypeAlways, PTL DEF Spec

=============================================================================
