---------------------------- MODULE MissionIntake ----------------------------
(***************************************************************************)
(* From a mail to a routed mission and the teams that help with it:        *)
(* ingest_mail and the provider's deletions, create_dispatch,              *)
(* confirm_dispatch, the collaboration requests it opens and the handlers  *)
(* that answer them, and the life of the team constitutions (charters) a   *)
(* mission is bound to when it is created.  One mail, one mission.         *)
(*                                                                         *)
(* MailMessage.processing_status is written by these handlers and read by  *)
(* none of them; it is left out.                                           *)
(***************************************************************************)
EXTENDS Naturals, FiniteSets, StateMachine, UnitOfWork

CONSTANTS
    Decisions,  \* bound: DispatchDecision rows
    Teams,      \* expert teams
    Requests,   \* bound: CollaborationRequest rows
    MaxCharter, \* bound: TeamConstitutionVersion.version
    None        \* no decision

ASSUME IntakeAssumption == MaxCharter \in Nat \ {0} /\ None \notin Decisions

VARIABLES
    deleted,  \* MailMessage.provider_deleted
    decision, \* DispatchDecision rows: status and supporting teams
    mission,  \* Mission: the decision it came from, its team, its charter
    request,  \* CollaborationRequest rows
    charter   \* status of the versions of the primary team's constitution

vars == <<deleted, decision, mission, request, charter, uow>>

------------------------------------------------------------------------------
(* Rows                                                                     *)

NoDecision == [status |-> "ABSENT", supporting |-> {}]
DecisionRow == [status : {"PROPOSED", "CONFIRMED"}, supporting : SUBSET Teams]
NoMission == [origin |-> None]
Versions == 1..MaxCharter
MissionRow == [origin : Decisions, team : Teams, charter : Versions]

(* REQUESTED and REJECTED are written by request_collaboration and          *)
(* respond_collaboration and are not in the enumeration.                    *)
RequestStatus == CollaborationRequestStatus \cup {"REQUESTED", "REJECTED"}
NoRequest == [status |-> "ABSENT"]
RequestRow == [status : RequestStatus, team : Teams, opened : {"dispatch", "lead"},
               artifact : BOOLEAN]
CharterStatus == {"ABSENT", "draft", "reviewing", "approved", "published"}

Txn == [handler : {"dispatch"}]
         \cup [handler : {"confirm"}, decision : Decisions, charter : Versions]
         \cup [handler : {"answer"}, via : {"table", "respond"}, request : Requests,
               from : RequestStatus, to : RequestStatus]
         \cup [handler : {"charter"}, version : Versions, to : CharterStatus]

(* Every column holds a value of its type.                                  *)
TypeOK ==
    /\ deleted \in BOOLEAN
    /\ decision \in [Decisions -> DecisionRow \cup {NoDecision}]
    /\ mission \in MissionRow \cup {NoMission}
    /\ request \in [Requests -> RequestRow \cup {NoRequest}]
    /\ charter \in [Versions -> CharterStatus]
    /\ txn \in [Sessions -> Txn \cup {Idle}] /\ UnitsOK

(* The seed publishes the first charter; the mail has been ingested.        *)
Init ==
    /\ deleted = FALSE
    /\ decision = [d \in Decisions |-> NoDecision]
    /\ mission = NoMission
    /\ request = [q \in Requests |-> NoRequest]
    /\ charter = [v \in Versions |-> IF v = 1 THEN "published" ELSE "ABSENT"]
    /\ UnitsInit

------------------------------------------------------------------------------
(* Mail                                                                     *)

(* ingest_mail: a message that was deleted is there again.                  *)
IngestAgain ==
    /\ deleted
    /\ deleted' = FALSE
    /\ CommitAtOnce({"dispatch"})
    /\ UNCHANGED <<decision, mission, request, charter>>

(* sync_graph_folder: the provider reports the message as removed.          *)
ProviderDelete ==
    /\ ~deleted
    /\ deleted' = TRUE
    /\ CommitAtOnce({"dispatch"})
    /\ UNCHANGED <<decision, mission, request, charter>>

------------------------------------------------------------------------------
(* Dispatch                                                                 *)

Undispatched == /\ ~deleted
                /\ \A d \in Decisions : decision[d].status # "PROPOSED"

BeginDispatch(s) ==
    /\ Undispatched
    /\ Load(s, [handler |-> "dispatch"])
    /\ UNCHANGED <<deleted, decision, mission, request, charter>>

(* propose_dispatch: the rules' and the model's proposal, of which the      *)
(* supporting teams matter here; the primary team, the workflow and the     *)
(* risk it suggests are replaced or taken over by the owner.                *)
Proposals == SUBSET Teams

Dispatch(s, supporting) ==
    /\ txn[s].handler = "dispatch"
    /\ \E d \in Decisions :
         /\ decision[d] = NoDecision
         /\ decision' = [decision EXCEPT ![d] =
                           [status |-> "PROPOSED", supporting |-> supporting]]
    /\ Commit(s, {"dispatch"})
    /\ UNCHANGED <<deleted, mission, request, charter>>

(* complete_structured raises: the tenant's daily budget is used up, the    *)
(* provider has no signed agreement or fails, the answer does not fit the   *)
(* schema.  The FAILED invocation is rolled back with the request.          *)
ModelRaises(s) ==
    /\ txn[s].handler = "dispatch"
    /\ Abandon(s)
    /\ UNCHANGED <<deleted, decision, mission, request, charter>>

(* Mutant of CurrentCharter: the newest version, published or not.          *)
CurrentCharterAny ==
    CHOOSE v \in Versions : /\ charter[v] # "ABSENT"
                            /\ \A w \in Versions : w > v => charter[w] = "ABSENT"

(* The published version with the highest number.                           *)
CurrentCharter ==
    CHOOSE v \in Versions : /\ charter[v] = "published"
                            /\ \A w \in Versions : w > v => charter[w] # "published"

(* The decision's own status is not looked at; a mission that exists is     *)
(* returned and nothing is written.                                         *)
BeginConfirm(s, d) ==
    /\ decision[d] # NoDecision
    /\ mission = NoMission
    /\ Load(s, [handler |-> "confirm", decision |-> d, charter |-> CurrentCharter])
    /\ UNCHANGED <<deleted, decision, mission, request, charter>>

(* Mutant of MissionSourceUnique: no constraint uq_mission_source.          *)
MissionSourceNotUnique == TRUE

MissionSourceUnique == mission = NoMission

(* _extract_supporting_team_keys, less the primary team.                    *)
Asked(d, team) == decision[d].supporting \ {team}

(* _auto_create_collaboration_requests: a PENDING request to each           *)
(* supporting team other than the primary one; Requests must have room.     *)
OpenRequests(d, team) ==
    LET asked == Asked(d, team)
    IN  \E row \in [asked -> {q \in Requests : request[q] = NoRequest}] :
          /\ \A t, u \in asked : row[t] = row[u] => t = u
          /\ request' = [q \in Requests |->
               IF \E t \in asked : row[t] = q
                 THEN [status |-> "PENDING", team |-> CHOOSE t \in asked : row[t] = q,
                       opened |-> "dispatch", artifact |-> FALSE]
                 ELSE request[q]]

(* The owner keeps the suggested team or names another one.                 *)
Confirm(s, team) ==
    LET d == txn[s].decision
    IN  /\ txn[s].handler = "confirm"
        /\ MissionSourceUnique
        /\ mission' = [origin |-> d, team |-> team, charter |-> txn[s].charter]
        /\ decision' = [decision EXCEPT ![d].status = "CONFIRMED"]
        /\ OpenRequests(d, team)
        /\ Commit(s, {"dispatch", "confirm"})
        /\ UNCHANGED <<deleted, charter>>

------------------------------------------------------------------------------
(* Collaboration                                                            *)

RequestCollaboration(q, team) ==
    /\ mission # NoMission /\ team # mission.team
    /\ request[q] = NoRequest
    /\ request' = [request EXCEPT ![q] = [status |-> "REQUESTED", team |-> team,
                                          opened |-> "lead", artifact |-> FALSE]]
    /\ CommitAtOnce({})
    /\ UNCHANGED <<deleted, decision, mission, charter>>

(* accept_, decline_, start_ and complete_collaboration: each looks at the  *)
(* status and then asks the table.                                          *)
Moves(st) ==
    IF st \in CollaborationRequestStatus
      THEN COLLABORATION_REQUEST_TRANSITIONS[st]
             \cap {"ACCEPTED", "DECLINED", "IN_PROGRESS", "COMPLETED"}
      ELSE {}

(* Mutant of Responses: a closed request may be answered again.             *)
ResponsesAlways(st) == {"ACCEPTED", "IN_PROGRESS", "COMPLETED", "REJECTED"}

(* respond_collaboration writes whatever status the caller names.           *)
Responses(st) ==
    IF st \in {"REQUESTED", "ACCEPTED", "IN_PROGRESS"}
      THEN {"ACCEPTED", "IN_PROGRESS", "COMPLETED", "REJECTED"} ELSE {}

BeginAnswer(s, q, to) ==
    LET from == request[q].status
    IN  /\ request[q] # NoRequest
        /\ \E via \in {"table", "respond"} :
             /\ to \in IF via = "table" THEN Moves(from) ELSE Responses(from)
             /\ Load(s, [handler |-> "answer", via |-> via, request |-> q,
                         from |-> from, to |-> to])
        /\ UNCHANGED <<deleted, decision, mission, request, charter>>

(* The status column is written when it differs from the one loaded.        *)
NewStatus(s) == IF txn[s].to = txn[s].from THEN request[txn[s].request].status
                                           ELSE txn[s].to

(* Completing links the artifact; a response replaces the stored one.       *)
Answer(s) ==
    /\ txn[s].handler = "answer"
    /\ request' = [request EXCEPT
         ![txn[s].request].status = NewStatus(s),
         ![txn[s].request].artifact =
             (@ \/ txn[s].to = "COMPLETED") /\ txn[s].via = "table"]
    /\ Commit(s, {"answer"})
    /\ UNCHANGED <<deleted, decision, mission, charter>>

------------------------------------------------------------------------------
(* Constitutions                                                            *)

(* Mutant of CONSTITUTION_TRANSITIONS: a published charter can be retired   *)
(* to a status nobody knows.                                                *)
CONSTITUTION_TRANSITIONS_Retire ==
    [st \in CharterStatus |->
       CASE st = "draft" -> {"published"} [] st = "published" -> {"retired"} [] OTHER -> {}]

CONSTITUTION_TRANSITIONS ==
    [st \in CharterStatus |->
       CASE st = "draft"     -> {"reviewing"}
         [] st = "reviewing" -> {"approved"}
         [] st = "approved"  -> {"published"}
         [] OTHER            -> {}]

(* create_constitution_draft: the highest version + 1.                      *)
CreateDraft ==
    \E v \in Versions :
      /\ charter[v] = "ABSENT" /\ charter[v - 1] # "ABSENT"
      /\ charter' = [charter EXCEPT ![v] = "draft"]
      /\ CommitAtOnce({})
      /\ UNCHANGED <<deleted, decision, mission, request>>

(* submit_constitution_for_review, approve_ and publish_constitution.       *)
BeginCharterStep(s, v) ==
    /\ \E to \in CONSTITUTION_TRANSITIONS[charter[v]] :
         Load(s, [handler |-> "charter", version |-> v, to |-> to])
    /\ UNCHANGED <<deleted, decision, mission, request, charter>>

CharterStep(s) ==
    /\ txn[s].handler = "charter"
    /\ charter' = [charter EXCEPT ![txn[s].version] = txn[s].to]
    /\ Commit(s, {"charter", "confirm"})
    /\ UNCHANGED <<deleted, decision, mission, request>>

(* A constraint failed, a transition was illegal, the process stopped.      *)
RollBack(s) == Abandon(s) /\ UNCHANGED <<deleted, decision, mission, request, charter>>

------------------------------------------------------------------------------
Next ==
    \/ IngestAgain \/ ProviderDelete \/ CreateDraft
    \/ \E q \in Requests, t \in Teams : RequestCollaboration(q, t)
    \/ \E s \in Sessions :
         \/ BeginDispatch(s)
         \/ \E supporting \in Proposals : Dispatch(s, supporting)
         \/ ModelRaises(s)
         \/ \E d \in Decisions : BeginConfirm(s, d)
         \/ \E t \in Teams : Confirm(s, t)
         \/ \E q \in Requests, to \in RequestStatus : BeginAnswer(s, q, to)
         \/ Answer(s)
         \/ \E v \in Versions : BeginCharterStep(s, v)
         \/ CharterStep(s)
         \/ RollBack(s)

Spec == Init /\ [][Next]_vars

------------------------------------------------------------------------------
(* Properties                                                               *)

(* A mail has one mission, however many proposals were made and confirmed   *)
(* at the same time: exactly the proposal the mission came from is          *)
(* CONFIRMED, and confirm_dispatch has asked each supporting team of that   *)
(* proposal once and the primary team never (uq_mission_source).  Unless    *)
(* two create_dispatch overlap there is one open proposal at a time.        *)
ConfirmedOnce ==
    /\ \A d \in Decisions : decision[d].status = "CONFIRMED" <=> d = mission.origin
    /\ mission # NoMission =>
         \A t \in Teams :
           Cardinality({q \in Requests : /\ request[q] # NoRequest
                                         /\ request[q].opened = "dispatch"
                                         /\ request[q].team = t})
             = IF t \in decision[mission.origin].supporting \ {mission.team} THEN 1 ELSE 0
    /\ "dispatch" \notin raced =>
         Cardinality({d \in Decisions : decision[d].status = "PROPOSED"}) <= 1

(* "The previous published version keeps its status and remains bound to    *)
(* in-flight Missions": whichever versions are drafted and published while  *)
(* a dispatch is confirmed, a mission's charter is a published one.  Only   *)
(* a charter step that commits late can take a published version back.      *)
CharterBound ==
    "charter" \notin raced =>
        /\ mission # NoMission => charter[mission.charter] = "published"
        /\ \A s \in Sessions : txn[s].handler = "confirm" =>
             charter[txn[s].charter] = "published"

Closed == {"COMPLETED", "DECLINED", "REJECTED"}

(* A closed collaboration request stays as it is, although two families of  *)
(* handlers write its status, one by the table and one freely; a request    *)
(* that was PENDING is never answered without having been accepted.         *)
ClosedStaysClosed ==
    []["answer" \notin raced' =>
         \A q \in Requests :
           /\ request[q].status \in Closed => request'[q] = request[q]
           /\ request[q].status = "PENDING" =>
                request'[q].status \in {"PENDING", "ACCEPTED", "DECLINED"}]_vars
=============================================================================
