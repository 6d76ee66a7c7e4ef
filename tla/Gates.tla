-------------------------------- MODULE Gates --------------------------------
(***************************************************************************)
(* A production pilot and its release gates: the handlers of               *)
(* services/pilot.py, the helpers of services/gates.py they share with     *)
(* services/commercial/ga.py, and the live external operation whose        *)
(* preparation asks live_send_pilot_preflight and whose verified result    *)
(* becomes evidence of gate D.                                             *)
(*                                                                         *)
(* evidence_snapshot_hash hashes the identity of every VERIFIED row of a   *)
(* gate, so that the snapshot is the set of those rows.  evaluate_gate is  *)
(* several statements, each of which sees what is committed when it runs:  *)
(* the preflight reads evidence, then signatures, then the rest.  The      *)
(* gates of the GA engine are decided by the same two helpers and may be   *)
(* among Gates.  One programme and one enrolled mail account; a send that  *)
(* another programme of the tenant admitted is one step (SentElsewhere).   *)
(* Incidents are the P0 and P1 ones.                                       *)
(***************************************************************************)
EXTENDS Naturals, FiniteSets, UnitOfWork

CONSTANTS
    Gates,                       \* the gate keys of the instance
    GATE_EVIDENCE_REQUIREMENTS,  \* the evidence types each gate needs
    GATE_REQUIRED_ROLES,         \* the roles that must sign each gate
    Rows,                        \* bound: evidence rows
    Submitted,                   \* the ones that people, not the system, submit
    GateOf, EvidenceType,        \* gate_key and evidence_type of a row
    Incidents,                   \* bound: P0 and P1 incidents open at a time
    Modes,                       \* the mailbox modes asked for
    Targets,                     \* the programme statuses asked for
    RequirePilot                 \* settings.require_pilot_for_live_send

ASSUME GatesAssumption ==
    /\ "D" \in Gates /\ Gates \cap {"idle", "prepare"} = {}
    /\ Submitted \subseteq Rows
    /\ \A e \in Rows : GateOf[e] \in Gates
                         /\ EvidenceType[e] \in GATE_EVIDENCE_REQUIREMENTS[GateOf[e]]
    /\ Modes \subseteq {"SHADOW", "AGENT_DRAFT", "LIVE_SEND"}
    /\ Targets \subseteq {"ACTIVE", "PAUSED", "COMPLETED", "CANCELLED"}
    /\ RequirePilot \in BOOLEAN

VARIABLES
    program,   \* PilotProgram.status
    mailbox,   \* PilotMailbox.mode, or "ABSENT"
    evidence,  \* GateEvidence.status by row
    signed,    \* GateAttestation by gate and role
    open,      \* the PilotIncidents that are not RESOLVED
    op,        \* ExternalOperation.status of the live send
    elsewhere, \* the tenant has a verified live send that this programme's
               \* preflight did not admit
    opened     \* history: gates B and C have been ready together

pilot == <<program, mailbox, evidence, signed, open, op, elsewhere>>
vars == <<program, mailbox, evidence, signed, open, op, elsewhere, opened, uow>>

------------------------------------------------------------------------------
(* Rows                                                                     *)

MailboxMode == Modes \cup {"ABSENT"}
ProgramStatus == {"DRAFT", "ACTIVE", "PAUSED", "COMPLETED", "CANCELLED"}
EvidenceStatus == {"ABSENT", "PENDING", "VERIFIED", "REJECTED"}
OpStatus == {"ABSENT", "APPROVED", "SUCCEEDED", "FAILED", "UNKNOWN"}
Signature == [decision : {"APPROVE", "REJECT"}, snapshot : SUBSET Rows]
Unsigned == [decision |-> "NONE", snapshot |-> {}]
AttestationRow == Signature \cup {Unsigned}

Txn == [handler : Gates, role : UNION {GATE_REQUIRED_ROLES[g] : g \in Gates},
        loaded : AttestationRow, new : Signature]
         \cup [handler : {"prepare"}, at : {"evidence", "signatures"}]

(* Every column holds a value of its type; gates are signed by their roles. *)
TypeOK ==
    /\ program \in ProgramStatus
    /\ mailbox \in MailboxMode
    /\ evidence \in [Rows -> EvidenceStatus]
    /\ DOMAIN signed = Gates
    /\ \A g \in Gates : signed[g] \in [GATE_REQUIRED_ROLES[g] -> AttestationRow]
    /\ open \subseteq Incidents
    /\ op \in OpStatus
    /\ elsewhere \in BOOLEAN
    /\ opened \in BOOLEAN
    /\ txn \in [Sessions -> Txn \cup {Idle}]
    /\ UnitsOK

Init ==
    /\ program = "DRAFT"
    /\ mailbox = "ABSENT"
    /\ evidence = [e \in Rows |-> "ABSENT"]
    /\ signed = [g \in Gates |-> [r \in GATE_REQUIRED_ROLES[g] |-> Unsigned]]
    /\ open = {}
    /\ op = "ABSENT"
    /\ elsewhere = FALSE
    /\ opened = FALSE
    /\ UnitsInit

------------------------------------------------------------------------------
(* Evaluation of a gate                                                     *)

EvidenceSnapshot(g) == {e \in Rows : GateOf[e] = g /\ evidence[e] = "VERIFIED"}

VerifiedTypes(g) == {EvidenceType[e] : e \in EvidenceSnapshot(g)}

EvidenceReady(g) == GATE_EVIDENCE_REQUIREMENTS[g] \subseteq VerifiedTypes(g)

(* A row that is rejected and verified again gives the old snapshot back,   *)
(* and with it the old signatures.                                          *)
AttestationReady(g) ==
    \A r \in GATE_REQUIRED_ROLES[g] :
        signed[g][r] = [decision |-> "APPROVE", snapshot |-> EvidenceSnapshot(g)]

(* _automatic_observations: a verified live send of the tenant, whichever   *)
(* programme admitted it.  Synchronisations, dispatch reviews, stable days, *)
(* model calls and quality evaluations come from other components and are   *)
(* taken as observed.                                                       *)
AutomaticReady(g) == g = "D" => op = "SUCCEEDED" \/ elsewhere

GateReady(g) == EvidenceReady(g) /\ AutomaticReady(g) /\ AttestationReady(g)

(* evaluate_gate; the production gate rests on the other three.             *)
Ready(g) == /\ GateReady(g)
            /\ g = "PRODUCTION" => /\ \A h \in Gates \cap {"B", "C", "D"} : GateReady(h)
                                   /\ open = {}

DrillGates == Gates \cap {"B", "C"}

------------------------------------------------------------------------------
(* The programme and its mailbox                                            *)

PROGRAM_TRANSITIONS ==
    [p \in ProgramStatus |->
        CASE p = "DRAFT" -> {"ACTIVE", "CANCELLED"}
          [] p = "ACTIVE" -> {"PAUSED", "COMPLETED", "CANCELLED"}
          [] p = "PAUSED" -> {"ACTIVE", "COMPLETED", "CANCELLED"}
          [] OTHER -> {}]

(* Nothing here depends on the status a transition was checked against:     *)
(* the request is one step.                                                 *)
TransitionProgram(to) ==
    /\ to \in PROGRAM_TRANSITIONS[program]
    /\ program' = to
    /\ CommitAtOnce({"prepare"})
    /\ UNCHANGED <<mailbox, evidence, signed, open, op, elsewhere>>

RegisterMailbox(mode) ==
    /\ mailbox' = mode
    /\ CommitAtOnce({"prepare"})
    /\ UNCHANGED <<program, evidence, signed, open, op, elsewhere>>

------------------------------------------------------------------------------
(* Evidence and incidents                                                   *)

(* Mutant of SubmitEvidence: a status that is none of the column's. *)
SubmitEvidenceOpen(e) ==
    /\ evidence[e] = "ABSENT"
    /\ evidence' = [evidence EXCEPT ![e] = "OPEN"]
    /\ UNCHANGED <<program, mailbox, signed, open, op, elsewhere, uow>>

SubmitEvidence(e) ==
    /\ evidence[e] = "ABSENT"
    /\ evidence' = [evidence EXCEPT ![e] = "PENDING"]
    /\ UNCHANGED <<program, mailbox, signed, open, op, elsewhere, uow>>

(* The owner decides whatever was decided before.                           *)
VerifyEvidence(e, decision) ==
    /\ evidence[e] # "ABSENT"
    /\ evidence' = [evidence EXCEPT ![e] = decision]
    /\ CommitAtOnce({"prepare"})
    /\ UNCHANGED <<program, mailbox, signed, open, op, elsewhere>>

RecordIncident(i) ==
    /\ open' = open \cup {i}
    /\ CommitAtOnce({"prepare"})
    /\ UNCHANGED <<program, mailbox, evidence, signed, op, elsewhere>>

ResolveIncident(i) ==
    /\ open' = open \ {i}
    /\ CommitAtOnce({"prepare"})
    /\ UNCHANGED <<program, mailbox, evidence, signed, op, elsewhere>>

------------------------------------------------------------------------------
(* Signatures                                                               *)

BeginAttest(s, g, r, decision) ==
    /\ Load(s, [handler |-> g, role |-> r, loaded |-> signed[g][r],
                new |-> [decision |-> decision, snapshot |-> EvidenceSnapshot(g)]])
    /\ UNCHANGED pilot

(* Only the columns whose value changed since the row was loaded are        *)
(* written, so two overlapping signatures of a role may mix.                *)
Column(field, row, t) ==
    IF t.new[field] # t.loaded[field] THEN t.new[field] ELSE row[field]

Attested(row, t) ==
    IF t.loaded = Unsigned THEN t.new
    ELSE [decision |-> Column("decision", row, t), snapshot |-> Column("snapshot", row, t)]

(* uq_gate_attestation_role: of two first signatures of a role one fails.   *)
Attest(s, g) ==
    /\ txn[s].handler = g
    /\ LET t == txn[s]
           row == signed[g][t.role]
       IN /\ t.loaded = Unsigned => row = Unsigned
          /\ signed' = [signed EXCEPT ![g][t.role] = Attested(row, t)]
    /\ Commit(s, {g, "prepare"})
    /\ UNCHANGED <<program, mailbox, evidence, open, op, elsewhere>>

------------------------------------------------------------------------------
(* The live send                                                            *)

PreSendEvidence ==
    GATE_EVIDENCE_REQUIREMENTS["D"] \ {"live_send_verification"} \subseteq VerifiedTypes("D")

(* prepare_external_operation calls live_send_pilot_preflight if the        *)
(* setting asks for it, statement by statement: the programme, the mailbox  *)
(* and the evidence of B and C ...                                          *)
BeginPrepare(s) ==
    /\ op = "ABSENT"
    /\ RequirePilot => /\ program = "ACTIVE"
                       /\ mailbox = "LIVE_SEND"
                       /\ \A g \in DrillGates : EvidenceReady(g)
    /\ Load(s, [handler |-> "prepare",
                at |-> IF RequirePilot THEN "evidence" ELSE "signatures"])
    /\ UNCHANGED pilot

(* Mutant of Signatures: the preflight trusts the evidence alone. *)
SignaturesUnread == \A g \in DrillGates : AutomaticReady(g)

Signatures == \A g \in DrillGates : AttestationReady(g) /\ AutomaticReady(g)

(* ... then their snapshots, signatures and observations ...                *)
ReadSignatures(s) ==
    /\ txn[s] = [handler |-> "prepare", at |-> "evidence"]
    /\ Signatures
    /\ txn' = [txn EXCEPT ![s].at = "signatures"]
    /\ UNCHANGED <<pilot, late, raced>>

(* ... then the pre-send evidence of D and the open incidents.              *)
Prepare(s) ==
    /\ txn[s] = [handler |-> "prepare", at |-> "signatures"]
    /\ op = "ABSENT"
    /\ RequirePilot => PreSendEvidence /\ open = {}
    /\ op' = "APPROVED"
    /\ Commit(s, {"prepare"})
    /\ UNCHANGED <<program, mailbox, evidence, signed, open, elsewhere>>

(* record_system_gate_evidence: a VERIFIED row of gate D, if the programme  *)
(* is active and the mailbox enrolled.                                      *)
RecordSystemGateEvidence(type) ==
    IF program = "ACTIVE" /\ mailbox # "ABSENT"
    THEN \E e \in Rows : /\ evidence[e] = "ABSENT"
                         /\ GateOf[e] = "D"
                         /\ EvidenceType[e] = type
                         /\ evidence' = [evidence EXCEPT ![e] = "VERIFIED"]
    ELSE UNCHANGED evidence

(* execute_external_operation asks the preflight no more.                   *)
Execute(result) ==
    /\ op = "APPROVED"
    /\ op' = result
    /\ IF result = "SUCCEEDED"
       THEN RecordSystemGateEvidence("live_send_verification")
       ELSE UNCHANGED evidence
    /\ CommitAtOnce({"prepare"})
    /\ UNCHANGED <<program, mailbox, signed, open, elsewhere>>

VerifyUnknown(outcome) ==
    /\ op = "UNKNOWN"
    /\ op' = outcome
    /\ IF outcome = "SUCCEEDED"
       THEN RecordSystemGateEvidence("unknown_recovery_drill")
       ELSE UNCHANGED evidence
    /\ CommitAtOnce({"prepare"})
    /\ UNCHANGED <<program, mailbox, signed, open, elsewhere>>

(* A live send that was admitted by another programme of the tenant, or     *)
(* before the setting asked for one, is sent and verified.  Its evidence    *)
(* goes to the active programme that enrolled its mailbox, which may be     *)
(* this one.                                                                *)
SentElsewhere ==
    /\ ~elsewhere
    /\ elsewhere' = TRUE
    /\ \/ \E type \in {"live_send_verification", "unknown_recovery_drill"} :
             RecordSystemGateEvidence(type)
       \/ UNCHANGED evidence
    /\ CommitAtOnce({"prepare"})
    /\ UNCHANGED <<program, mailbox, signed, open, op>>

RollBack(s) == Abandon(s) /\ UNCHANGED pilot

------------------------------------------------------------------------------
Request(s) ==
    \/ \E g \in Gates : \E r \in GATE_REQUIRED_ROLES[g], decision \in {"APPROVE", "REJECT"} :
           BeginAttest(s, g, r, decision)
    \/ \E g \in Gates : Attest(s, g)
    \/ BeginPrepare(s)
    \/ ReadSignatures(s)
    \/ Prepare(s)
    \/ RollBack(s)

AtOnce ==
    \/ \E to \in Targets : TransitionProgram(to)
    \/ \E mode \in Modes : RegisterMailbox(mode)
    \/ \E e \in Submitted : SubmitEvidence(e)
    \/ \E e \in Rows, decision \in {"VERIFIED", "REJECTED"} : VerifyEvidence(e, decision)
    \/ \E i \in Incidents : RecordIncident(i) \/ ResolveIncident(i)
    \/ \E result \in {"SUCCEEDED", "FAILED", "UNKNOWN"} : Execute(result)
    \/ \E outcome \in {"SUCCEEDED", "FAILED"} : VerifyUnknown(outcome)
    \/ SentElsewhere

Next == /\ AtOnce \/ \E s \in Sessions : Request(s)
        /\ opened' = (opened \/ \A g \in DrillGates : Ready(g)')

Spec == Init /\ [][Next]_vars

------------------------------------------------------------------------------
(* Properties                                                               *)

(* "Gate B and Gate C must be ready before the first controlled live-send   *)
(* drill": with the preflight required, however the requests interleave,    *)
(* gate D is not ready in a programme whose B and C have not been ready     *)
(* together before, unless rows changed under the preflight that admitted   *)
(* the send, or a send counts that another programme of the tenant or an    *)
(* earlier setting admitted: evaluate_gate counts the sends of the tenant.  *)
ControlledSendFirst ==
    RequirePilot /\ Ready("D") => opened \/ elsewhere \/ "prepare" \in raced
=============================================================================
