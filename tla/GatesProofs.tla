----------------------------- MODULE GatesProofs -----------------------------
(***************************************************************************)
(* Proofs about Gates, for any set of gates with any evidence requirements *)
(* and signing roles, and any number of sessions, evidence rows and        *)
(* incidents.                                                              *)
(***************************************************************************)
EXTENDS Gates, UnitOfWorkProofs

(* What a request in flight is known to hold, late or not: it signs for a   *)
(* role of its gate, and a row that was signed when it was loaded is signed *)
(* still.                                                                   *)
Holds(t) ==
    t.handler \in Gates =>
        /\ t.role \in GATE_REQUIRED_ROLES[t.handler]
        /\ t.loaded # Unsigned => signed[t.handler][t.role] \in Signature

TypeInv == TypeOK /\ \A s \in Sessions : Holds(txn[s])

(* A preflight in flight that is not late finds what it has read unchanged; *)
(* once it has read the signatures the gates have been ready together.      *)
PreflightCurrent(t) ==
    t.handler = "prepare" =>
        /\ t.at = "evidence" => \A g \in DrillGates : EvidenceReady(g)
        /\ t.at = "signatures" => opened

PreflightInv ==
    /\ op # "ABSENT" => opened \/ "prepare" \in raced
    /\ \A s \in Sessions : s \in late \/ PreflightCurrent(txn[s])

(* What is claimed while the setting asks for the preflight.                *)
ControlInv == RequirePilot => PreflightInv

------------------------------------------------------------------------------
(* Type correctness                                                         *)

(* The attestation table, one row for each gate and role.                   *)
SignedOK == /\ DOMAIN signed = Gates
            /\ \A g \in Gates : signed[g] \in [GATE_REQUIRED_ROLES[g] -> AttestationRow]

(* The type invariant, with the units of work and the signatures set apart. *)
LEMMA TypeUnits ==
    TypeOK <=> /\ program \in ProgramStatus
               /\ mailbox \in MailboxMode
               /\ evidence \in [Rows -> EvidenceStatus]
               /\ SignedOK
               /\ open \subseteq Incidents
               /\ op \in OpStatus
               /\ elsewhere \in BOOLEAN
               /\ opened \in BOOLEAN
               /\ Units(Txn)
  BY DEF TypeOK, SignedOK, Units

(* The fields of a request, by its handler; no gate has a handler's name.   *)
LEMMA TxnFields ==
    ASSUME NEW t \in Txn
    PROVE  /\ t # Idle
           /\ t.handler \in Gates \cup {"prepare"}
           /\ t.handler \in Gates => /\ t.loaded \in AttestationRow
                                     /\ t.new \in Signature
           /\ t.handler = "prepare" => t.at \in {"evidence", "signatures"}
  <1>1. "prepare" \notin Gates /\ "idle" \notin Gates
    BY GatesAssumption
  <1> QED  BY <1>1 DEF Txn, Idle

(* The request that a session with this handler has in flight.              *)
LEMMA InHand ==
    ASSUME TypeInv, NEW s \in Sessions, txn[s].handler # "idle"
    PROVE  txn[s] \in Txn /\ Holds(txn[s])
  BY IdleHandler DEF TypeInv, TypeOK

(* Nothing is held by a session without a request.                          *)
LEMMA IdleHolds == "idle" \notin Gates /\ "prepare" \notin Gates
  BY GatesAssumption

(* What a request holds it keeps while signed rows stay signed.             *)
LEMMA HoldsKept ==
    ASSUME TypeInv, NEW u \in Sessions, txn'[u] = txn[u] \/ txn'[u] = Idle,
           \A g \in Gates : \A r \in GATE_REQUIRED_ROLES[g] :
               signed[g][r] \in Signature => signed'[g][r] \in Signature
    PROVE  Holds(txn[u])'
  <1>1. CASE txn'[u] = Idle
    BY <1>1, IdleHandler, IdleHolds DEF Holds
  <1>2. CASE txn'[u] = txn[u]
    <2>1. PICK t \in Txn \cup {Idle} : t = txn[u]
      BY DEF TypeInv, TypeOK
    <2>2. Holds(t)
      BY <2>1 DEF TypeInv
    <2>3. Holds(t)'
      BY <2>2 DEF Holds
    <2> QED  BY <2>1, <2>3, <1>2
  <1> QED  BY <1>1, <1>2

(* The tables at the start.                                                 *)
LEMMA TypeInit == Init => TypeInv
  <1> SUFFICES ASSUME Init PROVE TypeInv  OBVIOUS
  <1>1. Units(Txn) /\ \A s \in Sessions : txn[s] = Idle
    BY UnitsStart DEF Init
  <1>2. Unsigned \in AttestationRow
    BY DEF AttestationRow
  <1>3. SignedOK
    BY <1>2 DEF Init, SignedOK
  <1>4. TypeOK
    BY <1>1, <1>3, TypeUnits
    DEF Init, ProgramStatus, MailboxMode, EvidenceStatus, OpStatus
  <1> QED  BY <1>1, <1>4, IdleHandler, IdleHolds DEF TypeInv, Holds

(* A step that gives no session a new request and keeps the signed rows     *)
(* signed.                                                                  *)
LEMMA TypeSettles ==
    ASSUME TypeInv, Settles(Txn),
           program' \in ProgramStatus, mailbox' \in MailboxMode,
           evidence' \in [Rows -> EvidenceStatus], SignedOK', open' \subseteq Incidents,
           op' \in OpStatus, elsewhere' \in BOOLEAN, opened' \in BOOLEAN,
           \A g \in Gates : \A r \in GATE_REQUIRED_ROLES[g] :
               signed[g][r] \in Signature => signed'[g][r] \in Signature
    PROVE  TypeInv'
  <1>1. Units(Txn)' /\ \A u \in Sessions : txn'[u] = txn[u] \/ txn'[u] = Idle
    BY DEF Settles
  <1>2. TypeOK'
    BY <1>1, TypeUnits DEF TypeOK, SignedOK, Units
  <1>3. \A u \in Sessions : Holds(txn[u])'
    BY <1>1, HoldsKept
  <1> QED  BY <1>2, <1>3 DEF TypeInv

(* A step in which one session's request becomes t and nothing is written.  *)
LEMMA TypeMoves ==
    ASSUME TypeInv, NEW s \in Sessions, NEW t \in Txn, Holds(t), Units(Txn)',
           txn'[s] = t, \A u \in Sessions : u # s => txn'[u] = txn[u],
           UNCHANGED pilot, opened' \in BOOLEAN
    PROVE  TypeInv'
  <1>1. UNCHANGED <<program, mailbox, evidence, signed, open, op, elsewhere>>
    BY DEF pilot
  <1>2. TypeOK'
    BY <1>1, TypeUnits DEF TypeInv, TypeOK, SignedOK, Units
  <1>3. \A u \in Sessions : Holds(txn[u])'
    <2> SUFFICES ASSUME NEW u \in Sessions PROVE Holds(txn[u])'  OBVIOUS
    <2>1. CASE u = s
      BY <2>1, <1>1 DEF Holds
    <2>2. CASE u # s
      BY <2>2, <1>1, HoldsKept
    <2> QED  BY <2>1, <2>2
  <1> QED  BY <1>2, <1>3 DEF TypeInv

(* A signature in flight: for the evidence that is verified now, on the row *)
(* as it is.                                                                *)
LEMMA AttestLoads ==
    ASSUME TypeInv, NEW s \in Sessions, NEW g \in Gates, NEW r \in GATE_REQUIRED_ROLES[g],
           NEW decision \in {"APPROVE", "REJECT"}, BeginAttest(s, g, r, decision)
    PROVE  \E t \in Txn : /\ Load(s, t) /\ Holds(t)
                          /\ t.handler = g
  <1> DEFINE t == [handler |-> g, role |-> r, loaded |-> signed[g][r],
                   new |-> [decision |-> decision, snapshot |-> EvidenceSnapshot(g)]]
  <1>1. signed[g][r] \in AttestationRow
    BY DEF TypeInv, TypeOK
  <1>2. [decision |-> decision, snapshot |-> EvidenceSnapshot(g)] \in Signature
    BY DEF Signature, EvidenceSnapshot
  <1>3. r \in UNION {GATE_REQUIRED_ROLES[h] : h \in Gates}
    OBVIOUS
  <1>4. t \in Txn
    BY <1>1, <1>2, <1>3 DEF Txn
  <1>5. Holds(t)
    BY <1>1 DEF Holds, AttestationRow
  <1>6. Load(s, t)
    BY DEF BeginAttest
  <1> QED  BY <1>4, <1>5, <1>6

(* What a signature stores: a signature, in the row of its role.            *)
LEMMA AttestWrites ==
    ASSUME TypeInv, NEW s \in Sessions, NEW g \in Gates, Attest(s, g)
    PROVE  /\ SignedOK'
           /\ \A h \in Gates : \A r \in GATE_REQUIRED_ROLES[h] :
                signed[h][r] \in Signature => signed'[h][r] \in Signature
  <1>1. PICK t \in Txn : t = txn[s] /\ t.handler = g /\ Holds(t)
    BY InHand, IdleHolds DEF Attest
  <1>2. /\ t.role \in GATE_REQUIRED_ROLES[g]
        /\ t.loaded # Unsigned => signed[g][t.role] \in Signature
        /\ t.loaded \in AttestationRow /\ t.new \in Signature
    BY <1>1, TxnFields DEF Holds
  <1> DEFINE new == Attested(signed[g][t.role], t)
  <1>3. signed' = [signed EXCEPT ![g][t.role] = new]
    BY <1>1 DEF Attest
  <1>4. new \in Signature
    <2>1. CASE t.loaded = Unsigned
      BY <1>2, <2>1 DEF Attested
    <2>2. CASE t.loaded # Unsigned
      BY <1>2, <2>2 DEF Attested, Column, Signature, AttestationRow
    <2> QED  BY <2>1, <2>2
  <1> HIDE DEF new
  <1>5. SignedOK
    BY DEF TypeInv, TypeOK, SignedOK
  <1>6. /\ DOMAIN signed' = Gates
        /\ signed'[g] = [signed[g] EXCEPT ![t.role] = new]
        /\ \A h \in Gates : h # g => signed'[h] = signed[h]
    BY <1>3, <1>5 DEF SignedOK
  <1>7. signed'[g] \in [GATE_REQUIRED_ROLES[g] -> AttestationRow]
    BY <1>2, <1>4, <1>5, <1>6 DEF SignedOK, AttestationRow
  <1>8. /\ signed'[g][t.role] = new
        /\ \A r \in GATE_REQUIRED_ROLES[g] : r # t.role => signed'[g][r] = signed[g][r]
    BY <1>2, <1>5, <1>6 DEF SignedOK
  <1> QED  BY <1>4, <1>5, <1>6, <1>7, <1>8 DEF SignedOK

(* The steps that are one statement, or whose interleaving does not matter. *)
LEMMA AtOnceWrites ==
    ASSUME TypeInv, AtOnce
    PROVE  /\ program' \in ProgramStatus /\ mailbox' \in MailboxMode
           /\ evidence' \in [Rows -> EvidenceStatus]
           /\ signed' = signed
           /\ open' \subseteq Incidents /\ op' \in OpStatus /\ elsewhere' \in BOOLEAN
           /\ op' # "ABSENT" => op # "ABSENT"
           /\ \/ CommitAtOnce({"prepare"})
              \/ UNCHANGED uow /\ \A g \in Gates : EvidenceSnapshot(g)' = EvidenceSnapshot(g)
  <1> DEFINE Goal ==
           /\ program' \in ProgramStatus /\ mailbox' \in MailboxMode
           /\ evidence' \in [Rows -> EvidenceStatus]
           /\ signed' = signed
           /\ open' \subseteq Incidents /\ op' \in OpStatus /\ elsewhere' \in BOOLEAN
           /\ op' # "ABSENT" => op # "ABSENT"
           /\ \/ CommitAtOnce({"prepare"})
              \/ UNCHANGED uow /\ \A g \in Gates : EvidenceSnapshot(g)' = EvidenceSnapshot(g)
  <1>0. /\ program \in ProgramStatus /\ mailbox \in MailboxMode
        /\ evidence \in [Rows -> EvidenceStatus]
        /\ open \subseteq Incidents /\ op \in OpStatus /\ elsewhere \in BOOLEAN
    BY DEF TypeInv, TypeOK
  <1>1. ASSUME NEW to \in Targets, TransitionProgram(to) PROVE Goal
    BY <1>0, <1>1, GatesAssumption DEF TransitionProgram, ProgramStatus
  <1>2. ASSUME NEW mode \in Modes, RegisterMailbox(mode) PROVE Goal
    BY <1>0, <1>2 DEF RegisterMailbox, MailboxMode
  <1>3. ASSUME NEW e \in Submitted, SubmitEvidence(e) PROVE Goal
    <2>1. e \in Rows
      BY GatesAssumption
    <2>2. evidence' \in [Rows -> EvidenceStatus]
      BY <1>0, <1>3, <2>1 DEF SubmitEvidence, EvidenceStatus
    <2>3. \A g \in Gates : EvidenceSnapshot(g)' = EvidenceSnapshot(g)
      BY <1>0, <1>3, <2>1 DEF SubmitEvidence, EvidenceSnapshot
    <2> QED  BY <1>0, <1>3, <2>2, <2>3 DEF SubmitEvidence
  <1>4. ASSUME NEW e \in Rows, NEW decision \in {"VERIFIED", "REJECTED"},
               VerifyEvidence(e, decision)
        PROVE  Goal
    BY <1>0, <1>4 DEF VerifyEvidence, EvidenceStatus
  <1>5. ASSUME NEW i \in Incidents, RecordIncident(i) \/ ResolveIncident(i) PROVE Goal
    BY <1>0, <1>5 DEF RecordIncident, ResolveIncident
  <1>6. ASSUME NEW type, RecordSystemGateEvidence(type)
        PROVE  evidence' \in [Rows -> EvidenceStatus]
    BY <1>0, <1>6 DEF RecordSystemGateEvidence, EvidenceStatus
  <1>7. ASSUME NEW result \in {"SUCCEEDED", "FAILED", "UNKNOWN"}, Execute(result) PROVE Goal
    BY <1>0, <1>6, <1>7 DEF Execute, OpStatus
  <1>8. ASSUME NEW outcome \in {"SUCCEEDED", "FAILED"}, VerifyUnknown(outcome) PROVE Goal
    BY <1>0, <1>6, <1>8 DEF VerifyUnknown, OpStatus
  <1>9. CASE SentElsewhere
    BY <1>0, <1>6, <1>9 DEF SentElsewhere
  <1>10. Goal
    BY <1>1, <1>2, <1>3, <1>4, <1>5, <1>7, <1>8, <1>9 DEF AtOnce
  <1> QED  BY <1>10

(* Every step keeps the types.                                              *)
LEMMA TypeNext == ASSUME TypeInv, [Next]_vars PROVE TypeInv'
  <1>0. Units(Txn)
    BY TypeUnits DEF TypeInv
  <1>1. CASE UNCHANGED vars
    <2>1. Settles(Txn)
      BY <1>0, <1>1, Settled DEF vars
    <2> QED  BY <1>1, <2>1, TypeSettles, TypeUnits DEF vars, TypeInv, TypeOK, SignedOK
  <1>2. CASE Next
    <2>0. opened' \in BOOLEAN
      BY <1>2 DEF Next
    <2>1. CASE AtOnce
      <3>1. Settles(Txn)
        BY <1>0, <2>1, AtOnceWrites, Settled
      <3>2. SignedOK'
        BY <2>1, AtOnceWrites DEF TypeInv, TypeOK, SignedOK
      <3>3. TypeInv'
        BY <2>0, <2>1, <3>1, <3>2, AtOnceWrites, TypeSettles
      <3> QED  BY <3>3
    <2>2. ASSUME NEW s \in Sessions, NEW g \in Gates, NEW r \in GATE_REQUIRED_ROLES[g],
                 NEW decision \in {"APPROVE", "REJECT"}, BeginAttest(s, g, r, decision)
          PROVE  TypeInv'
      <3>1. PICK t \in Txn : Load(s, t) /\ Holds(t)
        BY <2>2, AttestLoads
      <3>2. /\ Units(Txn)' /\ txn'[s] = t
            /\ \A u \in Sessions : u # s => txn'[u] = txn[u]
        BY <1>0, <3>1, LoadUnits, TxnFields
      <3> QED  BY <2>0, <2>2, <3>1, <3>2, TypeMoves DEF BeginAttest
    <2>3. ASSUME NEW s \in Sessions, NEW g \in Gates, Attest(s, g) PROVE TypeInv'
      <3>1. Settles(Txn)
        BY <1>0, <2>3, Settled DEF Attest
      <3>2. /\ SignedOK'
            /\ \A h \in Gates : \A r \in GATE_REQUIRED_ROLES[h] :
                 signed[h][r] \in Signature => signed'[h][r] \in Signature
        BY <2>3, AttestWrites
      <3>3. UNCHANGED <<program, mailbox, evidence, open, op, elsewhere>>
        BY <2>3 DEF Attest
      <3> QED  BY <2>0, <3>1, <3>2, <3>3, TypeSettles DEF TypeInv, TypeOK
    <2>4. ASSUME NEW s \in Sessions, BeginPrepare(s) PROVE TypeInv'
      <3> DEFINE t == [handler |-> "prepare",
                       at |-> IF RequirePilot THEN "evidence" ELSE "signatures"]
      <3>1. t \in Txn /\ Holds(t) /\ t # Idle
        BY IdleHolds DEF Txn, Holds, Idle
      <3>2. Load(s, t)
        BY <2>4 DEF BeginPrepare
      <3>3. /\ Units(Txn)' /\ txn'[s] = t
            /\ \A u \in Sessions : u # s => txn'[u] = txn[u]
        BY <1>0, <3>1, <3>2, LoadUnits
      <3> QED  BY <2>0, <2>4, <3>1, <3>3, TypeMoves DEF BeginPrepare
    <2>5. ASSUME NEW s \in Sessions, ReadSignatures(s) PROVE TypeInv'
      <3> DEFINE t == [handler |-> "prepare", at |-> "signatures"]
      <3>1. t \in Txn /\ Holds(t) /\ t # Idle
        BY IdleHolds DEF Txn, Holds, Idle
      <3>2. txn'[s] = t /\ \A u \in Sessions : u # s => txn'[u] = txn[u]
        BY <2>5 DEF ReadSignatures, TypeInv, TypeOK
      <3>3. txn' \in [Sessions -> Txn \cup {Idle}]
        BY <1>0, <2>5, <3>1, <3>2 DEF ReadSignatures, Units
      <3>4. Units(Txn)'
        BY <1>0, <2>5, <3>1, <3>2, <3>3 DEF ReadSignatures, Units, UnitsOK, InFlight
      <3> QED  BY <2>0, <2>5, <3>1, <3>2, <3>4, TypeMoves DEF ReadSignatures
    <2>6. ASSUME NEW s \in Sessions, Prepare(s) PROVE TypeInv'
      <3>1. Settles(Txn)
        BY <1>0, <2>6, Settled DEF Prepare
      <3>2. /\ op' \in OpStatus
            /\ UNCHANGED <<program, mailbox, evidence, signed, open, elsewhere>>
        BY <2>6 DEF Prepare, OpStatus
      <3> QED  BY <2>0, <3>1, <3>2, TypeSettles DEF TypeInv, TypeOK, SignedOK
    <2>7. ASSUME NEW s \in Sessions, RollBack(s) PROVE TypeInv'
      <3>1. Settles(Txn)
        BY <1>0, <2>7, Settled DEF RollBack
      <3>2. UNCHANGED <<program, mailbox, evidence, signed, open, op, elsewhere>>
        BY <2>7 DEF RollBack, pilot
      <3> QED  BY <2>0, <3>1, <3>2, TypeSettles DEF TypeInv, TypeOK, SignedOK
    <2> QED  BY <1>2, <2>1, <2>2, <2>3, <2>4, <2>5, <2>6, <2>7 DEF Next, Request
  <1> QED  BY <1>1, <1>2

(* The type invariant, with what it rests on.                               *)
LEMMA TypeAlways == Spec => []TypeInv
  BY TypeInit, TypeNext, PTL DEF Spec

(* Every row of the programme, mailbox, evidence, attestation and incident  *)
(* tables keeps its type; no two overlapping signatures of a role mix into  *)
(* something that is no signature.                                          *)
THEOREM TypeCorrect == Spec => []TypeOK
  <1>1. TypeInv => TypeOK
    BY DEF TypeInv
  <1> QED  BY <1>1, TypeAlways, PTL

------------------------------------------------------------------------------
(* The controlled live send                                                 *)

(* A gate's evidence is ready as long as the same rows are verified.        *)
LEMMA SameSnapshot ==
    ASSUME \A g \in Gates : EvidenceSnapshot(g)' = EvidenceSnapshot(g)
    PROVE  \A g \in DrillGates : EvidenceReady(g)' <=> EvidenceReady(g)
  BY DEF DrillGates, EvidenceReady, VerifiedTypes

(* A step that gives no session a new request and prepares nothing: the     *)
(* preflights in flight are late or have nothing to notice.                 *)
LEMMA PreflightSettles ==
    ASSUME PreflightInv, Settles(Txn), opened => opened', op' # "ABSENT" => op # "ABSENT",
           \/ \A g \in Gates : EvidenceSnapshot(g)' = EvidenceSnapshot(g)
           \/ \A u \in Sessions : txn[u].handler = "prepare" => u \in late' \/ txn'[u] = Idle
    PROVE  PreflightInv'
  <1>1. op' # "ABSENT" => opened' \/ "prepare" \in raced'
    BY DEF PreflightInv, Settles
  <1>2. ASSUME NEW s \in Sessions PROVE s \in late' \/ PreflightCurrent(txn[s])'
    <2>1. CASE txn'[s] = Idle
      BY <2>1, IdleHandler DEF PreflightCurrent
    <2>2. CASE txn'[s] = txn[s] /\ (s \in late => s \in late')
      <3>1. s \in late \/ PreflightCurrent(txn[s])
        BY DEF PreflightInv
      <3>2. CASE \A g \in Gates : EvidenceSnapshot(g)' = EvidenceSnapshot(g)
        BY <2>2, <3>1, <3>2, SameSnapshot DEF PreflightCurrent, DrillGates
      <3>3. CASE txn[s].handler = "prepare" => s \in late' \/ txn'[s] = Idle
        BY <2>2, <3>3, IdleHandler DEF PreflightCurrent
      <3> QED  BY <3>2, <3>3
    <2> QED  BY <2>1, <2>2 DEF Settles
  <1> QED  BY <1>1, <1>2 DEF PreflightInv

(* A step in which one session's request becomes t and nothing is written.  *)
LEMMA PreflightMoves ==
    ASSUME PreflightInv, UNCHANGED pilot, late' = late, raced' = raced, opened => opened',
           NEW s \in Sessions, \A u \in Sessions : u # s => txn'[u] = txn[u],
           s \in late \/ PreflightCurrent(txn[s])'
    PROVE  PreflightInv'
  <1>1. op' = op /\ \A g \in Gates : EvidenceSnapshot(g)' = EvidenceSnapshot(g)
    BY DEF pilot, EvidenceSnapshot
  <1>2. ASSUME NEW u \in Sessions, u # s PROVE u \in late' \/ PreflightCurrent(txn[u])'
    BY <1>1, <1>2, SameSnapshot DEF PreflightInv, PreflightCurrent, DrillGates
  <1> QED  BY <1>1, <1>2 DEF PreflightInv

(* Every step keeps it.                                                     *)
LEMMA PreflightNext ==
    ASSUME RequirePilot, TypeInv, PreflightInv, [Next]_vars PROVE PreflightInv'
  <1>0. Units(Txn)
    BY TypeUnits DEF TypeInv
  <1>1. CASE UNCHANGED vars
    <2>1. Settles(Txn)
      BY <1>0, <1>1, Settled DEF vars
    <2>2. \A g \in Gates : EvidenceSnapshot(g)' = EvidenceSnapshot(g)
      BY <1>1 DEF vars, EvidenceSnapshot
    <2> QED  BY <1>1, <2>1, <2>2, PreflightSettles DEF vars
  <1>2. CASE Next
    <2>0. opened' = (opened \/ \A g \in DrillGates : Ready(g)')
      BY <1>2 DEF Next
    <2>1. CASE AtOnce
      <3>1. Settles(Txn)
        BY <1>0, <2>1, AtOnceWrites, Settled
      <3>2. \/ \A g \in Gates : EvidenceSnapshot(g)' = EvidenceSnapshot(g)
            \/ \A u \in Sessions : txn[u].handler = "prepare" => u \in late' \/ txn'[u] = Idle
        <4>1. CASE CommitAtOnce({"prepare"})
          BY <1>0, <4>1, AtOnceUnits, IdleHandler
        <4> QED  BY <2>1, <4>1, AtOnceWrites
      <3>3. op' # "ABSENT" => op # "ABSENT"
        BY <2>1, AtOnceWrites
      <3> QED  BY <2>0, <3>1, <3>2, <3>3, PreflightSettles
    <2>2. ASSUME NEW s \in Sessions, NEW g \in Gates, NEW r \in GATE_REQUIRED_ROLES[g],
                 NEW decision \in {"APPROVE", "REJECT"}, BeginAttest(s, g, r, decision)
          PROVE  PreflightInv'
      <3>1. PICK t \in Txn : Load(s, t) /\ t.handler = g
        BY <2>2, AttestLoads
      <3>2. /\ txn'[s] = t /\ late' = late /\ raced' = raced
            /\ \A u \in Sessions : u # s => txn'[u] = txn[u]
        BY <1>0, <3>1, LoadUnits, TxnFields
      <3>3. PreflightCurrent(txn[s])'
        BY <3>1, <3>2, IdleHolds DEF PreflightCurrent
      <3> QED  BY <2>0, <2>2, <3>2, <3>3, PreflightMoves DEF BeginAttest
    <2>3. ASSUME NEW s \in Sessions, BeginPrepare(s) PROVE PreflightInv'
      <3> DEFINE t == [handler |-> "prepare", at |-> "evidence"]
      <3>1. /\ txn'[s] = t /\ late' = late /\ raced' = raced
            /\ \A u \in Sessions : u # s => txn'[u] = txn[u]
        BY <1>0, <2>3 DEF BeginPrepare, Load, Units
      <3>2. \A g \in Gates : EvidenceSnapshot(g)' = EvidenceSnapshot(g)
        BY <2>3 DEF BeginPrepare, pilot, EvidenceSnapshot
      <3>3. \A g \in DrillGates : EvidenceReady(g)'
        BY <2>3, <3>2, SameSnapshot DEF BeginPrepare
      <3>4. PreflightCurrent(txn[s])'
        BY <3>1, <3>3 DEF PreflightCurrent, DrillGates
      <3> QED  BY <2>0, <2>3, <3>1, <3>4, PreflightMoves DEF BeginPrepare
    <2>4. ASSUME NEW s \in Sessions, ReadSignatures(s) PROVE PreflightInv'
      <3>1. /\ txn[s] = [handler |-> "prepare", at |-> "evidence"]
            /\ txn'[s] = [handler |-> "prepare", at |-> "signatures"]
            /\ late' = late /\ raced' = raced
            /\ \A u \in Sessions : u # s => txn'[u] = txn[u]
        BY <1>0, <2>4 DEF ReadSignatures, Units
      <3>2. ASSUME s \notin late PROVE opened'
        <4>1. \A g \in DrillGates : EvidenceReady(g)
          BY <3>1, <3>2 DEF PreflightInv, PreflightCurrent
        <4>2. \A g \in DrillGates : GateReady(g)
          BY <2>4, <4>1 DEF ReadSignatures, Signatures, GateReady
        <4>3. \A g \in DrillGates : Ready(g)
          BY <4>2 DEF Ready, DrillGates
        <4>4. \A g \in DrillGates : Ready(g)'
          BY <2>4, <4>3 DEF ReadSignatures, pilot, Ready, GateReady, EvidenceReady, VerifiedTypes,
                            EvidenceSnapshot, AutomaticReady, AttestationReady
        <4> QED  BY <2>0, <4>4
      <3>3. s \in late \/ PreflightCurrent(txn[s])'
        BY <3>1, <3>2 DEF PreflightCurrent
      <3> QED  BY <2>0, <2>4, <3>1, <3>3, PreflightMoves DEF ReadSignatures
    <2>5. ASSUME NEW s \in Sessions, NEW g \in Gates, Attest(s, g) PROVE PreflightInv'
      <3>1. Settles(Txn)
        BY <1>0, <2>5, Settled DEF Attest
      <3>2. op' = op /\ \A h \in Gates : EvidenceSnapshot(h)' = EvidenceSnapshot(h)
        BY <2>5 DEF Attest, EvidenceSnapshot
      <3> QED  BY <2>0, <3>1, <3>2, PreflightSettles
    <2>6. ASSUME NEW s \in Sessions, RollBack(s) PROVE PreflightInv'
      <3>1. Settles(Txn)
        BY <1>0, <2>6, Settled DEF RollBack
      <3>2. op' = op /\ \A h \in Gates : EvidenceSnapshot(h)' = EvidenceSnapshot(h)
        BY <2>6 DEF RollBack, pilot, EvidenceSnapshot
      <3> QED  BY <2>0, <3>1, <3>2, PreflightSettles
    <2>7. ASSUME NEW s \in Sessions, Prepare(s) PROVE PreflightInv'
      <3>1. txn[s] = [handler |-> "prepare", at |-> "signatures"] /\ Commit(s, {"prepare"})
        BY <2>7 DEF Prepare
      <3>2. /\ txn'[s] = Idle
            /\ \A u \in Sessions : u # s => txn'[u] = txn[u]
            /\ \A u \in Sessions : u # s /\ txn[u] # Idle /\ txn[u].handler \in {"prepare"}
                                     => u \in late'
            /\ txn[s].handler \notin raced' => s \notin late
        BY <1>0, <3>1, CommitUnits
      <3>3. "prepare" \notin raced' => opened'
        <4>1. txn[s].handler = "prepare" /\ txn[s].at = "signatures"
          BY <3>1
        <4>2. "prepare" \notin raced' => opened
          BY <3>2, <4>1 DEF PreflightInv, PreflightCurrent
        <4> QED  BY <2>0, <4>2
      <3>4. ASSUME NEW u \in Sessions PROVE u \in late' \/ PreflightCurrent(txn[u])'
        BY <3>2, IdleHandler DEF PreflightCurrent
      <3> QED  BY <3>3, <3>4 DEF PreflightInv
    <2> QED  BY <1>2, <2>1, <2>2, <2>3, <2>4, <2>5, <2>6, <2>7 DEF Next, Request
  <1> QED  BY <1>1, <1>2

(* While the setting asks for live_send_pilot_preflight, gate D is not      *)
(* ready in a programme whose gates B and C have not been ready together,   *)
(* unless rows changed under the preflight that admitted the send or the    *)
(* tenant has a verified send that this preflight did not admit; for any    *)
(* gates, requirements and roles.                                           *)
THEOREM SendIsControlled == Spec => []ControlledSendFirst
  <1>1. Init => ControlInv
    <2> SUFFICES ASSUME Init PROVE PreflightInv  BY DEF ControlInv
    <2>1. \A s \in Sessions : txn[s] = Idle
      BY UnitsStart DEF Init
    <2> QED  BY <2>1, IdleHandler DEF Init, PreflightInv, PreflightCurrent
  <1>2. ControlInv => ControlledSendFirst
    BY DEF ControlInv, PreflightInv, ControlledSendFirst, Ready, GateReady, AutomaticReady
  <1>3. ASSUME TypeInv, ControlInv, [Next]_vars PROVE ControlInv'
    BY <1>3, PreflightNext DEF ControlInv
  <1> QED  BY <1>1, <1>2, <1>3, TypeAlways, PTL DEF Spec

=============================================================================
