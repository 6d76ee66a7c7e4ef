SPECIFICATION Spec
CONSTANTS
    Sessions = {s1, s2}
    Gates <- MCKeys
    GATE_EVIDENCE_REQUIREMENTS <- MCRequirements
    GATE_REQUIRED_ROLES <- MCRoles
    Rows <- MCRows
    Submitted = {"sync", "drill"}
    GateOf <- MCGateOf
    EvidenceType <- MCEvidenceType
    Incidents = {i1}
    Modes = {"LIVE_SEND"}
    Targets = {"ACTIVE", "PAUSED"}
    RequirePilot = TRUE
SYMMETRY Symmetry
INVARIANTS
    TypeOK
    ControlledSendFirst
