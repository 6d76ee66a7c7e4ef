SPECIFICATION Spec
CONSTANTS
    Sessions = {s1, s2}
    Decisions = {d1, d2}
    Teams = {t1, t2}
    Requests = {q1}
    MaxCharter = 2
    None = None
SYMMETRY Symmetry
CHECK_DEADLOCK FALSE
INVARIANTS
    TypeOK
    ConfirmedOnce
    CharterBound
PROPERTIES
    ClosedStaysClosed
