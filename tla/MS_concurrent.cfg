SPECIFICATION Spec
CONSTANTS
    Sessions = {s1, s2}
    MaxChanges = 2
    Numbered = {1, 2}
    GmailTopic = TRUE
SYMMETRY Symmetry
CHECK_DEADLOCK FALSE
INVARIANTS
    TypeOK
    WakeUpKept
    NeverBehindCursor
