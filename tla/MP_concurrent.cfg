SPECIFICATION Spec
CONSTANTS
    Sessions = {s1, s2}
    a = a
    b = b
    c = c
    Keys = {a, b, c}
    Answers <- MCAnswers
    MaxVersion = 8
    MaxPlans = 2
SYMMETRY Symmetry
CHECK_DEADLOCK FALSE
INVARIANTS
    TypeOK
    PlanAcyclic
    HandOver
    ApprovedAsShown
