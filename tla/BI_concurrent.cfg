SPECIFICATION Spec
CONSTANTS
    Sessions = {s1, s2}
    Subs = {u1, u2}
    Invoiced = {u1}
    PricesInEnv = FALSE
SYMMETRY Symmetry
CHECK_DEADLOCK FALSE
INVARIANTS
    TypeOK
    OneLiveSubscription
    ActivationJustified
    PaymentsAccounted
