SPECIFICATION Spec
CONSTANTS
    Incidents = {i1, i2}
    Days = {1}
    WindowDays = 1
    MaxTime = 4
CHECK_DEADLOCK FALSE
PROPERTY QuietDaysRelease
