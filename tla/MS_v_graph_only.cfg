SPECIFICATION FairSpec
CONSTANTS
    Sessions = {s1}
    MaxChanges = 2
    Numbered = {}
    GmailTopic = FALSE
CHECK_DEADLOCK FALSE
PROPERTIES
    PendingIsSynchronised
