SPECIFICATION FairSpec
CONSTANTS
    Keys = {k1}
    KnownKeys = {k1}
    MaxLookups = 2
PROPERTIES WillPoll
CHECK_DEADLOCK FALSE
