\* Clients ask whenever they like, two of them possibly with the same key.
SPECIFICATION FairSpec
CONSTANTS
    Keys = {k1, k2}
    KnownKeys = {k1}
    MaxLookups = 3
INVARIANTS TypeOK RunThreadSurvives PendingAgreesWithCache
PROPERTIES ImplementsKeyLookup LoopStopsOnlyInCycle 
CHECK_DEADLOCK FALSE
