\* Up to four commands between REGISTER and UNREGISTER, one fault.
SPECIFICATION FairSpec
CONSTANTS
    Commands <- SomeCommands
    Answering = {"cif-db"}
    MaxRequests = 5
    MaxFaults = 1
INVARIANTS TypeOK DiscardedWasHeard
 
CHECK_DEADLOCK FALSE
