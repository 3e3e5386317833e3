\* Two clients sharing a key and every command.
SPECIFICATION FairSpec
CONSTANTS
    Clients = {c1, c2}
    Keys = {k1}
    Records <- OnlyGood
    Ports = {1, 2}
    Commands = {"REGISTER", "UNREGISTER", "LISTCLIENTS", "STATS", "THREADS_LIST", "PING", "IPUBLISH", "FORWARD", "UNUSABLE"}
    MaxRequests = 3
    MaxDbStarts = 1
    MaxTime = 1
    Lossy = FALSE
INVARIANTS TypeOK
PROPERTIES NotedIsAnswered
CHECK_DEADLOCK FALSE
