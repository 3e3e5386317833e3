\* Two clients and two keys they may share, records that expire, a cif-db that comes twice,
\* lookups that come to nothing.
SPECIFICATION Spec
CONSTANTS
    Clients = {c1, c2}
    Keys = {k1, k2}
    Records <- OnlyExpiring
    Ports = {1}
    Commands = {"REGISTER", "UNREGISTER"}
    MaxRequests = 3
    MaxDbStarts = 2
    MaxTime = 2
    Lossy = TRUE
SYMMETRY Symmetric
INVARIANTS VerdictsHaveGrounds AnsweredAtMostOnce RegisteredWereAccepted WaitMapsFaithful
CHECK_DEADLOCK FALSE
