\* Two clients that may come to share an endpoint, a key revoked, messages that are no
\* submissions, a cif-db that comes late, leaves, fails and comes back.
SPECIFICATION FairSpec
CONSTANTS
    Clients = {c1, c2}
    Endpoints = {e1, e2}
    Nobody = Nobody
    MaxStarts = 2
    MaxDbStarts = 2
    MaxSends = 1
    MaxGarbage = 1
    MaxFailures = 1
INVARIANTS TypeOK ReadyIsSubscribed TwiceOnlyIfShared 
PROPERTIES  ReadyGetsConnected
CHECK_DEADLOCK FALSE
