\* Three commands, THREADS_LIST or PING, two at a time.
SPECIFICATION FairSpec
CONSTANTS
    Keys = {k1}
    Aliases = {a}
    Idents = {t1, t2}
    Commands = {"THREADS_LIST", "PING"}
    MaxRequests = 3
    MaxFailures = 0
    Exclusive = TRUE
PROPERTIES ThreadsShortLived
CHECK_DEADLOCK FALSE
