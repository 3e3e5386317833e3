\* Three commands, two at a time, on two keys that share an alias; two HBase calls raise.
SPECIFICATION Spec
CONSTANTS
    Keys = {k1, k2}
    Aliases = {a}
    Idents = {t1, t2}
    Commands = {"APIKEY_ADD", "APIKEY_UPDATE", "APIKEY_DEL", "APIKEY_LIST", "THREADS_LIST"}
    MaxRequests = 3
    MaxFailures = 2
    Exclusive = TRUE
SYMMETRY Symmetric
INVARIANTS TypeOK  LockLeftByListersOnly 
PROPERTIES AddAllOrNothing
CHECK_DEADLOCK FALSE
