\* A report of an address, a report of its network, and a query for the network.
SPECIFICATION Spec
CONSTANTS
    Enum <- DefaultEnum
    Groups <- DefaultGroups
    Secondaries <- TwoSecondaries
    NumServers = 1
    BatchSize = 1
    Documents <- NetworkDocuments
    Queries <- NetworkQueries
    MaxQueries = 1
    MaxIndexings = 1
    MaxDeletes = 0
    MaxFaults = 0
INVARIANTS NetworksComplete
CHECK_DEADLOCK FALSE
