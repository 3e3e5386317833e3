\* The default registry on three servers; four documents and eleven queries, good and bad.
SPECIFICATION Spec
CONSTANTS
    Enum <- DefaultEnum
    Groups <- DefaultGroups
    Secondaries <- TwoSecondaries
    NumServers = 3
    BatchSize = 2
    Documents <- SomeDocuments
    Queries <- SomeQueries
    MaxQueries = 1
    MaxIndexings = 4
    MaxDeletes = 1
    MaxFaults = 1
INVARIANTS TypeOK   TwiceOnlyIfIndexedTwice 
CHECK_DEADLOCK FALSE
