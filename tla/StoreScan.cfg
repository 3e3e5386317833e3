\* Three documents about two addresses and one that cannot be packed, batches of two, one stop.
SPECIFICATION FairSpec
CONSTANTS
    addr1 = addr1
    addr2 = addr2
    addr6 = addr6
    Addresses = {addr1, addr2, addr6}
    Unpackable = {addr6}
    Contents <- Mentions
    BatchSize = 2
    MaxLifespan = 1000
    SleepTime = 1
    MaxDocs = 3
    MaxTime = 4
    MaxStops = 1
INVARIANTS TypeOK TimelyIsScanned IndexFresh
  
CHECK_DEADLOCK FALSE
