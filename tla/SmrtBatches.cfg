\* Three records, of which each may become two; batches of two results or more, or one for all.
SPECIFICATION FairSpec
CONSTANTS
    Records = {r1, r2, r3}
    Workers = {w1, w2}
    MaxYield = 2
    BatchControls = {0, 9}
    Faults = {"submit", "worker"}
INVARIANTS TypeOK TotalIsExact EndsComplete
PROPERTIES ProcessReturns
CHECK_DEADLOCK FALSE
