CONSTANTS
    RCU_MAX_CPUS = 2
    Online = {0}
    Writers = {w1, w2}
    Versions = {v1, v2, v3}
    FirstVersion = v1
    MaxNest = 1
    MaxGp = 3
SPECIFICATION FairSpec
INVARIANTS GracePeriod OneDisposer NoneMissed
PROPERTY SynchronizeReturns
CHECK_DEADLOCK FALSE
