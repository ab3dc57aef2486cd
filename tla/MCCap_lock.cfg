SPECIFICATION Spec
CONSTANTS
    Objects <- MCObjects
    TypeCode <- MCTypeCode
    RightSet <- MCRights
    FlagRights <- MCFlagRights
    L1Size = 2
    L2Span = 1
    Quota = 2
    WordSize = 4
    Procs = {p1, p2}
    NoProc = NoProc
    MaxId = 2
    Minted <- MCMinted
    Shared <- MCShared
INVARIANT NoLockCycle
CHECK_DEADLOCK FALSE
SYMMETRY ProcSymmetry
