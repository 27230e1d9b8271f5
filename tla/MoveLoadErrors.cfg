SPECIFICATION FairSpec
CONSTANTS
    s1 = s1
    s2 = s2
    s3 = s3
    r1 = r1
    Servers = {s1, s2, s3}
    Ranges = {r1}
    SplitOff = {}
    Home <- HomeS1
    None = None
    MaxLoads = 3
    MaxOps = 2
    Budget <- LoadErrors
    Timeouts = {"move"}
INVARIANT TypeOK
INVARIANT NoDoubleLoad
INVARIANT NoTwoServingCopies
INVARIANT NoDuplicateMove
INVARIANT MoveOperationIsReferenced
INVARIANT ImmovableMatchesTasks
PROPERTY StickyDestination
PROPERTY HandoverEnds
CHECK_DEADLOCK FALSE
