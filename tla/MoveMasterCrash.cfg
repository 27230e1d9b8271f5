SPECIFICATION Spec
CONSTANTS
    s1 = s1
    s2 = s2
    s3 = s3
    r1 = r1
    Servers = {s1, s2}
    Ranges = {r1}
    SplitOff = {}
    Home <- HomeS1
    None = None
    MaxLoads = 3
    MaxOps = 3
    Budget <- CrashingMaster
    Timeouts = {"ack"}
INVARIANT NoRangeLostOnDisk
CHECK_DEADLOCK FALSE
