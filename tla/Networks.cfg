SPECIFICATION Spec
CONSTANTS
    Stored = {s1}
    Configured = {g1}
    Busy = {s1}
    s1 = s1
    g1 = g1
    Cap = 1
    MaxRuns = 6
    MaxEvents = 2
    MaxOps = 2
    MaxTrouble = 1
INVARIANTS OneUpstreamSession NoStrayDriver RunsAsStored WriterHasItsRow NoSilentGap NobodyWaitsForEver
CHECK_DEADLOCK FALSE
