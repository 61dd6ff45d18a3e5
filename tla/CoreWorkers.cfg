SPECIFICATION WorkersFairSpec
CONSTANTS
    N = 2
    QueueCapacity = 1
    BacklogLimit = 2
    MaxSent = 4
    MaxOutside = 1
INVARIANTS DeliveredInOrder StoppedMeansQuiet
PROPERTIES BacklogsMove ShutdownEnds
CHECK_DEADLOCK FALSE
