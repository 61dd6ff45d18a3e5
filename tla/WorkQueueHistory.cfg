SPECIFICATION HFairSpec
CONSTANTS
    Producers = {p1, p2}
    Sizes = {0, 2, 4}
    Capacity = 3
    Adaptive = TRUE
    High = 3
    Low = 1
    MaxEvents = 4
INVARIANTS BoundedByWeight NoLostWakeup DeliveredOrReturned FifoDelivery
PROPERTIES LineDrains SendersGoneIsReported
CHECK_DEADLOCK FALSE
