CONSTANTS
    SeqNumbers = 6
    MaxBuffered = 2
    Stored = 1
    SlotCount = 2
    PrunedPerOffer = 1
    RestartThreshold = 2
    RestartGap = 2
    QueueCapacity = 1
    Headroom = 2
    BacklogMargin = 0
SPECIFICATION ReceiverSpec
INVARIANTS ReceiverTypeOK PoolNeverExhausted HeldAhead NoLostWakeup
CHECK_DEADLOCK FALSE
