\* What the final HEALTH event says of a sample lost while shutting down.
SPECIFICATION Spec
CONSTANTS
    NoEvent = NoEvent
    Capacity = 8
    Rings = {host}
    RingCapacity = 2
    SampleType = {"PROCESS_EXEC"}
    Binary = TRUE
    SelfTest = FALSE
    SelfTestPolls = 5
    MaxSamples = 2
    MaxHealth = 0
    MaxFaults = 0
INVARIANT
    EveryLossCounted
