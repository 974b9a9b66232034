\* What the exit status of a self-test says of a failed final flush.
SPECIFICATION Spec
CONSTANTS
    NoEvent = NoEvent
    Capacity = 8
    Rings = {host}
    RingCapacity = 1
    SampleType = {"PROCESS_EXEC"}
    Binary = TRUE
    SelfTest = TRUE
    SelfTestPolls = 5
    MaxSamples = 5
    MaxHealth = 0
    MaxFaults = 1
INVARIANT
    OutputErrorReported
