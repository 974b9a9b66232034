\* A self-test with NDJSON output, whose write errors stdio alone knows about.
SPECIFICATION FairSpec
CONSTANTS
    NoEvent = NoEvent
    Capacity = 2
    Rings = {host}
    RingCapacity = 1
    SampleType = {"FILE_OPEN", "PROCESS_EXEC"}
    Binary = FALSE
    SelfTest = TRUE
    SelfTestPolls = 5
    MaxSamples = 2
    MaxHealth = 1
    MaxFaults = 1
INVARIANTS
    CleanExitComplete
    StreamOrder
PROPERTIES
    SelfTestTerminates
