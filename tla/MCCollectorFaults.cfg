\* A sink that fails up to twice, two ring buffers, binary output.
SPECIFICATION FairSpec
CONSTANTS
    NoEvent = NoEvent
    Capacity = 2
    Rings = {host, network}
    RingCapacity = 1
    SampleType = {"FILE_OPEN", "UNSPEC"}
    Binary = TRUE
    SelfTest = FALSE
    SelfTestPolls = 5
    MaxSamples = 2
    MaxHealth = 1
    MaxFaults = 2
INVARIANTS
    OneFate
    AtMostOneRefused
    FailureNeedsFault
PROPERTIES
    Terminates
