\* The smallest capacity parse_options accepts, with one reserved place.
SPECIFICATION MCFairSpec
CONSTANTS
    Event <- MCEvent
    NoEvent = NoEvent
    Capacity = 8
    MaxDropped = 1
INVARIANTS
    NoLostWakeup
PROPERTIES
    PriorityDropNeedsPriorityBacklog
    RefinesEventQueue
    WriterProgress
