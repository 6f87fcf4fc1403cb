SPECIFICATION Spec
CONSTANTS
    Byte = 2
    Low = 1
    Word = 64
    MaxEvents = 2
    Inputs = {0}
    Routes <- Routed
    Emits <- CaptureEmits
    TickSizes = {1, 3}
    Pulses <- PulsesOnT1
    Boots <- SomeBoots
    Rewrites <- SomeRewrites
    MaxTime = 3
    MaxEdges = 3
INVARIANTS
    TypeOK
    NoStaleEvent
    NoEdgeLost
    CaptureExact
    CountExact
PROPERTY
    ImplementsTimeline
