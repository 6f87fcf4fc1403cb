SPECIFICATION Spec
CONSTANTS
    MaxEvents = 3
    MaxEdges = 5
INVARIANT
    EdgeConservation
