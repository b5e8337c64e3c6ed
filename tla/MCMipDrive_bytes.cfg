SPECIFICATION Spec
CONSTANTS
    VTicks <- BoundaryTicks
    WTicks <- BoundaryTicks
    Angles <- BoundaryAngles
    Distances <- BoundaryDistances
    Speeds <- BoundarySpeeds
    Times <- BoundaryTimes
INVARIANTS
    TypeOK
    SpeedAsAsked
    TurnKept
PROPERTIES
    BrakesToSlow
