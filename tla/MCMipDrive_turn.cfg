SPECIFICATION Spec
CONSTANTS
    VTicks <- FewTicks
    WTicks <- FewTicks
    Angles <- BoundaryAngles
    Distances <- BoundaryDistances
    Speeds <- BoundarySpeeds
    Times <- BoundaryTimes
INVARIANTS
    PositiveIsLeft
