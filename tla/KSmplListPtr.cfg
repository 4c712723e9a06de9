\* Any element may be given back at any time; len wraps at 16.
CONSTANTS
    NULL = NULL
    LenWidth = 16
    Size = 4
SPECIFICATION Spec
INVARIANTS WellLinked Partition LenCounts WalkMeetsHeld
PROPERTIES ImplementsList IsPool
