SPECIFICATION Spec
CONSTANTS
    Geometries <- MCGeometries
    Memory <- MCMemory
    MaxVersion = 2
    Edited = {"tb", "src", "fpga"}
    MaxEdits = 3
    MaxFlags = 1
    FollowsWorkflow = TRUE
INVARIANTS
    TypeOK
    GeometryInSync
PROPERTIES
    BitstreamIsCurrent
    RefreshMakesCurrent
