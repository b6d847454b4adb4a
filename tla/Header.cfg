SPECIFICATION Spec
CONSTANTS
    Geometries <- MCGeometries
    Memory <- MCMemory
    MaxVersion = 2
    Edited = {"tb", "src", "fpga"}
    MaxEdits = 2
    MaxFlags = 2
    FollowsWorkflow = FALSE
PROPERTY RefreshKeepsSync
