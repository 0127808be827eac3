SPECIFICATION Spec
CONSTANTS
    Start = 1
    Size = 13
    ChunkSize = 2
    Layouts <- SmallLayouts
INVARIANTS Tiled HeadersFit
