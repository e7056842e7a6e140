SPECIFICATION SpecChunker
CONSTANTS
    MaxLen = 7
    Sizes <- MCSizes
    Overlaps <- MCOverlaps
INVARIANTS NoTextLost ChunksFit
PROPERTIES Advances
CHECK_DEADLOCK FALSE
