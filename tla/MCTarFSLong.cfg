\* A text file of several chunks.
CONSTANTS
    Block = 4
    Chunk = 3
    Archives <- LongArchive
    ReadSizes = {}
SPECIFICATION Spec
INVARIANT CatExact
CHECK_DEADLOCK FALSE
