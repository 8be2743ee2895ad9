\* Blocks of 4 bytes, reads of 3 by cat and of 1 to 4 by programs; texts and programs.
CONSTANTS
    Block = 4
    Chunk = 3
    Archives <- MixedArchives
    ReadSizes = {1, 2, 4}
SPECIFICATION Spec
INVARIANTS
    TableMatches
    SkipsNothing
    StaysInFile
PROPERTY CatReturns
\* No program has to use a file.
CHECK_DEADLOCK FALSE
