\* A memory whose records fill their last page only in part, as do those of a
\* machine with the 128 MB that QEMU gives by default.
CONSTANTS
    NumPages = 18
    UsedPages = 2
    PageSize = 4
    RecordSize = 1
    MaxBlock = 3
SPECIFICATION Spec
INVARIANTS
    Disjoint
    InFreeMemory
    KeptRecordsSpared
    WildOnlyWhenFull
\* A kernel that has run out of memory does not go on.
CHECK_DEADLOCK FALSE
