\* The memory of MCPageAlloc.cfg.
CONSTANTS
    NumPages = 18
    UsedPages = 2
    PageSize = 4
    RecordSize = 1
    MaxBlock = 3
SPECIFICATION Spec
INVARIANTS
    RecordsSpared
CHECK_DEADLOCK FALSE
