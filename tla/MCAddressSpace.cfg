\* Tables of 16 entries; memories that fill page tables exactly or not; up to 4
\* tasks.  The offsets of KernelBase are 15, 14, 0, 0 (511, 510, 0, 0), those of
\* StackBase 14, 13, 3, 8 (481, 450, 3, 256).
CONSTANTS
    Entries = 16
    Frames = 200
    MemorySizes = {176, 200}
    FirstFree = 20
    PhysBase = 16
    VideoPage = 5
    KernelBase = 65024
    StackBase = 60728
    TaskPages = 3
    PageSize = 2
    Programs <- MCPrograms
    Shell <- MCShell
    FaultPages <- MCFaultPages
    MaxTasks = 4
SPECIFICATION Spec
INVARIANTS
    KernelMapped
    ReachesOwn
    SegmentsPresent
    StacksApart
\* Tasks are created until the bound is reached.
CHECK_DEADLOCK FALSE
