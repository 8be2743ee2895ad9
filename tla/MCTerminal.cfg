\* Users who type at any time, dead keys among the rest, and users who type
\* only at the prompt.
CONSTANTS
    BufLen = 4
    MaxKeys = 5
    ReadSizes = {2}
SPECIFICATION Spec
INVARIANTS
    DeliveredOnce
    OneLinePerEnter
    LineExact
PROPERTY LineArrives
\* The user may stop typing, and the program then polls forever.
CHECK_DEADLOCK FALSE
