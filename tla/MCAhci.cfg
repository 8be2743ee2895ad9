\* One controller among two buses, with and without a disk at port 0.
CONSTANTS
    Buses = 2
    Devices = 2
    Slots = 3
    MaxFaults = 2
    Machines <- MCMachines
SPECIFICATION Spec
INVARIANTS
    TablesOwned
    ReadsBack
    CallsAlone
PROPERTY SearchEnds
\* The driver returns, or polls a port without a disk for ever.
CHECK_DEADLOCK FALSE
