------------------------------ MODULE AhciProofs ------------------------------
(***************************************************************************)
(* The safety properties of the disk driver hold for any machine, any      *)
(* number of slots and any number of failures.                             *)
(***************************************************************************)
EXTENDS Ahci, TLAPS

\* Places between the reset of the controller and the start of its engines
Quiet  == {"probe", "stop", "stopFR", "stopCR", "stopFRE", "rebase", "startCR"}
Before == (Quiet \ {"startCR"}) \cup {"scan", "reset"}
Starts == Before \cup {"startCR", "startFRE", "startST", "data"}
Setup  == {"setCR", "setFRE", "setFR", "comreset", "release", "restart", "find", "fill"}
Ready  == {"FRE", "link", "idle", "error", "ST", "spin", "issue"}
Waits  == {"ci", "tfes", "check"}

Registers ==
    [ST : BOOLEAN, FRE : BOOLEAN, CR : BOOLEAN, FR : BOOLEAN, TFES : BOOLEAN,
     ci : SUBSET {0}, tfd : {"ready", "busy", "err"}, ipm : BOOLEAN, held : BOOLEAN]

Types ==
    /\ machine \in Machines /\ i \in 0 .. Buses - 1 /\ j \in 0 .. Devices - 1
    /\ pc \in Starts \cup Setup \cup Ready \cup Waits \cup {"setST", "done"}
    /\ port \in Registers /\ active \in {None, 0}
    /\ header \in [0 .. Slots - 1 -> [order : {"none", "write", "read"}, clean : BOOLEAN]]
    /\ call \in {"write", "read"} /\ slot = 0
    /\ result \in [{"write", "read"} -> {"none", "ok", "failed"}]

\* Which registers are set at which place
Registered ==
    /\ pc \in Quiet => ~port.ST /\ ~port.CR /\ ~port.FRE /\ ~port.FR
    /\ pc \notin Waits \cup {"setST", "done"} => port.ci = {}
    /\ pc = "check" => port.ci = {}
    /\ pc \in {"setST", "done"} /\ ~port.TFES => port.ci = {}
    /\ pc = "setST" /\ port.ci # {} => port.tfd = "err"
    /\ active # None => pc \in {"ci", "tfes", "done"} /\ 0 \in port.ci
    /\ call = "write" /\ port.TFES => pc \in Waits /\ port.tfd = "err" /\ active = None

\* What is in the memory that the controller reads
Prepared ==
    /\ pc \notin Before => header[0].clean
    /\ pc \in Ready \cup Waits => header[0].order = call
    /\ pc = "done" => call = "read" /\ (port.ci # {} => header[0].order = "read")
    /\ pc \in Starts => call = "write"
    /\ pc \notin Starts => source = New

\* What the disk has done when a call is about to return
Moved ==
    /\ call = "write" => result["write"] = "none" /\ result["read"] = "none"
    /\ pc # "done" => result["read"] = "none"
    /\ pc \in Waits /\ call = "write" /\ port.ci = {} => disk = New
    /\ pc \in Waits /\ call = "read" /\ port.ci = {} => TEST_OUT = disk
    /\ result["write"] = "ok" => disk = New
    /\ result["read"] = "ok" => TEST_OUT = disk

Inv == Types /\ Registered /\ Prepared /\ Moved

-----------------------------------------------------------------------------

\* Inv holds when the driver is called.
LEMMA InitInv == Init => Inv
<1> SUFFICES ASSUME Init PROVE Inv
  OBVIOUS
<1>1. port \in Registers /\ port.ci = {} /\ ~port.TFES
  <2>1. ResetPort \in Registers /\ ResetPort.ci = {} /\ ~ResetPort.TFES
    BY DEF Registers, ResetPort
  <2>2. FirmwarePort \in Registers /\ FirmwarePort.ci = {} /\ ~FirmwarePort.TFES
    BY <2>1 DEF Registers, FirmwarePort
  <2> QED
    BY <2>1, <2>2 DEF Init
<1>2. header \in [0 .. Slots - 1 -> [order : {"none", "write", "read"}, clean : BOOLEAN]]
  BY DEF Init, Unset
<1>3. /\ result \in [{"write", "read"} -> {"none", "ok", "failed"}]
      /\ result["write"] = "none" /\ result["read"] = "none"
  BY DEF Init
<1>4. Types
  BY <1>1, <1>2, <1>3, AhciAssumption DEF Init, Types, Starts, Before
<1>5. Registered /\ Prepared /\ Moved
  BY <1>1, <1>3
  DEF Init, Registered, Prepared, Moved, Quiet, Before, Starts, Setup, Ready, Waits, None
<1> QED
  BY <1>4, <1>5 DEF Inv

\* Each access of the driver to a register of the port keeps Inv.
LEMMA RegisterStepsKeep ==
    ASSUME Inv,
           \/ Stop \/ StopFR \/ StopCR \/ StopFRE \/ StartCR \/ StartFRE
           \/ StartST \/ SetST \/ SetCR \/ SetFRE \/ SetFR \/ Comreset
           \/ ReleaseLink \/ Restart \/ SetBitsFRE \/ AwaitLink \/ AwaitIdle \/ AwaitNoErr
           \/ SetBitsST \/ Spun \/ Issue \/ AwaitCI
    PROVE  Inv'
<1> USE DEF Goes, Sets, Reads, Stopped, Inv, Types, Registered, Prepared, Moved, Registers, Quiet,
         Before, Starts, Setup, Ready, Waits, None
<1>1. CASE Stop
  BY <1>1 DEF Stop
<1>2. CASE StopFR
  BY <1>2 DEF StopFR
<1>3. CASE StopCR
  BY <1>3 DEF StopCR
<1>4. CASE StopFRE
  BY <1>4 DEF StopFRE
<1>5. CASE StartCR
  BY <1>5 DEF StartCR
<1>6. CASE StartFRE
  BY <1>6 DEF StartFRE
<1>7. CASE StartST
  BY <1>7 DEF StartST
<1>8. CASE SetST
  BY <1>8 DEF SetST
<1>9. CASE SetCR
  BY <1>9 DEF SetCR
<1>10. CASE SetFRE
  BY <1>10 DEF SetFRE
<1>11. CASE SetFR
  BY <1>11 DEF SetFR
<1>12. CASE Comreset
  BY <1>12 DEF Comreset
<1>13. CASE ReleaseLink
  BY <1>13 DEF ReleaseLink
<1>14. CASE Restart
  BY <1>14 DEF Restart
<1>15. CASE SetBitsFRE
  BY <1>15 DEF SetBitsFRE
<1>16. CASE AwaitLink
  BY <1>16 DEF AwaitLink
<1>17. CASE AwaitIdle
  BY <1>17 DEF AwaitIdle
<1>18. CASE AwaitNoErr
  BY <1>18 DEF AwaitNoErr
<1>19. CASE SetBitsST
  BY <1>19 DEF SetBitsST
<1>20. CASE Spun
  BY <1>20 DEF Spun
<1>21. CASE Issue
  BY <1>21 DEF Issue
<1>22. CASE AwaitCI
  BY <1>22 DEF AwaitCI
<1> QED
  BY <1>1, <1>2, <1>3, <1>4, <1>5, <1>6, <1>7, <1>8, <1>9, <1>10, <1>11, <1>12,
     <1>13, <1>14, <1>15, <1>16, <1>17, <1>18, <1>19, <1>20, <1>21, <1>22

\* The search for a controller keeps Inv.
LEMMA SearchKeeps == ASSUME Inv, Scan \/ Reset \/ Probe PROVE Inv'
<1> USE DEF Inv, Types, Registered, Prepared, Moved, Registers, Quiet, Before, Starts, Setup,
         Ready, Waits, None
<1>1. CASE Scan
  BY <1>1, AhciAssumption DEF Scan, NextBus, hbaVars
<1>2. CASE Reset
  BY <1>2 DEF Reset, Goes, Sets, ResetPort
<1>3. CASE Probe
  BY <1>3, AhciAssumption DEF Probe, NextBus, hbaVars
<1> QED
  BY <1>1, <1>2, <1>3

\* The first free slot is slot 0, the one with a clean header.
LEMMA SlotZero == ASSUME Inv, FindSlot PROVE slot' = 0
<1>1. port.ci = {}
  BY DEF Inv, Registered, FindSlot, Goes, Waits
<1>2. NCS \in 0 .. Slots - 1
  <2>1. PciDevice(machine[i][j])
    BY AhciAssumption DEF Inv, Types
  <2> QED
    BY <2>1 DEF PciDevice, NCS
<1>3. SlotsSeen \in Nat
  BY <1>2, AhciAssumption DEF SlotsSeen
<1>4. Free = 0 .. SlotsSeen - 1
  BY <1>1 DEF Free
<1>5. 0 \in Free /\ \A t \in Free : 0 <= t
  BY <1>3, <1>4 DEF FindSlot
<1>6. slot' \in Free /\ \A t \in Free : slot' <= t
  BY <1>5 DEF FindSlot
<1> QED
  BY <1>3, <1>4, <1>5, <1>6

\* What the driver writes to memory keeps Inv.
LEMMA MemoryStepsKeep == ASSUME Inv, Rebase \/ Data \/ FindSlot \/ Fill PROVE Inv'
<1> USE DEF Goes, Inv, Types, Registered, Prepared, Moved, Registers, Quiet, Before, Starts,
         Setup, Ready, Waits, None, hbaVars
<1>1. CASE Rebase
  <2>1. /\ header' \in [0 .. Slots - 1 -> [order : {"none", "write", "read"}, clean : BOOLEAN]]
        /\ header'[0].clean
    <3>1. 0 \in 0 .. Slots - 1
      BY AhciAssumption
    <3>2. \A s \in 0 .. Slots - 1 :
            [order |-> "none", clean |-> s = 0] \in [order : {"none", "write", "read"}, clean : BOOLEAN]
      OBVIOUS
    <3>3. header' = [s \in 0 .. Slots - 1 |-> [order |-> "none", clean |-> s = 0]]
      BY <1>1 DEF Rebase
    <3> HIDE DEF Inv
    <3> QED
      BY <3>1, <3>2, <3>3
  <2>2. Types'
    BY <1>1, <2>1 DEF Rebase
  <2>3. Registered' /\ Prepared' /\ Moved'
    BY <1>1, <2>1 DEF Rebase
  <2> QED
    BY <2>2, <2>3
<1>2. CASE Data
  BY <1>2 DEF Data
<1>3. CASE FindSlot
  BY <1>3, SlotZero DEF FindSlot
<1>4. CASE Fill
  <2>1. /\ header' \in [0 .. Slots - 1 -> [order : {"none", "write", "read"}, clean : BOOLEAN]]
        /\ header'[0].order = call /\ header'[0].clean
    <3>1. 0 \in 0 .. Slots - 1
      BY AhciAssumption
    <3>2. header' = [header EXCEPT ![0] = [header[0] EXCEPT !.order = call]] /\ header[0].clean
      BY <1>4 DEF Fill
    <3>3. /\ header \in [0 .. Slots - 1 -> [order : {"none", "write", "read"}, clean : BOOLEAN]]
          /\ call \in {"none", "write", "read"}
      OBVIOUS
    <3> HIDE DEF Inv
    <3> QED
      BY <3>1, <3>2, <3>3
  <2>2. Types'
    BY <1>4, <2>1 DEF Fill
  <2>3. Registered' /\ Prepared' /\ Moved'
    BY <1>4, <2>1 DEF Fill
  <2> QED
    BY <2>2, <2>3
<1> QED
  BY <1>1, <1>2, <1>3, <1>4

\* Every way for a call to return keeps Inv.
LEMMA ReturnsKeep == ASSUME Inv, NoSlot \/ Hung \/ AwaitTFES \/ Check PROVE Inv'
<1> USE DEF Goes, Sets, Reads, Returns, Inv, Types, Registered, Prepared, Moved, Registers, Quiet,
         Before, Starts, Setup, Ready, Waits, None, hbaVars
<1>1. CASE NoSlot
  BY <1>1 DEF NoSlot
<1>2. CASE Hung
  BY <1>2 DEF Hung
<1>3. CASE AwaitTFES
  <2>1. CASE pc = "tfes" /\ port.TFES /\ Returns("failed")
    BY <2>1
  <2>2. CASE ~port.TFES /\ Goes("tfes", "ci") /\ Reads
    BY <2>2
  <2> QED
    BY <1>3, <2>1, <2>2 DEF AwaitTFES
<1>4. CASE Check
  BY <1>4 DEF Check
<1> QED
  BY <1>1, <1>2, <1>3, <1>4

\* The steps of the controller and of the disk keep Inv.
LEMMA ControllerKeeps ==
    ASSUME Inv, Works \/ Fail \/ Glitch
    PROVE  Inv'
<1> USE DEF Inv, Types, Registered, Prepared, Moved, Registers, Quiet, Before, Starts, Setup,
         Ready, Waits, None, driverVars
<1>1. CASE Engines
  BY <1>1 DEF Engines
<1>2. CASE LinkUp
  <2>1. /\ port' = [port EXCEPT !.ipm = TRUE]
        /\ UNCHANGED <<machine, driverVars, header, active, disk, TEST_OUT>>
    BY <1>2 DEF LinkUp
  <2>2. Types'
    BY <2>1
  <2>3. Registered'
    BY <2>1
  <2>4. Prepared' /\ Moved'
    BY <2>1
  <2> QED
    BY <2>2, <2>3, <2>4
<1>3. CASE DiskReady
  BY <1>3 DEF DiskReady
<1>4. ASSUME NEW s \in port.ci, Begin(s) PROVE Inv'
  <2>1. s = 0
    BY <1>4
  <2> QED
    BY <1>4, <2>1 DEF Begin
<1>5. CASE Finish
  BY <1>5 DEF Finish
<1>6. CASE Fail
  BY <1>6 DEF Fail
<1>7. CASE Glitch
  BY <1>7 DEF Glitch
<1> QED
  BY <1>1, <1>2, <1>3, <1>4, <1>5, <1>6, <1>7 DEF Works

LEMMA NextKeeps == ASSUME Inv, [Next]_vars PROVE Inv'
<1>1. CASE UNCHANGED vars
  BY <1>1 DEF vars, driverVars, hbaVars, Inv, Types, Registered, Prepared, Moved
<1>2. CASE Driver
  BY <1>2, RegisterStepsKeep, SearchKeeps, MemoryStepsKeep, ReturnsKeep DEF Driver
<1>3. CASE Works \/ Fail \/ Glitch
  BY <1>3, ControllerKeeps
<1> QED
  BY <1>1, <1>2, <1>3 DEF Next

\* Inv, which says what the registers, the tables and the buffers hold at each
\* place of the driver, holds for any machine and any failures.
THEOREM AlwaysInv == Spec => []Inv
  BY InitInv, NextKeeps, PTL DEF Spec

\* The driver changes no table that the controller may read.
THEOREM TablesStayOwned == Spec => []TablesOwned
<1>1. Inv => TablesOwned
  BY DEF Inv, Types, Registered, Prepared, Registers, Quiet, Before, Starts, Setup, Ready, Waits,
         TablesOwned
<1> QED
  BY <1>1, AlwaysInv, PTL

\* Calls that report success have written the sector and read it back.
THEOREM SuccessReadsBack == Spec => []ReadsBack
<1>1. Inv => ReadsBack
  BY DEF Inv, Moved, ReadsBack
<1> QED
  BY <1>1, AlwaysInv, PTL

\* As long as no command has failed, none is in flight when no call waits.
THEOREM CallsStayAlone == Spec => []CallsAlone
<1>1. Inv => CallsAlone
  BY DEF Inv, Types, Registered, Registers, Waits, CallsAlone
<1> QED
  BY <1>1, AlwaysInv, PTL

=============================================================================
