--------------------------------- MODULE Ahci ---------------------------------
(***************************************************************************)
(* The AHCI disk driver of sys/pci.c: the scan of the PCI buses for a      *)
(* controller, the probing of its ports, and the test that writes a sector *)
(* through port 0 and reads it back.  (Its call in start() is commented    *)
(* out.)                                                                   *)
(*                                                                         *)
(* Driver and controller run concurrently and share the registers of the   *)
(* port: each access of the driver to cmd, ci, is, tfd and ssts is a step, *)
(* and the controller's steps come in between.  The controller (HBA) and   *)
(* the disk are not part of the repository.  They are modelled from what   *)
(* the driver expects of each register, with the faults it tests for: a    *)
(* command that fails and a port that stays busy.                          *)
(*                                                                         *)
(* A sector holds one value, a command moves one sector (all calls pass a  *)
(* count of 1), and the command tables are told apart by what they order.  *)
(***************************************************************************)
EXTENDS Integers

CONSTANTS
    Buses, Devices,  \* numbers of buses (256) and of devices on each (32)
    Machines,        \* PCI devices and controllers that may be found
    Slots,           \* command slots of a controller (32)
    MaxFaults        \* bound: failed commands and busy spells of the disk

PortKinds == {"unimplemented", "empty", "sata", "satapi"}

\* A PCI device: the class of each function, whether it says it has several,
\* and for a controller the ports and the field NCS of its register cap
PciDevice(d) ==
    /\ 0 \in DOMAIN d.class
    /\ \A f \in DOMAIN d.class : d.class[f] \in {"absent", "other", "ahci"}
    /\ d.multi \in BOOLEAN
    /\ 0 \in DOMAIN d.ports /\ \A p \in DOMAIN d.ports : d.ports[p] \in PortKinds
    /\ d.ncs \in 0 .. Slots - 1

ASSUME AhciAssumption ==
    /\ Buses \in Nat \ {0} /\ Devices \in Nat \ {0}
    /\ Slots \in Nat \ {0} /\ MaxFaults \in Nat
    /\ \A m \in Machines : \A b \in 0 .. Buses - 1, d \in 0 .. Devices - 1 : PciDevice(m[b][d])

VARIABLES
    machine,     \* the PCI devices, by bus and device number
    pc,          \* the next step of the driver
    i, j,        \* bus and device of enumerate_pci
    port,        \* registers of port 0
    active,      \* the slot the controller is executing, or None
    header,      \* what each slot's header and command table order
    call,        \* "write" or "read"
    slot,        \* the local variable of write and read_pci
    result,      \* what each call has returned
    disk, source, TEST_OUT,  \* the sector, and the buffers at 3M and 6M
    faults

driverVars == <<pc, i, j, call, slot, result, source>>
hbaVars    == <<port, active, disk, TEST_OUT, faults>>
vars       == <<machine, driverVars, hbaVars, header>>

None == -1
Old  == "old"
New  == "new"     \* the 23 that init_write stores

\* The controller under test
Ports == machine[i][j].ports
NCS   == machine[i][j].ncs

Present == Ports[0] \in {"sata", "satapi"}

\* What every reset of the controller leaves
ResetPort ==
    [ST |-> FALSE, FRE |-> FALSE, CR |-> FALSE, FR |-> FALSE, TFES |-> FALSE,
     ci |-> {}, tfd |-> "busy", ipm |-> FALSE, held |-> FALSE]

\* What the firmware may leave: a port that receives FISes and runs commands
FirmwarePort ==
    [ResetPort EXCEPT !.ST = TRUE, !.FRE = TRUE, !.CR = TRUE, !.FR = TRUE,
                      !.tfd = "ready", !.ipm = TRUE]

-----------------------------------------------------------------------------
(* The driver: from one place to the next, leaving all but pc and port *)

Goes(from, to) == pc = from /\ pc' = to

\* A write to a register of the port
Sets(new) ==
    /\ port' = new
    /\ UNCHANGED <<machine, i, j, call, slot, result, source,
                   active, disk, TEST_OUT, faults, header>>

\* A read, whose value has been tested
Reads == Sets(port)

\* ci is cleared by the controller when ST is.
Stopped == [port EXCEPT !.ST = FALSE, !.ci = {}]

-----------------------------------------------------------------------------
(* enumerate_pci *)

\* check_device
Found(b, d) ==
    LET class == machine[b][d].class IN
    /\ class[0] # "absent"
    /\ IF machine[b][d].multi THEN \E f \in DOMAIN class : class[f] = "ahci"
                             ELSE class[0] = "ahci"

\* The loop variables are bytes: bus 255 is followed by bus 0.
NextBus == i' = (i + 1) % Buses /\ j' = 0

Scan ==
    /\ pc = "scan"
    /\ IF Found(i, j)
       THEN pc' = "reset" /\ UNCHANGED <<i, j>>
       ELSE /\ UNCHANGED pc
            /\ IF j + 1 < Devices THEN j' = j + 1 /\ UNCHANGED i ELSE NextBus
    /\ UNCHANGED <<machine, call, slot, result, source, hbaVars, header>>

\* Mutant: the controller is used as the firmware left it.
ResetNot == Goes("reset", "probe") /\ Sets(port)

\* ghc: HR, AE and IE.  The reset is taken to be over when HR has been written.
Reset == Goes("reset", "probe") /\ Sets(ResetPort)

\* check_type: a port whose signature says nothing else counts as a disk, an
\* empty one too, and any port as long as the reset keeps the signature away.
Disks(signed) ==
    {p \in DOMAIN Ports : Ports[p] \in {"empty", "sata"} \/ (~signed /\ Ports[p] = "satapi")}

\* probe_port
Probe ==
    /\ pc = "probe"
    /\ \E signed \in BOOLEAN :
        IF Disks(signed) # {}
        THEN pc' = "stop" /\ UNCHANGED <<i, j>>
        ELSE pc' = "scan" /\ NextBus
    /\ UNCHANGED <<machine, call, slot, result, source, hbaVars, header>>

-----------------------------------------------------------------------------
(* port_rebase of port 0 *)

\* stop_cmd
Stop    == Goes("stop", "stopFR") /\ Sets(Stopped)
StopFR  == ~port.FR /\ Goes("stopFR", "stopCR") /\ Reads
StopCR  == Goes("stopCR", IF port.CR THEN "stopFR" ELSE "stopFRE") /\ Reads
StopFRE == Goes("stopFRE", "rebase") /\ Sets([port EXCEPT !.FRE = FALSE])

Unset == [order |-> "none", clean |-> FALSE]

\* The memset clears sizeof(port->clb) bytes, which are the flags of slot 0;
\* the flags of the other headers keep what the memory held.
Rebase ==
    /\ Goes("rebase", "startCR")
    /\ header' = [s \in 0 .. Slots - 1 |-> [order |-> "none", clean |-> s = 0]]
    /\ UNCHANGED <<machine, i, j, call, slot, result, source, hbaVars>>

\* start_cmd
StartCR  == ~port.CR /\ Goes("startCR", "startFRE") /\ Reads
StartFRE == Goes("startFRE", "startST") /\ Sets([port EXCEPT !.FRE = TRUE])
StartST  == Goes("startST", "data") /\ Sets([port EXCEPT !.ST = TRUE])

\* *var = 23
Data ==
    /\ Goes("data", "setST")
    /\ source' = New
    /\ UNCHANGED <<machine, i, j, call, slot, result, hbaVars, header>>

-----------------------------------------------------------------------------
(* setBits *)

\* Mutant: the command engine is left running, with what is in ci.
SetSTNot == Goes("setST", "setFRE") /\ Reads

SetST  == Goes("setST", "setCR") /\ Sets(Stopped)
SetCR  == ~port.CR /\ Goes("setCR", "setFRE") /\ Reads
SetFRE == Goes("setFRE", "setFR") /\ Sets([port EXCEPT !.FRE = FALSE])
SetFR  == ~port.FR /\ Goes("setFR", "comreset") /\ Reads

\* sctl = 0x301: the link goes down and the disk resets
Comreset ==
    Goes("comreset", "release") /\ Sets([port EXCEPT !.held = TRUE, !.ipm = FALSE, !.tfd = "busy"])

\* sctl = 0x300
ReleaseLink == Goes("release", "restart") /\ Sets([port EXCEPT !.held = FALSE])

Restart == Goes("restart", "find") /\ Sets([port EXCEPT !.ST = TRUE])

-----------------------------------------------------------------------------
(* write and read_pci *)

\* The call returns, and init_write goes on to the next one.
Returns(r) ==
    /\ result' = [result EXCEPT ![call] = r]
    /\ pc' = IF call = "write" THEN "setST" ELSE "done"
    /\ call' = "read"
    /\ UNCHANGED <<machine, i, j, slot, source, hbaVars, header>>

\* is_rwc = 0xffff leaves TFES, which is bit 30, as it is.  find_cmdslot takes
\* four of the five bits of NCS, which counts from 0.
SlotsSeen == NCS % 16

Free == {s \in 0 .. SlotsSeen - 1 : s \notin port.ci}

FindSlot ==
    /\ Free # {}
    /\ Goes("find", "fill")
    /\ slot' = CHOOSE s \in Free : \A t \in Free : s <= t
    /\ UNCHANGED <<machine, i, j, call, result, source, hbaVars, header>>

NoSlot == pc = "find" /\ Free = {} /\ Returns("failed")

Fill ==
    /\ Goes("fill", "FRE")
    /\ header' = [header EXCEPT ![slot].order = call]
    /\ UNCHANGED <<machine, i, j, call, slot, result, source, hbaVars>>

\* set_bits_after_di
SetBitsFRE == Goes("FRE", "link") /\ Sets([port EXCEPT !.FRE = TRUE])
AwaitLink  == port.ipm /\ Goes("link", "idle") /\ Reads
AwaitIdle  == port.tfd # "busy" /\ Goes("idle", "error") /\ Reads
AwaitNoErr == Goes("error", IF port.tfd = "err" THEN "idle" ELSE "ST") /\ Reads
SetBitsST  == Goes("ST", "spin") /\ Sets([port EXCEPT !.ST = TRUE])

\* The bounded loop: the port is found idle, or busy a million times.
Spun == port.tfd # "busy" /\ Goes("spin", "issue") /\ Reads
Hung == pc = "spin" /\ port.tfd = "busy" /\ Returns("failed")

Issue == Goes("issue", "ci") /\ Sets([port EXCEPT !.ci = @ \cup {slot}])

\* Mutant: the call does not wait.
AwaitCINot == Goes("ci", "check") /\ Reads

\* The loop of the last wait
AwaitCI == Goes("ci", IF slot \in port.ci THEN "tfes" ELSE "check") /\ Reads

\* Mutant: the call gives up when the command is not over at the first look.
AwaitTFESOnce == pc = "tfes" /\ Returns("failed")

AwaitTFES ==
    \/ pc = "tfes" /\ port.TFES /\ Returns("failed")
    \/ ~port.TFES /\ Goes("tfes", "ci") /\ Reads

\* "Check again"
Check == pc = "check" /\ Returns(IF port.TFES THEN "failed" ELSE "ok")

Driver ==
    \/ Scan \/ Reset \/ Probe
    \/ Stop \/ StopFR \/ StopCR \/ StopFRE \/ Rebase \/ StartCR \/ StartFRE \/ StartST
    \/ Data \/ SetST \/ SetCR \/ SetFRE \/ SetFR \/ Comreset \/ ReleaseLink \/ Restart
    \/ FindSlot \/ NoSlot \/ Fill \/ SetBitsFRE \/ AwaitLink \/ AwaitIdle \/ AwaitNoErr
    \/ SetBitsST \/ Spun \/ Hung \/ Issue \/ AwaitCI \/ AwaitTFES \/ Check

-----------------------------------------------------------------------------
(* The controller and the disk *)

\* CR and FR follow ST and FRE.
Engines ==
    /\ \/ port.CR # port.ST /\ active = None /\ port' = [port EXCEPT !.CR = port.ST]
       \/ port.FR # port.FRE /\ port' = [port EXCEPT !.FR = port.FRE]
    /\ UNCHANGED <<machine, driverVars, header, active, disk, TEST_OUT, faults>>

LinkUp ==
    /\ Present /\ ~port.held /\ ~port.ipm
    /\ port' = [port EXCEPT !.ipm = TRUE]
    /\ UNCHANGED <<machine, driverVars, header, active, disk, TEST_OUT, faults>>

\* The disk is ready and says so in a FIS, which is only received when FR is set.
DiskReady ==
    /\ port.ipm /\ port.FR /\ port.tfd = "busy" /\ active = None
    /\ port' = [port EXCEPT !.tfd = "ready"]
    /\ UNCHANGED <<machine, driverVars, header, active, disk, TEST_OUT, faults>>

Begin(s) ==
    /\ port.ST /\ port.CR /\ port.ipm /\ port.tfd = "ready" /\ s \in port.ci
    /\ active' = s
    /\ port' = [port EXCEPT !.tfd = "busy"]
    /\ UNCHANGED <<machine, driverVars, header, disk, TEST_OUT, faults>>

\* DMA and the end of the command; a CD-ROM drive knows neither command.
Finish ==
    /\ active # None /\ Ports[0] = "sata"
    /\ disk' = IF header[active].order = "write" THEN source ELSE disk
    /\ TEST_OUT' = IF header[active].order = "read" THEN disk ELSE TEST_OUT
    /\ port' = [port EXCEPT !.tfd = "ready", !.ci = @ \ {active}]
    /\ active' = None
    /\ UNCHANGED <<machine, driverVars, header, faults>>

Fail ==
    /\ active # None
    /\ Ports[0] = "sata" => faults < MaxFaults
    /\ faults' = IF Ports[0] = "sata" THEN faults + 1 ELSE faults
    /\ port' = [port EXCEPT !.tfd = "err", !.TFES = TRUE]
    /\ active' = None
    /\ UNCHANGED <<machine, driverVars, header, disk, TEST_OUT>>

\* A busy spell of a disk that is not executing a command
Glitch ==
    /\ port.ipm /\ port.tfd = "ready" /\ faults < MaxFaults
    /\ faults' = faults + 1
    /\ port' = [port EXCEPT !.tfd = "busy"]
    /\ UNCHANGED <<machine, driverVars, header, active, disk, TEST_OUT>>

Works == Engines \/ LinkUp \/ DiskReady \/ (\E s \in port.ci : Begin(s)) \/ Finish

-----------------------------------------------------------------------------

Init ==
    /\ machine \in Machines
    /\ pc = "scan" /\ i = 0 /\ j = 0
    /\ port \in {ResetPort, FirmwarePort} /\ active = None
    /\ header = [s \in 0 .. Slots - 1 |-> Unset]
    /\ call = "write" /\ slot = 0 /\ result = [c \in {"write", "read"} |-> "none"]
    /\ disk = Old /\ source = Old /\ TEST_OUT = Old /\ faults = 0

Next == Driver \/ Works \/ Fail \/ Glitch

\* The driver runs, and a controller with a disk does what it is asked to.
Spec ==
    /\ Init /\ [][Next]_vars
    /\ WF_vars(Driver) /\ WF_vars(Engines) /\ WF_vars(LinkUp) /\ WF_vars(DiskReady)
    /\ WF_vars(\E s \in port.ci : Begin(s)) /\ WF_vars(Finish \/ Fail)

-----------------------------------------------------------------------------
(* Properties *)

\* Memory that the controller may read is not being changed: the tables are
\* moved only while both engines stand still, a slot is filled only when it
\* has not been issued, and an issued slot has a header without leftovers that
\* orders what the current call wants.  Only slot 0 gets a clean header, so
\* this needs slot 0 to be free again whenever a call begins, after an error too.
TablesOwned ==
    /\ pc = "rebase" => ~port.CR /\ ~port.FR
    /\ pc = "fill" => slot \notin port.ci
    /\ \A s \in port.ci : header[s].clean
    /\ pc \in {"ci", "tfes", "check"} => header[slot].order = call

\* write and read_pci report success only when the disk has done it: what
\* was written is what has been read back.
ReadsBack ==
    /\ result["write"] = "ok" => disk = New
    /\ result["write"] = "ok" /\ result["read"] = "ok" => TEST_OUT = New

\* As long as no command has failed, a command is in flight only while its
\* call waits for it: nothing is written to a buffer after the call returned.
\* (TFES is never cleared, so that the call after a failed one returns at once.)
CallsAlone ==
    ~port.TFES => (port.ci # {} \/ active # None => pc \in {"ci", "tfes", "check"})

\* The only controller, at the place the scan finds it, with a disk at port 0
OneDisk ==
    \E b \in 0 .. Buses - 1, d \in 0 .. Devices - 1 :
        /\ machine[b][d].ports[0] = "sata"
        /\ \A c \in 0 .. Buses - 1, e \in 0 .. Devices - 1 : Found(c, e) <=> <<c, e>> = <<b, d>>

\* With one controller that has a disk at port 0 the search ends and both
\* calls return, though no wait but one is bounded and the controller was
\* left running by the firmware; whatever fails.
SearchEnds == OneDisk ~> pc = "done"

=============================================================================
