------------------------------- MODULE MCAhci -------------------------------
(* Two buses of two devices, one of them a controller, or two on one bus. *)
EXTENDS Ahci

Other  == [f \in 0 .. 0 |-> "other"]
Absent == [f \in 0 .. 1 |-> "absent"]
Single == [f \in 0 .. 0 |-> "ahci"]
Second == [f \in 0 .. 1 |-> IF f = 1 THEN "ahci" ELSE "other"]

\* A controller at each place of c, as a function of a multi-function device or
\* as a device of its own, and another device before it
At(c, ports, ncs, multi) ==
    [b \in 0 .. Buses - 1 |-> [d \in 0 .. Devices - 1 |->
        [class |-> CASE <<b, d>> \in c   -> IF multi THEN Second ELSE Single
                     [] b = 0 /\ d = 0   -> Other
                     [] OTHER            -> Absent,
         multi |-> multi, ports |-> ports, ncs |-> ncs]]]

MCMachines ==
    {At({<<b, 1>>}, [p \in 0 .. 1 |-> k[p + 1]], ncs, multi) :
        b \in 0 .. 1, multi \in BOOLEAN, ncs \in {0, 2},
        k \in {<<"sata", "unimplemented">>, <<"satapi", "sata">>, <<"empty", "sata">>,
               <<"unimplemented", "sata">>, <<"satapi", "satapi">>}}
    \cup {At({<<0, 0>>, <<0, 1>>}, [p \in 0 .. 1 |-> "sata"], 2, FALSE)}

=============================================================================
