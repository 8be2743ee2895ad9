---------------------------- MODULE MCAddressSpace ----------------------------
(* AddressSpace for TLC: the programs, and the pages that may fault. *)
EXTENDS AddressSpace

Segment(va, size) == [va |-> va, size |-> size]

\* Two segments on pages that follow one another, the first across the end of
\* a page table
MCShell == <<Segment(60, 9), Segment(70, 4)>>

\* One segment; two that are far apart
MCPrograms == {
    MCShell,
    <<Segment(65, 2)>>,
    <<Segment(64, 4), Segment(1100, 3)>> }

\* Page 0, a page of a directory nobody has used, one of the kernel, and one
\* that the kernel has not mapped
MCFaultPages == {0, 700, KernelBase + PhysBase + 3, KernelBase - 5}

=============================================================================
