-------------------------------- MODULE Paging --------------------------------
(***************************************************************************)
(* The four-level page tables of sys/paging.c, as operators on a memory    *)
(* image s: s.mem holds the entries of each page frame, s.free is the      *)
(* frame kmalloc hands out next (PageAlloc: nothing is given back, so      *)
(* pages are handed out in order, and cleared), and s.user is a history:   *)
(* the frames that were handed out for programs to use.                    *)
(*                                                                         *)
(* Addresses are page numbers.  An entry is a number, as in the code: the  *)
(* frame above three bits of flags.  A table is a frame, and a write       *)
(* behind its last entry goes to the frame that follows.                   *)
(***************************************************************************)
EXTENDS Integers

CONSTANTS
    Entries,   \* ENTRIES_PER_PTE, and the size of the other tables (512)
    Frames     \* bound: the highest frame of memory

ASSUME PagingAssumption ==
    Entries \in Nat /\ Entries > 1 /\ Frames \in Nat

Index == 0 .. Entries - 1
Frame == 0 .. Frames

RW_KERNEL_FLAGS == 3
RW_USER_FLAGS   == 7

Entry(f, access) ==
    f * 8 + (IF access = 1 THEN RW_USER_FLAGS ELSE RW_KERNEL_FLAGS)

IsPresent(e) == e % 2 = 1
IsUser(e)    == IsPresent(e) /\ (e \div 4) % 2 = 1
FrameOf(e)   == e \div 8

\* The offsets in the four tables, cut out of a page number
pte_off(v)  == v % Entries
pde_off(v)  == (v \div Entries) % Entries
pdpe_off(v) == ((v \div Entries) \div Entries) % Entries
pml4_off(v) == (((v \div Entries) \div Entries) \div Entries) % Entries

\* The pages of 48 bit addresses
Pages == Entries * Entries * Entries * Entries

-----------------------------------------------------------------------------

\* kmalloc, kmalloc_init for n pages: they begin with s.free, and are cleared.
Kmalloc(s, n) ==
    LET new == s.free .. (s.free + n) - 1
    IN  [s EXCEPT !.mem  = [f \in new \cup DOMAIN s.mem |->
                              IF f \in new THEN [i \in Index |-> 0] ELSE s.mem[f]],
                  !.free = @ + n]

\* alloc_pte, alloc_pde, alloc_pdpe: a new table at entry i of table t
AllocTable(s, t, i, access) ==
    [Kmalloc(s, 1) EXCEPT !.mem[t][i] = Entry(s.free, access)]

\* Make sure that there is one.
Ensure(s, t, i, access) ==
    IF IsPresent(s.mem[t][i]) THEN s ELSE AllocTable(s, t, i, access)

\* From a table to the one behind its entry i, with the image that has it
Descend(at, i, access) ==
    LET s1 == Ensure(at.s, at.table, i, access)
    IN  [s |-> s1, table |-> FrameOf(s1.mem[at.table][i])]

\* n entries of table t, from the given one on, for the frames from p on
Fill(s, t, from, p, n, access) ==
    LET touched == (t .. t + ((from + n) - 1) \div Entries) \cap Frame
        written(f) == [i \in Index |->
            LET k == (f - t) * Entries + i
            IN  IF from <= k /\ k < from + n THEN Entry((p + k) - from, access)
                ELSE s.mem[f][i]]
    IN  [s EXCEPT !.mem = [f \in DOMAIN s.mem |->
                             IF f \in touched THEN written(f) ELSE s.mem[f]]]

\* Mutant: the tables go to the directory one entry too early.
MapFurtherEarly(s, pde, first, off, p, n, access) ==
    LET tables == first .. first + n \div Entries
        linked == [i \in Index |-> IF i \in tables THEN Entry(s.free + (i - first), access)
                                    ELSE s.mem[pde][i]]
    IN  Fill([Kmalloc(s, n \div Entries + 1) EXCEPT !.mem[pde] = linked],
             s.free, 0, p, n, access)

\* The part of a mapping that does not fit into the first page table, n pages
\* from p on: full tables, then one for the rest, all behind one another in
\* memory and in the directory.  How much the last one takes is computed from
\* pte_off where the number of full tables is meant.
MapFurther(s, pde, first, off, p, n, access) ==
    LET no_of_pte_t == n \div Entries
        last        == n - Entries * off
        tables      == first + 1 .. first + no_of_pte_t + 1
        linked      == [i \in Index |->
                          IF i \in tables THEN Entry(s.free + (i - (first + 1)), access)
                          ELSE s.mem[pde][i]]
        allocated   == [Kmalloc(s, no_of_pte_t + 1) EXCEPT !.mem[pde] = linked]
    IN  Fill(allocated, s.free, 0, p, no_of_pte_t * Entries + last, access)

\* init_map_virt_phys_addr: n pages from v on to the frames from p on
init_map_virt_phys_addr(s, v, p, n, pml4, access) ==
    LET pdpe  == Descend([s |-> s, table |-> pml4], pml4_off(v), access)
        pde   == Descend(pdpe, pdpe_off(v), access)
        pte   == Descend(pde, pde_off(v), access)
        first == Entries - pte_off(v)
    IN  IF n + pte_off(v) <= Entries
        THEN Fill(pte.s, pte.table, pte_off(v), p, n, access)
        ELSE MapFurther(Fill(pte.s, pte.table, pte_off(v), p, first, access),
                        pde.table, pde_off(v), pte_off(v), p + first, n - first, access)

\* A new page at v for a program: the body of the loop of region_alloc, what
\* kmalloc_stack does, and page_fault_handler for an absent page
UserPage(s, v, pml4) ==
    [init_map_virt_phys_addr(Kmalloc(s, 1), v, s.free, 1, pml4, 1)
        EXCEPT !.user = @ \cup {s.free}]

-----------------------------------------------------------------------------
(* What the processor makes of the tables. *)

NoFrame == -1

\* The frame that page v is translated to
Walk(s, pml4, v) ==
    LET e1 == s.mem[pml4][pml4_off(v)]
        e2 == s.mem[FrameOf(e1)][pdpe_off(v)]
        e3 == s.mem[FrameOf(e2)][pde_off(v)]
        e4 == s.mem[FrameOf(e3)][pte_off(v)]
    IN  IF IsPresent(e1) /\ IsPresent(e2) /\ IsPresent(e3) /\ IsPresent(e4)
        THEN FrameOf(e4) ELSE NoFrame

\* The frames that the entries of the tables in T which programs may use refer to
UserStep(s, T) ==
    {FrameOf(e) : e \in {x \in UNION {{s.mem[t][i] : i \in Index} : t \in T} : IsUser(x)}}

\* The frames a program can reach
UserReach(s, pml4) == UserStep(s, UserStep(s, UserStep(s, UserStep(s, {pml4}))))

=============================================================================
