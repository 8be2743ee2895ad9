----------------------------- MODULE AddressSpace -----------------------------
(***************************************************************************)
(* The address spaces: init_paging at boot, the one that elf_run_bin       *)
(* builds for a new program, the one that sys_fork derives from its        *)
(* parent's, and the page that page_fault_handler adds.  All of it runs    *)
(* with interrupts off, and an address space is never taken down.          *)
(*                                                                         *)
(* Every allocation on the way is there, as the pages it takes decide      *)
(* where tables and stacks come to lie; what the pages hold is not, unless *)
(* they are tables.                                                        *)
(***************************************************************************)
EXTENDS Paging, Sequences

CONSTANTS
    MemorySizes,  \* num_pages: pages of memory
    FirstFree,    \* the first page behind the kernel and the page records
    PhysBase,     \* physbase: the page where the kernel starts (512)
    VideoPage,    \* the page of the screen (0xB8)
    KernelBase,   \* KERNEL_VADDR, as a page number
    StackBase,    \* bumpPtr of kmalloc_stack, as a page number
    TaskPages,    \* pages of a task_struct (9)
    PageSize,     \* PAGE_SIZE, in the units of Programs (4096)
    Programs,     \* the loadable segments of each: p_vaddr and p_memsz
    Shell,        \* the one that load_sbush loads
    FaultPages,   \* bound: pages whose use may fault
    MaxTasks      \* bound: address spaces created

\* The mappings of init_paging begin with a page table, as do a kernel at 2 MB
\* and KERNEL_VADDR, the tables of one page directory are enough for them, as
\* they are below 1 GB, and the kernel has the last top level entry for itself.
ASSUME AddressSpaceAssumption ==
    /\ {FirstFree, PhysBase, VideoPage, KernelBase, StackBase, TaskPages, MaxTasks} \subseteq Nat
    /\ PhysBase % Entries = 0 /\ KernelBase % (Entries * Entries) = 0 /\ VideoPage < Entries
    /\ \A n \in MemorySizes :
        n \in Nat \ {0} /\ PhysBase <= n /\ n <= Frames /\ n + 2 * Entries < Entries * Entries
    /\ \A f \in Frame : pml4_off(KernelBase + f) = Entries - 1
    /\ \A f \in Frame : pml4_off(StackBase + f) # Entries - 1 /\ StackBase + f < Pages
    /\ PhysBase <= FirstFree /\ PageSize \in Nat \ {0} /\ Shell \in Programs
    /\ FaultPages \subseteq Nat

VARIABLES
    num_pages,  \* of this machine
    image,      \* the memory, as in Paging
    ker_pml4,   \* ker_pml4_t; NoFrame before init_paging
    tasks,      \* of each task ever created: pml4, the segments in its vmas,
                \* the page of its stack and the frame behind it
    live,       \* the tasks that still run (an exit changes nothing else here)
    family,     \* history: of each task, the first one it descends from by fork
    given       \* history: of each task, the frames handed out for its use

vars == <<num_pages, image, ker_pml4, tasks, live, family, given>>

\* init_paging: all of memory as it is, all of it from KERNEL_VADDR + physbase
\* on, and the screen; then start allocates the kernel's task and its place in
\* the task list.
InitPaging ==
    LET pml4 == image.free
        s1 == init_map_virt_phys_addr(Kmalloc(image, 1), 0, 0, num_pages, pml4, 0)
        s2 == init_map_virt_phys_addr(s1, KernelBase + PhysBase, PhysBase,
                                      (num_pages - PhysBase) + 1, pml4, 0)
        s3 == init_map_virt_phys_addr(s2, KernelBase + VideoPage, VideoPage, 1, pml4, 0)
    IN  /\ ker_pml4 = NoFrame
        /\ ker_pml4' = pml4 /\ image' = Kmalloc(Kmalloc(s3, TaskPages), 1)
        /\ UNCHANGED <<num_pages, tasks, live, family, given>>

-----------------------------------------------------------------------------

FirstPage(seg) == seg.va \div PageSize

\* Mutant: the end is rounded down.
EndPageDown(seg) == (seg.va + seg.size) \div PageSize

\* get_ending_page
EndPage(seg) == ((seg.va + seg.size + PageSize) - 1) \div PageSize

\* Programs are linked at addresses below the stacks and not the kernel's, into
\* code and data.  (vma_malloc places each vma but the first a page behind the one
\* before it, in a page it has not allocated.  With two segments that is the first
\* page of the data, after exec, or of the code, after fork; with a third it can
\* be a page table.)
ASSUME ProgramsAssumption ==
    \A segs \in Programs :
        /\ segs \in Seq([va : Nat, size : Nat])
        /\ segs # <<>> /\ Len(segs) <= 2
        /\ \A j \in DOMAIN segs :
            /\ segs[j].size > 0 /\ EndPage(segs[j]) <= StackBase
            /\ \A v \in FirstPage(segs[j]) .. EndPage(segs[j]) - 1 : pml4_off(v) # Entries - 1

\* region_alloc: a new page for each page of the segment, mapped before or not
\* (a task for which memory does not suffice is not created, see AddTask)
RegionAlloc(s, seg, pml4) ==
    LET n == EndPage(seg) - FirstPage(seg)
        turn(prev, j) == IF prev.free > num_pages THEN prev
                         ELSE UserPage(prev, FirstPage(seg) + (j - 1), pml4)
        upTo[j \in 0 .. n] == IF j = 0 THEN s ELSE turn(upTo[j - 1], j)
    IN  upTo[n]

\* All segments of a task.  With the first a page is allocated for the vmas
\* (vma_malloc): fork does it before the pages of the segment, exec behind.  The
\* vma of the second segment lies in a page of the program; what the program
\* stores there is taken to leave it as it is.
LoadAll(s, segs, pml4, vmaFirst) ==
    LET first == IF vmaFirst THEN RegionAlloc(Kmalloc(s, 1), segs[1], pml4)
                 ELSE Kmalloc(RegionAlloc(s, segs[1], pml4), 1)
        upTo[j \in 1 .. Len(segs)] ==
            IF j = 1 THEN first ELSE RegionAlloc(upTo[j - 1], segs[j], pml4)
    IN  upTo[Len(segs)]

\* Mutant: all stacks have one address.
StackPageFixed(f) == StackBase

\* The address kmalloc_stack gives to frame f
StackPage(f) == StackBase + f

\* kmalloc_stack(1, pml4)
KmallocStack(s, pml4) == UserPage(s, StackPage(s.free), pml4)

\* Mutant: the entries of a program that runs already are taken over.
NewPml4FromFirst(s) ==
    [Kmalloc(s, 1) EXCEPT !.mem[s.free] = [i \in Index |->
        IF tasks # <<>> THEN s.mem[tasks[1].pml4][i]
        ELSE IF i = Entries - 1 THEN s.mem[ker_pml4][i] ELSE 0]]

\* A top level table with the kernel's last entry and nothing else
NewPml4(s) ==
    [Kmalloc(s, 1) EXCEPT !.mem[s.free][Entries - 1] = s.mem[ker_pml4][Entries - 1]]

\* The task with the given top level table, stack frame, segments and family is
\* there, and s is the image when all is done.
AddTask(s, pml4, f, segs, fam) ==
    /\ Len(tasks) < MaxTasks /\ s.free <= num_pages
    /\ image' = s
    /\ tasks' = Append(tasks, [pml4 |-> pml4, segs |-> segs, stack |-> StackPage(f), frame |-> f])
    /\ family' = Append(family, fam)
    /\ UNCHANGED <<num_pages, ker_pml4>>

\* open, elf_run_bin and add_to_task_list, for exec and load_sbush; s is the
\* image they start from.
ElfRunBin(s, segs) ==
    LET s1   == Kmalloc(s, 1)       \* the file of open
        pml4 == s1.free
        s2   == Kmalloc(NewPml4(s1), TaskPages)
        s3   == LoadAll(KmallocStack(s2, pml4), segs, pml4, FALSE)
    IN  /\ ker_pml4 # NoFrame
        /\ AddTask(Kmalloc(s3, 1), pml4, s2.free, segs, Len(tasks) + 1)

\* load_sbush, at boot
LoadSbush ==
    /\ tasks = <<>>
    /\ ElfRunBin(image, Shell)
    /\ live' = {1}
    /\ given' = <<image'.user>>

\* exec: the new task takes the place of t
Exec(t, segs) ==
    /\ t \in live
    /\ ElfRunBin(image, segs)
    /\ live' = (live \cup {Len(tasks) + 1}) \ {t}
    /\ given' = Append(given, image'.user \ image.user)

\* exec of a file that is not there: open has allocated a page, and t exits.
ExecMissing(t) ==
    /\ t \in live /\ image.free < num_pages
    /\ image' = Kmalloc(image, 1)
    /\ live' = live \ {t}
    /\ UNCHANGED <<num_pages, ker_pml4, tasks, family, given>>

\* sys_fork: the top level entries of the parent are copied, so that the
\* tables below are shared, and the segments are allocated anew in them.
SysFork(p) ==
    LET s1   == Kmalloc(Kmalloc(image, TaskPages), 1)  \* child, its place in the list
        pml4 == s1.free
        s2   == Kmalloc(NewPml4(s1), 2) \* temp_kstack, temp_ustack
        s3   == [s2 EXCEPT !.mem[pml4] = s2.mem[tasks[p].pml4]]
        s4   == LoadAll(KmallocStack(s3, pml4), tasks[p].segs, pml4, TRUE)
    IN  /\ p \in live
        /\ AddTask(s4, pml4, s3.free, tasks[p].segs, family[p])
        /\ live' = live \cup {Len(tasks) + 1}
        /\ given' = Append(given, image'.user \ image.user)

\* PADDR: the difference is unsigned, so that an address below KERNEL_VADDR
\* becomes one far behind the memory.
PADDR(v) == (v - KernelBase) % Pages

\* page_fault_handler: an absent page is allocated; one that is there, which
\* only the kernel's can be, is mapped again, for programs.  Then another shell
\* is loaded, and the task is ended.
PageFault(t, v) ==
    LET pml4   == tasks[t].pml4
        absent == Walk(image, pml4, v) = NoFrame
        s1     == IF absent THEN UserPage(image, v, pml4)
                  ELSE init_map_virt_phys_addr(image, v, PADDR(v), 1, pml4, 1)
    IN  /\ t \in live
        /\ absent \/ pml4_off(v) = Entries - 1
        /\ ElfRunBin(s1, Shell)
        /\ live' = (live \cup {Len(tasks) + 1}) \ {t}
        /\ given' = Append([given EXCEPT ![t] = @ \cup (s1.user \ image.user)],
                           image'.user \ s1.user)

-----------------------------------------------------------------------------

Init ==
    /\ num_pages \in MemorySizes
    /\ image = [mem |-> [f \in Frame |-> [i \in Index |-> 0]], free |-> FirstFree, user |-> {}]
    /\ ker_pml4 = NoFrame
    /\ tasks = <<>> /\ live = {} /\ family = <<>> /\ given = <<>>

Next ==
    \/ InitPaging
    \/ LoadSbush
    \/ \E t \in live :
        \/ SysFork(t)
        \/ ExecMissing(t)
        \/ \E segs \in Programs : Exec(t, segs)
        \/ \E v \in FaultPages : PageFault(t, v)

Spec == Init /\ [][Next]_vars

-----------------------------------------------------------------------------
(* Properties *)

\* In every address space the kernel sees the memory from physbase on, and the
\* screen, at KERNEL_VADDR, and in its own all of memory at its own addresses: the
\* tables of init_paging are complete and never damaged, though the last one of a
\* long mapping is written far behind its end (sys/paging.c:214).
KernelMapped ==
    ker_pml4 # NoFrame =>
        /\ \A root \in {ker_pml4} \cup {tasks[t].pml4 : t \in DOMAIN tasks} :
            \A p \in (PhysBase .. num_pages - 1) \cup {VideoPage} :
                Walk(image, root, KernelBase + p) = p
        /\ \A p \in 0 .. num_pages - 1 : Walk(image, ker_pml4, p) = p

\* A program reaches only pages that were handed out for it or its relatives by
\* fork: never a table, a page of the kernel, or one of an unrelated program, as
\* long as no program overwrites its own vmas, from which fork maps the child.
ReachesOwn ==
    \A t \in DOMAIN tasks : UserReach(image, tasks[t].pml4) \subseteq
        UNION {given[u] : u \in {x \in DOMAIN tasks : family[x] = family[t]}}

\* Every byte of a program's segments is on a page it reaches, also after
\* children have written to the tables they share with it (region_alloc,
\* sys_fork).
SegmentsPresent ==
    \A t \in DOMAIN tasks : \A j \in DOMAIN tasks[t].segs :
        LET seg == tasks[t].segs[j] IN
        \A a \in seg.va .. (seg.va + seg.size) - 1 :
            Walk(image, tasks[t].pml4, a \div PageSize) \in image.user

\* Each task keeps the stack page that kmalloc_stack gave to it, though parents
\* and children write their stacks' entries to the same tables.
StacksApart ==
    \A t \in DOMAIN tasks : Walk(image, tasks[t].pml4, tasks[t].stack) = tasks[t].frame

=============================================================================
