------------------------------ MODULE PageAlloc ------------------------------
(***************************************************************************)
(* The allocator of physical pages (sys/mem.c): one record of free_list    *)
(* per page, set up by calculate_free_list, searched first-fit by kmalloc, *)
(* kmalloc_init and kmalloc_stack.  Nothing calls free, so no action gives *)
(* pages back, and no reader of ref_count is ever called.                  *)
(*                                                                         *)
(* The records themselves lie in memory, from the page physfree points to. *)
(* A block that is handed out is cleared with memset, so when it overlaps  *)
(* records their used, block_size and next become 0 (wiped).               *)
(***************************************************************************)
EXTENDS Integers

CONSTANTS
    NumPages,     \* num_pages: pages below the end of memory
    UsedPages,    \* physfree / PAGE_SIZE: loader and kernel
    PageSize,     \* PAGE_SIZE, in bytes (4096)
    RecordSize,   \* sizeof(struct page), in bytes (24)
    MaxBlock      \* bound: pages asked for at once

\* The pages that calculate_free_list marks as occupied by the records
TablePages == (NumPages * RecordSize) \div PageSize

\* The number of records that lie in these pages.  The others lie in the page
\* behind, which is left free.
KeptRecords == (TablePages * PageSize) \div RecordSize

ASSUME PageAllocAssumption ==
    /\ NumPages \in Nat /\ UsedPages \in Nat
    /\ PageSize \in Nat \ {0} /\ RecordSize \in Nat \ {0} /\ MaxBlock \in Nat
    /\ TablePages \in Nat /\ UsedPages + TablePages <= NumPages

VARIABLES
    used, block_size,  \* of each record, the sentinel at NumPages included
    wiped,             \* records whose bytes a memset has cleared
    wild,              \* a search has left the list
    blocks             \* history: what has been handed out

vars == <<used, block_size, wiped, wild, blocks>>

Pages   == 0 .. NumPages - 1
Records == 0 .. NumPages

\* Some byte of record r lies in the n pages from first on.
Overlaps(r, first, n) ==
    LET start == UsedPages * PageSize + r * RecordSize
    IN  start < (first + n) * PageSize /\ first * PageSize < start + RecordSize

\* The records when the first k pages are taken, the first u by the kernel
InitialRecords(u, k) ==
    /\ used = [r \in Records |-> IF r = NumPages THEN -1 ELSE IF r < k THEN 1 ELSE 0]
    /\ block_size = [r \in Records |->
            IF r < u THEN u - r ELSE IF r < k THEN k - r ELSE NumPages - r]
    /\ wiped = {} /\ wild = FALSE /\ blocks = {}

\* Mutant: the pages of the kernel count as free.
InitKernelFree == InitialRecords(0, 0)

\* Mutant: the pages of the records are not marked.
InitTableFree == InitialRecords(UsedPages, UsedPages)

\* calculate_free_list
Init == InitialRecords(UsedPages, UsedPages + TablePages)

-----------------------------------------------------------------------------

Fits(r, n) == used[r] = 0 /\ block_size[r] >= n

\* The walk over the next pointers reaches r, and finds no fit before.
FirstFit(r, n) ==
    /\ Fits(r, n)
    /\ \A q \in Records : q < r => ~Fits(q, n) /\ q \notin wiped

\* Mutant: the clearing begins a page too early.
WipedBelow(first, n) == wiped \cup {r \in Records : Overlaps(r, first - 1, n + 1)}

\* The records that are wiped once n pages from first on have been cleared
WipedBy(first, n) == wiped \cup {r \in Records : Overlaps(r, first, n)}

\* Mutant: only the first page of the block is marked.
MarkFirst(first, n) ==
    /\ used' = [r \in Records |-> IF r = first THEN 1
                                  ELSE IF r \in WipedBy(first, n) THEN 0 ELSE used[r]]
    /\ block_size' = [r \in Records |-> IF r = first THEN n
                                        ELSE IF r \in WipedBy(first, n) THEN 0
                                        ELSE block_size[r]]

\* The record of the first page is written before the memset, the others after.
Mark(first, n) ==
    LET gone      == WipedBy(first, n)
        marked(r) == first <= r /\ r < first + n /\ (r = first => r \notin gone)
    IN  /\ used' = [r \in Records |-> IF marked(r) THEN 1
                                      ELSE IF r \in gone THEN 0 ELSE used[r]]
        /\ block_size' = [r \in Records |-> IF marked(r) THEN first + n - r
                                            ELSE IF r \in gone THEN 0 ELSE block_size[r]]

\* kmalloc of n pages that finds them: it marks the records after the memset
\* by following their next pointers.
Kmalloc(n) ==
    /\ ~wild
    /\ \E first \in Records :
        /\ FirstFit(first, n)
        /\ \A r \in Records : first <= r /\ r < first + n - 1 => r \notin WipedBy(first, n)
        /\ Mark(first, n)
        /\ wiped' = WipedBy(first, n)
        /\ blocks' = blocks \cup {[first |-> first, n |-> n]}
    /\ UNCHANGED wild

\* kmalloc that runs out of the list: past the sentinel, whose next was never
\* set, or through a wiped next.  The loop's test for NULL does not stop it,
\* VADDR(0) being no null pointer; what happens then is undefined.
KmallocWild(n) ==
    /\ ~wild
    /\ \A first \in Records : FirstFit(first, n) =>
        \E r \in Records : first <= r /\ r < first + n - 1 /\ r \in WipedBy(first, n)
    /\ wild' = TRUE
    /\ UNCHANGED <<used, block_size, wiped, blocks>>

Next == \E n \in 1 .. MaxBlock : Kmalloc(n) \/ KmallocWild(n)

Spec == Init /\ [][Next]_vars

-----------------------------------------------------------------------------
(* Properties *)

\* The records hold what their C types and calculate_free_list allow.
TypeOK ==
    /\ used \in [Records -> {-1, 0, 1}] /\ block_size \in [Records -> Nat]
    /\ wiped \subseteq Records /\ wild \in BOOLEAN
    /\ \A b \in blocks : b.first \in Nat /\ b.n \in Nat \ {0}

\* Two blocks never share a page, although kmalloc marks all the pages of a
\* block after testing only the first one's record, and although records may
\* be wiped meanwhile.
Disjoint ==
    \A a, b \in blocks : a # b => a.first + a.n <= b.first \/ b.first + b.n <= a.first

\* No block reaches below the kernel's end or past the end of memory.
InFreeMemory ==
    \A b \in blocks : UsedPages <= b.first /\ b.first + b.n <= NumPages

\* mem.c: "Init pages occupied by freelist in freelist->used = 1": no block
\* contains the record of a page.
RecordsSpared ==
    \A b \in blocks : \A r \in Pages : ~Overlaps(r, b.first, b.n)

\* No block contains a record of the pages that calculate_free_list has marked,
\* so that kmalloc, which clears what it hands out, never destroys these.
KeptRecordsSpared ==
    \A b \in blocks : \A r \in 0 .. KeptRecords - 1 : ~Overlaps(r, b.first, b.n)

\* kmalloc stays in its list as long as the pages whose records are kept have
\* room for the largest block, whatever became of the other records.
WildOnlyWhenFull ==
    wild => \E b \in blocks : KeptRecords - MaxBlock < b.first + b.n

=============================================================================
