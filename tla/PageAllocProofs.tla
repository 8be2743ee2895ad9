--------------------------- MODULE PageAllocProofs ---------------------------
(***************************************************************************)
(* Proofs, for a memory of any size, that kmalloc hands out each page at   *)
(* most once and never a page of the kernel.                               *)
(*                                                                         *)
(* kmalloc looks only at the record of a block's first page.  That is      *)
(* enough because a record that can still be taken counts the pages up to  *)
(* the end of memory, and no page from there on has been handed out        *)
(* (FreeTail); this also survives the wiping of records.                   *)
(*                                                                         *)
(* That kmalloc stays in its list while memory is left needs more: among   *)
(* the pages whose records lie in the marked pages, those that are free    *)
(* are one run up to the last, and their records are intact (Frontier).    *)
(***************************************************************************)
EXTENDS PageAlloc, TLAPS, WellFoundedInduction

\* A record with used = 0 and a size says how many pages there are up to the
\* end of memory, all of them behind every block.
FreeTail ==
    \A r \in Records : used[r] = 0 /\ block_size[r] > 0 =>
        /\ block_size[r] = NumPages - r
        /\ UsedPages + TablePages <= r
        /\ \A b \in blocks : b.first + b.n <= r

\* Blocks lie between the pages marked by calculate_free_list and the end.
BlocksInside ==
    \A b \in blocks : UsedPages + TablePages <= b.first /\ b.first + b.n <= NumPages

\* The inductive invariant.
Inv == TypeOK /\ Disjoint /\ FreeTail /\ BlocksInside

LEMMA RecordsNat == Records \subseteq Nat /\ NumPages \in Records
  BY PageAllocAssumption DEF Records

LEMMA InitInv == ASSUME Init PROVE Inv
  <1>1. TypeOK
    <2>1. used \in [Records -> {-1, 0, 1}]
      BY DEF Init, InitialRecords
    <2>2. \A r \in Records : block_size[r] \in Nat
      BY PageAllocAssumption DEF Init, InitialRecords, Records
    <2>3. block_size \in [Records -> Nat]
      BY <2>2 DEF Init, InitialRecords
    <2> QED BY <2>1, <2>3 DEF Init, InitialRecords, TypeOK
  <1>2. Disjoint /\ BlocksInside
    BY DEF Init, InitialRecords, Disjoint, BlocksInside
  <1>3. FreeTail
    BY PageAllocAssumption DEF Init, InitialRecords, FreeTail, Records
  <1> QED BY <1>1, <1>2, <1>3 DEF Inv

\* What the search for n pages has found.
LEMMA FirstFitFacts ==
    ASSUME Inv, NEW n \in Nat \ {0}, NEW first \in Records, FirstFit(first, n)
    PROVE  /\ first \in Nat /\ first + n <= NumPages
           /\ UsedPages + TablePages <= first
           /\ \A b \in blocks : b.first + b.n <= first
           /\ \A r \in Records : used[r] = 0 /\ block_size[r] > 0 => first <= r
  <1>1. TypeOK /\ FreeTail
    BY DEF Inv
  <1>2. used[first] = 0 /\ block_size[first] >= n /\ block_size[first] \in Nat
    BY <1>1 DEF FirstFit, Fits, TypeOK
  <1>3. /\ block_size[first] = NumPages - first /\ UsedPages + TablePages <= first
        /\ \A b \in blocks : b.first + b.n <= first
    BY <1>1, <1>2 DEF FreeTail
  <1>4. ASSUME NEW r \in Records, used[r] = 0, block_size[r] > 0, r < first
        PROVE  FALSE
    <2>1. block_size[r] = NumPages - r
      BY <1>1, <1>4 DEF FreeTail
    <2>2. ~Fits(r, n)
      BY <1>4 DEF FirstFit
    <2> QED
      BY <1>2, <1>3, <1>4, <2>1, <2>2, RecordsNat, PageAllocAssumption DEF Fits
  <1> QED BY <1>2, <1>3, <1>4, RecordsNat, PageAllocAssumption

LEMMA KmallocInv == ASSUME Inv, NEW n \in Nat \ {0}, Kmalloc(n) PROVE Inv'
  <1> DEFINE b0(f) == [first |-> f, n |-> n]
  <1>1. PICK first \in Records :
            /\ FirstFit(first, n) /\ Mark(first, n) /\ wiped' = WipedBy(first, n)
            /\ blocks' = blocks \cup {b0(first)}
    BY DEF Kmalloc
  <1>2. /\ first \in Nat /\ first + n <= NumPages /\ UsedPages + TablePages <= first
        /\ \A b \in blocks : b.first + b.n <= first
        /\ \A r \in Records : used[r] = 0 /\ block_size[r] > 0 => first <= r
    BY <1>1, FirstFitFacts
  <1>3. TypeOK /\ Disjoint /\ FreeTail /\ BlocksInside
    BY DEF Inv
  <1>4. b0(first).first = first /\ b0(first).n = n
    OBVIOUS
  <1>5. TypeOK'
    <2>1. used' \in [Records -> {-1, 0, 1}]
      BY <1>1, <1>3 DEF Mark, TypeOK
    <2>2. block_size' \in [Records -> Nat]
      BY <1>1, <1>2, <1>3, RecordsNat DEF Mark, TypeOK
    <2>3. wiped' \subseteq Records /\ wild' \in BOOLEAN
      BY <1>1, <1>3 DEF WipedBy, TypeOK, Kmalloc
    <2>4. \A b \in blocks' : b.first \in Nat /\ b.n \in Nat \ {0}
      BY <1>1, <1>2, <1>3, <1>4 DEF TypeOK
    <2> QED BY <2>1, <2>2, <2>3, <2>4 DEF TypeOK
  <1>6. Disjoint'
    BY <1>1, <1>2, <1>3, <1>4 DEF Disjoint
  <1>7. BlocksInside'
    BY <1>1, <1>2, <1>3, <1>4 DEF BlocksInside
  <1>8. FreeTail'
    <2> SUFFICES ASSUME NEW r \in Records, used'[r] = 0, block_size'[r] > 0
                 PROVE  /\ block_size'[r] = NumPages - r
                        /\ UsedPages + TablePages <= r
                        /\ \A b \in blocks' : b.first + b.n <= r
      BY DEF FreeTail
    <2>1. /\ ~(first < r /\ r < first + n) /\ used[r] = 0
          /\ block_size'[r] = block_size[r] /\ r # first
      BY <1>1, <1>2, RecordsNat DEF Mark
    <2>2. /\ block_size[r] = NumPages - r /\ UsedPages + TablePages <= r
          /\ \A b \in blocks : b.first + b.n <= r
      BY <1>3, <2>1 DEF FreeTail
    <2>3. first + n <= r
      BY <1>2, <2>1, RecordsNat
    <2> QED BY <1>1, <1>4, <2>1, <2>2, <2>3
  <1> QED BY <1>5, <1>6, <1>7, <1>8 DEF Inv

LEMMA NextInv == ASSUME Inv, [Next]_vars PROVE Inv'
  <1>1. ASSUME NEW n \in 1 .. MaxBlock, Kmalloc(n) PROVE Inv'
    BY <1>1, KmallocInv, PageAllocAssumption
  <1>2. ASSUME NEW n \in 1 .. MaxBlock, KmallocWild(n) PROVE Inv'
    BY <1>2 DEF KmallocWild, Inv, TypeOK, Disjoint, FreeTail, BlocksInside
  <1>3. CASE UNCHANGED vars
    BY <1>3 DEF vars, Inv, TypeOK, Disjoint, FreeTail, BlocksInside
  <1> QED BY <1>1, <1>2, <1>3 DEF Next

-----------------------------------------------------------------------------

\* The inductive invariant holds in every reachable state.
THEOREM AlwaysInv == Spec => []Inv
  BY InitInv, NextInv, PTL DEF Spec

\* The records of the pages keep their types.
THEOREM TypeCorrect == Spec => []TypeOK
  <1>1. Inv => TypeOK
    BY DEF Inv
  <1> QED BY <1>1, AlwaysInv, PTL

\* kmalloc never hands out a page twice.
THEOREM BlocksStayDisjoint == Spec => []Disjoint
  <1>1. Inv => Disjoint
    BY DEF Inv
  <1> QED BY <1>1, AlwaysInv, PTL

\* kmalloc hands out no page of the kernel and none that does not exist.
THEOREM BlocksStayInMemory == Spec => []InFreeMemory
  <1>1. Inv => InFreeMemory
    BY PageAllocAssumption DEF Inv, TypeOK, BlocksInside, InFreeMemory
  <1> QED BY <1>1, AlwaysInv, PTL

\* The records that are kept fit in the marked pages.
LEMMA KeptFacts ==
    KeptRecords \in Nat /\ KeptRecords <= NumPages
        /\ KeptRecords * RecordSize <= TablePages * PageSize
  <1> DEFINE all == NumPages * RecordSize
             t == TablePages
             k == KeptRecords
  <1>1. all \in Nat /\ PageSize \in Nat \ {0} /\ RecordSize \in Nat \ {0}
    BY PageAllocAssumption
  <1>2. t \in Nat /\ t * PageSize <= all
    <2> HIDE DEF all
    <2> QED BY <1>1 DEF TablePages, all
  <1>3. t * PageSize \in Nat
    BY <1>1, <1>2
  <1>4. k \in Nat /\ k * RecordSize <= t * PageSize
    <2> DEFINE b == t * PageSize
    <2>1. b \in Nat /\ k = b \div RecordSize
      BY <1>3 DEF KeptRecords
    <2> HIDE DEF b, k
    <2>2. k \in Nat /\ k * RecordSize <= b
      BY <1>1, <2>1
    <2> QED BY <2>2 DEF b
  <1>5. k * RecordSize <= NumPages * RecordSize
    BY <1>1, <1>2, <1>3, <1>4
  <1>6. k <= NumPages
    <2> HIDE DEF k
    <2> QED BY <1>1, <1>4, <1>5, PageAllocAssumption
  <1> QED BY <1>4, <1>6

\* The pages whose records are kept
Kept == 0 .. KeptRecords - 1

LEMMA KeptPages ==
    \A r \in Kept : r \in Nat /\ r < KeptRecords /\ r < NumPages /\ r \in Records
  BY KeptFacts, PageAllocAssumption DEF Kept, Records

\* No page behind the marked ones holds part of a record that is kept.
LEMMA NoOverlap ==
    ASSUME NEW f \in Nat, NEW n, NEW r \in Kept, UsedPages + TablePages <= f
    PROVE  ~Overlaps(r, f, n)
  <1>1. r \in Nat /\ r + 1 <= KeptRecords
    BY KeptPages, KeptFacts
  <1>2. (UsedPages + TablePages) * PageSize <= f * PageSize
    BY PageAllocAssumption
  <1>3. (r + 1) * RecordSize <= KeptRecords * RecordSize
    BY <1>1, KeptFacts, PageAllocAssumption
  <1>4. UsedPages * PageSize + r * RecordSize + RecordSize <= f * PageSize
    BY <1>1, <1>2, <1>3, KeptFacts, PageAllocAssumption
  <1> QED BY <1>1, <1>4, PageAllocAssumption DEF Overlaps

\* Clearing a block never destroys a record of the marked pages, in a memory
\* of any size.
THEOREM KeptRecordsStaySpared == Spec => []KeptRecordsSpared
  <1>1. Inv => KeptRecordsSpared
    BY NoOverlap DEF Inv, TypeOK, BlocksInside, KeptRecordsSpared, Kept
  <1> QED BY <1>1, AlwaysInv, PTL

\* Of the pages whose records are kept, those from e on are free.
FreeFrom(e) ==
    /\ \A r \in Kept : r < e => used[r] # 0
    /\ \A r \in Kept : e <= r => used[r] = 0 /\ block_size[r] = NumPages - r
    /\ e = UsedPages + TablePages \/ \E b \in blocks : b.first + b.n = e

Frontier == wiped \cap Kept = {} /\ \E e \in Records : FreeFrom(e)

LEMMA InitFrontier == ASSUME Init PROVE Frontier
  <1> DEFINE e == UsedPages + TablePages
  <1>1. e \in Records
    BY PageAllocAssumption DEF Records
  <1>2. FreeFrom(e)
    <2>1. \A r \in Kept : r \in Records /\ r \in Nat /\ r # NumPages
      BY KeptPages, PageAllocAssumption
    <2>2. e \in Nat /\ UsedPages <= e
      BY PageAllocAssumption
    <2>3. \A r \in Records : used[r] = IF r = NumPages THEN -1 ELSE IF r < e THEN 1 ELSE 0
      BY DEF Init, InitialRecords
    <2>4. \A r \in Records : ~(r < UsedPages) /\ ~(r < e) => block_size[r] = NumPages - r
      BY DEF Init, InitialRecords
    <2> HIDE DEF e
    <2>5. \A r \in Kept : r < e => used[r] # 0
      BY <2>1, <2>3
    <2>6. \A r \in Kept : e <= r => used[r] = 0 /\ block_size[r] = NumPages - r
      BY <2>1, <2>2, <2>3, <2>4, PageAllocAssumption
    <2> QED BY <2>5, <2>6 DEF FreeFrom, e
  <1> QED BY <1>1, <1>2 DEF Init, InitialRecords, Frontier

\* The search stops at the first free page, if its record is kept, and otherwise
\* behind the records that are kept.
LEMMA FitIsFrontier ==
    ASSUME Inv, NEW n \in Nat \ {0}, NEW first \in Records, FirstFit(first, n),
           NEW e \in Records, FreeFrom(e)
    PROVE  IF e < KeptRecords THEN first = e ELSE KeptRecords <= first
  <1>1. first \in Nat /\ first + n <= NumPages /\ e \in Nat
    BY FirstFitFacts, RecordsNat
  <1>2. first < KeptRecords => e <= first
    <2>1. used[first] = 0
      BY DEF FirstFit, Fits
    <2>2. first < KeptRecords => first \in Kept
      BY <1>1, KeptFacts DEF Kept
    <2> QED BY <1>1, <2>1, <2>2 DEF FreeFrom
  <1>3. CASE e < KeptRecords
    <2>1. e <= first
      BY <1>1, <1>2, <1>3, KeptFacts
    <2>2. used[e] = 0 /\ block_size[e] = NumPages - e
      BY <1>1, <1>3, KeptFacts DEF FreeFrom, Kept
    <2>3. Fits(e, n)
      BY <1>1, <2>1, <2>2, PageAllocAssumption DEF Fits
    <2>4. ~(e < first)
      BY <2>3 DEF FirstFit
    <2> QED BY <1>1, <1>3, <2>1, <2>4
  <1>4. CASE ~(e < KeptRecords)
    BY <1>1, <1>2, <1>4, KeptFacts
  <1> QED BY <1>3, <1>4

LEMMA KeptNotWiped ==
    ASSUME Frontier, NEW f \in Nat, UsedPages + TablePages <= f, NEW n
    PROVE  \A r \in Kept : r \notin WipedBy(f, n)
  <1>1. \A r \in Kept : ~Overlaps(r, f, n)
    BY NoOverlap
  <1> QED BY <1>1 DEF WipedBy, Frontier

LEMMA KmallocFrontier ==
    ASSUME Inv, Frontier, NEW n \in Nat \ {0}, Kmalloc(n)
    PROVE  Frontier'
  <1>1. PICK first \in Records :
            /\ FirstFit(first, n) /\ Mark(first, n) /\ wiped' = WipedBy(first, n)
            /\ blocks' = blocks \cup {[first |-> first, n |-> n]}
    BY DEF Kmalloc
  <1>2. PICK e \in Records : FreeFrom(e)
    BY DEF Frontier
  <1>3. IF e < KeptRecords THEN first = e ELSE KeptRecords <= first
    BY <1>1, <1>2, FitIsFrontier
  <1>4. first \in Nat /\ first + n <= NumPages /\ UsedPages + TablePages <= first
    BY <1>1, FirstFitFacts
  <1>5. \A r \in Kept : r \notin WipedBy(first, n)
    BY <1>4, KeptNotWiped
  <1>6. wiped' \cap Kept = {}
    BY <1>1, <1>5
  <1>7. first + n \in Records
    BY <1>4, PageAllocAssumption DEF Records
  <1>8. \A r \in Kept : used'[r] = IF first <= r /\ r < first + n THEN 1 ELSE used[r]
    BY <1>1, <1>5, KeptPages DEF Mark
  <1>9. \A r \in Kept : first + n <= r => block_size'[r] = block_size[r]
    BY <1>1, <1>4, <1>5, KeptPages DEF Mark
  <1>10. \A r \in Kept : r < first => r < e
    BY <1>3, <1>4, KeptPages, KeptFacts, RecordsNat
  <1>11. \A r \in Kept : first <= r => e <= r
    BY <1>3, <1>4, KeptPages, KeptFacts, RecordsNat
  <1>12. \A r \in Kept : r < first + n => used'[r] # 0
    BY <1>2, <1>4, <1>8, <1>10, KeptPages DEF FreeFrom
  <1>13. \A r \in Kept : first + n <= r => used'[r] = 0 /\ block_size'[r] = NumPages - r
    BY <1>2, <1>4, <1>8, <1>9, <1>11, KeptPages DEF FreeFrom
  <1>14. \E b \in blocks' : b.first + b.n = first + n
    <2> DEFINE new == [first |-> first, n |-> n]
    <2>1. new \in blocks' /\ new.first + new.n = first + n
      BY <1>1
    <2> QED BY <2>1
  <1>15. FreeFrom(first + n)'
    BY <1>12, <1>13, <1>14 DEF FreeFrom
  <1> QED BY <1>6, <1>7, <1>15 DEF Frontier

\* A nonempty set of numbers has a least element.
LEMMA LeastExists ==
    ASSUME NEW S \in SUBSET Nat, S # {}
    PROVE  \E n \in S : \A m \in S : n <= m
  <1> DEFINE R == OpToRel(<, Nat)
  <1>1. IsWellFoundedOn(R, Nat)
    BY NatLessThanWellFounded
  <1>2. \E n \in S : \A m \in S : <<m, n>> \notin R
    <2> HIDE DEF R
    <2> QED BY <1>1, WFMin
  <1>3. \A m, n \in Nat : <<m, n>> \notin R => ~(m < n)
    BY DEF OpToRel
  <1>4. PICK n \in S : \A m \in S : <<m, n>> \notin R
    BY <1>2
  <1>5. \A m \in S : ~(m < n)
    <2> HIDE DEF R
    <2> QED BY <1>3, <1>4
  <1> QED BY <1>5

\* A search that fails has less than n free pages whose records are kept.
LEMMA WildFacts ==
    ASSUME Inv, Frontier, NEW n \in Nat \ {0}, KmallocWild(n),
           NEW e \in Records, FreeFrom(e)
    PROVE  KeptRecords - n < e
  <1> SUFFICES ASSUME e + n <= KeptRecords PROVE FALSE
    BY RecordsNat, KeptFacts
  <1> DEFINE Fitting == {r \in Records : Fits(r, n)}
  <1>1. e \in Kept /\ e \in Nat
    BY RecordsNat, KeptFacts DEF Kept
  <1>2. Fits(e, n)
    BY <1>1, KeptFacts, PageAllocAssumption DEF FreeFrom, Fits
  <1>3. Fitting \in SUBSET Nat /\ e \in Fitting
    BY <1>2, RecordsNat
  <1>4. PICK first \in Fitting : \A q \in Fitting : first <= q
    BY <1>3, LeastExists
  <1>5. first <= e /\ first \in Records /\ first \in Nat
    BY <1>3, <1>4
  <1>6. \A q \in Records : q < first => q \notin wiped
    <2>1. \A q \in Records : q < first => q \in Kept
      BY <1>1, <1>5, RecordsNat, KeptPages, KeptFacts DEF Kept
    <2> QED BY <2>1 DEF Frontier
  <1>7. \A q \in Records : q < first => ~Fits(q, n)
    BY <1>4, <1>5, RecordsNat
  <1>8. FirstFit(first, n)
    BY <1>4, <1>6, <1>7 DEF FirstFit
  <1>9. PICK r \in Records : first <= r /\ r < first + n - 1 /\ r \in WipedBy(first, n)
    BY <1>5, <1>8 DEF KmallocWild
  <1>10. UsedPages + TablePages <= first
    BY <1>5, <1>8, FirstFitFacts
  <1>11. r \in Kept
    BY <1>5, <1>9, RecordsNat, KeptFacts DEF Kept
  <1> QED BY <1>5, <1>9, <1>10, <1>11, KeptNotWiped

\* Where there is room for the largest block at the start, kmalloc leaves its
\* list only when less than a largest block is left of the pages whose records
\* are kept.
THEOREM WildStaysLate ==
    ASSUME UsedPages + TablePages + MaxBlock <= KeptRecords
    PROVE  Spec => []WildOnlyWhenFull
  <1> DEFINE FInv == Frontier /\ WildOnlyWhenFull
  <1>1. Init => FInv
    BY InitFrontier DEF Init, InitialRecords, WildOnlyWhenFull
  <1>2. ASSUME Inv, FInv, [Next]_vars PROVE FInv'
    <2>1. ASSUME NEW n \in 1 .. MaxBlock, Kmalloc(n) PROVE FInv'
      <3>1. Frontier'
        BY <1>2, <2>1, KmallocFrontier, PageAllocAssumption
      <3>2. ~wild /\ wild' = wild
        BY <2>1 DEF Kmalloc
      <3> QED BY <3>1, <3>2 DEF WildOnlyWhenFull
    <2>2. ASSUME NEW n \in 1 .. MaxBlock, KmallocWild(n) PROVE FInv'
      <3>1. PICK e \in Records : FreeFrom(e)
        BY <1>2 DEF Frontier
      <3>2. KeptRecords - n < e /\ n <= MaxBlock /\ n \in Nat \ {0}
        BY <1>2, <2>2, <3>1, WildFacts, PageAllocAssumption
      <3>3. e # UsedPages + TablePages /\ KeptRecords - MaxBlock < e
        BY <3>2, RecordsNat, KeptFacts, PageAllocAssumption
      <3>4. \E b \in blocks : KeptRecords - MaxBlock < b.first + b.n
        BY <3>1, <3>3 DEF FreeFrom
      <3>5. Frontier'
        BY <1>2, <2>2 DEF KmallocWild, Frontier, FreeFrom
      <3> QED BY <2>2, <3>4, <3>5 DEF KmallocWild, WildOnlyWhenFull
    <2>3. CASE UNCHANGED vars
      BY <1>2, <2>3 DEF vars, Frontier, FreeFrom, WildOnlyWhenFull
    <2> QED BY <1>2, <2>1, <2>2, <2>3 DEF Next
  <1>3. Inv /\ FInv /\ [Next]_vars => FInv'
    BY <1>2
  <1>4. FInv => WildOnlyWhenFull
    OBVIOUS
  <1> HIDE DEF FInv
  <1> QED BY <1>1, <1>3, <1>4, AlwaysInv, PTL DEF Spec

=============================================================================
