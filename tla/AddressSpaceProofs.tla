-------------------------- MODULE AddressSpaceProofs --------------------------
(***************************************************************************)
(* The address spaces of programs stay their own.  The inductive invariant *)
(* is Sound: there are roles for the frames (PagingProofs) such that every *)
(* task has a top level table of its family, its stack is mapped to its    *)
(* own frame and its segments are mapped, and every program page was       *)
(* handed out to a task of its family.  The roles are not part of the      *)
(* state: they are chosen anew with each operation.                        *)
(***************************************************************************)
EXTENDS AddressSpace, PagingProofs, WellFoundedInduction

\* A nonempty set of numbers has a least one.
LEMMA LeastExists ==
    ASSUME NEW S \in SUBSET Nat, S # {}
    PROVE  \E n \in S : \A m \in S : n <= m
  <1> DEFINE R == OpToRel(<, Nat)
  <1>1. IsWellFoundedOn(R, Nat)
    BY Zenon, NatLessThanWellFounded
  <1>2. \E n \in S : \A m \in S : <<m, n>> \notin R
    <2> HIDE DEF R
    <2> QED BY Zenon, <1>1, WFMin
  <1>3. \A m, n \in Nat : <<m, n>> \notin R => ~(m < n)
    BY DEF OpToRel
  <1>4. PICK n \in S : \A m \in S : <<m, n>> \notin R
    BY Zenon, <1>2
  <1>5. \A m \in S : ~(m < n)
    <2> HIDE DEF R
    <2> QED BY Zenon, <1>3, <1>4
  <1> QED BY <1>5

\* A set that has 0, and with each number the next one, has all.
LEMMA SetInduction ==
    ASSUME NEW T, 0 \in T, \A n \in Nat : n \in T => n + 1 \in T
    PROVE  \A n \in Nat : n \in T
  <1> DEFINE S == {n \in Nat : n \notin T}
  <1> SUFFICES ASSUME S # {} PROVE FALSE
    OBVIOUS
  <1>1. PICK n \in S : \A m \in S : n <= m
    BY Zenon, LeastExists
  <1>2. n \in Nat /\ n # 0
    BY <1>1
  <1>3. n - 1 \in Nat /\ n - 1 \notin S
    BY <1>1, <1>2
  <1> QED BY <1>1, <1>2, <1>3

\* The same up to a bound
LEMMA BoundedInduction ==
    ASSUME NEW N \in Nat, NEW T, 0 \in T, \A n \in 0 .. N - 1 : n \in T => n + 1 \in T
    PROVE  \A n \in 0 .. N : n \in T
  <1> DEFINE U == {n \in Nat : n <= N => n \in T}
  <1>1. 0 \in U
    OBVIOUS
  <1>2. ASSUME NEW n \in Nat, n \in U PROVE n + 1 \in U
    BY <1>2
  <1> HIDE DEF U
  <1>3. \A n \in Nat : n \in U
    BY <1>1, <1>2, SetInduction
  <1> QED BY <1>3 DEF U

\* The pages of a segment
PagesOf(seg) == FirstPage(seg) .. EndPage(seg) - 1

\* The pages of a segment hold all of its bytes.
LEMMA SegmentFacts ==
    ASSUME NEW seg \in [va : Nat, size : Nat]
    PROVE  /\ FirstPage(seg) \in Nat /\ EndPage(seg) \in Nat /\ FirstPage(seg) <= EndPage(seg)
           /\ \A a \in seg.va .. (seg.va + seg.size) - 1 : a \div PageSize \in PagesOf(seg)
<1>1. /\ seg.va \in Nat /\ seg.size \in Nat /\ PageSize \in Nat \ {0}
  BY AddressSpaceAssumption
<1> DEFINE last == (seg.va + seg.size + PageSize) - 1
<1>2. last \in Nat /\ seg.va <= last
  BY <1>1
<1> HIDE DEF last
<1>3. FirstPage(seg) = seg.va \div PageSize /\ EndPage(seg) = last \div PageSize
  BY DEF FirstPage, EndPage, last
<1>4. FirstPage(seg) \in Nat /\ EndPage(seg) \in Nat /\ FirstPage(seg) <= EndPage(seg)
  BY <1>1, <1>2, <1>3, DivisionBounds, QuotientMonotone
<1>5. ASSUME NEW a \in seg.va .. (seg.va + seg.size) - 1
      PROVE  a \div PageSize \in PagesOf(seg)
  <2> DEFINE q == a \div PageSize
  <2>1. a \in Nat /\ seg.va <= a /\ a + PageSize \in Nat /\ a + PageSize <= last
    BY <1>1 DEF last
  <2>2. q \in Nat /\ FirstPage(seg) <= q /\ PageSize * q <= a
    BY <1>1, <1>3, <2>1, DivisionBounds, QuotientMonotone
  <2> HIDE DEF q
  <2>3. ~(EndPage(seg) < q + 1)
    <3> SUFFICES ASSUME EndPage(seg) < q + 1 PROVE FALSE
      OBVIOUS
    <3> DEFINE z == EndPage(seg)
    <3>1. z \in Nat /\ z <= q /\ last < PageSize * z + PageSize
      BY <1>1, <1>2, <1>3, <1>4, <2>2, DivisionBounds
    <3> HIDE DEF z
    <3>2. PageSize * z <= PageSize * q /\ PageSize * z \in Nat /\ PageSize * q \in Nat
      BY <1>1, <2>2, <3>1
    <3> QED BY <1>1, <1>2, <2>1, <2>2, <3>1, <3>2
  <2> QED BY <1>4, <2>2, <2>3 DEF q, PagesOf
<1> QED
  BY <1>4, <1>5

\* The loop of region_alloc
RegionStep(x, seg, root, j) ==
    IF x.free > num_pages THEN x ELSE UserPage(x, FirstPage(seg) + (j - 1), root)

\* f holds the images before the loop and after each of n turns.
RegionRun(f, s, seg, root, n) ==
    f = [j \in 0 .. n |-> IF j = 0 THEN s ELSE RegionStep(f[j - 1], seg, root, j)]

\* There is such a function.
LEMMA RegionLoop ==
    ASSUME NEW s, NEW seg, NEW root, NEW n \in Nat
    PROVE  \E f : RegionRun(f, s, seg, root, n)
<1> DEFINE Run(f, m) == RegionRun(f, s, seg, root, m)
           T == {m \in Nat : \E f : Run(f, m)}
<1>1. 0 \in T
  <2> DEFINE f == [j \in 0 .. 0 |-> s]
  <2>1. Run(f, 0)
    <3>1. \A j \in 0 .. 0 : j = 0
      OBVIOUS
    <3> QED BY <3>1 DEF RegionRun
  <2> HIDE DEF f, Run
  <2> QED BY <2>1
<1>2. ASSUME NEW m \in Nat, m \in T PROVE m + 1 \in T
  <2>1. PICK f : Run(f, m)
    BY <1>2
  <2> DEFINE g == [j \in 0 .. m + 1 |-> IF j <= m THEN f[j] ELSE RegionStep(f[m], seg, root, m + 1)]
             h == [j \in 0 .. m + 1 |-> IF j = 0 THEN s ELSE RegionStep(g[j - 1], seg, root, j)]
  <2>2. \A j \in 0 .. m : g[j] = f[j]
    OBVIOUS
  <2>3. g[m + 1] = RegionStep(f[m], seg, root, m + 1)
    OBVIOUS
  <2>4. \A j \in 0 .. m : f[j] = IF j = 0 THEN s ELSE RegionStep(f[j - 1], seg, root, j)
    BY <2>1 DEF RegionRun
  <2>5. \A j \in 0 .. m + 1 : g[j] = IF j = 0 THEN s ELSE RegionStep(g[j - 1], seg, root, j)
    <3> SUFFICES ASSUME NEW j \in 0 .. m + 1
                 PROVE  g[j] = IF j = 0 THEN s ELSE RegionStep(g[j - 1], seg, root, j)
      OBVIOUS
    <3> HIDE DEF g
    <3>1. CASE j <= m
      <4>1. j \in 0 .. m /\ (j # 0 => j - 1 \in 0 .. m)
        BY <3>1
      <4> QED BY <2>2, <2>4, <4>1
    <3>2. CASE j = m + 1
      <4>1. j # 0 /\ j - 1 = m /\ m \in 0 .. m
        BY <3>2
      <4> QED BY <2>2, <2>3, <3>2, <4>1
    <3> QED BY <3>1, <3>2
  <2>6. g = h
    BY <2>5
  <2>7. Run(g, m + 1)
    BY <2>6 DEF RegionRun
  <2> HIDE DEF Run, g
  <2> QED BY <2>7
<1> HIDE DEF T
<1>3. \A m \in Nat : m \in T
  BY <1>1, <1>2, SetInduction
<1> QED
  BY <1>3 DEF T

\* f leads from s to the result of RegionAlloc.
RegionRuns(f, s, seg, root, n) ==
    /\ f[0] = s /\ RegionAlloc(s, seg, root) = f[n]
    /\ \A j \in 0 .. n - 1 : f[j + 1] = RegionStep(f[j], seg, root, j + 1)

\* There is such a function, with a turn for each page of the segment.
LEMMA RegionIs ==
    ASSUME NEW s, NEW seg \in [va : Nat, size : Nat], NEW root
    PROVE  \E f : RegionRuns(f, s, seg, root, EndPage(seg) - FirstPage(seg))
<1> DEFINE n == EndPage(seg) - FirstPage(seg)
           Body(f) == [j \in 0 .. n |-> IF j = 0 THEN s ELSE RegionStep(f[j - 1], seg, root, j)]
           f == CHOOSE f : f = Body(f)
<1>1. n \in Nat
  BY SegmentFacts
<1>2. f = Body(f)
  <2>1. \E g : g = Body(g)
    <3>1. \E g : RegionRun(g, s, seg, root, n)
      <4> HIDE DEF n
      <4> QED BY <1>1, RegionLoop
    <3> QED BY Zenon, <3>1 DEF RegionRun
  <2> HIDE DEF Body
  <2> QED BY <2>1
<1>3. RegionAlloc(s, seg, root) = f[n]
  BY DEF RegionAlloc, RegionStep
<1> HIDE DEF f, n
<1>4. \A j \in 0 .. n : f[j] = IF j = 0 THEN s ELSE RegionStep(f[j - 1], seg, root, j)
  BY Zenon, <1>2
<1>5. f[0] = s
  BY <1>1, <1>4
<1>6. ASSUME NEW j \in 0 .. n - 1 PROVE f[j + 1] = RegionStep(f[j], seg, root, j + 1)
  <2>1. j + 1 \in 0 .. n /\ j + 1 # 0 /\ (j + 1) - 1 = j
    BY <1>1
  <2> QED BY <1>4, <2>1
<1> QED
  BY <1>1, <1>3, <1>5, <1>6 DEF n, RegionRuns

\* From s to r, and the pages in V are there unless memory did not suffice.
Loads(s, role, r, role2, root, F, W, V) ==
    /\ Evolves(s, role, r, role2, F, W)
    /\ r.free <= num_pages => \A v \in V : Walk(r, root, v) # NoFrame

\* Loading can be continued.
LEMMA LoadsOn ==
    ASSUME num_pages \in Nat,
           NEW s, NEW role, NEW r, NEW role2, NEW q, NEW role3, NEW root, NEW F, NEW W,
           NEW V1 \in SUBSET Nat, NEW V2, InSpace(s, role, root, F),
           Loads(s, role, r, role2, root, F, W, V1), Loads(r, role2, q, role3, root, F, W, V2)
    PROVE  Loads(s, role, q, role3, root, F, W, V1 \cup V2)
<1>1. Evolves(s, role, q, role3, F, W)
  BY EvolvesOn DEF Loads
<1>2. InSpace(r, role2, root, F)
  BY InSpaceKept DEF Loads
<1>3. r.free <= q.free /\ r.free \in Nat /\ q.free \in Nat
  BY DEF Loads, Evolves, Structure, Typed, IsImage
<1>4. ASSUME q.free <= num_pages, NEW v \in V1 PROVE Walk(q, root, v) # NoFrame
  <2>1. Walk(r, root, v) # NoFrame /\ v \in Nat
    BY <1>3, <1>4 DEF Loads
  <2> QED BY <1>2, <2>1, WalkKept DEF Loads, InSpace
<1> QED
  BY <1>1, <1>4 DEF Loads

\* region_alloc maps every page of the segment, or runs out of memory.
LEMMA RegionLoads ==
    ASSUME num_pages \in Nat, num_pages <= Frames,
           NEW s, NEW role, NEW root, NEW F, InSpace(s, role, root, F),
           NEW seg \in [va : Nat, size : Nat], NEW W,
           \A v \in PagesOf(seg), w \in W : ~Same(v, w)
    PROVE  \E role2 : Loads(s, role, RegionAlloc(s, seg, root), role2, root, F, W, PagesOf(seg))
<1> DEFINE first == FirstPage(seg)
           n == EndPage(seg) - FirstPage(seg)
<1> n \in Nat
  BY SegmentFacts
<1>1. PICK f : RegionRuns(f, s, seg, root, n)
  BY Zenon, RegionIs
<1> USE DEF RegionRuns
<1>2. first \in Nat /\ PagesOf(seg) = first .. (first + n) - 1
  BY <1>1, SegmentFacts DEF PagesOf
<1> HIDE DEF first, n
<1> DEFINE T == {j \in 0 .. n : \E role2 :
                    Loads(s, role, f[j], role2, root, F, W, first .. (first + j) - 1)}
<1>3. 0 \in T
  <2>1. Evolves(s, role, s, role, F, W)
    BY EvolvesNot DEF InSpace
  <2>2. first .. (first + 0) - 1 = {}
    BY <1>2
  <2>3. Loads(s, role, f[0], role, root, F, W, first .. (first + 0) - 1)
    BY <1>1, <2>1, <2>2 DEF Loads
  <2> QED BY <2>3
<1>4. ASSUME NEW j \in 0 .. n - 1, j \in T PROVE j + 1 \in T
  <2> DEFINE x == f[j]
             y == f[j + 1]
             v == first + j
  <2>1. PICK role2 : Loads(s, role, x, role2, root, F, W, first .. (first + j) - 1)
    BY <1>4
  <2>2. InSpace(x, role2, root, F)
    BY <2>1, InSpaceKept DEF Loads
  <2>3. y = IF x.free > num_pages THEN x ELSE UserPage(x, v, root)
    <3>1. first + ((j + 1) - 1) = v
      BY <1>2
    <3> QED BY <1>1, <3>1 DEF RegionStep, first
  <2>4. /\ v \in PagesOf(seg) /\ v \in Nat
        /\ first .. (first + (j + 1)) - 1 = (first .. (first + j) - 1) \cup {v}
    BY <1>2
  <2>5. \E role3 : Loads(x, role2, y, role3, root, F, W, {v})
    <3>1. CASE x.free > num_pages
      <4>1. Evolves(x, role2, x, role2, F, W)
        BY <2>2, EvolvesNot DEF InSpace
      <4>2. x.free \in Nat
        BY <2>2 DEF InSpace, Structure, Typed, IsImage
      <4>3. ~(x.free <= num_pages)
        BY <3>1, <4>2
      <4> HIDE DEF x, y
      <4> QED BY <2>3, <3>1, <4>1, <4>3 DEF Loads
    <3>2. CASE ~(x.free > num_pages)
      <4>1. y = UserPage(x, v, root)
        BY <2>3, <3>2
      <4> HIDE DEF x, y, v
      <4>2. \A w \in W : Same(v, w) => Walk(x, root, v) = NoFrame
        BY <2>4
      <4>3. \E role3 : Adds(x, role2, y, role3, root, v, F, W)
        BY <2>2, <2>4, <4>1, <4>2, UserPageAdds
      <4>4. PICK role3 : Adds(x, role2, y, role3, root, v, F, W)
        BY <4>3
      <4>5. x.free \in Nat /\ y.free \in Nat
        BY Zenon, <4>4 DEF Adds, Evolves, Structure, Typed, IsImage
      <4>6. y.free <= num_pages => Walk(y, root, v) # NoFrame
        <5>1. y.free <= num_pages => y.free <= Frames + 1
          BY <4>5, PagingAssumption
        <5> QED BY <4>4, <4>5, <5>1 DEF NoFrame, Adds
      <4> QED BY <4>4, <4>6 DEF Loads, Adds
    <3> QED BY Zenon, <3>1, <3>2
  <2>6. first .. (first + j) - 1 \in SUBSET Nat
    BY <1>2
  <2>7. PICK role3 : Loads(x, role2, y, role3, root, F, W, {v})
    BY <2>5
  <2>8. Loads(s, role, y, role3, root, F, W, first .. (first + (j + 1)) - 1)
    <3> DEFINE V == first .. (first + j) - 1
    <3> HIDE DEF x, y, v, V
    <3>1. V \in SUBSET Nat /\ Loads(s, role, x, role2, root, F, W, V)
      BY <2>1, <2>6 DEF V
    <3>2. Loads(s, role, y, role3, root, F, W, V \cup {v})
      BY <2>7, <3>1, LoadsOn
    <3> QED BY Zenon, <2>4, <3>2 DEF V
  <2>9. j + 1 \in 0 .. n
    OBVIOUS
  <2> QED BY <2>8, <2>9
<1> HIDE DEF T
<1>5. \A j \in 0 .. n : j \in T
  BY <1>3, <1>4, BoundedInduction
<1>6. n \in T
  BY <1>5
<1> QED
  BY <1>1, <1>2, <1>6 DEF T

\* The loop of LoadAll
LoadRun(f, first, segs, root, n) ==
    f = [j \in 1 .. n |-> IF j = 1 THEN first ELSE RegionAlloc(f[j - 1], segs[j], root)]

\* There is such a function.
LEMMA LoadLoop ==
    ASSUME NEW first, NEW segs, NEW root, NEW n \in Nat
    PROVE  \E f : LoadRun(f, first, segs, root, n)
<1> DEFINE Run(f, m) == LoadRun(f, first, segs, root, m)
           T == {m \in Nat : \E f : Run(f, m)}
<1>1. 0 \in T
  <2> DEFINE f == [j \in 1 .. 0 |-> first]
  <2>1. Run(f, 0)
    <3>1. \A j \in 1 .. 0 : FALSE
      OBVIOUS
    <3> QED BY <3>1 DEF LoadRun
  <2> HIDE DEF f, Run
  <2> QED BY <2>1
<1>2. ASSUME NEW m \in Nat, m \in T PROVE m + 1 \in T
  <2>1. PICK f : Run(f, m)
    BY <1>2
  <2> DEFINE G(x, j) == IF j = 1 THEN first ELSE RegionAlloc(x, segs[j], root)
             g == [j \in 1 .. m + 1 |-> IF j <= m THEN f[j] ELSE G(f[m], m + 1)]
             h == [j \in 1 .. m + 1 |-> G(g[j - 1], j)]
  <2>2. \A j \in 1 .. m : g[j] = f[j]
    OBVIOUS
  <2>3. g[m + 1] = G(f[m], m + 1)
    OBVIOUS
  <2>4. \A j \in 1 .. m : f[j] = G(f[j - 1], j)
    BY <2>1 DEF LoadRun
  <2>5. \A x, y : G(x, 1) = G(y, 1)
    OBVIOUS
  <2>6. \A j \in 1 .. m + 1 : g[j] = G(g[j - 1], j)
    <3> SUFFICES ASSUME NEW j \in 1 .. m + 1 PROVE g[j] = G(g[j - 1], j)
      OBVIOUS
    <3> HIDE DEF g, G
    <3>1. CASE j = 1
      <4>1. CASE m = 0
        <5>1. g[m + 1] = G(f[m], 1) /\ m + 1 = j
          BY <2>3, <3>1, <4>1
        <5> QED BY <2>5, <3>1, <5>1
      <4>2. CASE m # 0
        <5>1. j \in 1 .. m
          BY <3>1, <4>2
        <5> QED BY <2>2, <2>4, <2>5, <3>1, <5>1
      <4> QED BY <4>1, <4>2
    <3>2. CASE j # 1 /\ j <= m
      <4>1. j \in 1 .. m /\ j - 1 \in 1 .. m
        BY <3>2
      <4> QED BY <2>2, <2>4, <4>1
    <3>3. CASE j # 1 /\ j = m + 1
      <4>1. j - 1 = m /\ m \in 1 .. m
        BY <3>3
      <4> QED BY <2>2, <2>3, <3>3, <4>1
    <3> QED BY <3>1, <3>2, <3>3
  <2>7. g = h
    BY <2>6
  <2>8. Run(g, m + 1)
    <3> HIDE DEF g
    <3> QED BY <2>7 DEF LoadRun
  <2> HIDE DEF Run, g
  <2> QED BY <2>8
<1> HIDE DEF T
<1>3. \A m \in Nat : m \in T
  BY <1>1, <1>2, SetInduction
<1> QED
  BY <1>3 DEF T

\* What LoadAll starts with: the first segment
LoadFirst(s, segs, root, vmaFirst) ==
    IF vmaFirst THEN RegionAlloc(Kmalloc(s, 1), segs[1], root)
    ELSE Kmalloc(RegionAlloc(s, segs[1], root), 1)

\* f holds the images after each segment, the result of LoadAll being the last.
LoadSteps(f, s, segs, root, vmaFirst) ==
    /\ f[1] = LoadFirst(s, segs, root, vmaFirst)
    /\ LoadAll(s, segs, root, vmaFirst) = f[Len(segs)]
    /\ \A j \in 1 .. Len(segs) - 1 : f[j + 1] = RegionAlloc(f[j], segs[j + 1], root)

\* There is such a function.
LEMMA LoadIs ==
    ASSUME NEW s, NEW segs, Len(segs) \in Nat \ {0}, NEW root, NEW vmaFirst
    PROVE  \E f : LoadSteps(f, s, segs, root, vmaFirst)
<1> DEFINE n == Len(segs)
           first == LoadFirst(s, segs, root, vmaFirst)
           Body(f) == [j \in 1 .. n |-> IF j = 1 THEN first ELSE RegionAlloc(f[j - 1], segs[j], root)]
           f == CHOOSE f : f = Body(f)
<1>1. n \in Nat /\ n # 0
  OBVIOUS
<1>2. f = Body(f)
  <2>1. \E g : g = Body(g)
    <3>1. \E g : LoadRun(g, first, segs, root, n)
      <4> HIDE DEF n, first
      <4> QED BY Zenon, <1>1, LoadLoop
    <3> QED BY <3>1 DEF LoadRun
  <2> HIDE DEF Body
  <2> QED BY <2>1
<1>3. LoadAll(s, segs, root, vmaFirst) = f[n]
  BY DEF LoadAll, LoadFirst
<1> HIDE DEF f, n, first
<1>4. \A j \in 1 .. n : f[j] = IF j = 1 THEN first ELSE RegionAlloc(f[j - 1], segs[j], root)
  BY Zenon, <1>2
<1>5. f[1] = first
  BY <1>1, <1>4
<1>6. ASSUME NEW j \in 1 .. n - 1 PROVE f[j + 1] = RegionAlloc(f[j], segs[j + 1], root)
  <2>1. j + 1 \in 1 .. n /\ j + 1 # 1 /\ (j + 1) - 1 = j
    BY <1>1
  <2> QED BY <1>4, <2>1
<1> QED
  BY <1>3, <1>5, <1>6 DEF n, first, LoadSteps

\* The pages of the first n segments
AllPages(segs, n) == UNION {PagesOf(segs[j]) : j \in 1 .. n}

\* The segments of a program
LEMMA ProgramFacts ==
    ASSUME NEW segs \in Programs
    PROVE  /\ Len(segs) \in Nat \ {0} /\ DOMAIN segs = 1 .. Len(segs)
           /\ \A j \in 1 .. Len(segs) : segs[j] \in [va : Nat, size : Nat]
           /\ \A n \in Nat : n <= Len(segs) => AllPages(segs, n) \in SUBSET Nat
<1>1. segs \in Seq([va : Nat, size : Nat]) /\ segs # <<>>
  BY ProgramsAssumption
<1>2. /\ Len(segs) \in Nat \ {0} /\ DOMAIN segs = 1 .. Len(segs)
      /\ \A j \in 1 .. Len(segs) : segs[j] \in [va : Nat, size : Nat]
  <2> DEFINE S == [va : Nat, size : Nat]
  <2>1. segs \in Seq(S)
    BY <1>1
  <2> HIDE DEF S
  <2>2. Len(segs) \in Nat /\ DOMAIN segs = 1 .. Len(segs) /\ \A j \in 1 .. Len(segs) : segs[j] \in S
    BY <2>1
  <2>3. Len(segs) # 0
    BY <1>1, <2>1
  <2> QED BY <2>2, <2>3 DEF S
<1>3. \A j \in 1 .. Len(segs) : PagesOf(segs[j]) \subseteq Nat
  BY <1>2, SegmentFacts DEF PagesOf
<1>4. \A n \in Nat : n <= Len(segs) => AllPages(segs, n) \in SUBSET Nat
  BY <1>2, <1>3 DEF AllPages
<1> QED
  BY Zenon, <1>2, <1>4

\* All segments are mapped, or memory runs out.
LEMMA LoadLoads ==
    ASSUME num_pages \in Nat, num_pages <= Frames,
           NEW s, NEW role, NEW root, NEW F, InSpace(s, role, root, F),
           NEW segs \in Programs, NEW W, NEW vmaFirst \in BOOLEAN,
           \A v \in AllPages(segs, Len(segs)), w \in W : ~Same(v, w)
    PROVE  \E role2 : Loads(s, role, LoadAll(s, segs, root, vmaFirst), role2, root, F, W,
                            AllPages(segs, Len(segs)))
<1> DEFINE n == Len(segs)
<1>1. /\ n \in Nat \ {0}
      /\ \A j \in 1 .. n : segs[j] \in [va : Nat, size : Nat]
      /\ \A m \in Nat : m <= n => AllPages(segs, m) \in SUBSET Nat
  BY Zenon, ProgramFacts
<1>2. PICK f :
        /\ f[1] = LoadFirst(s, segs, root, vmaFirst)
        /\ LoadAll(s, segs, root, vmaFirst) = f[n]
        /\ \A j \in 1 .. n - 1 : f[j + 1] = RegionAlloc(f[j], segs[j + 1], root)
  <2>1. PICK f : LoadSteps(f, s, segs, root, vmaFirst)
    BY Zenon, <1>1, LoadIs
  <2> QED BY <2>1 DEF LoadSteps
<1>3. \A j \in 1 .. n : \A v \in PagesOf(segs[j]), w \in W : ~Same(v, w)
  BY Zenon DEF AllPages
<1> HIDE DEF n
<1> DEFINE T == {j \in 0 .. n - 1 : \E role2 :
                    Loads(s, role, f[j + 1], role2, root, F, W, AllPages(segs, j + 1))}
<1>4. AllPages(segs, 1) = PagesOf(segs[1])
  BY DEF AllPages
<1>5. 1 \in 1 .. n
  BY <1>1
<1>6. 0 \in T
  <2>1. \E role2 : Loads(s, role, f[1], role2, root, F, W, PagesOf(segs[1]))
    <3>1. CASE vmaFirst = TRUE
      <4> DEFINE k == Kmalloc(s, 1)
      <4>1. Evolves(s, role, k, role, F, W)
        BY KmallocEvolves DEF InSpace
      <4>2. InSpace(k, role, root, F)
        BY <4>1, InSpaceKept
      <4>3. f[1] = RegionAlloc(k, segs[1], root)
        BY Zenon, <1>2, <3>1 DEF LoadFirst
      <4> HIDE DEF k
      <4>4. PICK role2 : Loads(k, role, f[1], role2, root, F, W, PagesOf(segs[1]))
        <5>1. segs[1] \in [va : Nat, size : Nat] /\ \A v \in PagesOf(segs[1]), w \in W : ~Same(v, w)
          BY <1>1, <1>3, <1>5
        <5> QED BY Zenon, <4>2, <4>3, <5>1, RegionLoads
      <4> QED BY Zenon, <4>1, <4>4, EvolvesOn DEF Loads
    <3>2. CASE vmaFirst = FALSE
      <4> DEFINE r == RegionAlloc(s, segs[1], root)
      <4>1. PICK role2 : Loads(s, role, r, role2, root, F, W, PagesOf(segs[1]))
        <5>1. segs[1] \in [va : Nat, size : Nat] /\ \A v \in PagesOf(segs[1]), w \in W : ~Same(v, w)
          BY <1>1, <1>3, <1>5
        <5> QED BY Zenon, <5>1, RegionLoads
      <4>2. f[1] = Kmalloc(r, 1)
        BY Zenon, <1>2, <3>2 DEF LoadFirst
      <4> HIDE DEF r
      <4>3. Loads(r, role2, f[1], role2, root, F, W, {})
        BY Zenon, <4>1, <4>2, KmallocEvolves DEF Loads, Evolves
      <4>4. PagesOf(segs[1]) \in SUBSET Nat
        BY <1>1, <1>4
      <4>5. Loads(s, role, f[1], role2, root, F, W, PagesOf(segs[1]) \cup {})
        BY Zenon, <4>1, <4>3, <4>4, LoadsOn
      <4> QED BY <4>5
    <3> QED BY Zenon, <3>1, <3>2
  <2>2. 0 \in 0 .. n - 1 /\ 0 + 1 = 1
    BY <1>1
  <2> QED BY <1>4, <2>1, <2>2
<1>7. ASSUME NEW j \in 0 .. (n - 1) - 1, j \in T PROVE j + 1 \in T
  <2> DEFINE i == j + 1
  <2>1. i \in 1 .. n - 1 /\ i \in Nat /\ i <= n /\ i + 1 \in 1 .. n /\ i \in 0 .. n - 1
    BY <1>1
  <2>2. PICK role2 : Loads(s, role, f[i], role2, root, F, W, AllPages(segs, i))
    BY Zenon, <1>7
  <2> HIDE DEF i
  <2>3. InSpace(f[i], role2, root, F)
    BY <2>2, InSpaceKept DEF Loads
  <2>4. PICK role3 : Loads(f[i], role2, f[i + 1], role3, root, F, W, PagesOf(segs[i + 1]))
    <3>1. f[i + 1] = RegionAlloc(f[i], segs[i + 1], root)
      BY Zenon, <1>2, <2>1
    <3>2. /\ segs[i + 1] \in [va : Nat, size : Nat]
          /\ \A v \in PagesOf(segs[i + 1]), w \in W : ~Same(v, w)
      BY Zenon, <1>1, <1>3, <2>1
    <3> QED BY Zenon, <2>3, <3>1, <3>2, RegionLoads
  <2>5. Loads(s, role, f[i + 1], role3, root, F, W, AllPages(segs, i) \cup PagesOf(segs[i + 1]))
    BY Zenon, <1>1, <2>1, <2>2, <2>4, LoadsOn
  <2>6. AllPages(segs, i) \cup PagesOf(segs[i + 1]) = AllPages(segs, i + 1)
    <3>1. 1 .. i + 1 = (1 .. i) \cup {i + 1}
      BY <2>1
    <3> QED BY <3>1 DEF AllPages
  <2> QED BY Zenon, <2>1, <2>5, <2>6 DEF i
<1> HIDE DEF T
<1>8. \A j \in 0 .. n - 1 : j \in T
  <2>1. n - 1 \in Nat
    BY <1>1
  <2> QED BY Zenon, <1>6, <1>7, <2>1, BoundedInduction
<1>9. n - 1 \in T /\ (n - 1) + 1 = n
  BY <1>1, <1>8
<1> QED
  BY Zenon, <1>2, <1>9 DEF T, n

-----------------------------------------------------------------------------

\* The pages of stacks in frames below n
StackPages(n) == {StackPage(f) : f \in {g \in Frame : g < n}}

\* Each frame has its own page for a stack, in the part of the programs.
LEMMA StackFacts ==
    ASSUME NEW f \in Frame
    PROVE  /\ f \in Nat /\ StackPage(f) \in Nat /\ StackPage(f) < Pages /\ StackBase <= StackPage(f)
           /\ pml4_off(StackPage(f)) # Entries - 1
           /\ \A g \in Frame : StackPage(g) = StackPage(f) => g = f
<1>1. StackBase \in Nat /\ \A g \in Frame : g \in Nat
  BY AddressSpaceAssumption, PagingAssumption DEF Frame
<1>2. pml4_off(StackBase + f) # Entries - 1 /\ StackBase + f < Pages
  BY AddressSpaceAssumption
<1> QED
  BY <1>1, <1>2 DEF StackPage

\* No segment shares a page with a stack, and no two stacks do.
LEMMA StacksDiffer ==
    ASSUME NEW f \in Frame
    PROVE  /\ \A g \in Frame : Same(StackPage(f), StackPage(g)) => f = g
           /\ \A segs \in Programs : \A v \in AllPages(segs, Len(segs)) : ~Same(v, StackPage(f))
<1>1. \A g \in Frame : Same(StackPage(f), StackPage(g)) => f = g
  BY StackFacts, SameIsEqual
<1>2. ASSUME NEW segs \in Programs, NEW v \in AllPages(segs, Len(segs)), Same(v, StackPage(f))
      PROVE  FALSE
  <2>1. /\ Len(segs) \in Nat /\ DOMAIN segs = 1 .. Len(segs)
        /\ \A j \in 1 .. Len(segs) : segs[j] \in [va : Nat, size : Nat]
    BY ProgramFacts
  <2>2. PICK j \in 1 .. Len(segs) : v \in PagesOf(segs[j])
    BY <2>1 DEF AllPages
  <2>3. EndPage(segs[j]) <= StackBase
    BY <2>1, ProgramsAssumption
  <2>4. v \in Nat /\ v < StackBase
    <3>1. FirstPage(segs[j]) \in Nat /\ EndPage(segs[j]) \in Nat /\ StackBase \in Nat
      BY Zenon, <2>1, SegmentFacts, AddressSpaceAssumption
    <3> QED BY <2>2, <2>3, <3>1 DEF PagesOf
  <2>5. StackBase \in Nat /\ StackPage(f) \in Nat /\ StackBase <= StackPage(f) /\ StackPage(f) < Pages
    BY StackFacts, AddressSpaceAssumption
  <2>6. Pages \in Nat
    BY PagingAssumption DEF Pages
  <2>7. v < Pages /\ v # StackPage(f)
    BY <2>4, <2>5, <2>6
  <2> QED BY Zenon, <1>2, <2>4, <2>5, <2>7, SameIsEqual
<1> QED
  BY <1>1, <1>2

\* A stack and the segments for a new task with the top level table root
TaskLoaded(s, role, r, role2, root, segs, F, W) ==
    /\ Evolves(s, role, r, role2, F, W)
    /\ s.free \in Frame /\ s.free < r.free
    /\ Walk(r, root, StackPage(s.free)) = s.free
    /\ \A v \in AllPages(segs, Len(segs)) : Walk(r, root, v) # NoFrame

\* kmalloc_stack and LoadAll do this where memory suffices.
LEMMA TaskLoads ==
    ASSUME num_pages \in Nat, num_pages <= Frames,
           NEW s, NEW role, NEW root, NEW F, InSpace(s, role, root, F),
           NEW segs \in Programs, NEW vmaFirst \in BOOLEAN, NEW W \in SUBSET StackPages(s.free),
           LoadAll(KmallocStack(s, root), segs, root, vmaFirst).free <= num_pages
    PROVE  \E role2 : TaskLoaded(s, role, LoadAll(KmallocStack(s, root), segs, root, vmaFirst),
                                 role2, root, segs, F, W)
<1> DEFINE v == StackPage(s.free)
           k == KmallocStack(s, root)
           r == LoadAll(k, segs, root, vmaFirst)
<1>1. s.free \in Nat /\ k = UserPage(s, v, root)
  BY Zenon DEF InSpace, Structure, Typed, IsImage, KmallocStack
<1>2. v \in Nat
  BY <1>1, AddressSpaceAssumption DEF StackPage
<1> HIDE DEF k, v
<1>3. PICK role1 : Adds(s, role, k, role1, root, v, F, {})
  BY Zenon, <1>1, <1>2, UserPageAdds
<1>4. InSpace(k, role1, root, F)
  BY <1>3, InSpaceKept DEF Adds
<1>5. PICK role2 : Loads(k, role1, r, role2, root, F, {}, AllPages(segs, Len(segs)))
  BY Zenon, <1>4, LoadLoads
<1> HIDE DEF r
<1>6. k.free \in Nat /\ k.free <= r.free /\ r.free \in Nat /\ s.free < k.free
  BY Zenon, <1>3, <1>5 DEF Adds, Loads, Evolves, Structure, Typed, IsImage
<1>7. r.free <= num_pages
  BY DEF r, k
<1>8. s.free \in Frame /\ s.free < r.free
  BY <1>1, <1>6, <1>7, PagingAssumption DEF Frame
<1>9. \A w \in W : ~Same(v, w)
  <2> SUFFICES ASSUME NEW w \in W, Same(v, w) PROVE FALSE
    OBVIOUS
  <2>1. PICK f \in Frame : f < s.free /\ w = StackPage(f)
    BY DEF StackPages
  <2>2. s.free = f
    BY Zenon, <1>8, <2>1, StacksDiffer DEF v
  <2> QED BY <1>1, <2>1, <2>2
<1>10. PICK role3 : Adds(s, role, k, role3, root, v, F, W)
  BY Zenon, <1>1, <1>2, <1>9, UserPageAdds
<1>11. InSpace(k, role3, root, F)
  BY Zenon, <1>10, InSpaceKept DEF Adds
<1> DEFINE X == W \cup {v}
<1>12. \A u \in AllPages(segs, Len(segs)), w \in X : ~Same(u, w)
  <2> SUFFICES ASSUME NEW u \in AllPages(segs, Len(segs)), NEW w \in X PROVE ~Same(u, w)
    OBVIOUS
  <2>1. PICK f \in Frame : w = StackPage(f)
    BY <1>8 DEF StackPages, v
  <2> QED BY <2>1, StacksDiffer
<1> HIDE DEF X
<1>13. PICK role4 : Loads(k, role3, r, role4, root, F, X, AllPages(segs, Len(segs)))
  BY Zenon, <1>11, <1>12, LoadLoads DEF r
<1>14. Evolves(k, role3, r, role4, F, W)
  <2>1. W \in SUBSET X
    BY Zenon DEF X
  <2> QED BY Zenon, <1>13, <2>1, EvolvesSubset DEF Loads
<1>15. Evolves(s, role, r, role4, F, W)
  BY Zenon, <1>10, <1>14, EvolvesOn DEF Adds
<1>16. Walk(k, root, v) = s.free
  <2>1. k.free <= Frames + 1
    BY SMTT(30), <1>6, <1>7, PagingAssumption
  <2> QED BY <1>10, <2>1 DEF Adds
<1>17. Walk(r, root, v) = s.free
  <2>1. v \in X /\ Walk(k, root, v) # NoFrame
    BY <1>1, <1>16 DEF X, NoFrame
  <2>2. root \in Nat /\ role3[root].lev = 1
    BY <1>11 DEF InSpace
  <2>3. Evolves(k, role3, r, role4, F, X)
    BY <1>13 DEF Loads
  <2> QED BY SMTT(30), <1>2, <1>16, <2>1, <2>2, <2>3, WalkKept
<1>18. \A u \in AllPages(segs, Len(segs)) : Walk(r, root, u) # NoFrame
  BY <1>7, <1>13 DEF Loads
<1>19. TaskLoaded(s, role, r, role4, root, segs, F, W)
  BY Zenon, <1>8, <1>15, <1>17, <1>18 DEF TaskLoaded, v
<1> QED
  BY <1>19 DEF r, k

-----------------------------------------------------------------------------

\* s has the kernel's address space.
KernelSpace(s, role) ==
    InSpace(s, role, ker_pml4, 0) /\ role[ker_pml4] = RootRole(0)

\* From s to r, the page s.free has the kernel's last entry and nothing else, and
\* no role as yet.
NewRoot(s, role, r, F, W) ==
    /\ Evolves(s, role, r, role, F, W) /\ s.free \in Nat /\ s.free < r.free
    /\ s.free \in DOMAIN r.mem /\ role[s.free].lev = 0
    /\ \A i \in Index : r.mem[s.free][i] =
         IF i = Entries - 1 THEN s.mem[ker_pml4][Entries - 1] ELSE 0

\* NewPml4: a page without a role as yet
LEMMA NewPml4Evolves ==
    ASSUME NEW s, NEW role, KernelSpace(s, role), NEW F, NEW W
    PROVE  NewRoot(s, role, NewPml4(s), F, W)
<1> USE DEF NewRoot
<1> DEFINE k == Kmalloc(s, 1)
           f == s.free
           e == s.mem[ker_pml4][Entries - 1]
           r == NewPml4(s)
<1>1. Structure(s, role) /\ ker_pml4 \in Nat /\ role[ker_pml4].lev = 1
  BY DEF KernelSpace, InSpace
<1>2. IsImage(s) /\ f \in Nat /\ ker_pml4 \in DOMAIN s.mem /\ role[f].lev = 0
  BY <1>1 DEF Structure, Typed, IsImage
<1>3. e \in Nat
  BY Zenon, <1>2, IndexNumbers DEF IsImage
<1>4. /\ IsImage(k) /\ k.free = f + 1 /\ k.user = s.user
      /\ f \in DOMAIN k.mem /\ k.mem[f] = ZeroPage
  BY <1>2, KmallocOne DEF AllocatesOne
<1>5. Evolves(s, role, k, role, F, W)
  BY <1>1, KmallocEvolves
<1>6. r = Put(k, f, Entries - 1, e)
  BY Zenon DEF NewPml4, Put
<1> HIDE DEF k, f, e, r
<1>7. /\ IsImage(r) /\ r.free = k.free /\ r.user = k.user /\ DOMAIN r.mem = DOMAIN k.mem
      /\ \A g \in DOMAIN k.mem, i \in Index :
            r.mem[g][i] = IF g = f /\ i = Entries - 1 THEN e ELSE k.mem[g][i]
  BY SMTT(30), <1>3, <1>4, <1>6, IndexNumbers, PutFacts DEF Stores
<1>8. \A g \in DOMAIN k.mem : g # f => r.mem[g] = k.mem[g]
  <2> SUFFICES ASSUME NEW g \in DOMAIN k.mem, g # f PROVE r.mem[g] = k.mem[g]
    OBVIOUS
  <2>1. r.mem[g] \in [Index -> Nat] /\ k.mem[g] \in [Index -> Nat]
    BY Zenon, <1>4, <1>7 DEF IsImage
  <2>2. \A i \in Index : r.mem[g][i] = k.mem[g][i]
    BY Zenon, <1>7
  <2> QED BY <2>1, <2>2
<1>9. Evolves(k, role, r, role, F, W)
  BY Zenon, <1>2, <1>5, <1>7, <1>8, PlainEvolves DEF Evolves
<1>10. Evolves(s, role, r, role, F, W)
  BY <1>5, <1>9, EvolvesOn
<1>11. \A i \in Index : r.mem[f][i] = IF i = Entries - 1 THEN e ELSE 0
  BY Zenon, <1>4, <1>7 DEF ZeroPage
<1> QED
  BY <1>2, <1>4, <1>7, <1>10, <1>11 DEF r, f, e

\* A task of family F was created, with the top level table root and stack frame f.
Created(s, role, r, role2, root, f, segs, F, W) ==
    /\ Evolves(s, role, r, role2, F, W)
    /\ root \in Nat /\ role2[root] = RootRole(F)
    /\ f \in Frame /\ f < r.free
    /\ Walk(r, root, StackPage(f)) = f
    /\ \A v \in AllPages(segs, Len(segs)) : Walk(r, root, v) # NoFrame

\* NewPml4 and n more pages, of which none is a table
LEMMA NewRootPlain ==
    ASSUME NEW s, NEW role, KernelSpace(s, role), NEW n \in Nat, NEW F, NEW W
    PROVE  NewRoot(s, role, Kmalloc(NewPml4(s), n), F, W)
<1> USE DEF NewRoot
<1> DEFINE r == NewPml4(s)
           k == Kmalloc(r, n)
<1>1. /\ Evolves(s, role, r, role, F, W) /\ s.free \in Nat /\ s.free < r.free
      /\ s.free \in DOMAIN r.mem /\ role[s.free].lev = 0
      /\ \A i \in Index : r.mem[s.free][i] =
            IF i = Entries - 1 THEN s.mem[ker_pml4][Entries - 1] ELSE 0
  BY Zenon, NewPml4Evolves DEF NewRoot
<1> HIDE DEF r
<1>2. Structure(r, role) /\ IsImage(r)
  BY Zenon, <1>1 DEF Evolves, Structure, Typed
<1>3. Evolves(s, role, k, role, F, W)
  BY Zenon, <1>1, <1>2, KmallocEvolves, EvolvesOn
<1>4. /\ k.free = r.free + n /\ DOMAIN r.mem \subseteq DOMAIN k.mem
      /\ \A f \in DOMAIN r.mem : f < r.free => k.mem[f] = r.mem[f]
  BY <1>2, KmallocFacts DEF Allocates
<1> HIDE DEF k
<1>5. r.free \in Nat
  BY Zenon, <1>2 DEF IsImage
<1>6. s.free < r.free /\ s.free < k.free
  BY SMTT(30), <1>1, <1>4, <1>5
<1>7. k.mem[s.free] = r.mem[s.free] /\ s.free \in DOMAIN k.mem
  BY <1>1, <1>4, <1>6
<1> QED
  BY Zenon, <1>1, <1>3, <1>6, <1>7 DEF r, k

\* The images and pages of ElfRunBin
ElfTable(s) == Kmalloc(s, 1).free
ElfPlain(s) == Kmalloc(NewPml4(Kmalloc(s, 1)), TaskPages)
ElfImage(s, segs) ==
    Kmalloc(LoadAll(KmallocStack(ElfPlain(s), ElfTable(s)), segs, ElfTable(s), FALSE), 1)

\* elf_run_bin creates a task where memory suffices.
LEMMA ElfCreates ==
    ASSUME num_pages \in Nat, num_pages <= Frames,
           NEW s, NEW role, KernelSpace(s, role), NEW F \in Nat, NEW segs \in Programs,
           NEW W \in SUBSET StackPages(s.free), ElfImage(s, segs).free <= num_pages
    PROVE  \E role2 : Created(s, role, ElfImage(s, segs), role2, ElfTable(s), ElfPlain(s).free,
                              segs, F, W)
<1> DEFINE s1 == Kmalloc(s, 1)
           root == s1.free
           s2 == ElfPlain(s)
           s3 == LoadAll(KmallocStack(s2, root), segs, root, FALSE)
           r == ElfImage(s, segs)
<1>1. Evolves(s, role, s1, role, F, W)
  BY KmallocEvolves DEF KernelSpace, InSpace
<1>2. KernelSpace(s1, role)
  BY Zenon, <1>1, InSpaceKept DEF KernelSpace
<1> HIDE DEF s1
<1>3. /\ Evolves(s1, role, s2, role, F, W) /\ root \in Nat /\ root < s2.free
      /\ root \in DOMAIN s2.mem /\ role[root].lev = 0
      /\ \A i \in Index : s2.mem[root][i] =
            IF i = Entries - 1 THEN s1.mem[ker_pml4][Entries - 1] ELSE 0
  <2>1. TaskPages \in Nat
    BY AddressSpaceAssumption
  <2> QED BY Zenon, <1>2, <2>1, NewRootPlain DEF ElfPlain, s1, NewRoot
<1>4. r = Kmalloc(s3, 1) /\ ElfTable(s) = root
  BY Zenon DEF ElfImage, ElfTable, s1
<1> HIDE DEF s2, root
<1>5. Structure(s2, role) /\ Linked(s2, role)
  BY Zenon, <1>2, <1>3 DEF KernelSpace, InSpace, Evolves
<1> DEFINE e == s1.mem[ker_pml4][Entries - 1]
<1>6. IsPresent(e) /\ ~IsUser(e) /\ role[FrameOf(e)] = Child(RootRole(F), Entries - 1)
  BY SMTT(30), <1>2, KernelEntry DEF KernelSpace, InSpace, IsKernelEntry
<1> HIDE DEF e
<1>7. \A i \in Index : s2.mem[root][i] = IF i = Entries - 1 THEN e ELSE 0
  BY Zenon, <1>3 DEF e
<1>8. \A i \in Index : IsPresent(s2.mem[root][i])
        => role[FrameOf(s2.mem[root][i])] = Child(RootRole(F), i)
  BY Zenon, <1>6, <1>7, ZeroFacts
<1>9. IsPresent(s2.mem[root][Entries - 1]) /\ ~IsUser(s2.mem[root][Entries - 1])
  BY Zenon, <1>6, <1>7, IndexNumbers
<1> DEFINE role1 == [role EXCEPT ![root] = RootRole(F)]
<1>10. /\ Evolves(s2, role, s2, role1, F, W) /\ role1[root] = RootRole(F)
       /\ InSpace(s2, role1, root, F)
  <2>1. root \in Nat /\ root < s2.free /\ root \in DOMAIN s2.mem /\ role[root].lev = 0
    BY Zenon, <1>3
  <2> QED BY SMTT(30), <1>5, <1>8, <1>9, <2>1, RootEvolves DEF FitsRoot
<1> HIDE DEF role1
<1>11. Evolves(s, role, s2, role1, F, W)
  BY Zenon, <1>1, <1>3, <1>10, EvolvesOn
<1>12. W \in SUBSET StackPages(s2.free)
  <2>1. s.free <= s2.free /\ s.free \in Nat /\ s2.free \in Nat
    BY <1>11 DEF Evolves, Structure, Typed, IsImage
  <2>2. \A g \in Frame : g \in Nat
    BY PagingAssumption DEF Frame
  <2>3. \A g \in Frame : g < s.free => g < s2.free
    BY <2>1, <2>2
  <2> QED BY Zenon, <2>3 DEF StackPages
<1>13. \E role2 : Loads(s2, role1, s3, role2, root, F, {}, {}) /\ s3.free + 1 = r.free /\ s3.free \in Nat
  <2> DEFINE k == KmallocStack(s2, root)
             v == StackPage(s2.free)
  <2>1. s2.free \in Nat
    BY <1>5 DEF Structure, Typed, IsImage
  <2>2. k = UserPage(s2, v, root) /\ v \in Nat
    BY SMTT(30), <2>1, AddressSpaceAssumption DEF KmallocStack, StackPage
  <2> HIDE DEF k, v
  <2>3. PICK role2 : Adds(s2, role1, k, role2, root, v, F, {})
    BY Zenon, <1>10, <2>2, UserPageAdds
  <2>4. InSpace(k, role2, root, F)
    BY Zenon, <1>10, <2>3, InSpaceKept DEF Adds
  <2>5. PICK role3 : Loads(k, role2, s3, role3, root, F, {}, AllPages(segs, Len(segs)))
    BY ZenonT(30), <2>4, LoadLoads DEF k
  <2> HIDE DEF s3
  <2>6. Evolves(s2, role1, s3, role3, F, {})
    BY Zenon, <2>3, <2>5, EvolvesOn DEF Adds, Loads
  <2>7. IsImage(s3)
    BY SMTT(30), <2>6 DEF Evolves, Structure, Typed
  <2>8. r.free = s3.free + 1 /\ s3.free \in Nat
    BY ZenonT(30), <1>4, <2>7, KmallocOne DEF IsImage, AllocatesOne
  <2> QED BY <2>6, <2>8 DEF Loads
<1>14. s3.free <= num_pages
  <2> HIDE DEF s3, r
  <2>1. r.free <= num_pages
    BY DEF r
  <2> QED BY <1>13, <2>1
<1>15. PICK role2 : TaskLoaded(s2, role1, s3, role2, root, segs, F, W)
  BY Zenon, <1>10, <1>12, <1>14, TaskLoads
<1> HIDE DEF s3, r
<1>16. Evolves(s3, role2, r, role2, F, W)
  BY Zenon, <1>4, <1>15, KmallocEvolves DEF TaskLoaded, Evolves
<1>17. Evolves(s, role, r, role2, F, W)
  BY Zenon, <1>11, <1>15, <1>16, EvolvesOn DEF TaskLoaded
<1>18. role2[root] = RootRole(F) /\ role2[root].lev = 1
  <2>1. role2[root] = role1[root]
    BY <1>10, <1>15, InSpaceKept DEF TaskLoaded
  <2> QED BY Zenon, <1>10, <2>1, RootRoleFacts
<1>19. s2.free \in Frame /\ s2.free \in Nat /\ s2.free < r.free
  <2>1. s2.free \in Frame /\ s2.free < s3.free
    BY Zenon, <1>15 DEF TaskLoaded
  <2>2. s2.free \in Nat /\ s3.free \in Nat /\ r.free \in Nat /\ s3.free <= r.free
    BY Zenon, <1>5, <1>16 DEF Evolves, Structure, Typed, IsImage
  <2> QED BY <2>1, <2>2
<1>20. Walk(r, root, StackPage(s2.free)) = s2.free
  <2>1. Evolves(s3, role2, r, role2, F, {StackPage(s2.free)})
    BY Zenon, <1>4, <1>16, KmallocEvolves DEF Evolves
  <2>2. Walk(s3, root, StackPage(s2.free)) = s2.free /\ s2.free # NoFrame
    BY <1>15, <1>19 DEF TaskLoaded, NoFrame
  <2>3. StackPage(s2.free) \in Nat
    BY Zenon, <1>19, StackFacts
  <2> QED BY SMTT(30), <1>3, <1>18, <2>1, <2>2, <2>3, WalkKept
<1>21. \A v \in AllPages(segs, Len(segs)) : Walk(r, root, v) # NoFrame
  <2>1. \A v \in AllPages(segs, Len(segs)) : v \in Nat
    BY SMTT(30), ProgramFacts
  <2> QED BY SMTT(30), <1>3, <1>15, <1>16, <1>18, <2>1, WalkKept DEF TaskLoaded
<1>22. Created(s, role, r, role2, root, s2.free, segs, F, W)
  BY Zenon, <1>3, <1>17, <1>18, <1>19, <1>20, <1>21 DEF Created
<1> QED
  BY Zenon, <1>4, <1>22 DEF r, s2

\* The images and pages of SysFork
ForkStart(s) == Kmalloc(Kmalloc(s, TaskPages), 1)
ForkTable(s) == ForkStart(s).free
ForkPlain(s) == Kmalloc(NewPml4(ForkStart(s)), 2)
ForkCopy(s, parent) == Row(ForkPlain(s), ForkTable(s), ForkPlain(s).mem[parent])
ForkImage(s, parent, segs) ==
    LoadAll(KmallocStack(ForkCopy(s, parent), ForkTable(s)), segs, ForkTable(s), TRUE)

\* sys_fork creates a task of the parent's family where memory suffices.
LEMMA ForkCreates ==
    ASSUME num_pages \in Nat, num_pages <= Frames,
           NEW s, NEW role, KernelSpace(s, role), NEW F \in Nat, NEW segs \in Programs,
           NEW W \in SUBSET StackPages(s.free),
           NEW parent \in Nat, role[parent] = RootRole(F),
           ForkImage(s, parent, segs).free <= num_pages
    PROVE  \E role2 : Created(s, role, ForkImage(s, parent, segs), role2, ForkTable(s),
                              ForkCopy(s, parent).free, segs, F, W)
<1> DEFINE s1 == ForkStart(s)
           root == ForkTable(s)
           s2 == ForkPlain(s)
           s3 == ForkCopy(s, parent)
           r == ForkImage(s, parent, segs)
<1>1. Evolves(s, role, s1, role, F, W)
  <2> DEFINE k == Kmalloc(s, TaskPages)
  <2>1. Evolves(s, role, k, role, F, W)
    BY KmallocEvolves, AddressSpaceAssumption DEF KernelSpace, InSpace
  <2>2. s1 = Kmalloc(k, 1)
    BY Zenon DEF ForkStart
  <2> HIDE DEF k, s1
  <2>3. Evolves(k, role, s1, role, F, W)
    BY Zenon, <2>1, <2>2, KmallocEvolves DEF Evolves
  <2> QED BY Zenon, <2>1, <2>3, EvolvesOn
<1> HIDE DEF s1
<1>2. KernelSpace(s1, role)
  BY Zenon, <1>1, InSpaceKept DEF KernelSpace
<1>3. /\ Evolves(s1, role, s2, role, F, W) /\ root \in Nat /\ root < s2.free
      /\ root \in DOMAIN s2.mem /\ role[root].lev = 0
  BY ZenonT(30), <1>2, NewRootPlain DEF ForkPlain, ForkTable, s1, NewRoot
<1>4. s3 = Row(s2, root, s2.mem[parent])
  BY Zenon DEF ForkCopy
<1>5. r = LoadAll(KmallocStack(s3, root), segs, root, TRUE)
  BY SMTT(30) DEF ForkImage
<1> HIDE DEF s2, root, s3
<1>6. Structure(s2, role) /\ Linked(s2, role) /\ IsImage(s2)
  BY ZenonT(30), <1>2, <1>3 DEF KernelSpace, InSpace, Evolves, Structure, Typed
<1>7. /\ role[parent].lev = 1 /\ role[parent].lev \in 1 .. 3 /\ role[parent].lev \in 1 .. 4
      /\ parent # root /\ parent \in DOMAIN s2.mem
  <2>1. role[parent].lev = 1
    BY Zenon, RootRoleFacts
  <2>2. role[parent].lev \in 1 .. 3 /\ role[parent].lev \in 1 .. 4
    BY <2>1
  <2> QED BY SMTT(30), <1>3, <1>6, <2>1, <2>2 DEF Structure, Typed
<1> DEFINE row == s2.mem[parent]
<1>8. row \in [Index -> Nat]
  BY Zenon, <1>6, <1>7 DEF IsImage
<1>9. /\ IsImage(s3) /\ s3.free = s2.free /\ s3.user = s2.user /\ DOMAIN s3.mem = DOMAIN s2.mem
      /\ \A f \in DOMAIN s2.mem : s3.mem[f] = IF f = root THEN row ELSE s2.mem[f]
  <2> HIDE DEF row
  <2> QED BY SMTT(30), <1>3, <1>4, <1>6, <1>8, RowFacts DEF row, Replaces
<1>10. Evolves(s2, role, s3, role, F, W)
  BY Zenon, <1>3, <1>6, <1>9, PlainEvolves
<1>11. s3.mem[root] = s2.mem[parent]
  BY Zenon, <1>3, <1>9
<1>12. \A i \in Index : IsPresent(s3.mem[root][i])
        => role[FrameOf(s3.mem[root][i])] = Child(RootRole(F), i)
  BY Zenon, <1>6, <1>7, <1>11 DEF Structure, Tree
<1>13. IsPresent(s3.mem[root][Entries - 1]) /\ ~IsUser(s3.mem[root][Entries - 1])
  BY Zenon, <1>6, <1>7, <1>11 DEF Linked, Structure, Guarded
<1> DEFINE role1 == [role EXCEPT ![root] = RootRole(F)]
<1>14. /\ Evolves(s3, role, s3, role1, F, W) /\ role1[root] = RootRole(F)
       /\ InSpace(s3, role1, root, F)
  <2>1. Structure(s3, role) /\ Linked(s3, role)
    BY Zenon, <1>6, <1>10 DEF Evolves
  <2>2. root < s3.free /\ root \in DOMAIN s3.mem
    BY Zenon, <1>3, <1>9
  <2> QED BY SMTT(30), <1>3, <1>12, <1>13, <2>1, <2>2, RootEvolves DEF FitsRoot
<1> HIDE DEF role1, row
<1>15. Evolves(s, role, s3, role1, F, W)
  BY Zenon, <1>1, <1>3, <1>10, <1>14, EvolvesOn
<1>16. W \in SUBSET StackPages(s3.free)
  <2>1. s.free <= s3.free /\ s.free \in Nat /\ s3.free \in Nat
    BY <1>15 DEF Evolves, Structure, Typed, IsImage
  <2>2. \A g \in Frame : g \in Nat
    BY PagingAssumption DEF Frame
  <2>3. \A g \in Frame : g < s.free => g < s3.free
    BY SMTT(30), <2>1, <2>2
  <2> QED BY Zenon, <2>3 DEF StackPages
<1>17. PICK role2 : TaskLoaded(s3, role1, r, role2, root, segs, F, W)
  <2>1. LoadAll(KmallocStack(s3, root), segs, root, TRUE).free <= num_pages
    BY Zenon, <1>5
  <2> HIDE DEF r
  <2> QED BY Zenon, <1>5, <1>14, <1>16, <2>1, TaskLoads
<1> HIDE DEF r
<1>18. Evolves(s, role, r, role2, F, W)
  BY Zenon, <1>15, <1>17, EvolvesOn DEF TaskLoaded
<1>19. role2[root] = RootRole(F)
  <2>1. role2[root] = role1[root]
    BY SMTT(30), <1>14, <1>17, InSpaceKept DEF TaskLoaded
  <2> QED BY Zenon, <1>14, <2>1
<1>20. Created(s, role, r, role2, root, s3.free, segs, F, W)
  BY Zenon, <1>3, <1>17, <1>18, <1>19 DEF TaskLoaded, Created
<1> QED
  BY <1>20 DEF r, root, s3

-----------------------------------------------------------------------------

\* Tasks, as AddressSpace records them
TaskSet == [pml4 : Nat, segs : Programs, stack : Nat, frame : Nat]

\* A task of family F: its stack and its segments are mapped.
TaskOk(s, role, task, F) ==
    /\ task \in TaskSet /\ F \in Nat \ {0} /\ role[task.pml4] = RootRole(F)
    /\ task.frame \in Frame /\ task.frame < s.free /\ task.stack = StackPage(task.frame)
    /\ Walk(s, task.pml4, task.stack) = task.frame
    /\ \A v \in AllPages(task.segs, Len(task.segs)) : Walk(s, task.pml4, v) # NoFrame

\* Every task is.
AllOk(s, role, ts, fam) == \A t \in 1 .. Len(ts) : TaskOk(s, role, ts[t], fam[t])

\* A page of a family was handed out to one of its tasks.
Owned(role, fam, giv) ==
    \A f \in Nat : role[f].lev = 5 =>
        \E u \in 1 .. Len(fam) : fam[u] = role[f].own /\ f \in giv[u]

\* ker is the kernel's top level table.
Kernel(s, role, ker) == InSpace(s, role, ker, 0) /\ role[ker] = RootRole(0)

\* The pages of the tasks' stacks
Stacks(ts) == {ts[t].stack : t \in 1 .. Len(ts)}

\* A step that spares the stacks leaves a task sound.
LEMMA TaskOkKept ==
    ASSUME NEW s, NEW role, NEW task, NEW F, TaskOk(s, role, task, F),
           NEW r, NEW role2, NEW G, NEW W, task.stack \in W, Evolves(s, role, r, role2, G, W)
    PROVE  TaskOk(r, role2, task, F)
<1>1. /\ task.pml4 \in Nat /\ task.segs \in Programs /\ task.stack \in Nat /\ task.frame \in Nat
      /\ F \in Nat
  BY Zenon DEF TaskOk, TaskSet
<1>2. role[task.pml4].lev = 1
  BY Zenon, <1>1, RootRoleFacts DEF TaskOk
<1>3. role2[task.pml4] = RootRole(F)
  BY <1>1, <1>2 DEF Evolves, Extends, TaskOk
<1>4. task.frame < r.free
  <2>1. s.free \in Nat /\ r.free \in Nat /\ s.free <= r.free
    BY Zenon DEF Evolves, Structure, Typed, IsImage
  <2> QED BY SMTT(30), <1>1, <2>1 DEF TaskOk
<1>5. Walk(r, task.pml4, task.stack) = task.frame
  <2>1. Walk(s, task.pml4, task.stack) = task.frame /\ task.frame # NoFrame
    BY SMTT(30), <1>1 DEF TaskOk, NoFrame
  <2> QED BY SMTT(30), <1>1, <1>2, <2>1, WalkKept
<1>6. \A v \in AllPages(task.segs, Len(task.segs)) : Walk(r, task.pml4, v) # NoFrame
  <2>1. \A v \in AllPages(task.segs, Len(task.segs)) : v \in Nat
    BY SMTT(30), <1>1, ProgramFacts
  <2>2. \A v \in AllPages(task.segs, Len(task.segs)) : Walk(s, task.pml4, v) # NoFrame
    BY Zenon DEF TaskOk
  <2> TAKE v \in AllPages(task.segs, Len(task.segs))
  <2>3. v \in Nat /\ Walk(s, task.pml4, v) # NoFrame
    BY Zenon, <2>1, <2>2
  <2> QED BY SMTT(30), <1>1, <1>2, <2>3, WalkKept
<1> QED
  BY Zenon, <1>3, <1>4, <1>5, <1>6 DEF TaskOk

\* It leaves all of them sound.
LEMMA AllOkKept ==
    ASSUME NEW s, NEW role, NEW ts, NEW fam, AllOk(s, role, ts, fam), NEW r, NEW role2, NEW G,
           Evolves(s, role, r, role2, G, Stacks(ts))
    PROVE  AllOk(r, role2, ts, fam)
BY Zenon, TaskOkKept DEF AllOk, Stacks

\* The kernel keeps its table.
LEMMA KernelKept ==
    ASSUME NEW s, NEW role, NEW ker, Kernel(s, role, ker), NEW r, NEW role2, NEW G, NEW W,
           Evolves(s, role, r, role2, G, W)
    PROVE  Kernel(r, role2, ker)
BY SMTT(30), InSpaceKept DEF Kernel

\* Stacks are in frames handed out, and not under the kernel's entry.
LEMMA StacksBelow ==
    ASSUME NEW s, NEW role, NEW ts, NEW fam, AllOk(s, role, ts, fam)
    PROVE  /\ Stacks(ts) \in SUBSET StackPages(s.free)
           /\ \A w \in Stacks(ts) : pml4_off(w) # Entries - 1
<1>1. \A t \in 1 .. Len(ts) : /\ ts[t].frame \in Frame /\ ts[t].frame < s.free
                              /\ ts[t].stack = StackPage(ts[t].frame)
  BY DEF AllOk, TaskOk
<1> QED
  BY Zenon, <1>1, StackFacts DEF Stacks, StackPages

\* The pages that became program pages are in the last task's.
LEMMA OwnedMore ==
    ASSUME NEW s, NEW role, NEW r, NEW role2, NEW F \in Nat, NEW W, NEW n \in Nat,
           NEW fam \in Seq(Nat), NEW giv \in Seq(SUBSET Nat), Len(fam) = n, Len(giv) = n,
           Owned(role, fam, giv), Evolves(s, role, r, role2, F, W), r.user \in SUBSET Nat
    PROVE  Owned(role2, Append(fam, F), Append(giv, r.user \ s.user))
<1> DEFINE fam2 == Append(fam, F)
           giv2 == Append(giv, r.user \ s.user)
<1>1. /\ Len(fam2) = n + 1 /\ fam2[n + 1] = F /\ giv2[n + 1] = r.user \ s.user
      /\ \A u \in 1 .. n : fam2[u] = fam[u] /\ giv2[u] = giv[u]
  OBVIOUS
<1> HIDE DEF fam2, giv2
<1> SUFFICES ASSUME NEW f \in Nat, role2[f].lev = 5
             PROVE  \E u \in 1 .. n + 1 : fam2[u] = role2[f].own /\ f \in giv2[u]
  BY Zenon, <1>1 DEF Owned, fam2, giv2
<1>2. CASE role[f].lev = 5
  <2>1. role2[f] = role[f]
    BY <1>2 DEF Evolves, Extends
  <2>2. PICK u \in 1 .. n : fam[u] = role[f].own /\ f \in giv[u]
    BY Zenon, <1>2 DEF Owned
  <2>3. u \in 1 .. n + 1
    BY SMTT(30)
  <2> QED BY Zenon, <1>1, <2>1, <2>2, <2>3
<1>3. CASE role[f].lev # 5
  <2>1. f \in r.user \ s.user /\ role2[f].own = F
    BY Zenon, <1>3 DEF Evolves, Granted
  <2>2. n + 1 \in 1 .. n + 1
    BY SMTT(30)
  <2> QED BY Zenon, <1>1, <2>1, <2>2
<1> QED
  BY Zenon, <1>2, <1>3

\* They are in those of task t.
LEMMA OwnedSame ==
    ASSUME NEW s, NEW role, NEW r, NEW role2, NEW W, NEW n \in Nat,
           NEW fam \in Seq(Nat), NEW giv \in Seq(SUBSET Nat), Len(fam) = n, Len(giv) = n,
           NEW t \in 1 .. n,
           Owned(role, fam, giv), Evolves(s, role, r, role2, fam[t], W)
    PROVE  Owned(role2, fam, [giv EXCEPT ![t] = @ \cup (r.user \ s.user)])
<1> DEFINE giv2 == [giv EXCEPT ![t] = @ \cup (r.user \ s.user)]
<1>1. \A u \in 1 .. n : giv2[u] = IF u = t THEN giv[t] \cup (r.user \ s.user) ELSE giv[u]
  OBVIOUS
<1> HIDE DEF giv2
<1> SUFFICES ASSUME NEW f \in Nat, role2[f].lev = 5
             PROVE  \E u \in 1 .. n : fam[u] = role2[f].own /\ f \in giv2[u]
  BY Zenon DEF Owned, giv2
<1>2. CASE role[f].lev = 5
  <2>1. role2[f] = role[f]
    BY SMTT(30), <1>2 DEF Evolves, Extends
  <2>2. PICK u \in 1 .. n : fam[u] = role[f].own /\ f \in giv[u]
    BY Zenon, <1>2 DEF Owned
  <2> QED BY Zenon, <1>1, <2>1, <2>2
<1>3. CASE role[f].lev # 5
  <2>1. f \in r.user \ s.user /\ role2[f].own = fam[t]
    BY Zenon, <1>3 DEF Evolves, Granted
  <2> QED BY Zenon, <1>1, <2>1
<1> QED
  BY Zenon, <1>2, <1>3

\* There is a family and a set of pages for each task; a family is named after one
\* of the tasks.
Lists(ts, fam, giv) ==
    /\ ts \in Seq(TaskSet) /\ fam \in Seq(Nat) /\ giv \in Seq(SUBSET Nat)
    /\ Len(fam) = Len(ts) /\ Len(giv) = Len(ts)
    /\ \A t \in 1 .. Len(ts) : fam[t] \in 1 .. Len(ts)

\* The invariant for given roles
Good(s, role, ker, ts, fam, giv) ==
    /\ Kernel(s, role, ker) /\ AllOk(s, role, ts, fam)
    /\ Marked(s, role) /\ Owned(role, fam, giv)

\* The record of a new task
NewTask(root, segs, f) == [pml4 |-> root, segs |-> segs, stack |-> StackPage(f), frame |-> f]

\* The lists grow together.
LEMMA ListsMore ==
    ASSUME NEW ts, NEW fam, NEW giv, Lists(ts, fam, giv), NEW task \in TaskSet,
           NEW F \in 1 .. Len(ts) + 1, NEW G \in SUBSET Nat
    PROVE  Lists(Append(ts, task), Append(fam, F), Append(giv, G))
<1> DEFINE n == Len(ts)
<1>1. /\ n \in Nat /\ ts \in Seq(TaskSet) /\ fam \in Seq(Nat) /\ giv \in Seq(SUBSET Nat)
      /\ Len(fam) = n /\ Len(giv) = n /\ F \in Nat
      /\ \A t \in 1 .. n : fam[t] \in 1 .. n
  BY DEF Lists
<1>2. /\ Append(ts, task) \in Seq(TaskSet) /\ Len(Append(ts, task)) = n + 1
      /\ Append(fam, F) \in Seq(Nat) /\ Len(Append(fam, F)) = n + 1
      /\ Append(giv, G) \in Seq(SUBSET Nat) /\ Len(Append(giv, G)) = n + 1
  BY <1>1
<1>3. \A t \in 1 .. n + 1 : Append(fam, F)[t] = IF t <= n THEN fam[t] ELSE F
  BY <1>1
<1> HIDE DEF n
<1>4. \A t \in 1 .. n + 1 : Append(fam, F)[t] \in 1 .. n + 1
  BY SMTT(30), <1>1, <1>3 DEF n
<1> QED
  BY <1>2, <1>4 DEF Lists

\* A new task joins the others.
LEMMA AllOkMore ==
    ASSUME NEW s, NEW role, NEW ts, NEW fam, NEW giv, Lists(ts, fam, giv), AllOk(s, role, ts, fam),
           NEW task \in TaskSet, NEW F \in Nat, TaskOk(s, role, task, F)
    PROVE  AllOk(s, role, Append(ts, task), Append(fam, F))
<1> DEFINE n == Len(ts)
<1>1. n \in Nat /\ ts \in Seq(TaskSet) /\ fam \in Seq(Nat) /\ Len(fam) = n
  BY DEF Lists
<1>2. /\ Len(Append(ts, task)) = n + 1
      /\ \A t \in 1 .. n + 1 : Append(ts, task)[t] = IF t <= n THEN ts[t] ELSE task
  BY <1>1
<1>3. \A t \in 1 .. n + 1 : Append(fam, F)[t] = IF t <= n THEN fam[t] ELSE F
  BY <1>1
<1> HIDE DEF n
<1> SUFFICES ASSUME NEW t \in 1 .. n + 1
             PROVE  TaskOk(s, role, Append(ts, task)[t], Append(fam, F)[t])
  BY Zenon, <1>2 DEF AllOk
<1>4. CASE t <= n
  <2>1. t \in 1 .. n
    BY <1>1, <1>4
  <2>2. TaskOk(s, role, ts[t], fam[t])
    BY <2>1 DEF AllOk, n
  <2> QED BY ZenonT(30), <1>2, <1>3, <1>4, <2>2
<1>5. CASE ~(t <= n)
  BY Zenon, <1>2, <1>3, <1>5
<1> QED
  BY Zenon, <1>4, <1>5

\* A task that was created as Created says keeps the invariant.
LEMMA GoodMore ==
    ASSUME NEW s, NEW role, NEW ker, NEW ts, NEW fam, NEW giv, Lists(ts, fam, giv),
           Good(s, role, ker, ts, fam, giv), NEW segs \in Programs, NEW F \in 1 .. Len(ts) + 1,
           NEW r, NEW role2, NEW root, NEW f,
           Created(s, role, r, role2, root, f, segs, F, Stacks(ts))
    PROVE  /\ Lists(Append(ts, NewTask(root, segs, f)), Append(fam, F),
                    Append(giv, r.user \ s.user))
           /\ Good(r, role2, ker, Append(ts, NewTask(root, segs, f)), Append(fam, F),
                   Append(giv, r.user \ s.user))
<1> DEFINE task == NewTask(root, segs, f)
<1>1. Evolves(s, role, r, role2, F, Stacks(ts))
  BY DEF Created
<1>2. F \in Nat /\ F # 0
  BY SMTT(30) DEF Lists
<1>3. r.user \in SUBSET Nat
  BY Zenon, <1>1 DEF Evolves, Structure, Typed, IsImage
<1>4. f \in Frame /\ f \in Nat /\ StackPage(f) \in Nat /\ root \in Nat
  BY Zenon, StackFacts DEF Created
<1>5. /\ task \in TaskSet /\ task.pml4 = root /\ task.segs = segs
      /\ task.stack = StackPage(f) /\ task.frame = f
  BY Zenon, <1>4 DEF NewTask, TaskSet
<1> HIDE DEF task
<1>6. TaskOk(r, role2, task, F)
  BY Zenon, <1>2, <1>4, <1>5 DEF TaskOk, Created
<1>7. AllOk(r, role2, ts, fam)
  BY Zenon, <1>1, AllOkKept DEF Good
<1>8. AllOk(r, role2, Append(ts, task), Append(fam, F))
  BY Zenon, <1>2, <1>5, <1>6, <1>7, AllOkMore
<1>9. Kernel(r, role2, ker) /\ Marked(r, role2)
  BY Zenon, <1>1, KernelKept, MarkedKept DEF Good
<1>10. Owned(role2, Append(fam, F), Append(giv, r.user \ s.user))
  <2>1. Len(ts) \in Nat /\ fam \in Seq(Nat) /\ giv \in Seq(SUBSET Nat)
        /\ Len(fam) = Len(ts) /\ Len(giv) = Len(ts)
    BY DEF Lists
  <2>2. Owned(role, fam, giv)
    BY Zenon DEF Good
  <2> QED BY ZenonT(30), <1>1, <1>2, <1>3, <2>1, <2>2, OwnedMore
<1>11. r.user \ s.user \in SUBSET Nat
  BY Zenon, <1>3
<1>12. Lists(Append(ts, task), Append(fam, F), Append(giv, r.user \ s.user))
  BY Zenon, <1>5, <1>11, ListsMore
<1> QED
  BY Zenon, <1>8, <1>9, <1>10, <1>12 DEF Good, task

\* A page fault adds to the pages of task t.
LEMMA GoodSame ==
    ASSUME NEW s, NEW role, NEW ker, NEW ts, NEW fam, NEW giv, Lists(ts, fam, giv),
           Good(s, role, ker, ts, fam, giv), NEW t \in 1 .. Len(ts), NEW r, NEW role2,
           Evolves(s, role, r, role2, fam[t], Stacks(ts))
    PROVE  /\ Lists(ts, fam, [giv EXCEPT ![t] = @ \cup (r.user \ s.user)])
           /\ Good(r, role2, ker, ts, fam, [giv EXCEPT ![t] = @ \cup (r.user \ s.user)])
<1> DEFINE giv2 == [giv EXCEPT ![t] = @ \cup (r.user \ s.user)]
<1>1. r.user \in SUBSET Nat
  BY DEF Evolves, Structure, Typed, IsImage
<1>2. /\ Len(ts) \in Nat /\ fam \in Seq(Nat) /\ giv \in Seq(SUBSET Nat)
      /\ Len(fam) = Len(ts) /\ Len(giv) = Len(ts)
  BY SMTT(30) DEF Lists
<1>3. giv2 \in Seq(SUBSET Nat) /\ Len(giv2) = Len(ts)
  BY SMTT(30), <1>1, <1>2
<1>4. Owned(role2, fam, giv2)
  BY Zenon, <1>2, OwnedSame DEF Good
<1> HIDE DEF giv2
<1>5. AllOk(r, role2, ts, fam)
  BY AllOkKept DEF Good
<1>6. Kernel(r, role2, ker) /\ Marked(r, role2)
  BY KernelKept, MarkedKept DEF Good
<1>7. Lists(ts, fam, giv2)
  BY <1>3 DEF Lists
<1> QED
  BY ZenonT(30), <1>4, <1>5, <1>6, <1>7 DEF Good, giv2

-----------------------------------------------------------------------------

\* Memory before init_paging
BootImage == [mem |-> [f \in Frame |-> [i \in Index |-> 0]], free |-> FirstFree, user |-> {}]

\* The inductive invariant: before init_paging memory is empty, and then there are
\* roles for the frames in which the tables are as Structure says and every task
\* has its stack and segments.
Sound ==
    /\ num_pages \in MemorySizes /\ live \subseteq 1 .. Len(tasks)
    /\ Lists(tasks, family, given)
    /\ IF ker_pml4 = NoFrame THEN tasks = <<>> /\ image = BootImage
       ELSE \E role : Good(image, role, ker_pml4, tasks, family, given)

\* The size of memory
LEMMA MemoryFacts ==
    ASSUME num_pages \in MemorySizes
    PROVE  num_pages \in Nat /\ num_pages <= Frames
BY AddressSpaceAssumption

\* elf_run_bin keeps the invariant.
LEMMA ElfGood ==
    ASSUME num_pages \in MemorySizes, NEW s, NEW role, NEW giv, Lists(tasks, family, giv),
           Good(s, role, ker_pml4, tasks, family, giv), NEW segs \in Programs, ElfRunBin(s, segs)
    PROVE  /\ Lists(tasks', family', Append(giv, image'.user \ s.user))
           /\ \E role2 : Good(image', role2, ker_pml4', tasks', family',
                              Append(giv, image'.user \ s.user))
           /\ num_pages' = num_pages /\ ker_pml4' = ker_pml4 /\ ker_pml4 # NoFrame
           /\ Len(tasks') = Len(tasks) + 1
<1> DEFINE n == Len(tasks)
           r == ElfImage(s, segs)
           root == ElfTable(s)
           f == ElfPlain(s).free
<1>1. /\ ker_pml4 # NoFrame /\ r.free <= num_pages /\ image' = r
      /\ tasks' = Append(tasks, NewTask(root, segs, f))
      /\ family' = Append(family, n + 1) /\ UNCHANGED <<num_pages, ker_pml4>>
  BY Zenon DEF ElfRunBin, AddTask, ElfImage, ElfTable, ElfPlain, NewTask
<1> HIDE DEF r, root, f
<1>2. KernelSpace(s, role)
  BY DEF Good, Kernel, KernelSpace
<1>3. Stacks(tasks) \in SUBSET StackPages(s.free)
  BY StacksBelow DEF Good
<1>4. n \in Nat /\ n + 1 \in Nat /\ n + 1 \in 1 .. n + 1 /\ tasks \in Seq(TaskSet)
  BY DEF Lists
<1>5. PICK role2 : Created(s, role, r, role2, root, f, segs, n + 1, Stacks(tasks))
  BY ZenonT(30), <1>1, <1>2, <1>3, <1>4, MemoryFacts, ElfCreates DEF r, root, f
<1>6. /\ Lists(Append(tasks, NewTask(root, segs, f)), Append(family, n + 1),
               Append(giv, r.user \ s.user))
      /\ Good(r, role2, ker_pml4, Append(tasks, NewTask(root, segs, f)), Append(family, n + 1),
              Append(giv, r.user \ s.user))
  BY Zenon, <1>4, <1>5, GoodMore
<1>7. Len(tasks') = n + 1
  BY <1>1, <1>4
<1> QED
  BY Zenon, <1>1, <1>6, <1>7

\* The first task
LEMMA LoadSbushSound == ASSUME Sound, LoadSbush PROVE Sound'
<1>1. tasks = <<>> /\ ElfRunBin(image, Shell) /\ live' = {1} /\ given' = <<image'.user>>
  BY DEF LoadSbush
<1>2. num_pages \in MemorySizes /\ Lists(tasks, family, given) /\ ker_pml4 # NoFrame
  BY <1>1 DEF Sound, ElfRunBin
<1>3. PICK role : Good(image, role, ker_pml4, tasks, family, given)
  BY <1>2 DEF Sound
<1>4. Shell \in Programs
  BY AddressSpaceAssumption
<1> DEFINE giv == Append(given, image'.user \ image.user)
<1>5. /\ Lists(tasks', family', giv) /\ num_pages' = num_pages /\ ker_pml4' = ker_pml4
      /\ Len(tasks') = Len(tasks) + 1
  BY Zenon, <1>1, <1>2, <1>3, <1>4, ElfGood
<1>6. PICK role2 : Good(image', role2, ker_pml4', tasks', family', giv)
  BY Zenon, <1>1, <1>2, <1>3, <1>4, ElfGood
<1> HIDE DEF giv
<1>7. image'.user \in SUBSET Nat
  BY <1>6 DEF Good, Kernel, InSpace, Structure, Typed, IsImage
<1>8. Len(tasks') = 1
  BY <1>1, <1>5
<1>9. Lists(tasks', family', given')
  <2>1. given' \in Seq(SUBSET Nat) /\ Len(given') = 1
    BY <1>1, <1>7
  <2> QED BY Zenon, <1>5, <1>8, <2>1 DEF Lists
<1>10. Owned(role2, family', given')
  <2> SUFFICES ASSUME NEW x \in Nat, role2[x].lev = 5
               PROVE  \E u \in 1 .. Len(family') : family'[u] = role2[x].own /\ x \in given'[u]
    BY Zenon DEF Owned
  <2>1. PICK u \in 1 .. Len(family') : family'[u] = role2[x].own
    BY <1>6 DEF Good, Owned
  <2>2. Len(family') = 1
    BY <1>8, <1>9 DEF Lists
  <2>3. u = 1
    BY SMTT(30), <2>1, <2>2
  <2>4. x \in image'.user
    BY Zenon, <1>6 DEF Good, Marked
  <2>5. given'[u] = image'.user
    BY <1>1, <2>3
  <2> QED BY Zenon, <2>1, <2>4, <2>5
<1>11. Good(image', role2, ker_pml4', tasks', family', given')
  BY <1>6, <1>10 DEF Good
<1>12. live' \subseteq 1 .. Len(tasks')
  BY <1>1, <1>8
<1> QED
  BY Zenon, <1>2, <1>5, <1>9, <1>11, <1>12 DEF Sound

\* The tasks that run, after a new one
LEMMA LiveMore ==
    ASSUME NEW n \in Nat, NEW L \in SUBSET (1 .. n), NEW t
    PROVE  L \cup {n + 1} \subseteq 1 .. n + 1 /\ (L \cup {n + 1}) \ {t} \subseteq 1 .. n + 1
<1>1. \A x \in L : x \in 1 .. n + 1
  OBVIOUS
<1>2. n + 1 \in 1 .. n + 1
  OBVIOUS
<1> QED
  BY Zenon, <1>1, <1>2

\* exec
LEMMA ExecSound ==
    ASSUME Sound, NEW t \in live, NEW segs \in Programs, Exec(t, segs) PROVE Sound'
<1>1. /\ ElfRunBin(image, segs) /\ live' = (live \cup {Len(tasks) + 1}) \ {t}
      /\ given' = Append(given, image'.user \ image.user)
  BY DEF Exec
<1>2. num_pages \in MemorySizes /\ Lists(tasks, family, given) /\ ker_pml4 # NoFrame
  BY <1>1 DEF Sound, ElfRunBin
<1>3. PICK role : Good(image, role, ker_pml4, tasks, family, given)
  BY <1>2 DEF Sound
<1>4. /\ Lists(tasks', family', given') /\ num_pages' = num_pages /\ ker_pml4' = ker_pml4
      /\ Len(tasks') = Len(tasks) + 1
  BY Zenon, <1>1, <1>2, <1>3, ElfGood
<1>5. PICK role2 : Good(image', role2, ker_pml4', tasks', family', given')
  BY Zenon, <1>1, <1>2, <1>3, ElfGood
<1>6. live' \subseteq 1 .. Len(tasks')
  <2>1. live \subseteq 1 .. Len(tasks) /\ Len(tasks) \in Nat
    BY DEF Sound, Lists
  <2> QED BY Zenon, <1>1, <1>4, <2>1, LiveMore
<1> QED
  BY Zenon, <1>2, <1>4, <1>5, <1>6 DEF Sound

\* exec of a file that is not there
LEMMA ExecMissingSound == ASSUME Sound, NEW t \in live, ExecMissing(t) PROVE Sound'
<1>1. /\ image' = Kmalloc(image, 1) /\ live' = live \ {t}
      /\ UNCHANGED <<num_pages, ker_pml4, tasks, family, given>>
  BY DEF ExecMissing
<1>2. ker_pml4 # NoFrame
  BY DEF Sound
<1>3. PICK role : Good(image, role, ker_pml4, tasks, family, given)
  BY Zenon, <1>2 DEF Sound
<1>4. Structure(image, role) /\ 1 \in Nat
  BY Zenon, <1>3 DEF Good, Kernel, InSpace
<1>5. Evolves(image, role, image', role, 0, Stacks(tasks))
  BY Zenon, <1>1, <1>4, KmallocEvolves
<1>6. /\ AllOk(image', role, tasks, family) /\ Kernel(image', role, ker_pml4)
      /\ Marked(image', role)
  BY Zenon, <1>3, <1>5, AllOkKept, KernelKept, MarkedKept DEF Good
<1>7. Good(image', role, ker_pml4', tasks', family', given')
  BY Zenon, <1>1, <1>3, <1>6 DEF Good
<1>8. Lists(tasks', family', given') /\ live' \subseteq 1 .. Len(tasks')
  BY <1>1 DEF Sound
<1> QED
  BY Zenon, <1>1, <1>2, <1>7, <1>8 DEF Sound

\* fork
LEMMA SysForkSound == ASSUME Sound, NEW p \in live, SysFork(p) PROVE Sound'
<1> DEFINE parent == tasks[p].pml4
           segs == tasks[p].segs
           F == family[p]
           r == ForkImage(image, parent, segs)
           root == ForkTable(image)
           f == ForkCopy(image, parent).free
<1>1. /\ r.free <= num_pages /\ image' = r /\ live' = live \cup {Len(tasks) + 1}
      /\ tasks' = Append(tasks, NewTask(root, segs, f)) /\ family' = Append(family, F)
      /\ given' = Append(given, image'.user \ image.user) /\ UNCHANGED <<num_pages, ker_pml4>>
  BY Zenon DEF SysFork, AddTask, ForkImage, ForkTable, ForkCopy, ForkPlain, ForkStart, Row, NewTask
<1>2. /\ num_pages \in MemorySizes /\ Lists(tasks, family, given) /\ ker_pml4 # NoFrame
      /\ Len(tasks) \in Nat /\ p \in 1 .. Len(tasks) /\ tasks \in Seq(TaskSet)
  BY DEF Sound, Lists
<1>3. PICK role : Good(image, role, ker_pml4, tasks, family, given)
  BY <1>2 DEF Sound
<1>4. F \in 1 .. Len(tasks) /\ F \in Nat /\ F \in 1 .. Len(tasks) + 1
  BY SMTT(30), <1>2 DEF Lists
<1>5. parent \in Nat /\ segs \in Programs /\ role[parent] = RootRole(F)
  <2>1. TaskOk(image, role, tasks[p], family[p])
    BY Zenon, <1>2, <1>3 DEF Good, AllOk
  <2> QED BY Zenon, <2>1 DEF TaskOk, TaskSet
<1>6. KernelSpace(image, role) /\ Stacks(tasks) \in SUBSET StackPages(image.free)
  BY Zenon, <1>3, StacksBelow DEF Good, Kernel, KernelSpace
<1> HIDE DEF r, root, f, segs, F, parent
<1>7. PICK role2 : Created(image, role, r, role2, root, f, segs, F, Stacks(tasks))
  BY ZenonT(30), <1>1, <1>2, <1>4, <1>5, <1>6, MemoryFacts, ForkCreates DEF r, root, f
<1>8. /\ Lists(Append(tasks, NewTask(root, segs, f)), Append(family, F),
               Append(given, r.user \ image.user))
      /\ Good(r, role2, ker_pml4, Append(tasks, NewTask(root, segs, f)), Append(family, F),
              Append(given, r.user \ image.user))
  BY Zenon, <1>2, <1>3, <1>4, <1>5, <1>7, GoodMore
<1>9. Lists(tasks', family', given') /\ Good(image', role2, ker_pml4', tasks', family', given')
  BY Zenon, <1>1, <1>8
<1>10. live' \subseteq 1 .. Len(tasks')
  <2>1. Len(tasks') = Len(tasks) + 1
    BY <1>1, <1>2
  <2>2. live \subseteq 1 .. Len(tasks)
    BY Zenon DEF Sound
  <2> QED BY ZenonT(30), <1>1, <1>2, <2>1, <2>2, LiveMore
<1> QED
  BY Zenon, <1>1, <1>2, <1>9, <1>10 DEF Sound

\* A page fault
LEMMA PageFaultSound ==
    ASSUME Sound, NEW t \in live, NEW v \in FaultPages, PageFault(t, v) PROVE Sound'
<1> DEFINE pml4 == tasks[t].pml4
           absent == Walk(image, pml4, v) = NoFrame
           s1 == IF absent THEN UserPage(image, v, pml4)
                 ELSE init_map_virt_phys_addr(image, v, PADDR(v), 1, pml4, 1)
           giv == [given EXCEPT ![t] = @ \cup (s1.user \ image.user)]
           F == family[t]
<1>1. /\ absent \/ pml4_off(v) = Entries - 1
      /\ ElfRunBin(s1, Shell) /\ live' = (live \cup {Len(tasks) + 1}) \ {t}
      /\ given' = Append(giv, image'.user \ s1.user)
  BY DEF PageFault
<1>2. /\ num_pages \in MemorySizes /\ Lists(tasks, family, given) /\ ker_pml4 # NoFrame
      /\ Len(tasks) \in Nat /\ t \in 1 .. Len(tasks) /\ live \subseteq 1 .. Len(tasks)
  BY DEF Sound, Lists
<1>3. PICK role : Good(image, role, ker_pml4, tasks, family, given)
  BY Zenon, <1>2 DEF Sound
<1>4. v \in Nat /\ Shell \in Programs
  BY Zenon, AddressSpaceAssumption
<1>5. pml4 \in Nat /\ role[pml4] = RootRole(F) /\ F \in Nat
  <2>1. TaskOk(image, role, tasks[t], family[t])
    BY SMTT(30), <1>2, <1>3 DEF Good, AllOk
  <2> QED BY Zenon, <2>1 DEF TaskOk, TaskSet
<1>6. /\ Structure(image, role) /\ Linked(image, role)
      /\ \A w \in Stacks(tasks) : pml4_off(w) # Entries - 1
  BY ZenonT(30), <1>3, StacksBelow DEF Good, Kernel, InSpace
<1> HIDE DEF pml4, F
<1>7. InSpace(image, role, pml4, F) /\ role[pml4].lev = 1
  BY Zenon, <1>5, <1>6, RootRoleFacts DEF InSpace
<1>8. \E role1 : Evolves(image, role, s1, role1, F, Stacks(tasks))
  <2>1. CASE absent
    <3>1. PICK role1 : Adds(image, role, UserPage(image, v, pml4), role1, pml4, v, F, Stacks(tasks))
      BY ZenonT(30), <1>4, <1>7, <2>1, UserPageAdds
    <3> QED BY ZenonT(30), <2>1, <3>1 DEF Adds
  <2>2. CASE ~absent
    <3>1. PADDR(v) \in Nat
      <4>1. Pages \in Nat /\ Pages > 0 /\ KernelBase \in Nat
        BY SMTT(30), PagesPositive, AddressSpaceAssumption
      <4> QED BY SMTT(30), <1>4, <4>1 DEF PADDR
    <3> QED BY ZenonT(30), <1>1, <1>4, <1>5, <1>6, <1>7, <2>2, <3>1, RemapEvolves
  <2> QED BY Zenon, <2>1, <2>2
<1>9. PICK role1 : Evolves(image, role, s1, role1, family[t], Stacks(tasks))
  BY SMTT(30), <1>8 DEF F
<1> HIDE DEF s1
<1>10. Lists(tasks, family, giv) /\ Good(s1, role1, ker_pml4, tasks, family, giv)
  BY ZenonT(30), <1>2, <1>3, <1>9, GoodSame
<1> HIDE DEF giv
<1>11. /\ Lists(tasks', family', given') /\ num_pages' = num_pages /\ ker_pml4' = ker_pml4
       /\ Len(tasks') = Len(tasks) + 1
  BY ZenonT(30), <1>1, <1>2, <1>4, <1>10, ElfGood
<1>12. PICK role2 : Good(image', role2, ker_pml4', tasks', family', given')
  BY Zenon, <1>1, <1>2, <1>4, <1>10, ElfGood
<1>13. live' \subseteq 1 .. Len(tasks')
  BY Zenon, <1>1, <1>2, <1>11, LiveMore
<1> QED
  BY Zenon, <1>2, <1>11, <1>12, <1>13 DEF Sound

-----------------------------------------------------------------------------

\* Once there are tasks there are roles.
LEMMA SoundTasks ==
    ASSUME Sound, tasks # <<>>
    PROVE  \E role : Good(image, role, ker_pml4, tasks, family, given)
BY DEF Sound

\* The tasks, by number
LEMMA TaskDomain == ASSUME Sound PROVE DOMAIN tasks = 1 .. Len(tasks) /\ Len(family) = Len(tasks)
BY DEF Sound, Lists

\* All that a program reaches was handed out to its family.
LEMMA SoundReaches == ASSUME Sound PROVE ReachesOwn
<1> SUFFICES ASSUME NEW t \in DOMAIN tasks, NEW f \in UserReach(image, tasks[t].pml4)
             PROVE  f \in UNION {given[u] : u \in {x \in DOMAIN tasks : family[x] = family[t]}}
  BY DEF ReachesOwn
<1>1. DOMAIN tasks = 1 .. Len(tasks) /\ Len(family) = Len(tasks)
  BY TaskDomain
<1>2. tasks # <<>>
  OBVIOUS
<1>3. PICK role : Good(image, role, ker_pml4, tasks, family, given)
  BY Zenon, <1>2, SoundTasks
<1>4. TaskOk(image, role, tasks[t], family[t])
  BY Zenon, <1>1, <1>3 DEF Good, AllOk
<1>5. Structure(image, role)
  BY Zenon, <1>3 DEF Good, Kernel, InSpace
<1>6. f \in Level(role, 5, family[t])
  <2>1. tasks[t].pml4 \in Nat /\ family[t] \in Nat \ {0} /\ role[tasks[t].pml4] = RootRole(family[t])
    BY SMTT(30), <1>4 DEF TaskOk, TaskSet
  <2> QED BY Zenon, <1>5, <2>1, ReachStays
<1>7. PICK u \in 1 .. Len(family) : family[u] = role[f].own /\ f \in given[u]
  BY ZenonT(30), <1>3, <1>6 DEF Good, Owned, Level
<1>8. u \in DOMAIN tasks /\ family[u] = family[t]
  BY Zenon, <1>1, <1>6, <1>7 DEF Level
<1> QED
  BY Zenon, <1>7, <1>8

\* The segments are mapped, to pages for programs.
LEMMA SoundSegments == ASSUME Sound PROVE SegmentsPresent
<1> SUFFICES ASSUME NEW t \in DOMAIN tasks, NEW j \in DOMAIN tasks[t].segs,
                    NEW a \in tasks[t].segs[j].va
                                .. (tasks[t].segs[j].va + tasks[t].segs[j].size) - 1
             PROVE  Walk(image, tasks[t].pml4, a \div PageSize) \in image.user
  BY DEF SegmentsPresent
<1> DEFINE segs == tasks[t].segs
           v == a \div PageSize
<1>1. DOMAIN tasks = 1 .. Len(tasks) /\ tasks # <<>>
  BY SMTT(30), TaskDomain
<1>3. PICK role : Good(image, role, ker_pml4, tasks, family, given)
  BY Zenon, <1>1, SoundTasks
<1>4. TaskOk(image, role, tasks[t], family[t])
  BY Zenon, <1>1, <1>3 DEF Good, AllOk
<1>5. Structure(image, role) /\ Marked(image, role)
  BY Zenon, <1>3 DEF Good, Kernel, InSpace
<1>6. /\ segs \in Programs /\ tasks[t].pml4 \in Nat /\ family[t] \in Nat \ {0}
      /\ role[tasks[t].pml4] = RootRole(family[t])
      /\ \A w \in AllPages(segs, Len(segs)) : Walk(image, tasks[t].pml4, w) # NoFrame
  BY Zenon, <1>4 DEF TaskOk, TaskSet
<1>7. j \in 1 .. Len(segs) /\ segs[j] \in [va : Nat, size : Nat]
  BY Zenon, <1>6, ProgramFacts
<1>8. v \in PagesOf(segs[j])
  BY Zenon, <1>7, SegmentFacts
<1>9. v \in AllPages(segs, Len(segs)) /\ v \in Nat
  <2>1. v \in AllPages(segs, Len(segs))
    BY Zenon, <1>7, <1>8 DEF AllPages
  <2>2. AllPages(segs, Len(segs)) \in SUBSET Nat
    <3> HIDE DEF segs
    <3> QED BY SMTT(30), <1>6, ProgramFacts
  <2> QED BY Zenon, <2>1, <2>2
<1>10. pml4_off(v) # Entries - 1
  BY Zenon, <1>6, <1>7, <1>8, ProgramFacts, ProgramsAssumption DEF PagesOf
<1> HIDE DEF v, segs
<1>11. Walk(image, tasks[t].pml4, v) \in image.user
  BY Zenon, <1>5, <1>6, <1>9, <1>10, WalkIsUser
<1> QED
  BY Zenon, <1>11 DEF v

\* Every task's stack is where kmalloc_stack put it.
LEMMA SoundStacks == ASSUME Sound PROVE StacksApart
<1> SUFFICES ASSUME NEW t \in DOMAIN tasks
             PROVE  Walk(image, tasks[t].pml4, tasks[t].stack) = tasks[t].frame
  BY DEF StacksApart
<1>1. DOMAIN tasks = 1 .. Len(tasks) /\ tasks # <<>>
  BY TaskDomain
<1>2. PICK role : Good(image, role, ker_pml4, tasks, family, given)
  BY <1>1, SoundTasks
<1> QED
  BY Zenon, <1>1, <1>2 DEF Good, AllOk, TaskOk

-----------------------------------------------------------------------------

\* init_paging starts from an empty top level table.
LEMMA BootBuilds == \E role : Building(Kmalloc(BootImage, 1), role, BootImage.free)
<1> DEFINE s == BootImage
           none == [lev |-> 0, own |-> 0, o1 |-> 0, o2 |-> 0, o3 |-> 0]
           role0 == [f \in Nat |-> none]
           k == Kmalloc(s, 1)
           root == s.free
           role == [role0 EXCEPT ![root] = RootRole(0)]
<1>1. IsImage(s) /\ root \in Nat
  <2>1. FirstFree \in Nat
    BY AddressSpaceAssumption
  <2>2. ZeroPage \in [Index -> Nat] /\ Frame \subseteq Nat
    BY PagingAssumption DEF ZeroPage, Frame
  <2>3. s = [mem |-> [f \in Frame |-> ZeroPage], free |-> FirstFree, user |-> {}]
    BY DEF BootImage, ZeroPage
  <2> HIDE DEF s
  <2> QED BY Zenon, <2>1, <2>2, <2>3 DEF IsImage
<1>2. none \in Roles /\ none.lev = 0
  BY DEF Roles
<1> HIDE DEF none, s
<1>3. role0 \in [Nat -> Roles] /\ \A f \in Nat : role0[f].lev = 0
  BY Zenon, <1>2
<1> HIDE DEF role0
<1>4. /\ IsImage(k) /\ root < k.free /\ root \in DOMAIN k.mem
      /\ \A i \in Index : k.mem[root][i] = 0
  <2>1. /\ IsImage(k) /\ k.free = root + 1 /\ root \in DOMAIN k.mem /\ k.mem[root] = ZeroPage
    BY Zenon, <1>1, KmallocOne DEF AllocatesOne
  <2> QED BY SMTT(30), <1>1, <2>1 DEF ZeroPage
<1> HIDE DEF k
<1>5. Structure(k, role0)
  BY <1>3, <1>4 DEF Structure, Typed, Tree, Guarded, Leaves
<1>6. RootRole(0) \in Roles /\ RootRole(0).lev = 1
  BY Zenon, RootRoleFacts
<1>7. \A i \in Index : ~IsPresent(k.mem[root][i]) /\ ~IsUser(k.mem[root][i])
  BY SMTT(30), <1>4, ZeroFacts
<1>8. Structure(k, role)
  BY ZenonT(30), <1>1, <1>3, <1>4, <1>5, <1>6, <1>7, IndexNumbers, AssignStructure DEF Fits
<1>9. role[root] = RootRole(0) /\ \A f \in Nat : role[f].lev # 5
  BY SMTT(30), <1>1, <1>3, <1>6
<1> QED
  BY Zenon, <1>1, <1>8, <1>9 DEF Building, k, s

\* init_paging builds the kernel's tables.
LEMMA InitPagingSound == ASSUME Sound, InitPaging PROVE Sound'
<1> DEFINE zero == 0
           one == 1
           root == image.free
           s0 == Kmalloc(image, 1)
           s1 == init_map_virt_phys_addr(s0, zero, zero, num_pages, root, 0)
           v2 == KernelBase + PhysBase
           n2 == (num_pages - PhysBase) + 1
           s2 == init_map_virt_phys_addr(s1, v2, PhysBase, n2, root, 0)
           v3 == KernelBase + VideoPage
           s3 == init_map_virt_phys_addr(s2, v3, VideoPage, one, root, 0)
           s4 == Kmalloc(s3, TaskPages)
           s5 == Kmalloc(s4, one)
<1>1. /\ ker_pml4 = NoFrame /\ ker_pml4' = root /\ image' = s5
      /\ UNCHANGED <<num_pages, tasks, live, family, given>>
  BY DEF InitPaging
<1>2. tasks = <<>> /\ image = BootImage
  BY <1>1 DEF Sound
<1>3. /\ num_pages \in Nat \ {0} /\ PhysBase \in Nat /\ n2 \in Nat \ {0} /\ VideoPage \in Nat
      /\ v2 \in Nat /\ v3 \in Nat /\ TaskPages \in Nat /\ pml4_off(v2) = Entries - 1
  <2>1. /\ num_pages \in Nat \ {0} /\ PhysBase <= num_pages /\ num_pages <= Frames
        /\ {PhysBase, VideoPage, KernelBase, TaskPages} \subseteq Nat
    BY AddressSpaceAssumption DEF Sound
  <2>2. PhysBase \in Frame
    BY <2>1, PagingAssumption DEF Frame
  <2>3. pml4_off(v2) = Entries - 1
    BY Zenon, <2>2, AddressSpaceAssumption
  <2> QED BY SMTT(30), <2>1, <2>3
<1>4. zero \in Nat /\ one \in Nat \ {0}
  OBVIOUS
<1>5. PICK role0 : Building(s0, role0, root)
  BY Zenon, <1>2, BootBuilds
<1> HIDE DEF zero, one, s0, v2, n2, v3
<1>6. PICK role1 : Built(s0, s1, role1, root, zero)
  BY Zenon, <1>3, <1>4, <1>5, MapBuilds
<1> HIDE DEF s1
<1>7. PICK role2 : Built(s1, s2, role2, root, v2)
  BY ZenonT(30), <1>3, <1>6, MapBuilds DEF Built
<1> HIDE DEF s2
<1>8. PICK role3 : Built(s2, s3, role3, root, v3)
  BY ZenonT(30), <1>3, <1>4, <1>7, MapBuilds DEF Built
<1> HIDE DEF s3
<1>9. IsPresent(s3.mem[root][Entries - 1])
  BY Zenon, <1>3, <1>7, <1>8, IndexNumbers DEF Built
<1> DEFINE role == RootOnly(role3, root)
<1>10. Building(s3, role, root) /\ \A f \in Nat : role[f].lev = 1 => f = root
  BY ZenonT(30), <1>8, RootOnlyBuilds DEF Built
<1> HIDE DEF role
<1>11. Kernel(s3, role, root)
  <2>1. role[root].lev = 1 /\ role[root].own = 0 /\ role[root] = RootRole(0) /\ root \in Nat
    BY Zenon, <1>10, RootRoleFacts DEF Building
  <2>2. Structure(s3, role) /\ Linked(s3, role)
    BY Zenon, <1>9, <1>10 DEF Building, Linked
  <2> QED BY Zenon, <2>1, <2>2 DEF Kernel, InSpace
<1>12. Evolves(s3, role, s4, role, 0, {})
  BY Zenon, <1>3, <1>11, KmallocEvolves DEF Kernel, InSpace
<1>13. Kernel(s4, role, root)
  BY Zenon, <1>11, <1>12, KernelKept
<1> HIDE DEF s4
<1>14. Evolves(s4, role, s5, role, 0, {})
  BY Zenon, <1>4, <1>13, KmallocEvolves DEF Kernel, InSpace
<1>15. Kernel(s5, role, root)
  BY Zenon, <1>13, <1>14, KernelKept
<1> HIDE DEF s5
<1>16. \A f \in Nat : role[f].lev # 5
  BY <1>10 DEF Building
<1>17. Len(tasks) = 0
  BY Zenon, <1>2
<1>18. Good(s5, role, root, tasks, family, given)
  BY <1>15, <1>16, <1>17 DEF Good, AllOk, Marked, Owned
<1>19. Good(image', role, ker_pml4', tasks', family', given')
  BY <1>1, <1>18
<1>20. ker_pml4' # NoFrame
  <2>1. root \in Nat
    BY <1>10 DEF Building
  <2> QED BY <1>1, <2>1 DEF NoFrame
<1>21. /\ num_pages' \in MemorySizes /\ live' \subseteq 1 .. Len(tasks')
       /\ Lists(tasks', family', given')
  BY Zenon, <1>1 DEF Sound
<1> QED
  BY Zenon, <1>19, <1>20, <1>21 DEF Sound

\* The first state
LEMMA InitSound == Init => Sound
<1> SUFFICES ASSUME Init PROVE Sound
  BY Zenon
<1>1. /\ num_pages \in MemorySizes /\ image = BootImage /\ ker_pml4 = NoFrame
      /\ tasks = <<>> /\ live = {} /\ family = <<>> /\ given = <<>>
  BY DEF Init, BootImage
<1>2. Lists(tasks, family, given)
  BY <1>1 DEF Lists
<1> QED
  BY Zenon, <1>1, <1>2 DEF Sound

\* Every step
LEMMA StepSound == Sound /\ [Next]_vars => Sound'
<1> SUFFICES ASSUME Sound, [Next]_vars PROVE Sound'
  OBVIOUS
<1>1. CASE InitPaging
  BY <1>1, InitPagingSound
<1>2. CASE LoadSbush
  BY <1>2, LoadSbushSound
<1>3. ASSUME NEW t \in live, SysFork(t) PROVE Sound'
  BY <1>3, SysForkSound
<1>4. ASSUME NEW t \in live, ExecMissing(t) PROVE Sound'
  BY Zenon, <1>4, ExecMissingSound
<1>5. ASSUME NEW t \in live, NEW segs \in Programs, Exec(t, segs) PROVE Sound'
  BY <1>5, ExecSound
<1>6. ASSUME NEW t \in live, NEW v \in FaultPages, PageFault(t, v) PROVE Sound'
  BY Zenon, <1>6, PageFaultSound
<1>7. CASE UNCHANGED vars
  BY <1>7 DEF vars, Sound
<1> QED
  BY Zenon, <1>1, <1>2, <1>3, <1>4, <1>5, <1>6, <1>7 DEF Next

\* The page tables that elf_run_bin, sys_fork and page_fault_handler build lead, for
\* each family of tasks, to tables and program pages of that family only, and to the
\* kernel's through the last entry, for any table size, memory and programs.
THEOREM SoundAlways == Spec => []Sound
<1> QED
  BY InitSound, StepSound, PTL DEF Spec

\* Through the tables that init_map_virt_phys_addr builds for elf_run_bin, sys_fork
\* and page_fault_handler, a program reaches only pages that were handed out for it or
\* its relatives by fork: never a table, a page of the kernel or an unrelated
\* program's.
THEOREM ProgramsReachOwnPages == Spec => []ReachesOwn
<1>1. Sound => ReachesOwn
  BY Zenon, SoundReaches
<1> QED
  BY <1>1, SoundAlways, PTL

\* Every byte of the segments of a task that region_alloc loaded stays on a mapped
\* program page, whatever later forks, execs and page faults write to the tables
\* it shares.
THEOREM ProgramsStayLoaded == Spec => []SegmentsPresent
<1>1. Sound => SegmentsPresent
  BY Zenon, SoundSegments
<1> QED
  BY <1>1, SoundAlways, PTL

\* The address that kmalloc_stack gave to a task's stack leads to the frame it took,
\* for as long as the system runs, though relatives write their stacks' entries to
\* the same tables.
THEOREM StacksStayApart == Spec => []StacksApart
<1>1. Sound => StacksApart
  BY SoundStacks
<1> QED
  BY <1>1, SoundAlways, PTL
=============================================================================
