---------------------------- MODULE PagingProofs ----------------------------
(***************************************************************************)
(* What the operations of sys/paging.c do to the page tables, for every    *)
(* table size, memory and address.  A frame is given a role: the level of  *)
(* the table it is, or a page of programs, the family of address spaces it *)
(* belongs to, and the offsets it is reached by.  Structure says that the  *)
(* entries lead where the roles say, Evolves that an operation keeps the   *)
(* roles and adds new ones, and the lemmas that each operation does so.    *)
(***************************************************************************)
EXTENDS Paging, TLAPS

\* A memory image: entries for all of the memory, and the program pages lie
\* below free.
IsImage(s) ==
    /\ s = [mem |-> s.mem, free |-> s.free, user |-> s.user]
    /\ s.free \in Nat /\ s.user \subseteq Nat /\ \A f \in s.user : f < s.free
    /\ s.mem = [f \in DOMAIN s.mem |-> s.mem[f]]
    /\ Frame \subseteq DOMAIN s.mem /\ DOMAIN s.mem \subseteq Nat
    /\ \A f \in DOMAIN s.mem : s.mem[f] \in [Index -> Nat]

\* What a frame is used for: as a table of level 1 (pml4) to 4 (page table) or as
\* a page of programs (5), or nothing of these (0); by which family of address
\* spaces (0: the kernel); and, for a table, by which offsets it is reached.
Roles == [lev : 0 .. 5, own : Nat, o1 : Nat, o2 : Nat, o3 : Nat]

\* The role of the table that entry i of a table with role r refers to
Child(r, i) ==
    [lev |-> r.lev + 1,
     own |-> IF r.lev = 1 /\ i = Entries - 1 THEN 0 ELSE r.own,
     o1  |-> IF r.lev = 1 THEN i ELSE r.o1,
     o2  |-> IF r.lev = 2 THEN i ELSE r.o2,
     o3  |-> IF r.lev = 3 THEN i ELSE r.o3]

\* Frames with a role were handed out, and those of tables have entries.
Typed(s, role) ==
    /\ IsImage(s) /\ role \in [Nat -> Roles]
    /\ \A f \in Nat : role[f].lev # 0 => f < s.free
    /\ \A f \in Nat : role[f].lev \in 1 .. 4 => f \in DOMAIN s.mem

\* A present entry of a table refers to the table that belongs there.
Tree(s, role) ==
    \A f \in Nat, i \in Index : role[f].lev \in 1 .. 3 /\ IsPresent(s.mem[f][i])
        => role[FrameOf(s.mem[f][i])] = Child(role[f], i)

\* The last top level entry is not for programs: it leads to the kernel.
Guarded(s, role) ==
    \A f \in Nat : role[f].lev = 1 => ~IsUser(s.mem[f][Entries - 1])

\* A present entry of a page table of a family refers to a page of the family.
Leaves(s, role) ==
    \A f \in Nat, i \in Index : role[f].lev = 4 /\ role[f].own # 0 /\ IsPresent(s.mem[f][i])
        => /\ role[FrameOf(s.mem[f][i])].lev = 5
           /\ role[FrameOf(s.mem[f][i])].own = role[f].own

\* The page tables in an image: what keeps programs in their own pages
Structure(s, role) ==
    Typed(s, role) /\ Tree(s, role) /\ Guarded(s, role) /\ Leaves(s, role)

-----------------------------------------------------------------------------

\* A frame keeps the role it has.
Extends(role, role2) == \A f \in Nat : role[f].lev # 0 => role2[f] = role[f]

\* Every top level table has the kernel's last entry.
Linked(s, role) ==
    \A f \in Nat : role[f].lev = 1 => IsPresent(s.mem[f][Entries - 1])

\* Entry i of the page table with role r is the one for page w.
OnPath(r, i, w) ==
    r.o1 = pml4_off(w) /\ r.o2 = pdpe_off(w) /\ r.o3 = pde_off(w) /\ i = pte_off(w)

\* No entry is cleared; those for tables stay what they are, and in a page table
\* those of the pages in W.
Grows(s, role, r, W) ==
    \A f \in Nat, i \in Index : role[f].lev \in 1 .. 4 /\ IsPresent(s.mem[f][i]) =>
        /\ IsPresent(r.mem[f][i])
        /\ role[f].lev # 4 \/ (\E w \in W : OnPath(role[f], i, w))
                => r.mem[f][i] = s.mem[f][i]

\* The pages that became program pages
Granted(s, role, r, role2, F) ==
    /\ s.user \subseteq r.user
    /\ \A f \in Nat : role2[f].lev = 5 /\ role[f].lev # 5
                        => f \in r.user \ s.user /\ role2[f].own = F

\* What an operation for family F may do: the structure stays, with roles for new
\* tables and pages, and the pages in W are spared.
Evolves(s, role, r, role2, F, W) ==
    /\ Structure(s, role) /\ Structure(r, role2) /\ s.free <= r.free
    /\ Extends(role, role2) /\ Grows(s, role, r, W) /\ Granted(s, role, r, role2, F)
    /\ Linked(s, role) => Linked(r, role2)

-----------------------------------------------------------------------------

\* Offsets
LEMMA IndexNumbers == 0 \in Index /\ Entries - 1 \in Index /\ \A i \in Index : i \in Nat
BY PagingAssumption DEF Index

\* An entry that init_map_virt_phys_addr writes: present, with its frame, and for
\* programs only if they were to have access.
LEMMA EntryFacts ==
    ASSUME NEW f \in Nat, NEW access \in {0, 1}
    PROVE  /\ Entry(f, access) \in Nat /\ IsPresent(Entry(f, access))
           /\ FrameOf(Entry(f, access)) = f /\ (IsUser(Entry(f, access)) => access = 1)
<1>1. CASE access = 1
  <2>1. Entry(f, access) = f * 8 + 7
    BY <1>1 DEF Entry, RW_USER_FLAGS
  <2>2. (f * 8 + 7) % 2 = 1 /\ (f * 8 + 7) \div 8 = f
    OBVIOUS
  <2> QED
    BY <1>1, <2>1, <2>2 DEF IsPresent, FrameOf
<1>2. CASE access = 0
  <2>1. Entry(f, access) = f * 8 + 3
    BY <1>2 DEF Entry, RW_KERNEL_FLAGS
  <2>2. (f * 8 + 3) % 2 = 1 /\ (f * 8 + 3) \div 8 = f /\ ((f * 8 + 3) \div 4) % 2 = 0
    OBVIOUS
  <2> QED
    BY <1>2, <2>1, <2>2 DEF IsPresent, FrameOf, IsUser
<1> QED
  BY <1>1, <1>2

\* A cleared entry
LEMMA ZeroFacts == ~IsPresent(0) /\ ~IsUser(0)
BY DEF IsPresent, IsUser

\* The frame in an entry
LEMMA FrameOfNat == ASSUME NEW e \in Nat PROVE FrameOf(e) \in Nat
BY DEF FrameOf

\* A page as kmalloc hands it out
ZeroPage == [i \in Index |-> 0]

\* From s to r, n cleared pages are handed out.
Allocates(s, n, r) ==
    /\ IsImage(r) /\ r.free = s.free + n /\ r.user = s.user
    /\ DOMAIN s.mem \subseteq DOMAIN r.mem
    /\ \A f \in DOMAIN s.mem : f < s.free => r.mem[f] = s.mem[f]
    /\ \A f \in Nat : s.free <= f /\ f < s.free + n =>
         f \in DOMAIN r.mem /\ r.mem[f] = ZeroPage

\* kmalloc hands out cleared pages and touches no other.
LEMMA KmallocFacts ==
    ASSUME NEW s, IsImage(s), NEW n \in Nat
    PROVE  Allocates(s, n, Kmalloc(s, n))
<1> USE DEF Allocates
<1> DEFINE new == s.free .. (s.free + n) - 1
           zero == [i \in Index |-> 0]
           m == [f \in new \cup DOMAIN s.mem |-> IF f \in new THEN zero ELSE s.mem[f]]
<1>1. s.free \in Nat /\ s = [mem |-> s.mem, free |-> s.free, user |-> s.user]
  BY DEF IsImage
<1>2. Kmalloc(s, n) = [mem |-> m, free |-> s.free + n, user |-> s.user]
  <2>1. Kmalloc(s, n) = [s EXCEPT !.mem = m, !.free = @ + n]
    BY DEF Kmalloc
  <2> HIDE DEF m
  <2> QED BY Zenon, <1>1, <2>1
<1>3. \A f \in Nat : f \in new <=> s.free <= f /\ f < s.free + n
  BY <1>1
<1>4. zero \in [Index -> Nat] /\ new \subseteq Nat
  BY <1>1
<1> HIDE DEF new, zero
<1>5. \A f \in DOMAIN m : m[f] \in [Index -> Nat]
  BY <1>4 DEF IsImage
<1>6. /\ Frame \subseteq DOMAIN m /\ DOMAIN m \subseteq Nat /\ m = [f \in DOMAIN m |-> m[f]]
  BY <1>4 DEF IsImage
<1>7. \A f \in s.user : f \in Nat /\ f < s.free + n
  BY <1>1 DEF IsImage
<1>8. IsImage(Kmalloc(s, n))
  <2> HIDE DEF m
  <2> QED BY <1>1, <1>2, <1>5, <1>6, <1>7 DEF IsImage
<1>9. \A f \in DOMAIN s.mem : f < s.free => m[f] = s.mem[f]
  BY <1>1, <1>3 DEF IsImage
<1>10. \A f \in new : f \in DOMAIN m /\ m[f] = zero
  OBVIOUS
<1> QED
  BY <1>2, <1>3, <1>8, <1>9, <1>10 DEF zero, ZeroPage

\* The same for one page
AllocatesOne(s, r) ==
    /\ IsImage(r) /\ r.free = s.free + 1 /\ r.user = s.user
    /\ DOMAIN s.mem \subseteq DOMAIN r.mem
    /\ \A f \in DOMAIN s.mem : f < s.free => r.mem[f] = s.mem[f]
    /\ s.free \in DOMAIN r.mem /\ r.mem[s.free] = ZeroPage

\* kmalloc of one page
LEMMA KmallocOne ==
    ASSUME NEW s, IsImage(s)
    PROVE  AllocatesOne(s, Kmalloc(s, 1))
<1> USE DEF AllocatesOne
<1> DEFINE n == 1
<1>1. n \in Nat /\ s.free \in Nat
  BY DEF IsImage
<1>2. s.free < s.free + n
  BY <1>1
<1> HIDE DEF n
<1>3. /\ IsImage(Kmalloc(s, n))
      /\ Kmalloc(s, n).free = s.free + n /\ Kmalloc(s, n).user = s.user
      /\ DOMAIN s.mem \subseteq DOMAIN Kmalloc(s, n).mem
      /\ \A f \in DOMAIN s.mem : f < s.free => Kmalloc(s, n).mem[f] = s.mem[f]
  BY Zenon, <1>1, KmallocFacts DEF Allocates
<1>4. s.free \in DOMAIN Kmalloc(s, n).mem /\ Kmalloc(s, n).mem[s.free] = ZeroPage
  <2>1. \A f \in Nat : s.free <= f /\ f < s.free + n =>
          f \in DOMAIN Kmalloc(s, n).mem /\ Kmalloc(s, n).mem[f] = ZeroPage
    <3>1. Allocates(s, n, Kmalloc(s, n))
      BY Zenon, <1>1, KmallocFacts
    <3> QED BY Zenon, <3>1 DEF Allocates
  <2>2. s.free <= s.free
    BY <1>1
  <2> QED BY Zenon, <1>1, <1>2, <2>1, <2>2
<1> QED
  BY <1>3, <1>4 DEF n

\* Steps combine.
LEMMA EvolvesOn ==
    ASSUME NEW s, NEW role, NEW r, NEW role2, NEW q, NEW role3, NEW F, NEW W,
           Evolves(s, role, r, role2, F, W), Evolves(r, role2, q, role3, F, W)
    PROVE  Evolves(s, role, q, role3, F, W)
<1>1. role \in [Nat -> Roles] /\ role2 \in [Nat -> Roles] /\ role3 \in [Nat -> Roles]
  BY DEF Evolves, Structure, Typed
<1>2. s.free <= q.free
  BY DEF Evolves, Structure, Typed, IsImage
<1>3. Extends(role, role3)
  BY DEF Evolves, Extends
<1>4. Grows(s, role, q, W)
  <2> SUFFICES ASSUME NEW f \in Nat, NEW i \in Index,
                      role[f].lev \in 1 .. 4, IsPresent(s.mem[f][i])
               PROVE  /\ IsPresent(q.mem[f][i])
                      /\ role[f].lev # 4 \/ (\E w \in W : OnPath(role[f], i, w))
                            => q.mem[f][i] = s.mem[f][i]
    BY DEF Grows
  <2>1. role2[f] = role[f]
    BY DEF Evolves, Extends
  <2>2. /\ IsPresent(r.mem[f][i])
        /\ role[f].lev # 4 \/ (\E w \in W : OnPath(role[f], i, w))
              => r.mem[f][i] = s.mem[f][i]
    BY DEF Evolves, Grows
  <2>3. /\ IsPresent(q.mem[f][i])
        /\ role[f].lev # 4 \/ (\E w \in W : OnPath(role[f], i, w))
              => q.mem[f][i] = r.mem[f][i]
    BY <2>1, <2>2 DEF Evolves, Grows
  <2> QED BY <2>2, <2>3
<1>5. Granted(s, role, q, role3, F)
  <2>1. Granted(s, role, r, role2, F) /\ Granted(r, role2, q, role3, F) /\ Extends(role2, role3)
    BY DEF Evolves
  <2>2. ASSUME NEW f \in Nat, role3[f].lev = 5, role[f].lev # 5
        PROVE  f \in q.user \ s.user /\ role3[f].own = F
    <3>1. CASE role2[f].lev = 5
      <4>1. role3[f] = role2[f]
        BY <2>1, <3>1 DEF Extends
      <4> QED BY <2>1, <2>2, <3>1, <4>1 DEF Granted
    <3>2. CASE role2[f].lev # 5
      BY <2>1, <2>2, <3>2 DEF Granted
    <3> QED BY <3>1, <3>2
  <2> QED BY <2>1, <2>2 DEF Granted
<1> QED
  BY <1>2, <1>3, <1>4, <1>5 DEF Evolves

\* Nothing changes.
LEMMA EvolvesNot ==
    ASSUME NEW s, NEW role, NEW F, NEW W, Structure(s, role)
    PROVE  Evolves(s, role, s, role, F, W)
<1>1. s.free <= s.free
  BY DEF Structure, Typed, IsImage
<1> QED
  BY <1>1 DEF Evolves, Extends, Grows, Granted

\* kmalloc is a step, as the pages have no role as yet.
LEMMA KmallocEvolves ==
    ASSUME NEW s, NEW role, Structure(s, role), NEW n \in Nat, NEW F, NEW W
    PROVE  Evolves(s, role, Kmalloc(s, n), role, F, W)
<1> DEFINE r == Kmalloc(s, n)
<1>1. IsImage(s) /\ role \in [Nat -> Roles]
  BY DEF Structure, Typed
<1>2. /\ IsImage(r) /\ r.free = s.free + n /\ r.user = s.user
      /\ DOMAIN s.mem \subseteq DOMAIN r.mem
      /\ \A f \in DOMAIN s.mem : f < s.free => r.mem[f] = s.mem[f]
  BY <1>1, KmallocFacts DEF Allocates
<1> HIDE DEF r
<1>3. s.free \in Nat /\ s.free <= r.free
  BY <1>1, <1>2 DEF IsImage
<1>4. \A f \in Nat : role[f].lev \in 1 .. 4 => r.mem[f] = s.mem[f]
  <2> SUFFICES ASSUME NEW f \in Nat, role[f].lev \in 1 .. 4 PROVE r.mem[f] = s.mem[f]
    OBVIOUS
  <2>1. f \in DOMAIN s.mem /\ f < s.free
    BY DEF Structure, Typed
  <2> QED BY <2>1, <1>2
<1>5. Typed(r, role)
  <2>1. \A f \in Nat : role[f].lev # 0 => f < r.free
    BY <1>2, <1>3 DEF Structure, Typed
  <2>2. \A f \in Nat : role[f].lev \in 1 .. 4 => f \in DOMAIN r.mem
    BY <1>2 DEF Structure, Typed
  <2> QED BY <1>1, <1>2, <2>1, <2>2 DEF Typed
<1>6. Tree(r, role)
  BY <1>4 DEF Structure, Tree
<1>7. Guarded(r, role)
  BY <1>4 DEF Structure, Guarded
<1>8. Leaves(r, role)
  BY <1>4 DEF Structure, Leaves
<1>9. Linked(s, role) => Linked(r, role)
  BY <1>4 DEF Linked
<1>10. Grows(s, role, r, W)
  BY <1>4 DEF Grows
<1>11. Extends(role, role) /\ Granted(s, role, r, role, F)
  BY <1>2 DEF Extends, Granted
<1> QED
  BY <1>3, <1>5, <1>6, <1>7, <1>8, <1>9, <1>10, <1>11 DEF Evolves, Structure, r

-----------------------------------------------------------------------------

\* One entry written
Put(s, t, i, e) == [s EXCEPT !.mem[t][i] = e]

\* From s to r, entry i of t becomes e.
Stores(s, t, i, e, r) ==
    /\ IsImage(r) /\ r.free = s.free /\ r.user = s.user /\ DOMAIN r.mem = DOMAIN s.mem
    /\ \A f \in DOMAIN s.mem, k \in Index : r.mem[f][k] =
         IF f = t /\ k = i THEN e ELSE s.mem[f][k]

\* What one write does
LEMMA PutFacts ==
    ASSUME NEW s, IsImage(s), NEW t \in DOMAIN s.mem, NEW i \in Index, NEW e \in Nat
    PROVE  Stores(s, t, i, e, Put(s, t, i, e))
<1> USE DEF Stores
<1> DEFINE row == [s.mem[t] EXCEPT ![i] = e]
           m == [s.mem EXCEPT ![t] = row]
<1>1. s = [mem |-> s.mem, free |-> s.free, user |-> s.user]
  BY DEF IsImage
<1>2. Put(s, t, i, e) = [mem |-> m, free |-> s.free, user |-> s.user]
  BY <1>1 DEF Put
<1>3. s.mem[t] \in [Index -> Nat]
  BY DEF IsImage
<1>4. row \in [Index -> Nat] /\ \A k \in Index : row[k] = IF k = i THEN e ELSE s.mem[t][k]
  BY <1>3
<1> HIDE DEF row
<1>5. DOMAIN m = DOMAIN s.mem /\ \A f \in DOMAIN s.mem : m[f] = IF f = t THEN row ELSE s.mem[f]
  BY DEF IsImage
<1>6. m = [f \in DOMAIN m |-> m[f]]
  BY DEF IsImage
<1> HIDE DEF m
<1>7. \A f \in DOMAIN m : m[f] \in [Index -> Nat]
  BY <1>4, <1>5 DEF IsImage
<1>8. IsImage(Put(s, t, i, e))
  BY <1>2, <1>5, <1>6, <1>7 DEF IsImage
<1> QED
  BY <1>2, <1>4, <1>5, <1>8

\* e may become entry i of t: it refers to a table or page that belongs there.
MayHold(s, role, t, i, e, W) ==
    /\ role[t].lev \in 1 .. 4 /\ IsPresent(e)
    /\ role[t].lev \in 1 .. 3 => role[FrameOf(e)] = Child(role[t], i)
    /\ role[t].lev = 1 /\ i = Entries - 1 => ~IsUser(e)
    /\ role[t].lev = 4 /\ role[t].own # 0 =>
         role[FrameOf(e)].lev = 5 /\ role[FrameOf(e)].own = role[t].own
    /\ IsPresent(s.mem[t][i]) =>
         role[t].lev = 4 /\ \A w \in W : ~OnPath(role[t], i, w)

\* An entry of a table is written: a new one that fits the structure.
LEMMA PutEvolves ==
    ASSUME NEW s, NEW role, Structure(s, role), NEW t \in Nat, NEW i \in Index, NEW e \in Nat,
           NEW F, NEW W, MayHold(s, role, t, i, e, W)
    PROVE  Evolves(s, role, Put(s, t, i, e), role, F, W)
<1> USE DEF MayHold
<1> DEFINE r == Put(s, t, i, e)
<1>1. IsImage(s) /\ role \in [Nat -> Roles] /\ t \in DOMAIN s.mem
  BY DEF Structure, Typed
<1>2. /\ IsImage(r) /\ r.free = s.free /\ r.user = s.user
      /\ DOMAIN r.mem = DOMAIN s.mem
      /\ \A f \in DOMAIN s.mem, k \in Index :
            r.mem[f][k] = IF f = t /\ k = i THEN e ELSE s.mem[f][k]
  BY <1>1, PutFacts DEF Stores
<1> HIDE DEF r
<1>3. s.free <= r.free
  BY <1>1, <1>2 DEF IsImage
<1>4. \A f \in Nat, k \in Index : role[f].lev \in 1 .. 4 =>
        r.mem[f][k] = IF f = t /\ k = i THEN e ELSE s.mem[f][k]
  BY <1>2 DEF Structure, Typed
<1>5. Typed(r, role)
  BY <1>1, <1>2 DEF Structure, Typed
<1>6. Tree(r, role)
  BY <1>4 DEF Structure, Tree
<1>7. Guarded(r, role)
  BY <1>4, IndexNumbers DEF Structure, Guarded
<1>8. Leaves(r, role)
  BY <1>4 DEF Structure, Leaves
<1>9. Linked(s, role) => Linked(r, role)
  BY <1>4, IndexNumbers DEF Linked
<1>10. Grows(s, role, r, W)
  BY <1>4 DEF Grows
<1>11. Extends(role, role) /\ Granted(s, role, r, role, F)
  BY <1>2 DEF Extends, Granted
<1> QED
  BY <1>3, <1>5, <1>6, <1>7, <1>8, <1>9, <1>10, <1>11 DEF Evolves, Structure, r

-----------------------------------------------------------------------------

\* c is the role that entry i of a table with role r leads to.
IsChild(r, i, c) ==
    /\ c \in Roles /\ c.lev = r.lev + 1 /\ c.lev # 0
    /\ c.own = IF r.lev = 1 /\ i = Entries - 1 THEN 0 ELSE r.own
    /\ c.o1 = IF r.lev = 1 THEN i ELSE r.o1
    /\ c.o2 = IF r.lev = 2 THEN i ELSE r.o2
    /\ c.o3 = IF r.lev = 3 THEN i ELSE r.o3

\* The role of Child, field by field
LEMMA ChildFacts ==
    ASSUME NEW r \in Roles, NEW i \in Index, r.lev \in 1 .. 3
    PROVE  IsChild(r, i, Child(r, i))
<1> USE DEF IsChild
<1>1. r.lev \in 0 .. 5 /\ r.own \in Nat /\ r.o1 \in Nat /\ r.o2 \in Nat /\ r.o3 \in Nat
  BY DEF Roles
<1>2. i \in Nat
  BY IndexNumbers
<1>3. r.lev + 1 \in 0 .. 5 /\ r.lev + 1 # 0
  OBVIOUS
<1> QED
  BY <1>1, <1>2, <1>3 DEF Child, Roles

\* The unused frame f holds what a table in role x may hold.
Fits(s, role, f, x) ==
    /\ role[f].lev = 0 /\ f < s.free /\ (x.lev # 5 => f \in DOMAIN s.mem)
    /\ x.lev \in 1 .. 3 => \A i \in Index :
         IsPresent(s.mem[f][i]) => role[FrameOf(s.mem[f][i])] = Child(x, i)
    /\ x.lev = 1 => ~IsUser(s.mem[f][Entries - 1])
    /\ x.lev = 4 => \A i \in Index : ~IsPresent(s.mem[f][i])

\* A page that had no role is given one that its entries fit.
LEMMA AssignStructure ==
    ASSUME NEW s, NEW role, Structure(s, role), NEW f \in Nat, NEW x \in Roles,
           Fits(s, role, f, x)
    PROVE  /\ Structure(s, [role EXCEPT ![f] = x])
           /\ Extends(role, [role EXCEPT ![f] = x])
<1> USE DEF Fits
<1> DEFINE role2 == [role EXCEPT ![f] = x]
<1>1. IsImage(s) /\ role \in [Nat -> Roles]
  BY DEF Structure, Typed
<1>2. /\ role2 \in [Nat -> Roles] /\ role2[f] = x
      /\ \A g \in Nat : g # f => role2[g] = role[g]
  BY <1>1
<1> HIDE DEF role2
<1>3. Extends(role, role2)
  BY <1>2 DEF Extends
<1>4. Typed(s, role2)
  <2>1. \A g \in Nat : role2[g].lev # 0 => g < s.free
    BY <1>2 DEF Structure, Typed
  <2>2. \A g \in Nat : role2[g].lev \in 1 .. 4 => g \in DOMAIN s.mem
    BY <1>2 DEF Structure, Typed
  <2> QED BY <1>1, <1>2, <2>1, <2>2 DEF Typed
<1>5. \A g \in Nat, i \in Index : g \in DOMAIN s.mem => FrameOf(s.mem[g][i]) \in Nat
  BY <1>1, FrameOfNat DEF IsImage
<1>6. Tree(s, role2)
  <2> SUFFICES ASSUME NEW g \in Nat, NEW i \in Index,
                      role2[g].lev \in 1 .. 3, IsPresent(s.mem[g][i])
               PROVE  role2[FrameOf(s.mem[g][i])] = Child(role2[g], i)
    BY DEF Tree
  <2>1. FrameOf(s.mem[g][i]) \in Nat
    BY <1>4, <1>5 DEF Typed
  <2>2. role[FrameOf(s.mem[g][i])] = Child(role2[g], i)
    BY <1>2 DEF Structure, Tree
  <2>3. role[FrameOf(s.mem[g][i])].lev # 0
    BY <1>2, <2>2, ChildFacts DEF IsChild
  <2> QED BY <1>3, <2>1, <2>2, <2>3 DEF Extends
<1>8. Guarded(s, role2)
  BY <1>2 DEF Structure, Guarded
<1>9. Leaves(s, role2)
  <2> SUFFICES ASSUME NEW g \in Nat, NEW i \in Index,
                      role2[g].lev = 4, role2[g].own # 0, IsPresent(s.mem[g][i])
               PROVE  /\ role2[FrameOf(s.mem[g][i])].lev = 5
                      /\ role2[FrameOf(s.mem[g][i])].own = role2[g].own
    BY DEF Leaves
  <2>1. g # f /\ role2[g] = role[g]
    BY <1>2
  <2>2. FrameOf(s.mem[g][i]) \in Nat
    BY <1>4, <1>5 DEF Typed
  <2>3. role[FrameOf(s.mem[g][i])].lev = 5 /\ role[FrameOf(s.mem[g][i])].own = role[g].own
    BY <2>1 DEF Structure, Leaves
  <2> QED BY <1>3, <2>1, <2>2, <2>3 DEF Extends
<1> QED
  BY <1>3, <1>4, <1>6, <1>8, <1>9 DEF Structure, role2

\* The same for a table, as a step: a top level one has the kernel's entry.
LEMMA AssignEvolves ==
    ASSUME NEW s, NEW role, Structure(s, role), NEW f \in Nat, NEW x \in Roles,
           Fits(s, role, f, x), x.lev # 5, x.lev = 1 => IsPresent(s.mem[f][Entries - 1]),
           NEW F, NEW W
    PROVE  Evolves(s, role, s, [role EXCEPT ![f] = x], F, W)
<1> USE DEF Fits
<1> DEFINE role2 == [role EXCEPT ![f] = x]
<1>1. Structure(s, role2) /\ Extends(role, role2)
  BY AssignStructure DEF Fits
<1>2. \A g \in Nat : role2[g] = IF g = f THEN x ELSE role[g]
  BY DEF Structure, Typed
<1> HIDE DEF role2
<1>3. s.free <= s.free
  BY DEF Structure, Typed, IsImage
<1>4. Grows(s, role, s, W)
  BY DEF Grows
<1>5. Granted(s, role, s, role2, F)
  BY <1>2 DEF Granted
<1>6. Linked(s, role) => Linked(s, role2)
  BY <1>2 DEF Linked
<1> QED
  BY <1>1, <1>3, <1>4, <1>5, <1>6 DEF Evolves, role2

\* A page is handed out for programs to use.
Mark(s, f) == [s EXCEPT !.user = @ \cup {f}]

\* Handing a page out changes no table.
LEMMA MarkFacts ==
    ASSUME NEW s, NEW role, Structure(s, role), NEW f \in Nat, f < s.free, NEW F, NEW W
    PROVE  /\ Mark(s, f).mem = s.mem /\ Mark(s, f).free = s.free
           /\ Mark(s, f).user = s.user \cup {f}
           /\ Evolves(s, role, Mark(s, f), role, F, W)
<1> DEFINE r == Mark(s, f)
<1>1. IsImage(s)
  BY DEF Structure, Typed
<1>2. r = [mem |-> s.mem, free |-> s.free, user |-> s.user \cup {f}]
  <2>1. s = [mem |-> s.mem, free |-> s.free, user |-> s.user]
    BY <1>1 DEF IsImage
  <2> QED BY <2>1 DEF Mark
<1> HIDE DEF r
<1>3. r.mem = s.mem /\ r.free = s.free /\ r.user = s.user \cup {f}
  BY <1>2
<1>4. IsImage(r)
  BY <1>1, <1>2, <1>3 DEF IsImage
<1>5. Structure(r, role)
  BY <1>3, <1>4 DEF Structure, Typed, Tree, Guarded, Leaves
<1>6. Linked(s, role) => Linked(r, role)
  BY <1>3 DEF Linked
<1>7. s.free <= r.free
  BY <1>1, <1>3 DEF IsImage
<1>8. Grows(s, role, r, W) /\ Granted(s, role, r, role, F) /\ Extends(role, role)
  BY <1>3 DEF Grows, Granted, Extends
<1> QED
  BY <1>3, <1>5, <1>6, <1>7, <1>8 DEF Evolves, r

\* The role of a page of family F
PageRole(F) == [lev |-> 5, own |-> F, o1 |-> 0, o2 |-> 0, o3 |-> 0]

\* Its fields
LEMMA PageRoleFacts ==
    ASSUME NEW F \in Nat
    PROVE  PageRole(F) \in Roles /\ PageRole(F).lev = 5 /\ PageRole(F).own = F
BY DEF PageRole, Roles

\* A page is handed out to family F.
LEMMA GrantEvolves ==
    ASSUME NEW s, NEW role, Structure(s, role), NEW f \in Nat, f < s.free, f \notin s.user,
           role[f].lev = 0, NEW x \in Roles, x.lev = 5, NEW W
    PROVE  Evolves(s, role, Mark(s, f), [role EXCEPT ![f] = x], x.own, W)
<1> DEFINE r == Mark(s, f)
           role2 == [role EXCEPT ![f] = x]
<1>1. /\ r.mem = s.mem /\ r.free = s.free /\ r.user = s.user \cup {f}
      /\ Evolves(s, role, r, role, x.own, W)
  BY MarkFacts
<1>2. Structure(r, role2) /\ Extends(role, role2)
  <2>1. Structure(r, role)
    BY <1>1 DEF Evolves
  <2> HIDE DEF r
  <2> QED BY <1>1, <2>1, AssignStructure DEF Fits
<1>3. \A g \in Nat : role2[g] = IF g = f THEN x ELSE role[g]
  BY DEF Structure, Typed
<1> HIDE DEF r, role2
<1>4. Granted(s, role, r, role2, x.own)
  BY <1>1, <1>3 DEF Granted
<1>5. Linked(r, role) => Linked(r, role2)
  BY <1>3 DEF Linked
<1> QED
  BY <1>1, <1>2, <1>4, <1>5 DEF Evolves, r, role2

-----------------------------------------------------------------------------

\* The table behind entry i of table t is there, and if it was not, it is empty.
Ensured(s, role, r, role2, t, i, F, W) ==
    /\ Evolves(s, role, r, role2, F, W)
    /\ IsPresent(r.mem[t][i]) /\ FrameOf(r.mem[t][i]) \in Nat
    /\ role2[FrameOf(r.mem[t][i])] = Child(role[t], i)
    /\ r.user = s.user
    /\ \A f \in Nat : f < s.free => role2[f] = role[f]
    /\ r = s \/ \A k \in Index : ~IsPresent(r.mem[FrameOf(r.mem[t][i])][k])

\* Ensure finds or creates the table behind entry i; the entry of the kernel is
\* not created for programs.
LEMMA EnsureEvolves ==
    ASSUME NEW s, NEW role, Structure(s, role), NEW t \in Nat, NEW i \in Index,
           NEW access \in {0, 1}, role[t].lev \in 1 .. 3,
           role[t].lev = 1 /\ i = Entries - 1 /\ access = 1 => IsPresent(s.mem[t][i]),
           NEW F, NEW W
    PROVE  \E role2 : Ensured(s, role, Ensure(s, t, i, access), role2, t, i, F, W)
<1>1. /\ IsImage(s) /\ role \in [Nat -> Roles] /\ t \in DOMAIN s.mem /\ t < s.free
      /\ s.free \in Nat /\ s.mem[t][i] \in Nat
  BY DEF Structure, Typed, IsImage
<1>2. CASE IsPresent(s.mem[t][i])
  <2>1. Ensure(s, t, i, access) = s
    BY <1>2 DEF Ensure
  <2>2. Evolves(s, role, s, role, F, W)
    BY EvolvesNot
  <2>3. role[FrameOf(s.mem[t][i])] = Child(role[t], i)
    BY <1>2 DEF Structure, Tree
  <2>4. FrameOf(s.mem[t][i]) \in Nat
    BY <1>1, FrameOfNat
  <2> QED BY <1>2, <2>1, <2>2, <2>3, <2>4 DEF Ensured
<1>3. CASE ~IsPresent(s.mem[t][i])
  <2> DEFINE k == Kmalloc(s, 1)
             f == s.free
             x == Child(role[t], i)
             role2 == [role EXCEPT ![f] = x]
             e == Entry(f, access)
             r == Put(k, t, i, e)
  <2>1. Ensure(s, t, i, access) = r
    BY <1>3 DEF Ensure, AllocTable, Put
  <2>2. /\ IsImage(k) /\ k.free = f + 1 /\ k.user = s.user /\ t \in DOMAIN k.mem
        /\ k.mem[t] = s.mem[t] /\ f \in DOMAIN k.mem /\ k.mem[f] = ZeroPage
    <3>1. /\ IsImage(k) /\ k.free = s.free + 1 /\ k.user = s.user
          /\ DOMAIN s.mem \subseteq DOMAIN k.mem
          /\ \A g \in DOMAIN s.mem : g < s.free => k.mem[g] = s.mem[g]
          /\ s.free \in DOMAIN k.mem /\ k.mem[s.free] = ZeroPage
      BY <1>1, KmallocOne DEF AllocatesOne
    <3> HIDE DEF k
    <3> QED BY <1>1, <3>1
  <2>3. Evolves(s, role, k, role, F, W)
    BY KmallocEvolves
  <2>4. Structure(k, role)
    BY <2>3 DEF Evolves
  <2>5. role[f].lev = 0 /\ t # f
    BY <1>1 DEF Structure, Typed
  <2>6. x \in Roles /\ x.lev = role[t].lev + 1
    BY <1>1, ChildFacts DEF IsChild
  <2> HIDE DEF k, x
  <2>7. \A j \in Index : ~IsPresent(k.mem[f][j]) /\ ~IsUser(k.mem[f][j])
    BY <2>2, ZeroFacts DEF ZeroPage
  <2>8. Evolves(k, role, k, role2, F, W)
    <3>1. f < k.free
      BY <1>1, <2>2
    <3>2. x.lev # 5 /\ x.lev # 1
      BY <2>6
    <3> HIDE DEF f
    <3> QED BY Zenon, <1>1, <2>2, <2>4, <2>5, <2>6, <2>7, <3>1, <3>2, AssignEvolves DEF f, Fits
  <2>9. Structure(k, role2) /\ Evolves(s, role, k, role2, F, W)
    BY <2>3, <2>8, EvolvesOn DEF Evolves
  <2>10. role2[t] = role[t] /\ role2[f] = x /\ \A g \in Nat : g < s.free => role2[g] = role[g]
    BY <1>1, <2>5
  <2>11. e \in Nat /\ IsPresent(e) /\ FrameOf(e) = f /\ (IsUser(e) => access = 1)
    BY <1>1, EntryFacts
  <2> HIDE DEF e, role2, f
  <2>12. Evolves(k, role2, r, role2, F, W)
    <3>1. ~IsPresent(k.mem[t][i])
      BY <1>3, <2>2
    <3>2. role2[t].lev \in 1 .. 3
      BY <2>10
    <3>3. role2[FrameOf(e)] = Child(role2[t], i)
      BY <2>10, <2>11 DEF x
    <3>4. role2[t].lev = 1 /\ i = Entries - 1 => ~IsUser(e)
      BY <1>3, <2>10, <2>11
    <3> QED BY <2>9, <2>11, <3>1, <3>2, <3>3, <3>4, PutEvolves DEF MayHold
  <2>13. Evolves(s, role, r, role2, F, W)
    BY <2>9, <2>12, EvolvesOn
  <2>14. /\ r.user = s.user /\ r.mem[t][i] = e
         /\ \A j \in Index : r.mem[f][j] = k.mem[f][j]
    BY <2>2, <2>5, <2>11, PutFacts DEF Stores
  <2> HIDE DEF r
  <2>15. \A j \in Index : ~IsPresent(r.mem[f][j])
    BY <2>7, <2>14
  <2>16. FrameOf(r.mem[t][i]) = f /\ f \in Nat
    BY <1>1, <2>11, <2>14 DEF f
  <2>17. Ensured(s, role, r, role2, t, i, F, W)
    BY <2>10, <2>11, <2>13, <2>14, <2>15, <2>16 DEF x, Ensured
  <2> QED BY <2>1, <2>17
<1> QED
  BY <1>2, <1>3

-----------------------------------------------------------------------------

\* Division by the size of a table
LEMMA DivisionFacts ==
    ASSUME NEW v \in Nat
    PROVE  v \div Entries \in Nat /\ v % Entries \in Index
BY PagingAssumption DEF Index

\* The offsets of an address are places in the tables.
LEMMA OffsetsInIndex ==
    ASSUME NEW v \in Nat
    PROVE  /\ pml4_off(v) \in Index /\ pdpe_off(v) \in Index
           /\ pde_off(v) \in Index /\ pte_off(v) \in Index
<1>1. v \div Entries \in Nat
  BY DivisionFacts
<1>2. (v \div Entries) \div Entries \in Nat
  BY <1>1, DivisionFacts
<1>3. ((v \div Entries) \div Entries) \div Entries \in Nat
  BY SMTT(30), <1>2, DivisionFacts
<1> QED
  BY <1>1, <1>2, <1>3, DivisionFacts DEF pml4_off, pdpe_off, pde_off, pte_off

-----------------------------------------------------------------------------

\* The tables that init_map_virt_phys_addr passes on the way to the page table
PdpeAt(s, v, root, access) == Descend([s |-> s, table |-> root], pml4_off(v), access)
PdeAt(s, v, root, access) == Descend(PdpeAt(s, v, root, access), pdpe_off(v), access)
PteAt(s, v, root, access) == Descend(PdeAt(s, v, root, access), pde_off(v), access)

Open1(s, v, root, access) == PdpeAt(s, v, root, access).s
Pdpe(s, v, root, access) == PdpeAt(s, v, root, access).table
Open2(s, v, root, access) == PdeAt(s, v, root, access).s
Pde(s, v, root, access) == PdeAt(s, v, root, access).table
Open3(s, v, root, access) == PteAt(s, v, root, access).s
Pte(s, v, root, access) == PteAt(s, v, root, access).table

\* Each table on the way follows from the one before.
Opens(s, v, root, access) ==
    /\ Open1(s, v, root, access) = Ensure(s, root, pml4_off(v), access)
    /\ Pdpe(s, v, root, access) = FrameOf(Open1(s, v, root, access).mem[root][pml4_off(v)])
    /\ Open2(s, v, root, access) =
         Ensure(Open1(s, v, root, access), Pdpe(s, v, root, access), pdpe_off(v), access)
    /\ Pde(s, v, root, access) =
         FrameOf(Open2(s, v, root, access).mem[Pdpe(s, v, root, access)][pdpe_off(v)])
    /\ Open3(s, v, root, access) =
         Ensure(Open2(s, v, root, access), Pde(s, v, root, access), pde_off(v), access)
    /\ Pte(s, v, root, access) =
         FrameOf(Open3(s, v, root, access).mem[Pde(s, v, root, access)][pde_off(v)])

\* init_map_virt_phys_addr opens one table after the other.
LEMMA OpenFacts ==
    ASSUME NEW s, NEW v, NEW root, NEW access
    PROVE  Opens(s, v, root, access)
<1> USE DEF Opens
<1>1. \A at, i : /\ Descend(at, i, access).s = Ensure(at.s, at.table, i, access)
                /\ Descend(at, i, access).table =
                      FrameOf(Descend(at, i, access).s.mem[at.table][i])
  BY DEF Descend
<1> DEFINE at == [s |-> s, table |-> root]
<1>2. at.s = s /\ at.table = root
  OBVIOUS
<1> HIDE DEF at
<1>3. PdpeAt(s, v, root, access) = Descend(at, pml4_off(v), access)
  BY DEF PdpeAt, at
<1>4. /\ Open1(s, v, root, access) = Ensure(s, root, pml4_off(v), access)
      /\ Pdpe(s, v, root, access) = FrameOf(Open1(s, v, root, access).mem[root][pml4_off(v)])
  BY <1>1, <1>2, <1>3 DEF Open1, Pdpe
<1>5. /\ Open2(s, v, root, access) =
           Ensure(Open1(s, v, root, access), Pdpe(s, v, root, access), pdpe_off(v), access)
      /\ Pde(s, v, root, access) =
           FrameOf(Open2(s, v, root, access).mem[Pdpe(s, v, root, access)][pdpe_off(v)])
  BY <1>1 DEF Open1, Pdpe, Open2, Pde, PdeAt
<1>6. /\ Open3(s, v, root, access) =
           Ensure(Open2(s, v, root, access), Pde(s, v, root, access), pde_off(v), access)
      /\ Pte(s, v, root, access) =
           FrameOf(Open3(s, v, root, access).mem[Pde(s, v, root, access)][pde_off(v)])
  BY Zenon, <1>1 DEF Open2, Pde, Open3, Pte, PteAt
<1> QED
  BY Zenon, <1>4, <1>5, <1>6

\* In image s the tables for page v are there: pdpe, pde and pte.
Reached(s, v, root, pdpe, pde, pte) ==
    /\ IsPresent(s.mem[root][pml4_off(v)]) /\ FrameOf(s.mem[root][pml4_off(v)]) = pdpe
    /\ IsPresent(s.mem[pdpe][pdpe_off(v)]) /\ FrameOf(s.mem[pdpe][pdpe_off(v)]) = pde
    /\ IsPresent(s.mem[pde][pde_off(v)])   /\ FrameOf(s.mem[pde][pde_off(v)]) = pte

\* The role of the page table for page v in the address space of a family
PteRole(r, own, v) ==
    /\ r.lev = 4 /\ r.own = IF pml4_off(v) = Entries - 1 THEN 0 ELSE own
    /\ r.o1 = pml4_off(v) /\ r.o2 = pdpe_off(v) /\ r.o3 = pde_off(v)

\* The same, with their roles
Chain(s, role, v, root, pdpe, pde, pte) ==
    /\ root \in Nat /\ pdpe \in Nat /\ pde \in Nat /\ pte \in Nat
    /\ Reached(s, v, root, pdpe, pde, pte)
    /\ role[root].lev = 1 /\ role[pdpe].lev = 2 /\ role[pde].lev = 3
    /\ PteRole(role[pte], role[root].own, v)

\* The tables for page v are there, and if its entry is present, v was mapped
\* before.
Opened(s, role, v, root, access, role2, F, W) ==
    /\ Evolves(s, role, Open3(s, v, root, access), role2, F, W)
    /\ Chain(Open3(s, v, root, access), role2, v, root, Pdpe(s, v, root, access),
             Pde(s, v, root, access), Pte(s, v, root, access))
    /\ Open3(s, v, root, access).user = s.user
    /\ \A f \in Nat : f < s.free => role2[f] = role[f]
    /\ IsPresent(Open3(s, v, root, access).mem[Pte(s, v, root, access)][pte_off(v)])
            => Walk(s, root, v) # NoFrame

\* The walk down of init_map_virt_phys_addr is a step: the table it ends at is the
\* page table for v.
LEMMA OpenEvolves ==
    ASSUME NEW s, NEW role, Structure(s, role), NEW root \in Nat, NEW v \in Nat,
           NEW access \in {0, 1}, role[root].lev = 1,
           pml4_off(v) = Entries - 1 /\ access = 1 => IsPresent(s.mem[root][pml4_off(v)]),
           NEW F, NEW W
    PROVE  \E role2 : Opened(s, role, v, root, access, role2, F, W)
<1> DEFINE s1 == Open1(s, v, root, access)
           pdpe == Pdpe(s, v, root, access)
           s2 == Open2(s, v, root, access)
           pde == Pde(s, v, root, access)
           s3 == Open3(s, v, root, access)
           pte == Pte(s, v, root, access)
<1>0. /\ pml4_off(v) \in Index /\ pdpe_off(v) \in Index
      /\ pde_off(v) \in Index /\ pte_off(v) \in Index
  BY Zenon, OffsetsInIndex
<1>1. PICK role1 :
        /\ Evolves(s, role, s1, role1, F, W) /\ IsPresent(s1.mem[root][pml4_off(v)])
        /\ pdpe \in Nat /\ role1[pdpe] = Child(role[root], pml4_off(v)) /\ s1.user = s.user
        /\ \A f \in Nat : f < s.free => role1[f] = role[f]
        /\ s1 = s \/ \A k \in Index : ~IsPresent(s1.mem[pdpe][k])
  <2>1. PICK role1 : Ensured(s, role, s1, role1, root, pml4_off(v), F, W)
    BY SMTT(30), <1>0, EnsureEvolves, OpenFacts DEF Opens
  <2>2. pdpe = FrameOf(s1.mem[root][pml4_off(v)])
    BY OpenFacts DEF Opens
  <2> HIDE DEF s1, pdpe
  <2> QED BY <2>1, <2>2 DEF Ensured
<1>2. Structure(s1, role1) /\ role1 \in [Nat -> Roles] /\ role \in [Nat -> Roles]
  BY Zenon, <1>1 DEF Evolves, Structure, Typed
<1>3. /\ role1[pdpe].lev = 2 /\ role1[pdpe].o1 = pml4_off(v)
      /\ role1[pdpe].own = IF pml4_off(v) = Entries - 1 THEN 0 ELSE role[root].own
  BY SMTT(30), <1>0, <1>1, <1>2, ChildFacts DEF IsChild
<1> HIDE DEF s1, pdpe
<1>4. PICK role2 :
        /\ Evolves(s1, role1, s2, role2, F, W) /\ IsPresent(s2.mem[pdpe][pdpe_off(v)])
        /\ pde \in Nat /\ role2[pde] = Child(role1[pdpe], pdpe_off(v)) /\ s2.user = s1.user
        /\ \A f \in Nat : f < s1.free => role2[f] = role1[f]
        /\ s2 = s1 \/ \A k \in Index : ~IsPresent(s2.mem[pde][k])
  <2>1. role1[pdpe].lev \in 1 .. 3 /\ role1[pdpe].lev # 1
    BY <1>3
  <2>2. s2 = Ensure(s1, pdpe, pdpe_off(v), access) /\ pde = FrameOf(s2.mem[pdpe][pdpe_off(v)])
    BY OpenFacts DEF s1, pdpe, Opens
  <2> HIDE DEF s2, pde
  <2>3. PICK role2 : Ensured(s1, role1, s2, role2, pdpe, pdpe_off(v), F, W)
    BY Zenon, <1>0, <1>1, <1>2, <2>1, <2>2, EnsureEvolves
  <2> QED BY <2>2, <2>3 DEF Ensured
<1>5. Structure(s2, role2) /\ role2 \in [Nat -> Roles]
  BY Zenon, <1>4 DEF Evolves, Structure, Typed
<1>6. /\ role2[pde].lev = 3 /\ role2[pde].o1 = pml4_off(v) /\ role2[pde].o2 = pdpe_off(v)
      /\ role2[pde].own = IF pml4_off(v) = Entries - 1 THEN 0 ELSE role[root].own
  <2>1. role1[pdpe] \in Roles
    BY <1>1, <1>2
  <2> QED BY <1>0, <1>3, <1>4, <2>1, ChildFacts DEF IsChild
<1> HIDE DEF s2, pde
<1>7. PICK role3 :
        /\ Evolves(s2, role2, s3, role3, F, W) /\ IsPresent(s3.mem[pde][pde_off(v)])
        /\ pte \in Nat /\ role3[pte] = Child(role2[pde], pde_off(v)) /\ s3.user = s2.user
        /\ \A f \in Nat : f < s2.free => role3[f] = role2[f]
        /\ s3 = s2 \/ \A k \in Index : ~IsPresent(s3.mem[pte][k])
  <2>1. role2[pde].lev \in 1 .. 3 /\ role2[pde].lev # 1
    BY <1>6
  <2>2. s3 = Ensure(s2, pde, pde_off(v), access) /\ pte = FrameOf(s3.mem[pde][pde_off(v)])
    BY OpenFacts DEF s2, pde, Opens
  <2> HIDE DEF s3, pte
  <2>3. PICK role3 : Ensured(s2, role2, s3, role3, pde, pde_off(v), F, W)
    BY Zenon, <1>0, <1>4, <1>5, <2>1, <2>2, EnsureEvolves
  <2> QED BY <2>2, <2>3 DEF Ensured
<1>8. PteRole(role3[pte], role[root].own, v)
  <2>1. role2[pde] \in Roles
    BY <1>4, <1>5
  <2> QED BY <1>0, <1>6, <1>7, <2>1, ChildFacts DEF PteRole, IsChild
<1> HIDE DEF s3, pte
<1>9. Evolves(s, role, s3, role3, F, W)
  BY Zenon, <1>1, <1>4, <1>7, EvolvesOn
<1>10. s3.mem[pdpe][pdpe_off(v)] = s2.mem[pdpe][pdpe_off(v)]
  <2>1. role2[pdpe] = role1[pdpe]
    BY <1>1, <1>3, <1>4 DEF Evolves, Extends
  <2>2. role2[pdpe].lev \in 1 .. 4 /\ role2[pdpe].lev # 4
    BY <1>3, <2>1
  <2>3. Grows(s2, role2, s3, W)
    BY Zenon, <1>7 DEF Evolves
  <2> QED BY Zenon, <1>0, <1>1, <1>4, <2>2, <2>3 DEF Grows
<1>11. s3.mem[root][pml4_off(v)] = s1.mem[root][pml4_off(v)]
  <2>1. Evolves(s1, role1, s3, role3, F, W)
    BY <1>4, <1>7, EvolvesOn
  <2>2. role1[root] = role[root]
    BY <1>1 DEF Evolves, Extends
  <2>3. role1[root].lev \in 1 .. 4 /\ role1[root].lev # 4
    BY <2>2
  <2> QED BY <1>0, <1>1, <2>1, <2>3 DEF Evolves, Grows
<1>12. Reached(s3, v, root, pdpe, pde, pte)
  <2>1. FrameOf(s1.mem[root][pml4_off(v)]) = pdpe
    BY OpenFacts DEF s1, pdpe, Opens
  <2>2. FrameOf(s2.mem[pdpe][pdpe_off(v)]) = pde
    BY OpenFacts DEF s2, pdpe, pde, Opens
  <2>3. FrameOf(s3.mem[pde][pde_off(v)]) = pte
    BY OpenFacts DEF s3, pde, pte, Opens
  <2> QED BY <1>1, <1>4, <1>7, <1>10, <1>11, <2>1, <2>2, <2>3 DEF Reached
<1>13. \A f \in Nat : f < s.free => role3[f] = role[f]
  <2>1. s.free <= s1.free /\ s1.free <= s2.free /\ s.free \in Nat /\ s1.free \in Nat /\ s2.free \in Nat
    BY <1>1, <1>2, <1>4, <1>5 DEF Evolves, Structure, Typed, IsImage
  <2> QED BY SMTT(30), <1>1, <1>4, <1>7, <2>1
<1>14. ASSUME IsPresent(s3.mem[pte][pte_off(v)]) PROVE Walk(s, root, v) # NoFrame
  <2>1. s3 = s2
    BY <1>0, <1>7, <1>14
  <2>2. s2 = s1
    BY <1>0, <1>4, <1>7, <2>1
  <2>3. s1 = s
    BY <1>0, <1>1, <1>4, <2>2
  <2>4. s3 = s
    BY SMTT(30), <2>1, <2>2, <2>3
  <2>5. Walk(s, root, v) = FrameOf(s.mem[pte][pte_off(v)])
    BY Zenon, <1>12, <1>14, <2>4 DEF Reached, Walk
  <2>6. s.mem[pte][pte_off(v)] \in Nat
    <3>1. pte \in DOMAIN s3.mem
      <4>1. role3[pte].lev \in 1 .. 4 /\ pte \in Nat
        BY <1>7, <1>8 DEF PteRole
      <4>2. Typed(s3, role3)
        BY <1>9 DEF Evolves, Structure
      <4> QED BY <4>1, <4>2 DEF Typed
    <3>2. IsImage(s)
      BY Zenon DEF Structure, Typed
    <3> QED BY <1>0, <2>4, <3>1, <3>2 DEF IsImage
  <2> QED BY <2>5, <2>6, FrameOfNat DEF NoFrame
<1>15. s3.user = s.user /\ role3[pde].lev = 3 /\ role3[pdpe].lev = 2 /\ role3[root] = role[root]
  <2>1. role3[pde] = role2[pde]
    BY SMTT(30), <1>4, <1>6, <1>7 DEF Evolves, Extends
  <2>2. role3[pdpe] = role2[pdpe] /\ role2[pdpe] = role1[pdpe]
    BY <1>1, <1>3, <1>4, <1>7 DEF Evolves, Extends
  <2>3. role3[root] = role[root]
    BY SMTT(30), <1>9 DEF Evolves, Extends
  <2> QED BY Zenon, <1>1, <1>3, <1>4, <1>6, <1>7, <2>1, <2>2, <2>3
<1>16. Chain(s3, role3, v, root, pdpe, pde, pte)
  BY <1>1, <1>4, <1>7, <1>8, <1>12, <1>15 DEF Chain
<1> QED
  BY <1>9, <1>13, <1>14, <1>15, <1>16 DEF s3, pdpe, pde, pte, Opened

-----------------------------------------------------------------------------

\* Tables stay where they are.
LEMMA ChainKept ==
    ASSUME NEW s, NEW role, NEW r, NEW role2, NEW F, NEW W, NEW v \in Nat,
           NEW root, NEW pdpe, NEW pde, NEW pte,
           Evolves(s, role, r, role2, F, W), Chain(s, role, v, root, pdpe, pde, pte)
    PROVE  /\ Chain(r, role2, v, root, pdpe, pde, pte)
           /\ role2[root] = role[root] /\ role2[pte] = role[pte]
<1>0. pml4_off(v) \in Index /\ pdpe_off(v) \in Index /\ pde_off(v) \in Index
  BY OffsetsInIndex
<1>1. /\ role2[root] = role[root] /\ role2[pdpe] = role[pdpe]
      /\ role2[pde] = role[pde] /\ role2[pte] = role[pte]
  BY DEF Evolves, Extends, Chain, PteRole
<1>2. \A f \in Nat, i \in Index : role[f].lev \in 1 .. 3 /\ IsPresent(s.mem[f][i])
        => r.mem[f][i] = s.mem[f][i]
  BY DEF Evolves, Grows
<1>3. /\ role[root].lev \in 1 .. 3 /\ role[pdpe].lev \in 1 .. 3 /\ role[pde].lev \in 1 .. 3
      /\ root \in Nat /\ pdpe \in Nat /\ pde \in Nat
  BY DEF Chain
<1>4. /\ r.mem[root][pml4_off(v)] = s.mem[root][pml4_off(v)]
      /\ r.mem[pdpe][pdpe_off(v)] = s.mem[pdpe][pdpe_off(v)]
      /\ r.mem[pde][pde_off(v)] = s.mem[pde][pde_off(v)]
  BY Zenon, <1>0, <1>2, <1>3 DEF Chain, Reached
<1>5. Reached(r, v, root, pdpe, pde, pte)
  BY <1>4 DEF Chain, Reached
<1> QED
  BY <1>1, <1>5 DEF Chain

\* Where the tables are there, a walk ends with the entry of the page table.
LEMMA WalkIs ==
    ASSUME NEW s, NEW role, Structure(s, role), NEW v \in Nat,
           NEW root, NEW pdpe, NEW pde, NEW pte,
           Chain(s, role, v, root, pdpe, pde, pte)
    PROVE  /\ Walk(s, root, v) = IF IsPresent(s.mem[pte][pte_off(v)])
                                 THEN FrameOf(s.mem[pte][pte_off(v)]) ELSE NoFrame
           /\ Walk(s, root, v) # NoFrame <=> IsPresent(s.mem[pte][pte_off(v)])
<1>1. Walk(s, root, v) = IF IsPresent(s.mem[pte][pte_off(v)])
                         THEN FrameOf(s.mem[pte][pte_off(v)]) ELSE NoFrame
  BY DEF Chain, Reached, Walk
<1>2. pte \in DOMAIN s.mem /\ IsImage(s)
  BY DEF Structure, Typed, Chain, PteRole
<1>3. s.mem[pte][pte_off(v)] \in Nat
  BY <1>2, OffsetsInIndex DEF IsImage
<1>4. FrameOf(s.mem[pte][pte_off(v)]) # NoFrame
  BY <1>3, FrameOfNat DEF NoFrame
<1> QED
  BY <1>1, <1>4

\* A page that is there is found along a chain.
LEMMA WalkChain ==
    ASSUME NEW s, NEW role, Structure(s, role), NEW v \in Nat, NEW root \in Nat,
           role[root].lev = 1, Walk(s, root, v) # NoFrame
    PROVE  \E pdpe, pde, pte : Chain(s, role, v, root, pdpe, pde, pte)
<1> DEFINE pdpe == FrameOf(s.mem[root][pml4_off(v)])
           pde == FrameOf(s.mem[pdpe][pdpe_off(v)])
           pte == FrameOf(s.mem[pde][pde_off(v)])
<1>0. pml4_off(v) \in Index /\ pdpe_off(v) \in Index /\ pde_off(v) \in Index
  BY SMTT(30), OffsetsInIndex
<1>1. Reached(s, v, root, pdpe, pde, pte)
  BY Zenon DEF Walk, Reached
<1>2. \A f \in Nat, i \in Index : role[f].lev \in 1 .. 3 /\ IsPresent(s.mem[f][i]) =>
        /\ FrameOf(s.mem[f][i]) \in Nat /\ role[f] \in Roles
        /\ role[FrameOf(s.mem[f][i])] = Child(role[f], i)
  <2> SUFFICES ASSUME NEW f \in Nat, NEW i \in Index, role[f].lev \in 1 .. 3, IsPresent(s.mem[f][i])
               PROVE  /\ FrameOf(s.mem[f][i]) \in Nat /\ role[f] \in Roles
                      /\ role[FrameOf(s.mem[f][i])] = Child(role[f], i)
    OBVIOUS
  <2>1. f \in DOMAIN s.mem /\ role[f] \in Roles /\ IsImage(s)
    BY DEF Structure, Typed
  <2>2. s.mem[f][i] \in Nat
    <3>1. s.mem[f] \in [Index -> Nat]
      BY Zenon, <2>1 DEF IsImage
    <3> QED BY Zenon, <3>1
  <2> QED BY <2>1, <2>2, FrameOfNat DEF Structure, Tree
<1> HIDE DEF pdpe, pde, pte
<1>3. /\ IsPresent(s.mem[root][pml4_off(v)]) /\ IsPresent(s.mem[pdpe][pdpe_off(v)])
      /\ IsPresent(s.mem[pde][pde_off(v)]) /\ FrameOf(s.mem[root][pml4_off(v)]) = pdpe
      /\ FrameOf(s.mem[pdpe][pdpe_off(v)]) = pde /\ FrameOf(s.mem[pde][pde_off(v)]) = pte
  BY Zenon, <1>1 DEF Reached
<1>4. pdpe \in Nat /\ role[root] \in Roles /\ role[pdpe] = Child(role[root], pml4_off(v))
  <2>1. role[root].lev \in 1 .. 3
    OBVIOUS
  <2> QED BY Zenon, <1>0, <1>2, <1>3, <2>1
<1>5. /\ role[pdpe].lev = 2 /\ role[pdpe].o1 = pml4_off(v)
      /\ role[pdpe].own = IF pml4_off(v) = Entries - 1 THEN 0 ELSE role[root].own
  BY <1>0, <1>4, ChildFacts DEF IsChild
<1>6. pde \in Nat /\ role[pdpe] \in Roles /\ role[pde] = Child(role[pdpe], pdpe_off(v))
  <2>1. role[pdpe].lev \in 1 .. 3
    BY <1>5
  <2> QED BY <1>0, <1>2, <1>3, <1>4, <2>1
<1>7. /\ role[pde].lev = 3 /\ role[pde].o1 = pml4_off(v) /\ role[pde].o2 = pdpe_off(v)
      /\ role[pde].own = IF pml4_off(v) = Entries - 1 THEN 0 ELSE role[root].own
  BY <1>0, <1>5, <1>6, ChildFacts DEF IsChild
<1>8. pte \in Nat /\ role[pde] \in Roles /\ role[pte] = Child(role[pde], pde_off(v))
  <2>1. role[pde].lev \in 1 .. 3
    BY <1>7
  <2> QED BY <1>0, <1>2, <1>3, <1>6, <2>1
<1>9. PteRole(role[pte], role[root].own, v)
  BY <1>0, <1>7, <1>8, ChildFacts DEF PteRole, IsChild
<1> QED
  BY <1>1, <1>4, <1>5, <1>6, <1>7, <1>8, <1>9 DEF Chain

\* A page that is there stays there, and one in W keeps its frame.
LEMMA WalkKept ==
    ASSUME NEW s, NEW role, NEW r, NEW role2, NEW F, NEW W,
           Evolves(s, role, r, role2, F, W), NEW v \in Nat, NEW root \in Nat,
           role[root].lev = 1, Walk(s, root, v) # NoFrame
    PROVE  Walk(r, root, v) # NoFrame /\ (v \in W => Walk(r, root, v) = Walk(s, root, v))
<1>0. pte_off(v) \in Index
  BY OffsetsInIndex
<1>1. Structure(s, role) /\ Structure(r, role2)
  BY Zenon DEF Evolves
<1>2. PICK pdpe, pde, pte : Chain(s, role, v, root, pdpe, pde, pte)
  BY Zenon, <1>1, WalkChain
<1>3. Chain(r, role2, v, root, pdpe, pde, pte)
  BY Zenon, <1>2, ChainKept
<1>4. IsPresent(s.mem[pte][pte_off(v)])
  BY <1>1, <1>2, WalkIs
<1>5. pte \in Nat /\ role[pte].lev \in 1 .. 4 /\ OnPath(role[pte], pte_off(v), v)
  BY <1>2 DEF Chain, PteRole, OnPath
<1>6. /\ IsPresent(r.mem[pte][pte_off(v)])
      /\ v \in W => r.mem[pte][pte_off(v)] = s.mem[pte][pte_off(v)]
  BY <1>0, <1>4, <1>5 DEF Evolves, Grows
<1> QED
  BY <1>1, <1>2, <1>3, <1>4, <1>6, WalkIs

-----------------------------------------------------------------------------

\* One entry is written, or none where the page table is not in memory.
LEMMA FillOne ==
    ASSUME NEW s, IsImage(s), NEW t \in Nat, NEW from \in Index, NEW p \in Nat,
           NEW access \in {0, 1}
    PROVE  Fill(s, t, from, p, 1, access) =
             IF t \in Frame THEN Put(s, t, from, Entry(p, access)) ELSE s
<1> DEFINE touched == (t .. t + ((from + 1) - 1) \div Entries) \cap Frame
           written(f) == [i \in Index |->
             IF from <= (f - t) * Entries + i /\ (f - t) * Entries + i < from + 1
             THEN Entry((p + ((f - t) * Entries + i)) - from, access) ELSE s.mem[f][i]]
           m == [f \in DOMAIN s.mem |-> IF f \in touched THEN written(f) ELSE s.mem[f]]
<1>1. Fill(s, t, from, p, 1, access) = [s EXCEPT !.mem = m]
  BY DEF Fill
<1>2. from \in Nat /\ from < Entries /\ Entries \in Nat
  BY PagingAssumption DEF Index
<1>3. touched = {t} \cap Frame
  <2>1. ((from + 1) - 1) \div Entries = 0
    BY <1>2
  <2>2. t .. t + 0 = {t}
    OBVIOUS
  <2> QED BY <2>1, <2>2
<1>4. /\ s = [mem |-> s.mem, free |-> s.free, user |-> s.user]
      /\ s.mem = [f \in DOMAIN s.mem |-> s.mem[f]] /\ Frame \subseteq DOMAIN s.mem
      /\ \A f \in DOMAIN s.mem : s.mem[f] \in [Index -> Nat]
  BY DEF IsImage
<1>5. CASE t \notin Frame
  <2>1. m = s.mem
    <3> HIDE DEF touched, written
    <3> QED BY <1>3, <1>4, <1>5
  <2> HIDE DEF m
  <2> QED BY <1>1, <1>4, <1>5, <2>1
<1>6. CASE t \in Frame
  <2> DEFINE row == [s.mem[t] EXCEPT ![from] = Entry(p, access)]
  <2>1. s.mem[t] \in [Index -> Nat]
    BY <1>4, <1>6
  <2>2. written(t) = row
    <3>1. \A i \in Index : (t - t) * Entries + i = i
      BY <1>2 DEF Index
    <3>2. \A i \in Index : from <= i /\ i < from + 1 <=> i = from
      BY <1>2 DEF Index
    <3>3. (p + from) - from = p
      BY <1>2
    <3>4. written(t) = [i \in Index |-> IF i = from THEN Entry(p, access) ELSE s.mem[t][i]]
      <4>1. \A i \in Index : written(t)[i] = IF i = from THEN Entry(p, access) ELSE s.mem[t][i]
        BY <3>1, <3>2, <3>3
      <4> QED BY <4>1
    <3> HIDE DEF written
    <3> QED BY <2>1, <3>4
  <2> HIDE DEF written, row, touched
  <2>3. m = [s.mem EXCEPT ![t] = row]
    <3>1. t \in DOMAIN s.mem /\ \A f \in DOMAIN s.mem : f \in touched <=> f = t
      BY <1>3, <1>4, <1>6
    <3>2. m = [f \in DOMAIN s.mem |-> IF f = t THEN row ELSE s.mem[f]]
      BY <2>2, <3>1
    <3> QED BY <1>4, <3>1, <3>2
  <2> HIDE DEF m
  <2>4. Put(s, t, from, Entry(p, access)) = [s EXCEPT !.mem = [s.mem EXCEPT ![t] = row]]
    BY <1>4 DEF Put, row
  <2> QED BY <1>1, <1>6, <2>3, <2>4
<1> QED
  BY <1>5, <1>6

\* init_map_virt_phys_addr, in terms of the tables it opens
LEMMA MapIs ==
    ASSUME NEW s, NEW v, NEW p, NEW n, NEW root, NEW access
    PROVE  init_map_virt_phys_addr(s, v, p, n, root, access) =
             IF n + pte_off(v) <= Entries
             THEN Fill(Open3(s, v, root, access), Pte(s, v, root, access), pte_off(v), p, n, access)
             ELSE MapFurther(Fill(Open3(s, v, root, access), Pte(s, v, root, access), pte_off(v),
                                  p, Entries - pte_off(v), access),
                             Pde(s, v, root, access), pde_off(v), pte_off(v),
                             p + (Entries - pte_off(v)), n - (Entries - pte_off(v)), access)
BY DEF init_map_virt_phys_addr, Open3, Pde, Pte, PdpeAt, PdeAt, PteAt

\* init_map_virt_phys_addr for one page
LEMMA MapOne ==
    ASSUME NEW s, NEW v \in Nat, NEW p \in Nat, NEW root, NEW access \in {0, 1},
           IsImage(Open3(s, v, root, access)), Pte(s, v, root, access) \in Nat
    PROVE  init_map_virt_phys_addr(s, v, p, 1, root, access) =
             IF Pte(s, v, root, access) \in Frame
             THEN Put(Open3(s, v, root, access), Pte(s, v, root, access), pte_off(v),
                      Entry(p, access))
             ELSE Open3(s, v, root, access)
<1>1. pte_off(v) \in Index
  BY OffsetsInIndex
<1>2. 1 + pte_off(v) <= Entries
  BY <1>1, PagingAssumption DEF Index
<1>3. init_map_virt_phys_addr(s, v, p, 1, root, access) =
        Fill(Open3(s, v, root, access), Pte(s, v, root, access), pte_off(v), p, 1, access)
  BY Zenon, <1>2, MapIs
<1> QED
  BY <1>1, <1>3, FillOne

\* Two pages with the same offsets in all four tables
Same(v, w) ==
    /\ pml4_off(v) = pml4_off(w) /\ pdpe_off(v) = pdpe_off(w)
    /\ pde_off(v) = pde_off(w) /\ pte_off(v) = pte_off(w)

\* root is the top level table of an address space of family F.
InSpace(s, role, root, F) ==
    /\ Structure(s, role) /\ Linked(s, role)
    /\ root \in Nat /\ role[root].lev = 1 /\ role[root].own = F

\* Address spaces stay.
LEMMA InSpaceKept ==
    ASSUME NEW s, NEW role, NEW r, NEW role2, NEW root, NEW F, NEW G, NEW W,
           InSpace(s, role, root, F), Evolves(s, role, r, role2, G, W)
    PROVE  InSpace(r, role2, root, F) /\ role2[root] = role[root]
<1>1. role2[root] = role[root]
  BY DEF InSpace, Evolves, Extends
<1> QED
  BY <1>1 DEF InSpace, Evolves

\* A new page at v is there, and it belongs to the family of the address space.
Adds(s, role, r, role2, root, v, F, W) ==
    /\ Evolves(s, role, r, role2, F, W)
    /\ s.free < r.free /\ s.free \in r.user
    /\ r.free <= Frames + 1 => Walk(r, root, v) = s.free

\* region_alloc, kmalloc_stack and page_fault_handler map a new page for the
\* family, where memory suffices, and spare the pages in W.
LEMMA UserPageAdds ==
    ASSUME NEW s, NEW role, NEW root, NEW F, InSpace(s, role, root, F), NEW v \in Nat, NEW W,
           \A w \in W : Same(v, w) => Walk(s, root, v) = NoFrame
    PROVE  \E role2 : Adds(s, role, UserPage(s, v, root), role2, root, v, F, W)
<1> DEFINE k == Kmalloc(s, 1)
           f == s.free
           s3 == Open3(k, v, root, 1)
           pdpe == Pdpe(k, v, root, 1)
           pde == Pde(k, v, root, 1)
           pte == Pte(k, v, root, 1)
           u == Mark(s3, f)
           e == Entry(f, 1)
           r == UserPage(s, v, root)
<1>0. pml4_off(v) \in Index /\ pte_off(v) \in Index
  BY OffsetsInIndex
<1>a. /\ Structure(s, role) /\ Linked(s, role) /\ root \in Nat
      /\ role[root].lev = 1 /\ role[root].own = F
  BY DEF InSpace
<1>1. IsImage(s) /\ role \in [Nat -> Roles] /\ f \in Nat /\ f \notin s.user /\ role[f].lev = 0
  BY SMTT(30), <1>a DEF Structure, Typed, IsImage
<1>2. /\ IsImage(k) /\ k.free = f + 1 /\ k.user = s.user
      /\ \A g \in DOMAIN s.mem : g < s.free => k.mem[g] = s.mem[g]
  BY <1>1, KmallocOne DEF AllocatesOne
<1>3. Evolves(s, role, k, role, F, W)
  BY Zenon, <1>a, KmallocEvolves
<1>4. Structure(k, role) /\ Linked(k, role)
  BY Zenon, <1>a, <1>3 DEF Evolves
<1>5. Walk(k, root, v) # NoFrame => Walk(s, root, v) # NoFrame
  <2> HIDE DEF k
  <2> SUFFICES ASSUME Walk(k, root, v) # NoFrame PROVE Walk(s, root, v) # NoFrame
    BY Zenon
  <2>1. PICK a, b, c : Chain(k, role, v, root, a, b, c)
    BY Zenon, <1>a, <1>4, WalkChain
  <2>2. \A g \in Nat : role[g].lev \in 1 .. 4 => k.mem[g] = s.mem[g]
    BY <1>a, <1>2 DEF Structure, Typed
  <2>3. k.mem[root] = s.mem[root] /\ k.mem[a] = s.mem[a] /\ k.mem[b] = s.mem[b] /\ k.mem[c] = s.mem[c]
    BY SMTT(30), <1>a, <2>1, <2>2 DEF Chain, PteRole
  <2>4. Chain(s, role, v, root, a, b, c)
    BY <2>1, <2>3 DEF Chain, Reached
  <2>5. IsPresent(s.mem[c][pte_off(v)])
    BY Zenon, <1>4, <2>1, <2>3, WalkIs
  <2> QED BY <1>a, <2>4, <2>5, WalkIs
<1> HIDE DEF k
<1>6. PICK role1 :
        /\ Evolves(k, role, s3, role1, F, W)
        /\ Chain(s3, role1, v, root, pdpe, pde, pte)
        /\ s3.user = k.user
        /\ \A g \in Nat : g < k.free => role1[g] = role[g]
        /\ IsPresent(s3.mem[pte][pte_off(v)]) => Walk(k, root, v) # NoFrame
  <2>1. pml4_off(v) = Entries - 1 => IsPresent(k.mem[root][pml4_off(v)])
    BY Zenon, <1>a, <1>4 DEF Linked
  <2>2. PICK role1 : Opened(k, role, v, root, 1, role1, F, W)
    BY Zenon, <1>a, <1>4, <2>1, OpenEvolves
  <2> QED BY <2>2 DEF Opened
<1> HIDE DEF s3, pdpe, pde, pte
<1>7. Structure(s3, role1) /\ IsImage(s3) /\ k.free <= s3.free /\ k.free \in Nat /\ s3.free \in Nat
  BY <1>6 DEF Evolves, Structure, Typed, IsImage
<1>8. role1[f].lev = 0 /\ f < s3.free /\ f \notin s3.user /\ role1[root] = role[root]
  <2>1. f < k.free /\ root < k.free
    <3>1. root < s.free
      BY <1>a DEF Structure, Typed
    <3> QED BY <1>a, <1>1, <1>2, <3>1
  <2> QED BY SMTT(30), <1>a, <1>1, <1>2, <1>6, <1>7, <2>1
<1>9. Evolves(s, role, s3, role1, F, W)
  BY Zenon, <1>3, <1>6, EvolvesOn
<1>10. pte \in Nat /\ PteRole(role1[pte], F, v) /\ pte \in DOMAIN s3.mem /\ pte < s3.free
  <2>1. pte \in Nat /\ PteRole(role1[pte], F, v)
    BY Zenon, <1>a, <1>6, <1>8 DEF Chain
  <2> QED BY SMTT(30), <1>7, <2>1 DEF Structure, Typed, PteRole
<1>11. r = IF pte \in Frame THEN Put(u, pte, pte_off(v), e) ELSE u
  <2>1. init_map_virt_phys_addr(k, v, f, 1, root, 1) =
          IF pte \in Frame THEN Put(s3, pte, pte_off(v), e) ELSE s3
    BY SMTT(30), <1>1, <1>7, <1>10, MapOne DEF s3, pte
  <2>2. r = Mark(init_map_virt_phys_addr(k, v, f, 1, root, 1), f)
    BY DEF UserPage, Mark, k
  <2>3. Mark(Put(s3, pte, pte_off(v), e), f) = Put(u, pte, pte_off(v), e)
    <3> HIDE DEF e, f
    <3>1. s3 = [mem |-> s3.mem, free |-> s3.free, user |-> s3.user]
      BY <1>7 DEF IsImage
    <3> QED BY Zenon, <3>1 DEF Mark, Put
  <2> HIDE DEF r, e, f
  <2> QED BY Zenon, <2>1, <2>2, <2>3
<1> HIDE DEF r
<1>12. /\ u.mem = s3.mem /\ u.free = s3.free /\ u.user = s3.user \cup {f}
       /\ Evolves(s3, role1, u, role1, F, W)
  BY ZenonT(30), <1>1, <1>7, <1>8, MarkFacts
<1>13. e \in Nat /\ IsPresent(e) /\ FrameOf(e) = f
  BY Zenon, <1>1, EntryFacts
<1> HIDE DEF e
<1>14. PICK role2 :
        /\ Evolves(s3, role1, u, role2, F, W)
        /\ role1[pte].own # 0 => role2[f].lev = 5 /\ role2[f].own = role1[pte].own
  <2>1. CASE role1[pte].own = 0
    BY Zenon, <1>12, <2>1
  <2>2. CASE role1[pte].own # 0
    <3> DEFINE x == PageRole(F)
               role2 == [role1 EXCEPT ![f] = x]
    <3>1. F \in Nat /\ x \in Roles /\ x.lev = 5 /\ x.own = F
      <4>1. role[root] \in Roles
        BY SMTT(30), <1>a, <1>1
      <4>2. F \in Nat
        BY <1>a, <4>1 DEF Roles
      <4> QED BY Zenon, <4>2, PageRoleFacts
    <3>2. role1[pte].own = F
      BY SMTT(30), <1>10, <2>2 DEF PteRole
    <3>3. role2[f] = x
      BY Zenon, <1>1, <1>7 DEF Structure, Typed
    <3> HIDE DEF x
    <3>4. Evolves(s3, role1, u, role2, F, W)
      BY Zenon, <1>1, <1>7, <1>8, <3>1, GrantEvolves
    <3> HIDE DEF role2
    <3> QED BY Zenon, <3>1, <3>2, <3>3, <3>4
  <2> QED BY Zenon, <2>1, <2>2
<1>15. Structure(u, role2) /\ role2[pte] = role1[pte]
  <2>1. Structure(u, role2) /\ Extends(role1, role2)
    BY Zenon, <1>14 DEF Evolves
  <2>2. role1[pte].lev # 0
    BY <1>10 DEF PteRole
  <2> QED BY Zenon, <1>10, <2>1, <2>2 DEF Extends
<1>16. Evolves(s, role, u, role2, F, W)
  BY <1>9, <1>14, EvolvesOn
<1> HIDE DEF u
<1>17. Evolves(u, role2, Put(u, pte, pte_off(v), e), role2, F, W)
  <2>1. role2[pte].lev = 4
    BY <1>10, <1>15 DEF PteRole
  <2>4. role2[pte].lev \in 1 .. 4 /\ ~(role2[pte].lev \in 1 .. 3) /\ role2[pte].lev # 1
    BY <2>1
  <2>2. IsPresent(u.mem[pte][pte_off(v)]) => \A w \in W : ~OnPath(role2[pte], pte_off(v), w)
    BY SMTT(30), <1>5, <1>6, <1>10, <1>12, <1>15 DEF PteRole, OnPath, Same
  <2>3. role2[pte].own # 0 => role2[FrameOf(e)].lev = 5 /\ role2[FrameOf(e)].own = role2[pte].own
    BY Zenon, <1>13, <1>14, <1>15
  <2> QED BY Zenon, <1>0, <1>10, <1>13, <1>15, <2>1, <2>2, <2>3, <2>4, PutEvolves DEF MayHold
<1>18. Evolves(s, role, r, role2, F, W)
  BY Zenon, <1>11, <1>16, <1>17, EvolvesOn
<1>19. /\ r.free = s3.free /\ r.user = s3.user \cup {f}
       /\ pte \in Frame => r.mem[pte][pte_off(v)] = e
  <2>1. IsImage(u) /\ pte \in DOMAIN u.mem
    BY Zenon, <1>10, <1>12, <1>15 DEF Structure, Typed
  <2>2. /\ Put(u, pte, pte_off(v), e).free = u.free /\ Put(u, pte, pte_off(v), e).user = u.user
        /\ Put(u, pte, pte_off(v), e).mem[pte][pte_off(v)] = e
    BY SMTT(30), <1>0, <1>13, <2>1, PutFacts DEF Stores
  <2> QED BY Zenon, <1>11, <1>12, <2>2
<1>20. ASSUME r.free <= Frames + 1 PROVE Walk(r, root, v) = f
  <2>1. pte \in Frame
    BY SMTT(30), <1>7, <1>10, <1>19, <1>20, PagingAssumption DEF Frame
  <2>2. Evolves(s3, role1, r, role2, F, W)
    BY Zenon, <1>11, <1>14, <1>17, EvolvesOn
  <2>3. Chain(r, role2, v, root, pdpe, pde, pte)
    BY <1>6, <2>2, ChainKept
  <2>4. Structure(r, role2)
    BY <2>2 DEF Evolves
  <2> QED BY <1>13, <1>19, <2>1, <2>3, <2>4, WalkIs
<1>21. f < r.free /\ f \in r.user
  BY Zenon, <1>8, <1>19
<1> QED
  BY <1>18, <1>20, <1>21 DEF r, Adds

\* A page of the kernel is mapped again.
LEMMA RemapEvolves ==
    ASSUME NEW s, NEW role, Structure(s, role), Linked(s, role), NEW root \in Nat,
           role[root].lev = 1, NEW v \in Nat, pml4_off(v) = Entries - 1, NEW p \in Nat, NEW F,
           NEW W, \A w \in W : pml4_off(w) # Entries - 1
    PROVE  \E role2 :
             Evolves(s, role, init_map_virt_phys_addr(s, v, p, 1, root, 1), role2, F, W)
<1> DEFINE s3 == Open3(s, v, root, 1)
           pte == Pte(s, v, root, 1)
           e == Entry(p, 1)
           r == Put(s3, pte, pte_off(v), e)
<1>1. PICK role2 : Opened(s, role, v, root, 1, role2, F, W)
  <2>1. IsPresent(s.mem[root][pml4_off(v)])
    BY Zenon DEF Linked
  <2> QED BY Zenon, <2>1, OpenEvolves
<1>2. /\ Evolves(s, role, s3, role2, F, W)
      /\ pte \in Nat /\ PteRole(role2[pte], role2[root].own, v)
  BY SMTT(30), <1>1 DEF Opened, Chain
<1>3. Structure(s3, role2) /\ IsImage(s3)
  BY ZenonT(30), <1>2 DEF Evolves, Structure, Typed
<1>4. init_map_virt_phys_addr(s, v, p, 1, root, 1) = IF pte \in Frame THEN r ELSE s3
  BY ZenonT(30), <1>2, <1>3, MapOne
<1>5. e \in Nat /\ IsPresent(e)
  BY EntryFacts
<1>6. Evolves(s3, role2, r, role2, F, W)
  <2> HIDE DEF s3, pte, e
  <2>1. role2[pte].lev = 4 /\ role2[pte].lev \in 1 .. 4 /\ role2[pte].own = 0
    BY <1>2 DEF PteRole
  <2>2. \A w \in W : ~OnPath(role2[pte], pte_off(v), w)
    BY Zenon, <1>2 DEF PteRole, OnPath
  <2>3. ~(role2[pte].lev \in 1 .. 3) /\ role2[pte].lev # 1
    BY <2>1
  <2>4. MayHold(s3, role2, pte, pte_off(v), e, W)
    BY Zenon, <1>5, <2>1, <2>2, <2>3 DEF MayHold
  <2> QED BY Zenon, <1>2, <1>3, <1>5, <2>4, OffsetsInIndex, PutEvolves
<1>7. Evolves(s, role, r, role2, F, W)
  BY <1>2, <1>6, EvolvesOn
<1> QED
  BY Zenon, <1>2, <1>4, <1>7

-----------------------------------------------------------------------------

\* Division rounds down.
LEMMA DivisionBounds ==
    ASSUME NEW a \in Nat, NEW P \in Nat \ {0}
    PROVE  a \div P \in Nat /\ P * (a \div P) <= a /\ a < P * (a \div P) + P
OBVIOUS

\* Quotient and remainder
LEMMA Remainder ==
    ASSUME NEW a \in Nat, NEW P \in Nat \ {0}
    PROVE  a = P * (a \div P) + (a % P)
OBVIOUS

\* Quotients below a bound
LEMMA QuotientLess ==
    ASSUME NEW a \in Nat, NEW P \in Nat \ {0}, NEW M \in Nat, a < P * M
    PROVE  a \div P < M
<1> DEFINE q == a \div P
<1>1. q \in Nat /\ P * q <= a
  BY DivisionBounds
<1> HIDE DEF q
<1> SUFFICES ASSUME M <= q PROVE FALSE
  BY <1>1 DEF q
<1>2. P * M <= P * q
  BY <1>1
<1>3. P * M \in Nat /\ P * q \in Nat
  BY <1>1
<1> QED
  BY <1>1, <1>2, <1>3

\* Division keeps the order.
LEMMA QuotientMonotone ==
    ASSUME NEW a \in Nat, NEW b \in Nat, a <= b, NEW P \in Nat \ {0}
    PROVE  a \div P <= b \div P
<1> DEFINE q == b \div P
<1>1. q \in Nat /\ b < P * q + P
  BY DivisionBounds
<1> HIDE DEF q
<1>2. P * q + P = P * (q + 1) /\ P * (q + 1) \in Nat
  BY <1>1
<1>3. a < P * (q + 1)
  BY <1>1, <1>2
<1>4. a \div P < q + 1
  BY <1>1, <1>3, QuotientLess
<1>5. a \div P \in Nat
  BY DivisionBounds
<1> QED
  BY <1>1, <1>4, <1>5 DEF q

\* Quotient and remainder determine a number.
LEMMA SameQuotient ==
    ASSUME NEW v \in Nat, NEW w \in Nat, v \div Entries = w \div Entries,
           v % Entries = w % Entries
    PROVE  v = w
<1>1. ASSUME NEW x \in Nat PROVE x = Entries * (x \div Entries) + (x % Entries)
  BY PagingAssumption, Remainder
<1> DEFINE q == v \div Entries
           m == v % Entries
<1>2. v = Entries * q + m /\ w = Entries * q + m
  BY <1>1
<1> HIDE DEF q, m
<1> QED
  BY <1>2

\* Two addresses that the processor can tell apart have different offsets.
LEMMA SameIsEqual ==
    ASSUME NEW v \in Nat, NEW w \in Nat, v < Pages, w < Pages, Same(v, w)
    PROVE  v = w
<1> DEFINE d(x) == x \div Entries
<1>1. ASSUME NEW x \in Nat, x < Pages
      PROVE  /\ d(x) \in Nat /\ d(d(x)) \in Nat /\ d(d(d(x))) \in Nat
             /\ d(d(d(x))) % Entries = d(d(d(x)))
  <2>1. d(x) \in Nat /\ d(d(x)) \in Nat /\ d(d(d(x))) \in Nat
    <3>1. \A y \in Nat : d(y) \in Nat
      BY DivisionFacts
    <3> HIDE DEF d
    <3> QED BY <3>1
  <2> DEFINE E2 == Entries * Entries
             E3 == Entries * E2
  <2>2. Entries \in Nat /\ E2 \in Nat /\ E3 \in Nat /\ Pages = Entries * E3
    BY PagingAssumption DEF Pages
  <2>3. d(x) < E3
    <3> HIDE DEF E3
    <3> QED BY <1>1, <2>2, PagingAssumption, QuotientLess
  <2>4. d(d(x)) < E2
    <3> HIDE DEF E2
    <3> QED BY <2>1, <2>2, <2>3, PagingAssumption, QuotientLess
  <2>5. d(d(d(x))) < Entries
    BY <2>1, <2>2, <2>4, PagingAssumption, QuotientLess
  <2> QED
    <3> HIDE DEF d
    <3> QED BY <2>1, <2>2, <2>5
<1>2. /\ d(v) \in Nat /\ d(d(v)) \in Nat /\ d(d(d(v))) \in Nat
      /\ d(w) \in Nat /\ d(d(w)) \in Nat /\ d(d(d(w))) \in Nat
      /\ d(d(d(v))) % Entries = d(d(d(v))) /\ d(d(d(w))) % Entries = d(d(d(w)))
  BY <1>1
<1>3. d(d(d(v))) = d(d(d(w)))
  BY <1>2 DEF Same, pml4_off
<1>4. d(d(v)) = d(d(w))
  BY <1>2, <1>3, SameQuotient DEF Same, pdpe_off
<1>5. d(v) = d(w)
  BY <1>2, <1>4, SameQuotient DEF Same, pde_off
<1> QED
  BY <1>2, <1>5, SameQuotient DEF Same, pte_off

-----------------------------------------------------------------------------

\* Fewer pages to spare
LEMMA EvolvesSubset ==
    ASSUME NEW s, NEW role, NEW r, NEW role2, NEW F, NEW W, NEW X \in SUBSET W,
           Evolves(s, role, r, role2, F, W)
    PROVE  Evolves(s, role, r, role2, F, X)
<1>1. Grows(s, role, r, X)
  <2>1. Grows(s, role, r, W)
    BY Zenon DEF Evolves
  <2> QED BY Zenon, <2>1 DEF Grows
<1> QED
  BY Zenon, <1>1 DEF Evolves

\* A page without a role may change.
LEMMA PlainEvolves ==
    ASSUME NEW s, NEW role, Structure(s, role), NEW r, IsImage(r), NEW t, role[t].lev = 0,
           r.free = s.free, r.user = s.user, DOMAIN r.mem = DOMAIN s.mem,
           \A f \in DOMAIN s.mem : f # t => r.mem[f] = s.mem[f], NEW F, NEW W
    PROVE  Evolves(s, role, r, role, F, W)
<1>1. \A f \in Nat : role[f].lev \in 1 .. 4 => r.mem[f] = s.mem[f]
  BY DEF Structure, Typed
<1>2. Typed(r, role) /\ s.free <= r.free
  BY SMTT(30) DEF Structure, Typed, IsImage
<1>3. Tree(r, role)
  BY SMTT(30), <1>1 DEF Structure, Tree
<1>4. Guarded(r, role)
  BY SMTT(30), <1>1 DEF Structure, Guarded
<1>5. Leaves(r, role)
  BY <1>1 DEF Structure, Leaves
<1>6. Linked(s, role) => Linked(r, role)
  BY <1>1 DEF Linked
<1>7. Grows(s, role, r, W)
  BY <1>1 DEF Grows
<1>8. Extends(role, role) /\ Granted(s, role, r, role, F)
  BY DEF Extends, Granted
<1> QED
  BY <1>2, <1>3, <1>4, <1>5, <1>6, <1>7, <1>8 DEF Evolves, Structure

\* A whole table written
Row(s, t, row) == [s EXCEPT !.mem[t] = row]

\* From s to r, table t becomes row.
Replaces(s, t, row, r) ==
    /\ IsImage(r) /\ r.free = s.free /\ r.user = s.user /\ DOMAIN r.mem = DOMAIN s.mem
    /\ \A f \in DOMAIN s.mem : r.mem[f] = IF f = t THEN row ELSE s.mem[f]

\* What writing a table does
LEMMA RowFacts ==
    ASSUME NEW s, IsImage(s), NEW t \in DOMAIN s.mem, NEW row \in [Index -> Nat]
    PROVE  Replaces(s, t, row, Row(s, t, row))
<1> USE DEF Replaces
<1> DEFINE m == [s.mem EXCEPT ![t] = row]
<1>1. s = [mem |-> s.mem, free |-> s.free, user |-> s.user]
  BY DEF IsImage
<1>2. Row(s, t, row) = [mem |-> m, free |-> s.free, user |-> s.user]
  BY <1>1 DEF Row
<1>3. DOMAIN m = DOMAIN s.mem /\ \A f \in DOMAIN s.mem : m[f] = IF f = t THEN row ELSE s.mem[f]
  BY DEF IsImage
<1>4. m = [f \in DOMAIN m |-> m[f]]
  BY DEF IsImage
<1> HIDE DEF m
<1>5. \A f \in DOMAIN m : m[f] \in [Index -> Nat]
  BY <1>3 DEF IsImage
<1>6. IsImage(Row(s, t, row))
  BY <1>2, <1>3, <1>4, <1>5 DEF IsImage
<1> QED
  BY <1>2, <1>3, <1>6

\* The role of a top level table of family F
RootRole(F) == [lev |-> 1, own |-> F, o1 |-> 0, o2 |-> 0, o3 |-> 0]

\* Below the last entry of a top level table all families meet.
LEMMA RootRoleFacts ==
    ASSUME NEW F \in Nat
    PROVE  /\ RootRole(F) \in Roles /\ RootRole(F).lev = 1 /\ RootRole(F).own = F
           /\ \A G \in Nat : Child(RootRole(F), Entries - 1) = Child(RootRole(G), Entries - 1)
BY DEF RootRole, Roles, Child

\* The unused frame f holds what a top level table of family F may hold, the
\* kernel's entry included.
FitsRoot(s, role, f, F) ==
    /\ role[f].lev = 0 /\ f < s.free /\ f \in DOMAIN s.mem
    /\ \A i \in Index :
         IsPresent(s.mem[f][i]) => role[FrameOf(s.mem[f][i])] = Child(RootRole(F), i)
    /\ IsPresent(s.mem[f][Entries - 1]) /\ ~IsUser(s.mem[f][Entries - 1])

\* The page f becomes the top level table of an address space of family F.
LEMMA RootEvolves ==
    ASSUME NEW s, NEW role, Structure(s, role), Linked(s, role), NEW f \in Nat, NEW F \in Nat,
           FitsRoot(s, role, f, F), NEW W
    PROVE  /\ Evolves(s, role, s, [role EXCEPT ![f] = RootRole(F)], F, W)
           /\ [role EXCEPT ![f] = RootRole(F)][f] = RootRole(F)
           /\ InSpace(s, [role EXCEPT ![f] = RootRole(F)], f, F)
<1> USE DEF FitsRoot
<1> DEFINE x == RootRole(F)
           role2 == [role EXCEPT ![f] = x]
<1>1. x \in Roles /\ x.lev = 1 /\ x.own = F
  BY RootRoleFacts
<1> HIDE DEF x
<1>2. x.lev # 5 /\ x.lev # 4
  BY <1>1
<1>3. \A i \in Index : IsPresent(s.mem[f][i]) => role[FrameOf(s.mem[f][i])] = Child(x, i)
  BY Zenon DEF x
<1>4. Evolves(s, role, s, role2, F, W)
  BY Zenon, <1>1, <1>2, <1>3, AssignEvolves DEF Fits
<1>5. role2[f] = x
  BY Zenon DEF Structure, Typed
<1> HIDE DEF role2
<1>6. InSpace(s, role2, f, F)
  BY Zenon, <1>1, <1>4, <1>5 DEF InSpace, Evolves
<1> QED
  BY Zenon, <1>4, <1>5, <1>6 DEF role2, x

\* e may be the kernel's entry in a top level table of family F.
IsKernelEntry(role, e, F) ==
    /\ e \in Nat /\ IsPresent(e) /\ ~IsUser(e) /\ FrameOf(e) \in Nat
    /\ role[FrameOf(e)] = Child(RootRole(F), Entries - 1)
    /\ role[FrameOf(e)].lev # 0

\* The entry of the kernel is as it should be in every top level table.
LEMMA KernelEntry ==
    ASSUME NEW s, NEW role, NEW root \in Nat, NEW G \in Nat, NEW F \in Nat,
           Structure(s, role), Linked(s, role), role[root] = RootRole(G)
    PROVE  IsKernelEntry(role, s.mem[root][Entries - 1], F)
<1> USE DEF IsKernelEntry
<1> DEFINE e == s.mem[root][Entries - 1]
<1>1. role[root].lev = 1 /\ role[root].lev \in 1 .. 3 /\ role[root] \in Roles
  BY SMTT(30), RootRoleFacts
<1>2. IsPresent(e) /\ ~IsUser(e)
  BY <1>1 DEF Linked, Structure, Guarded
<1>3. e \in Nat
  BY <1>1, IndexNumbers DEF Structure, Typed, IsImage
<1>4. role[FrameOf(e)] = Child(role[root], Entries - 1)
  BY Zenon, <1>1, <1>2, IndexNumbers DEF Structure, Tree
<1>5. role[FrameOf(e)].lev # 0
  BY <1>1, <1>4, IndexNumbers, ChildFacts DEF IsChild
<1> HIDE DEF e
<1>6. role[FrameOf(e)] = Child(RootRole(F), Entries - 1)
  BY <1>4, RootRoleFacts
<1>7. FrameOf(e) \in Nat
  BY Zenon, <1>3, FrameOfNat
<1> QED
  BY <1>2, <1>3, <1>5, <1>6, <1>7 DEF e

\* Program pages are recorded as handed out.
Marked(s, role) == \A f \in Nat : role[f].lev = 5 => f \in s.user

\* Program pages stay marked.
LEMMA MarkedKept ==
    ASSUME NEW s, NEW role, Marked(s, role), NEW r, NEW role2, NEW G, NEW W,
           Evolves(s, role, r, role2, G, W)
    PROVE  Marked(r, role2)
<1> SUFFICES ASSUME NEW f \in Nat, role2[f].lev = 5 PROVE f \in r.user
  BY DEF Marked
<1> QED
  BY Zenon DEF Marked, Evolves, Granted

\* A product of positive numbers
LEMMA Product == ASSUME NEW a \in Nat \ {0}, NEW b \in Nat \ {0} PROVE a * b \in Nat \ {0}
OBVIOUS

\* There are pages.
LEMMA PagesPositive == Pages \in Nat \ {0}
<1>1. Entries \in Nat \ {0}
  BY PagingAssumption
<1>2. Entries * Entries \in Nat \ {0}
  BY <1>1, Product
<1>3. (Entries * Entries) * Entries \in Nat \ {0}
  BY <1>1, <1>2, Product
<1>4. ((Entries * Entries) * Entries) * Entries \in Nat \ {0}
  BY <1>1, <1>3, Product
<1> QED
  BY <1>4 DEF Pages

\* The tables or pages of a family on one level
Level(role, k, F) == {f \in Nat : role[f].lev = k /\ role[f].own = F}

\* From level to level a program stays in its family.
LEMMA UserStepStays ==
    ASSUME NEW s, NEW role, Structure(s, role), NEW F \in Nat \ {0}, NEW k \in 1 .. 4,
           NEW T \in SUBSET Level(role, k, F)
    PROVE  UserStep(s, T) \in SUBSET Level(role, k + 1, F)
<1> SUFFICES ASSUME NEW f \in UserStep(s, T)
             PROVE  f \in Nat /\ role[f].lev = k + 1 /\ role[f].own = F
  BY DEF Level
<1>1. PICK x \in T, i \in Index : f = FrameOf(s.mem[x][i]) /\ IsUser(s.mem[x][i])
  BY DEF UserStep
<1> DEFINE e == s.mem[x][i]
<1>2. x \in Nat /\ role[x].lev = k /\ role[x].own = F /\ role[x].own # 0
  BY DEF Level
<1>3. e \in Nat /\ FrameOf(e) \in Nat
  <2>1. x \in DOMAIN s.mem
    BY <1>2 DEF Structure, Typed
  <2>2. s.mem[x] \in [Index -> Nat]
    BY <2>1 DEF Structure, Typed, IsImage
  <2> QED BY <2>2, FrameOfNat
<1>4. IsPresent(e)
  BY Zenon, <1>1 DEF IsUser
<1>5. CASE k = 4
  BY SMTT(30), <1>1, <1>2, <1>3, <1>4, <1>5 DEF Structure, Leaves
<1>6. CASE k # 4
  <2>1. k \in 1 .. 3
    BY SMTT(30), <1>6
  <2>2. role[FrameOf(e)] = Child(role[x], i)
    BY <1>2, <1>4, <2>1 DEF Structure, Tree
  <2>3. k = 1 => i # Entries - 1
    <3>1. Guarded(s, role)
      BY Zenon DEF Structure
    <3> QED BY Zenon, <1>1, <1>2, <3>1 DEF Guarded
  <2>4. Child(role[x], i).lev = k + 1 /\ Child(role[x], i).own = F
    BY <1>2, <2>3 DEF Child
  <2> QED BY <1>1, <1>3, <2>2, <2>4
<1> QED
  BY <1>5, <1>6

\* All that a program reaches are pages of its family.
LEMMA ReachStays ==
    ASSUME NEW s, NEW role, Structure(s, role), NEW F \in Nat \ {0}, NEW root \in Nat,
           role[root] = RootRole(F)
    PROVE  UserReach(s, root) \in SUBSET Level(role, 5, F)
<1>0. 1 + 1 = 2 /\ 2 + 1 = 3 /\ 3 + 1 = 4 /\ 4 + 1 = 5
  OBVIOUS
<1> DEFINE T2 == UserStep(s, {root})
           T3 == UserStep(s, T2)
           T4 == UserStep(s, T3)
<1>1. {root} \in SUBSET Level(role, 1, F)
  BY RootRoleFacts DEF Level
<1>2. T2 \in SUBSET Level(role, 1 + 1, F)
  BY <1>1, UserStepStays
<1> HIDE DEF T2
<1>3. T3 \in SUBSET Level(role, 2 + 1, F)
  BY <1>0, <1>2, UserStepStays
<1> HIDE DEF T3
<1>4. T4 \in SUBSET Level(role, 3 + 1, F)
  BY <1>0, <1>3, UserStepStays
<1> HIDE DEF T4
<1>5. UserStep(s, T4) \in SUBSET Level(role, 4 + 1, F)
  BY <1>0, <1>4, UserStepStays
<1> QED
  BY <1>0, <1>5 DEF UserReach, T2, T3, T4

\* A mapped page of a family's own part is a program page.
LEMMA WalkIsUser ==
    ASSUME NEW s, NEW role, Structure(s, role), Marked(s, role), NEW F \in Nat \ {0},
           NEW root \in Nat, role[root] = RootRole(F), NEW v \in Nat,
           pml4_off(v) # Entries - 1, Walk(s, root, v) # NoFrame
    PROVE  Walk(s, root, v) \in s.user
<1>1. role[root].lev = 1 /\ role[root].own = F
  BY Zenon, RootRoleFacts
<1>2. PICK pdpe, pde, pte : Chain(s, role, v, root, pdpe, pde, pte)
  BY Zenon, <1>1, WalkChain
<1> DEFINE e == s.mem[pte][pte_off(v)]
<1>3. pte \in Nat /\ role[pte].lev = 4 /\ role[pte].own = F /\ pte_off(v) \in Index
  BY SMTT(30), <1>1, <1>2, OffsetsInIndex DEF Chain, PteRole
<1>4. Walk(s, root, v) = (IF IsPresent(e) THEN FrameOf(e) ELSE NoFrame)
  BY Zenon, <1>2 DEF Chain, Reached, Walk
<1>5. IsPresent(e) /\ Walk(s, root, v) = FrameOf(e)
  BY <1>4
<1>6. FrameOf(e) \in Nat
  <2>1. pte \in DOMAIN s.mem
    BY <1>3 DEF Structure, Typed
  <2>2. s.mem[pte] \in [Index -> Nat]
    BY Zenon, <2>1 DEF Structure, Typed, IsImage
  <2> QED BY Zenon, <1>3, <2>2, FrameOfNat
<1>7. role[FrameOf(e)].lev = 5
  BY Zenon, <1>3, <1>5 DEF Structure, Leaves
<1> QED
  BY <1>5, <1>6, <1>7 DEF Marked

\* The frames that Fill may write to
Span(t, from, n) == t .. t + ((from + n) - 1) \div Entries

\* From s to r, only frames of the span are written.
Fills(s, t, from, n, r) ==
    /\ IsImage(r) /\ r.free = s.free /\ r.user = s.user /\ DOMAIN r.mem = DOMAIN s.mem
    /\ \A f \in DOMAIN s.mem : f \notin Span(t, from, n) => r.mem[f] = s.mem[f]

\* Fill writes to the frames of its span only, though it may leave its table.
LEMMA FillFacts ==
    ASSUME NEW s, IsImage(s), NEW t \in Nat, NEW from \in Nat, NEW p \in Nat, NEW n \in Int
    PROVE  Fills(s, t, from, n, Fill(s, t, from, p, n, 0))
<1> USE DEF Fills
<1> DEFINE touched == Span(t, from, n) \cap Frame
           value(f, i) == IF /\ from <= (f - t) * Entries + i
                             /\ (f - t) * Entries + i < from + n
                          THEN Entry((p + ((f - t) * Entries + i)) - from, 0) ELSE s.mem[f][i]
           written(f) == [i \in Index |-> value(f, i)]
           m == [f \in DOMAIN s.mem |-> IF f \in touched THEN written(f) ELSE s.mem[f]]
           r == Fill(s, t, from, p, n, 0)
<1>1. r = [s EXCEPT !.mem = m]
  BY DEF Fill, Span
<1> HIDE DEF r
<1>2. /\ s = [mem |-> s.mem, free |-> s.free, user |-> s.user]
      /\ Frame \subseteq DOMAIN s.mem /\ DOMAIN s.mem \subseteq Nat
      /\ \A f \in DOMAIN s.mem : s.mem[f] \in [Index -> Nat]
  BY Zenon DEF IsImage
<1>3. \A f \in DOMAIN s.mem : f \in touched => written(f) \in [Index -> Nat]
  <2> SUFFICES ASSUME NEW f \in DOMAIN s.mem, f \in touched, NEW i \in Index
               PROVE  value(f, i) \in Nat
    BY DEF written
  <2> DEFINE k == (f - t) * Entries + i
  <2>1. f \in Nat /\ i \in Nat /\ Entries \in Nat
    BY <1>2, IndexNumbers, PagingAssumption
  <2>2. k \in Int
    BY <2>1
  <2>3. s.mem[f][i] \in Nat
    BY <1>2
  <2> HIDE DEF k
  <2>4. from <= k => (p + k) - from \in Nat
    BY <2>2
  <2>5. from <= k => Entry((p + k) - from, 0) \in Nat
    BY <2>4, EntryFacts
  <2> QED BY Zenon, <2>3, <2>5 DEF k
<1> HIDE DEF written, touched
<1>4. /\ DOMAIN m = DOMAIN s.mem /\ m = [f \in DOMAIN m |-> m[f]]
      /\ \A f \in DOMAIN s.mem : m[f] = IF f \in touched THEN written(f) ELSE s.mem[f]
  OBVIOUS
<1> HIDE DEF m
<1>5. r = [mem |-> m, free |-> s.free, user |-> s.user]
  BY <1>1, <1>2
<1>6. \A f \in DOMAIN m : m[f] \in [Index -> Nat]
  BY <1>2, <1>3, <1>4
<1>7. IsImage(r)
  BY <1>4, <1>5, <1>6 DEF IsImage
<1>8. \A f \in DOMAIN s.mem : f \notin Span(t, from, n) => m[f] = s.mem[f]
  BY SMTT(30), <1>4 DEF touched
<1> QED
  BY <1>4, <1>5, <1>7, <1>8 DEF r

\* While init_paging runs: root is the only table that is sure to be one.
Building(s, role, root) ==
    /\ Structure(s, role) /\ \A f \in Nat : role[f].lev # 5
    /\ root \in Nat /\ role[root] = RootRole(0)

\* Fill writes to page tables of the kernel and free pages only.
Spare(role, t, from, n) ==
    \A f \in Nat : f \in Span(t, from, n) =>
        role[f].lev = 0 \/ (role[f].lev = 4 /\ role[f].own = 0)

\* Filling spare frames keeps what init_paging has built.
LEMMA FillBuilds ==
    ASSUME NEW s, NEW role, NEW root, Building(s, role, root),
           NEW t \in Nat, NEW from \in Nat, NEW p \in Nat, NEW n \in Int,
           Spare(role, t, from, n)
    PROVE  /\ Building(Fill(s, t, from, p, n, 0), role, root)
           /\ Fill(s, t, from, p, n, 0).mem[root] = s.mem[root]
           /\ Fill(s, t, from, p, n, 0).free = s.free
<1> DEFINE r == Fill(s, t, from, p, n, 0)
<1>1. Structure(s, role) /\ Typed(s, role) /\ IsImage(s) /\ role \in [Nat -> Roles]
  BY Zenon DEF Building, Structure, Typed
<1>2. /\ IsImage(r) /\ r.free = s.free /\ DOMAIN r.mem = DOMAIN s.mem
      /\ \A f \in DOMAIN s.mem : f \notin Span(t, from, n) => r.mem[f] = s.mem[f]
  <2>1. IsImage(s)
    BY <1>1
  <2> QED BY ONLY <2>1, FillFacts, t \in Nat, from \in Nat, p \in Nat, n \in Int DEF Fills
<1> HIDE DEF r
<1>3. \A f \in Nat : role[f].lev \in 1 .. 4 => f \in DOMAIN s.mem
  BY <1>1 DEF Typed
<1>4. \A f \in Nat : role[f].lev \in 1 .. 3 => r.mem[f] = s.mem[f]
  BY <1>2, <1>3 DEF Spare
<1>5. \A f \in Nat : role[f].lev = 4 /\ role[f].own # 0 => r.mem[f] = s.mem[f]
  BY <1>2, <1>3 DEF Spare
<1>6. Typed(r, role)
  BY Zenon, <1>1, <1>2 DEF Typed
<1>7. Tree(r, role)
  BY Zenon, <1>1, <1>4 DEF Structure, Tree
<1>8. Guarded(r, role)
  BY SMTT(30), <1>1, <1>4 DEF Structure, Guarded
<1>9. Leaves(r, role)
  BY <1>1, <1>5 DEF Structure, Leaves
<1>10. r.mem[root] = s.mem[root]
  <2>1. root \in Nat /\ role[root].lev = 1
    BY Zenon, RootRoleFacts DEF Building
  <2> QED BY <1>4, <2>1
<1> QED
  BY ZenonT(30), <1>2, <1>6, <1>7, <1>8, <1>9, <1>10 DEF Building, Structure, r

\* The images of MapFurther: its row of the directory, and the tables that get
\* a place in it
FurtherRow(s, pde, first, no) ==
    [i \in Index |-> IF i \in first + 1 .. first + no + 1 THEN Entry(s.free + (i - (first + 1)), 0)
                     ELSE s.mem[pde][i]]

\* The image with the further tables, before they are filled
Further(s, pde, first, no) == Row(Kmalloc(s, no + 1), pde, FurtherRow(s, pde, first, no))

\* The place of frame f among the further tables
FurtherIndex(s, first, f) == first + 1 + (f - s.free)

\* The roles of the further tables
FurtherRoles(s, role, pde, first, no) ==
    [f \in Nat |->
        IF s.free <= f /\ f <= s.free + no /\ FurtherIndex(s, first, f) \in Index
        THEN Child(role[pde], FurtherIndex(s, first, f)) ELSE role[f]]

\* From s to r, no + 1 tables are allocated and entered in pde.
AddsTables(s, pde, first, no, r) ==
    /\ IsImage(r) /\ r.free = s.free + (no + 1) /\ DOMAIN s.mem \subseteq DOMAIN r.mem
    /\ \A f \in Nat : s.free <= f /\ f <= s.free + no => f \in DOMAIN r.mem
    /\ \A f \in DOMAIN s.mem : f < s.free =>
         r.mem[f] = IF f = pde THEN FurtherRow(s, pde, first, no) ELSE s.mem[f]

\* What allocating and entering the further tables does
LEMMA FurtherFacts ==
    ASSUME NEW s, NEW role, Structure(s, role), NEW pde \in Nat, role[pde].lev = 3,
           NEW first \in Nat, NEW no \in Nat
    PROVE  AddsTables(s, pde, first, no, Further(s, pde, first, no))
<1> USE DEF AddsTables
<1> DEFINE k == Kmalloc(s, no + 1)
           row == FurtherRow(s, pde, first, no)
           r == Further(s, pde, first, no)
<1>1. IsImage(s) /\ pde \in DOMAIN s.mem /\ s.free \in Nat /\ pde < s.free
  BY DEF Structure, Typed, IsImage
<1>2. no + 1 \in Nat
  OBVIOUS
<1>3. /\ IsImage(k) /\ k.free = s.free + (no + 1) /\ DOMAIN s.mem \subseteq DOMAIN k.mem
      /\ \A f \in DOMAIN s.mem : f < s.free => k.mem[f] = s.mem[f]
      /\ \A f \in Nat : s.free <= f /\ f < s.free + (no + 1) => f \in DOMAIN k.mem
  BY Zenon, <1>1, <1>2, KmallocFacts DEF Allocates
<1>4. row \in [Index -> Nat]
  <2>1. s.mem[pde] \in [Index -> Nat]
    BY <1>1 DEF IsImage
  <2>2. \A i \in Index : i \in first + 1 .. first + no + 1
            => Entry(s.free + (i - (first + 1)), 0) \in Nat
    <3> SUFFICES ASSUME NEW i \in Index, i \in first + 1 .. first + no + 1
                 PROVE  Entry(s.free + (i - (first + 1)), 0) \in Nat
      OBVIOUS
    <3>1. s.free + (i - (first + 1)) \in Nat
      BY <1>1
    <3> QED BY <3>1, EntryFacts
  <2> QED BY <2>1, <2>2 DEF FurtherRow
<1> HIDE DEF k, row
<1>5. r = Row(k, pde, row) /\ pde \in DOMAIN k.mem
  BY Zenon, <1>1, <1>3 DEF Further, k, row
<1> HIDE DEF r
<1>6. /\ IsImage(r) /\ r.free = k.free /\ DOMAIN r.mem = DOMAIN k.mem
      /\ \A f \in DOMAIN k.mem : r.mem[f] = IF f = pde THEN row ELSE k.mem[f]
  BY <1>3, <1>4, <1>5, RowFacts DEF Replaces
<1>7. \A f \in Nat : s.free <= f /\ f <= s.free + no => f \in DOMAIN r.mem
  BY <1>1, <1>3, <1>6
<1> QED
  BY <1>3, <1>6, <1>7 DEF r, row

\* From role to role2, the new frames are page tables of the kernel, with the
\* places that pde has for them, or without a role.
AddsRoles(s, role, pde, first, no, role2) ==
    /\ role2 \in [Nat -> Roles] /\ \A f \in Nat : f < s.free => role2[f] = role[f]
    /\ \A f \in Nat : s.free <= f =>
         role2[f].lev = 0 \/ (role2[f].lev = 4 /\ role2[f].own = 0 /\ f <= s.free + no)
    /\ \A i \in Index : i \in first + 1 .. first + no + 1 =>
         role2[s.free + (i - (first + 1))] = Child(role[pde], i)

\* FurtherRoles are such roles.
LEMMA FurtherRoleFacts ==
    ASSUME NEW s, NEW role, Structure(s, role), NEW pde \in Nat, role[pde].lev = 3,
           role[pde].own = 0, NEW first \in Nat, NEW no \in Nat
    PROVE  AddsRoles(s, role, pde, first, no, FurtherRoles(s, role, pde, first, no))
<1> USE DEF AddsRoles
<1> DEFINE role2 == FurtherRoles(s, role, pde, first, no)
           new(f) == s.free <= f /\ f <= s.free + no /\ FurtherIndex(s, first, f) \in Index
<1>1. role \in [Nat -> Roles] /\ s.free \in Nat /\ \A f \in Nat : role[f].lev # 0 => f < s.free
  BY Zenon DEF Structure, Typed, IsImage
<1>2. \A i \in Index : /\ Child(role[pde], i) \in Roles /\ Child(role[pde], i).lev = 4
                       /\ Child(role[pde], i).own = 0
  <2>1. role[pde] \in Roles
    BY <1>1
  <2>2. \A i \in Index : i \in Nat
    BY Zenon, IndexNumbers
  <2> QED BY <2>1, <2>2 DEF Child, Roles
<1>3. \A f \in Nat : role2[f] = IF new(f) THEN Child(role[pde], FurtherIndex(s, first, f))
                                ELSE role[f]
  BY DEF FurtherRoles
<1>4. role2 \in [Nat -> Roles]
  BY Zenon, <1>1, <1>2 DEF FurtherRoles
<1> HIDE DEF role2
<1>5. \A f \in Nat : f < s.free => role2[f] = role[f]
  BY <1>1, <1>3
<1>6. \A f \in Nat : s.free <= f =>
        role2[f].lev = 0 \/ (role2[f].lev = 4 /\ role2[f].own = 0 /\ f <= s.free + no)
  <2> SUFFICES ASSUME NEW f \in Nat, s.free <= f
               PROVE  role2[f].lev = 0 \/ (role2[f].lev = 4 /\ role2[f].own = 0 /\ f <= s.free + no)
    BY Zenon
  <2>1. CASE new(f)
    BY Zenon, <1>2, <1>3, <2>1
  <2>2. CASE ~new(f)
    BY SMTT(30), <1>1, <1>3, <2>2
  <2> QED BY <2>1, <2>2
<1>7. \A i \in Index : i \in first + 1 .. first + no + 1 =>
        role2[s.free + (i - (first + 1))] = Child(role[pde], i)
  <2> SUFFICES ASSUME NEW i \in Index, i \in first + 1 .. first + no + 1
               PROVE  role2[s.free + (i - (first + 1))] = Child(role[pde], i)
    OBVIOUS
  <2> DEFINE f == s.free + (i - (first + 1))
  <2>1. f \in Nat /\ s.free <= f /\ f <= s.free + no /\ first + 1 + (f - s.free) = i
    BY <1>1
  <2>2. new(f) /\ FurtherIndex(s, first, f) = i
    BY SMTT(30), <2>1 DEF FurtherIndex
  <2> QED BY <1>3, <2>1, <2>2
<1> QED
  BY <1>4, <1>5, <1>6, <1>7 DEF role2

\* Allocating and entering the further tables keeps what was built.
LEMMA FurtherBuilds ==
    ASSUME NEW s, NEW role, NEW root, Building(s, role, root), NEW pde \in Nat,
           role[pde].lev = 3, role[pde].own = 0, NEW first \in Nat, NEW no \in Nat
    PROVE  /\ Building(Further(s, pde, first, no), FurtherRoles(s, role, pde, first, no), root)
           /\ Further(s, pde, first, no).mem[root] = s.mem[root]
<1> DEFINE r == Further(s, pde, first, no)
           role2 == FurtherRoles(s, role, pde, first, no)
           row == FurtherRow(s, pde, first, no)
           tables == first + 1 .. first + no + 1
<1>1. /\ Structure(s, role) /\ Typed(s, role) /\ root \in Nat /\ role[root].lev = 1
      /\ role[root] = RootRole(0) /\ \A f \in Nat : role[f].lev # 5
  BY RootRoleFacts DEF Building, Structure
<1>2. /\ IsImage(r) /\ r.free = s.free + (no + 1)
      /\ DOMAIN s.mem \subseteq DOMAIN r.mem
      /\ \A f \in Nat : s.free <= f /\ f <= s.free + no => f \in DOMAIN r.mem
      /\ \A f \in DOMAIN s.mem : f < s.free => r.mem[f] = IF f = pde THEN row ELSE s.mem[f]
  <2>1. AddsTables(s, pde, first, no, r)
    BY Zenon, <1>1, FurtherFacts
  <2> HIDE DEF r, row
  <2> QED BY Zenon, <2>1 DEF AddsTables, row
<1>3. /\ role2 \in [Nat -> Roles]
      /\ \A f \in Nat : f < s.free => role2[f] = role[f]
      /\ \A f \in Nat : s.free <= f =>
            role2[f].lev = 0 \/ (role2[f].lev = 4 /\ role2[f].own = 0 /\ f <= s.free + no)
      /\ \A i \in Index : i \in tables =>
            role2[s.free + (i - (first + 1))] = Child(role[pde], i)
  BY <1>1, FurtherRoleFacts DEF AddsRoles
<1>4. s.free \in Nat /\ IsImage(s) /\ role \in [Nat -> Roles]
  BY Zenon, <1>1 DEF Typed, IsImage
<1>0. \A i \in Index : row[i] = IF i \in tables THEN Entry(s.free + (i - (first + 1)), 0)
                                 ELSE s.mem[pde][i]
  BY Zenon DEF FurtherRow
<1> HIDE DEF r, role2, row
<1>5. \A f \in Nat : role[f].lev \in 1 .. 4 => f < s.free /\ f \in DOMAIN s.mem
  BY <1>1 DEF Typed
<1>6. \A f \in Nat : /\ role2[f].lev \in 1 .. 3 => f < s.free
                     /\ role2[f].lev = 4 /\ role2[f].own # 0 => f < s.free
  BY SMTT(30), <1>3, <1>4
<1>7. Typed(r, role2)
  <2>1. \A f \in Nat : role2[f].lev # 0 => f < r.free
    <3> SUFFICES ASSUME NEW f \in Nat, role2[f].lev # 0 PROVE f < r.free
      OBVIOUS
    <3>1. CASE f < s.free
      BY SMTT(30), <1>2, <1>4, <3>1
    <3>2. CASE s.free <= f
      BY SMTT(30), <1>2, <1>3, <1>4, <3>2
    <3> QED BY <1>4, <3>1, <3>2
  <2>2. \A f \in Nat : role2[f].lev \in 1 .. 4 => f \in DOMAIN r.mem
    <3> SUFFICES ASSUME NEW f \in Nat, role2[f].lev \in 1 .. 4 PROVE f \in DOMAIN r.mem
      BY Zenon
    <3>1. CASE f < s.free
      BY Zenon, <1>2, <1>3, <1>5, <3>1
    <3>2. CASE s.free <= f
      BY SMTT(30), <1>2, <1>3, <3>2
    <3> QED BY SMTT(30), <1>4, <3>1, <3>2
  <2> QED BY <1>2, <1>3, <2>1, <2>2 DEF Typed
<1>8. \A f \in Nat, i \in Index :
        role[f].lev \in 1 .. 4 /\ IsPresent(s.mem[f][i]) /\ role[FrameOf(s.mem[f][i])].lev # 0
            => role2[FrameOf(s.mem[f][i])] = role[FrameOf(s.mem[f][i])]
  <2> SUFFICES ASSUME NEW f \in Nat, NEW i \in Index, role[f].lev \in 1 .. 4,
                      role[FrameOf(s.mem[f][i])].lev # 0
               PROVE  role2[FrameOf(s.mem[f][i])] = role[FrameOf(s.mem[f][i])]
    OBVIOUS
  <2>1. FrameOf(s.mem[f][i]) \in Nat
    <3>1. s.mem[f] \in [Index -> Nat]
      BY Zenon, <1>4, <1>5 DEF IsImage
    <3> QED BY <3>1, FrameOfNat
  <2>2. FrameOf(s.mem[f][i]) < s.free
    BY Zenon, <1>1, <2>1 DEF Typed
  <2> QED BY Zenon, <1>3, <2>1, <2>2
<1>9. Tree(r, role2)
  <2> SUFFICES ASSUME NEW f \in Nat, NEW i \in Index, role2[f].lev \in 1 .. 3,
                      IsPresent(r.mem[f][i])
               PROVE  role2[FrameOf(r.mem[f][i])] = Child(role2[f], i)
    BY Zenon DEF Tree
  <2>1. f < s.free /\ role2[f] = role[f] /\ f \in DOMAIN s.mem
    BY SMTT(30), <1>3, <1>5, <1>6
  <2>2. CASE f = pde /\ i \in tables
    <3>1. r.mem[f][i] = Entry(s.free + (i - (first + 1)), 0)
      BY Zenon, <1>0, <1>2, <2>1, <2>2
    <3>2. s.free + (i - (first + 1)) \in Nat
      BY SMTT(30), <1>4, <2>2
    <3>3. FrameOf(r.mem[f][i]) = s.free + (i - (first + 1))
      BY Zenon, <3>1, <3>2, EntryFacts
    <3> QED BY Zenon, <1>3, <2>1, <2>2, <3>3
  <2>3. CASE ~(f = pde /\ i \in tables)
    <3>1. r.mem[f][i] = s.mem[f][i]
      BY Zenon, <1>0, <1>2, <2>1, <2>3
    <3>2. role[FrameOf(s.mem[f][i])] = Child(role[f], i)
      BY Zenon, <1>1, <2>1, <3>1 DEF Structure, Tree
    <3>3. role[FrameOf(s.mem[f][i])].lev # 0
      BY SMTT(30), <1>4, <2>1, <3>2, ChildFacts DEF IsChild
    <3> QED BY SMTT(30), <1>8, <2>1, <3>1, <3>2, <3>3
  <2> QED BY Zenon, <2>2, <2>3
<1>10. \A f \in Nat : f # pde /\ role2[f].lev \in 1 .. 4 /\ f < s.free
            => r.mem[f] = s.mem[f] /\ role2[f] = role[f]
  BY Zenon, <1>2, <1>3, <1>5
<1>11. Guarded(r, role2)
  <2> SUFFICES ASSUME NEW f \in Nat, role2[f].lev = 1 PROVE ~IsUser(r.mem[f][Entries - 1])
    BY Zenon DEF Guarded
  <2>1. f < s.free /\ f # pde
    BY SMTT(30), <1>3, <1>6
  <2>2. r.mem[f] = s.mem[f] /\ role2[f] = role[f]
    BY SMTT(30), <1>10, <2>1
  <2> QED BY Zenon, <1>1, <2>2 DEF Structure, Guarded
<1>12. Leaves(r, role2)
  <2> SUFFICES ASSUME NEW f \in Nat, NEW i \in Index, role2[f].lev = 4, role2[f].own # 0,
                      IsPresent(r.mem[f][i])
               PROVE  FALSE
    BY ZenonT(30) DEF Leaves
  <2>1. f < s.free /\ f # pde
    BY Zenon, <1>3, <1>6
  <2>2. r.mem[f] = s.mem[f] /\ role2[f] = role[f]
    BY SMTT(30), <1>10, <2>1
  <2>3. FrameOf(s.mem[f][i]) \in Nat /\ role[FrameOf(s.mem[f][i])].lev = 5
    <3>1. s.mem[f] \in [Index -> Nat]
      BY <1>4, <1>5, <2>2 DEF IsImage
    <3>2. FrameOf(s.mem[f][i]) \in Nat
      BY Zenon, <3>1, FrameOfNat
    <3>3. role[FrameOf(s.mem[f][i])].lev = 5
      BY SMTT(30), <1>1, <2>2 DEF Structure, Leaves
    <3> QED BY <3>2, <3>3
  <2> QED BY ZenonT(30), <1>1, <2>3
<1>13. r.mem[root] = s.mem[root] /\ role2[root] = role[root]
  <2>1. root < s.free /\ root # pde /\ root \in DOMAIN s.mem
    BY <1>1, <1>5
  <2> QED BY Zenon, <1>1, <1>2, <1>3, <2>1
<1>14. \A f \in Nat : role2[f].lev # 5
  BY SMTT(30), <1>1, <1>3, <1>4
<1> QED
  BY ZenonT(30), <1>1, <1>7, <1>9, <1>11, <1>12, <1>13, <1>14 DEF Building, Structure, r, role2

\* What init_map_virt_phys_addr does in init_paging
Built(s, r, role2, root, v) ==
    /\ Building(r, role2, root)
    /\ IsPresent(r.mem[root][pml4_off(v)])
    /\ \A i \in Index : IsPresent(s.mem[root][i]) => IsPresent(r.mem[root][i])

\* From s to r, and the top level table stays as it is.
KeepsRoot(s, r, role2, root) == Building(r, role2, root) /\ r.mem[root] = s.mem[root]

\* The second half of init_map_virt_phys_addr, for a mapping that needs more than
\* one page table
LEMMA MapFurtherBuilds ==
    ASSUME NEW s, NEW role, NEW root, Building(s, role, root), NEW pde \in Nat,
           role[pde].lev = 3, role[pde].own = 0, NEW first \in Nat, NEW off \in Nat,
           NEW p \in Nat, NEW n \in Nat
    PROVE  \E role2 : KeepsRoot(s, MapFurther(s, pde, first, off, p, n, 0), role2, root)
<1> DEFINE no == n \div Entries
           N == no * Entries + (n - Entries * off)
           a == Further(s, pde, first, no)
           role2 == FurtherRoles(s, role, pde, first, no)
           r == MapFurther(s, pde, first, off, p, n, 0)
<1>1. r = Fill(a, s.free, 0, p, N, 0)
  BY DEF MapFurther, Further, FurtherRow, Row
<1>2. no \in Nat /\ N \in Int
  <2>1. Entries \in Nat /\ no \in Nat
    BY DivisionFacts, PagingAssumption
  <2> HIDE DEF no
  <2> QED BY <2>1
<1> HIDE DEF no, N
<1>3. Building(a, role2, root) /\ a.mem[root] = s.mem[root]
  BY <1>2, FurtherBuilds
<1>4. Structure(s, role) /\ s.free \in Nat
  BY Zenon DEF Building, Structure, Typed, IsImage
<1>5. \A f \in Nat : s.free <= f => role2[f].lev = 0 \/ (role2[f].lev = 4 /\ role2[f].own = 0)
  BY SMTT(30), <1>2, <1>4, FurtherRoleFacts DEF AddsRoles
<1> HIDE DEF a, role2
<1>6. Spare(role2, s.free, 0, N)
  BY <1>4, <1>5 DEF Spare, Span
<1> DEFINE from == 0
           t == s.free
<1>7. t \in Nat /\ from \in Nat /\ N \in Int /\ Spare(role2, t, from, N)
  BY <1>2, <1>4, <1>6
<1> HIDE DEF from, t
<1>8. /\ Building(Fill(a, t, from, p, N, 0), role2, root)
      /\ Fill(a, t, from, p, N, 0).mem[root] = a.mem[root]
  <2>1. Building(a, role2, root)
    BY Zenon, <1>3
  <2> QED BY ONLY <1>7, <2>1, p \in Nat, FillBuilds
<1>9. r = Fill(a, t, from, p, N, 0)
  BY <1>1 DEF from, t
<1> HIDE DEF r
<1> QED
  BY <1>3, <1>8, <1>9 DEF KeepsRoot, r

\* What fits into a page table is written to no other frame.
LEMMA SpanOne ==
    ASSUME NEW t \in Nat, NEW from \in Nat, NEW n \in Nat \ {0}, n + from <= Entries,
           NEW f \in Span(t, from, n)
    PROVE  f = t
<1>1. (from + n) - 1 \in Nat /\ (from + n) - 1 < Entries * 1 /\ Entries \in Nat \ {0}
  BY PagingAssumption
<1>2. ((from + n) - 1) \div Entries < 1 /\ ((from + n) - 1) \div Entries \in Nat
  BY Zenon, <1>1, QuotientLess, DivisionBounds
<1> QED
  BY <1>2 DEF Span

\* init_map_virt_phys_addr as init_paging calls it, with any number of pages
LEMMA MapBuilds ==
    ASSUME NEW s, NEW role, NEW root, Building(s, role, root), NEW v \in Nat, NEW p \in Nat,
           NEW n \in Nat \ {0}
    PROVE  \E role2 : Built(s, init_map_virt_phys_addr(s, v, p, n, root, 0), role2, root, v)
<1> DEFINE s3 == Open3(s, v, root, 0)
           pde == Pde(s, v, root, 0)
           pdpe == Pdpe(s, v, root, 0)
           pte == Pte(s, v, root, 0)
           off == pte_off(v)
           r == init_map_virt_phys_addr(s, v, p, n, root, 0)
<1>1. /\ Structure(s, role) /\ root \in Nat /\ role[root].lev = 1 /\ role[root].own = 0
      /\ role[root] = RootRole(0) /\ \A f \in Nat : role[f].lev # 5
  BY Zenon, RootRoleFacts DEF Building
<1>2. PICK role2 : Opened(s, role, v, root, 0, role2, 0, {})
  <2>1. 0 \in {0, 1} /\ 0 # 1
    BY SMTT(30)
  <2> QED BY <1>1, <2>1, OpenEvolves
<1>3. /\ Evolves(s, role, s3, role2, 0, {}) /\ Chain(s3, role2, v, root, pdpe, pde, pte)
      /\ s3.user = s.user
  BY Zenon, <1>2 DEF Opened
<1>4. /\ off \in Index /\ off \in Nat /\ off < Entries /\ pde_off(v) \in Index
      /\ pde_off(v) \in Nat /\ pml4_off(v) \in Index /\ Entries \in Nat
  BY OffsetsInIndex, PagingAssumption DEF Index
<1>5. r = IF n + off <= Entries THEN Fill(s3, pte, off, p, n, 0)
          ELSE MapFurther(Fill(s3, pte, off, p, Entries - off, 0), pde, pde_off(v), off,
                          p + (Entries - off), n - (Entries - off), 0)
  BY Zenon, MapIs
<1> HIDE DEF s3, pde, pdpe, pte, off, r
<1>6. Building(s3, role2, root)
  <2>1. role2[root] = role[root]
    BY SMTT(30), <1>1, <1>3 DEF Evolves, Extends
  <2>2. \A f \in Nat : role2[f].lev # 5
    BY Zenon, <1>1, <1>3 DEF Evolves, Granted
  <2> QED BY Zenon, <1>1, <1>3, <2>1, <2>2 DEF Building, Evolves
<1>7. /\ pte \in Nat /\ role2[pte].lev = 4 /\ role2[pte].own = 0
      /\ pde \in Nat /\ role2[pde].lev = 3
      /\ IsPresent(s3.mem[root][pml4_off(v)])
      /\ IsPresent(s3.mem[pde][pde_off(v)]) /\ FrameOf(s3.mem[pde][pde_off(v)]) = pte
  <2>1. role2[root].own = 0
    BY Zenon, <1>6, RootRoleFacts DEF Building
  <2> QED BY Zenon, <1>3, <2>1 DEF Chain, Reached, PteRole
<1>8. role2[pde].own = 0
  <2>1. role2[pte] = Child(role2[pde], pde_off(v))
    <3>1. Tree(s3, role2)
      BY Zenon, <1>6 DEF Building, Structure
    <3>2. 3 \in 1 .. 3
      OBVIOUS
    <3> QED BY Zenon, <1>4, <1>7, <3>1, <3>2 DEF Tree
  <2> QED BY SMTT(30), <1>7, <2>1 DEF Child
<1>9. \A i \in Index : IsPresent(s.mem[root][i]) => IsPresent(s3.mem[root][i])
  <2>1. Grows(s, role, s3, {})
    BY Zenon, <1>3 DEF Evolves
  <2>2. 1 \in 1 .. 4 /\ 1 # 4
    OBVIOUS
  <2> QED BY Zenon, <1>1, <2>1, <2>2 DEF Grows
<1>10. \A m \in Nat \ {0} : m + off <= Entries =>
          /\ Building(Fill(s3, pte, off, p, m, 0), role2, root)
          /\ Fill(s3, pte, off, p, m, 0).mem[root] = s3.mem[root]
  <2> SUFFICES ASSUME NEW m \in Nat \ {0}, m + off <= Entries
               PROVE  /\ Building(Fill(s3, pte, off, p, m, 0), role2, root)
                      /\ Fill(s3, pte, off, p, m, 0).mem[root] = s3.mem[root]
    BY Zenon
  <2>1. Spare(role2, pte, off, m)
    BY <1>4, <1>7, SpanOne DEF Spare
  <2>2. m \in Int
    OBVIOUS
  <2>3. pte \in Nat /\ off \in Nat
    BY <1>4, <1>7
  <2> QED BY ONLY <1>6, <2>1, <2>2, <2>3, p \in Nat, FillBuilds
<1>11. \E role3 : KeepsRoot(s3, r, role3, root)
  <2>1. CASE n + off <= Entries
    BY <1>5, <1>10, <2>1 DEF KeepsRoot
  <2>2. CASE ~(n + off <= Entries)
    <3> DEFINE m == Entries - off
               x == Fill(s3, pte, off, p, m, 0)
    <3>1. m \in Nat \ {0} /\ m + off <= Entries /\ p + m \in Nat /\ n - m \in Nat
      BY SMTT(30), <1>4, <2>2
    <3> HIDE DEF m
    <3>2. Building(x, role2, root) /\ x.mem[root] = s3.mem[root]
      BY <1>10, <3>1
    <3> HIDE DEF x
    <3>3. r = MapFurther(x, pde, pde_off(v), off, p + m, n - m, 0)
      BY SMTT(30), <1>5, <2>2 DEF x, m
    <3>4. PICK role3 : KeepsRoot(x, r, role3, root)
      BY ZenonT(30), <1>4, <1>7, <1>8, <3>1, <3>2, <3>3, MapFurtherBuilds
    <3> QED BY <3>2, <3>4 DEF KeepsRoot
  <2> QED BY Zenon, <2>1, <2>2
<1> QED
  BY Zenon, <1>7, <1>9, <1>11 DEF Built, KeepsRoot, r

\* Only root stays a top level table.
RootOnly(role, root) ==
    [f \in Nat |-> IF role[f].lev = 1 /\ f # root
                   THEN [lev |-> 0, own |-> 0, o1 |-> 0, o2 |-> 0, o3 |-> 0] ELSE role[f]]

\* The other top level tables can be forgotten.
LEMMA RootOnlyBuilds ==
    ASSUME NEW s, NEW role, NEW root, Building(s, role, root)
    PROVE  /\ Building(s, RootOnly(role, root), root)
           /\ \A f \in Nat : RootOnly(role, root)[f].lev = 1 => f = root
<1> DEFINE role2 == RootOnly(role, root)
           none == [lev |-> 0, own |-> 0, o1 |-> 0, o2 |-> 0, o3 |-> 0]
<1>1. /\ Structure(s, role) /\ IsImage(s) /\ role \in [Nat -> Roles]
      /\ root \in Nat /\ role[root] = RootRole(0) /\ \A f \in Nat : role[f].lev # 5
  BY DEF Building, Structure, Typed
<1>2. none \in Roles /\ none.lev = 0
  BY DEF Roles
<1> HIDE DEF none
<1>3. /\ role2 \in [Nat -> Roles]
      /\ \A f \in Nat : role2[f] = IF role[f].lev = 1 /\ f # root THEN none ELSE role[f]
  BY <1>1, <1>2 DEF RootOnly, none
<1> HIDE DEF role2
<1>4. \A f \in Nat : /\ role2[f].lev # 0 => role2[f] = role[f]
                     /\ role[f].lev # 1 => role2[f] = role[f]
  BY <1>2, <1>3
<1>5. role2[root] = role[root] /\ \A f \in Nat : role2[f].lev = 1 => f = root
  BY SMTT(30), <1>1, <1>2, <1>3
<1>6. Typed(s, role2)
  BY SMTT(30), <1>1, <1>3, <1>4 DEF Structure, Typed
<1>7. Tree(s, role2)
  <2> SUFFICES ASSUME NEW f \in Nat, NEW i \in Index, role2[f].lev \in 1 .. 3,
                      IsPresent(s.mem[f][i])
               PROVE  role2[FrameOf(s.mem[f][i])] = Child(role2[f], i)
    BY Zenon DEF Tree
  <2>1. role2[f] = role[f] /\ role[f] \in Roles
    BY SMTT(30), <1>1, <1>4
  <2>2. role[FrameOf(s.mem[f][i])] = Child(role[f], i)
    BY Zenon, <1>1, <2>1 DEF Structure, Tree
  <2>3. Child(role[f], i).lev = role[f].lev + 1
    BY Zenon, <2>1, ChildFacts DEF IsChild
  <2>4. FrameOf(s.mem[f][i]) \in Nat
    <3>1. s.mem[f] \in [Index -> Nat]
      BY SMTT(30), <1>6 DEF Typed, IsImage
    <3> QED BY <3>1, FrameOfNat
  <2> QED BY SMTT(30), <1>4, <2>1, <2>2, <2>3, <2>4
<1>8. Guarded(s, role2)
  BY Zenon, <1>1, <1>4 DEF Structure, Guarded
<1>9. Leaves(s, role2)
  <2> SUFFICES ASSUME NEW f \in Nat, NEW i \in Index, role2[f].lev = 4, role2[f].own # 0,
                      IsPresent(s.mem[f][i])
               PROVE  FALSE
    BY Zenon DEF Leaves
  <2>1. role2[f] = role[f]
    BY SMTT(30), <1>4
  <2>2. role[FrameOf(s.mem[f][i])].lev = 5
    BY ZenonT(30), <1>1, <2>1 DEF Structure, Leaves
  <2>3. FrameOf(s.mem[f][i]) \in Nat
    <3>1. s.mem[f] \in [Index -> Nat]
      BY <1>6 DEF Typed, IsImage
    <3> QED BY Zenon, <3>1, FrameOfNat
  <2> QED BY Zenon, <1>1, <2>2, <2>3
<1>10. \A f \in Nat : role2[f].lev # 5
  BY <1>1, <1>4
<1> QED
  BY Zenon, <1>1, <1>5, <1>6, <1>7, <1>8, <1>9, <1>10 DEF Building, Structure, role2

=============================================================================
