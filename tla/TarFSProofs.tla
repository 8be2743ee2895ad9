----------------------------- MODULE TarFSProofs -----------------------------
(***************************************************************************)
(* init_tarfs finds what tar has written, for any archive and block size;  *)
(* and reading a file stays in the file and passes over no byte, for any   *)
(* chunk size and any sizes of the reads, be it a text or a program with 0 *)
(* bytes in it.                                                            *)
(*                                                                         *)
(* The recursive functions of TarFS (digits, headers) are shown to exist   *)
(* with RunExists; what they compute follows by induction over the digits  *)
(* of a size and the entries of an archive.                                *)
(***************************************************************************)
EXTENDS TarFS, TLAPS, WellFoundedInduction

\* A nonempty set of numbers has a least element.
LEMMA LeastExists ==
    ASSUME NEW S \in SUBSET Nat, S # {}
    PROVE  \E n \in S : \A m \in S : n <= m
  <1> DEFINE R == OpToRel(<, Nat)
  <1>1. IsWellFoundedOn(R, Nat)
    BY Zenon, NatLessThanWellFounded
  <1>2. \E n \in S : \A m \in S : <<m, n>> \notin R
    <2> HIDE DEF R
    <2> QED BY Zenon, <1>1, WFMin
  <1>3. \A m, n \in Nat : <<m, n>> \notin R => ~(m < n)
    BY DEF OpToRel
  <1>4. PICK n \in S : \A m \in S : <<m, n>> \notin R
    BY Zenon, <1>2
  <1>5. \A m \in S : ~(m < n)
    <2> HIDE DEF R
    <2> QED BY Zenon, <1>3, <1>4
  <1> QED BY <1>5

\* A set that has 0, and with each number the next one, has all.
LEMMA SetInduction ==
    ASSUME NEW T, 0 \in T, \A n \in Nat : n \in T => n + 1 \in T
    PROVE  \A n \in Nat : n \in T
  <1> DEFINE S == {n \in Nat : n \notin T}
  <1> SUFFICES ASSUME S # {} PROVE FALSE
    OBVIOUS
  <1>1. PICK n \in S : \A m \in S : n <= m
    BY Zenon, LeastExists
  <1>2. n \in Nat /\ n # 0
    BY <1>1
  <1>3. n - 1 \in Nat /\ n - 1 \notin S
    BY <1>1, <1>2
  <1> QED BY <1>1, <1>2, <1>3

\* The same up to a bound
LEMMA BoundedInduction ==
    ASSUME NEW N \in Nat, NEW T, 0 \in T, \A n \in 0 .. N - 1 : n \in T => n + 1 \in T
    PROVE  \A n \in 0 .. N : n \in T
  <1> DEFINE U == {n \in Nat : n <= N => n \in T}
  <1>1. 0 \in U
    OBVIOUS
  <1>2. ASSUME NEW n \in Nat, n \in U PROVE n + 1 \in U
    BY <1>2
  <1> HIDE DEF U
  <1>3. \A n \in Nat : n \in U
    BY <1>1, <1>2, SetInduction
  <1> QED BY <1>3 DEF U

\* N steps in S, and the states they pass from s on
IsSteps(step, S, N) == step \in [1 .. N -> [S -> S]]

IsRun(f, step, S, s, N) ==
    /\ f \in [0 .. N -> S]
    /\ f[0] = s /\ \A j \in 1 .. N : f[j] = step[j][f[j - 1]]

\* Steps can be taken one after the other: so what is defined by recursion on a
\* number exists.
LEMMA RunExists ==
    ASSUME NEW S, NEW s \in S, NEW N \in Nat, NEW step, IsSteps(step, S, N)
    PROVE  \E f : IsRun(f, step, S, s, N)
  <1> USE DEF IsSteps, IsRun
  <1> DEFINE Good(n, f) == /\ f \in [0 .. n -> S] /\ f[0] = s
                           /\ \A j \in 1 .. n : f[j] = step[j][f[j - 1]]
             T == {n \in 0 .. N : \E f : Good(n, f)}
  <1>1. 0 \in T
    <2>1. Good(0, [j \in 0 .. 0 |-> s])
      OBVIOUS
    <2> HIDE DEF Good
    <2> QED BY <2>1
  <1>2. ASSUME NEW n \in 0 .. N - 1, n \in T PROVE n + 1 \in T
    <2>1. PICK f : Good(n, f)
      BY <1>2
    <2> DEFINE g == [j \in 0 .. n + 1 |-> IF j = n + 1 THEN step[n + 1][f[n]] ELSE f[j]]
    <2>2. f[n] \in S /\ n + 1 \in 1 .. N
      BY <2>1
    <2>3. step[n + 1][f[n]] \in S
      BY <2>2
    <2>4. g \in [0 .. n + 1 -> S] /\ g[0] = s
      BY <2>1, <2>3
    <2>5. ASSUME NEW j \in 1 .. n + 1 PROVE g[j] = step[j][g[j - 1]]
      <3>1. j - 1 \in 0 .. n /\ j - 1 # n + 1 /\ g[j - 1] = f[j - 1]
        OBVIOUS
      <3>2. CASE j = n + 1
        BY <3>1, <3>2
      <3>3. CASE j # n + 1
        BY <2>1, <3>1, <3>3
      <3> QED BY <3>2, <3>3
    <2>6. Good(n + 1, g)
      BY Zenon, <2>4, <2>5
    <2>7. n + 1 \in 0 .. N
      OBVIOUS
    <2> HIDE DEF Good, g
    <2> QED BY <2>6, <2>7
  <1> HIDE DEF T
  <1>3. \A n \in 0 .. N : n \in T
    BY Zenon, <1>1, <1>2, BoundedInduction
  <1>4. PICK f : Good(N, f)
    BY <1>3 DEF T
  <1> QED BY <1>4

-----------------------------------------------------------------------------
(* Sizes in octal *)

\* The digits of a size field, with the quotients they are the remainders of
LEMMA FieldDigits ==
    ASSUME NEW n \in Nat, n < SizeLimit
    PROVE  \E v \in [0 .. 11 -> Nat] :
             /\ v[0] = 0 /\ v[11] = n
             /\ OctalField(n) \in [1 .. 11 -> 0 .. 7]
             /\ \A k \in 1 .. 11 : v[k] = 8 * v[k - 1] + OctalField(n)[k]
<1> DEFINE F(f) == [k \in 1 .. 11 |-> IF k = 11 THEN n ELSE f[k + 1] \div 8]
<1>0. n \in Nat /\ n < 8 * 8 * 8 * 8 * 8 * 8 * 8 * 8 * 8
  BY DEF SizeLimit
<1>1. \E f : f = F(f)
  <2> DEFINE step == [j \in 1 .. 10 |-> [x \in Nat |-> x \div 8]]
  <2>1. IsSteps(step, Nat, 10)
    BY DEF IsSteps
  <2>2. PICK g : IsRun(g, step, Nat, n, 10)
    <3> HIDE DEF step
    <3> QED
      BY <2>1, RunExists
  <2>3. g[0] = n /\ \A j \in 1 .. 10 : g[j] = g[j - 1] \div 8
    BY <2>2 DEF IsRun
  <2> DEFINE f == [k \in 1 .. 11 |-> g[11 - k]]
  <2>4. ASSUME NEW k \in 1 .. 11 PROVE f[k] = IF k = 11 THEN n ELSE f[k + 1] \div 8
    <3>1. CASE k = 11
      BY <2>3, <3>1
    <3>2. CASE k # 11
      <4>1. 11 - k \in 1 .. 10 /\ k + 1 \in 1 .. 11 /\ 11 - k - 1 = 11 - (k + 1)
        BY <3>2
      <4>2. g[11 - k] = g[11 - (k + 1)] \div 8
        BY <2>3, <4>1
      <4> QED
        BY <3>2, <4>1, <4>2
    <3> QED
      BY <3>1, <3>2
  <2>5. f = F(f)
    BY <2>4
  <2> QED
    BY Zenon, <2>5
<1> DEFINE rest == CHOOSE f : f = F(f)
<1>2. rest = F(rest)
  <2> HIDE DEF F
  <2> QED
    BY <1>1
<1>3. OctalField(n) = [k \in 1 .. 11 |-> rest[k] % 8]
  BY DEF OctalField
<1> HIDE DEF rest
<1>4. /\ rest[11] = n /\ rest[10] = rest[11] \div 8 /\ rest[9] = rest[10] \div 8
      /\ rest[8] = rest[9] \div 8 /\ rest[7] = rest[8] \div 8 /\ rest[6] = rest[7] \div 8
      /\ rest[5] = rest[6] \div 8 /\ rest[4] = rest[5] \div 8 /\ rest[3] = rest[4] \div 8
      /\ rest[2] = rest[3] \div 8 /\ rest[1] = rest[2] \div 8
  BY <1>2
<1>5. \A x \in Nat : /\ x \div 8 \in Nat /\ x % 8 \in 0 .. 7
                    /\ x = 8 * (x \div 8) + (x % 8)
  OBVIOUS
<1>6. \A k \in 1 .. 11 : rest[k] \in Nat
  <2> DEFINE T == {k \in 0 .. 10 : rest[11 - k] \in Nat}
  <2>1. 0 \in T
    BY <1>0, <1>2
  <2>2. ASSUME NEW k \in 0 .. 10 - 1, k \in T PROVE k + 1 \in T
    <3>1. 10 - k \in 1 .. 11 /\ 10 - k # 11 /\ (10 - k) + 1 = 11 - k /\ 11 - (k + 1) = 10 - k
      OBVIOUS
    <3>2. rest[10 - k] = rest[11 - k] \div 8 /\ rest[11 - k] \in Nat
      BY <1>2, <2>2, <3>1
    <3>3. rest[10 - k] \in Nat
      BY <1>5, <3>2
    <3> QED
      BY <3>1, <3>3
  <2> HIDE DEF T
  <2>3. \A k \in 0 .. 10 : k \in T
    BY <2>1, <2>2, BoundedInduction
  <2>4. \A k \in 1 .. 11 : 11 - k \in 0 .. 10 /\ 11 - (11 - k) = k
    OBVIOUS
  <2> QED
    BY <2>3, <2>4 DEF T
<1>7. /\ rest[11] \in Nat /\ rest[9] \in Nat /\ rest[7] \in Nat /\ rest[5] \in Nat
  BY <1>6
<1>8. rest[1] = 0
  <2>1. \A x \in Nat : x < 8 * 8 * 8 * 8 * 8 * 8 * 8 * 8 * 8
                      => (x \div 8) \div 8 < 8 * 8 * 8 * 8 * 8 * 8 * 8
    OBVIOUS
  <2>2. \A x \in Nat : x < 8 * 8 * 8 * 8 * 8 * 8 * 8 => (x \div 8) \div 8 < 8 * 8 * 8 * 8 * 8
    OBVIOUS
  <2>3. \A x \in Nat : x < 8 * 8 * 8 * 8 * 8 => (x \div 8) \div 8 < 8 * 8 * 8
    OBVIOUS
  <2>4. \A x \in Nat : x < 8 * 8 * 8 => ((x \div 8) \div 8) \div 8 = 0
    OBVIOUS
  <2>5. rest[9] < 8 * 8 * 8 * 8 * 8 * 8 * 8
    BY ZenonT(30), <1>0, <1>4, <1>7, <2>1
  <2>6. rest[7] < 8 * 8 * 8 * 8 * 8
    BY ZenonT(30), <1>4, <1>7, <2>2, <2>5
  <2>7. rest[5] < 8 * 8 * 8
    BY ZenonT(30), <1>4, <1>7, <2>3, <2>6
  <2>8. rest[2] = 0
    BY ZenonT(30), <1>4, <1>7, <2>4, <2>7
  <2>9. rest[1] = rest[2] \div 8
    BY <1>2
  <2> QED
    BY <2>8, <2>9
<1> DEFINE v == [k \in 0 .. 11 |-> IF k = 0 THEN 0 ELSE rest[k]]
<1>9. \A k \in 1 .. 11 : v[k] = rest[k]
  OBVIOUS
<1>10. v \in [0 .. 11 -> Nat] /\ v[0] = 0 /\ v[11] = n
  <2>1. rest[11] = n
    BY <1>2
  <2> QED
    BY <1>6, <2>1
<1> HIDE DEF v
<1>11. ASSUME NEW k \in 1 .. 11 PROVE v[k] = 8 * v[k - 1] + (rest[k] % 8)
  <2>1. CASE k = 1
    BY <1>8, <1>9, <1>10, <2>1
  <2>2. CASE k # 1
    <3>1. k - 1 \in 1 .. 11 /\ k - 1 # 11 /\ k - 1 + 1 = k
      BY <2>2
    <3>2. rest[k - 1] = rest[k] \div 8
      BY <1>2, <3>1
    <3>3. v[k] = rest[k] /\ v[k - 1] = rest[k - 1] /\ rest[k] \in Nat
      BY <1>6, <1>9, <3>1
    <3> QED
      BY <1>5, <3>2, <3>3
  <2> QED
    BY <2>1, <2>2
<1>12. OctalField(n) \in [1 .. 11 -> 0 .. 7] /\ \A k \in 1 .. 11 : OctalField(n)[k] = rest[k] % 8
  BY <1>3, <1>5, <1>6
<1>13. \A k \in 1 .. 11 : v[k] = 8 * v[k - 1] + OctalField(n)[k]
  BY <1>11, <1>12
<1> QED
  BY Zenon, <1>10, <1>12, <1>13

\* atoi takes the digits for decimal ones.
LEMMA AtoiDigits ==
    ASSUME NEW ds \in [1 .. 11 -> 0 .. 7], Len(ds) = 11
    PROVE  \E r \in [0 .. 11 -> Nat] :
             /\ r[0] = 0 /\ r[11] = Atoi(ds)
             /\ \A k \in 1 .. 11 : r[k] = r[k - 1] * 10 + ds[k]
<1> DEFINE F(f) == [k \in 0 .. Len(ds) |-> IF k = 0 THEN 0 ELSE f[k - 1] * 10 + ds[k]]
           step == [j \in 1 .. 11 |-> [x \in Nat |-> x * 10 + ds[j]]]
<1>1. PICK g : IsRun(g, step, Nat, 0, 11)
  <2>1. IsSteps(step, Nat, 11)
    BY DEF IsSteps
  <2> HIDE DEF step
  <2> QED
    BY Zenon, <2>1, RunExists
<1>2. /\ g \in [0 .. 11 -> Nat] /\ g[0] = 0
      /\ \A k \in 1 .. 11 : g[k] = g[k - 1] * 10 + ds[k]
  <2>1. g \in [0 .. 11 -> Nat] /\ g[0] = 0 /\ \A k \in 1 .. 11 : g[k] = step[k][g[k - 1]]
    BY <1>1 DEF IsRun
  <2>2. \A k \in 1 .. 11 : k - 1 \in 0 .. 11
    OBVIOUS
  <2>3. \A k \in 1 .. 11 : g[k - 1] \in Nat
    BY Zenon, <2>1, <2>2
  <2> QED
    BY <2>1, <2>3
<1>3. g = F(g)
  <2>1. \A k \in 0 .. 11 : k = 0 \/ k \in 1 .. 11
    OBVIOUS
  <2> QED
    BY <1>2, <2>1
<1> DEFINE res == CHOOSE f : f = F(f)
<1>4. res = F(res)
  <2> HIDE DEF F, step
  <2> QED
    BY <1>3
<1>5. Atoi(ds) = res[Len(ds)]
  BY DEF Atoi
<1> HIDE DEF res, step
<1>6. res[0] = 0 /\ \A k \in 1 .. 11 : res[k] = res[k - 1] * 10 + ds[k]
  BY <1>4
<1>7. \A k \in 0 .. 11 : res[k] \in Nat
  <2> DEFINE T == {k \in 0 .. 11 : res[k] \in Nat}
  <2>1. 0 \in T
    BY <1>6
  <2>2. ASSUME NEW k \in 0 .. 11 - 1, k \in T PROVE k + 1 \in T
    <3>1. k + 1 \in 1 .. 11 /\ (k + 1) - 1 = k /\ res[k] \in Nat
      BY <2>2
    <3>2. res[k + 1] = res[k] * 10 + ds[k + 1]
      BY <1>6, <3>1
    <3> QED
      BY <3>1, <3>2
  <2>3. 11 \in Nat
    OBVIOUS
  <2> HIDE DEF T
  <2>4. \A k \in 0 .. 11 : k \in T
    BY <2>1, <2>2, <2>3, BoundedInduction
  <2> QED
    BY <2>4 DEF T
<1>8. DOMAIN res = 0 .. 11
  BY <1>4
<1>9. res \in [0 .. 11 -> Nat]
  <2>1. res = [k \in 0 .. 11 |-> res[k]]
    BY <1>4
  <2> QED
    BY <1>7, <2>1
<1> QED
  BY Zenon, <1>5, <1>6, <1>9

\* octTodec takes a number apart into its decimal digits.
LEMMA OctTodecDigits ==
    ASSUME NEW octal \in Nat
    PROVE  \E sum : /\ sum[octal] = OctTodec(octal)
                   /\ \A n \in 0 .. octal :
                        sum[n] = IF n = 0 THEN 0 ELSE (n % 10) + 8 * sum[n \div 10]
<1> DEFINE Sum(f, n) == IF n = 0 THEN 0 ELSE (n % 10) + 8 * f[n \div 10]
           F(f) == [n \in 0 .. octal |-> Sum(f, n)]
           T == {m \in Nat : \E f : f = [n \in 0 .. m |-> Sum(f, n)]}
<1>1. \A n \in Nat : n # 0 => n \div 10 \in 0 .. n - 1
  OBVIOUS
<1>2. 0 \in T
  <2>1. [n \in 0 .. 0 |-> 0] = [n \in 0 .. 0 |-> Sum([k \in 0 .. 0 |-> 0], n)]
    OBVIOUS
  <2> QED
    BY Zenon, <2>1
<1>3. ASSUME NEW m \in Nat, m \in T PROVE m + 1 \in T
  <2>1. PICK f : f = [n \in 0 .. m |-> Sum(f, n)]
    BY <1>3
  <2> DEFINE g == [n \in 0 .. m + 1 |-> IF n = m + 1 THEN Sum(f, n) ELSE f[n]]
  <2>2. ASSUME NEW n \in 0 .. m + 1 PROVE g[n] = Sum(g, n)
    <3>1. n = 0 \/ (n \div 10 \in 0 .. m /\ n \div 10 # m + 1)
      BY <1>1
    <3>2. n # 0 => g[n \div 10] = f[n \div 10]
      BY <3>1
    <3>3. n # m + 1 => f[n] = Sum(f, n)
      BY <2>1
    <3>4. g[n] = Sum(f, n)
      BY <3>3
    <3> QED
      BY <3>2, <3>4
  <2>3. g = [n \in 0 .. m + 1 |-> Sum(g, n)]
    BY <2>2
  <2> HIDE DEF g, Sum
  <2> QED
    BY <2>3
<1>4. octal \in T
  <2> HIDE DEF T
  <2> QED
    BY <1>2, <1>3, SetInduction
<1> DEFINE sum == CHOOSE f : f = F(f)
<1>5. sum = F(sum)
  <2>1. \E f : f = F(f)
    BY <1>4
  <2> HIDE DEF F
  <2> QED
    BY <2>1
<1>6. OctTodec(octal) = sum[octal]
  BY DEF OctTodec
<1> HIDE DEF sum
<1>7. \A n \in 0 .. octal : sum[n] = Sum(sum, n)
  BY <1>5
<1> QED
  BY <1>6, <1>7

\* What tar writes into a header, init_tarfs reads.
LEMMA SizeReadBack ==
    ASSUME NEW n \in Nat, n < SizeLimit
    PROVE  OctTodec(Atoi(OctalField(n))) = n
<1> DEFINE ds == OctalField(n)
<1>1. PICK v \in [0 .. 11 -> Nat] :
        /\ v[0] = 0 /\ v[11] = n
        /\ ds \in [1 .. 11 -> 0 .. 7]
        /\ \A k \in 1 .. 11 : v[k] = 8 * v[k - 1] + ds[k]
  BY FieldDigits
<1>2. Len(ds) = 11
  BY <1>1
<1> HIDE DEF ds
<1>3. PICK r \in [0 .. 11 -> Nat] :
        /\ r[0] = 0 /\ r[11] = Atoi(ds)
        /\ \A k \in 1 .. 11 : r[k] = r[k - 1] * 10 + ds[k]
  BY Zenon, <1>1, <1>2, AtoiDigits
<1> DEFINE octal == Atoi(ds)
<1>4. octal \in Nat
  BY <1>3
<1>5. PICK sum : /\ sum[octal] = OctTodec(octal)
                 /\ \A m \in 0 .. octal :
                        sum[m] = IF m = 0 THEN 0 ELSE (m % 10) + 8 * sum[m \div 10]
  <2> HIDE DEF octal
  <2> QED
    BY <1>4, OctTodecDigits
<1> HIDE DEF octal
<1> DEFINE T == {k \in 0 .. 11 : r[k] <= octal /\ sum[r[k]] = v[k]}
<1>7. \A k \in 0 .. 10 : /\ r[k + 1] = r[k] * 10 + ds[k + 1]
                         /\ v[k + 1] = 8 * v[k] + ds[k + 1]
                         /\ r[k] \in Nat /\ v[k] \in Nat /\ ds[k + 1] \in 0 .. 7
                         /\ r[k + 1] \in Nat
  <2> SUFFICES ASSUME NEW k \in 0 .. 10
               PROVE  /\ r[k + 1] = r[k] * 10 + ds[k + 1]
                      /\ v[k + 1] = 8 * v[k] + ds[k + 1]
                      /\ r[k] \in Nat /\ v[k] \in Nat /\ ds[k + 1] \in 0 .. 7
                      /\ r[k + 1] \in Nat
    OBVIOUS
  <2>1. k + 1 \in 1 .. 11 /\ (k + 1) - 1 = k /\ k \in 0 .. 11 /\ k + 1 \in 0 .. 11
    OBVIOUS
  <2>2. r[k + 1] = r[k] * 10 + ds[k + 1]
    BY <1>3, <2>1
  <2>3. v[k + 1] = 8 * v[k] + ds[k + 1]
    BY <1>1, <2>1
  <2>4. r[k] \in Nat /\ v[k] \in Nat /\ ds[k + 1] \in 0 .. 7 /\ r[k + 1] \in Nat
    BY Zenon, <1>1, <2>1
  <2> QED
    BY <2>2, <2>3, <2>4
<1>8. \A k \in 0 .. 11 : r[k] <= octal
  <2> DEFINE D == {k \in 0 .. 11 : r[11 - k] <= octal}
  <2>1. 0 \in D
    BY <1>3, <1>4 DEF octal
  <2>2. ASSUME NEW k \in 0 .. 11 - 1, k \in D PROVE k + 1 \in D
    <3>1. 10 - k \in 0 .. 10 /\ (10 - k) + 1 = 11 - k /\ 11 - (k + 1) = 10 - k
      OBVIOUS
    <3>2. r[11 - k] = r[10 - k] * 10 + ds[11 - k] /\ r[10 - k] \in Nat /\ ds[11 - k] \in 0 .. 7
      BY <1>7, <3>1
    <3>3. r[11 - k] <= octal
      BY <2>2
    <3>4. r[10 - k] <= octal
      BY <1>4, <3>2, <3>3
    <3> QED
      BY <3>1, <3>4
  <2> HIDE DEF D
  <2>3. \A k \in 0 .. 11 : k \in D
    BY <2>1, <2>2, BoundedInduction
  <2>4. \A k \in 0 .. 11 : 11 - k \in 0 .. 11 /\ 11 - (11 - k) = k
    OBVIOUS
  <2> QED
    BY <2>3, <2>4 DEF D
<1>9. 0 \in T
  <2>1. 0 \in 0 .. octal
    BY <1>4
  <2>2. sum[0] = 0
    BY <1>5, <2>1
  <2>3. r[0] = 0 /\ v[0] = 0
    BY <1>1, <1>3
  <2> QED
    BY <2>1, <2>2, <2>3
<1>10. ASSUME NEW k \in 0 .. 11 - 1, k \in T PROVE k + 1 \in T
  <2>1. /\ r[k + 1] = r[k] * 10 + ds[k + 1] /\ v[k + 1] = 8 * v[k] + ds[k + 1]
        /\ r[k] \in Nat /\ v[k] \in Nat /\ ds[k + 1] \in 0 .. 7 /\ r[k + 1] \in Nat
    BY <1>7
  <2>2. r[k + 1] \in 0 .. octal /\ k + 1 \in 0 .. 11
    BY <1>4, <1>8, <2>1
  <2>3. r[k] \in 0 .. octal /\ sum[r[k]] = v[k]
    BY <1>4, <1>10, <2>1
  <2>4. r[k + 1] % 10 = ds[k + 1] /\ r[k + 1] \div 10 = r[k]
    BY <2>1
  <2>5. CASE r[k + 1] = 0
    <3>1. ds[k + 1] = 0 /\ r[k] = 0
      BY <2>1, <2>5
    <3>2. v[k] = 0 /\ sum[0] = 0
      BY <1>4, <1>5, <2>3, <3>1
    <3> QED
      BY <2>1, <2>2, <2>5, <3>1, <3>2
  <2>6. CASE r[k + 1] # 0
    <3>1. sum[r[k + 1]] = ds[k + 1] + 8 * v[k]
      BY Zenon, <1>5, <2>2, <2>3, <2>4, <2>6
    <3> QED
      BY <2>1, <2>2, <3>1
  <2> QED
    BY <2>5, <2>6
<1>11. sum[r[11]] = v[11]
  <2> HIDE DEF T
  <2>1. \A k \in 0 .. 11 : k \in T
    BY <1>9, <1>10, BoundedInduction
  <2>2. 11 \in 0 .. 11
    OBVIOUS
  <2> QED
    BY <2>1, <2>2 DEF T
<1> QED
  BY <1>1, <1>3, <1>5, <1>11 DEF octal, ds

-----------------------------------------------------------------------------
(* The walk over the headers *)

\* The three cases of init_tarfs amount to rounding up to whole blocks.
LEMMA StrideRoundsUp ==
    ASSUME NEW n \in Nat
    PROVE  /\ Stride(n) \in Nat /\ Stride(n) > 0
           /\ Stride(n) = Block * (1 + ((n + Block - 1) \div Block))
<1> DEFINE q == n \div Block
           r == n % Block
<1>1. Block \in Nat /\ Block > 0
  BY TarFSAssumption
<1>2. q \in Nat /\ r \in 0 .. Block - 1 /\ n = Block * q + r
  BY <1>1
<1>3. \A x \in Int, k \in Int : Block * k <= x /\ x < Block * (k + 1) => x \div Block = k
  <2> SUFFICES ASSUME NEW x \in Int, NEW k \in Int, Block * k <= x, x < Block * (k + 1)
               PROVE  x \div Block = k
    OBVIOUS
  <2> DEFINE d == x \div Block
  <2>1. d \in Int /\ Block * d <= x /\ x < Block * (d + 1)
    BY <1>1
  <2> HIDE DEF d
  <2>2. Block * d < Block * (k + 1) /\ Block * k < Block * (d + 1)
    BY <1>1, <2>1
  <2>3. d < k + 1 /\ k < d + 1
    BY <1>1, <2>1, <2>2
  <2>4. d = k
    BY <2>1, <2>3
  <2> QED
    BY <2>4 DEF d
<1> HIDE DEF q, r
<1>4. CASE r = 0
  <2>1. n = Block * q
    BY <1>1, <1>2, <1>4
  <2>2. Block * q <= n + Block - 1 /\ n + Block - 1 < Block * (q + 1)
    BY <1>1, <1>2, <2>1
  <2>3. (n + Block - 1) \div Block = q
    BY <1>1, <1>2, <1>3, <2>2
  <2>4. Block * (1 + q) = n + Block
    BY <1>1, <1>2, <2>1
  <2>5. n = 0 \/ n % Block = 0
    BY <1>4 DEF r
  <2>6. Stride(n) = n + Block
    BY <1>1, <2>5 DEF Stride
  <2> QED
    BY <1>1, <2>3, <2>4, <2>6
<1>5. CASE r # 0
  <2>1. Block * (q + 1) <= n + Block - 1 /\ n + Block - 1 < Block * ((q + 1) + 1)
    BY <1>1, <1>2, <1>5
  <2>2. (n + Block - 1) \div Block = q + 1
    BY <1>1, <1>2, <1>3, <2>1
  <2>3. Block * (1 + (q + 1)) = n + (Block - r) + Block
    BY <1>1, <1>2
  <2>4. n # 0 /\ n % Block = r
    <3>1. n % Block = r
      BY DEF r
    <3>2. n # 0
      BY <1>1, <1>2, <1>5
    <3> QED
      BY <3>1, <3>2
  <2>5. Stride(n) = n + (Block - r) + Block
    BY <1>5, <2>4 DEF Stride
  <2> QED
    BY <1>1, <1>2, <2>2, <2>3, <2>5
<1> QED
  BY <1>4, <1>5

\* The headers lie one stride apart.
LEMMA LayoutSteps ==
    ASSUME NEW a \in Archives
    PROVE  /\ Layout(a)[1] = 0
           /\ \A k \in 1 .. Len(a) : Layout(a)[k + 1] = Layout(a)[k] + Stride(a[k].size)
           /\ \A k \in 1 .. Len(a) + 1 : Layout(a)[k] \in Nat
<1> DEFINE L == Len(a)
           F(f) == [k \in 1 .. L + 1 |-> IF k = 1 THEN 0
                      ELSE f[k - 1] + Block * (1 + ((a[k - 1].size + Block - 1) \div Block))]
           step == [j \in 1 .. L |-> [x \in Nat |-> x + Stride(a[j].size)]]
<1>1. L \in Nat /\ \A k \in 1 .. L : a[k].size \in Nat
  BY TarFSAssumption
<1>2. \A k \in 1 .. L : /\ Stride(a[k].size) \in Nat
                        /\ Stride(a[k].size) = Block * (1 + ((a[k].size + Block - 1) \div Block))
  BY Zenon, <1>1, StrideRoundsUp
<1>3. IsSteps(step, Nat, L)
  BY <1>2 DEF IsSteps
<1>4. PICK g : IsRun(g, step, Nat, 0, L)
  <2> HIDE DEF step, L
  <2> QED
    BY Zenon, <1>1, <1>3, RunExists
<1>5. g \in [0 .. L -> Nat] /\ g[0] = 0 /\ \A j \in 1 .. L : g[j] = step[j][g[j - 1]]
  BY <1>4 DEF IsRun
<1> HIDE DEF L
<1>6. \A j \in 1 .. L : g[j] = g[j - 1] + Stride(a[j].size)
  <2>1. \A j \in 1 .. L : j - 1 \in 0 .. L
    BY <1>1
  <2>2. \A j \in 1 .. L : g[j - 1] \in Nat
    BY <1>5, <2>1
  <2> QED
    BY Zenon, <1>5, <2>2
<1> DEFINE f == [k \in 1 .. L + 1 |-> g[k - 1]]
<1>7. f = F(f)
  <2> SUFFICES ASSUME NEW k \in 1 .. L + 1
               PROVE  f[k] = IF k = 1 THEN 0 ELSE
                        f[k - 1] + Block * (1 + ((a[k - 1].size + Block - 1) \div Block))
    BY Zenon
  <2>1. CASE k = 1
    BY <1>5, <2>1
  <2>2. CASE k # 1
    <3>1. k - 1 \in 1 .. L /\ k - 1 \in 1 .. L + 1 /\ f[k] = g[k - 1] /\ f[k - 1] = g[(k - 1) - 1]
      BY <1>1, <2>2
    <3>2. g[k - 1] = g[(k - 1) - 1] + Stride(a[k - 1].size)
      BY <1>6, <3>1
    <3> HIDE DEF f
    <3> QED
      BY <1>2, <2>2, <3>1, <3>2
  <2> QED
    BY <2>1, <2>2
<1> DEFINE at == CHOOSE h : h = F(h)
<1>8. at = F(at)
  <2> HIDE DEF F, f
  <2> QED
    BY <1>7
<1>9. Layout(a) = at
  BY DEF Layout, L
<1> HIDE DEF at, f
<1>10. at[1] = 0
  BY <1>1, <1>8
<1>11. ASSUME NEW k \in 1 .. L PROVE at[k + 1] = at[k] + Stride(a[k].size)
  <2>1. k + 1 \in 1 .. L + 1 /\ k + 1 # 1 /\ (k + 1) - 1 = k
    BY <1>1
  <2>2. at[k + 1] = at[k] + Block * (1 + ((a[k].size + Block - 1) \div Block))
    BY Zenon, <1>8, <2>1
  <2> QED
    BY <1>2, <2>2
<1>12. \A k \in 1 .. L + 1 : at[k] \in Nat
  <2> DEFINE T == {k \in 0 .. L : at[k + 1] \in Nat}
  <2>1. 0 \in T
    BY <1>1, <1>10
  <2>2. ASSUME NEW k \in 0 .. L - 1, k \in T PROVE k + 1 \in T
    <3>1. k + 1 \in 1 .. L /\ k + 1 \in 0 .. L /\ at[k + 1] \in Nat
      BY <1>1, <2>2
    <3>2. at[(k + 1) + 1] \in Nat
      BY <1>2, <1>11, <3>1
    <3> QED
      BY <3>1, <3>2
  <2> HIDE DEF T
  <2>3. \A k \in 0 .. L : k \in T
    BY <1>1, <2>1, <2>2, BoundedInduction
  <2>4. \A k \in 1 .. L + 1 : k - 1 \in 0 .. L /\ (k - 1) + 1 = k
    BY <1>1
  <2> QED
    BY <2>3, <2>4 DEF T
<1> QED
  BY <1>9, <1>10, <1>11, <1>12 DEF L

\* No two headers lie at the same place.
LEMMA HeadersApart ==
    ASSUME NEW a \in Archives, NEW j \in 1 .. Len(a) + 1, NEW k \in 1 .. Len(a) + 1,
           Layout(a)[j] = Layout(a)[k]
    PROVE  j = k
<1> DEFINE L == Len(a)
           at == Layout(a)
           T == {m \in 0 .. L : \A i \in 1 .. m : at[i] < at[m + 1]}
<1>1. L \in Nat /\ \A i \in 1 .. L : a[i].size \in Nat
  BY TarFSAssumption
<1>2. \A i \in 1 .. L + 1 : at[i] \in Nat
  BY LayoutSteps
<1>3. \A i \in 1 .. L : at[i + 1] > at[i]
  <2>1. \A i \in 1 .. L : at[i + 1] = at[i] + Stride(a[i].size)
    BY LayoutSteps
  <2>2. \A i \in 1 .. L : Stride(a[i].size) \in Nat /\ Stride(a[i].size) > 0
    BY Zenon, <1>1, StrideRoundsUp
  <2>3. \A i \in 1 .. L : at[i] \in Nat
    BY <1>1, <1>2
  <2> HIDE DEF at, L
  <2> QED
    BY <2>1, <2>2, <2>3
<1> HIDE DEF at, L
<1>4. 0 \in T
  BY <1>1
<1>5. ASSUME NEW m \in 0 .. L - 1, m \in T PROVE m + 1 \in T
  <2>1. m + 1 \in 1 .. L /\ m + 1 \in 0 .. L /\ m + 1 \in 1 .. L + 1 /\ (m + 1) + 1 \in 1 .. L + 1
    BY <1>1
  <2>2. at[(m + 1) + 1] > at[m + 1]
    BY <1>3, <2>1
  <2>3. ASSUME NEW i \in 1 .. m + 1 PROVE at[i] < at[(m + 1) + 1]
    <3>1. i = m + 1 \/ i \in 1 .. m
      BY <1>1
    <3>2. at[i] <= at[m + 1] /\ i \in 1 .. L + 1
      <4>1. i \in 1 .. L + 1
        BY <1>1
      <4>2. at[i] = at[m + 1] \/ at[i] < at[m + 1]
        BY <1>5, <3>1
      <4> QED
        BY <1>2, <2>1, <4>1, <4>2
    <3> QED
      BY <1>2, <2>1, <2>2, <3>2
  <2> QED
    BY <2>1, <2>3
<1>6. \A m \in 0 .. L : m \in T
  <2> HIDE DEF T
  <2> QED
    BY Zenon, <1>1, <1>4, <1>5, BoundedInduction
<1>7. ASSUME NEW i \in 1 .. L + 1, NEW m \in 1 .. L + 1, i < m PROVE at[i] # at[m]
  <2>1. m - 1 \in 0 .. L /\ i \in 1 .. m - 1 /\ (m - 1) + 1 = m
    BY <1>1, <1>7
  <2>2. at[i] < at[m]
    BY <1>6, <2>1
  <2> QED
    BY <1>2, <2>2
<1>8. j \in 1 .. L + 1 /\ k \in 1 .. L + 1 /\ at[j] = at[k]
  BY DEF L, at
<1>9. j = k \/ j < k \/ k < j
  BY <1>1, <1>8
<1> QED
  BY <1>7, <1>8, <1>9

\* The walk has gone through the first entries of the archive, and the table
\* describes them.
Walked ==
    /\ archive \in Archives
    /\ tarfs_list \in Seq([size : Nat, type : {"dir", "file"}, addr : Nat])
    /\ Len(tarfs_list) <= Len(archive)
    /\ TableMatches

LEMMA InitWalked == ASSUME Init PROVE Walked
<1>1. archive \in Archives /\ tarfs_list = <<>> /\ temp_ptr = 0 /\ phase = "init"
  BY DEF Init
<1>2. Layout(archive)[1] = 0 /\ Len(archive) \in Nat
  BY <1>1, LayoutSteps, TarFSAssumption
<1>3. Len(tarfs_list) = 0 /\ DOMAIN tarfs_list = {}
  BY <1>1
<1> QED
  BY <1>1, <1>2, <1>3 DEF Walked, TableMatches

LEMMA WalkedKept == ASSUME Walked, [Next]_vars PROVE Walked'
<1>1. CASE InitEntry
  <2> DEFINE n == Len(tarfs_list)
             Rec == [size : Nat, type : {"dir", "file"}, addr : Nat]
             e == [size |-> archive[n + 1].size, type |-> archive[n + 1].type, addr |-> n + 1]
  <2>1. archive \in Archives /\ Len(archive) \in Nat /\ n \in Nat /\ n <= Len(archive)
    BY TarFSAssumption DEF Walked
  <2>2. PICK k \in 1 .. Len(archive) :
          /\ temp_ptr = Layout(archive)[k]
          /\ tarfs_list' = Append(tarfs_list,
                [size |-> OctTodec(Atoi(OctalField(archive[k].size))),
                 type |-> archive[k].type, addr |-> k])
          /\ temp_ptr' = temp_ptr + Stride(OctTodec(Atoi(OctalField(archive[k].size))))
    BY <1>1 DEF InitEntry
  <2>3. k = n + 1
    <3>1. temp_ptr = Layout(archive)[n + 1]
      BY DEF Walked, TableMatches
    <3> HIDE DEF n
    <3>2. n + 1 \in 1 .. Len(archive) + 1 /\ k \in 1 .. Len(archive) + 1
      BY <2>1
    <3> QED
      BY Zenon, <2>1, <2>2, <3>1, <3>2, HeadersApart
  <2>4. n + 1 \in 1 .. Len(archive) /\ n + 1 <= Len(archive)
    BY <2>2, <2>3
  <2>5. /\ archive[n + 1].size \in Nat /\ archive[n + 1].size < SizeLimit
        /\ archive[n + 1].type \in {"dir", "file"}
    <3>1. n + 1 \in DOMAIN archive
      BY <2>1, <2>4, TarFSAssumption
    <3> QED
      BY <2>1, <3>1, TarFSAssumption
  <2>6. OctTodec(Atoi(OctalField(archive[n + 1].size))) = archive[n + 1].size
    BY <2>5, SizeReadBack
  <2>7. tarfs_list' = Append(tarfs_list, e) /\ temp_ptr' = temp_ptr + Stride(archive[n + 1].size)
    BY <2>2, <2>3, <2>6
  <2>8. temp_ptr' = Layout(archive)[(n + 1) + 1]
    <3>1. Layout(archive)[(n + 1) + 1] = Layout(archive)[n + 1] + Stride(archive[n + 1].size)
      BY <2>1, <2>4, LayoutSteps
    <3> QED
      BY <2>7, <3>1 DEF Walked, TableMatches
  <2>9. e \in Rec /\ tarfs_list \in Seq(Rec)
    BY <2>1, <2>5 DEF Walked
  <2> HIDE DEF Rec, e
  <2>10. /\ tarfs_list' \in Seq(Rec) /\ Len(tarfs_list') = n + 1
         /\ \A j \in 1 .. n : tarfs_list'[j] = tarfs_list[j]
         /\ tarfs_list'[n + 1] = e
    BY <2>7, <2>9
  <2>11. archive' = archive /\ phase' = phase /\ phase = "init"
    BY <1>1 DEF InitEntry
  <2>12. \A j \in 1 .. n : tarfs_list[j] =
            [size |-> archive[j].size, type |-> archive[j].type, addr |-> j]
    BY <2>9 DEF Walked, TableMatches
  <2>13. \A j \in DOMAIN tarfs_list' : tarfs_list'[j] =
            [size |-> archive[j].size, type |-> archive[j].type, addr |-> j]
    <3>1. DOMAIN tarfs_list' = 1 .. n + 1
      BY <2>10
    <3>2. \A j \in 1 .. n + 1 : j \in 1 .. n \/ j = n + 1
      BY <2>1
    <3> QED
      BY Zenon, <2>10, <2>12, <3>1, <3>2 DEF e
  <2> HIDE DEF n
  <2> QED
    BY <2>1, <2>4, <2>8, <2>10, <2>11, <2>13 DEF Walked, TableMatches, Rec
<1>2. CASE InitDone
  <2>1. archive \in Archives /\ Len(archive) \in Nat /\ Len(tarfs_list) \in Nat
    BY TarFSAssumption DEF Walked
  <2>2. temp_ptr = Layout(archive)[Len(archive) + 1] /\ UNCHANGED fsVars
    BY <1>2 DEF InitDone
  <2>3. temp_ptr = Layout(archive)[Len(tarfs_list) + 1] /\ Len(tarfs_list) <= Len(archive)
    BY DEF Walked, TableMatches
  <2>4. Len(archive) + 1 \in 1 .. Len(archive) + 1 /\ Len(tarfs_list) + 1 \in 1 .. Len(archive) + 1
    BY <2>1, <2>3
  <2>5. Len(tarfs_list) + 1 = Len(archive) + 1
    BY Zenon, <2>1, <2>2, <2>3, <2>4, HeadersApart
  <2>6. Len(tarfs_list) = Len(archive)
    BY <2>1, <2>5
  <2> QED
    BY <2>2, <2>6 DEF Walked, TableMatches, fsVars
<1>3. CASE ~InitEntry /\ ~InitDone
  <2>1. UNCHANGED <<archive, tarfs_list, temp_ptr>> /\ (phase' # "init" => phase # "init")
    BY <1>3 DEF Next, Kernel, User, UserOpen, UserRead, UserClose, MayOpen,
       CatOpen, CatMore, CatLast, CatEmpty, fsVars, vars
  <2> QED
    BY <2>1 DEF Walked, TableMatches
<1> QED
  BY <1>1, <1>2, <1>3

\* init_tarfs finds every header of the archive, with its size, and nothing
\* else, whatever the sizes of the files.
THEOREM WalkFindsAll == Spec => []TableMatches
<1>1. Init => Walked
  BY InitWalked
<1>2. Walked /\ [Next]_vars => Walked'
  BY WalkedKept
<1>3. Walked => TableMatches
  BY DEF Walked
<1> QED
  BY <1>1, <1>2, <1>3, PTL DEF Spec

-----------------------------------------------------------------------------
(* Reading *)

\* The table and the descriptor hold sizes, and describe files of the archive.
TableTyped ==
    /\ archive \in Archives
    /\ \A k \in DOMAIN tarfs_list :
        tarfs_list[k].size \in Nat /\ tarfs_list[k].addr \in DOMAIN archive
    /\ fd.size \in Nat /\ (fd # Closed => fd.of \in DOMAIN archive)

\* While a file is open, the position is in it, not behind what has been read,
\* and not at a 0 byte, at which the buffer would be an empty string and the
\* position would move back; otherwise it is 0.
Positioned ==
    /\ bytesdone \in Nat /\ reached \in Nat /\ size \in Nat
    /\ fd = Closed => bytesdone = 0
    /\ fd # Closed =>
        /\ size = fd.size /\ bytesdone <= reached /\ reached <= size /\ ~whole
        /\ size = 0 => bytesdone = 0
        /\ size # 0 => bytesdone < size
        /\ bytesdone \notin archive[fd.of].nul /\ text = IsText(fd.of)
    /\ phase = "cat" => fd # Closed
    /\ phase = "init" => fd = Closed

Inv == TableTyped /\ Positioned /\ StaysInFile /\ SkipsNothing

-----------------------------------------------------------------------------

LEMMA InitInv == ASSUME Init PROVE Inv
BY TarFSAssumption
   DEF Init, Inv, TableTyped, Positioned, StaysInFile, SkipsNothing, Closed

\* What has been copied to the buffer, up to its first 0 byte, is a string that
\* is not empty; its last byte is not 0 either.  Of a text it is everything.
LEMMA LengthFacts ==
    ASSUME Inv, fd # Closed, NEW c \in Nat \ {0}
    PROVE  /\ Length(c) \in 1 .. c
           /\ bytesdone + (Length(c) - 1) \notin archive[fd.of].nul
           /\ IsText(fd.of) => Length(c) = c
<1> DEFINE zero == {j \in 0 .. c - 1 : bytesdone + j \in archive[fd.of].nul}
<1>1. bytesdone \in Nat /\ bytesdone \notin archive[fd.of].nul
  BY DEF Inv, Positioned
<1>2. CASE zero = {}
  <2>1. Length(c) = c
    BY <1>2 DEF Length
  <2>2. c - 1 \in 0 .. c - 1 /\ c - 1 \notin zero
    BY <1>2
  <2> QED
    BY <2>1, <2>2
<1>3. CASE zero # {}
  <2>1. zero \in SUBSET Nat
    OBVIOUS
  <2>2. Length(c) = CHOOSE j \in zero : \A m \in zero : j <= m
    BY <1>3 DEF Length
  <2>3. ~IsText(fd.of)
    BY <1>3 DEF IsText
  <2> DEFINE j == Length(c)
  <2> HIDE DEF zero
  <2>4. j \in zero /\ \A m \in zero : j <= m
    BY Zenon, <1>3, <2>1, <2>2, LeastExists
  <2> HIDE DEF j
  <2>5. j \in 0 .. c - 1 /\ bytesdone + j \in archive[fd.of].nul
    BY <2>4 DEF zero
  <2>6. j # 0
    BY <1>1, <2>5
  <2>7. j - 1 \in 0 .. c - 1 /\ j - 1 \notin zero
    BY <2>1, <2>4, <2>5, <2>6
  <2>8. bytesdone + (j - 1) \notin archive[fd.of].nul
    BY <2>7 DEF zero
  <2> QED
    BY <2>3, <2>5, <2>6, <2>8 DEF j
<1> QED
  BY <1>2, <1>3

\* A read of n bytes at a position in the file
LEMMA BytesToReadFacts ==
    ASSUME Inv, fd.size # 0, fd # Closed, NEW n \in Nat \ {0}
    PROVE  /\ BytesToRead(n) \in Nat /\ 0 < BytesToRead(n) /\ BytesToRead(n) <= n
           /\ bytesdone + BytesToRead(n) <= fd.size
           /\ BytesToRead(n) < n => bytesdone + BytesToRead(n) = fd.size
BY DEF Inv, TableTyped, Positioned, BytesToRead

\* Opening
LEMMA OpenInv ==
    ASSUME Inv, MayOpen, NEW k \in DOMAIN tarfs_list, Open(k),
           UNCHANGED <<fsVars, bytesdone>>, phase' \in {"user", "cat"}
    PROVE  Inv'
<1>1. fd' = [of |-> tarfs_list[k].addr, size |-> tarfs_list[k].size]
  BY DEF Open
<1>2. fd'.size \in Nat /\ fd'.of \in DOMAIN archive /\ archive \in Archives
  BY <1>1 DEF Inv, TableTyped
<1>3. fd' # Closed
  BY <1>2, TarFSAssumption DEF Closed
<1>4. TableTyped'
  BY <1>2 DEF Inv, TableTyped, fsVars
<1>5. bytesdone = 0 /\ bytesdone' = 0 /\ archive' = archive
  BY DEF MayOpen, Inv, Positioned, fsVars
<1>6. 0 \notin archive[fd'.of].nul /\ text' = IsText(fd.of)'
  <2>1. archive[fd'.of].nul \subseteq 1 .. archive[fd'.of].size - 1
    BY <1>2, TarFSAssumption
  <2>2. 0 \notin archive[fd'.of].nul
    BY <2>1
  <2>3. text' = IsText(fd.of)'
    BY Zenon, <1>5 DEF Open, IsText
  <2> QED
    BY <2>2, <2>3
<1>7. Positioned'
  BY <1>2, <1>3, <1>5, <1>6 DEF Positioned, Open
<1>8. QED
  BY <1>4, <1>7 DEF Inv, StaysInFile, SkipsNothing, Open

\* A read of a file that stays open: the reader gets all that was copied to the
\* buffer, or the string in it.
LEMMA ReadInv ==
    ASSUME Inv, fd.size # 0, fd # Closed, NEW n \in Nat \ {0}, NEW c,
           c \in {BytesToRead(n), Length(BytesToRead(n))}, ReadFile(n), Gets(c),
           UNCHANGED <<fsVars, phase, fd, whole>>
    PROVE  Inv'
<1> DEFINE b == BytesToRead(n)
           len == Length(b)
<1>1. /\ b \in Nat /\ 0 < b /\ bytesdone + b <= fd.size
  BY BytesToReadFacts
<1>2. len \in 1 .. b /\ bytesdone + (len - 1) \notin archive[fd.of].nul
  <2> HIDE DEF b
  <2> QED
    BY <1>1, LengthFacts
<1>3. bytesdone' = bytesdone + (len - 1)
  BY DEF ReadFile, Advanced
<1> HIDE DEF b, len
<1>4. c \in Nat /\ len <= c /\ 0 < c /\ bytesdone + c <= fd.size
  <2>1. c = b \/ c = len
    BY DEF b, len
  <2> QED
    BY <1>1, <1>2, <2>1 DEF Inv, Positioned, TableTyped
<1>4a. ~(bytesdone > reached) /\ ~(bytesdone < 0) /\ ~(bytesdone + c > fd.size)
  BY <1>4 DEF Inv, Positioned, TableTyped
<1>5. reached' = bytesdone + c /\ size' = size /\ text' = text
  BY <1>4 DEF Gets
<1>6. (skipped' => skipped) /\ (strayed' => strayed)
  BY <1>4a, Zenon DEF Gets
<1>7. TableTyped'
  BY DEF Inv, TableTyped, fsVars
<1>8. Positioned'
  <2>1. bytesdone' \in Nat /\ bytesdone' <= reached' /\ bytesdone' < size /\ size # 0
    BY <1>1, <1>2, <1>3, <1>4, <1>5 DEF Inv, Positioned, TableTyped
  <2>2. bytesdone' \notin archive[fd.of].nul /\ archive' = archive
    BY <1>2, <1>3 DEF fsVars
  <2> QED
    BY <1>4, <1>5, <2>1, <2>2 DEF Inv, Positioned, TableTyped, IsText
<1>9. StaysInFile' /\ SkipsNothing'
  BY <1>4, <1>5, <1>6 DEF Inv, Positioned, StaysInFile, SkipsNothing
<1>10. QED
  BY <1>7, <1>8, <1>9 DEF Inv

\* Closing, by a program or at the end of cat
LEMMA CloseTyped ==
    ASSUME Inv, Close, UNCHANGED fsVars
    PROVE  TableTyped' /\ fd' = Closed /\ bytesdone' = 0
BY DEF Inv, TableTyped, Close, fsVars, Closed

\* The last turn of cat's loop
LEMMA CatLastInv == ASSUME Inv, CatLast PROVE Inv'
<1> DEFINE b == BytesToRead(Chunk)
           c == Length(b)
<1>1. fd # Closed /\ fd.size # 0 /\ size = fd.size /\ text = IsText(fd.of)
  BY DEF CatLast, Inv, Positioned
<1>2. b \in Nat /\ 0 < b /\ bytesdone + b = fd.size
  BY <1>1, BytesToReadFacts, TarFSAssumption DEF CatLast
<1>3. c \in 1 .. b /\ (IsText(fd.of) => c = b)
  <2> HIDE DEF b
  <2> QED
    BY <1>1, <1>2, LengthFacts
<1>3a. Gets(c)
  BY DEF CatLast
<1> HIDE DEF b, c
<1>4. ~(bytesdone > reached) /\ ~(bytesdone < 0) /\ ~(bytesdone + c > fd.size)
  BY <1>1, <1>2, <1>3 DEF Inv, Positioned, TableTyped
<1>5. /\ size' = size /\ text' = text /\ reached' = bytesdone + c
      /\ reached' \in Nat /\ (text => reached' = size)
  BY <1>1, <1>2, <1>3, <1>3a DEF Gets, Inv, Positioned
<1>6. (skipped' => skipped) /\ (strayed' => strayed)
  BY <1>3a, <1>4, Zenon DEF Gets
<1>7. TableTyped' /\ fd' = Closed /\ bytesdone' = 0
  BY CloseTyped DEF CatLast
<1>8. Positioned'
  BY <1>5, <1>7 DEF CatLast, Inv, Positioned
<1>9. StaysInFile' /\ SkipsNothing'
  BY <1>5, <1>6 DEF Inv, StaysInFile, SkipsNothing
<1>10. QED
  BY <1>7, <1>8, <1>9 DEF Inv

LEMMA CatEmptyInv == ASSUME Inv, CatEmpty PROVE Inv'
<1>1. fd # Closed /\ fd.size = 0 /\ size = 0 /\ reached = 0
  BY DEF CatEmpty, Inv, Positioned
<1>2. TableTyped' /\ fd' = Closed /\ bytesdone' = 0
  BY CloseTyped DEF CatEmpty
<1>3. Positioned'
  BY <1>1, <1>2 DEF CatEmpty, Inv, Positioned
<1>4. QED
  BY <1>1, <1>2, <1>3 DEF CatEmpty, Inv, StaysInFile, SkipsNothing

LEMMA UserCloseInv == ASSUME Inv, UserClose PROVE Inv'
<1>1. TableTyped' /\ fd' = Closed /\ bytesdone' = 0
  BY CloseTyped DEF UserClose
<1>2. Positioned'
  BY <1>1 DEF UserClose, Inv, Positioned, histVars
<1>3. QED
  BY <1>1, <1>2 DEF UserClose, Inv, StaysInFile, SkipsNothing, histVars

LEMMA InitEntryInv == ASSUME Inv, InitEntry PROVE Inv'
<1>1. PICK k \in 1 .. Len(archive) :
        tarfs_list' = Append(tarfs_list,
            [size |-> OctTodec(Atoi(OctalField(archive[k].size))),
             type |-> archive[k].type, addr |-> k])
  BY DEF InitEntry
<1>2. /\ archive \in Archives /\ k \in DOMAIN archive
      /\ archive[k].size \in Nat /\ archive[k].size < SizeLimit
  BY TarFSAssumption DEF Inv, TableTyped
<1>3. OctTodec(Atoi(OctalField(archive[k].size))) = archive[k].size
  BY <1>2, SizeReadBack
<1>4. TableTyped'
  BY <1>1, <1>2, <1>3 DEF InitEntry, Inv, TableTyped
<1>5. QED
  BY <1>4 DEF InitEntry, Inv, Positioned, StaysInFile, SkipsNothing, histVars

LEMMA NextInv == ASSUME Inv, [Next]_vars PROVE Inv'
<1>1. CASE InitEntry
  BY <1>1, InitEntryInv
<1>2. CASE InitDone
  BY <1>2 DEF InitDone, Inv, TableTyped, Positioned, StaysInFile, SkipsNothing,
              fsVars, histVars
<1>3. CASE UserOpen \/ CatOpen
  <2>1. MayOpen /\ UNCHANGED <<fsVars, bytesdone>> /\ phase' \in {"user", "cat"}
    BY <1>3 DEF UserOpen, CatOpen, MayOpen
  <2>2. PICK k \in DOMAIN tarfs_list : Open(k)
    BY <1>3 DEF UserOpen, CatOpen
  <2>3. QED
    BY <2>1, <2>2, OpenInv
<1>4. ASSUME NEW n \in ReadSizes, UserRead(n) PROVE Inv'
  <2>1. n \in Nat \ {0} /\ fd.size # 0 /\ fd # Closed
    BY <1>4, TarFSAssumption DEF UserRead, Closed
  <2>2. QED
    BY <1>4, <2>1, ReadInv DEF UserRead
<1>5. CASE CatMore
  <2>1. Chunk \in Nat \ {0} /\ fd.size # 0 /\ fd # Closed
    BY <1>5, TarFSAssumption DEF CatMore, Closed
  <2>2. BytesToRead(Chunk) = Chunk
    BY <1>5, <2>1, BytesToReadFacts DEF CatMore
  <2>3. Length(Chunk) \in {BytesToRead(Chunk), Length(BytesToRead(Chunk))}
    BY Zenon, <2>2
  <2>4. QED
    BY <1>5, <2>1, <2>3, ReadInv DEF CatMore
<1>6. CASE UNCHANGED vars
  BY <1>6 DEF vars, fsVars, histVars, Inv, TableTyped, Positioned, StaysInFile,
              SkipsNothing, IsText
<1>7. QED
  BY <1>1, <1>2, <1>3, <1>4, <1>5, <1>6, CatLastInv, CatEmptyInv, UserCloseInv
     DEF Next, Kernel, User

-----------------------------------------------------------------------------

\* Reading a file, by cat or by a program that keeps one file open at a time,
\* gives only bytes of that file, whether there are 0 bytes in it or not:
\* read_file's comparison of unsigned numbers, the length of a string it moves
\* the shared bytesdone by, never take it past either end.
THEOREM ReadsStayInFile == Spec => []StaysInFile
<1>1. Init => Inv
  BY InitInv
<1>2. Inv /\ [Next]_vars => Inv'
  BY NextInv
<1>3. Inv => StaysInFile
  BY DEF Inv
<1>4. QED
  BY <1>1, <1>2, <1>3, PTL DEF Spec

\* No byte is passed over, and cat of a text goes on to the end of the file.
THEOREM ReadsSkipNothing == Spec => []SkipsNothing
<1>1. Init => Inv
  BY InitInv
<1>2. Inv /\ [Next]_vars => Inv'
  BY NextInv
<1>3. Inv => SkipsNothing
  BY DEF Inv
<1>4. QED
  BY <1>1, <1>2, <1>3, PTL DEF Spec

-----------------------------------------------------------------------------
(* Types.  What Inv says of the position and the sizes is used here.         *)

\* The flags that the history keeps
Flags == {text, skipped, repeated, strayed, whole} \subseteq BOOLEAN

LEMMA FlagsKept == ASSUME Flags, [Next]_vars PROVE Flags'
<1>1. CASE InitEntry \/ InitDone \/ UserClose
  BY <1>1, Zenon DEF Flags, InitEntry, InitDone, UserClose, histVars
<1>2. ASSUME NEW k, Open(k) PROVE Flags'
  BY <1>2, Zenon DEF Flags, Open, IsText
<1>3. ASSUME NEW c, Gets(c), whole' \in BOOLEAN PROVE Flags'
  <2>1. /\ text' \in BOOLEAN /\ skipped' \in BOOLEAN /\ repeated' \in BOOLEAN
        /\ strayed' \in BOOLEAN
    BY <1>3, Zenon DEF Flags, Gets
  <2>2. QED
    BY <1>3, <2>1, Zenon DEF Flags
<1>4. ASSUME NEW n \in ReadSizes, UserRead(n) PROVE Flags'
  <2>1. Gets(BytesToRead(n)) /\ whole' \in BOOLEAN
    BY <1>4, Zenon DEF Flags, UserRead
  <2>2. QED
    BY <2>1, <1>3
<1>5. CASE CatMore \/ CatLast
  <2>1. whole' \in BOOLEAN
    BY <1>5, Zenon DEF Flags, CatMore, CatLast
  <2>2. \E c : Gets(c)
    BY <1>5, Zenon DEF CatMore, CatLast
  <2>3. QED
    BY <2>1, <2>2, <1>3
<1>6. CASE CatEmpty
  BY <1>6, Zenon DEF Flags, CatEmpty
<1>7. CASE UNCHANGED vars
  BY <1>7, Zenon DEF Flags, vars, histVars
<1>8. QED
  BY <1>1, <1>2, <1>4, <1>5, <1>6, <1>7 DEF Next, Kernel, User, UserOpen, CatOpen

LEMMA TypeKept == ASSUME Inv, TypeOK, [Next]_vars PROVE TypeOK'
<1> DEFINE Entry == [size : Nat, type : {"dir", "file"}, addr : DOMAIN archive]
           Descriptor == [of : DOMAIN archive \cup {0}, size : Nat]
<1>1. Inv' /\ archive' = archive
  BY Zenon, NextInv DEF Next, Kernel, User, InitEntry, InitDone, UserOpen, UserRead, UserClose,
     CatOpen, CatMore, CatLast, CatEmpty, fsVars, vars
<1>2. archive' \in Archives /\ bytesdone' \in Nat /\ size' \in Nat /\ reached' \in Nat
  BY <1>1 DEF Inv, TableTyped, Positioned
<1>3. Flags'
  BY FlagsKept DEF TypeOK, Flags
<1>4. phase' \in {"init", "user", "cat"}
  BY DEF TypeOK, Next, Kernel, User, InitEntry, InitDone, UserOpen, UserRead, UserClose,
     CatOpen, CatMore, CatLast, CatEmpty, vars
<1>5. fd' \in Descriptor
  <2>1. ASSUME NEW k \in DOMAIN tarfs_list, Open(k) PROVE fd' \in Descriptor
    BY <2>1 DEF Open, Inv, TableTyped
  <2>2. Closed \in Descriptor /\ fd \in Descriptor
    BY DEF Closed, TypeOK
  <2>3. fd' = fd \/ fd' = Closed \/ \E k \in DOMAIN tarfs_list : Open(k)
    BY DEF Next, Kernel, User, InitEntry, InitDone, UserOpen, UserRead, UserClose,
       CatOpen, CatMore, CatLast, CatEmpty, Close, vars
  <2>4. QED
    BY Zenon, <2>1, <2>2, <2>3
<1>6. tarfs_list' \in Seq(Entry) /\ temp_ptr' \in Nat
  <2>1. tarfs_list \in Seq(Entry) /\ temp_ptr \in Nat
    BY Zenon DEF TypeOK
  <2>2. CASE InitEntry
    <3>1. PICK k \in 1 .. Len(archive) :
            LET entry_size == OctTodec(Atoi(OctalField(archive[k].size))) IN
            /\ tarfs_list' = Append(tarfs_list,
                  [size |-> entry_size, type |-> archive[k].type, addr |-> k])
            /\ temp_ptr' = temp_ptr + Stride(entry_size)
      BY <2>2 DEF InitEntry
    <3>2. k \in DOMAIN archive /\ archive \in Archives
      BY TarFSAssumption DEF Inv, TableTyped
    <3>3. /\ archive[k].size \in Nat /\ archive[k].size < SizeLimit
          /\ archive[k].type \in {"dir", "file"}
      BY <3>2, TarFSAssumption
    <3>4. OctTodec(Atoi(OctalField(archive[k].size))) = archive[k].size
      BY <3>3, SizeReadBack
    <3>5. [size |-> archive[k].size, type |-> archive[k].type, addr |-> k] \in Entry
      BY <3>2, <3>3
    <3>6. Stride(archive[k].size) \in Nat
      BY Zenon, <3>3, StrideRoundsUp
    <3>7. QED
      BY <2>1, <3>1, <3>4, <3>5, <3>6
  <2>3. CASE ~InitEntry
    <3>1. UNCHANGED <<tarfs_list, temp_ptr>>
      BY <2>3 DEF Next, Kernel, User, InitDone, UserOpen, UserRead, UserClose,
         CatOpen, CatMore, CatLast, CatEmpty, fsVars, vars
    <3>2. QED
      BY <2>1, <3>1
  <2>4. QED
    BY <2>2, <2>3
<1>7. QED
  BY Zenon, <1>1, <1>2, <1>3, <1>4, <1>5, <1>6 DEF TypeOK, Flags

\* The table and the descriptor keep their types, and bytesdone, an int in the
\* code, never becomes negative.
THEOREM TypeCorrect == Spec => []TypeOK
<1>1. ASSUME Init PROVE Inv /\ TypeOK
  <2>1. archive \in Archives /\ fd \in [of : DOMAIN archive \cup {0}, size : Nat]
    BY <1>1 DEF Init, Closed
  <2>2. Flags
    BY <1>1, Zenon DEF Init, Flags
  <2>3. tarfs_list \in Seq([size : Nat, type : {"dir", "file"}, addr : DOMAIN archive])
    BY <1>1 DEF Init
  <2>4. /\ temp_ptr \in Nat /\ bytesdone \in Nat /\ size \in Nat /\ reached \in Nat
        /\ phase \in {"init", "user", "cat"}
    BY <1>1 DEF Init
  <2>5. TypeOK
    BY <2>1, <2>2, <2>3, <2>4, Zenon DEF TypeOK, Flags
  <2>6. QED
    BY <1>1, <2>5, InitInv
<1>2. Inv /\ TypeOK /\ [Next]_vars => Inv' /\ TypeOK'
  BY NextInv, TypeKept
<1>3. QED
  BY <1>1, <1>2, PTL DEF Spec

=============================================================================
