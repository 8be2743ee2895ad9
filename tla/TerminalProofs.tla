---------------------------- MODULE TerminalProofs ----------------------------
(***************************************************************************)
(* The safety properties of the line buffer, for any buffer size, number   *)
(* of keys and sizes of reads.                                             *)
(*                                                                         *)
(* Keys are numbered in the order they are pressed, so a stored character  *)
(* is new.  What has to be added to the properties is where a character    *)
(* may be at each place of the system call: Tracked says it for all users, *)
(* Edited for those who await the prompt, and Counted relates the flag     *)
(* new_line to the number of Enters.                                       *)
(***************************************************************************)
EXTENDS Terminal, TLAPS, WellFoundedInduction, FiniteSetTheorems, SequenceTheorems

Reading == {"measure", "copy", "clear", "rewind", "lower"}

\* Everything stored so far was pressed so far.
Pressed ==
    /\ \A s \in Slot : char_buf[s] <= keys /\ input[s] <= keys
    /\ \A g \in given : g <= keys

\* No character is in a buffer twice, or in char_buf after it was delivered.
Apart ==
    /\ \A s, t \in Slot : char_buf[s] = char_buf[t] /\ char_buf[s] # NUL => s = t
    /\ \A s, t \in Slot : input[s] = input[t] /\ input[s] # NUL => s = t
    /\ \A s \in Slot : char_buf[s] # NUL => char_buf[s] \notin given
    /\ ~At("user") => \A s \in Slot : input[s] # NUL => input[s] \notin given

\* It is in both buffers only between its copying and its clearing.
Moving ==
    /\ pc \in {"poll", "measure"} => \A s \in Slot : input[s] = NUL
    /\ At("copy") => \A s \in Slot : i <= s => input[s] = NUL
    /\ \A s, t \in Slot : input[s] = char_buf[t] /\ input[s] # NUL =>
        s = t /\ pc \in {"copy", "clear"} /\ (At("clear") => i <= t)

Tracked == Pressed /\ Apart /\ Moving

\* gets is only woken by new_line, which stays up until it returns.
Counted ==
    /\ enters \subseteq 1 .. keys /\ IsFiniteSet(enters)
    /\ returns + new_line <= Cardinality(enters)
    /\ limit = BufLen /\ pc \in Reading => new_line = 1

\* char_buf holds the edited line; Backspace may leave one character behind it.
Holds ==
    /\ Len(line) = buf_idx
    /\ \A s \in Slot : s < buf_idx => char_buf[s] = line[s + 1] /\ char_buf[s] # NUL
    /\ \A s \in Slot : buf_idx < s => char_buf[s] = NUL
    /\ new_line = 1 => char_buf[buf_idx] = NUL

Copied(n) ==
    \A s \in Slot : input[s] = IF s < n THEN line[s + 1] ELSE NUL

\* At a prompt that awaits a line
Edited ==
    /\ line \in Seq(Nat)
    /\ patient =>
        /\ limit = BufLen
        /\ pc \in {"poll", "measure", "copy"} => Holds
        /\ At("copy") => len = Len(line) /\ i <= len /\ Copied(i)
        /\ pc \in {"clear", "rewind", "lower", "user"} => Copied(Len(line))
        /\ At("clear") => \A s \in Slot : s < i => char_buf[s] = NUL
        /\ pc \in {"rewind", "lower", "user"} => \A s \in Slot : char_buf[s] = NUL
        /\ pc \in {"lower", "user"} => buf_idx = 0
        /\ At("user") => new_line = 0

Inv == TypeOK /\ Tracked /\ Counted /\ Edited /\ patient \in BOOLEAN

Step == Keyboard \/ Reader \/ \E size \in ReadSizes \cup {BufLen} : Call(size)

-----------------------------------------------------------------------------
(* Lemmas *)

\* A nonempty set of numbers has a least element.
LEMMA LeastExists ==
    ASSUME NEW S \in SUBSET Nat, S # {}
    PROVE  \E n \in S : \A m \in S : n <= m
  <1> DEFINE R == OpToRel(<, Nat)
  <1>1. IsWellFoundedOn(R, Nat)
    BY Zenon, NatLessThanWellFounded
  <1>2. \E n \in S : \A m \in S : <<m, n>> \notin R
    <2> HIDE DEF R
    <2> QED BY Zenon, <1>1, WFMin
  <1>3. \A m, n \in Nat : <<m, n>> \notin R => ~(m < n)
    BY DEF OpToRel
  <1>4. PICK n \in S : \A m \in S : <<m, n>> \notin R
    BY Zenon, <1>2
  <1>5. \A m \in S : ~(m < n)
    <2> HIDE DEF R
    <2> QED BY Zenon, <1>3, <1>4
  <1> QED BY <1>5

\* str_len finds the first 0, which there is, as the last slot holds one.
LEMMA StrLenFindsEnd ==
    ASSUME TypeOK
    PROVE  /\ StrLen(char_buf) \in Slot
           /\ char_buf[StrLen(char_buf)] = NUL
           /\ \A m \in Slot : m < StrLen(char_buf) => char_buf[m] # NUL
<1> DEFINE Ends == {n \in Slot : char_buf[n] = NUL}
<1>1. Ends \in SUBSET Nat /\ BufLen - 1 \in Ends
  BY TerminalAssumption DEF TypeOK, Slot
<1>2. PICK n \in Ends : \A m \in Ends : n <= m
  BY Zenon, <1>1, LeastExists
<1>3. n \in Slot /\ char_buf[n] = NUL /\ \A m \in Slot : m < n => char_buf[m] # NUL
  BY <1>2, TerminalAssumption DEF Slot
<1> QED
  BY <1>3 DEF StrLen

\* What Backspace leaves of a line
LEMMA Shortened ==
    ASSUME NEW q \in Seq(Nat)
    PROVE  /\ SubSeq(q, 1, Len(q) - 1) \in Seq(Nat)
           /\ Len(q) > 0 => Len(SubSeq(q, 1, Len(q) - 1)) = Len(q) - 1
           /\ Len(q) = 0 => SubSeq(q, 1, Len(q) - 1) = <<>>
<1>1. Len(q) \in Nat /\ \A n \in 1 .. Len(q) - 1 : q[n] \in Nat
  OBVIOUS
<1>2. SubSeq(q, 1, Len(q) - 1) \in Seq(Nat)
  BY <1>1, SubSeqProperties
<1>3. Len(SubSeq(q, 1, Len(q) - 1)) = IF 1 <= Len(q) - 1 THEN Len(q) - 1 ELSE 0
  BY <1>1, SubSeqProperties
<1>4. Len(q) > 0 => Len(SubSeq(q, 1, Len(q) - 1)) = Len(q) - 1
  <2> DEFINE l == Len(q)
             r == Len(SubSeq(q, 1, Len(q) - 1))
  <2>1. l \in Nat /\ r = IF 1 <= l - 1 THEN l - 1 ELSE 0
    BY <1>1, <1>3
  <2> HIDE DEF l, r
  <2>2. l > 0 => r = l - 1
    BY <2>1
  <2> QED
    BY <2>2 DEF l, r
<1>5. Len(q) = 0 => SubSeq(q, 1, Len(q) - 1) = <<>>
  BY <1>1, SubSeqEmpty
<1> QED
  BY <1>2, <1>4, <1>5

LEMMA InitInv == Init => Inv
<1> SUFFICES ASSUME Init PROVE Inv
  OBVIOUS
<1>1. TypeOK
  BY TerminalAssumption DEF Init, TypeOK, Slot, NUL
<1>2. Tracked
  BY DEF Init, Tracked, Pressed, Apart, Moving, Slot, NUL, At
<1>3. Counted
  BY FS_EmptySet DEF Init, Counted, Reading
<1>4. Edited
  BY DEF Init, Edited, Copied, Slot, NUL, At
<1> QED
  BY <1>1, <1>2, <1>3, <1>4 DEF Inv, Init

\* The index stays in the buffer, and the buffer terminated.
LEMMA TypeKept ==
    ASSUME Inv, Step, UNCHANGED patient
    PROVE  TypeOK'
<1> USE TerminalAssumption DEF Inv, TypeOK, Slot, NUL
<1>0. ASSUME NEW c \in 0 .. MaxKeys, MayType, Store(c)
      PROVE  /\ char_buf' \in [Slot -> 0 .. MaxKeys] /\ char_buf'[BufLen - 1] = NUL
             /\ buf_idx' \in Slot
  <2>1. buf_idx \in Slot /\ buf_idx + 1 \in Slot /\ buf_idx # BufLen - 1 /\ BufLen - 1 \in Slot
    BY <1>0 DEF MayType
  <2>2. char_buf' = [char_buf EXCEPT ![buf_idx] = c] /\ buf_idx' = buf_idx + 1
    BY <1>0 DEF Store
  <2>3. char_buf \in [Slot -> 0 .. MaxKeys] /\ char_buf[BufLen - 1] = NUL
    OBVIOUS
  <2> HIDE DEF Inv, TypeOK, Slot, NUL
  <2> QED
    BY <1>0, <2>1, <2>2, <2>3
<1>1. CASE KeyChar
  <2>1. keys + 1 \in 0 .. MaxKeys /\ Store(keys + 1) /\ MayType
    BY <1>1 DEF KeyChar, MayType, Store
  <2>2. keys' = keys + 1 /\ UNCHANGED <<new_line, callVars, enters, given, returns>>
    BY <1>1 DEF KeyChar
  <2> HIDE DEF Slot, NUL
  <2> QED
    BY <1>0, <2>1, <2>2 DEF callVars
<1>2. CASE KeyDead
  <2>1. keys + 1 \in 0 .. MaxKeys /\ NUL \in 0 .. MaxKeys /\ Store(NUL) /\ MayType
    BY <1>2 DEF KeyDead, MayType, Store
  <2>2. keys' = keys + 1 /\ UNCHANGED <<new_line, callVars, enters, given, returns>>
    BY <1>2 DEF KeyDead
  <2> HIDE DEF Slot, NUL
  <2> QED
    BY <1>0, <2>1, <2>2 DEF callVars
<1>3. CASE KeyEnter
  <2>1. keys + 1 \in 1 .. MaxKeys /\ Store(keys + 1) /\ MayType
    BY <1>3 DEF KeyEnter, MayType, Store
  <2>2. /\ keys' = keys + 1 /\ new_line' = 1 /\ enters' = enters \cup {keys + 1}
        /\ UNCHANGED <<callVars, given, returns>>
    BY <1>3 DEF KeyEnter
  <2> HIDE DEF Slot, NUL
  <2> QED
    BY <1>0, <2>1, <2>2 DEF callVars
<1>4. CASE KeyBackspace
  <2>1. CASE buf_idx > 0
    <3>1. buf_idx \in Slot /\ NUL \in 0 .. MaxKeys /\ buf_idx - 1 \in Slot
      BY <2>1
    <3>2. char_buf' = [char_buf EXCEPT ![buf_idx] = NUL] /\ buf_idx' = buf_idx - 1
      BY Zenon, <1>4, <2>1 DEF KeyBackspace
    <3>3. char_buf' \in [Slot -> 0 .. MaxKeys] /\ char_buf'[BufLen - 1] = NUL
      BY <3>1, <3>2
    <3> QED
      BY <1>4, <3>1, <3>2, <3>3 DEF KeyBackspace, MayType, callVars
  <2>2. CASE ~(buf_idx > 0)
    BY <1>4, <2>2 DEF KeyBackspace, MayType, callVars
  <2> QED
    BY Zenon, <2>1, <2>2
<1>5. CASE Poll
  BY Zenon, <1>5 DEF Poll, isrVars, histVars, At
<1>6. CASE Measure
  BY <1>6, StrLenFindsEnd DEF Measure, isrVars, histVars, At
<1>7. CASE Copy
  <2>1. CASE i < len
    <3>1. i \in Slot /\ char_buf[i] \in 0 .. MaxKeys
      BY <2>1
    <3>2. input' = [input EXCEPT ![i] = char_buf[i]]
      BY <1>7, <2>1 DEF Copy
    <3>3. input' \in [Slot -> 0 .. MaxKeys]
      BY <3>1, <3>2
    <3> QED
      BY <1>7, <2>1, <3>1, <3>3 DEF Copy, isrVars, histVars, At
  <2>2. CASE ~(i < len)
    BY <1>7, <2>2 DEF Copy, isrVars, histVars, At
  <2> QED
    BY Zenon, <2>1, <2>2
<1>8. CASE Clear
  <2>1. CASE i < BufLen
    <3>1. i \in Slot /\ NUL \in 0 .. MaxKeys
      BY <2>1
    <3>2. char_buf' = [char_buf EXCEPT ![i] = NUL]
      BY <1>8, <2>1 DEF Clear
    <3>3. char_buf' \in [Slot -> 0 .. MaxKeys] /\ char_buf'[BufLen - 1] = NUL
      BY <3>1, <3>2
    <3> QED
      BY <1>8, <2>1, <3>1, <3>3 DEF Clear, histVars, At
  <2>2. CASE ~(i < BufLen)
    BY <1>8, <2>2 DEF Clear, histVars, At
  <2> QED
    BY Zenon, <2>1, <2>2
<1>9. CASE Rewind
  BY <1>9 DEF Rewind, histVars, At
<1>10. CASE Lower
  BY <1>10 DEF Lower, At
<1>11. ASSUME NEW size \in ReadSizes \cup {BufLen}, Call(size) PROVE TypeOK'
  <2>1. Contents(input) \subseteq 1 .. MaxKeys
    BY DEF Contents
  <2>2. given' \subseteq 1 .. MaxKeys
    BY Zenon, <1>11, <2>1 DEF Call
  <2>3. size \in 1 .. BufLen
    BY <1>11
  <2>4. input' \in [Slot -> 0 .. MaxKeys]
    BY <1>11 DEF Call
  <2> QED
    BY Zenon, <1>11, <2>2, <2>3, <2>4 DEF Call, isrVars, At
<1> QED
  BY Zenon, <1>1, <1>2, <1>3, <1>4, <1>5, <1>6, <1>7, <1>8, <1>9, <1>10, <1>11 DEF Step, Keyboard, Reader

\* A character that is stored is nowhere yet.
LEMMA StoreKeepsTracked ==
    ASSUME Inv, keys' = keys + 1, UNCHANGED <<pc, i, input, given>>,
           NEW n \in Slot, NEW c \in {NUL, keys + 1},
           \A s \in Slot : char_buf'[s] = IF s = n THEN c ELSE char_buf[s]
    PROVE  Tracked'
<1> DEFINE New == keys + 1
<1>1. \A s \in Slot : char_buf[s] # New /\ input[s] # New
  BY DEF Inv, TypeOK, Tracked, Pressed
<1>2. New \notin given /\ New # NUL
  BY DEF Inv, TypeOK, Tracked, Pressed, NUL
<1>3. Pressed'
  BY DEF Inv, TypeOK, Tracked, Pressed, NUL
<1> HIDE DEF New
<1>4. c = NUL \/ c = New
  BY DEF New
<1>5. Apart'
  BY <1>1, <1>2, <1>4 DEF Inv, Tracked, Apart, At
<1>6. Moving'
  BY Zenon, <1>1, <1>2, <1>4 DEF Inv, Tracked, Moving, At
<1> QED
  BY <1>3, <1>5, <1>6 DEF Tracked

\* A character that is stored is new, and one that is copied is cleared.
LEMMA TrackedKept ==
    ASSUME Inv, Step, UNCHANGED patient
    PROVE  Tracked'
<1> USE TerminalAssumption DEF Inv, TypeOK, Tracked, Pressed, Apart, Moving, Slot, NUL, At
<1>1. CASE KeyChar
  <2>1. \A s \in Slot : char_buf'[s] = IF s = buf_idx THEN keys + 1 ELSE char_buf[s]
    BY <1>1 DEF KeyChar, MayType, Store
  <2>2. keys' = keys + 1 /\ UNCHANGED <<pc, i, input, given>>
    BY <1>1 DEF KeyChar, callVars
  <2> HIDE DEF Inv, Tracked, Slot, NUL
  <2>3. buf_idx \in Slot
    BY DEF Inv
  <2> QED
    BY Zenon, <2>1, <2>2, <2>3, StoreKeepsTracked
<1>2. CASE KeyDead
  <2>1. \A s \in Slot : char_buf'[s] = IF s = buf_idx THEN NUL ELSE char_buf[s]
    BY <1>2 DEF KeyDead, MayType, Store
  <2>2. keys' = keys + 1 /\ UNCHANGED <<pc, i, input, given>>
    BY Zenon, <1>2 DEF KeyDead, callVars
  <2> HIDE DEF Inv, Tracked, Slot, NUL
  <2>3. buf_idx \in Slot
    BY DEF Inv
  <2> QED
    BY Zenon, <2>1, <2>2, <2>3, StoreKeepsTracked
<1>3. CASE KeyEnter
  <2>1. \A s \in Slot : char_buf'[s] = IF s = buf_idx THEN keys + 1 ELSE char_buf[s]
    BY <1>3 DEF KeyEnter, MayType, Store
  <2>2. keys' = keys + 1 /\ UNCHANGED <<pc, i, input, given>>
    BY Zenon, <1>3 DEF KeyEnter, callVars
  <2> HIDE DEF Inv, Tracked, Slot, NUL
  <2>3. buf_idx \in Slot
    BY DEF Inv
  <2> QED
    BY <2>1, <2>2, <2>3, StoreKeepsTracked
<1>4. CASE KeyBackspace
  <2>1. CASE buf_idx > 0
    <3>1. \A s \in Slot : char_buf'[s] = IF s = buf_idx THEN NUL ELSE char_buf[s]
      BY Zenon, <1>4, <2>1 DEF KeyBackspace
    <3>2. keys' = keys + 1 /\ UNCHANGED <<pc, i, input, given>>
      BY <1>4 DEF KeyBackspace, callVars
    <3> HIDE DEF Inv, Tracked, Slot, NUL
    <3>3. buf_idx \in Slot
      BY DEF Inv
    <3> QED
      BY <3>1, <3>2, <3>3, StoreKeepsTracked
  <2>2. CASE ~(buf_idx > 0)
    BY <1>4, <2>2 DEF KeyBackspace, MayType, callVars
  <2> QED
    BY Zenon, <2>1, <2>2
<1>5. CASE Poll
  BY Zenon, <1>5 DEF Poll, isrVars, histVars, At
<1>6. CASE Measure
  BY Zenon, <1>6, StrLenFindsEnd DEF Measure, isrVars, histVars, At
<1>7. CASE Copy
  <2>1. CASE i < len
    <3>1. i \in Slot /\ \A s \in Slot : input'[s] = IF s = i THEN char_buf[s] ELSE input[s]
      BY <1>7, <2>1 DEF Copy
    <3>2. pc = "copy" /\ i' = i + 1 /\ UNCHANGED <<char_buf, pc, keys, given>>
      BY Zenon, <1>7, <2>1 DEF Copy, isrVars, histVars
    <3>3. Pressed /\ Apart /\ Moving /\ \A s \in Slot : s \in Int
      OBVIOUS
    <3> HIDE DEF Inv, TypeOK, Tracked, Pressed, Apart, Moving, Slot, NUL
    <3>4. Pressed'
      BY Zenon, <3>1, <3>2, <3>3 DEF Pressed
    <3>5. Apart'
      <4>1. \A s, t \in Slot : input'[s] = input'[t] /\ input'[s] # NUL => s = t
        BY <3>1, <3>2, <3>3 DEF Apart, Moving
      <4>2. \A s \in Slot : input'[s] # NUL => input'[s] \notin given
        BY Zenon, <3>1, <3>2, <3>3 DEF Apart
      <4> QED
        BY Zenon, <3>2, <3>3, <4>1, <4>2 DEF Apart
    <3>6. Moving'
      <4>1. \A s \in Slot : i + 1 <= s => input'[s] = NUL
        BY <3>1, <3>2, <3>3 DEF Moving
      <4>2. \A s, t \in Slot : input'[s] = char_buf[t] /\ input'[s] # NUL => s = t
        BY Zenon, <3>1, <3>3 DEF Apart, Moving
      <4> QED
        BY <3>2, <4>1, <4>2 DEF Moving
    <3> QED
      BY Zenon, <3>4, <3>5, <3>6 DEF Tracked
  <2>2. CASE ~(i < len)
    BY <1>7, <2>2 DEF Copy, isrVars, histVars, At
  <2> QED
    BY <2>1, <2>2
<1>8. CASE Clear
  <2>1. CASE i < BufLen
    <3>1. i \in Slot /\ \A s \in Slot : char_buf'[s] = IF s = i THEN NUL ELSE char_buf[s]
      BY <1>8, <2>1 DEF Clear
    <3>2. pc = "clear" /\ i' = i + 1 /\ UNCHANGED <<input, pc, keys, given>>
      BY Zenon, <1>8, <2>1 DEF Clear, histVars
    <3>3. Pressed'
      BY <3>1, <3>2
    <3>4. Apart'
      BY Zenon, <3>1, <3>2
    <3>5. Moving'
      BY <3>1, <3>2
    <3> QED
      BY Zenon, <3>3, <3>4, <3>5
  <2>2. CASE ~(i < BufLen)
    BY <1>8, <2>2 DEF Clear, histVars, At
  <2> QED
    BY Zenon, <2>1, <2>2
<1>9. CASE Rewind
  BY Zenon, <1>9 DEF Rewind, histVars, At
<1>10. CASE Lower
  BY <1>10 DEF Lower, At
<1>11. ASSUME NEW size \in ReadSizes \cup {BufLen}, Call(size) PROVE Tracked'
  BY <1>11 DEF Call, isrVars, Contents, At
<1> QED
  BY Zenon, <1>1, <1>2, <1>3, <1>4, <1>5, <1>6, <1>7, <1>8, <1>9, <1>10, <1>11 DEF Step, Keyboard, Reader

\* Each return of gets uses up an Enter.
LEMMA CountedKept ==
    ASSUME Inv, Step, UNCHANGED patient
    PROVE  Counted'
<1> USE TerminalAssumption DEF Inv, TypeOK, Counted, Reading, Slot, At
<1>1. CASE KeyChar
  BY <1>1 DEF KeyChar, MayType, Store, callVars
<1>2. CASE KeyDead
  BY <1>2 DEF KeyDead, MayType, Store, callVars
<1>3. CASE KeyEnter
  <2>1. enters' = enters \cup {keys + 1} /\ keys + 1 \notin enters /\ new_line' = 1
    BY <1>3 DEF KeyEnter
  <2>2. IsFiniteSet(enters') /\ Cardinality(enters') = Cardinality(enters) + 1
    BY <2>1, FS_AddElement
  <2>3. Cardinality(enters) \in Nat
    BY FS_CardinalityType
  <2>4. keys' = keys + 1 /\ UNCHANGED returns
    BY <1>3 DEF KeyEnter
  <2>5. enters' \subseteq 1 .. keys'
    BY <2>1, <2>4
  <2>6. returns' + new_line' <= Cardinality(enters')
    BY <2>1, <2>2, <2>3, <2>4
  <2> QED
    BY Zenon, <2>1, <2>2, <2>5, <2>6
<1>4. CASE KeyBackspace
  BY <1>4 DEF KeyBackspace, MayType, callVars
<1>5. CASE Poll
  BY <1>5 DEF Poll, isrVars, histVars, At
<1>6. CASE Measure
  BY <1>6 DEF Measure, isrVars, histVars, At
<1>7. CASE Copy
  BY <1>7 DEF Copy, isrVars, histVars, At
<1>8. CASE Clear
  BY <1>8 DEF Clear, histVars, At
<1>9. CASE Rewind
  BY <1>9 DEF Rewind, histVars, At
<1>10. CASE Lower
  <2>1. Cardinality(enters) \in Nat
    BY FS_CardinalityType
  <2> QED
    BY <1>10, <2>1 DEF Lower
<1>11. ASSUME NEW size \in ReadSizes \cup {BufLen}, Call(size) PROVE Counted'
  BY Zenon, <1>11 DEF Call, isrVars, Contents, At
<1> QED
  BY <1>1, <1>2, <1>3, <1>4, <1>5, <1>6, <1>7, <1>8, <1>9, <1>10, <1>11 DEF Step, Keyboard, Reader

\* A stored character extends the line.
LEMMA StoreKeepsEdited ==
    ASSUME Inv, MayType, Store(keys + 1), line' = Append(line, keys + 1),
           UNCHANGED <<callVars, patient>>
    PROVE  Edited'
<1> USE TerminalAssumption DEF Inv, Slot
<1>1. line \in Seq(Nat) /\ keys + 1 \in Nat \ {0} /\ buf_idx \in Slot /\ buf_idx + 1 \in Slot
  BY DEF TypeOK, Edited, MayType
<1>2. line' \in Seq(Nat) /\ Len(line') = Len(line) + 1
  BY <1>1
<1>3. \A s \in 1 .. Len(line) + 1 : line'[s] = IF s = Len(line) + 1 THEN keys + 1 ELSE line[s]
  BY <1>1
<1>4. CASE patient
  <2>1. pc = "poll" /\ pc' = "poll" /\ limit' = BufLen /\ Holds
    BY <1>4 DEF MayType, Edited, callVars
  <2>2. \A s \in Slot : char_buf'[s] = IF s = buf_idx THEN keys + 1 ELSE char_buf[s]
    BY DEF Store, TypeOK
  <2>3. buf_idx' = buf_idx + 1
    BY DEF Store
  <2>4. Len(line) = buf_idx /\ Len(line') = buf_idx'
    BY Zenon, <1>2, <2>1, <2>3 DEF Holds
  <2>5. ASSUME NEW s \in Slot, s < buf_idx' PROVE char_buf'[s] = line'[s + 1] /\ char_buf'[s] # NUL
    <3>1. s = buf_idx \/ s < buf_idx
      BY <1>1, <2>3, <2>5
    <3>2. s + 1 \in 1 .. Len(line) + 1 /\ (s = buf_idx <=> s + 1 = Len(line) + 1)
      BY <1>1, <2>4, <3>1
    <3> QED
      BY Zenon, <1>1, <1>3, <2>1, <2>2, <3>1, <3>2 DEF Holds, NUL
  <2>6. \A s \in Slot : buf_idx' <= s => char_buf'[s] = NUL
    BY <1>1, <2>1, <2>2, <2>3 DEF Holds, NUL
  <2>7. Holds'
    BY <1>1, <2>3, <2>4, <2>5, <2>6 DEF Holds
  <2> QED
    BY <1>2, <2>1, <2>7 DEF Edited, At
<1>5. CASE ~patient
  BY ZenonT(30), <1>2, <1>5 DEF Edited
<1> QED
  BY <1>4, <1>5 DEF Edited

\* The buffer and the program's input follow the line as edited.
LEMMA EditedKept ==
    ASSUME Inv, Step, UNCHANGED patient
    PROVE  Edited'
<1> USE TerminalAssumption DEF Inv, TypeOK, Edited, Holds, Copied, Slot, NUL, At
<1>1. CASE KeyChar
  <2> HIDE DEF Inv, TypeOK, Edited, Holds, Copied, Slot
  <2>1. MayType /\ Store(keys + 1) /\ line' = Append(line, keys + 1) /\ UNCHANGED callVars
    BY Zenon, <1>1 DEF KeyChar, Store
  <2> QED
    BY <2>1, StoreKeepsEdited
<1>2. CASE KeyDead
  BY <1>2 DEF KeyDead, MayType, Store, callVars
<1>3. CASE KeyEnter
  <2> HIDE DEF Inv, TypeOK, Edited, Holds, Copied, Slot
  <2>1. MayType /\ Store(keys + 1) /\ line' = Append(line, keys + 1) /\ UNCHANGED callVars
    BY Zenon, <1>3 DEF KeyEnter, Store
  <2> QED
    BY <2>1, StoreKeepsEdited
<1>4. CASE KeyBackspace
  <2>1. /\ line' \in Seq(Nat)
        /\ Len(line) > 0 => Len(line') = Len(line) - 1
        /\ Len(line) = 0 => line' = <<>>
    BY Zenon, <1>4, Shortened DEF KeyBackspace
  <2>2. \A s \in 1 .. Len(line) - 1 : line'[s] = line[s]
    BY <1>4 DEF KeyBackspace
  <2>3. CASE patient
    <3>1. pc = "poll" /\ pc' = "poll" /\ limit' = BufLen /\ Holds /\ new_line' = 0
      BY Zenon, <1>4, <2>3 DEF KeyBackspace, MayType, callVars
    <3>2. CASE buf_idx > 0
      <4>1. \A s \in Slot : char_buf'[s] = IF s = buf_idx THEN NUL ELSE char_buf[s]
        BY Zenon, <1>4, <3>2 DEF KeyBackspace
      <4>2. buf_idx' = buf_idx - 1
        BY <1>4, <3>2 DEF KeyBackspace
      <4>3. Len(line) = buf_idx /\ Len(line') = buf_idx'
        BY <2>1, <3>1, <3>2, <4>2
      <4>4. \A s \in Slot : s < buf_idx' =>
                s + 1 \in 1 .. Len(line) - 1 /\ s < buf_idx /\ s # buf_idx
        BY <3>2, <4>2, <4>3
      <4>5. \A s \in Slot : s < buf_idx' => char_buf'[s] = line'[s + 1] /\ char_buf'[s] # NUL
        BY Zenon, <2>2, <3>1, <4>1, <4>4
      <4>6. \A s \in Slot : buf_idx' < s => char_buf'[s] = NUL
        BY SMTT(30), <3>1, <3>2, <4>1, <4>2
      <4>7. Holds'
        BY <3>1, <4>3, <4>5, <4>6
      <4> QED
        BY Zenon, <2>1, <3>1, <4>7
    <3>3. CASE buf_idx = 0
      <4>1. Holds'
        BY <1>4, <2>1, <3>1, <3>3 DEF KeyBackspace
      <4> QED
        BY <2>1, <3>1, <4>1
    <3>4. buf_idx \in Nat
      OBVIOUS
    <3> HIDE DEF Inv, TypeOK, Edited
    <3> QED
      BY <3>2, <3>3, <3>4
  <2>4. CASE ~patient
    BY Zenon, <2>1, <2>4
  <2> QED
    BY Zenon, <2>3, <2>4
<1>5. CASE Poll
  BY Zenon, <1>5 DEF Poll, isrVars, histVars, At
<1>6. CASE Measure
  <2>1. i' = 0 /\ pc = "measure" /\ pc' = "copy" /\ len' = StrLen(char_buf)
    BY Zenon, <1>6 DEF Measure
  <2>2. UNCHANGED <<char_buf, buf_idx, new_line, limit, input, line>>
    BY Zenon, <1>6 DEF Measure, isrVars, histVars
  <2>3. CASE patient
    <3>1. Holds /\ new_line = 1
      BY Zenon, <2>1, <2>3 DEF Counted, Reading
    <3>2. len' = Len(line)
      BY <2>1, <3>1, StrLenFindsEnd
    <3>3. Copied(0)
      BY <2>1 DEF Tracked, Moving
    <3>4. Holds' /\ Copied(i)' /\ Len(line) \in Nat /\ line \in Seq(Nat) /\ limit = BufLen
      BY <2>1, <2>2, <2>3, <3>1, <3>3
    <3> HIDE DEF Inv, TypeOK, Holds, Copied, Slot
    <3> QED
      BY <2>1, <2>2, <2>3, <3>2, <3>4
  <2>4. CASE ~patient
    BY Zenon, <2>2, <2>4
  <2> QED
    BY <2>3, <2>4
<1>7. CASE Copy
  <2>1. UNCHANGED <<char_buf, buf_idx, new_line, limit, len, line>> /\ pc = "copy"
    BY <1>7 DEF Copy, isrVars, histVars
  <2>2. CASE patient /\ i < len
    <3>1. i \in Slot /\ input' = [input EXCEPT ![i] = char_buf[i]]
      BY <1>7, <2>2 DEF Copy
    <3>2. i' = i + 1 /\ pc' = "copy"
      BY Zenon, <1>7, <2>2 DEF Copy
    <3>3. Holds' /\ Holds /\ len = Len(line) /\ Copied(i)
      BY Zenon, <2>1, <2>2
    <3>4. \A s \in Slot : input'[s] = IF s = i THEN char_buf[i] ELSE input[s]
      BY Zenon, <3>1
    <3>5. char_buf[i] = line[i + 1]
      BY Zenon, <2>2, <3>1, <3>3
    <3>6. \A s \in Slot : input'[s] = IF s < i + 1 THEN line[s + 1] ELSE NUL
      <4>1. i \in Int /\ \A s \in Slot : s \in Int /\ (s < i + 1 <=> s = i \/ s < i)
        BY <3>1
      <4> HIDE DEF Inv, TypeOK, Edited, Holds, Slot, NUL
      <4> QED
        BY Zenon, <3>3, <3>4, <3>5, <4>1
    <3>7. Copied(i)'
      BY Zenon, <2>1, <3>2, <3>6
    <3>8. i' <= len' /\ len' = Len(line') /\ line \in Seq(Nat) /\ limit = BufLen
      BY <2>1, <2>2, <3>2, <3>3
    <3> HIDE DEF Inv, TypeOK, Holds, Copied, Slot
    <3> QED
      BY Zenon, <2>1, <2>2, <3>2, <3>3, <3>7, <3>8
  <2>3. CASE patient /\ ~(i < len)
    <3>1. pc' = "clear" /\ i' = 0 /\ UNCHANGED input
      BY <1>7, <2>3 DEF Copy
    <3>2. Copied(Len(line))'
      <4>1. Copied(i) /\ i = Len(line)
        BY <2>1, <2>3
      <4> HIDE DEF Inv, TypeOK, Edited, Slot
      <4> QED
        BY Zenon, <2>1, <3>1, <4>1
    <3>3. \A s \in Slot : ~(s < 0)
      OBVIOUS
    <3>4. line \in Seq(Nat) /\ limit = BufLen
      BY Zenon, <2>3
    <3> HIDE DEF Inv, TypeOK, Holds, Copied, Slot
    <3> QED
      BY Zenon, <2>1, <2>3, <3>1, <3>2, <3>3, <3>4
  <2>4. CASE ~patient
    BY Zenon, <2>1, <2>4
  <2> QED
    BY Zenon, <2>2, <2>3, <2>4
<1>8. CASE Clear
  <2>1. UNCHANGED <<buf_idx, new_line, limit, len, input, line>> /\ pc = "clear"
    BY <1>8 DEF Clear, histVars
  <2>2. CASE patient /\ i < BufLen
    <3>1. i \in Slot /\ \A s \in Slot : char_buf'[s] = IF s = i THEN NUL ELSE char_buf[s]
      BY <1>8, <2>2 DEF Clear
    <3>2. i' = i + 1 /\ pc' = "clear" /\ Copied(Len(line))'
      BY Zenon, <1>8, <2>1, <2>2 DEF Clear
    <3>3. \A s \in Slot : s < i' => char_buf'[s] = NUL
      <4>1. \A s \in Slot : s < i => char_buf[s] = NUL
        BY Zenon, <2>1, <2>2
      <4>2. i \in Int /\ \A s \in Slot : s \in Int /\ (s < i + 1 <=> s = i \/ s < i)
        BY <3>1
      <4> HIDE DEF Inv, TypeOK, Edited, Slot, NUL
      <4> QED
        BY Zenon, <3>1, <3>2, <4>1, <4>2
    <3>4. line \in Seq(Nat) /\ limit = BufLen
      BY Zenon, <2>2
    <3> HIDE DEF Inv, TypeOK, Holds, Copied, Slot
    <3> QED
      BY Zenon, <2>1, <2>2, <3>2, <3>3, <3>4
  <2>3. CASE patient /\ ~(i < BufLen)
    <3>1. pc' = "rewind" /\ UNCHANGED <<char_buf, i>>
      BY <1>8, <2>3 DEF Clear
    <3>2. \A s \in Slot : char_buf'[s] = NUL
      <4>1. \A s \in Slot : s < i => char_buf[s] = NUL
        BY Zenon, <2>1, <2>3
      <4>2. \A s \in Slot : s < i
        BY <2>3
      <4> HIDE DEF Inv, TypeOK, Edited, Slot, NUL
      <4> QED
        BY Zenon, <3>1, <4>1, <4>2
    <3>3. Copied(Len(line)) /\ line \in Seq(Nat) /\ limit = BufLen
      BY <2>1, <2>3
    <3>4. Copied(Len(line))'
      <4> HIDE DEF Inv, TypeOK, Edited, Slot
      <4> QED
        BY Zenon, <2>1, <3>3
    <3> HIDE DEF Inv, TypeOK, Holds, Copied, Slot
    <3> QED
      BY Zenon, <2>1, <2>3, <3>1, <3>2, <3>3, <3>4
  <2>4. CASE ~patient
    BY Zenon, <2>1, <2>4
  <2> QED
    BY Zenon, <2>2, <2>3, <2>4
<1>9. CASE Rewind
  BY Zenon, <1>9 DEF Rewind, histVars, At
<1>10. CASE Lower
  BY Zenon, <1>10 DEF Lower, At
<1>11. ASSUME NEW size \in ReadSizes \cup {BufLen}, Call(size) PROVE Edited'
  <2>1. pc = "user" /\ pc' = "poll" /\ line' = <<>> /\ (patient => limit' = BufLen)
    BY Zenon, <1>11 DEF Call
  <2>2. UNCHANGED <<char_buf, buf_idx, new_line>>
    BY <1>11 DEF Call, isrVars
  <2>3. CASE patient
    <3>1. buf_idx = 0 /\ new_line = 0 /\ \A s \in Slot : s \in Nat /\ char_buf[s] = NUL
      BY <2>1, <2>3
    <3>2. Len(<<>>) = 0 /\ <<>> \in Seq(Nat)
      OBVIOUS
    <3> HIDE DEF Inv, TypeOK, Edited, Copied, Slot, NUL
    <3>3. Holds'
      BY <2>1, <2>2, <3>1, <3>2
    <3> HIDE DEF Holds
    <3> QED
      BY Zenon, <2>1, <2>3, <3>2, <3>3 DEF Edited
  <2>4. CASE ~patient
    <3> HIDE DEF Inv, TypeOK, Holds, Copied, Slot, NUL
    <3> QED
      BY <2>1, <2>4
  <2> QED
    BY Zenon, <2>3, <2>4
<1> QED
  BY <1>1, <1>2, <1>3, <1>4, <1>5, <1>6, <1>7, <1>8, <1>9, <1>10, <1>11 DEF Step, Keyboard, Reader

LEMMA NextKeeps == ASSUME Inv, [Next]_vars PROVE Inv'
<1>1. CASE UNCHANGED vars
  <2>1. UNCHANGED <<char_buf, buf_idx, new_line, pc, limit, len, i, input, patient>>
    BY <1>1 DEF vars, isrVars, callVars
  <2>2. UNCHANGED <<keys, enters, line, given, returns>>
    BY Zenon, <1>1 DEF vars, histVars
  <2>3. TypeOK'
    BY Zenon, <2>1, <2>2 DEF Inv, TypeOK
  <2>4. Pressed' /\ Apart' /\ Moving'
    BY <2>1, <2>2 DEF Inv, Tracked, Pressed, Apart, Moving, At
  <2>5. Counted'
    BY Zenon, <2>1, <2>2 DEF Inv, Counted
  <2>6. Holds' = Holds /\ \A n : Copied(n)' = Copied(n)
    BY Zenon, <2>1, <2>2 DEF Holds, Copied
  <2>7. Edited'
    BY Zenon, <2>1, <2>2, <2>6 DEF Inv, Edited, At, Copied
  <2> QED
    BY Zenon, <2>1, <2>3, <2>4, <2>5, <2>7 DEF Inv, Tracked
<1>2. CASE Next
  <2>1. Step /\ UNCHANGED patient
    BY <1>2 DEF Next, Step
  <2> QED
    BY Zenon, <2>1, TypeKept, TrackedKept, CountedKept, EditedKept DEF Inv
<1> QED
  BY <1>1, <1>2

LEMMA AlwaysInv == Spec => []Inv
  BY InitInv, NextKeeps, PTL DEF Spec

-----------------------------------------------------------------------------
(* Theorems *)

\* The variables keep their types, for a user who does not overrun char_buf
\* (MayType).
THEOREM TypeCorrect == Spec => []TypeOK
<1>1. Inv => TypeOK
  BY Zenon DEF Inv
<1> QED
  BY <1>1, AlwaysInv, PTL

\* No character reaches a program twice, wherever the keyboard interrupts.
THEOREM CharactersDeliveredOnce == Spec => []DeliveredOnce
<1>1. Inv => DeliveredOnce
  BY Zenon DEF Inv, Tracked, Apart, DeliveredOnce, Contents, At
<1> QED
  BY <1>1, AlwaysInv, PTL

\* gets returns at most once for each Enter.
THEOREM EntersCoverReturns == Spec => []OneLinePerEnter
<1>1. Inv => OneLinePerEnter
  <2> SUFFICES ASSUME Inv PROVE OneLinePerEnter
    OBVIOUS
  <2>1. Cardinality(enters) \in Nat
    BY Zenon, FS_CardinalityType DEF Inv, Counted
  <2> QED
    BY <2>1 DEF Inv, TypeOK, Counted, OneLinePerEnter
<1> QED
  BY <1>1, AlwaysInv, PTL

\* A user who awaits the prompt gets exactly the edited line delivered.
THEOREM LineStaysExact == Spec => []LineExact
<1>1. Inv => LineExact
  BY DEF Inv, Edited, Copied, LineExact, At
<1> QED
  BY <1>1, AlwaysInv, PTL

=============================================================================
