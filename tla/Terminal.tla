------------------------------- MODULE Terminal -------------------------------
(***************************************************************************)
(* The line buffer between the keyboard interrupt (irq_kb_handler) and the *)
(* gets and read system calls of sys/idt.c.                                *)
(*                                                                         *)
(* Both calls execute sti first, so the interrupt can come between any two *)
(* of their accesses to char_buf, buf_idx and new_line: the copy and the   *)
(* clearing of the buffer are one step per byte.  Only str_len, whose      *)
(* result says how much is copied, is one step as a whole.  The interrupt  *)
(* handler itself runs with interrupts off and is one step.                *)
(*                                                                         *)
(* What is typed is told apart by when it was typed: the k-th key press    *)
(* stores the number k, so that a character can be followed from the       *)
(* keyboard to the program.  Echo, case and layout are left out.           *)
(***************************************************************************)
EXTENDS Integers, Sequences, FiniteSets

CONSTANTS
    BufLen,     \* size of char_buf (1024)
    MaxKeys,    \* bound: keys pressed
    ReadSizes   \* sizes passed to read

ASSUME TerminalAssumption ==
    /\ BufLen \in Nat \ {0} /\ MaxKeys \in Nat
    /\ ReadSizes \subseteq 1 .. BufLen - 1

VARIABLES
    char_buf, buf_idx, new_line,  \* shared with the interrupt handler
    pc,         \* where the reading program is
    limit,      \* size for read; BufLen, never reached, for gets
    len, i,     \* locals of the system call: str_len(char_buf), loop index
    input,      \* the program's buffer
    patient,    \* TRUE: the user types characters only, at a prompt that awaits
                \* a line, and all programs use gets, as the shipped ones do
    keys,       \* history: number of keys pressed
    enters,     \* history: which of them were Enter
    line,       \* history: the line as edited since the call
    given,      \* history: what earlier calls have delivered
    returns     \* history: how many gets have returned

isrVars  == <<char_buf, buf_idx, new_line>>
callVars == <<pc, limit, len, i, input>>
histVars == <<keys, enters, line, given, returns>>
vars     == <<isrVars, callVars, histVars, patient>>

NUL  == 0
Slot == 0 .. BufLen - 1

Contents(buf) == {buf[s] : s \in Slot} \ {NUL}

\* str_len
StrLen(buf) == CHOOSE n \in Slot : buf[n] = NUL /\ \A m \in Slot : m < n => buf[m] # NUL

-----------------------------------------------------------------------------
(* The keyboard interrupt.  The user does not overrun char_buf, which the    *)
(* handler does not check.                                                   *)

MayType == /\ keys < MaxKeys
           /\ buf_idx + 1 < BufLen
           /\ patient => pc = "poll" /\ new_line = 0

Store(c) == /\ char_buf' = [char_buf EXCEPT ![buf_idx] = c]
            /\ buf_idx' = buf_idx + 1

\* A key with a character; Ctrl, which stores '^', is one.
KeyChar ==
    /\ MayType
    /\ keys' = keys + 1
    /\ Store(keys')
    /\ line' = Append(line, keys')
    /\ UNCHANGED <<new_line, callVars, enters, given, returns>>

\* A key for which kbdus has no character (right Shift, Alt, F1...): its 0 is
\* stored like any other.
KeyDead ==
    /\ MayType /\ ~patient
    /\ keys' = keys + 1
    /\ Store(NUL)
    /\ UNCHANGED <<new_line, callVars, enters, line, given, returns>>

\* Mutant: the flag is not raised.
KeyEnterUnseen ==
    /\ MayType
    /\ keys' = keys + 1
    /\ Store(keys')
    /\ enters' = enters \cup {keys'}
    /\ line' = Append(line, keys')
    /\ UNCHANGED <<new_line, callVars, given, returns>>

KeyEnter ==
    /\ MayType
    /\ keys' = keys + 1
    /\ new_line' = 1
    /\ Store(keys')
    /\ enters' = enters \cup {keys'}
    /\ line' = Append(line, keys')
    /\ UNCHANGED <<callVars, given, returns>>

\* Mutant: the index stays where it is.
KeyBackspaceStaying ==
    /\ MayType
    /\ keys' = keys + 1
    /\ char_buf' = [char_buf EXCEPT ![buf_idx] = NUL]
    /\ line' = SubSeq(line, 1, Len(line) - 1)
    /\ UNCHANGED <<buf_idx, new_line, callVars, enters, given, returns>>

\* Backspace clears the slot behind the last character, which then is the one
\* the index points at.
KeyBackspace ==
    /\ MayType
    /\ keys' = keys + 1
    /\ IF buf_idx > 0
       THEN /\ char_buf' = [char_buf EXCEPT ![buf_idx] = NUL]
            /\ buf_idx' = buf_idx - 1
       ELSE UNCHANGED <<char_buf, buf_idx>>
    /\ line' = SubSeq(line, 1, Len(line) - 1)
    /\ UNCHANGED <<new_line, callVars, enters, given, returns>>

Keyboard == KeyChar \/ KeyDead \/ KeyEnter \/ KeyBackspace

-----------------------------------------------------------------------------
(* The system calls *)

At(place) == pc = place

\* A program with a zeroed buffer calls gets, or read with a size.
Call(size) ==
    /\ At("user") /\ (patient => size = BufLen)
    /\ pc' = "poll" /\ limit' = size
    /\ input' = [s \in Slot |-> NUL]
    /\ line' = <<>>
    /\ given' = given \cup Contents(input)
    /\ UNCHANGED <<isrVars, len, i, keys, enters, returns>>

\* Leaving the polling loop
Poll ==
    /\ At("poll")
    /\ new_line = 1 \/ buf_idx >= limit
    /\ pc' = "measure"
    /\ UNCHANGED <<isrVars, limit, len, i, input, histVars>>

\* The length that is passed to memcpy
Measure ==
    /\ At("measure")
    /\ len' = StrLen(char_buf) /\ i' = 0
    /\ pc' = "copy"
    /\ UNCHANGED <<isrVars, limit, input, histVars>>

\* memcpy
Copy ==
    /\ At("copy")
    /\ IF i < len
       THEN input' = [input EXCEPT ![i] = char_buf[i]] /\ i' = i + 1 /\ UNCHANGED pc
       ELSE UNCHANGED input /\ i' = 0 /\ pc' = "clear"
    /\ UNCHANGED <<isrVars, limit, len, histVars>>

\* Mutant: only the first byte is cleared.
ClearFirst ==
    /\ At("clear")
    /\ char_buf' = [char_buf EXCEPT ![0] = NUL]
    /\ pc' = "rewind"
    /\ UNCHANGED <<buf_idx, new_line, limit, len, i, input, histVars>>

\* memset
Clear ==
    /\ At("clear")
    /\ IF i < BufLen
       THEN char_buf' = [char_buf EXCEPT ![i] = NUL] /\ i' = i + 1 /\ UNCHANGED pc
       ELSE UNCHANGED <<char_buf, i>> /\ pc' = "rewind"
    /\ UNCHANGED <<buf_idx, new_line, limit, len, input, histVars>>

Rewind ==
    /\ At("rewind")
    /\ buf_idx' = 0
    /\ pc' = "lower"
    /\ UNCHANGED <<char_buf, new_line, limit, len, i, input, histVars>>

\* Mutant: the flag stays up.
LowerNot ==
    /\ At("lower")
    /\ pc' = "user"
    /\ returns' = IF limit = BufLen THEN returns + 1 ELSE returns
    /\ UNCHANGED <<isrVars, limit, len, i, input, keys, enters, line, given>>

\* The last assignment, and the return to the program
Lower ==
    /\ At("lower")
    /\ new_line' = 0
    /\ pc' = "user"
    /\ returns' = IF limit = BufLen THEN returns + 1 ELSE returns
    /\ UNCHANGED <<char_buf, buf_idx, limit, len, i, input, keys, enters, line, given>>

Reader == Poll \/ Measure \/ Copy \/ Clear \/ Rewind \/ Lower

-----------------------------------------------------------------------------

Init ==
    /\ char_buf = [s \in Slot |-> NUL] /\ buf_idx = 0 /\ new_line = 0
    /\ pc = "user" /\ limit = BufLen /\ len = 0 /\ i = 0
    /\ input = [s \in Slot |-> NUL]
    /\ keys = 0 /\ enters = {} /\ line = <<>> /\ given = {} /\ returns = 0
    /\ patient \in BOOLEAN

Next ==
    /\ Keyboard \/ Reader \/ \E size \in ReadSizes \cup {BufLen} : Call(size)
    /\ UNCHANGED patient

\* The program executes; nothing obliges the user to type.
Spec == Init /\ [][Next]_vars /\ WF_vars(Reader /\ UNCHANGED patient)

-----------------------------------------------------------------------------
(* Properties *)

\* The index stays within char_buf and the string in it is terminated, which
\* str_len relies on.
TypeOK ==
    /\ char_buf \in [Slot -> 0 .. MaxKeys] /\ char_buf[BufLen - 1] = NUL
    /\ buf_idx \in Slot /\ new_line \in {0, 1}
    /\ pc \in {"user", "poll", "measure", "copy", "clear", "rewind", "lower"}
    /\ limit \in 1 .. BufLen /\ len \in Slot /\ i \in 0 .. BufLen
    /\ input \in [Slot -> 0 .. MaxKeys]
    /\ keys \in 0 .. MaxKeys /\ enters \subseteq 1 .. MaxKeys
    /\ given \subseteq 1 .. MaxKeys /\ returns \in Nat

\* No character reaches a program twice, however the keyboard interrupts the
\* copy and the clearing of char_buf.
DeliveredOnce ==
    /\ ~At("user") => Contents(input) \cap given = {}
    /\ \A s, t \in Slot : input[s] = input[t] /\ input[s] # NUL => s = t

\* gets never returns without an Enter of its own, whenever that was pressed.
OneLinePerEnter == returns <= Cardinality(enters)

\* A user who awaits the prompt gets exactly the edited line delivered,
\* although Backspace leaves the erased character in char_buf.
LineExact ==
    patient /\ At("user") => \A s \in Slot :
        input[s] = IF s < Len(line) THEN line[s + 1] ELSE NUL

\* Such a user's line does reach the program.
LineArrives ==
    \A k \in 1 .. MaxKeys :
        patient /\ k \in enters \cap Contents(char_buf) ~> At("user") /\ k \in Contents(input)

=============================================================================
