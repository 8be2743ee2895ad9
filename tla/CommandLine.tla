------------------------------ MODULE CommandLine ------------------------------
(***************************************************************************)
(* From the line the user enters to what the kernel is asked to do: the    *)
(* shell cuts the line into command and argument with the string functions *)
(* of libc/string.c, execvp hands both to the kernel, the program passes   *)
(* its argument on, and the handlers of sleep, kill, cat and echo in       *)
(* sys/idt.c take it apart again with those of sys/strings.c and           *)
(* sys/utils.c.  One line follows another, through the same buffers.       *)
(*                                                                         *)
(* A string is a sequence of characters without its terminating 0.  The    *)
(* name of a program counts as one character, as nothing looks inside it.  *)
(* The tasks that carry the command out are the subject of Session, the    *)
(* way of the line through the keyboard buffer that of Terminal.           *)
(***************************************************************************)
EXTENDS Integers, Sequences, FiniteSets, SequencesExt

CONSTANTS
    Lines,     \* what the user may enter, without the newline
    Programs,  \* the names of the programs in bin/
    CommLen,   \* COMM_LEN, the size of the buffers of the shell
    Leftovers, \* what a local array may hold that was not written
    MaxLines   \* bound: number of lines entered

ASSUME CommandLineAssumption ==
    /\ CommLen \in Nat \ {0} /\ MaxLines \in Nat
    \* gets writes a longer line past the end of the shell's buffer, before the
    \* shell refuses it; what becomes of the bytes behind is not modelled.
    /\ \A l \in Lines : l \in Seq(STRING) /\ Len(l) + 1 <= CommLen
    \* The arrays of the handlers hold two pieces, so an argument has one blank.
    /\ \A l \in Lines : Cardinality({n \in DOMAIN l : l[n] = " "}) <= 2
    /\ {"sleep", "kill", "cat", "echo"} \subseteq Programs

VARIABLES
    pc,               \* where the shell or its child is
    input, cmd, arg,  \* the buffers of the shell
    typed,            \* the line that was entered last
    argument,         \* the argument of the program, <<>> for none
    asked,            \* what the kernel was asked to do
    entered           \* number of lines entered

vars == <<pc, input, cmd, arg, typed, argument, asked, entered>>

Space == " "
Tab   == "tab"
NL    == "nl"
Ten   == <<"0", "1", "2", "3", "4", "5", "6", "7", "8", "9">>

-----------------------------------------------------------------------------
(* Strings and numbers *)

\* Characters from .. to, counted from 0; a string ends with the first 0.
str_substr(str, from, to) == SubSeq(str, from + 1, IF to < Len(str) THEN to + 1 ELSE Len(str))

\* The first delimiter behind from, or the last character
strfind_delim(str, from) ==
    LET found == {n \in from + 1 .. Len(str) - 1 : str[n + 1] \in {Space, Tab, NL}}
    IN IF found = {} THEN Len(str) - 1 ELSE CHOOSE n \in found : \A m \in found : n <= m

\* Every piece but the first starts with the delimiter.
str_split_delim(str, delim) ==
    LET at    == {n \in 1 .. Len(str) : str[n] = delim}
        start == <<1>> \o SetToSortSeq(at, <) \o <<Len(str) + 1>>
    IN [k \in 1 .. Len(start) - 1 |-> SubSeq(str, start[k], start[k + 1] - 1)]

\* For a query of one character
str_contains(str, query) == \E n \in DOMAIN str : str[n] = query

\* What a character counts in atoi: its distance from '0'
Weight(c) ==
    CASE c \in ToSet(Ten) -> (CHOOSE n \in 1 .. 10 : Ten[n] = c) - 1
      [] c = Space -> -16
      [] c = Tab   -> -39
      [] c = "&"   -> -10
      [] c = "-"   -> -3
      [] OTHER     -> 50

\* Numbers of up to nine characters, which fit the 32 bits of an int
atoi(str) ==
    LET signed == str # <<>> /\ str[1] = "-"
        digits == IF signed THEN Tail(str) ELSE str
        res    == FoldLeft(LAMBDA r, c : r * 10 + Weight(c), 0, digits)
    IN IF signed THEN -res ELSE res

\* The digits from the lowest to the highest, then reversed
itoap(num) ==
    LET digits == CHOOSE k \in 1 .. 9 : num < 10 ^ k /\ (k = 1 \/ 10 ^ (k - 1) <= num)
    IN Reverse([k \in 1 .. digits |-> Ten[((num \div 10 ^ (k - 1)) % 10) + 1]])

-----------------------------------------------------------------------------
(* The shell *)

\* Mutant: the buffer that gets fills is not cleared.
ClearNot ==
    /\ pc = "clear" /\ pc' = "gets"
    /\ cmd' = <<>> /\ arg' = <<>>
    /\ typed' = <<>> /\ argument' = <<>> /\ asked' = [what |-> "nothing"]
    /\ UNCHANGED <<input, entered>>

Clear ==
    /\ pc = "clear" /\ pc' = "gets"
    /\ input' = <<>> /\ cmd' = <<>> /\ arg' = <<>>
    /\ typed' = <<>> /\ argument' = <<>> /\ asked' = [what |-> "nothing"]
    /\ UNCHANGED entered

\* gets copies the characters and no 0 behind them.
Over(old, new) == new \o SubSeq(old, Len(new) + 1, Len(old))

Gets(line) ==
    /\ pc = "gets" /\ pc' = "got" /\ entered < MaxLines
    /\ typed' = line
    /\ input' = Over(input, line \o <<NL>>)
    /\ entered' = entered + 1
    /\ UNCHANGED <<cmd, arg, argument, asked>>

\* An empty line, and one that is too long, are not carried out.
Refused == input[1] = NL \/ Len(input) >= CommLen

Refuse ==
    /\ pc = "got" /\ Refused
    /\ pc' = "clear"
    /\ UNCHANGED <<input, cmd, arg, typed, argument, asked, entered>>

\* arg ends where the newline was.  Without an argument the 0 goes to arg[-1]: the
\* compiler has put there the end of input or of cmd, which is 0 in a line that
\* was not refused, or nothing.
Parse ==
    /\ pc = "got" /\ ~Refused
    /\ pc' = "exec"
    /\ LET delim == strfind_delim(input, 0) IN
        /\ cmd' = str_substr(input, 0, delim - 1)
        /\ arg' = SubSeq(str_substr(input, delim + 1, Len(input)), 1, Len(input) - delim - 2)
    /\ UNCHANGED <<input, typed, argument, asked, entered>>

-----------------------------------------------------------------------------
(* exec, and what the program does with its argument *)

Ends(what) ==
    /\ pc' = "clear"
    /\ asked' = what
    /\ UNCHANGED <<input, cmd, arg, typed, argument, entered>>

Running(name) == pc = "main" /\ cmd = <<name>>

ExecFails ==
    /\ pc = "exec" /\ ~(Len(cmd) = 1 /\ cmd[1] \in Programs)
    /\ Ends([what |-> "not found"])

\* An argument that equals the name of the program is taken for none.
Exec ==
    /\ pc = "exec" /\ Len(cmd) = 1 /\ cmd[1] \in Programs
    /\ pc' = "main"
    /\ argument' = IF arg # cmd THEN arg ELSE <<>>
    /\ UNCHANGED <<input, cmd, arg, typed, asked, entered>>

\* ls, ps, clear and the shell itself take no argument.
Plain ==
    /\ pc = "main" /\ \A name \in {"sleep", "kill", "cat", "echo"} : cmd # <<name>>
    /\ Ends([what |-> "plain"])

Usage ==
    /\ \E name \in {"sleep", "kill", "cat", "echo"} : Running(name)
    /\ argument = <<>>
    /\ Ends([what |-> "usage"])

Sleep ==
    /\ Running("sleep") /\ argument # <<>>
    /\ Ends([what    |-> "sleep",
             seconds |-> atoi(str_split_delim(argument, Space)[1]),
             is_bg   |-> str_contains(argument, "&")])

\* Mutant: the delimiter is not skipped.
SecondWhole(str) == str

\* The second piece without its delimiter
Second(str) == str_substr(str, 1, Len(str) - 1)

\* Without a second piece the array holds what was there before.
Kill ==
    /\ Running("kill") /\ argument # <<>>
    /\ \E junk \in Leftovers :
        LET pieces == str_split_delim(argument, Space)
            out    == Second(IF Len(pieces) >= 2 THEN pieces[2] ELSE junk)
        IN Ends(IF out = <<>> THEN [what |-> "usage"] ELSE [what |-> "kill", pid |-> atoi(out)])

Cat ==
    /\ Running("cat") /\ argument # <<>>
    /\ Ends([what |-> "open", name |-> str_split_delim(argument, Space)[1]])

\* Mutant: echo, too, stops at the blank.
EchoFirst ==
    /\ Running("echo") /\ argument # <<>>
    /\ Ends([what |-> "show", text |-> str_split_delim(argument, Space)[1]])

Echo ==
    /\ Running("echo") /\ argument # <<>>
    /\ Ends([what |-> "show", text |-> argument])

-----------------------------------------------------------------------------

Init ==
    /\ pc = "clear" /\ input = <<>> /\ cmd = <<>> /\ arg = <<>>
    /\ typed = <<>> /\ argument = <<>> /\ asked = [what |-> "nothing"] /\ entered = 0

Next ==
    \/ Clear \/ (\E line \in Lines : Gets(line)) \/ Refuse \/ Parse
    \/ ExecFails \/ Exec \/ Plain \/ Usage \/ Sleep \/ Kill \/ Cat \/ Echo

Spec == Init /\ [][Next]_vars

-----------------------------------------------------------------------------
(* Properties *)

Done == pc = "clear" /\ asked.what # "nothing"

\* What the user sees is a name, a blank and the rest of the line.
Is(name, rest) == typed = <<name, Space>> \o rest

\* The program that runs has the name that was typed up to the first blank, and
\* gets all that was typed behind it, with nothing of an earlier line, unless
\* that is the program's own name.  Then exec gives it no argument: "echo echo"
\* shows the usage, not "the text passed as argument" of README.md.
RunsAsTyped ==
    pc = "main" =>
        \/ typed = cmd /\ argument = <<>>
        \/ \E name \in Programs, blank \in {Space, Tab} :
            /\ cmd = <<name>> /\ typed = <<name, blank>> \o arg
            /\ arg # <<name>> => argument = arg
            /\ arg = <<name>> => argument = <<>>

\* "sleep" and a number, as ps would show it, sleeps for that many seconds,
\* and in the background exactly if a blank and "&" follow; "kill -9" and a pid
\* of one or two digits, as ps shows it, removes the task of that pid (the array
\* of the handler has no room for a third digit).
HandledAsTyped ==
    Done => \A n \in 0 .. 99 :
        /\ Is("sleep", itoap(n)) => asked = [what |-> "sleep", seconds |-> n, is_bg |-> FALSE]
        /\ Is("sleep", itoap(n) \o <<Space, "&">>) =>
            asked = [what |-> "sleep", seconds |-> n, is_bg |-> TRUE]
        /\ Is("kill", <<"-", "9", Space>> \o itoap(n)) => asked = [what |-> "kill", pid |-> n]

\* The end of the line, if the name and a blank stand in front of it
Rest(name) == IF Len(typed) > 2 /\ Is(name, SubSeq(typed, 3, Len(typed)))
              THEN SubSeq(typed, 3, Len(typed)) ELSE <<>>

\* "cat" and a name opens the file of that name, whatever follows behind a
\* second blank; "echo" shows all of its argument, blanks included.  Neither
\* sees its own name.
ShownAsTyped ==
    Done =>
        /\ Rest("cat") \notin {<<>>, <<"cat">>} =>
            \E more \in 0 .. Len(typed) :
                LET name == SubSeq(Rest("cat"), 1, Len(Rest("cat")) - more)
                IN  /\ asked = [what |-> "open", name |-> name]
                    /\ Space \notin ToSet(name)
                    /\ more > 0 => Rest("cat")[Len(name) + 1] = Space
        /\ Rest("echo") \notin {<<>>, <<"echo">>} =>
            asked = [what |-> "show", text |-> Rest("echo")]

=============================================================================
