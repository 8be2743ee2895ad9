-------------------------------- MODULE Screen --------------------------------
(***************************************************************************)
(* The text screen: kprintf's print_seq, scroll_up and clear_screen of     *)
(* sys/kprintf.c, the echo of irq_kb_handler, and the time that the timer  *)
(* interrupt shows in the last row.                                        *)
(*                                                                         *)
(* What the kernel prints with interrupts off, and an interrupt handler    *)
(* itself, is one step.  The prompt is printed after the sti of gets: there *)
(* each access to X, Y and the screen is a step of its own, a row at a time *)
(* when the screen scrolls, and interrupts come between any two.           *)
(*                                                                         *)
(* A character before the first cell is a page fault, as the page below    *)
(* the screen is not mapped.  Its handler starts a shell and ends the task *)
(* in the middle of it all, which is the subject of Process: here only the *)
(* clock goes on.                                                          *)
(*                                                                         *)
(* Columns are counted in characters (the code counts bytes, two for each).*)
(* Attribute bytes and the hardware cursor are left out.                   *)
(***************************************************************************)
EXTENDS Integers, Sequences, SequencesExt

CONSTANTS
    Cols,       \* characters in a row (80)
    Height,     \* rows for text (24); the time is shown in the row below
    Prompt,     \* PS1
    Texts,      \* what one kprintf of a program's system call may print
    Residues,   \* what may follow the unterminated character of a "%c"
    MaxEvents   \* bound: keys and system calls

NL    == "newline"
CR    == "return"
Blank == "blank"   \* the byte 0 and the space, which look alike
Time  == "time"

ASSUME ScreenAssumption ==
    /\ Cols \in Nat \ {0, 1} /\ Height \in Nat \ {0, 1} /\ MaxEvents \in Nat
    /\ Prompt # <<>> /\ \A k \in DOMAIN Prompt : Prompt[k] \notin {NL, CR, Time}
    /\ \A t \in Texts \cup Residues : \A k \in DOMAIN t : t[k] # Time
    /\ \A r \in Residues : \A k \in DOMAIN r : r[k] \notin {NL, CR}

VARIABLES
    scr,        \* the characters on the screen, X and Y, and whether printing faulted
    pc,         \* where the reading program is: "user", or a step of gets
    k, x, y,    \* locals of print_seq: next character of the prompt, position
    row,        \* the loop variable of scroll_up
    buf_idx,    \* characters in the line buffer
    new_line,
    patient,    \* TRUE: the user types only at a prompt that awaits a line
    events,     \* history: number of keys and system calls
    paper       \* history: the lines printed since the screen was cleared, <<>>
                \* once something has been printed over or out of order

callVars == <<pc, k, x, y, row>>
lineVars == <<buf_idx, new_line>>
vars     == <<scr, callVars, lineVars, patient, events, paper>>

TextCells == 0 .. Height * Cols - 1
Cells     == 0 .. (Height + 1) * Cols - 1

-----------------------------------------------------------------------------
(* print_seq and scroll_up *)

\* Mutant: the row that was moved keeps its characters.
MoveRowKeeping(cell, r) ==
    [p \in Cells |-> IF p \div Cols = r - 1 THEN cell[p + Cols] ELSE cell[p]]

\* One round of scroll_up's loop: row r moves up and is left blank.
MoveRow(cell, r) ==
    [p \in Cells |-> CASE p \div Cols = r - 1 -> cell[p + Cols]
                       [] p \div Cols = r     -> Blank
                       [] OTHER               -> cell[p]]

\* Mutant: the row of the time scrolls too.
ScrollAll(s) ==
    [s EXCEPT !.cell = FoldLeft(MoveRow, @, [r \in 1 .. Height |-> r]),
              !.X = 0, !.Y = Height - 1]

scroll_up(s) ==
    [s EXCEPT !.cell = FoldLeft(MoveRow, @, [r \in 1 .. Height - 1 |-> r]),
              !.X = 0, !.Y = Height - 1]

\* Mutant: a row has one column too many.
AdvanceLate(col, line, c) ==
    CASE c = NL           -> <<0, line + 1>>
      [] c = CR           -> <<col, 0>>
      [] col + 1 > Cols   -> <<0, line + 1>>
      [] OTHER            -> <<col + 1, line>>

\* Where a character goes, before the test for the end of the screen.
Advance(col, line, c) ==
    CASE c = NL           -> <<0, line + 1>>
      [] c = CR           -> <<col, 0>>
      [] col + 1 >= Cols  -> <<0, line + 1>>
      [] OTHER            -> <<col + 1, line>>

\* y > 23
Below(line) == line > Height - 1

Shows(c) == c \notin {NL, CR}

\* Positions run on from row to row; a column before the first of the first row
\* is outside the video page.
Draw(s, col, line, c) ==
    LET p == line * Cols + col
    IN  CASE ~Shows(c)  -> s
          [] p \in Cells -> [s EXCEPT !.cell[p] = c]
          [] OTHER      -> [s EXCEPT !.fault = TRUE]

\* One round of print_seq's loop.
Put(at, c) ==
    LET to == Advance(at.x, at.y, c)
        s  == IF Below(to[2]) THEN scroll_up(at.s) ELSE at.s
        ln == IF Below(to[2]) THEN Height - 1 ELSE to[2]
    IN  IF at.s.fault THEN at
        ELSE [s |-> Draw(s, to[1], ln, c), x |-> to[1], y |-> ln]

print_seq(s, text) ==
    LET end == FoldLeft(Put, [s |-> s, x |-> s.X, y |-> s.Y], text)
    IN  IF end.s.fault THEN end.s ELSE [end.s EXCEPT !.X = end.x, !.Y = end.y]

-----------------------------------------------------------------------------
(* The paper: what has been printed, as lines of any length. *)

EmptyLine == [text |-> <<>>, wide |-> 0]

\* Lost, or with one more character; wide is the greatest length of the line.
Inked(page, c) ==
    LET last == page[Len(page)]
        n    == Len(last.text) + 1
    IN  CASE page = <<>> \/ c = CR -> <<>>
          [] c = NL -> Append(page, EmptyLine)
          [] OTHER  -> [page EXCEPT ![Len(page)] =
                          [text |-> Append(last.text, c), wide |-> Max({n, last.wide})]]

\* With the last character gone; lost when that is on another line.
Erased(page) ==
    IF page = <<>> \/ page[Len(page)].text = <<>> THEN <<>>
    ELSE [page EXCEPT ![Len(page)].text = Front(@)]

Written(page, text) == FoldLeft(Inked, page, text)

\* Nothing is said of an echo amid the prompt.
Calm == pc \in {"user", "poll", "lower"}

-----------------------------------------------------------------------------
(* Interrupts *)

Event == ~scr.fault /\ events < MaxEvents /\ events' = events + 1

MayType == Event /\ (patient => pc = "poll" /\ new_line = 0)

\* The handler prints; the paper keeps up unless the prompt is being printed.
Echo(text) ==
    /\ scr' = print_seq(scr, text)
    /\ paper' = IF Calm THEN Written(paper, text) ELSE <<>>

\* A key with a character.  The string that "%c" makes of it is not ended by a
\* 0: what the stack holds behind it is printed too.
KeyChar(r) ==
    /\ MayType
    /\ Echo(<<"key">> \o r)
    /\ buf_idx' = buf_idx + 1
    /\ UNCHANGED <<callVars, new_line, patient>>

\* A key without a character is stored as a 0, and nothing is printed.
KeyDead ==
    /\ MayType /\ ~patient
    /\ Echo(<<>>)
    /\ buf_idx' = buf_idx + 1
    /\ UNCHANGED <<callVars, new_line, patient>>

KeyEnter ==
    /\ MayType
    /\ new_line' = 1
    /\ Echo(<<NL>>)
    /\ buf_idx' = buf_idx + 1
    /\ UNCHANGED <<callVars, patient>>

\* X -= 2; kprintf(" "); X -= 2;
RubOut(s) ==
    LET rubbed == print_seq([s EXCEPT !.X = @ - 1], <<Blank>>)
    IN  IF rubbed.fault THEN rubbed ELSE [rubbed EXCEPT !.X = @ - 1]

\* Mutant: the screen is changed whether or not there is a character to delete.
KeyBackspaceAlways ==
    /\ MayType
    /\ scr' = RubOut(scr)
    /\ paper' = IF Calm THEN Erased(paper) ELSE <<>>
    /\ buf_idx' = IF buf_idx > 0 THEN buf_idx - 1 ELSE buf_idx
    /\ UNCHANGED <<callVars, new_line, patient>>

KeyBackspace ==
    /\ MayType
    /\ IF buf_idx > 0
       THEN /\ scr' = RubOut(scr)
            /\ paper' = IF Calm THEN Erased(paper) ELSE <<>>
            /\ buf_idx' = IF scr'.fault THEN buf_idx ELSE buf_idx - 1
       ELSE UNCHANGED <<scr, paper, buf_idx>>
    /\ UNCHANGED <<callVars, new_line, patient>>

\* The timer's kprintf_boott; one cell stands for the text.
Tick ==
    /\ scr' = [scr EXCEPT !.cell[Height * Cols + Cols - 1] = Time]
    /\ UNCHANGED <<callVars, lineVars, patient, events, paper>>

-----------------------------------------------------------------------------
(* System calls *)

\* write, and every other call that prints
Write(text) ==
    /\ pc = "user" /\ Event
    /\ scr' = print_seq(scr, text)
    /\ paper' = Written(paper, text)
    /\ UNCHANGED <<callVars, lineVars, patient>>

ClearScreen == [cell |-> [p \in Cells |-> Blank], X |-> 0, Y |-> 0, fault |-> FALSE]

\* clear, system call 46
Clear ==
    /\ pc = "user" /\ Event
    /\ scr' = ClearScreen
    /\ paper' = <<EmptyLine>>
    /\ UNCHANGED <<callVars, lineVars, patient>>

\* gets: sti, and the print_seq of the prompt up to its first access, x = X
Gets ==
    /\ pc = "user" /\ Event
    /\ pc' = "y" /\ x' = scr.X /\ k' = 1
    /\ UNCHANGED <<scr, y, row, lineVars, patient, paper>>

\* A step of gets from one place to the next; the interrupts' variables stay.
Goes(from, to) ==
    /\ ~scr.fault /\ pc = from /\ pc' = to
    /\ UNCHANGED <<lineVars, patient, events>>

GetsY ==
    /\ Goes("y", "put")
    /\ y' = scr.Y
    /\ UNCHANGED <<scr, k, x, row, paper>>

\* *temp2 = *temp1, and the end of the loop
StorePrompt(col, line) ==
    /\ scr' = Draw(scr, col, line, Prompt[k])
    /\ x' = col /\ y' = line /\ k' = k + 1

\* A character of the prompt that needs no scrolling
PutPrompt ==
    LET to == Advance(x, y, Prompt[k]) IN
    /\ k <= Len(Prompt) /\ ~Below(to[2])
    /\ Goes("put", "put")
    /\ StorePrompt(to[1], to[2])
    /\ UNCHANGED <<row, paper>>

\* One that does: scroll_up comes first.
ScrollBegin ==
    /\ k <= Len(Prompt) /\ Below(Advance(x, y, Prompt[k])[2])
    /\ Goes("put", "scroll")
    /\ row' = 1
    /\ UNCHANGED <<scr, k, x, y, paper>>

ScrollRow ==
    /\ row < Height
    /\ Goes("scroll", "scroll")
    /\ scr' = [scr EXCEPT !.cell = MoveRow(@, row)]
    /\ row' = row + 1
    /\ UNCHANGED <<k, x, y, paper>>

ScrollY ==
    /\ row = Height
    /\ Goes("scroll", "scrollX")
    /\ scr' = [scr EXCEPT !.Y = Height - 1]
    /\ UNCHANGED <<k, x, y, row, paper>>

ScrollX ==
    /\ Goes("scrollX", "store")
    /\ scr' = [scr EXCEPT !.X = 0]
    /\ UNCHANGED <<k, x, y, row, paper>>

PutScrolled ==
    /\ Goes("store", "put")
    /\ StorePrompt(Advance(x, y, Prompt[k])[1], Height - 1)
    /\ UNCHANGED <<row, paper>>

PutX ==
    /\ k > Len(Prompt)
    /\ Goes("put", "endY")
    /\ scr' = [scr EXCEPT !.X = x]
    /\ UNCHANGED <<k, x, y, row, paper>>

PutY ==
    /\ Goes("endY", "poll")
    /\ scr' = [scr EXCEPT !.Y = y]
    /\ paper' = Written(paper, Prompt)
    /\ UNCHANGED <<k, x, y, row>>

\* The loop of gets ends, the line is copied and buf_idx reset.
Poll ==
    /\ ~scr.fault /\ pc = "poll" /\ new_line = 1
    /\ pc' = "lower" /\ buf_idx' = 0
    /\ UNCHANGED <<scr, k, x, y, row, new_line, patient, events, paper>>

Lower ==
    /\ ~scr.fault /\ pc = "lower"
    /\ pc' = "user" /\ new_line' = 0
    /\ UNCHANGED <<scr, k, x, y, row, buf_idx, patient, events, paper>>

-----------------------------------------------------------------------------

\* start() clears the screen before the first task runs.
Init ==
    /\ scr = ClearScreen
    /\ pc = "user" /\ k = 1 /\ x = 0 /\ y = 0 /\ row = 1
    /\ buf_idx = 0 /\ new_line = 0
    /\ patient \in BOOLEAN
    /\ events = 0 /\ paper = <<EmptyLine>>

Next ==
    \/ \E r \in Residues : KeyChar(r)
    \/ KeyDead \/ KeyEnter \/ KeyBackspace \/ Tick
    \/ \E t \in Texts : Write(t)
    \/ Clear \/ Gets \/ GetsY
    \/ PutPrompt \/ ScrollBegin \/ ScrollRow \/ ScrollY \/ ScrollX \/ PutScrolled
    \/ PutX \/ PutY \/ Poll \/ Lower

Spec == Init /\ [][Next]_vars

-----------------------------------------------------------------------------
(* Properties *)

\* X and x are columns, possibly before the row they count from (a Backspace
\* takes X back over the end of a row); Y and y are rows for text.
TypeOK ==
    /\ DOMAIN scr.cell = Cells
    /\ \A col \in {scr.X, x} : col < Cols /\ col + 2 * MaxEvents >= 0
    /\ {scr.Y, y} \subseteq 0 .. Height - 1
    /\ k \in 1 .. Len(Prompt) + 1 /\ row \in 1 .. Height
    /\ pc \in {"user", "y", "put", "scroll", "scrollX", "store", "endY", "poll", "lower"}
    /\ buf_idx \in 0 .. MaxEvents /\ new_line \in {0, 1}
    /\ patient \in BOOLEAN /\ events \in 0 .. MaxEvents

\* The row of the time shows the time or nothing, and the time is shown nowhere
\* else: neither text nor scrolling reaches it, whatever interrupts what.
StatusKept ==
    \A p \in Cells : IF p \in TextCells THEN scr.cell[p] # Time
                                        ELSE scr.cell[p] \in {Blank, Time}

Rows(line) == line.wide \div Cols + 1

RowsBefore(n) == FoldLeft(LAMBDA t, line : t + Rows(line), 0, SubSeq(paper, 1, n - 1))

\* What the paper has at position q, if its rows are laid one after the other.
\* A line begins in the second column.
OnPaper(q) ==
    LET here == {n \in DOMAIN paper : q - RowsBefore(n) * Cols \in DOMAIN paper[n].text}
    IN  IF here = {} THEN Blank
        ELSE LET n == CHOOSE n \in here : TRUE
             IN  paper[n].text[q - RowsBefore(n) * Cols]

\* The screen shows the end of what has been printed: print_seq's wrapping and
\* scroll_up's moves, taken together over any number of calls and keys, show
\* the last rows of the text and nothing else.  Nothing is claimed once a key
\* has been echoed amid the prompt or a Backspace has left its line, until the
\* screen is cleared.
ShowsTail ==
    Calm /\ paper # <<>> =>
        LET top == Max({0, RowsBefore(Len(paper) + 1) - Height})
        IN  \A p \in TextCells : scr.cell[p] = OnPaper(p + top * Cols)

\* A user who types at the prompt cannot delete it: the line on the screen has
\* the prompt with at least as many characters behind it as the line buffer
\* holds, so that Backspace stops at the prompt (where ShowsTail holds).
PromptKept ==
    patient /\ pc = "poll" /\ new_line = 0 /\ paper # <<>> =>
        LET text == paper[Len(paper)].text
            n    == Len(Prompt)
        IN  \E b \in 0 .. Len(text) - n - buf_idx : SubSeq(text, b + 1, b + n) = Prompt

\* Typing at the prompt never raises a page fault in the kernel, however many
\* characters are deleted: Backspace takes X back before the first cell of the
\* screen only when the line buffer still has characters that the screen has not.
NoFaultAtPrompt == patient => ~scr.fault

=============================================================================
