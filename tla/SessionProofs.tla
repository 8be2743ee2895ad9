---------------------------- MODULE SessionProofs ----------------------------
(***************************************************************************)
(* The kernel under the shipped programs is the kernel of Process, so that *)
(* all that is proved of Process holds of a session too.  In a session one *)
(* pid names one task, and a shell that is alone reads no command while a  *)
(* foreground sleep of it goes on.                                         *)
(*                                                                         *)
(* Process leaves out one call, kill of pid 0 by a child of the kernel, so *)
(* the first needs an invariant: whoever is not in the shell's loop was    *)
(* forked by a shell (Forked), whose pid is not 0.                         *)
(***************************************************************************)
EXTENDS Session, ProcessProofs

ShellPlaces == {"gets", "fork", "yield", "wait"}

Places == ShellPlaces \cup {"exec", "sleep", "kill", "exit", "none"}

Lines == Commands \cup {Plain("oxterm")}

\* Programs and their command lines
Programs ==
    /\ upc \in [Nodes -> Places] /\ cmd \in [Nodes -> Lines]
    /\ \A n \in Nodes : upc[n] \in {"sleep", "kill"} => cmd[n].prog = upc[n]

Forked ==
    /\ pid[Kernel] = 0
    /\ \A n \in listed \ {Kernel} :
        ppid[n] \in Nat /\ (upc[n] \notin ShellPlaces => ppid[n] # 0)

SInv == Programs /\ Forked /\ PidsUnique

-----------------------------------------------------------------------------
(* Lemmas *)

LEMMA InitSInv == ASSUME SessionInit PROVE SInv
<1> USE ProcessAssumption DEF SessionInit, Init, Nodes, Kernel, NoPid
<1>1. Programs
  BY DEF Programs, Places, ShellPlaces, Lines
<1>2. Forked
  <2>1. pid[1] = 0 /\ ppid[2] = 0 /\ upc[2] = "gets" /\ listed \ {1} = {2}
    OBVIOUS
  <2> HIDE DEF SessionInit, Init
  <2> QED
    BY <2>1 DEF Forked, ShellPlaces
<1>3. PidsUnique
  BY DEF PidsUnique
<1> QED
  BY <1>1, <1>2, <1>3 DEF SInv

\* A line has the arguments of its program.
LEMMA Arguments ==
    ASSUME NEW c \in Lines
    PROVE  /\ c.prog = "sleep" => c.arg \in SleepTimes /\ c.bg \in {0, 1}
           /\ c.prog = "kill" => c.arg \in Pids
BY SessionAssumption DEF Lines, Commands, Plain

\* The task that makes a call
LEMMA CallerFacts ==
    ASSUME Consistent, SInv, InUser
    PROVE  /\ running_task \in listed \ {Kernel} /\ running_task \in Nodes
           /\ ppid[running_task] \in Nat /\ pid[running_task] \in Nat \ {0}
           /\ upc[running_task] \notin ShellPlaces => ppid[running_task] # 0
           /\ created \in Nodes /\ listed \subseteq 1 .. created
<1>1. running_task \in listed \ {Kernel} /\ running_task \in Nodes
  BY UserFacts DEF Consistent, PreviousListed
<1>2. /\ ppid[running_task] \in Nat
      /\ upc[running_task] \notin ShellPlaces => ppid[running_task] # 0
  BY <1>1 DEF SInv, Forked
<1>3. pid[running_task] \in Nat /\ ppid[running_task] < pid[running_task]
  BY <1>1 DEF Consistent, TypeOK, PidsOrdered
<1>4. created \in Nodes /\ listed \subseteq 1 .. created
  BY DEF Consistent, TypeOK
<1> QED
  BY <1>1, <1>2, <1>3, <1>4

\* Every step of a session is a step of Process.
LEMMA StepRefines == ASSUME Consistent, SInv, [SessionNext]_sessionVars PROVE [Next]_vars
<1>1. CASE Fork \/ Yield \/ Wait \/ Exec \/ Exit
  BY <1>1 DEF Fork, Yield, Wait, Exec, Exit, Next, UserStep
<1>2. CASE Sleep
  <2>1. running_task \in Nodes
    BY <1>2, CallerFacts DEF Sleep, At
  <2>2. cmd[running_task] \in Lines /\ cmd[running_task].prog = "sleep"
    BY <1>2, <2>1 DEF Sleep, At, SInv, Programs
  <2>3. cmd[running_task].arg \in SleepTimes /\ cmd[running_task].bg \in {0, 1}
    BY <2>2, Arguments
  <2> QED
    BY <1>2, <2>3 DEF Sleep, Next, UserStep
<1>3. CASE Kill
  <2>1. running_task \in Nodes /\ ppid[running_task] # 0
    BY <1>3, CallerFacts DEF Kill, At, ShellPlaces
  <2>2. cmd[running_task] \in Lines /\ cmd[running_task].prog = "kill"
    BY <1>3, <2>1 DEF Kill, At, SInv, Programs
  <2>3. cmd[running_task].arg \in Pids /\ MayKill(cmd[running_task].arg)
    BY <2>1, <2>2, Arguments DEF SInv, Forked, MayKill
  <2> QED
    BY <1>3, <2>3 DEF Kill, Next, UserStep
<1>4. CASE Idle \/ Tick
  BY <1>4 DEF Next
<1>5. CASE UNCHANGED vars
  BY <1>5
<1> QED
  BY Zenon, <1>1, <1>2, <1>3, <1>4, <1>5 DEF SessionNext, Machine, Timer, Gets, sessionVars

\* A call by which nobody is named anew: the caller goes on at another place.
LEMMA GotoKeeps ==
    ASSUME Consistent, SInv, InUser, NEW place \in Places \ {"sleep", "kill"}, Goto(place),
           place \notin ShellPlaces => upc[running_task] \notin ShellPlaces,
           UNCHANGED <<pid, ppid>>, listed' \subseteq listed,
           cmd' \in [Nodes -> Lines],
           \A n \in Nodes \ {running_task} : cmd'[n] = cmd[n]
    PROVE  SInv'
<1>1. /\ running_task \in listed \ {Kernel} /\ running_task \in Nodes
      /\ upc[running_task] \notin ShellPlaces => ppid[running_task] # 0
  BY CallerFacts
<1>2. listed \subseteq Nodes
  BY CallerFacts, ProcessAssumption DEF Nodes
<1>3. upc \in [Nodes -> Places] /\ upc' = [upc EXCEPT ![running_task] = place]
  BY DEF SInv, Programs, Goto
<1>4. \A n \in Nodes : upc'[n] = IF n = running_task THEN place ELSE upc[n]
  BY <1>3
<1>5. upc' \in [Nodes -> Places]
  BY Zenon, <1>3
<1>6. Programs'
  BY <1>4, <1>5 DEF SInv, Programs
<1>7. Forked'
  BY <1>1, <1>2, <1>4 DEF SInv, Forked
<1>8. PidsUnique'
  BY DEF SInv, PidsUnique
<1> QED
  BY <1>6, <1>7, <1>8 DEF SInv

\* What a call that only schedules leaves alone
LEMMA NamesAndList ==
    /\ SysYield \/ SysWait \/ Idle \/ Tick \/ UNCHANGED vars => UNCHANGED <<pid, ppid, listed>>
    /\ \A t, b : SysSleep(t, b) => UNCHANGED <<pid, ppid, listed>>
    /\ SysExit => UNCHANGED <<pid, ppid>> /\ listed' \subseteq listed
    /\ \A p : SysKill(p) => UNCHANGED <<pid, ppid>> /\ listed' \subseteq listed
<1> USE DEF listVars, nameVars
<1>1. SysYield => UNCHANGED <<pid, ppid, listed>>
  BY DEF SysYield
<1>2. SysWait \/ UNCHANGED vars => UNCHANGED <<pid, ppid, listed>>
  BY Zenon DEF SysWait, WaitFor, vars
<1>3. Idle \/ Tick => UNCHANGED <<pid, ppid, listed>>
  BY DEF Idle, IdleTest, IdleBody, IdlePick, Tick
<1>4. \A t, b : SysSleep(t, b) => UNCHANGED <<pid, ppid, listed>>
  BY DEF SysSleep
<1>5. SysExit => UNCHANGED <<pid, ppid>> /\ listed' \subseteq listed
  BY DEF SysExit, DeleteCurr
<1>6. \A p : SysKill(p) => UNCHANGED <<pid, ppid>> /\ listed' \subseteq listed
  BY DEF SysKill, KillParent, KillKernel, KillSelf, KillOther, DeleteCurr, DeleteFromTaskList
<1> QED
  BY <1>1, <1>2, <1>3, <1>4, <1>5, <1>6

\* A call that creates task c, with the next place of the caller and c's first
LEMMA NewTaskSInv ==
    ASSUME Consistent, SInv, InUser, NEW c, c = created + 1, c <= MaxTasks,
           NEW p \in Nat, NEW pp \in Nat \ {0}, NewTask(c, p, pp),
           listed' \subseteq listed \cup {c},
           \A n \in listed' \ {c} : pid[n] # p,
           NEW place \in Places \ {"sleep", "kill"},
           place \notin ShellPlaces => upc[running_task] \notin ShellPlaces,
           NEW first \in Places,
           first \in {"sleep", "kill"} => cmd[running_task].prog = first,
           upc' = [upc EXCEPT ![running_task] = place, ![created'] = first],
           cmd' = [cmd EXCEPT ![created'] = cmd[running_task]]
    PROVE  SInv'
<1>1. /\ running_task \in listed \ {Kernel} /\ running_task \in Nodes
      /\ upc[running_task] \notin ShellPlaces => ppid[running_task] # 0
      /\ created \in Nodes /\ listed \subseteq 1 .. created
  BY CallerFacts
<1>2. c \in Nodes /\ c \notin listed /\ c # running_task /\ c # Kernel /\ created' = c
  BY <1>1, ProcessAssumption DEF Nodes, Kernel, NewTask
<1>3. listed \subseteq Nodes
  BY <1>1, ProcessAssumption DEF Nodes
<1>4. /\ upc \in [Nodes -> Places] /\ cmd \in [Nodes -> Lines]
      /\ pid \in [Nodes -> Nat] /\ ppid \in [Nodes -> Nat \cup {NoPid}]
  BY DEF SInv, Programs, Consistent, TypeOK
<1>5. upc' \in [Nodes -> Places] /\ cmd' \in [Nodes -> Lines]
  BY Zenon, <1>1, <1>2, <1>4
<1>6. \A n \in Nodes :
        upc'[n] = IF n = c THEN first ELSE IF n = running_task THEN place ELSE upc[n]
  BY <1>1, <1>2, <1>4
<1>7. \A n \in Nodes : cmd'[n] = IF n = c THEN cmd[running_task] ELSE cmd[n]
  BY <1>1, <1>2, <1>4
<1>8. pid' = [pid EXCEPT ![c] = p] /\ ppid' = [ppid EXCEPT ![c] = pp]
  BY DEF NewTask
<1>9. \A n \in Nodes : pid'[n] = IF n = c THEN p ELSE pid[n]
  BY Zenon, <1>2, <1>4, <1>8
<1>10. \A n \in Nodes : ppid'[n] = IF n = c THEN pp ELSE ppid[n]
  BY <1>2, <1>4, <1>8
<1>11. Programs'
  BY Zenon, <1>1, <1>2, <1>5, <1>6, <1>7 DEF SInv, Programs
<1>12. Forked'
  <2>1. pid'[Kernel] = 0
    BY <1>2, <1>9, ProcessAssumption DEF Kernel, Nodes, SInv, Forked
  <2>2. ASSUME NEW n \in listed' \ {Kernel}
        PROVE  ppid'[n] \in Nat /\ (upc'[n] \notin ShellPlaces => ppid'[n] # 0)
    <3>1. CASE n = c
      BY <1>2, <1>10, <3>1
    <3>2. CASE n # c
      <4>1. n \in listed \ {Kernel} /\ n \in Nodes
        BY <1>3, <2>2, <3>2
      <4>2. ppid'[n] = ppid[n] /\ upc'[n] = IF n = running_task THEN place ELSE upc[n]
        BY Zenon, <1>6, <1>10, <3>2, <4>1
      <4> QED
        BY <1>1, <4>1, <4>2 DEF SInv, Forked
    <3> QED
      BY <3>1, <3>2
  <2> QED
    BY Zenon, <2>1, <2>2 DEF Forked
<1>13. PidsUnique'
  <2> SUFFICES ASSUME NEW m \in listed', NEW n \in listed', pid'[m] = pid'[n] PROVE m = n
    BY DEF PidsUnique
  <2>1. \A k \in listed' : k \in Nodes /\ (k = c \/ k \in listed)
    BY <1>2, <1>3
  <2> QED
    BY <1>9, <2>1 DEF SInv, PidsUnique
<1> QED
  BY <1>11, <1>12, <1>13 DEF SInv

LEMMA ForkSInv == ASSUME Consistent, SInv, Fork PROVE SInv'
<1> DEFINE c == created + 1
<1>1. InUser /\ upc[running_task] = "fork" /\ SysFork
  BY DEF Fork, At
<1>2. c <= MaxTasks /\ NewTask(c, PID, pid[running_task]) /\ listed' = listed \cup {c}
  BY <1>1 DEF SysFork
<1>3. PID \in Nat /\ pid[running_task] \in Nat \ {0}
  BY <1>1, CallerFacts DEF Consistent, TypeOK
<1>4. \A n \in listed : pid[n] # PID
  <2>1. pid \in [Nodes -> Nat] /\ created \in Nodes /\ listed \subseteq 1 .. created
    BY DEF Consistent, TypeOK
  <2>2. listed \subseteq Nodes
    BY <2>1, ProcessAssumption DEF Nodes
  <2> QED
    BY <1>3, <2>1, <2>2 DEF Consistent, PidsOrdered
<1>5. upc' = [upc EXCEPT ![running_task] = "yield", ![created'] = "exec"]
      /\ cmd' = [cmd EXCEPT ![created'] = cmd[running_task]]
  BY DEF Fork
<1>6. "yield" \in Places \ {"sleep", "kill"} /\ "exec" \in Places \ {"sleep", "kill"}
      /\ "yield" \in ShellPlaces
  BY DEF Places, ShellPlaces
<1>7. \A n \in listed' \ {c} : pid[n] # PID
  BY <1>2, <1>4
<1>8. listed' \subseteq listed \cup {c}
  BY <1>2
<1> HIDE DEF c
<1> QED
  BY Zenon, <1>1, <1>2, <1>3, <1>5, <1>6, <1>7, <1>8, NewTaskSInv DEF c

LEMMA ExecSInv == ASSUME Consistent, SInv, Exec PROVE SInv'
<1> DEFINE c == created + 1
           line == cmd[running_task]
<1>1. InUser /\ upc[running_task] = "exec" /\ upc[running_task] \notin ShellPlaces
  BY DEF Exec, At, ShellPlaces
<1>2. "none" \in Places \ {"sleep", "kill"}
  BY DEF Places
<1>3. CASE line.prog = "missing"
  <2>1. SysExit /\ Goto("none") /\ UNCHANGED cmd
    BY <1>3 DEF Exec
  <2> QED
    BY <1>1, <1>2, <2>1, GotoKeeps, NamesAndList DEF SInv, Programs
<1>4. CASE line.prog # "missing"
  <2>1. /\ SysExec
        /\ upc' = [upc EXCEPT ![running_task] = "none", ![created'] = Entry(line.prog)]
        /\ cmd' = [cmd EXCEPT ![created'] = line]
    BY <1>4 DEF Exec
  <2>2. /\ c <= MaxTasks /\ NewTask(c, pid[running_task], ppid[running_task])
        /\ listed' = (listed \ {running_task}) \cup {c}
    BY <2>1 DEF SysExec
  <2>3. /\ pid[running_task] \in Nat /\ ppid[running_task] \in Nat \ {0}
        /\ running_task \in listed
    BY <1>1, CallerFacts
  <2>4. \A n \in listed' \ {c} : pid[n] # pid[running_task]
    BY <2>2, <2>3 DEF SInv, PidsUnique
  <2>5. /\ Entry(line.prog) \in Places
        /\ Entry(line.prog) \in {"sleep", "kill"} => line.prog = Entry(line.prog)
    BY DEF Entry, Places, ShellPlaces
  <2>6. listed' \subseteq listed \cup {c}
    BY <2>2
  <2> HIDE DEF c
  <2> QED
    BY Zenon, <1>1, <1>2, <2>1, <2>2, <2>3, <2>4, <2>5, <2>6, NewTaskSInv DEF c
<1> QED
  BY <1>3, <1>4

LEMMA NextSInv == ASSUME Consistent, SInv, [SessionNext]_sessionVars PROVE SInv'
<1>1. \A place \in {"gets", "fork", "wait", "exit", "none"} :
        place \in Places \ {"sleep", "kill"} /\ (place \in {"exit", "none"} <=> place \notin ShellPlaces)
  BY DEF Places, ShellPlaces
<1>2. cmd \in [Nodes -> Lines]
  BY DEF SInv, Programs
<1>3. CASE Yield \/ Wait
  <2>1. InUser /\ (Goto("wait") \/ Goto("gets")) /\ UNCHANGED <<pid, ppid, listed, cmd>>
    BY <1>3, NamesAndList DEF Yield, Wait, At
  <2> QED
    BY Zenon, <1>1, <1>2, <2>1, GotoKeeps
<1>4. CASE Sleep \/ Kill \/ Exit
  <2>1. InUser /\ upc[running_task] \notin ShellPlaces
    BY <1>4 DEF Sleep, Kill, Exit, At, ShellPlaces
  <2>2. (Goto("exit") \/ Goto("none")) /\ UNCHANGED <<pid, ppid, cmd>> /\ listed' \subseteq listed
    BY <1>4, NamesAndList DEF Sleep, Kill, Exit
  <2> QED
    BY Zenon, <1>1, <1>2, <2>1, <2>2, GotoKeeps
<1>5. ASSUME NEW l \in Commands, Gets(l) PROVE SInv'
  <2>1. InUser /\ Goto("fork") /\ UNCHANGED <<pid, ppid, listed>>
    BY <1>5, NamesAndList DEF Gets, At
  <2>2. cmd' = [cmd EXCEPT ![running_task] = l] /\ l \in Lines
    BY <1>5 DEF Gets, Lines
  <2>3. cmd' \in [Nodes -> Lines] /\ \A n \in Nodes \ {running_task} : cmd'[n] = cmd[n]
    BY Zenon, <1>2, <2>2
  <2> QED
    BY Zenon, <1>1, <2>1, <2>3, GotoKeeps
<1>6. CASE (Idle \/ Tick \/ UNCHANGED vars) /\ UNCHANGED <<upc, cmd>>
  <2>1. UNCHANGED <<pid, ppid, listed, upc, cmd>>
    BY <1>6, NamesAndList
  <2> QED
    BY <2>1 DEF SInv, Programs, Forked, PidsUnique
<1> QED
  BY Zenon, <1>3, <1>4, <1>5, <1>6, ForkSInv, ExecSInv
     DEF SessionNext, Machine, Timer, sessionVars

LEMMA AlwaysSInv == SessionSpec => [](Consistent /\ SInv)
<1>1. SessionInit => Consistent /\ SInv
  BY InitConsistent, InitSInv DEF SessionInit
<1>2. Consistent /\ SInv /\ [SessionNext]_sessionVars => Consistent' /\ SInv'
  BY StepRefines, NextConsistent, NextSInv
<1> QED
  BY <1>1, <1>2, PTL DEF SessionSpec

-----------------------------------------------------------------------------
(* Theorems *)

\* A session is a behaviour of Process: the shipped programs use the system
\* calls as Process assumes, and every theorem about Process holds of them.
THEOREM SessionImplementsProcess == SessionSpec => Spec
<1>1. SessionInit => Init
  BY DEF SessionInit
<1>2. Consistent /\ SInv /\ [SessionNext]_sessionVars => [Next]_vars
  BY StepRefines
<1> QED
  BY <1>1, <1>2, AlwaysSInv, PTL DEF SessionSpec, Spec

\* However commands are forked, executed and killed, no two listed tasks share
\* a pid, which kill and waitpid rely on.
THEOREM PidsStayUnique == SessionSpec => []PidsUnique
<1>1. SInv => PidsUnique
  BY DEF SInv
<1> QED
  BY <1>1, AlwaysSInv, PTL

\* bin/kill never asks for what sys_kill would do without a test to the kernel.
THEOREM KillStaysAllowed == SessionSpec => []KillIsAllowed
<1>1. ASSUME Consistent, SInv PROVE KillIsAllowed
  <2> SUFFICES ASSUME At("kill") PROVE MayKill(cmd[running_task].arg)
    BY DEF KillIsAllowed
  <2>1. ppid[running_task] # 0
    BY <1>1, CallerFacts DEF At, ShellPlaces
  <2> QED
    BY <1>1, <2>1 DEF SInv, Forked, MayKill
<1>2. Consistent /\ SInv => KillIsAllowed
  BY <1>1
<1> QED
  BY <1>2, AlwaysSInv, PTL

-----------------------------------------------------------------------------
(***************************************************************************)
(* The prompt waits for the foreground (ForegroundFirstAlone).             *)
(*                                                                         *)
(* wait() takes the first child in the list, so a foreground sleep could   *)
(* be missed if an older child stood before it.  None does: yield starts a *)
(* pass of the scheduler behind the shell, and an exec or exit restarts it *)
(* there (previous), so whoever is awake runs before the shell gets to its *)
(* wait.  The older foreground commands are awake, with their exit left,   *)
(* and are gone when the new one, last in the list, goes to sleep.         *)
(***************************************************************************)

Shell == 2

Foreground == {n \in listed : 3 <= n /\ bg[n] # 1}

\* Some child has executed a shell: sessions with one shell never get here.
Nested == \E m \in 3 .. created : m \notin listed /\ cmd[m].prog = "oxterm"

\* The other tasks are commands of the shell.  They never wait, and of those in
\* the background only the exit is left.
Commanded ==
    \A n \in listed : 3 <= n =>
        /\ upc[n] \notin ShellPlaces /\ is_waiting[n] = 0 /\ ppid[n] = 1
        /\ bg[n] = 1 => upc[n] = "exit"

\* At the prompt, or blocked in the wait before it
Prompting ==
    \A n \in Foreground :
        /\ upc[n] = "exit"
        /\ IF is_waiting[Shell] = 0 THEN is_sleeping[n] = 0 ELSE pid[n] = is_waiting[Shell]

\* After the prompt: all foreground tasks are awake, and but for the one just
\* created about to exit.
Starting == \A n \in Foreground : is_sleeping[n] = 0 /\ (upc[n] # "exit" => n = created)

\* The yield has the scheduler pass down the list behind the shell, where each
\* foreground task runs in its turn.
Passing ==
    /\ Shell < running_task /\ previous = Shell
    /\ Starting /\ \A n \in Foreground : running_task <= n

\* The kernel's next scan is about to begin.
AtHead == running_task = Kernel /\ temp = Kernel /\ phase # "body"

\* The pass is over: one foreground task is left, if any.
Passed ==
    /\ running_task = Shell \/ AtHead
    /\ \A n \in Foreground : upc[n] = "exit"
    /\ \A m, n \in Foreground : m = n

Turned ==
    /\ upc[Shell] \in ShellPlaces /\ pid[Shell] = 1 /\ is_sleeping[Shell] = 0
    /\ upc[Shell] # "gets" => is_waiting[Shell] = 0
    /\ upc[Shell] = "gets" => Prompting
    /\ upc[Shell] = "fork" =>
        running_task = Shell /\ Starting /\ \A n \in Foreground : upc[n] = "exit"
    /\ upc[Shell] = "yield" => running_task = Shell /\ Starting
    /\ upc[Shell] = "wait" => Passing \/ Passed

Alone == Commanded /\ (Shell \in listed => Turned)

\* The invariants proved above
Good == Consistent /\ SInv

-----------------------------------------------------------------------------

\* Tasks are numbered from 1.
LEMMA NodesNumbers == Nodes \subseteq Nat /\ \A n \in Nodes : 1 <= n
BY ProcessAssumption DEF Nodes

\* The first prompt
LEMMA InitAlone == ASSUME SessionInit PROVE Alone
<1> USE ProcessAssumption DEF SessionInit, Init, Nodes, Kernel, NoPid, Shell
<1>1. /\ listed = {1, 2} /\ pid[2] = 1 /\ is_sleeping[2] = 0 /\ upc[2] = "gets"
  OBVIOUS
<1> HIDE DEF SessionInit, Init
<1>2. \A n \in listed : ~(3 <= n)
  BY <1>1
<1>3. Foreground = {}
  BY Zenon, <1>2 DEF Foreground
<1> QED
  BY Zenon, <1>1, <1>2, <1>3 DEF Alone, Commanded, Turned, Prompting, ShellPlaces

\* What the lemmas below take from the invariants
LEMMA GoodFacts ==
    ASSUME Good
    PROVE  /\ listed \subseteq Nodes /\ \A n \in listed : n \in 1 .. created
           /\ created \in Nodes /\ running_task \in listed /\ previous \in listed
           /\ Kernel \in listed /\ Shell \in Nodes /\ Nodes \subseteq Nat
           /\ pid \in [Nodes -> Nat] /\ ppid \in [Nodes -> Nat \cup {NoPid}]
           /\ is_waiting \in [Nodes -> Nat] /\ is_sleeping \in [Nodes -> {0, 1}]
           /\ bg \in [Nodes -> {0, 1}] /\ upc \in [Nodes -> Places] /\ cmd \in [Nodes -> Lines]
           /\ phase = "user" <=> running_task # Kernel
           /\ is_sleeping[running_task] = 0 /\ is_waiting[running_task] = 0
<1>1. /\ TypeOK /\ KernelKept /\ PreviousListed /\ RunningRunnable /\ ScanProgress
  BY DEF Good, Consistent
<1>2. upc \in [Nodes -> Places] /\ cmd \in [Nodes -> Lines]
  BY DEF Good, SInv, Programs
<1>3. listed \subseteq Nodes /\ Shell \in Nodes /\ Nodes \subseteq Nat
  BY <1>1, ProcessAssumption DEF TypeOK, Nodes, Shell
<1>4. is_sleeping[running_task] = 0 /\ is_waiting[running_task] = 0
  BY <1>1 DEF RunningRunnable, Blocked, TypeOK
<1> QED
  BY Zenon, <1>1, <1>2, <1>3, <1>4 DEF TypeOK, KernelKept, PreviousListed, ScanProgress

\* A scan from s stops at or before every runnable task behind s.
LEMMA FirstRunnable ==
    ASSUME ListKept', NEW s \in Nodes, NEW e \in listed', NEW waits \in [Nodes -> Nat],
           ScanEnds(s, e, waits),
           NEW n \in listed', s < n, ~Blocked(n, is_sleeping', waits)
    PROVE  Successor(e) # Kernel /\ Successor(e) <= n
<1>1. /\ listed' \subseteq Nodes /\ Threaded(queue_head', next', listed')
  BY ListKeptFacts
<1>2. e \in Nat /\ n \in Nat /\ s \in Nat /\ 1 <= s /\ s <= e
  BY <1>1, ProcessAssumption DEF ScanEnds, Nodes
<1>3. e < n
  BY <1>2 DEF ScanEnds
<1>4. next'[e] # NULL
  BY <1>1, <1>2, <1>3 DEF Threaded
<1>5. next'[e] \in listed' /\ e < next'[e] /\ (n <= e \/ next'[e] <= n)
  BY <1>1, <1>4 DEF Threaded
<1>6. next'[e] \in Nat
  BY Zenon, <1>1, <1>5, NodesNumbers
<1> QED
  BY <1>2, <1>3, <1>4, <1>5, <1>6 DEF Successor, Kernel

\* A scan from the shell
LEMMA ScanFromShell ==
    ASSUME ListKept', NEW waits \in [Nodes -> Nat], NEW me, NEW first, NEW ctx,
           Shell \in listed', ScheduleFrom(Shell, me, first, ctx, waits),
           ~Blocked(Kernel, is_sleeping', waits),
           \A n \in Foreground' : is_sleeping'[n] = 0 /\ waits[n] = 0
    PROVE  /\ Shell < running_task' \/ (AtHead' /\ Foreground' = {})
           /\ \A n \in Foreground' : running_task' <= n
<1>1. PICK e \in listed' : ScanEnds(Shell, e, waits) /\ Dispatch(Successor(e))
  BY DEF ScheduleFrom
<1>2. /\ listed' \subseteq Nodes /\ Threaded(queue_head', next', listed')
      /\ next' \in [Nodes -> Nodes \cup {NULL}] /\ queue_head' = Kernel
  BY ListKeptFacts
<1>3. Shell \in Nodes
  BY <1>2
<1>4. Successor(e) = Kernel \/ Shell < Successor(e)
  BY <1>1, <1>2, <1>3, ScanResult
<1>5. ASSUME NEW n \in Foreground' PROVE Successor(e) # Kernel /\ Successor(e) <= n
  <2>1. n \in listed' /\ Shell < n /\ ~Blocked(n, is_sleeping', waits)
    BY <1>2 DEF Foreground, Blocked, Shell, Nodes
  <2> QED
    BY Zenon, <1>1, <1>3, <2>1, FirstRunnable
<1>6. /\ running_task' = Successor(e)
      /\ Successor(e) = Kernel => AtHead'
  BY <1>1 DEF Dispatch, AtHead
<1>7. Successor(e) = Kernel => Foreground' = {}
  BY <1>5
<1> QED
  BY <1>4, <1>5, <1>6, <1>7

\* The same of schedule(1), after a task was removed
LEMMA NextFromShell ==
    ASSUME ListKept', NEW waits \in [Nodes -> Nat], NEW ctx, previous = Shell,
           Shell \in listed', ScheduleNext(ctx, waits),
           ~Blocked(Kernel, is_sleeping', waits),
           \A n \in Foreground' : is_sleeping'[n] = 0 /\ waits[n] = 0
    PROVE  /\ Shell < running_task' \/ (AtHead' /\ Foreground' = {})
           /\ \A n \in Foreground' : running_task' <= n
           /\ previous' = Shell
<1>1. previous' = Shell
  BY DEF ScheduleNext
<1>2. CASE next'[Shell] = NULL
  <2>1. Dispatch(queue_head') /\ queue_head' = Kernel
    BY <1>2, ListKeptFacts DEF ScheduleNext
  <2>2. AtHead'
    BY <2>1 DEF Dispatch, AtHead
  <2>3. \A m \in listed' : m <= Shell /\ m \in Nat
    BY <1>2, ListKeptFacts DEF Threaded, Nodes
  <2>4. Foreground' = {}
    BY <2>3 DEF Foreground, Shell
  <2> QED
    BY Zenon, <1>1, <2>2, <2>4
<1>3. CASE next'[Shell] # NULL
  <2>1. ScheduleFrom(Shell, Shell, 1, ctx, waits)
    BY <1>3 DEF ScheduleNext
  <2> QED
    BY Zenon, <1>1, <2>1, ScanFromShell
<1> QED
  BY <1>2, <1>3

\* A scan from the last task goes to the kernel.
LEMMA ScanFromLast ==
    ASSUME ListKept', NEW waits, NEW ctx, Schedule(ctx, waits),
           running_task = created, \A n \in listed' : n <= created, running_task \in Nodes
    PROVE  AtHead'
<1>1. PICK e \in listed' : ScanEnds(running_task, e, waits) /\ Dispatch(Successor(e))
  BY DEF Schedule, ScheduleFrom
<1>2. /\ listed' \subseteq Nodes /\ Threaded(queue_head', next', listed')
      /\ queue_head' = Kernel
  BY ListKeptFacts
<1>3. e \in Nat /\ created \in Nat /\ e = created
  BY <1>1, <1>2 DEF ScanEnds, Nodes
<1>4. ASSUME next'[e] # NULL PROVE FALSE
  <2>1. next'[e] \in listed' /\ e < next'[e]
    BY <1>2, <1>4 DEF Threaded
  <2>2. next'[e] \in Nat /\ next'[e] <= e
    BY <1>2, <1>3, <2>1, NodesNumbers
  <2> QED
    BY <1>3, <2>1, <2>2
<1> QED
  BY Zenon, <1>1, <1>2, <1>4 DEF Successor, Dispatch, AtHead

\* What a scan does to the waits: a wait ends when nobody of that pid sleeps.
EndedOnly(waits) ==
    \A n \in Nodes : \/ is_waiting'[n] = waits[n]
                     \/ /\ is_waiting'[n] = 0
                        /\ \A m \in listed' : pid'[m] = waits[n] => is_sleeping'[m] = 0

\* As pids are unique, a child that is done is not asleep.
LEMMA DoneAwake ==
    ASSUME PidsUnique', listed' \subseteq Nat, NEW p,
           ChildDone(listed', pid', is_sleeping', p)
    PROVE  \A m \in listed' : pid'[m] = p => is_sleeping'[m] = 0
<1> SUFFICES ASSUME NEW m \in listed', pid'[m] = p PROVE is_sleeping'[m] = 0
  OBVIOUS
<1>1. \A k \in WithPid(listed', pid', p) : k = m
  BY DEF WithPid, PidsUnique
<1>2. m \in WithPid(listed', pid', p) /\ m <= m
  BY DEF WithPid
<1>3. IsFirst(m, WithPid(listed', pid', p))
  BY <1>1, <1>2 DEF IsFirst
<1> QED
  BY <1>3 DEF ChildDone

\* schedule, from wherever it starts
LEMMA ScanEndsWaits ==
    ASSUME PidsUnique', listed' \subseteq Nat, NEW waits \in [Nodes -> Nat],
           NEW s, NEW me, NEW first, NEW ctx, ScheduleFrom(s, me, first, ctx, waits)
    PROVE  EndedOnly(waits)
<1>1. PICK e \in listed' : is_waiting' = Released(s, e, waits)
  BY DEF ScheduleFrom
<1> SUFFICES ASSUME NEW n \in Nodes, is_waiting'[n] # waits[n]
             PROVE  /\ is_waiting'[n] = 0
                    /\ \A m \in listed' : pid'[m] = waits[n] => is_sleeping'[m] = 0
  BY DEF EndedOnly
<1>2. is_waiting'[n] = 0 /\ ChildDone(listed', pid', is_sleeping', waits[n])
  BY <1>1 DEF Released
<1> QED
  BY <1>2, DoneAwake

\* schedule(1)
LEMMA NextEndsWaits ==
    ASSUME PidsUnique', listed' \subseteq Nat, NEW waits \in [Nodes -> Nat], NEW ctx,
           ScheduleNext(ctx, waits)
    PROVE  EndedOnly(waits)
<1>1. CASE is_waiting' = waits
  BY <1>1 DEF EndedOnly
<1>2. CASE ScheduleFrom(previous, previous, 1, ctx, waits)
  BY <1>2, ScanEndsWaits
<1> QED
  BY <1>1, <1>2 DEF ScheduleNext

\* The kernel's scan
LEMMA IdleEndsWaits ==
    ASSUME Good, Good', phase # "user", ReleaseTemp, UNCHANGED <<listed, pid, is_sleeping>>
    PROVE  EndedOnly(is_waiting)
<1>1. temp \in Nodes /\ is_waiting \in [Nodes -> Nat]
  BY IdleFacts DEF Good
<1>2. listed' \subseteq Nat /\ PidsUnique'
  BY GoodFacts DEF Good, SInv
<1>3. CASE is_waiting' = is_waiting
  BY <1>3 DEF EndedOnly
<1>4. CASE /\ is_waiting' = [is_waiting EXCEPT ![temp] = 0]
           /\ ChildDone(listed, pid, is_sleeping, is_waiting[temp])
  <2>1. ChildDone(listed', pid', is_sleeping', is_waiting[temp])
    BY Zenon, <1>4
  <2>2. \A m \in listed' : pid'[m] = is_waiting[temp] => is_sleeping'[m] = 0
    BY Zenon, <1>2, <2>1, DoneAwake
  <2>3. \A n \in Nodes : is_waiting'[n] = IF n = temp THEN 0 ELSE is_waiting[n]
    BY <1>1, <1>4
  <2> QED
    BY <2>2, <2>3 DEF EndedOnly
<1> QED
  BY <1>3, <1>4 DEF ReleaseTemp

\* What they take from the invariants after the step
LEMMA GoodNext ==
    ASSUME Good'
    PROVE  /\ ListKept' /\ PidsUnique' /\ listed' \subseteq Nodes /\ listed' \subseteq Nat
           /\ is_waiting' \in [Nodes -> Nat] /\ is_sleeping' \in [Nodes -> {0, 1}]
           /\ ~Blocked(Kernel, is_sleeping', is_waiting')
<1>1. Consistent' /\ PidsUnique'
  BY DEF Good, SInv
<1>2. ListKept' /\ TypeOK' /\ KernelKept'
  BY <1>1 DEF Consistent, ListKept, TypeOK, KernelKept
<1>3. listed' \subseteq Nodes
  BY <1>2, ListKeptFacts
<1>4. listed' \subseteq Nat
  BY <1>3, NodesNumbers
<1> QED
  BY <1>1, <1>2, <1>3, <1>4 DEF TypeOK, KernelKept

\* A command that stays one
LEMMA CommandedKept ==
    ASSUME Commanded, listed' \subseteq listed, ppid' = ppid,
           \A n \in listed' : 3 <= n =>
              /\ is_waiting'[n] \in {0, is_waiting[n]}
              /\ upc'[n] = "exit" \/ (upc'[n] = upc[n] /\ bg'[n] = bg[n])
    PROVE  Commanded'
BY Zenon DEF Commanded, ShellPlaces

\* Steps of others while the shell is at the prompt or waits
LEMMA PromptingKept ==
    ASSUME Good, Good', Alone, Shell \in listed', upc[Shell] = "gets",
           UNCHANGED <<pid, bg>>, listed' \subseteq listed, EndedOnly(is_waiting),
           \A n \in listed' : upc'[n] = upc[n] /\ is_sleeping'[n] \in {0, is_sleeping[n]}
    PROVE  Turned'
<1>1. Turned /\ Prompting /\ Shell \in listed
  BY DEF Alone, Turned
<1>2. Foreground' \subseteq Foreground /\ Foreground' \subseteq listed'
  BY DEF Foreground
<1>3. \/ is_waiting'[Shell] = is_waiting[Shell]
      \/ /\ is_waiting'[Shell] = 0
         /\ \A m \in listed' : pid'[m] = is_waiting[Shell] => is_sleeping'[m] = 0
  BY GoodFacts DEF EndedOnly
<1>4. ASSUME NEW n \in Foreground'
      PROVE  /\ upc'[n] = "exit"
             /\ IF is_waiting'[Shell] = 0 THEN is_sleeping'[n] = 0
                                        ELSE pid'[n] = is_waiting'[Shell]
  <2>1. n \in Foreground /\ n \in listed' /\ upc'[n] = upc[n] /\ pid'[n] = pid[n]
    BY Zenon, <1>2
  <2>2. /\ upc[n] = "exit"
        /\ IF is_waiting[Shell] = 0 THEN is_sleeping[n] = 0 ELSE pid[n] = is_waiting[Shell]
    BY <1>1, <2>1 DEF Prompting
  <2>3. is_sleeping'[n] \in {0, is_sleeping[n]}
    BY Zenon, <2>1
  <2> QED
    BY Zenon, <1>3, <2>1, <2>2, <2>3
<1>5. Prompting'
  BY Zenon, <1>4 DEF Prompting
<1>6. /\ upc'[Shell] = "gets" /\ pid'[Shell] = 1 /\ is_sleeping'[Shell] = 0
  BY <1>1 DEF Turned
<1> QED
  BY Zenon, <1>5, <1>6 DEF Turned, ShellPlaces

\* A program other than the shell runs
LEMMA OtherRuns ==
    ASSUME Good, Alone, Shell \in listed, InUser, running_task # Shell
    PROVE  /\ upc[Shell] = "gets" \/ (upc[Shell] = "wait" /\ Passing)
           /\ upc[running_task] # "exit" =>
                /\ upc[Shell] = "wait" /\ Passing
                /\ running_task = created /\ Foreground = {created}
<1>1. /\ running_task \in listed /\ running_task \in Nat /\ running_task # Kernel
      /\ 3 <= running_task /\ \A n \in listed : n <= created /\ n \in Nat
  <2>1. /\ running_task \in listed /\ running_task \in Nodes /\ running_task # Kernel
        /\ \A n \in listed : n <= created /\ n \in Nodes
    BY GoodFacts DEF InUser
  <2>2. \A n \in Nodes : n \in Nat /\ 1 <= n
    BY NodesNumbers
  <2> QED
    BY <2>1, <2>2 DEF Kernel, Shell
<1>2. upc[Shell] = "gets" \/ (upc[Shell] = "wait" /\ Passing)
  BY <1>1 DEF Alone, Turned, ShellPlaces, Passed, AtHead
<1>3. ASSUME upc[running_task] # "exit"
      PROVE  /\ upc[Shell] = "wait" /\ Passing
             /\ running_task = created /\ Foreground = {created}
  <2>1. running_task \in Foreground
    BY Zenon, <1>1, <1>3 DEF Foreground, Alone, Commanded
  <2>2. upc[Shell] # "gets"
    BY <1>3, <2>1 DEF Alone, Turned, Prompting
  <2>3. Passing /\ running_task = created
    BY Zenon, <1>2, <1>3, <2>1, <2>2 DEF Passing, Starting
  <2>4. \A n \in Foreground : n = created
    BY <1>1, <2>3 DEF Passing, Foreground
  <2> QED
    BY Zenon, <1>2, <2>1, <2>2, <2>3, <2>4
<1> QED
  BY <1>2, <1>3

\* Who is in the shell's loop is the shell.
LEMMA ShellRuns ==
    ASSUME Good, Alone, InUser, upc[running_task] \in ShellPlaces
    PROVE  running_task = Shell /\ Shell \in listed /\ Turned
<1>1. running_task \in listed /\ running_task \in Nat /\ running_task # Kernel /\ 1 <= running_task
  BY GoodFacts DEF InUser, Nodes
<1>2. ~(3 <= running_task)
  BY <1>1 DEF Alone, Commanded
<1> QED
  BY <1>1, <1>2 DEF Kernel, Shell, Alone

\* gets
LEMMA GetsAlone == ASSUME Good, Good', Alone, NEW l, Gets(l) PROVE Alone'
<1>1. running_task = Shell /\ Shell \in listed /\ Turned /\ upc[Shell] = "gets"
  BY Zenon, ShellRuns DEF Gets, At, ShellPlaces
<1>2. UNCHANGED <<listed, pid, ppid, created, bg, is_sleeping, is_waiting, running_task>>
  BY DEF Gets, vars, listVars, nameVars, sleepVars, cpuVars
<1>3. Shell \in Nodes /\ upc \in [Nodes -> Places] /\ is_waiting[Shell] = 0 /\ listed \subseteq Nodes
  BY Zenon, <1>1, GoodFacts
<1>4. \A n \in Nodes : upc'[n] = IF n = Shell THEN "fork" ELSE upc[n]
  BY Zenon, <1>1, <1>3 DEF Gets, Goto
<1>5. \A n \in Foreground : upc[n] = "exit" /\ is_sleeping[n] = 0
  BY Zenon, <1>1, <1>3 DEF Turned, Prompting
<1>6. Foreground' = Foreground /\ \A n \in Foreground : n \in Nodes /\ n # Shell
  BY <1>2, <1>3 DEF Foreground, Shell
<1>7. Commanded'
  BY <1>2, <1>3, <1>4 DEF Alone, Commanded, Shell
<1>8. Starting' /\ \A n \in Foreground' : upc'[n] = "exit"
  BY Zenon, <1>2, <1>4, <1>5, <1>6 DEF Starting
<1>9. Turned'
  BY Zenon, <1>1, <1>2, <1>3, <1>4, <1>8 DEF Turned, ShellPlaces
<1> QED
  BY Zenon, <1>7, <1>9 DEF Alone

\* fork
LEMMA ForkAlone == ASSUME Good, Good', Alone, Fork PROVE Alone'
<1> DEFINE c == created + 1
<1>1. running_task = Shell /\ Shell \in listed /\ Turned /\ upc[Shell] = "fork"
  BY Zenon, ShellRuns DEF Fork, At, ShellPlaces
<1>2. /\ c <= MaxTasks /\ NewTask(c, PID, pid[Shell]) /\ listed' = listed \cup {c}
      /\ is_waiting' = FreshWait(c) /\ running_task' = running_task /\ created' = c
  BY <1>1 DEF Fork, SysFork, NewTask
<1>3. /\ Shell \in Nodes /\ upc \in [Nodes -> Places] /\ listed \subseteq Nodes
      /\ created \in Nat /\ \A n \in listed : n \in Nat /\ n <= created
  BY GoodFacts DEF Nodes
<1>4. c \in Nodes /\ c \notin listed /\ 3 <= c
  BY <1>1, <1>2, <1>3 DEF Nodes, Shell
<1>5. /\ ppid'[c] = pid[Shell] /\ is_waiting'[c] = 0 /\ bg'[c] = 0 /\ is_sleeping'[c] = 0
      /\ \A n \in listed : /\ ppid'[n] = ppid[n] /\ is_waiting'[n] = is_waiting[n]
                          /\ bg'[n] = bg[n] /\ is_sleeping'[n] = is_sleeping[n]
                          /\ pid'[n] = pid[n]
  BY Zenon, <1>2, <1>3, <1>4, GoodFacts DEF NewTask, FreshWait
<1>6. upc'[c] = "exec" /\ upc'[Shell] = "yield"
      /\ \A n \in listed \ {Shell} : upc'[n] = upc[n]
  BY Zenon, <1>1, <1>2, <1>3, <1>4 DEF Fork
<1>7. /\ pid[Shell] = 1 /\ is_sleeping[Shell] = 0 /\ is_waiting[Shell] = 0 
      /\ Starting /\ \A n \in Foreground : upc[n] = "exit"
  BY <1>1 DEF Turned
<1>8. Commanded'
  <2> HIDE DEF c
  <2> SUFFICES ASSUME NEW n \in listed', 3 <= n
               PROVE  /\ upc'[n] \notin ShellPlaces /\ is_waiting'[n] = 0 /\ ppid'[n] = 1
                      /\ bg'[n] = 1 => upc'[n] = "exit"
    BY DEF Commanded
  <2>1. CASE n = c
    BY <2>1, <1>5, <1>6, <1>7 DEF ShellPlaces
  <2>2. CASE n # c
    <3>1. n \in listed /\ n # Shell
      BY <1>2, <2>2 DEF Shell
    <3> QED
      BY Zenon, <1>5, <1>6, <3>1 DEF Alone, Commanded
  <2> QED
    BY <2>1, <2>2
<1>9. Starting'
  <2> HIDE DEF c
  <2> SUFFICES ASSUME NEW n \in Foreground'
               PROVE  is_sleeping'[n] = 0 /\ (upc'[n] # "exit" => n = created')
    BY Zenon DEF Starting
  <2>1. CASE n = c
    BY Zenon, <1>2, <1>5, <2>1
  <2>2. CASE n # c
    <3>1. n \in listed /\ n # Shell /\ n \in Foreground
      BY <1>2, <1>5, <2>2 DEF Shell, Foreground
    <3> QED
      BY Zenon, <1>5, <1>6, <1>7, <3>1 DEF Starting
  <2> QED
    BY Zenon, <2>1, <2>2
<1>10. Turned'
  BY Zenon, <1>1, <1>2, <1>5, <1>6, <1>7, <1>9 DEF Turned, ShellPlaces
<1> QED
  BY <1>8, <1>10 DEF Alone

\* What a yield, a sleep or a kill leaves of the waits
LEMMA ScheduleEnds ==
    ASSUME Good, Good', NEW waits \in [Nodes -> Nat], NEW ctx, Schedule(ctx, waits)
    PROVE  /\ EndedOnly(waits) /\ previous' = running_task
           /\ \A n \in Nodes : is_waiting'[n] \in {0, waits[n]}
<1>1. EndedOnly(waits)
  BY Zenon, GoodNext, ScanEndsWaits DEF Schedule
<1> QED
  BY Zenon, <1>1 DEF EndedOnly, Schedule

\* yield
LEMMA YieldAlone == ASSUME Good, Good', Alone, Yield PROVE Alone'
<1>1. running_task = Shell /\ Shell \in listed /\ Turned /\ upc[Shell] = "yield" /\ InUser
  BY Zenon, ShellRuns DEF Yield, At, ShellPlaces
<1>2. UNCHANGED <<listed, pid, ppid, created, bg, is_sleeping>> /\ Schedule(rsp, is_waiting)
  BY Zenon DEF Yield, SysYield, listVars, nameVars, sleepVars
<1>3. /\ Shell \in Nodes /\ upc \in [Nodes -> Places] /\ listed \subseteq Nodes
      /\ is_waiting \in [Nodes -> Nat]
  BY Zenon, GoodFacts
<1>4. \A n \in Nodes : upc'[n] = IF n = Shell THEN "wait" ELSE upc[n]
  BY Zenon, <1>1, <1>3 DEF Yield, Goto
<1>5. previous' = Shell /\ \A n \in Nodes : is_waiting'[n] \in {0, is_waiting[n]}
  BY Zenon, <1>1, <1>2, <1>3, ScheduleEnds
<1>6. Foreground' = Foreground /\ \A n \in Foreground : n \in listed /\ 3 <= n /\ n # Shell
  BY <1>2 DEF Foreground, Shell
<1>7. \A n \in Foreground' : is_sleeping'[n] = 0 /\ is_waiting[n] = 0
  BY Zenon, <1>1, <1>2, <1>6 DEF Turned, Starting, Alone, Commanded
<1>8. ~Blocked(Kernel, is_sleeping', is_waiting) /\ ScheduleFrom(Shell, Shell, 0, rsp, is_waiting)
  BY Zenon, <1>1, <1>2, UserFacts DEF Good, Schedule
<1>9. /\ Shell < running_task' \/ (AtHead' /\ Foreground' = {})
      /\ \A n \in Foreground' : running_task' <= n
  BY Zenon, <1>1, <1>2, <1>3, <1>7, <1>8, GoodNext, ScanFromShell
<1>10. Starting'
  BY Zenon, <1>1, <1>2, <1>3, <1>4, <1>6 DEF Turned, Starting
<1>11. Passing' \/ Passed'
  BY Zenon, <1>5, <1>9, <1>10 DEF Passing, Passed
<1>12. Turned'
  BY Zenon, <1>1, <1>2, <1>3, <1>4, <1>5, <1>11 DEF Turned, ShellPlaces
<1>13. Commanded'
  BY <1>2, <1>3, <1>4, <1>5, CommandedKept DEF Alone, Shell
<1> QED
  BY Zenon, <1>12, <1>13 DEF Alone

\* wait
LEMMA WaitAlone == ASSUME Good, Good', Alone, Wait PROVE Alone'
<1>1. running_task = Shell /\ Shell \in listed /\ Turned /\ upc[Shell] = "wait" /\ InUser
  BY Zenon, ShellRuns DEF Wait, At, ShellPlaces
<1>2. UNCHANGED <<listed, pid, ppid, created, bg, is_sleeping>>
  BY Zenon DEF Wait, SysWait, WaitFor, vars, listVars, nameVars, sleepVars
<1>3. /\ Shell \in Nodes /\ upc \in [Nodes -> Places] /\ listed \subseteq Nodes
      /\ is_waiting \in [Nodes -> Nat] /\ pid \in [Nodes -> Nat]
      /\ Kernel \in listed /\ \A n \in listed : n \in Nat /\ 1 <= n
  BY GoodFacts, NodesNumbers
<1>4. \A n \in Nodes : upc'[n] = IF n = Shell THEN "gets" ELSE upc[n]
  BY <1>1, <1>3 DEF Wait, Goto
<1>5. Foreground' = Foreground /\ \A n \in Foreground : n \in listed /\ 3 <= n /\ n # Shell
  BY <1>2 DEF Foreground, Shell
<1>6. /\ \A n \in Foreground : upc[n] = "exit"
      /\ \A m, n \in Foreground : m = n
  <2>1. ~Passing
    BY <1>1 DEF Passing, Shell
  <2> QED
    BY Zenon, <1>1, <2>1 DEF Turned, Passed
<1>7. Children(Shell) = Foreground
  <2>1. pid[Shell] = 1 /\ \A n \in listed : 3 <= n => ppid[n] = 1
    BY Zenon, <1>1 DEF Turned, Alone, Commanded
  <2>2. \A n \in listed : n # Kernel /\ n # Shell => 3 <= n
    BY <1>3 DEF Kernel, Shell
  <2>3. ppid[Shell] # 1 /\ ppid[Kernel] # 1
    <3>1. \A n \in listed : ppid[n] < pid[n]
      BY Zenon DEF Good, Consistent, PidsOrdered
    <3>2. pid[Kernel] = 0
      BY DEF Good, SInv, Forked
    <3> QED
      BY <1>1, <1>3, <2>1, <3>1, <3>2
  <2>4. ~(3 <= Kernel) /\ ~(3 <= Shell)
    BY DEF Kernel, Shell
  <2> QED
    BY Zenon, <2>1, <2>2, <2>3, <2>4 DEF Children, Foreground
<1>8. /\ Prompting'
      /\ \A n \in listed : 3 <= n => is_waiting'[n] \in {0, is_waiting[n]}
  <2>1. CASE Foreground = {} /\ UNCHANGED vars
    BY <1>5, <2>1 DEF Prompting, vars
  <2>2. ASSUME NEW k \in listed, IsFirst(k, Foreground),
               Schedule(rsp, [is_waiting EXCEPT ![Shell] = pid[k]])
        PROVE  <1>8!1 /\ <1>8!2
    <3> DEFINE waits == [is_waiting EXCEPT ![Shell] = pid[k]]
    <3>1. waits \in [Nodes -> Nat] /\ \A n \in Nodes : n # Shell => waits[n] = is_waiting[n]
      BY <1>3
    <3>2. waits[Shell] = pid[k] /\ k \in Foreground
      BY Zenon, <1>3, <2>2 DEF IsFirst
    <3>3. Schedule(rsp, waits)
      BY Zenon, <2>2
    <3> HIDE DEF waits
    <3>4. EndedOnly(waits) /\ \A n \in Nodes : is_waiting'[n] \in {0, waits[n]}
      BY Zenon, <3>1, <3>3, ScheduleEnds
    <3>5. pid[k] # 0
      <4>1. ppid[k] = 1 /\ ppid[k] < pid[k]
        BY Zenon, <1>5, <3>2 DEF Alone, Commanded, Good, Consistent, PidsOrdered
      <4> QED
        BY <4>1
    <3>6. ASSUME NEW n \in Foreground'
          PROVE  /\ upc'[n] = "exit"
                 /\ IF is_waiting'[Shell] = 0 THEN is_sleeping'[n] = 0
                                            ELSE pid'[n] = is_waiting'[Shell]
      <4>1. n = k /\ n \in listed /\ n \in listed' /\ n # Shell /\ upc[n] = "exit"
        BY Zenon, <1>2, <1>5, <1>6, <3>2
      <4>2. upc'[n] = "exit" /\ pid'[n] = pid[k]
        BY Zenon, <1>2, <1>3, <1>4, <4>1
      <4>3. \/ is_waiting'[Shell] = pid[k]
            \/ is_waiting'[Shell] = 0 /\ is_sleeping'[n] = 0
        BY Zenon, <1>3, <3>2, <3>4, <4>1, <4>2 DEF EndedOnly
      <4> QED
        BY Zenon, <3>5, <4>2, <4>3
    <3>7. Prompting'
      BY <3>6 DEF Prompting
    <3>8. \A n \in listed : 3 <= n => n \in Nodes /\ n # Shell
      BY <1>3 DEF Shell
    <3> QED
      BY <3>1, <3>4, <3>7, <3>8
  <2> QED
    BY Zenon, <1>1, <1>7, <2>1, <2>2 DEF Wait, SysWait, WaitFor
<1>9. Turned'
  BY Zenon, <1>1, <1>2, <1>3, <1>4, <1>8 DEF Turned, ShellPlaces
<1>10. Commanded'
  BY <1>2, <1>3, <1>4, <1>8, CommandedKept DEF Alone, Shell
<1> QED
  BY <1>9, <1>10 DEF Alone

\* exit, by the end of a command, by exec of a missing file, and by kill
LEMMA LeaveAlone ==
    ASSUME Good, Good', Alone, InUser, running_task # Shell,
           DeleteCurr, UNCHANGED <<nameVars, sleepVars>>, ScheduleNext(rsp, is_waiting),
           \A n \in listed' : upc'[n] = upc[n]
    PROVE  Alone'
<1>1. /\ UNCHANGED <<pid, ppid, created, bg, is_sleeping>>
      /\ listed' = listed \ {running_task}
  BY Zenon DEF DeleteCurr, nameVars, sleepVars
<1>2. is_waiting \in [Nodes -> Nat] /\ listed' \subseteq listed /\ listed \subseteq Nodes
      /\ Shell \in Nodes
  BY Zenon, <1>1, GoodFacts
<1>3. EndedOnly(is_waiting)
  BY Zenon, <1>2, GoodNext, NextEndsWaits
<1>4. Commanded'
  BY Zenon, <1>1, <1>2, <1>3, CommandedKept DEF Alone, EndedOnly
<1>5. ASSUME Shell \in listed' PROVE Turned'
  <2>1. CASE upc[Shell] = "gets"
    BY Zenon, <1>1, <1>2, <1>3, <1>5, <2>1, PromptingKept
  <2>2. CASE upc[Shell] = "wait" /\ Passing
    <3>1. Shell \in listed /\ Turned /\ previous = Shell /\ Starting
      BY Zenon, <1>2, <1>5, <2>2 DEF Alone, Passing
    <3>2. Foreground' \subseteq Foreground /\ \A n \in Foreground' : n \in listed' /\ 3 <= n
      BY Zenon, <1>1 DEF Foreground
    <3>3. \A n \in Foreground' : is_sleeping'[n] = 0 /\ is_waiting[n] = 0
      BY Zenon, <1>1, <1>2, <3>1, <3>2 DEF Starting, Alone, Commanded
    <3>4. ~Blocked(Kernel, is_sleeping', is_waiting)
      BY Zenon, <1>1, UserFacts DEF Good
    <3>5. /\ Shell < running_task' \/ (AtHead' /\ Foreground' = {})
          /\ \A n \in Foreground' : running_task' <= n
          /\ previous' = Shell
      BY Zenon, <1>2, <1>5, <3>1, <3>3, <3>4, GoodNext, NextFromShell
    <3>6. Starting'
      BY Zenon, <1>1, <3>1, <3>2 DEF Starting
    <3>7. Passing' \/ Passed'
      BY Zenon, <3>5, <3>6 DEF Passing, Passed
    <3>8. is_waiting'[Shell] = 0 /\ upc'[Shell] = "wait"
      BY Zenon, <1>2, <1>3, <1>5, <2>2, <3>1 DEF EndedOnly, Turned
    <3> QED
      BY Zenon, <1>1, <3>1, <3>7, <3>8 DEF Turned, ShellPlaces
  <2> QED
    BY Zenon, <1>2, <1>5, <2>1, <2>2, OtherRuns
<1> QED
  BY Zenon, <1>4, <1>5 DEF Alone

\* Who is not in the shell's loop is not the shell.
LEMMA OtherCalls ==
    ASSUME Good, Alone, InUser, upc[running_task] \notin ShellPlaces
    PROVE  running_task # Shell /\ running_task \in listed /\ 3 <= running_task
<1>1. running_task \in listed /\ running_task \in Nat /\ 1 <= running_task /\ running_task # Kernel
  BY GoodFacts, NodesNumbers DEF InUser
<1>2. running_task # Shell
  BY <1>1 DEF Alone, Turned
<1> QED
  BY <1>1, <1>2 DEF Kernel, Shell

\* exit
LEMMA ExitAlone ==
    ASSUME Good, Good', Alone, InUser, upc[running_task] \notin ShellPlaces,
           SysExit, Goto("none")
    PROVE  Alone'
<1>1. running_task # Shell /\ running_task \in Nodes /\ upc \in [Nodes -> Places]
  BY Zenon, OtherCalls, GoodFacts
<1>2. \A n \in listed' : upc'[n] = upc[n]
  BY Zenon, <1>1, GoodNext DEF Goto, SysExit, DeleteCurr
<1> QED
  BY Zenon, <1>1, <1>2, LeaveAlone DEF SysExit

\* exec
LEMMA ExecAlone == ASSUME Good, Good', Alone, Exec PROVE Nested' \/ Alone'
<1> DEFINE c == created + 1  line == cmd[running_task]
<1>1. InUser /\ upc[running_task] = "exec" /\ upc[running_task] \notin ShellPlaces
  BY DEF Exec, At, ShellPlaces
<1>2. running_task # Shell /\ running_task \in listed /\ 3 <= running_task
  BY Zenon, <1>1, OtherCalls
<1>3. CASE line.prog = "missing"
  BY Zenon, <1>1, <1>3, ExitAlone DEF Exec
<1>4. CASE line.prog # "missing"
  <2>1. /\ c <= MaxTasks /\ NewTask(c, pid[running_task], ppid[running_task]) /\ created' = c
        /\ listed' = (listed \ {running_task}) \cup {c}
        /\ ScheduleNext(FreshContext(c), FreshWait(c))
    BY Zenon, <1>4 DEF Exec, SysExec, NewTask
  <2>2. /\ upc' = [upc EXCEPT ![running_task] = "none", ![c] = Entry(line.prog)]
        /\ cmd' = [cmd EXCEPT ![c] = line]
    BY Zenon, <1>4, <2>1 DEF Exec
  <2>3. /\ Shell \in Nodes /\ upc \in [Nodes -> Places] /\ listed \subseteq Nodes
        /\ cmd \in [Nodes -> Lines] /\ is_waiting \in [Nodes -> Nat]
        /\ created \in Nat /\ \A n \in listed : n \in Nat /\ n <= created
    BY GoodFacts DEF Nodes
  <2>4. c \in Nodes /\ c \notin listed /\ 3 <= c /\ c # running_task /\ c # Shell /\ c # Kernel
    BY <1>2, <2>1, <2>3 DEF Nodes, Shell, Kernel
  <2>5. CASE line.prog = "oxterm"
    <3>1. /\ running_task \in 3 .. created' /\ running_task \notin listed'
      BY <1>2, <2>1, <2>3, <2>4
    <3>2. cmd'[running_task] = line
      BY Zenon, <1>2, <2>2, <2>3, <2>4
    <3> HIDE DEF c
    <3> QED
      BY Zenon, <2>5, <3>1, <3>2 DEF Nested
  <2>6. CASE line.prog # "oxterm"
    <3>1. upc'[c] = Entry(line.prog) /\ \A n \in listed' \ {c} : upc'[n] = upc[n]
      BY Zenon, <1>2, <2>1, <2>2, <2>3, <2>4
    <3>2. Entry(line.prog) \notin ShellPlaces
      BY Zenon, <2>6 DEF Entry, ShellPlaces
    <3>3. /\ ppid'[c] = ppid[running_task] /\ bg'[c] = 0 /\ is_sleeping'[c] = 0
          /\ \A n \in listed : /\ ppid'[n] = ppid[n] /\ bg'[n] = bg[n]
                              /\ is_sleeping'[n] = is_sleeping[n] /\ pid'[n] = pid[n]
      BY Zenon, <2>1, <2>3, <2>4, GoodFacts DEF NewTask
    <3>4. /\ FreshWait(c) \in [Nodes -> Nat] /\ FreshWait(c)[c] = 0
          /\ \A n \in listed : FreshWait(c)[n] = is_waiting[n]
      BY Zenon, <2>3, <2>4 DEF FreshWait
    <3> DEFINE waits == FreshWait(c)
    <3> HIDE DEF c, line, waits
    <3>5. EndedOnly(waits)
      BY Zenon, <2>1, <3>4, GoodNext, NextEndsWaits DEF waits
    <3>6. \A n \in Nodes : is_waiting'[n] \in {0, waits[n]}
      BY Zenon, <3>5 DEF EndedOnly
    <3>7. ppid[running_task] = 1
      BY Zenon, <1>2 DEF Alone, Commanded
    <3>8. Commanded'
      <4> SUFFICES ASSUME NEW n \in listed', 3 <= n
                   PROVE  /\ upc'[n] \notin ShellPlaces /\ is_waiting'[n] = 0 /\ ppid'[n] = 1
                          /\ bg'[n] = 1 => upc'[n] = "exit"
        BY DEF Commanded
      <4>1. CASE n = c
        <5>1. is_waiting'[c] = 0
          BY Zenon, <2>4, <3>4, <3>6 DEF waits
        <5>2. upc'[c] \notin ShellPlaces /\ ppid'[c] = 1 /\ bg'[c] = 0
          BY Zenon, <3>1, <3>2, <3>3, <3>7
        <5> QED
          BY <4>1, <5>1, <5>2
      <4>2. CASE n # c
        <5>1. n \in listed /\ n \in Nodes
          BY Zenon, <2>1, <2>3, <4>2
        <5> QED
          BY Zenon, <3>1, <3>3, <3>4, <3>6, <4>2, <5>1 DEF Alone, Commanded, waits
      <4> QED
        BY <4>1, <4>2
    <3>9. ASSUME Shell \in listed' PROVE Turned'
      <4>1. Shell \in listed /\ Turned
        BY Zenon, <2>1, <2>4, <3>9 DEF Alone
      <4>2. /\ upc[Shell] = "wait" /\ Passing
            /\ running_task = created /\ Foreground = {created}
        BY Zenon, <1>1, <1>2, <4>1, OtherRuns
      <4>3. \A n \in Foreground' : n = c
        <5> SUFFICES ASSUME NEW n \in Foreground', n # c PROVE FALSE
          BY Zenon
        <5>1. n \in listed /\ n # running_task /\ n \in Foreground
          BY Zenon, <2>1, <3>3 DEF Foreground
        <5> QED
          BY <4>2, <5>1
      <4>4. \A n \in Foreground' : is_sleeping'[n] = 0 /\ waits[n] = 0
        BY Zenon, <3>3, <3>4, <4>3 DEF waits
      <4>5. ~Blocked(Kernel, is_sleeping', waits)
        BY Zenon, <1>1, <3>3, <3>4, UserFacts, GoodFacts DEF Good, Blocked, waits
      <4>6. /\ Shell < running_task' \/ (AtHead' /\ Foreground' = {})
            /\ \A n \in Foreground' : running_task' <= n
            /\ previous' = Shell
        BY Zenon, <2>1, <3>4, <3>9, <4>2, <4>4, <4>5, GoodNext, NextFromShell DEF Passing, waits
      <4>7. Starting'
        BY Zenon, <2>1, <4>3, <4>4 DEF Starting
      <4>8. Passing' \/ Passed'
        BY Zenon, <4>6, <4>7 DEF Passing, Passed
      <4>9. is_waiting'[Shell] = 0 /\ upc'[Shell] = "wait"
        BY Zenon, <2>3, <2>4, <3>1, <3>4, <3>6, <3>9, <4>1, <4>2 DEF Turned, waits
      <4> QED
        BY Zenon, <3>3, <4>1, <4>8, <4>9 DEF Turned, ShellPlaces
    <3> QED
      BY Zenon, <3>8, <3>9 DEF Alone
  <2> QED
    BY Zenon, <2>5, <2>6
<1> QED
  BY Zenon, <1>3, <1>4

\* sleep, and kill of another: the last task goes on to its exit.
LEMMA LastAlone ==
    ASSUME Good, Good', Alone, InUser, upc[running_task] \notin ShellPlaces \cup {"exit"},
           listed' \subseteq listed, UNCHANGED nameVars, Goto("exit"),
           \A n \in Nodes \ {running_task} :
                bg'[n] = bg[n] /\ is_sleeping'[n] = is_sleeping[n],
           Schedule(rsp, is_waiting)
    PROVE  Alone'
<1>1. running_task # Shell /\ running_task \in listed /\ 3 <= running_task
  BY Zenon, OtherCalls
<1>2. /\ Shell \in Nodes /\ upc \in [Nodes -> Places] /\ listed \subseteq Nodes
      /\ is_waiting \in [Nodes -> Nat] /\ \A n \in listed : n <= created
  BY GoodFacts
<1>3. \A n \in Nodes : upc'[n] = IF n = running_task THEN "exit" ELSE upc[n]
  BY Zenon, <1>2 DEF Goto
<1>4. \A n \in Nodes : is_waiting'[n] \in {0, is_waiting[n]}
  BY Zenon, <1>2, ScheduleEnds
<1>5. UNCHANGED <<pid, ppid, created>>
  BY Zenon DEF nameVars
<1>6. Commanded'
  BY Zenon, <1>1, <1>2, <1>3, <1>4, <1>5, CommandedKept DEF Alone
<1>7. ASSUME Shell \in listed' PROVE Turned'
  <2>1. Shell \in listed /\ Turned
    BY Zenon, <1>7 DEF Alone
  <2>2. /\ upc[Shell] = "wait" /\ running_task = created /\ Foreground = {created}
    BY Zenon, <1>1, <2>1, OtherRuns
  <2>3. AtHead'
    BY Zenon, <1>1, <1>2, <2>2, GoodNext, ScanFromLast
  <2>4. \A n \in Foreground' : n = running_task
    <3> SUFFICES ASSUME NEW n \in Foreground', n # running_task PROVE FALSE
      BY Zenon
    <3>1. n \in listed /\ n \in Nodes /\ 3 <= n /\ bg[n] # 1
      BY Zenon, <1>2 DEF Foreground
    <3> QED
      BY Zenon, <2>2, <3>1 DEF Foreground
  <2>5. Passed'
    BY <1>1, <1>2, <1>3, <2>3, <2>4 DEF Passed
  <2>6. /\ upc'[Shell] = "wait" /\ is_waiting'[Shell] = 0 /\ is_sleeping'[Shell] = 0
    BY Zenon, <1>1, <1>2, <1>3, <1>4, <2>1, <2>2 DEF Turned
  <2> QED
    BY <1>5, <2>1, <2>5, <2>6 DEF Turned, ShellPlaces
<1> QED
  BY Zenon, <1>6, <1>7 DEF Alone

\* sleep
LEMMA SleepAlone == ASSUME Good, Good', Alone, Sleep PROVE Alone'
<1>1. InUser /\ upc[running_task] = "sleep" /\ Goto("exit")
  BY DEF Sleep, At
<1>2. PICK t, b : SysSleep(t, b)
  BY DEF Sleep
<1>3. /\ bg' = bg \/ bg' = [bg EXCEPT ![running_task] = 1]
      /\ is_sleeping' = [is_sleeping EXCEPT ![running_task] = 1]
      /\ UNCHANGED <<nameVars, listed>> /\ Schedule(rsp, is_waiting)
  BY Zenon, <1>2 DEF SysSleep, listVars
<1>4. \A n \in Nodes \ {running_task} : bg'[n] = bg[n] /\ is_sleeping'[n] = is_sleeping[n]
  BY Zenon, <1>3, GoodFacts
<1> QED
  BY Zenon, <1>1, <1>3, <1>4, LastAlone DEF ShellPlaces

\* kill
LEMMA KillAlone == ASSUME Good, Good', Alone, Kill PROVE Alone'
<1>1. InUser /\ upc[running_task] = "kill" /\ Goto("exit")
  BY DEF Kill, At
<1>2. PICK p : SysKill(p)
  BY Zenon DEF Kill
<1>3. CASE KillParent(p) \/ KillKernel(p) \/ KillOther(p)
  <2>1. /\ listed' \subseteq listed /\ UNCHANGED <<nameVars, bg, is_sleeping>>
        /\ Schedule(rsp, is_waiting)
    BY Zenon, <1>3 DEF KillParent, KillKernel, KillOther, DeleteFromTaskList, sleepVars, listVars
  <2> QED
    BY Zenon, <1>1, <2>1, LastAlone DEF ShellPlaces
<1>4. CASE KillSelf(p)
  <2>1. running_task # Shell /\ running_task \in Nodes /\ upc \in [Nodes -> Places]
    BY Zenon, <1>1, OtherCalls, GoodFacts DEF ShellPlaces
  <2>2. \A n \in listed' : upc'[n] = upc[n]
    BY Zenon, <1>1, <1>4, <2>1, GoodNext DEF Goto, KillSelf, DeleteCurr
  <2> QED
    BY Zenon, <1>1, <1>4, <2>1, <2>2, LeaveAlone DEF KillSelf
<1> QED
  BY Zenon, <1>2, <1>3, <1>4 DEF SysKill

\* The kernel's scan
LEMMA IdleAlone == ASSUME Good, Good', Alone, Idle, UNCHANGED upc PROVE Alone'
<1>1. /\ phase # "user" /\ UNCHANGED <<listed, pid, ppid, created, bg, is_sleeping>>
      /\ ReleaseTemp \/ UNCHANGED is_waiting
  BY Zenon DEF Idle, IdleTest, IdleBody, IdlePick, listVars, nameVars, sleepVars
<1>2. EndedOnly(is_waiting)
  <2>1. UNCHANGED is_waiting => EndedOnly(is_waiting)
    BY Zenon DEF EndedOnly
  <2> QED
    BY Zenon, <1>1, <2>1, IdleEndsWaits
<1>3. Shell \in Nodes /\ listed \subseteq Nodes /\ is_waiting \in [Nodes -> Nat]
      /\ running_task = Kernel /\ Kernel \in listed /\ is_sleeping \in [Nodes -> {0, 1}]
  BY Zenon, <1>1, GoodFacts
<1>4. Commanded'
  BY Zenon, <1>1, <1>2, <1>3, CommandedKept DEF Alone, EndedOnly
<1>5. ASSUME Shell \in listed PROVE Turned'
  <2>1. CASE upc[Shell] = "gets"
    BY Zenon, <1>1, <1>2, <1>3, <1>5, <2>1, PromptingKept
  <2>2. CASE upc[Shell] # "gets"
    <3>1. Turned /\ upc[Shell] = "wait" /\ is_waiting[Shell] = 0 /\ Passed /\ AtHead
      <4>1. Turned /\ running_task # Shell /\ ~Passing
        BY <1>3, <1>5 DEF Alone, Passing, Kernel, Shell
      <4>2. upc[Shell] = "wait" /\ is_waiting[Shell] = 0 /\ Passed
        BY Zenon, <2>2, <4>1 DEF Turned, ShellPlaces
      <4> QED
        BY Zenon, <4>1, <4>2 DEF Passed
    <3>2. is_waiting'[Shell] = 0
      BY Zenon, <1>2, <1>3, <3>1 DEF EndedOnly
    <3>3. next[Kernel] = Shell
      <4>1. Threaded(Kernel, next, listed)
        BY Zenon, ListFacts DEF Good
      <4>2. next[Kernel] # NULL
        BY <1>3, <1>5, <4>1 DEF Threaded, Kernel, Shell
      <4>3. next[Kernel] \in listed /\ Kernel < next[Kernel] /\ next[Kernel] <= Shell
        BY <1>3, <1>5, <4>1, <4>2 DEF Threaded, Kernel, Shell
      <4>4. next[Kernel] \in Nat
        BY Zenon, <1>3, <4>3, NodesNumbers
      <4> QED
        BY <4>3, <4>4 DEF Kernel, Shell
    <3>4. ~Blocked(Shell, is_sleeping, is_waiting)
      <4>1. is_sleeping[Shell] = 0
        BY <3>1 DEF Turned
      <4> QED
        BY <3>1, <4>1 DEF Blocked
    <3>5. running_task' = Shell \/ AtHead'
      <4>1. CASE IdleTest
        BY <3>1, <3>3, <3>4, <4>1 DEF IdleTest, AtHead
      <4>2. CASE IdleBody
        BY Zenon, <3>1, <4>2 DEF IdleBody, AtHead
      <4>3. CASE IdlePick
        <5>1. next' = next /\ Dispatch(Successor(Kernel))
          BY Zenon, <3>1, <4>3 DEF IdlePick, AtHead, listVars
        <5> QED
          BY <3>3, <5>1 DEF Successor, Dispatch, Shell, NULL
      <4> QED
        BY <4>1, <4>2, <4>3 DEF Idle
    <3>6. Foreground' = Foreground
      BY <1>1 DEF Foreground
    <3>7. Passed'
      BY Zenon, <3>1, <3>5, <3>6 DEF Passed
    <3> QED
      BY Zenon, <1>1, <3>1, <3>2, <3>7 DEF Turned, ShellPlaces
  <2> QED
    BY Zenon, <2>1, <2>2
<1> QED
  BY <1>1, <1>4, <1>5 DEF Alone

\* A tick, and a step that changes nothing, may only wake tasks.
LEMMA WakeAlone ==
    ASSUME Good, Good', Alone, Tick \/ UNCHANGED vars, UNCHANGED upc
    PROVE  Alone'
<1>1. UNCHANGED <<listed, pid, ppid, created, bg, is_waiting, running_task, previous, temp, phase>>
  BY Zenon DEF Tick, vars, listVars, nameVars, sleepVars, cpuVars
<1>2. \A n \in Nodes : is_sleeping'[n] \in {0, is_sleeping[n]}
  BY Zenon, GoodFacts DEF Tick, vars, sleepVars
<1>3. Shell \in Nodes /\ listed \subseteq Nodes
  BY Zenon, GoodFacts
<1>4. Commanded'
  BY Zenon, <1>1, CommandedKept DEF Alone
<1>5. ASSUME Shell \in listed PROVE Turned'
  <2>1. CASE upc[Shell] = "gets"
    <3>1. EndedOnly(is_waiting)
      BY Zenon, <1>1 DEF EndedOnly
    <3> QED
      BY Zenon, <1>1, <1>2, <1>3, <1>5, <2>1, <3>1, PromptingKept
  <2>2. CASE upc[Shell] # "gets"
    <3>1. Foreground' = Foreground /\ Foreground \subseteq Nodes
      BY Zenon, <1>1, <1>3 DEF Foreground
    <3>2. Starting => Starting'
      BY Zenon, <1>1, <1>2, <3>1 DEF Starting
    <3>3. (Passing => Passing') /\ (Passed => Passed')
      BY Zenon, <1>1, <3>1, <3>2 DEF Passing, Passed, AtHead
    <3>4. Turned /\ is_sleeping'[Shell] = 0
      BY Zenon, <1>2, <1>3, <1>5 DEF Alone, Turned
    <3> QED
      BY Zenon, <1>1, <2>2, <3>1, <3>2, <3>3, <3>4 DEF Turned
  <2> QED
    BY Zenon, <2>1, <2>2
<1> QED
  BY Zenon, <1>1, <1>4, <1>5 DEF Alone

\* Once a child has executed a shell the session has two for good.
LEMMA NestedKept ==
    ASSUME Good, Good', Nested, [SessionNext]_sessionVars
    PROVE  Nested'
<1>1. PICK m \in 3 .. created : m \notin listed /\ cmd[m].prog = "oxterm"
  BY Zenon DEF Nested
<1>2. created \in Nat /\ created \in Nodes /\ cmd \in [Nodes -> Lines] /\ running_task \in listed
  BY Zenon, GoodFacts, NodesNumbers
<1>3. m \in Nodes /\ m # running_task /\ m # created + 1 /\ m \in Nat
  BY <1>1, <1>2, ProcessAssumption DEF Nodes
<1>4. \/ listed' \subseteq listed /\ created' = created
      \/ listed' \subseteq listed \cup {created + 1} /\ created' = created + 1
  <2>1. CASE Fork \/ Exec
    BY <2>1 DEF Fork, Exec, SysFork, SysExec, SysExit, NewTask, DeleteCurr, nameVars
  <2>2. CASE Yield \/ Wait \/ Sleep
    BY ZenonT(30), <2>2 DEF Yield, Wait, Sleep, SysYield, SysWait, WaitFor, SysSleep,
                       vars, listVars, nameVars
  <2>3. CASE Kill \/ Exit
    BY <2>3 DEF Kill, Exit, SysKill, SysExit, KillParent, KillKernel, KillSelf, KillOther,
       DeleteCurr, DeleteFromTaskList, listVars, nameVars
  <2>4. CASE Idle \/ Tick \/ UNCHANGED vars
    BY ZenonT(30), <2>4 DEF Idle, IdleTest, IdleBody, IdlePick, Tick, vars, listVars, nameVars
  <2> QED
    BY ZenonT(30), <2>1, <2>2, <2>3, <2>4 DEF SessionNext, Machine, Timer, Gets, sessionVars
<1>5. \/ cmd' = cmd \/ \E l : cmd' = [cmd EXCEPT ![running_task] = l]
      \/ \E l : cmd' = [cmd EXCEPT ![created'] = l] /\ created' = created + 1
  BY Zenon DEF SessionNext, Machine, Timer, Gets, sessionVars, Fork, Yield, Wait, Exec, Sleep, Kill,
     Exit, SysFork, SysExec, NewTask
<1>6. cmd'[m] = cmd[m]
  BY Zenon, <1>2, <1>3, <1>5
<1>7. m \in 3 .. created' /\ m \notin listed'
  BY <1>1, <1>2, <1>3, <1>4
<1> QED
  BY Zenon, <1>1, <1>6, <1>7 DEF Nested

\* In a session with one shell, the shell never reads a command while a
\* foreground command of it sleeps: the child that wait() picks is that one.
THEOREM ForegroundComesFirst == SessionSpec => []ForegroundFirstAlone
<1>1. SessionInit => Nested \/ Alone
  BY Zenon, InitAlone
<1>2. Good /\ Good' /\ (Nested \/ Alone) /\ [SessionNext]_sessionVars => (Nested \/ Alone)'
  <2> SUFFICES ASSUME Good, Good', Alone, [SessionNext]_sessionVars PROVE Nested' \/ Alone'
    BY Zenon, NestedKept
  <2>1. CASE Exit
    BY Zenon, <2>1, ExitAlone DEF Exit, At, ShellPlaces
  <2>2. CASE UNCHANGED sessionVars
    BY Zenon, <2>2, WakeAlone DEF sessionVars
  <2> QED
    BY Zenon, <2>1, <2>2, GetsAlone, ForkAlone, YieldAlone, WaitAlone, ExecAlone, SleepAlone,
       KillAlone, IdleAlone, WakeAlone DEF SessionNext, Machine, Timer
<1>3. Good /\ (Nested \/ Alone) => ForegroundFirstAlone
  <2> SUFFICES ASSUME Good, Nested \/ Alone, OneShell,
                      NEW n \in Children(running_task), At("gets")
               PROVE  is_sleeping[n] = 0
    BY Zenon DEF ForegroundFirstAlone, ForegroundFirst
  <2>1. Alone
    BY Zenon DEF Nested, OneShell
  <2>2. running_task = Shell /\ Turned /\ Prompting /\ is_waiting[Shell] = 0
    BY Zenon, <2>1, ShellRuns, GoodFacts DEF At, ShellPlaces, Turned
  <2>3. n \in listed /\ n # Kernel /\ n # Shell /\ bg[n] # 1
    <3>1. n \in listed /\ ppid[n] = 1 /\ bg[n] # 1
      BY Zenon, <2>2 DEF Children, Turned
    <3>2. ppid[n] < pid[n] /\ pid[Kernel] = 0 /\ pid[Shell] = 1
      BY Zenon, <2>2, <3>1 DEF Good, Consistent, PidsOrdered, SInv, Forked, Turned
    <3>3. ~(1 < 0) /\ ~(1 < 1)
      OBVIOUS
    <3> QED
      BY Zenon, <3>1, <3>2, <3>3
  <2>4. n \in Foreground
    BY <2>3, GoodFacts, NodesNumbers DEF Foreground, Kernel, Shell
  <2> QED
    BY Zenon, <2>2, <2>4 DEF Prompting
<1>4. Consistent /\ SInv <=> Good
  BY DEF Good
<1> QED
  BY <1>1, <1>2, <1>3, <1>4, AlwaysSInv, PTL DEF SessionSpec

=============================================================================
