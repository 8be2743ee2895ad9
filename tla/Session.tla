------------------------------- MODULE Session -------------------------------
(***************************************************************************)
(* The kernel of Process under the programs that are shipped with it: the  *)
(* shell (bin/oxterm), which reads a command, forks, lets the child exec   *)
(* it, yields and waits; and the commands, which make one system call and  *)
(* exit.  A command that makes no scheduling call (echo, ls, cat, ps,      *)
(* clear, or sleep and kill without arguments) is "other".                 *)
(***************************************************************************)
EXTENDS Process, FiniteSets

CONSTANTS
    KillPids,      \* pids the user names in kill -9
    Others         \* the other commands entered: "other", "oxterm", "missing"

ASSUME SessionAssumption ==
    KillPids \subseteq Pids /\ Others \subseteq {"other", "oxterm", "missing"}

VARIABLES
    upc,   \* the next system call of each task
    cmd    \* the command line each task has read, or was started for

sessionVars == <<vars, upc, cmd>>

Plain(name) == [prog |-> name, arg |-> 0, bg |-> 0]

Commands ==
    {[prog |-> "sleep", arg |-> t, bg |-> b] : t \in SleepTimes, b \in {0, 1}}
    \cup {[prog |-> "kill", arg |-> p, bg |-> 0] : p \in KillPids}
    \cup {Plain(name) : name \in Others}

\* The first system call of each program
Entry(prog) ==
    CASE prog = "oxterm" -> "gets"
      [] prog \in {"sleep", "kill"} -> prog
      [] OTHER -> "exit"

At(place) == InUser /\ upc[running_task] = place

Goto(place) == upc' = [upc EXCEPT ![running_task] = place]

SessionInit ==
    /\ Init
    /\ upc = [n \in Nodes |-> IF n = 2 THEN "gets" ELSE "none"]
    /\ cmd = [n \in Nodes |-> Plain("oxterm")]

-----------------------------------------------------------------------------
(* The shell *)

\* gets: polls with interrupts on and without yielding until the user has
\* entered a line.  The user stops when the task bound leaves no room for a
\* fork and an exec, and for the execs that earlier children still have to do.
Gets(c) ==
    /\ At("gets")
    /\ created + Cardinality({n \in listed : upc[n] = "exec"}) + 2 <= MaxTasks
    /\ cmd' = [cmd EXCEPT ![running_task] = c]
    /\ Goto("fork")
    /\ UNCHANGED vars

\* Mutant: the shell runs the command in its own place.
ForkNot == At("fork") /\ Goto("exec") /\ UNCHANGED <<vars, cmd>>

Fork ==
    /\ At("fork")
    /\ SysFork
    /\ upc' = [upc EXCEPT ![running_task] = "yield", ![created'] = "exec"]
    /\ cmd' = [cmd EXCEPT ![created'] = cmd[running_task]]

Yield == At("yield") /\ SysYield /\ Goto("wait") /\ UNCHANGED cmd

\* Mutant: the shell does not wait.
WaitNot == At("wait") /\ Goto("gets") /\ UNCHANGED <<vars, cmd>>

Wait == At("wait") /\ SysWait /\ Goto("gets") /\ UNCHANGED cmd

\* The child's execvp, which ends it when there is no such file
Exec ==
    /\ At("exec")
    /\ IF cmd[running_task].prog = "missing"
       THEN SysExit /\ Goto("none") /\ UNCHANGED cmd
       ELSE /\ SysExec
            /\ upc' = [upc EXCEPT ![running_task] = "none",
                                  ![created'] = Entry(cmd[running_task].prog)]
            /\ cmd' = [cmd EXCEPT ![created'] = cmd[running_task]]

-----------------------------------------------------------------------------
(* The commands *)

Sleep ==
    /\ At("sleep")
    /\ SysSleep(cmd[running_task].arg, cmd[running_task].bg)
    /\ Goto("exit") /\ UNCHANGED cmd

Kill ==
    /\ At("kill")
    /\ SysKill(cmd[running_task].arg)
    /\ Goto("exit") /\ UNCHANGED cmd

Exit == At("exit") /\ SysExit /\ Goto("none") /\ UNCHANGED cmd

-----------------------------------------------------------------------------

\* Everything the machine does without the user
Machine ==
    \/ Fork \/ Yield \/ Wait \/ Exec \/ Sleep \/ Kill \/ Exit
    \/ Idle /\ UNCHANGED <<upc, cmd>>

Timer == Tick /\ UNCHANGED <<upc, cmd>>

SessionNext == Machine \/ Timer \/ \E c \in Commands : Gets(c)

SessionSpec == SessionInit /\ [][SessionNext]_sessionVars

\* The CPU executes and the timer ticks; nothing obliges the user to type.
FairSession == SessionSpec /\ WF_sessionVars(Machine) /\ WF_sessionVars(Timer)

-----------------------------------------------------------------------------
(* Properties *)

\* The kernel of Process assumes MayKill of its programs.  The shipped ones
\* comply: bin/kill runs only in a child that a shell forked.
KillIsAllowed == At("kill") => MayKill(cmd[running_task].arg)

\* One pid names at most one listed task, so that kill and waitpid, which take
\* the first match, mean the process the user named.  fork hands out PID++ and
\* exec undoes the increment of elf_run_bin.
PidsUnique == \A m, n \in listed : pid[m] = pid[n] => m = n

\* A shell never reads a command while a foreground child of it sleeps, though
\* wait() may pick another child and counts a child as done once it is awake.
\* README: "puts the terminal process to sleep for specified amount of time".
ForegroundFirst ==
    \A n \in Children(running_task) : At("gets") => is_sleeping[n] = 0

\* No shell was started from the shell.
OneShell == \A n \in 3 .. created : cmd[n].prog # "oxterm"

\* In a session with one shell the prompt waits for the foreground sleep, which
\* sys_waitpid then finds before any other child.
ForegroundFirstAlone == OneShell => ForegroundFirst

\* After each command the user gets a prompt again, of this shell or of one it
\* started, unless every shell has been killed.
Shells == {n \in listed : upc[n] \in {"gets", "fork", "yield", "wait"}}

PromptReturns == At("fork") ~> At("gets") \/ Shells = {}

\* README: "Puts the process to sleep in background and clears it up after time
\* expiration".
BackgroundCleared ==
    \A n \in Nodes : n \in listed /\ bg[n] = 1 ~> n \notin listed
=============================================================================
