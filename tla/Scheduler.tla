------------------------------ MODULE Scheduler ------------------------------
(***************************************************************************)
(* What the task manager promises its programs, without the list, the two  *)
(* cursors into it, the counters, the saved contexts and the order of the  *)
(* scan: a set of tasks, one of which has the CPU.  Process implements it. *)
(*                                                                         *)
(* The promises are in the form of the actions.  Whoever has the CPU is    *)
(* alive and ready.  A sleeper becomes ready only through the timer, a     *)
(* waiter only when the process it waits for is gone or awake.  A task     *)
(* blocks itself and never another one, and no task is used twice.  The    *)
(* root task is never removed and never blocks.                            *)
(***************************************************************************)
CONSTANTS
    Tasks,     \* everything that can become a task
    Root,      \* the task that runs when no other can
    ShellName, \* the pid of the shell that the kernel starts
    NoName     \* in awaits: waits for nobody

VARIABLES
    used,      \* tasks created so far
    alive,     \* tasks that can be scheduled
    name,      \* the pid of each task
    asleep,    \* the live tasks that sleep
    awaits,    \* the name each task waits for, or NoName
    current    \* the task that has the CPU

schedVars == <<used, alive, name, asleep, awaits, current>>

Ready(t, sleepers, waits) == t \notin sleepers /\ waits[t] = NoName

Named(p, live, names) == {t \in live : names[t] = p}

\* Nobody of that name is left, or somebody of that name is awake.
Done(p, live, names, sleepers) ==
    \/ Named(p, live, names) = {}
    \/ \E t \in Named(p, live, names) : t \notin sleepers

-----------------------------------------------------------------------------

\* Some of those whose wait is over become ready.
Release(waits) ==
    \E over \in SUBSET {t \in Tasks : Done(waits[t], alive', name', asleep')} :
        awaits' = [t \in Tasks |-> IF t \in over THEN NoName ELSE waits[t]]

\* The CPU goes to a task that is alive and ready.
Pick == current' \in alive' /\ Ready(current', asleep', awaits')

Reschedule(waits) == Release(waits) /\ Pick

\* A task that was never used before gets its name.
Start(t) ==
    /\ t \in Tasks \ used
    /\ used' = used \cup {t}
    /\ name' = [name EXCEPT ![t] = name'[t]]

Quiet(t) == [awaits EXCEPT ![t] = NoName]

InProgram == current # Root

-----------------------------------------------------------------------------
(* What the running program asks for *)

\* A new process, with a name nobody has
Fork(t) ==
    /\ InProgram
    /\ Start(t) /\ Named(name'[t], alive, name) = {}
    /\ alive' = alive \cup {t}
    /\ awaits' = Quiet(t)
    /\ UNCHANGED <<asleep, current>>

\* A new task in place of the running one
Replace(t) ==
    /\ InProgram
    /\ Start(t)
    /\ alive' = (alive \cup {t}) \ {current}
    /\ UNCHANGED asleep
    /\ Reschedule(Quiet(t))

\* exec goes on under the same name, a page fault starts the shell.
Exec(t) == Replace(t) /\ name'[t] = name[current]

Fault(t) == Replace(t) /\ name'[t] = ShellName

Sleep ==
    /\ InProgram
    /\ asleep' = asleep \cup {current}
    /\ UNCHANGED <<used, alive, name>>
    /\ Reschedule(awaits)

\* Wait for the name of a process that is alive
Wait(t) ==
    /\ InProgram /\ t \in alive
    /\ UNCHANGED <<used, alive, name, asleep>>
    /\ Reschedule([awaits EXCEPT ![current] = name[t]])

\* exit, and kill of oneself or of another; never of the root
End(t) ==
    /\ InProgram /\ t \in alive \ {Root}
    /\ alive' = alive \ {t}
    /\ asleep' = asleep \ {t}
    /\ UNCHANGED <<used, name>>
    /\ Reschedule(awaits)

-----------------------------------------------------------------------------

\* Nothing but another choice, by a program that yields or by the root
Yield == UNCHANGED <<used, alive, name, asleep>> /\ Reschedule(awaits)

\* The timer wakes some sleepers.
Wake ==
    /\ asleep' \subseteq asleep
    /\ UNCHANGED <<used, alive, name, awaits, current>>

Init ==
    /\ used = alive /\ Root \in alive /\ alive \subseteq Tasks
    /\ asleep = {} /\ awaits = [t \in Tasks |-> NoName]
    /\ current \in alive

Next ==
    \/ \E t \in Tasks : Fork(t) \/ Exec(t) \/ Fault(t) \/ Wait(t) \/ End(t)
    \/ Sleep \/ Yield \/ Wake

Spec == Init /\ [][Next]_schedVars
=============================================================================
