------------------------------- MODULE Process -------------------------------
(***************************************************************************)
(* The task list and the cooperative scheduler of the kernel               *)
(* (sys/process.c, the process system calls of sys/idt.c, idle_proc and    *)
(* load_sbush of sys/main.c).                                              *)
(*                                                                         *)
(* A node of the list (ready_task) and the task_struct it carries are      *)
(* allocated together and never freed, so one number in Nodes stands for   *)
(* both, handed out in the order of allocation.  add_to_task_list appends, *)
(* so list order is allocation order: ListWellFormed states it and the     *)
(* proofs establish it.  The user programs are arbitrary here: any system  *)
(* call, with any argument, at any time.  Session restricts them to the    *)
(* shipped ones.                                                           *)
(*                                                                         *)
(* Gates are interrupt gates, so a system call or a fault handler runs to  *)
(* its context switch with interrupts off and is one step.  idle_proc      *)
(* calls schedule with interrupts on: its scan of the list is one step per *)
(* read the timer can race with (phase, temp).                             *)
(***************************************************************************)
EXTENDS Integers

CONSTANTS
    MaxTasks,      \* bound: tasks ever created (memory is never given back)
    SleepTimes,    \* arguments of sleep, as the uint64_t they are stored in
    TimeMod        \* modulus of the unsigned sleep_time (2^64 in the code)

ASSUME ProcessAssumption ==
    /\ MaxTasks \in Nat /\ MaxTasks >= 2
    /\ TimeMod \in Nat /\ TimeMod > 1
    /\ SleepTimes \subseteq 0 .. TimeMod - 1

VARIABLES
    queue_head, running_task, previous,  \* the three pointers of process.c
    next,          \* next pointer of each node; a removed node keeps its own
    listed,        \* the nodes a walk from queue_head visits
    created,       \* number of nodes allocated so far
    pid, ppid, is_waiting, sleep_time, is_sleeping, bg,  \* task_struct
    rsp,           \* whose saved context task_struct.rsp holds; NULL: outdated
    cpu,           \* the task whose context is loaded
    phase, temp,   \* progress of the schedule call made by idle_proc
    PID, task_count, is_bg  \* counters, and the flag of the sleep handler

listVars  == <<queue_head, next, listed, task_count>>
nameVars  == <<pid, ppid, PID, created>>
sleepVars == <<sleep_time, is_sleeping, bg, is_bg>>
cpuVars   == <<running_task, previous, rsp, cpu, phase, temp>>
vars      == <<listVars, nameVars, sleepVars, cpuVars, is_waiting>>

NULL   == 0
Nodes  == 1 .. MaxTasks
Kernel == 1              \* pcb_boot, the task named "root" that runs idle_proc
NoPid  == -1             \* the ppid of the kernel

-----------------------------------------------------------------------------
(* Reading the list.  Several tasks may carry one pid (PageFault), and every *)
(* search takes the first.                                                   *)

IsFirst(n, S) == n \in S /\ \A m \in S : n <= m

WithPid(ls, ids, p) == {n \in ls : ids[n] = p}

\* Mutant: a pid that is gone does not count as done.
ChildDoneIfListed(ls, ids, asleep, p) ==
    \E n \in ls : IsFirst(n, WithPid(ls, ids, p)) /\ asleep[n] = 0

\* is_child_done: no task of that pid, or the first one is not asleep.
ChildDone(ls, ids, asleep, p) ==
    \A n \in ls : IsFirst(n, WithPid(ls, ids, p)) => asleep[n] = 0

Blocked(n, asleep, waits) == asleep[n] # 0 \/ waits[n] > 0

-----------------------------------------------------------------------------
(* Changing the list. *)

\* Mutant: the rest of the list is cut off with the node.
UnlinkCuttingTail(nx, n, p) == [nx EXCEPT ![p] = NULL]

\* Splice n out; its predecessor is the node a walk from queue_head stops at.
Unlink(nx, n, p) == [nx EXCEPT ![p] = nx[n]]

\* add_to_task_list: the walk stops at the node t that has no successor.
Link(nx, c, t) == [nx EXCEPT ![t] = c, ![c] = NULL]

\* A task_struct fresh from kmalloc (zeroed), with its first context built.
NewTask(c, p, pp) ==
    /\ created' = c
    /\ pid' = [pid EXCEPT ![c] = p]
    /\ ppid' = [ppid EXCEPT ![c] = pp]
    /\ sleep_time' = [sleep_time EXCEPT ![c] = 0]
    /\ is_sleeping' = [is_sleeping EXCEPT ![c] = 0]
    /\ bg' = [bg EXCEPT ![c] = 0]

FreshContext(c) == [rsp EXCEPT ![c] = c]

FreshWait(c) == [is_waiting EXCEPT ![c] = 0]

-----------------------------------------------------------------------------
(* schedule and switch_to.  The arguments give the values the caller has     *)
(* stored before the call; list and sleep state are read primed.             *)

\* The scan that starts at s ends at e: the first node whose successor is
\* missing or runnable.
ScanEnds(s, e, waits) ==
    /\ e \in listed' /\ s <= e
    /\ next'[e] # NULL => ~Blocked(next'[e], is_sleeping', waits)
    /\ \A m \in listed' : s < m /\ m <= e => Blocked(m, is_sleeping', waits)

\* Mutant: it is the child of the first node that is tested for all of them.
ReleasedByFirst(s, e, waits) ==
    [n \in Nodes |->
        IF n \in listed' /\ s <= n /\ n <= e /\ waits[n] > 0
              /\ ChildDone(listed', pid', is_sleeping', waits[s])
        THEN 0 ELSE waits[n]]

\* Every node the scan stands on stops waiting once its child is done.
Released(s, e, waits) ==
    [n \in Nodes |->
        IF n \in listed' /\ s <= n /\ n <= e /\ waits[n] > 0
              /\ ChildDone(listed', pid', is_sleeping', waits[n])
        THEN 0 ELSE waits[n]]

\* switch_to: save the context of me unless this is a first switch, load to's.
SwitchTo(to, me, first, ctx) ==
    LET saved == IF first = 0 THEN [ctx EXCEPT ![me] = cpu] ELSE ctx
    IN  /\ cpu' = saved[to]
        /\ rsp' = [saved EXCEPT ![to] = NULL]

\* The task switched to goes on: idle_proc with its next schedule call, any
\* other task in user mode.
Dispatch(to) ==
    /\ running_task' = to
    /\ temp' = IF to = Kernel THEN to ELSE NULL
    /\ phase' = IF to = Kernel THEN "test" ELSE "user"

\* Mutant: the last task of the list is taken for its end.
SuccessorButLast(e) ==
    IF next'[e] # NULL /\ next'[next'[e]] # NULL THEN next'[e] ELSE queue_head'

\* What follows the scan: running_task = temp->next, or queue_head.
Successor(e) == IF next'[e] # NULL THEN next'[e] ELSE queue_head'

ScheduleFrom(s, me, first, ctx, waits) ==
    \E e \in listed' :
        /\ ScanEnds(s, e, waits)
        /\ is_waiting' = Released(s, e, waits)
        /\ SwitchTo(Successor(e), me, first, ctx)
        /\ Dispatch(Successor(e))

\* schedule(0) with a running task.
Schedule(ctx, waits) ==
    /\ previous' = running_task
    /\ ScheduleFrom(running_task, running_task, 0, ctx, waits)

\* Mutant: a first_switch of 0 stores the context of the removed task.
ScheduleNextSaving(ctx, waits) ==
    /\ previous' = previous
    /\ IF next'[previous] = NULL
       THEN /\ is_waiting' = waits
            /\ SwitchTo(queue_head', previous, 0, ctx)
            /\ Dispatch(queue_head')
       ELSE ScheduleFrom(previous, previous, 0, ctx, waits)

\* schedule(1) after delete_curr_from_task_list: running_task is NULL, the
\* scan starts at previous, which stays as it is.
ScheduleNext(ctx, waits) ==
    /\ previous' = previous
    /\ IF next'[previous] = NULL
       THEN /\ is_waiting' = waits
            /\ SwitchTo(queue_head', previous, 1, ctx)
            /\ Dispatch(queue_head')
       ELSE ScheduleFrom(previous, previous, 1, ctx, waits)

-----------------------------------------------------------------------------
(* Steps of a user program: each is one system call, or one fault, taken     *)
(* while the program runs.                                                   *)

InUser == phase = "user"

\* delete_curr_from_task_list
DeleteCurr ==
    /\ \E p \in listed : next[p] = running_task
                        /\ next' = Unlink(next, running_task, p)
    /\ listed' = listed \ {running_task}
    /\ task_count' = task_count - 1
    /\ UNCHANGED queue_head

\* delete_from_task_list: the first task of that pid, if there is one.  The
\* count of tasks is left alone.
DeleteFromTaskList(p) ==
    /\ UNCHANGED task_count
    /\ \/ /\ WithPid(listed, pid, p) = {}
          /\ UNCHANGED <<queue_head, next, listed>>
       \/ \E n \in listed :
            /\ IsFirst(n, WithPid(listed, pid, p))
            /\ listed' = listed \ {n}
            /\ IF n # previous /\ n = queue_head
               THEN queue_head' = next[n] /\ UNCHANGED next
               ELSE /\ \E b \in listed : next[b] = n /\ next' = Unlink(next, n, b)
                    /\ UNCHANGED queue_head

\* sys_fork
SysFork ==
    LET c == created + 1 IN
    /\ InUser /\ c <= MaxTasks
    /\ NewTask(c, PID, pid[running_task])
    /\ PID' = PID + 1
    /\ \E t \in listed : next[t] = NULL /\ next' = Link(next, c, t)
    /\ listed' = listed \cup {c}
    /\ task_count' = task_count + 1
    /\ is_waiting' = FreshWait(c)
    /\ rsp' = FreshContext(c)
    /\ UNCHANGED <<queue_head, running_task, previous, cpu, phase, temp, is_bg>>

\* Yield, system call 6
SysYield ==
    /\ InUser
    /\ UNCHANGED <<listVars, nameVars, sleepVars>>
    /\ Schedule(rsp, is_waiting)

\* Mutant: PID is decremented and not incremented again.
SysExecLosingPid ==
    LET c == created + 1 IN
    /\ InUser /\ c <= MaxTasks
    /\ NewTask(c, pid[running_task], ppid[running_task])
    /\ PID' = PID - 1
    /\ \E p \in listed, t \in listed \ {running_task} :
        LET without == Unlink(next, running_task, p) IN
        /\ next[p] = running_task
        /\ without[t] = NULL
        /\ next' = Link(without, c, t)
    /\ listed' = (listed \ {running_task}) \cup {c}
    /\ UNCHANGED <<queue_head, task_count, is_bg>>
    /\ ScheduleNext(FreshContext(c), FreshWait(c))

\* Exec of a file that exists: a new task takes over pid and ppid of the
\* running one.  PID is decremented here and incremented by elf_run_bin.
SysExec ==
    LET c == created + 1 IN
    /\ InUser /\ c <= MaxTasks
    /\ NewTask(c, pid[running_task], ppid[running_task])
    /\ PID' = (PID - 1) + 1
    /\ \E p \in listed, t \in listed \ {running_task} :
        LET without == Unlink(next, running_task, p) IN
        /\ next[p] = running_task
        /\ without[t] = NULL
        /\ next' = Link(without, c, t)
    /\ listed' = (listed \ {running_task}) \cup {c}
    /\ task_count' = (task_count - 1) + 1
    /\ UNCHANGED <<queue_head, is_bg>>
    /\ ScheduleNext(FreshContext(c), FreshWait(c))

\* sys_exit: system call 10, exec of a missing file, and every exception
\* that gidt.c handles.
SysExit ==
    /\ InUser
    /\ DeleteCurr
    /\ UNCHANGED <<nameVars, sleepVars>>
    /\ ScheduleNext(rsp, is_waiting)

\* page_fault_handler: load_sbush starts another shell, always with pid 1,
\* then the faulting task is removed.
PageFault ==
    LET c == created + 1 IN
    /\ InUser /\ c <= MaxTasks
    /\ NewTask(c, 1, 0)
    /\ PID' = PID + 1
    /\ \E t \in listed, p \in listed :
        LET with == Link(next, c, t) IN
        /\ next[t] = NULL
        /\ with[p] = running_task
        /\ next' = Unlink(with, running_task, p)
    /\ listed' = (listed \cup {c}) \ {running_task}
    /\ task_count' = (task_count + 1) - 1
    /\ UNCHANGED <<queue_head, is_bg>>
    /\ ScheduleNext(FreshContext(c), FreshWait(c))

\* sys_waitpid past its is_bg test: wait for child c, or return at once when
\* there is none.
WaitFor(S) ==
    \/ S = {} /\ UNCHANGED vars
    \/ \E c \in listed :
        /\ IsFirst(c, S)
        /\ UNCHANGED <<listVars, nameVars, sleepVars>>
        /\ Schedule(rsp, [is_waiting EXCEPT ![running_task] = pid[c]])

\* The children wait() may wait for.
Children(n) == {m \in listed : ppid[m] = pid[n] /\ bg[m] # 1}

\* System call 32: sys_waitpid(0, 0)
SysWait == InUser /\ WaitFor(Children(running_task))

\* System call 20: sys_waitpid(p, is_bg)
SysWaitpid(p) ==
    /\ InUser
    /\ IF is_bg = 1 THEN UNCHANGED vars
       ELSE WaitFor(IF p = 0 THEN Children(running_task)
                             ELSE WithPid(listed, pid, p))

\* System call 22 with argument t, and with "&" in its line when b = 1
SysSleep(t, b) ==
    /\ InUser
    /\ is_bg' = b
    /\ bg' = IF b = 1 THEN [bg EXCEPT ![running_task] = 1] ELSE bg
    /\ sleep_time' = [sleep_time EXCEPT ![running_task] = t]
    /\ is_sleeping' = [is_sleeping EXCEPT ![running_task] = 1]
    /\ UNCHANGED <<listVars, nameVars>>
    /\ Schedule(rsp, is_waiting)

\* sys_kill: the parent of the caller goes without further tests
KillParent(p) ==
    /\ p = ppid[running_task]
    /\ DeleteFromTaskList(p)
    /\ UNCHANGED <<nameVars, sleepVars>>
    /\ Schedule(rsp, is_waiting)

\* Mutant: the name of the task is not tested.
KillKernelToo(p) ==
    /\ p # ppid[running_task]
    /\ Kernel \in WithPid(listed, pid, p)
    /\ DeleteFromTaskList(p)
    /\ UNCHANGED <<nameVars, sleepVars>>
    /\ Schedule(rsp, is_waiting)

\* "Can't kill kernel": the kernel is known by its name, which no other has.
KillKernel(p) ==
    /\ p # ppid[running_task]
    /\ Kernel \in WithPid(listed, pid, p)
    /\ UNCHANGED <<listVars, nameVars, sleepVars>>
    /\ Schedule(rsp, is_waiting)

KillSelf(p) ==
    /\ p # ppid[running_task]
    /\ Kernel \notin WithPid(listed, pid, p)
    /\ running_task \in WithPid(listed, pid, p)
    /\ DeleteCurr
    /\ UNCHANGED <<nameVars, sleepVars>>
    /\ ScheduleNext(rsp, is_waiting)

\* Mutant: the caller goes on without a schedule.
KillOtherReturning(p) ==
    /\ p # ppid[running_task]
    /\ {Kernel, running_task} \cap WithPid(listed, pid, p) = {}
    /\ DeleteFromTaskList(p)
    /\ UNCHANGED <<nameVars, sleepVars, cpuVars, is_waiting>>

KillOther(p) ==
    /\ p # ppid[running_task]
    /\ {Kernel, running_task} \cap WithPid(listed, pid, p) = {}
    /\ DeleteFromTaskList(p)
    /\ UNCHANGED <<nameVars, sleepVars>>
    /\ Schedule(rsp, is_waiting)

SysKill(p) ==
    /\ InUser
    /\ KillParent(p) \/ KillKernel(p) \/ KillSelf(p) \/ KillOther(p)

-----------------------------------------------------------------------------
(* idle_proc: schedule(0) again and again, with interrupts on.               *)

\* Mutant: a waiting task is taken for a runnable one.
IdleTestSleepOnly ==
    /\ phase = "test"
    /\ phase' = IF next[temp] # NULL /\ is_sleeping[next[temp]] # 0
                THEN "body" ELSE "pick"
    /\ UNCHANGED <<listVars, nameVars, sleepVars, is_waiting,
                   running_task, previous, rsp, cpu, temp>>

\* The test of the loop over temp->next
IdleTest ==
    /\ phase = "test"
    /\ phase' = IF next[temp] # NULL /\ Blocked(next[temp], is_sleeping, is_waiting)
                THEN "body" ELSE "pick"
    /\ UNCHANGED <<listVars, nameVars, sleepVars, is_waiting,
                   running_task, previous, rsp, cpu, temp>>

\* The release of the node the scan stands on
ReleaseTemp ==
    is_waiting' =
        IF is_waiting[temp] > 0 /\ ChildDone(listed, pid, is_sleeping, is_waiting[temp])
        THEN [is_waiting EXCEPT ![temp] = 0] ELSE is_waiting

\* The body of the loop
IdleBody ==
    /\ phase = "body"
    /\ ReleaseTemp
    /\ temp' = next[temp]
    /\ phase' = "test"
    /\ UNCHANGED <<listVars, nameVars, sleepVars, running_task, previous, rsp, cpu>>

\* What follows the loop, up to the switch
IdlePick ==
    /\ phase = "pick"
    /\ ReleaseTemp
    /\ previous' = running_task
    /\ UNCHANGED <<listVars, nameVars, sleepVars>>
    /\ SwitchTo(Successor(temp), running_task, 0, rsp)
    /\ Dispatch(Successor(temp))

\* irq_timer_handler on the ticks that call dec_sleep_count, one in a hundred
Tick ==
    LET left(n) == IF sleep_time[n] = 0 THEN TimeMod - 1 ELSE sleep_time[n] - 1
        asleep  == {n \in listed : is_sleeping[n] = 1}
    IN  /\ sleep_time' = [n \in Nodes |-> IF n \in asleep THEN left(n) ELSE sleep_time[n]]
        /\ is_sleeping' = [n \in Nodes |-> IF n \in asleep /\ left(n) = 0
                                          THEN 0 ELSE is_sleeping[n]]
        /\ UNCHANGED <<listVars, nameVars, cpuVars, is_waiting, bg, is_bg>>

-----------------------------------------------------------------------------

\* The state at the end of start(): boot task and shell listed, and the shell
\* switched to.
Init ==
    /\ queue_head = 1 /\ running_task = 2 /\ previous = 1
    /\ next = [n \in Nodes |-> IF n = 1 THEN 2 ELSE NULL]
    /\ listed = {1, 2} /\ created = 2 /\ task_count = 2
    /\ pid = [n \in Nodes |-> IF n = 2 THEN 1 ELSE 0]
    /\ ppid = [n \in Nodes |-> IF n = 1 THEN NoPid ELSE 0]
    /\ PID = 2
    /\ is_waiting = [n \in Nodes |-> 0]
    /\ sleep_time = [n \in Nodes |-> 0]
    /\ is_sleeping = [n \in Nodes |-> 0]
    /\ bg = [n \in Nodes |-> 0] /\ is_bg = 0
    /\ rsp = [n \in Nodes |-> IF n = 1 THEN 1 ELSE NULL] /\ cpu = 2
    /\ phase = "user" /\ temp = NULL

\* Pids a program can name: those in use, and one that is not.
Pids == 0 .. MaxTasks + 1

\* No program whose parent is the kernel calls kill(0).  Only bin/kill makes
\* system call 24, always in a child the shell forked, whose ppid is not 0;
\* KillIsAllowed of Session checks it.
MayKill(p) == ~(p = pid[Kernel] /\ ppid[running_task] = p)

UserStep ==
    \/ SysFork \/ SysYield \/ SysExec \/ SysExit \/ PageFault \/ SysWait
    \/ \E p \in Pids : SysWaitpid(p) \/ (MayKill(p) /\ SysKill(p))
    \/ \E t \in SleepTimes, b \in {0, 1} : SysSleep(t, b)

Idle == IdleTest \/ IdleBody \/ IdlePick

Next == UserStep \/ Idle \/ Tick

Spec == Init /\ [][Next]_vars

\* A program that keeps making system calls, an idle loop that runs while it
\* is scheduled, and a timer that ticks.
FairSpec == Spec /\ WF_vars(UserStep) /\ WF_vars(Idle) /\ WF_vars(Tick)

-----------------------------------------------------------------------------
(* Properties *)

\* The variables have the types of the C declarations.
TypeOK ==
    /\ created \in Nodes /\ listed \subseteq 1 .. created
    /\ queue_head \in Nodes /\ running_task \in Nodes /\ previous \in Nodes
    /\ next \in [Nodes -> Nodes \cup {NULL}]
    /\ pid \in [Nodes -> Nat] /\ ppid \in [Nodes -> Nat \cup {NoPid}]
    /\ PID \in Nat /\ task_count \in Int
    /\ is_waiting \in [Nodes -> Nat]
    /\ sleep_time \in [Nodes -> 0 .. TimeMod - 1]
    /\ is_sleeping \in [Nodes -> {0, 1}]
    /\ bg \in [Nodes -> {0, 1}] /\ is_bg \in {0, 1}
    /\ rsp \in [Nodes -> Nodes \cup {NULL}] /\ cpu \in Nodes \cup {NULL}
    /\ phase \in {"user", "test", "body", "pick"}
    /\ temp \in Nodes \cup {NULL}

\* The next pointers thread the listed nodes, from the head, in the order of
\* their creation and without a cycle: so the unbounded walks of process.c
\* (while temp->next != x) meet every listed node and end.
ListWellFormed ==
    /\ queue_head \in listed /\ \A n \in listed : queue_head <= n
    /\ \A n \in listed :
        IF next[n] = NULL
        THEN \A m \in listed : m <= n
        ELSE /\ next[n] \in listed /\ n < next[n]
             /\ \A m \in listed : m <= n \/ next[n] <= m

\* The kernel's idle task stays at the head of the list and never blocks,
\* whatever pids are killed ("Can't kill kernel"): schedule, which falls back
\* on queue_head without testing it, always finds a task to run there.
KernelKept ==
    /\ queue_head = Kernel /\ Kernel \in listed
    /\ ~Blocked(Kernel, is_sleeping, is_waiting)

\* schedule(1) starts from previous, which no deletion updates.  It never
\* refers to a task that has been removed from the list, and the running task
\* is another one, so that removing that is harmless.
PreviousListed ==
    /\ running_task \in listed /\ previous \in listed
    /\ running_task = previous => running_task = Kernel

\* No task is given the CPU while it sleeps or waits, though the timer and the
\* idle loop's scan race on is_sleeping.
RunningRunnable == ~Blocked(running_task, is_sleeping, is_waiting)

\* The CPU executes the task that running_task names, and every other listed
\* task can be resumed: its saved rsp is its own and up to date, no exit,
\* exec, fault or kill having stored another context over it.
ContextsIntact ==
    /\ cpu = running_task
    /\ \A n \in listed \ {running_task} : rsp[n] = n

\* Each pid was handed out by PID++, and a parent's before its child's.
PidsOrdered ==
    \A n \in listed : ppid[n] < pid[n] /\ pid[n] < PID

\* From some time on no task is created.
Settled == <>[][created' = created]_vars

\* Only new tasks can starve a task: if their creation ends, each listed task is
\* given the CPU or killed in the end, sleepers and waiters included, though only
\* a scan that passes over a waiting task releases it and each exit restarts the
\* scan at previous; unless the task waits for a process that sleeps, as that one
\* may do again and again.  While tasks are created this may fail: an exec, or a
\* fork and an exit, repeated by the tasks behind previous, keeps the CPU from
\* the kernel and all tasks before them.  A sleep of 0 seconds, which
\* dec_sleep_count takes past 0, ends too, but only after TimeMod seconds.
EveryTaskRuns ==
    Settled => \A n \in Nodes :
        n \in listed ~> \/ running_task = n \/ n \notin listed
                       \/ /\ is_waiting[n] > 0
                          /\ ~ChildDone(listed, pid, is_sleeping, is_waiting[n])

\* The list and its cursors keep the promises of Scheduler: only a live task
\* that neither sleeps nor waits gets the CPU, sleepers are woken by the timer
\* alone and waiters when their process is gone or awake, nobody but the task
\* itself puts it to sleep, fork gives a pid nobody has, and no call removes
\* the kernel's task.
Abstract ==
    INSTANCE Scheduler WITH
        Tasks <- Nodes, Root <- Kernel, ShellName <- 1, NoName <- 0,
        used <- 1 .. created, alive <- listed, name <- pid,
        asleep <- {n \in listed : is_sleeping[n] # 0},
        awaits <- is_waiting, current <- running_task

ImplementsScheduler == Abstract!Spec

=============================================================================
