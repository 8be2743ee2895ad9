---------------------------- MODULE ProcessProofs ----------------------------
(***************************************************************************)
(* Proofs, for any number of tasks and any sleep times, that the list, the *)
(* pointers and the saved contexts of Process stay consistent.             *)
(*                                                                         *)
(* None of the invariants is inductive alone: an unlink keeps the list in  *)
(* order only if the node is not the head (KernelKept, PidsOrdered), a     *)
(* schedule(1) lands in the list only if previous does (PreviousListed),   *)
(* and it loads the right context only if all contexts were intact.  The   *)
(* idle loop adds what its cursor knows between two steps (ScanProgress).  *)
(*                                                                         *)
(* And proofs that Process implements Scheduler.  The mapping is the one   *)
(* of Abstract in Process.  The invariant Consistent, which every step     *)
(* preserves, says already that the task a step switches to is listed and  *)
(* neither sleeps nor waits, so what is left for each action is which      *)
(* tasks it adds, removes, blocks and releases.                            *)
(***************************************************************************)
EXTENDS Process, TLAPS, WellFoundedInduction

\* What the cursor of the idle loop's scan knows; the timer may tick between
\* the test of the loop and the pick.
ScanProgress ==
    /\ phase = "user" <=> running_task # Kernel
    /\ phase # "user" => temp \in listed
    /\ phase = "body" => next[temp] # NULL
    /\ phase = "pick" /\ next[temp] # NULL
            => ~Blocked(next[temp], is_sleeping, is_waiting)

\* What schedule establishes.
Scheduled ==
    /\ running_task \in Nodes /\ previous \in Nodes
    /\ rsp \in [Nodes -> Nodes \cup {NULL}] /\ cpu \in Nodes \cup {NULL}
    /\ phase \in {"user", "test", "body", "pick"} /\ temp \in Nodes \cup {NULL}
    /\ is_waiting \in [Nodes -> Nat]
    /\ KernelKept /\ PreviousListed /\ RunningRunnable /\ ContextsIntact
    /\ ScanProgress

\* The inductive invariant.
Consistent ==
    /\ TypeOK /\ ListWellFormed /\ KernelKept /\ PreviousListed
    /\ RunningRunnable /\ ContextsIntact /\ PidsOrdered /\ ScanProgress

\* ListWellFormed of any head, next pointers and set of nodes.
Threaded(h, nx, ls) ==
    /\ h \in ls /\ \A n \in ls : h <= n
    /\ \A n \in ls :
        IF nx[n] = NULL
        THEN \A m \in ls : m <= n
        ELSE /\ nx[n] \in ls /\ n < nx[n]
             /\ \A m \in ls : m <= n \/ nx[n] <= m

-----------------------------------------------------------------------------
(* Lemmas on the list *)

\* Splicing a node other than the head out of a well-formed list, as both
\* delete functions do, leaves the others well formed.
LEMMA UnlinkThreaded ==
    ASSUME NEW nx \in [Nodes -> Nodes \cup {NULL}], NEW ls \in SUBSET Nodes,
           NEW h \in Nodes, NEW n \in ls, NEW p \in ls,
           Threaded(h, nx, ls), n # h, nx[p] = n
    PROVE  /\ Unlink(nx, n, p) \in [Nodes -> Nodes \cup {NULL}]
           /\ Threaded(h, Unlink(nx, n, p), ls \ {n})
  <1> DEFINE ux == Unlink(nx, n, p)
  <1>1. ux \in [Nodes -> Nodes \cup {NULL}]
    BY ProcessAssumption DEF Unlink
  <1>2. p < n /\ p # n
    BY ProcessAssumption DEF Threaded, Nodes, NULL
  <1>3. ux[p] = nx[n] /\ \A m \in Nodes : m # p => ux[m] = nx[m]
    BY DEF Unlink
  <1>4. h \in ls \ {n} /\ \A m \in ls \ {n} : h <= m
    BY DEF Threaded
  <1>5. ASSUME NEW m \in ls \ {n}
        PROVE IF ux[m] = NULL
              THEN \A k \in ls \ {n} : k <= m
              ELSE /\ ux[m] \in ls \ {n} /\ m < ux[m]
                   /\ \A k \in ls \ {n} : k <= m \/ ux[m] <= k
    <2>1. CASE m = p
      BY <2>1, <1>2, <1>3 DEF Threaded, Nodes, NULL
    <2>2. CASE m # p
      BY <2>2, <1>2, <1>3 DEF Threaded, Nodes, NULL
    <2> QED BY <2>1, <2>2
  <1> QED BY <1>1, <1>4, <1>5 DEF Threaded

\* Appending a node younger than all others, as add_to_task_list does, keeps
\* the list well formed.
LEMMA LinkThreaded ==
    ASSUME NEW nx \in [Nodes -> Nodes \cup {NULL}], NEW ls \in SUBSET Nodes,
           NEW h \in Nodes, NEW c \in Nodes, NEW t \in ls,
           Threaded(h, nx, ls), \A m \in ls : m < c, nx[t] = NULL
    PROVE  /\ Link(nx, c, t) \in [Nodes -> Nodes \cup {NULL}]
           /\ Threaded(h, Link(nx, c, t), ls \cup {c})
  <1> DEFINE lx == Link(nx, c, t)
  <1>1. lx \in [Nodes -> Nodes \cup {NULL}]
    BY DEF Link
  <1>2. t # c /\ c \notin ls
    BY DEF Nodes
  <1>3. lx[t] = c /\ lx[c] = NULL /\ \A m \in Nodes : m # t /\ m # c => lx[m] = nx[m]
    BY <1>2 DEF Link
  <1>4. h \in ls \cup {c} /\ \A m \in ls \cup {c} : h <= m
    BY DEF Threaded, Nodes
  <1>5. ASSUME NEW m \in ls \cup {c}
        PROVE IF lx[m] = NULL
              THEN \A k \in ls \cup {c} : k <= m
              ELSE /\ lx[m] \in ls \cup {c} /\ m < lx[m]
                   /\ \A k \in ls \cup {c} : k <= m \/ lx[m] <= k
    <2>1. CASE m = t
      BY <2>1, <1>2, <1>3 DEF Threaded, Nodes, NULL
    <2>2. CASE m = c
      BY <2>2, <1>2, <1>3 DEF Threaded, Nodes, NULL
    <2>3. CASE m # t /\ m # c
      BY <2>3, <1>2, <1>3 DEF Threaded, Nodes, NULL
    <2> QED BY <2>1, <2>2, <2>3
  <1> QED BY <1>1, <1>4, <1>5 DEF Threaded

-----------------------------------------------------------------------------
(* Lemmas on schedule *)

\* Whatever node the scan starts from, the task it ends up with is listed, is
\* runnable, and is the kernel or comes after the start.
LEMMA ScanResult ==
    ASSUME NEW s \in Nodes, NEW waits \in [Nodes -> Nat], NEW e \in listed',
           listed' \subseteq Nodes, next' \in [Nodes -> Nodes \cup {NULL}],
           Threaded(queue_head', next', listed'), queue_head' = Kernel,
           ~Blocked(Kernel, is_sleeping', waits), ScanEnds(s, e, waits)
    PROVE  /\ Successor(e) \in listed'
           /\ ~Blocked(Successor(e), is_sleeping', waits)
           /\ Successor(e) = Kernel \/ s < Successor(e)
  <1>1. CASE next'[e] = NULL
    BY <1>1 DEF Successor, Threaded
  <1>2. CASE next'[e] # NULL
    <2>1. next'[e] \in listed' /\ e < next'[e]
      BY <1>2 DEF Threaded
    <2>2. s <= e /\ ~Blocked(next'[e], is_sleeping', waits)
      BY <1>2 DEF ScanEnds
    <2> QED BY <1>2, <2>1, <2>2 DEF Nodes, Successor, Blocked
  <1> QED BY <1>1, <1>2

\* Releasing waiters only clears is_waiting.
LEMMA ReleasedClears ==
    ASSUME NEW s, NEW e, NEW waits \in [Nodes -> Nat]
    PROVE  /\ Released(s, e, waits) \in [Nodes -> Nat]
           /\ \A n \in Nodes : Released(s, e, waits)[n] \in {0, waits[n]}
  BY DEF Released

\* A switch to a listed and runnable task, with every context in place, leaves
\* the scheduler's state consistent.
LEMMA SwitchScheduled ==
    ASSUME NEW to \in listed', NEW me \in Nodes, NEW first \in {0, 1},
           NEW ctx \in [Nodes -> Nodes \cup {NULL}], NEW waits \in [Nodes -> Nat],
           listed' \subseteq Nodes, queue_head' = Kernel, Kernel \in listed',
           previous' \in listed', to = previous' => to = Kernel,
           is_sleeping' \in [Nodes -> {0, 1}],
           ~Blocked(Kernel, is_sleeping', waits),
           ~Blocked(to, is_sleeping', waits),
           is_waiting' \in [Nodes -> Nat],
           \A n \in Nodes : is_waiting'[n] \in {0, waits[n]},
           first = 0 => me = cpu /\ cpu \in Nodes,
           \A n \in listed' : ctx[n] = n \/ (first = 0 /\ n = me),
           SwitchTo(to, me, first, ctx), Dispatch(to)
    PROVE  Scheduled'
  <1> DEFINE saved == IF first = 0 THEN [ctx EXCEPT ![me] = cpu] ELSE ctx
  <1>1. saved \in [Nodes -> Nodes \cup {NULL}]
    OBVIOUS
  <1>2. \A n \in listed' : saved[n] = n
    OBVIOUS
  <1>3. cpu' = saved[to] /\ rsp' = [saved EXCEPT ![to] = NULL]
    BY DEF SwitchTo
  <1>4. /\ rsp' \in [Nodes -> Nodes \cup {NULL}] /\ cpu' = to
        /\ \A n \in listed' \ {to} : rsp'[n] = n
    BY <1>1, <1>2, <1>3
  <1>5. running_task' = to
    BY DEF Dispatch
  <1>6. /\ temp' \in Nodes \cup {NULL} /\ phase' \in {"user", "test"}
        /\ phase' = "user" <=> running_task' # Kernel
        /\ phase' # "user" => temp' \in listed'
    BY DEF Dispatch
  <1>7. /\ ~Blocked(Kernel, is_sleeping', is_waiting')
        /\ ~Blocked(to, is_sleeping', is_waiting')
    BY DEF Blocked
  <1>8. KernelKept' /\ RunningRunnable'
    BY <1>5, <1>7 DEF KernelKept, RunningRunnable, Blocked
  <1>9. PreviousListed'
    BY <1>5 DEF PreviousListed
  <1>10. ContextsIntact'
    BY <1>4, <1>5 DEF ContextsIntact
  <1>11. ScanProgress'
    BY <1>6 DEF ScanProgress
  <1> QED
    BY <1>4, <1>5, <1>6, <1>8, <1>9, <1>10, <1>11 DEF Scheduled

\* The list as a step leaves it, before it schedules.
ListKept ==
    /\ created \in Nodes /\ listed \subseteq 1 .. created
    /\ next \in [Nodes -> Nodes \cup {NULL}]
    /\ ListWellFormed
    /\ queue_head = Kernel
    /\ is_sleeping \in [Nodes -> {0, 1}]

\* What the lemmas on the list and on schedule take from ListKept.
LEMMA ListKeptFacts ==
    ASSUME ListKept'
    PROVE  /\ listed' \subseteq Nodes /\ next' \in [Nodes -> Nodes \cup {NULL}]
           /\ Threaded(queue_head', next', listed') /\ queue_head' = Kernel
           /\ is_sleeping' \in [Nodes -> {0, 1}] /\ Kernel \in listed'
  <1>1. listed' \subseteq Nodes
    BY ProcessAssumption DEF ListKept, Nodes
  <1>2. Threaded(queue_head', next', listed')
    BY DEF ListKept, ListWellFormed, Threaded
  <1>3. Kernel \in listed'
    BY DEF ListKept, ListWellFormed
  <1> QED BY <1>1, <1>2, <1>3 DEF ListKept

\* schedule(0), called by a task that stays listed.
LEMMA ScheduleKeeps ==
    ASSUME NEW waits \in [Nodes -> Nat], Consistent, ListKept',
           listed' \subseteq listed, running_task \in listed',
           running_task # Kernel, ~Blocked(Kernel, is_sleeping', waits),
           Schedule(rsp, waits)
    PROVE  Scheduled'
  <1>1. PICK e \in listed' :
            /\ ScanEnds(running_task, e, waits)
            /\ is_waiting' = Released(running_task, e, waits)
            /\ SwitchTo(Successor(e), running_task, 0, rsp)
            /\ Dispatch(Successor(e))
    BY DEF Schedule, ScheduleFrom
  <1>2. previous' = running_task
    BY DEF Schedule
  <1>3. /\ listed' \subseteq Nodes /\ next' \in [Nodes -> Nodes \cup {NULL}]
        /\ Threaded(queue_head', next', listed') /\ queue_head' = Kernel
        /\ is_sleeping' \in [Nodes -> {0, 1}] /\ Kernel \in listed'
    BY ListKeptFacts
  <1>4. /\ running_task \in Nodes /\ rsp \in [Nodes -> Nodes \cup {NULL}]
        /\ cpu = running_task
        /\ \A n \in listed' : rsp[n] = n \/ n = running_task
    BY DEF Consistent, TypeOK, ContextsIntact
  <1> DEFINE to == Successor(e)
  <1>5. /\ to \in listed' /\ ~Blocked(to, is_sleeping', waits)
        /\ to = Kernel \/ running_task < to
    BY <1>1, <1>3, <1>4, ScanResult
  <1>6. /\ is_waiting' \in [Nodes -> Nat]
        /\ \A n \in Nodes : is_waiting'[n] \in {0, waits[n]}
    BY <1>1, ReleasedClears
  <1>7. to = previous' => to = Kernel
    BY <1>2, <1>4, <1>5 DEF Nodes
  <1>8. SwitchTo(to, running_task, 0, rsp) /\ Dispatch(to)
    BY <1>1
  <1> HIDE DEF to
  <1> QED
    BY <1>2, <1>3, <1>4, <1>5, <1>6, <1>7, <1>8, SwitchScheduled

\* schedule(1), after the running task has been unlinked.
LEMMA ScheduleNextKeeps ==
    ASSUME NEW waits \in [Nodes -> Nat], NEW ctx \in [Nodes -> Nodes \cup {NULL}],
           Consistent, ListKept', previous \in listed',
           ~Blocked(Kernel, is_sleeping', waits), \A n \in listed' : ctx[n] = n,
           ScheduleNext(ctx, waits)
    PROVE  Scheduled'
  <1>1. previous' = previous /\ previous \in Nodes
    BY DEF ScheduleNext, Consistent, TypeOK
  <1>2. /\ listed' \subseteq Nodes /\ next' \in [Nodes -> Nodes \cup {NULL}]
        /\ Threaded(queue_head', next', listed') /\ queue_head' = Kernel
        /\ is_sleeping' \in [Nodes -> {0, 1}] /\ Kernel \in listed'
    BY ListKeptFacts
  <1>3. CASE next'[previous] = NULL
    <2>1. /\ is_waiting' = waits
          /\ SwitchTo(Kernel, previous, 1, ctx) /\ Dispatch(Kernel)
      BY <1>2, <1>3 DEF ScheduleNext
    <2> QED
      BY <1>1, <1>2, <2>1, SwitchScheduled
  <1>4. CASE next'[previous] # NULL
    <2>1. PICK e \in listed' :
              /\ ScanEnds(previous, e, waits)
              /\ is_waiting' = Released(previous, e, waits)
              /\ SwitchTo(Successor(e), previous, 1, ctx)
              /\ Dispatch(Successor(e))
      BY <1>4 DEF ScheduleNext, ScheduleFrom
    <2> DEFINE to == Successor(e)
    <2>2. /\ to \in listed' /\ ~Blocked(to, is_sleeping', waits)
          /\ to = Kernel \/ previous < to
      BY <1>1, <1>2, <2>1, ScanResult
    <2>3. /\ is_waiting' \in [Nodes -> Nat]
          /\ \A n \in Nodes : is_waiting'[n] \in {0, waits[n]}
      BY <2>1, ReleasedClears
    <2>4. to = previous' => to = Kernel
      BY <1>1, <2>2 DEF Nodes
    <2>5. SwitchTo(to, previous, 1, ctx) /\ Dispatch(to)
      BY <2>1
    <2> HIDE DEF to
    <2> QED
      BY <1>1, <1>2, <2>2, <2>3, <2>4, <2>5, SwitchScheduled
  <1> QED BY <1>3, <1>4

-----------------------------------------------------------------------------
(* Lemmas on the steps that a program makes *)

\* The rest of the invariant: names and sleep state.
NamesKept ==
    /\ pid \in [Nodes -> Nat] /\ ppid \in [Nodes -> Nat \cup {NoPid}]
    /\ PID \in Nat /\ task_count \in Int
    /\ PidsOrdered
    /\ sleep_time \in [Nodes -> 0 .. TimeMod - 1]
    /\ bg \in [Nodes -> {0, 1}] /\ is_bg \in {0, 1}

\* The inductive invariant is the conjunction of its three parts.
LEMMA Parts == Consistent <=> ListKept /\ Scheduled /\ NamesKept
  <1>1. Consistent => ListKept /\ Scheduled /\ NamesKept
    BY DEF Consistent, ListKept, Scheduled, NamesKept, TypeOK, KernelKept
  <1>2. ASSUME ListKept, Scheduled, NamesKept
        PROVE Consistent
    <2>1. queue_head \in Nodes
      BY <1>2, ProcessAssumption DEF ListKept, Kernel, Nodes
    <2>2. TypeOK
      BY <1>2, <2>1 DEF ListKept, Scheduled, NamesKept, TypeOK
    <2> QED
      BY <1>2, <2>2 DEF ListKept, Scheduled, NamesKept, Consistent
  <1> QED BY <1>1, <1>2

\* The same after a step.
LEMMA PartsNext == ListKept' /\ Scheduled' /\ NamesKept' => Consistent'
  BY Parts, PTL

\* What the lemmas on the list take from the invariant.
LEMMA ListFacts ==
    ASSUME Consistent
    PROVE  /\ next \in [Nodes -> Nodes \cup {NULL}] /\ listed \in SUBSET Nodes
           /\ running_task \in listed /\ Threaded(Kernel, next, listed)
           /\ queue_head = Kernel /\ Kernel \in Nodes /\ Kernel \in listed
           /\ created \in Nodes /\ \A n \in listed : n <= created
  <1>1. queue_head = Kernel /\ Kernel \in listed /\ running_task \in listed
    BY DEF Consistent, KernelKept, PreviousListed
  <1>2. Threaded(Kernel, next, listed)
    BY <1>1 DEF Consistent, ListWellFormed, Threaded
  <1>3. /\ next \in [Nodes -> Nodes \cup {NULL}] /\ created \in Nodes
        /\ listed \subseteq 1 .. created
    BY DEF Consistent, TypeOK
  <1>4. listed \in SUBSET Nodes /\ \A n \in listed : n <= created
    BY <1>3, ProcessAssumption DEF Nodes
  <1> QED BY <1>1, <1>2, <1>3, <1>4

\* delete_curr_from_task_list keeps the list in order, and previous in it.
LEMMA DeleteCurrKeeps ==
    ASSUME Consistent, running_task # Kernel, DeleteCurr,
           UNCHANGED <<created, is_sleeping>>
    PROVE  ListKept' /\ previous \in listed' /\ listed' = listed \ {running_task}
  <1>1. PICK p \in listed :
            next[p] = running_task /\ next' = Unlink(next, running_task, p)
    BY DEF DeleteCurr
  <1>2. /\ listed' = listed \ {running_task} /\ queue_head' = Kernel
        /\ queue_head = Kernel
    BY DEF DeleteCurr, Consistent, KernelKept
  <1>3. /\ next \in [Nodes -> Nodes \cup {NULL}] /\ listed \in SUBSET Nodes
        /\ running_task \in listed /\ Threaded(Kernel, next, listed) /\ Kernel \in Nodes
    BY ListFacts
  <1>4. /\ next' \in [Nodes -> Nodes \cup {NULL}]
        /\ Threaded(Kernel, next', listed')
    BY Zenon, <1>1, <1>2, <1>3, UnlinkThreaded
  <1>5. previous \in listed'
    BY <1>2 DEF Consistent, PreviousListed
  <1>6. ListWellFormed'
    BY <1>2, <1>4 DEF ListWellFormed, Threaded
  <1> QED
    BY <1>2, <1>4, <1>5, <1>6 DEF ListKept, Consistent, TypeOK

\* delete_from_task_list of a pid that neither the kernel nor the caller has.
LEMMA DeleteFromTaskListKeeps ==
    ASSUME NEW p, Consistent, DeleteFromTaskList(p),
           pid[Kernel] # p, pid[running_task] # p,
           UNCHANGED <<created, is_sleeping>>
    PROVE  ListKept' /\ listed' \subseteq listed /\ running_task \in listed'
  <1>1. /\ next \in [Nodes -> Nodes \cup {NULL}] /\ listed \in SUBSET Nodes
        /\ running_task \in listed /\ Threaded(Kernel, next, listed)
        /\ queue_head = Kernel /\ Kernel \in Nodes
    BY ListFacts
  <1>2. CASE UNCHANGED <<queue_head, next, listed>>
    BY <1>1, <1>2 DEF ListKept, Consistent, TypeOK, ListWellFormed
  <1>3. CASE ~ UNCHANGED <<queue_head, next, listed>>
    <2>1. PICK n \in listed :
              /\ IsFirst(n, WithPid(listed, pid, p))
              /\ listed' = listed \ {n}
              /\ IF n # previous /\ n = queue_head
                 THEN queue_head' = next[n] /\ UNCHANGED next
                 ELSE /\ \E b \in listed : next[b] = n /\ next' = Unlink(next, n, b)
                      /\ UNCHANGED queue_head
      BY <1>3 DEF DeleteFromTaskList
    <2>2. n # Kernel /\ n # running_task
      BY <2>1 DEF IsFirst, WithPid
    <2>3. PICK b \in listed : /\ queue_head' = Kernel
                              /\ next[b] = n /\ next' = Unlink(next, n, b)
      BY <1>1, <2>1, <2>2
    <2>4. /\ next' \in [Nodes -> Nodes \cup {NULL}]
          /\ Threaded(Kernel, next', listed')
      BY Zenon, <1>1, <2>1, <2>2, <2>3, UnlinkThreaded
    <2>5. ListWellFormed'
      BY <2>3, <2>4 DEF ListWellFormed, Threaded
    <2>6. listed' \subseteq listed /\ running_task \in listed'
      BY <1>1, <2>1, <2>2
    <2> QED
      BY <2>3, <2>4, <2>5, <2>6 DEF ListKept, Consistent, TypeOK
  <1> QED BY <1>2, <1>3

\* A new task_struct with a pid that PID has passed and a smaller ppid.
LEMMA NewTaskKeeps ==
    ASSUME NEW p \in Nat, NEW pp \in Nat \cup {NoPid}, Consistent,
           pp < p, p < PID', PID' \in Nat, PID <= PID',
           created + 1 <= MaxTasks, NewTask(created + 1, p, pp),
           listed' \subseteq listed \cup {created + 1},
           is_bg' = is_bg, task_count' \in Int
    PROVE  /\ NamesKept'
           /\ created' = created + 1 /\ created' \in Nodes
           /\ is_sleeping' \in [Nodes -> {0, 1}]
           /\ FreshWait(created') \in [Nodes -> Nat]
           /\ FreshContext(created') \in [Nodes -> Nodes \cup {NULL}]
           /\ ~Blocked(Kernel, is_sleeping', FreshWait(created'))
           /\ \A n \in (listed \cup {created'}) \ {running_task} : FreshContext(created')[n] = n
  <1> DEFINE c == created + 1
  <1>1. /\ c \in Nodes /\ created \in Nodes /\ created' = c /\ c # Kernel
        /\ listed \in SUBSET Nodes /\ c \notin listed
    BY ListFacts, ProcessAssumption DEF NewTask, Nodes, Kernel
  <1>2. /\ pid' = [pid EXCEPT ![c] = p] /\ ppid' = [ppid EXCEPT ![c] = pp]
        /\ sleep_time' = [sleep_time EXCEPT ![c] = 0]
        /\ is_sleeping' = [is_sleeping EXCEPT ![c] = 0]
        /\ bg' = [bg EXCEPT ![c] = 0]
    BY DEF NewTask
  <1>3. TypeOK /\ PidsOrdered /\ KernelKept /\ ContextsIntact
    BY DEF Consistent
  <1>4. pid' \in [Nodes -> Nat] /\ ppid' \in [Nodes -> Nat \cup {NoPid}]
    BY <1>1, <1>2, <1>3 DEF TypeOK
  <1>5. /\ sleep_time' \in [Nodes -> 0 .. TimeMod - 1]
        /\ is_sleeping' \in [Nodes -> {0, 1}]
        /\ bg' \in [Nodes -> {0, 1}] /\ is_bg' \in {0, 1}
    BY <1>1, <1>2, <1>3, ProcessAssumption DEF TypeOK
  <1>6. PidsOrdered'
    <2> SUFFICES ASSUME NEW n \in listed'
                 PROVE  ppid'[n] < pid'[n] /\ pid'[n] < PID'
      BY DEF PidsOrdered
    <2>1. CASE n = c
      BY <1>1, <1>2, <1>3, <2>1 DEF TypeOK
    <2>2. CASE n # c
      <3>1. /\ n \in listed /\ n \in Nodes /\ ppid'[n] = ppid[n] /\ pid'[n] = pid[n]
            /\ pid[n] \in Nat /\ PID \in Nat
        BY <1>1, <1>2, <1>3, <2>2 DEF TypeOK
      <3> QED BY <1>3, <3>1 DEF PidsOrdered
    <2> QED BY <2>1, <2>2
  <1>7. /\ FreshWait(c) \in [Nodes -> Nat]
        /\ FreshContext(c) \in [Nodes -> Nodes \cup {NULL}]
    BY <1>1, <1>3 DEF TypeOK, FreshWait, FreshContext
  <1>8. ~Blocked(Kernel, is_sleeping', FreshWait(c))
    BY <1>1, <1>2, <1>3 DEF KernelKept, Blocked, FreshWait, TypeOK
  <1>9. \A n \in (listed \cup {c}) \ {running_task} : FreshContext(c)[n] = n
    BY <1>1, <1>3 DEF ContextsIntact, FreshContext, TypeOK
  <1> QED
    BY <1>1, <1>4, <1>5, <1>6, <1>7, <1>8, <1>9 DEF NamesKept

\* fork
LEMMA ForkKeeps == ASSUME Consistent, SysFork PROVE Consistent'
  <1> DEFINE c == created + 1
  <1>1. PICK t \in listed : next[t] = NULL /\ next' = Link(next, c, t)
    BY DEF SysFork
  <1>2. /\ c <= MaxTasks /\ NewTask(c, PID, pid[running_task]) /\ PID' = PID + 1
        /\ listed' = listed \cup {c} /\ task_count' = task_count + 1
        /\ is_waiting' = FreshWait(c) /\ rsp' = FreshContext(c)
        /\ UNCHANGED <<queue_head, running_task, previous, cpu, phase, temp, is_bg>>
        /\ phase = "user"
    BY DEF SysFork, InUser
  <1>3. TypeOK /\ PidsOrdered /\ Scheduled /\ running_task \in listed /\ running_task \in Nodes
    BY Parts DEF Consistent, PreviousListed, TypeOK
  <1>4. /\ pid[running_task] \in Nat /\ pid[running_task] < PID /\ PID \in Nat
        /\ task_count \in Int
    BY <1>3 DEF TypeOK, PidsOrdered
  <1>5. /\ NamesKept' /\ created' = c /\ c \in Nodes
        /\ is_sleeping' \in [Nodes -> {0, 1}]
        /\ FreshWait(c) \in [Nodes -> Nat]
        /\ FreshContext(c) \in [Nodes -> Nodes \cup {NULL}]
        /\ ~Blocked(Kernel, is_sleeping', FreshWait(c))
        /\ \A n \in (listed \cup {c}) \ {running_task} : FreshContext(c)[n] = n
    BY <1>2, <1>4, NewTaskKeeps
  <1>6. /\ next' \in [Nodes -> Nodes \cup {NULL}] /\ Threaded(Kernel, next', listed')
    <2>1. \A m \in listed : m < c
      BY ListFacts DEF Nodes
    <2> QED BY Zenon, <1>1, <1>2, <1>5, <2>1, ListFacts, LinkThreaded
  <1>7. listed' \subseteq 1 .. created'
    BY <1>2, <1>5, ListFacts DEF Nodes
  <1>8. ListKept'
    BY <1>2, <1>5, <1>6, <1>7, ListFacts DEF ListKept, ListWellFormed, Threaded
  <1>9. KernelKept' /\ PreviousListed'
    BY <1>2, <1>3, <1>5 DEF Scheduled, KernelKept, PreviousListed, Blocked
  <1>10. running_task # c /\ running_task # Kernel
    BY <1>2, <1>3, ListFacts DEF Scheduled, ScanProgress, Nodes
  <1>11. RunningRunnable'
    <2>1. is_sleeping'[running_task] = is_sleeping[running_task]
      BY <1>2, <1>3, <1>10 DEF NewTask, TypeOK
    <2>2. is_waiting'[running_task] = is_waiting[running_task]
      BY <1>2, <1>3, <1>10 DEF FreshWait, TypeOK
    <2> QED BY <1>2, <1>3, <2>1, <2>2 DEF Scheduled, RunningRunnable, Blocked
  <1>12. ContextsIntact'
    BY <1>2, <1>3, <1>5 DEF Scheduled, ContextsIntact
  <1>13. ScanProgress'
    BY <1>2, <1>3 DEF Scheduled, ScanProgress
  <1>14. Scheduled'
    BY Zenon, <1>2, <1>3, <1>5, <1>9, <1>11, <1>12, <1>13 DEF Scheduled
  <1> QED BY <1>5, <1>8, <1>14, PartsNext

\* What a program's step may assume: it is not the kernel that runs.
LEMMA UserFacts ==
    ASSUME Consistent, InUser
    PROVE  /\ running_task # Kernel /\ running_task \in Nodes
           /\ previous \in listed \ {running_task} /\ running_task # created + 1
           /\ is_waiting \in [Nodes -> Nat] /\ rsp \in [Nodes -> Nodes \cup {NULL}]
           /\ pid \in [Nodes -> Nat] /\ ppid \in [Nodes -> Nat \cup {NoPid}]
           /\ ppid[running_task] < pid[running_task] /\ pid[running_task] < PID
           /\ PID \in Nat /\ task_count \in Int
           /\ ~Blocked(Kernel, is_sleeping, is_waiting)
           /\ \A n \in listed \ {running_task} : rsp[n] = n
  <1>1. /\ TypeOK /\ PreviousListed /\ PidsOrdered /\ ScanProgress /\ KernelKept
        /\ ContextsIntact
    BY DEF Consistent
  <1>2. running_task # Kernel
    BY <1>1 DEF ScanProgress, InUser
  <1>3. previous \in listed \ {running_task}
    BY <1>1, <1>2 DEF PreviousListed
  <1>4. running_task # created + 1
    BY ListFacts DEF Nodes
  <1>5. ppid[running_task] < pid[running_task] /\ pid[running_task] < PID
    BY <1>1 DEF PidsOrdered, PreviousListed
  <1> QED
    BY <1>1, <1>2, <1>3, <1>4, <1>5 DEF TypeOK, KernelKept, ContextsIntact

\* The names and the sleep state do not change.
LEMMA NamesUnchanged ==
    ASSUME Consistent, listed' \subseteq listed, task_count' \in Int,
           UNCHANGED <<nameVars, sleepVars>>
    PROVE  NamesKept'
  <1>1. TypeOK /\ PidsOrdered
    BY DEF Consistent
  <1> QED BY <1>1 DEF NamesKept, TypeOK, PidsOrdered, nameVars, sleepVars

\* exec
LEMMA ExecKeeps == ASSUME Consistent, SysExec PROVE Consistent'
  <1> DEFINE c == created + 1
             without(p) == Unlink(next, running_task, p)
  <1>1. PICK p \in listed, t \in listed \ {running_task} :
            /\ next[p] = running_task /\ without(p)[t] = NULL
            /\ next' = Link(without(p), c, t)
    BY DEF SysExec
  <1>2. /\ InUser /\ c <= MaxTasks
        /\ NewTask(c, pid[running_task], ppid[running_task])
        /\ PID' = (PID - 1) + 1
        /\ listed' = (listed \ {running_task}) \cup {c}
        /\ task_count' = (task_count - 1) + 1
        /\ UNCHANGED <<queue_head, is_bg>>
        /\ ScheduleNext(FreshContext(c), FreshWait(c))
    BY DEF SysExec
  <1>3. /\ pid[running_task] \in Nat /\ ppid[running_task] \in Nat \cup {NoPid}
        /\ ppid[running_task] < pid[running_task] /\ pid[running_task] < PID'
        /\ PID' \in Nat /\ PID <= PID' /\ task_count' \in Int
        /\ listed' \subseteq listed \cup {c} /\ is_bg' = is_bg
    BY <1>2, UserFacts
  <1>4. /\ NamesKept' /\ created' = c /\ c \in Nodes
        /\ is_sleeping' \in [Nodes -> {0, 1}]
        /\ FreshWait(c) \in [Nodes -> Nat]
        /\ FreshContext(c) \in [Nodes -> Nodes \cup {NULL}]
        /\ ~Blocked(Kernel, is_sleeping', FreshWait(c))
        /\ \A n \in (listed \cup {c}) \ {running_task} : FreshContext(c)[n] = n
    BY Zenon, <1>2, <1>3, NewTaskKeeps
  <1>5. /\ without(p) \in [Nodes -> Nodes \cup {NULL}]
        /\ Threaded(Kernel, without(p), listed \ {running_task})
    BY Zenon, <1>1, <1>2, ListFacts, UserFacts, UnlinkThreaded
  <1>6. \A m \in listed \ {running_task} : m < c
    BY ListFacts DEF Nodes
  <1>7. next' \in [Nodes -> Nodes \cup {NULL}] /\ Threaded(Kernel, next', listed')
    <2> HIDE DEF without
    <2>1. listed \ {running_task} \in SUBSET Nodes
      BY ListFacts
    <2> QED BY Zenon, <1>1, <1>2, <1>4, <1>5, <1>6, <2>1, ListFacts, LinkThreaded
  <1>8. listed' \subseteq 1 .. created'
    BY <1>2, <1>4, ListFacts DEF Nodes
  <1>9. ListKept'
    BY <1>2, <1>4, <1>7, <1>8, ListFacts DEF ListKept, ListWellFormed, Threaded
  <1>10. previous \in listed' /\ \A n \in listed' : FreshContext(c)[n] = n
    BY Zenon, <1>2, <1>4, UserFacts
  <1>11. Scheduled'
    BY Zenon, <1>2, <1>4, <1>9, <1>10, ScheduleNextKeeps
  <1> QED BY <1>4, <1>9, <1>11, PartsNext

\* page_fault_handler
LEMMA PageFaultKeeps == ASSUME Consistent, PageFault PROVE Consistent'
  <1> DEFINE c == created + 1
             with(t) == Link(next, c, t)
  <1>1. PICK t \in listed, p \in listed :
            /\ next[t] = NULL /\ with(t)[p] = running_task
            /\ next' = Unlink(with(t), running_task, p)
    BY DEF PageFault
  <1>2. /\ InUser /\ c <= MaxTasks /\ NewTask(c, 1, 0)
        /\ PID' = PID + 1
        /\ listed' = (listed \cup {c}) \ {running_task}
        /\ task_count' = (task_count + 1) - 1
        /\ UNCHANGED <<queue_head, is_bg>>
        /\ ScheduleNext(FreshContext(c), FreshWait(c))
    BY DEF PageFault
  <1>3. /\ PID' \in Nat /\ PID <= PID' /\ 1 < PID' /\ task_count' \in Int
    BY <1>2, UserFacts
  <1>4. /\ NamesKept' /\ created' = c /\ c \in Nodes
        /\ is_sleeping' \in [Nodes -> {0, 1}]
        /\ FreshWait(c) \in [Nodes -> Nat]
        /\ FreshContext(c) \in [Nodes -> Nodes \cup {NULL}]
        /\ ~Blocked(Kernel, is_sleeping', FreshWait(c))
        /\ \A n \in (listed \cup {c}) \ {running_task} : FreshContext(c)[n] = n
    BY <1>2, <1>3, NewTaskKeeps
  <1>5. \A m \in listed : m < c
    BY ListFacts DEF Nodes
  <1>6. /\ with(t) \in [Nodes -> Nodes \cup {NULL}]
        /\ Threaded(Kernel, with(t), listed \cup {c})
    BY Zenon, <1>1, <1>4, <1>5, ListFacts, LinkThreaded
  <1>7. next' \in [Nodes -> Nodes \cup {NULL}] /\ Threaded(Kernel, next', listed')
    <2> HIDE DEF with
    <2>1. /\ listed \cup {c} \in SUBSET Nodes /\ running_task \in listed \cup {c}
          /\ p \in listed \cup {c}
      BY <1>4, ListFacts
    <2> QED BY Zenon, <1>1, <1>2, <1>6, <2>1, ListFacts, UserFacts, UnlinkThreaded
  <1>8. listed' \subseteq 1 .. created'
    BY <1>2, <1>4, ListFacts DEF Nodes
  <1>9. ListKept'
    BY <1>2, <1>4, <1>7, <1>8, ListFacts DEF ListKept, ListWellFormed, Threaded
  <1>10. previous \in listed' /\ \A n \in listed' : FreshContext(c)[n] = n
    BY <1>2, <1>4, UserFacts
  <1>11. Scheduled'
    BY <1>2, <1>4, <1>9, <1>10, ScheduleNextKeeps
  <1> QED BY Zenon, <1>4, <1>9, <1>11, PartsNext

\* The list does not change; tasks may fall asleep or wake.
LEMMA ListUnchanged ==
    ASSUME Consistent, UNCHANGED <<listVars, created>>,
           is_sleeping' \in [Nodes -> {0, 1}]
    PROVE  ListKept'
  BY Parts DEF ListKept, ListWellFormed, listVars

\* Every schedule(0) of a program that leaves the list alone.
LEMMA ScheduleOnly ==
    ASSUME NEW waits \in [Nodes -> Nat], Consistent, InUser,
           UNCHANGED <<listVars, nameVars>>, is_sleeping' \in [Nodes -> {0, 1}],
           ~Blocked(Kernel, is_sleeping', waits), Schedule(rsp, waits)
    PROVE  ListKept' /\ Scheduled'
  <1>1. ListKept'
    BY ListUnchanged DEF nameVars
  <1>2. listed' = listed /\ running_task \in listed' /\ running_task # Kernel
    BY UserFacts, ListFacts DEF listVars
  <1> QED BY <1>1, <1>2, ScheduleKeeps

\* yield
LEMMA YieldKeeps == ASSUME Consistent, SysYield PROVE Consistent'
  <1>1. /\ InUser /\ UNCHANGED <<listVars, nameVars, sleepVars>>
        /\ Schedule(rsp, is_waiting)
    BY DEF SysYield
  <1>2. is_sleeping' = is_sleeping /\ is_sleeping \in [Nodes -> {0, 1}]
        /\ listed' = listed /\ task_count' = task_count
    BY Zenon, <1>1 DEF Consistent, TypeOK, sleepVars, listVars
  <1>3. ListKept' /\ Scheduled'
    BY <1>1, <1>2, UserFacts, ScheduleOnly
  <1>4. NamesKept'
    BY <1>1, <1>2, UserFacts, NamesUnchanged
  <1> QED BY <1>3, <1>4, PartsNext

\* A step that deletes the running task and calls schedule(1): exit, and kill
\* of the caller itself.
LEMMA LeaveKeeps ==
    ASSUME Consistent, InUser, DeleteCurr, UNCHANGED <<nameVars, sleepVars>>,
           ScheduleNext(rsp, is_waiting)
    PROVE  Consistent'
  <1>1. created' = created /\ is_sleeping' = is_sleeping
    BY DEF nameVars, sleepVars
  <1>2. ListKept' /\ previous \in listed' /\ listed' = listed \ {running_task}
    BY Zenon, <1>1, UserFacts, DeleteCurrKeeps
  <1>3. task_count' = task_count - 1
    BY Zenon DEF DeleteCurr
  <1>4. Scheduled'
    BY Zenon, <1>1, <1>2, UserFacts, ScheduleNextKeeps
  <1>5. NamesKept'
    BY <1>2, <1>3, UserFacts, NamesUnchanged
  <1> QED BY <1>2, <1>4, <1>5, PartsNext

\* exit
LEMMA ExitKeeps == ASSUME Consistent, SysExit PROVE Consistent'
  BY LeaveKeeps DEF SysExit

\* A step that changes nothing.
LEMMA StutterKeeps == ASSUME Consistent, UNCHANGED vars PROVE Consistent'
  <1>1. UNCHANGED <<listVars, nameVars, sleepVars, cpuVars, is_waiting>>
    BY Zenon DEF vars
  <1>2. ListKept' /\ NamesKept'
    BY Zenon, <1>1, Parts DEF ListKept, NamesKept, ListWellFormed, PidsOrdered, listVars,
       nameVars, sleepVars
  <1>3. Scheduled'
    BY <1>1, Parts DEF Scheduled, KernelKept, PreviousListed, RunningRunnable,
       ContextsIntact, ScanProgress, Blocked, listVars, nameVars, sleepVars, cpuVars
  <1> QED BY <1>2, <1>3, PartsNext

\* The wait of a program for the first task of S.
LEMMA WaitForKeeps ==
    ASSUME NEW S, Consistent, InUser, WaitFor(S)
    PROVE  Consistent'
  <1>1. CASE UNCHANGED vars
    BY <1>1, StutterKeeps
  <1>2. ASSUME NEW c \in listed, UNCHANGED <<listVars, nameVars, sleepVars>>,
               Schedule(rsp, [is_waiting EXCEPT ![running_task] = pid[c]])
        PROVE  Consistent'
    <2> DEFINE waits == [is_waiting EXCEPT ![running_task] = pid[c]]
    <2>1. waits \in [Nodes -> Nat] /\ waits[Kernel] = is_waiting[Kernel]
      BY UserFacts, ListFacts
    <2>2. /\ is_sleeping' = is_sleeping /\ is_sleeping \in [Nodes -> {0, 1}]
          /\ listed' = listed /\ task_count' = task_count
      BY <1>2 DEF Consistent, TypeOK, sleepVars, listVars
    <2>3. ~Blocked(Kernel, is_sleeping', waits)
      BY <2>1, <2>2, UserFacts DEF Blocked
    <2>4. ListKept' /\ Scheduled'
      <3> HIDE DEF waits
      <3>1. Schedule(rsp, waits)
        BY Zenon, <1>2 DEF waits
      <3> QED BY <1>2, <2>1, <2>2, <2>3, <3>1, ScheduleOnly
    <2>5. NamesKept'
      BY <1>2, <2>2, UserFacts, NamesUnchanged
    <2> QED BY <2>4, <2>5, PartsNext
  <1> QED BY Zenon, <1>1, <1>2 DEF WaitFor

\* wait and waitpid
LEMMA WaitKeeps == ASSUME Consistent, SysWait PROVE Consistent'
  BY WaitForKeeps DEF SysWait

LEMMA WaitpidKeeps == ASSUME NEW p, Consistent, SysWaitpid(p) PROVE Consistent'
  BY WaitForKeeps, StutterKeeps DEF SysWaitpid

\* sleep
LEMMA SleepKeeps ==
    ASSUME NEW t \in SleepTimes, NEW b \in {0, 1}, Consistent, SysSleep(t, b)
    PROVE  Consistent'
  <1>1. /\ InUser /\ is_bg' = b
        /\ bg' = IF b = 1 THEN [bg EXCEPT ![running_task] = 1] ELSE bg
        /\ sleep_time' = [sleep_time EXCEPT ![running_task] = t]
        /\ is_sleeping' = [is_sleeping EXCEPT ![running_task] = 1]
        /\ UNCHANGED <<listVars, nameVars>> /\ Schedule(rsp, is_waiting)
    BY DEF SysSleep
  <1>2. TypeOK /\ PidsOrdered
    BY DEF Consistent
  <1>3. /\ is_sleeping' \in [Nodes -> {0, 1}]
        /\ is_sleeping'[Kernel] = is_sleeping[Kernel]
    BY Zenon, <1>1, <1>2, UserFacts, ListFacts DEF TypeOK
  <1>4. ~Blocked(Kernel, is_sleeping', is_waiting)
    BY Zenon, <1>3, UserFacts, <1>1 DEF Blocked
  <1>5. ListKept' /\ Scheduled'
    BY Zenon, <1>1, <1>3, <1>4, UserFacts, ScheduleOnly
  <1>6. t \in 0 .. TimeMod - 1
    BY ProcessAssumption
  <1>7. /\ sleep_time' \in [Nodes -> 0 .. TimeMod - 1]
        /\ bg' \in [Nodes -> {0, 1}] /\ is_bg' \in {0, 1}
    BY <1>1, <1>2, <1>6 DEF TypeOK
  <1>8. NamesKept'
    BY <1>1, <1>2, <1>7 DEF NamesKept, TypeOK, PidsOrdered, nameVars, listVars
  <1> QED BY <1>5, <1>8, PartsNext

\* kill of another task than the caller and the kernel.
LEMMA KillKeeps ==
    ASSUME NEW p, Consistent, InUser, DeleteFromTaskList(p),
           pid[Kernel] # p, pid[running_task] # p,
           UNCHANGED <<nameVars, sleepVars>>, Schedule(rsp, is_waiting)
    PROVE  Consistent'
  <1>1. /\ created' = created /\ is_sleeping' = is_sleeping
        /\ task_count' = task_count
    BY DEF nameVars, sleepVars, DeleteFromTaskList
  <1>2. ListKept' /\ listed' \subseteq listed /\ running_task \in listed'
    BY <1>1, DeleteFromTaskListKeeps
  <1>3. Scheduled'
    BY <1>1, <1>2, UserFacts, ScheduleKeeps
  <1>4. NamesKept'
    BY <1>1, <1>2, UserFacts, NamesUnchanged
  <1> QED BY <1>2, <1>3, <1>4, PartsNext

\* kill
LEMMA SysKillKeeps ==
    ASSUME NEW p, Consistent, MayKill(p), SysKill(p)
    PROVE  Consistent'
  <1>1. InUser
    BY DEF SysKill
  <1>2. CASE KillParent(p)
    <2>1. pid[Kernel] # p /\ pid[running_task] # p
      BY <1>1, <1>2, UserFacts DEF KillParent, MayKill, NoPid
    <2> QED BY <1>1, <1>2, <2>1, KillKeeps DEF KillParent
  <1>3. CASE KillKernel(p)
    BY <1>1, <1>3, YieldKeeps DEF KillKernel, SysYield
  <1>4. CASE KillSelf(p)
    BY Zenon, <1>1, <1>4, LeaveKeeps DEF KillSelf
  <1>5. CASE KillOther(p)
    <2>1. pid[Kernel] # p /\ pid[running_task] # p
      BY Zenon, <1>5, ListFacts DEF KillOther, WithPid
    <2> QED BY Zenon, <1>1, <1>5, <2>1, KillKeeps DEF KillOther
  <1> QED BY <1>2, <1>3, <1>4, <1>5 DEF SysKill

-----------------------------------------------------------------------------
(* The idle loop and the timer *)

\* What the idle loop knows of its cursor.
LEMMA IdleFacts ==
    ASSUME Consistent, phase # "user"
    PROVE  /\ running_task = Kernel /\ cpu = Kernel /\ temp \in listed /\ temp \in Nodes
           /\ next[temp] # NULL => next[temp] \in listed
           /\ is_waiting \in [Nodes -> Nat] /\ is_sleeping \in [Nodes -> {0, 1}]
           /\ rsp \in [Nodes -> Nodes \cup {NULL}]
           /\ ~Blocked(Kernel, is_sleeping, is_waiting)
           /\ \A n \in listed \ {Kernel} : rsp[n] = n
  <1>1. /\ TypeOK /\ ListWellFormed /\ ScanProgress /\ KernelKept /\ ContextsIntact
    BY DEF Consistent
  <1>2. running_task = Kernel /\ temp \in listed
    BY Zenon, <1>1 DEF ScanProgress
  <1> QED BY <1>1, <1>2, ListFacts DEF ListWellFormed, KernelKept, ContextsIntact, TypeOK

\* The release of a waiting task only ever clears its entry.
LEMMA ReleaseTempClears ==
    ASSUME Consistent, phase # "user", ReleaseTemp
    PROVE  /\ is_waiting' \in [Nodes -> Nat]
           /\ \A n \in Nodes : is_waiting'[n] \in {0, is_waiting[n]}
  BY IdleFacts DEF ReleaseTemp

LEMMA IdleTestKeeps == ASSUME Consistent, IdleTest PROVE Consistent'
  <1>1. /\ phase = "test" /\ phase' \in {"body", "pick"}
        /\ phase' = "body" => next[temp] # NULL
        /\ phase' = "pick" /\ next[temp] # NULL
                => ~Blocked(next[temp], is_sleeping, is_waiting)
        /\ UNCHANGED <<listVars, nameVars, sleepVars, is_waiting,
                       running_task, previous, rsp, cpu, temp>>
    BY Zenon DEF IdleTest
  <1>2. Scheduled'
    BY Zenon, <1>1, IdleFacts, Parts DEF Scheduled, KernelKept, PreviousListed, RunningRunnable,
       ContextsIntact, ScanProgress, Blocked, listVars, sleepVars
  <1>3. ListKept' /\ NamesKept'
    BY <1>1, Parts DEF ListKept, NamesKept, ListWellFormed, PidsOrdered, listVars,
       nameVars, sleepVars
  <1> QED BY <1>2, <1>3, PartsNext

LEMMA IdleBodyKeeps == ASSUME Consistent, IdleBody PROVE Consistent'
  <1>1. /\ phase = "body" /\ phase' = "test" /\ ReleaseTemp /\ temp' = next[temp]
        /\ UNCHANGED <<listVars, nameVars, sleepVars, running_task, previous, rsp, cpu>>
    BY DEF IdleBody
  <1>2. /\ next[temp] # NULL /\ next[temp] \in listed /\ next[temp] \in Nodes
    <2>1. next[temp] # NULL
      BY <1>1 DEF Consistent, ScanProgress
    <2> QED BY <1>1, <2>1, IdleFacts, ListFacts
  <1>3. /\ is_waiting' \in [Nodes -> Nat]
        /\ \A n \in Nodes : is_waiting'[n] \in {0, is_waiting[n]}
    BY <1>1, ReleaseTempClears
  <1>4. ~Blocked(Kernel, is_sleeping', is_waiting')
    BY <1>1, <1>3, IdleFacts, ListFacts DEF Blocked, sleepVars
  <1>5. Scheduled'
    BY Zenon, <1>1, <1>2, <1>3, <1>4, IdleFacts, Parts DEF Scheduled, KernelKept, PreviousListed,
       RunningRunnable, ContextsIntact, ScanProgress, listVars, sleepVars
  <1>6. ListKept' /\ NamesKept'
    BY <1>1, Parts DEF ListKept, NamesKept, ListWellFormed, PidsOrdered, listVars,
       nameVars, sleepVars
  <1> QED BY <1>5, <1>6, PartsNext

LEMMA IdlePickKeeps == ASSUME Consistent, IdlePick PROVE Consistent'
  <1> DEFINE to == Successor(temp)
  <1>1. /\ phase = "pick" /\ ReleaseTemp /\ previous' = running_task
        /\ UNCHANGED <<listVars, nameVars, sleepVars>>
        /\ SwitchTo(to, running_task, 0, rsp) /\ Dispatch(to)
    BY DEF IdlePick
  <1>2. /\ next' = next /\ queue_head' = queue_head /\ listed' = listed
        /\ is_sleeping' = is_sleeping /\ task_count' = task_count
    BY Zenon, <1>1 DEF listVars, sleepVars
  <1>3. to \in listed' /\ ~Blocked(to, is_sleeping', is_waiting)
    <2>1. next[temp] # NULL => ~Blocked(next[temp], is_sleeping, is_waiting)
      BY Zenon, <1>1 DEF Consistent, ScanProgress
    <2> QED BY <1>1, <1>2, <2>1, IdleFacts, ListFacts DEF Successor
  <1>4. /\ is_waiting' \in [Nodes -> Nat]
        /\ \A n \in Nodes : is_waiting'[n] \in {0, is_waiting[n]}
    BY Zenon, <1>1, ReleaseTempClears
  <1>5. Scheduled'
    <2> HIDE DEF to
    <2>1. /\ running_task = Kernel /\ cpu = Kernel /\ Kernel \in Nodes
          /\ listed' \subseteq Nodes /\ queue_head' = Kernel /\ Kernel \in listed'
          /\ previous' = Kernel
          /\ \A n \in listed' : rsp[n] = n \/ n = running_task
          /\ ~Blocked(Kernel, is_sleeping', is_waiting)
      BY Zenon, <1>1, <1>2, IdleFacts, ListFacts
    <2>2. /\ is_waiting \in [Nodes -> Nat] /\ is_sleeping' \in [Nodes -> {0, 1}]
          /\ rsp \in [Nodes -> Nodes \cup {NULL}]
      BY Zenon, <1>1, <1>2, IdleFacts
    <2> QED BY <1>1, <1>3, <1>4, <2>1, <2>2, SwitchScheduled
  <1>6. ListKept' /\ NamesKept'
    BY <1>1, Parts DEF ListKept, NamesKept, ListWellFormed, PidsOrdered, listVars,
       nameVars, sleepVars
  <1> QED BY <1>5, <1>6, PartsNext

\* The timer, in user mode as between any two steps of the idle loop.
LEMMA TickKeeps == ASSUME Consistent, Tick PROVE Consistent'
  <1>1. UNCHANGED <<listVars, nameVars, cpuVars, is_waiting, bg, is_bg>>
    BY DEF Tick
  <1>2. TypeOK
    BY DEF Consistent
  <1>3. /\ is_sleeping' \in [Nodes -> {0, 1}]
        /\ \A n \in Nodes : is_sleeping[n] = 0 => is_sleeping'[n] = 0
    BY Zenon, <1>2 DEF Tick, TypeOK
  <1>4. sleep_time' \in [Nodes -> 0 .. TimeMod - 1]
    BY <1>2, ProcessAssumption DEF Tick, TypeOK
  <1>5. ListKept' /\ NamesKept'
    BY Zenon, <1>1, <1>3, <1>4, Parts DEF ListKept, NamesKept, ListWellFormed, PidsOrdered,
       listVars, nameVars
  <1>6. \A n \in Nodes : ~Blocked(n, is_sleeping, is_waiting)
                            => ~Blocked(n, is_sleeping', is_waiting')
    BY <1>1, <1>3 DEF Blocked
  <1>7. Kernel \in Nodes /\ \A n \in listed : next[n] # NULL => next[n] \in Nodes
    BY Zenon, <1>2, ListFacts DEF TypeOK
  <1>8. Scheduled'
    BY <1>1, <1>6, <1>7, Parts DEF Scheduled, KernelKept, PreviousListed, RunningRunnable,
       ContextsIntact, ScanProgress, listVars, cpuVars
  <1> QED BY Zenon, <1>5, <1>8, PartsNext

-----------------------------------------------------------------------------
(* The theorems *)

\* The state in which start() hands over to the shell is consistent.
LEMMA InitConsistent == ASSUME Init PROVE Consistent
  <1>1. 1 \in Nodes /\ 2 \in Nodes
    BY ProcessAssumption DEF Nodes
  <1>2. TypeOK
    BY <1>1, ProcessAssumption DEF Init, TypeOK, NULL, NoPid, Nodes
  <1>3. ListWellFormed
    BY <1>1 DEF Init, ListWellFormed, NULL
  <1>4. PidsOrdered
    BY <1>1 DEF Init, PidsOrdered, NoPid
  <1>5. KernelKept /\ PreviousListed /\ RunningRunnable /\ ContextsIntact /\ ScanProgress
    BY <1>1 DEF Init, KernelKept, PreviousListed, RunningRunnable, ContextsIntact,
       ScanProgress, Kernel, Blocked
  <1> QED BY <1>2, <1>3, <1>4, <1>5 DEF Consistent

\* Every step of a program, of the idle loop and of the timer keeps it so.
LEMMA NextConsistent == ASSUME Consistent, [Next]_vars PROVE Consistent'
  <1>1. CASE UserStep
    <2>1. ASSUME NEW p \in Pids, SysWaitpid(p) \/ (MayKill(p) /\ SysKill(p))
          PROVE  Consistent'
      BY <2>1, WaitpidKeeps, SysKillKeeps
    <2>2. ASSUME NEW t \in SleepTimes, NEW b \in {0, 1}, SysSleep(t, b)
          PROVE  Consistent'
      BY <2>2, SleepKeeps
    <2> QED
      BY <1>1, <2>1, <2>2, ForkKeeps, YieldKeeps, ExecKeeps, ExitKeeps, PageFaultKeeps,
         WaitKeeps DEF UserStep
  <1>2. CASE Idle
    BY <1>2, IdleTestKeeps, IdleBodyKeeps, IdlePickKeeps DEF Idle
  <1>3. CASE Tick
    BY <1>3, TickKeeps
  <1>4. CASE UNCHANGED vars
    BY <1>4, StutterKeeps
  <1> QED BY <1>1, <1>2, <1>3, <1>4 DEF Next

\* The inductive invariant holds in every reachable state.
THEOREM AlwaysConsistent == Spec => []Consistent
  BY InitConsistent, NextConsistent, PTL DEF Spec

\* Every variable keeps the type of its C declaration.
THEOREM TypeCorrect == Spec => []TypeOK
  <1>1. Consistent => TypeOK
    BY DEF Consistent
  <1> QED BY <1>1, AlwaysConsistent, PTL

\* The walks of process.c over the list end, however tasks come and go.
THEOREM ListStaysWellFormed == Spec => []ListWellFormed
  <1>1. Consistent => ListWellFormed
    BY DEF Consistent
  <1> QED BY <1>1, AlwaysConsistent, PTL

\* The kernel's task stays at the head of the list and ready to run.
THEOREM KernelStays == Spec => []KernelKept
  <1>1. Consistent => KernelKept
    BY DEF Consistent
  <1> QED BY <1>1, AlwaysConsistent, PTL

\* The pointer previous, from which schedule(1) goes on, is never dangling.
THEOREM PreviousNeverDangles == Spec => []PreviousListed
  <1>1. Consistent => PreviousListed
    BY DEF Consistent
  <1> QED BY <1>1, AlwaysConsistent, PTL

\* A task that sleeps or waits does not run.
THEOREM BlockedNeverRuns == Spec => []RunningRunnable
  <1>1. Consistent => RunningRunnable
    BY DEF Consistent
  <1> QED BY <1>1, AlwaysConsistent, PTL

\* No switch loads a context that is not the task's own, or is outdated.
THEOREM ContextsStayIntact == Spec => []ContextsIntact
  <1>1. Consistent => ContextsIntact
    BY DEF Consistent
  <1> QED BY <1>1, AlwaysConsistent, PTL

\* A parent has a smaller pid than its child, and no pid is ahead of PID.
THEOREM PidsStayOrdered == Spec => []PidsOrdered
  <1>1. Consistent => PidsOrdered
    BY DEF Consistent
  <1> QED BY <1>1, AlwaysConsistent, PTL

-----------------------------------------------------------------------------
(* Process implements Scheduler: lemmas on what schedule releases *)

\* The tasks of a list that sleep.
Asleep(ls, sl) == {n \in ls : sl[n] # 0}

\* A nonempty set of numbers has a least element.
LEMMA LeastExists ==
    ASSUME NEW S \in SUBSET Nat, S # {}
    PROVE  \E n \in S : \A m \in S : n <= m
  <1> DEFINE R == OpToRel(<, Nat)
  <1>1. IsWellFoundedOn(R, Nat)
    BY Zenon, NatLessThanWellFounded
  <1>2. \E n \in S : \A m \in S : <<m, n>> \notin R
    <2> HIDE DEF R
    <2> QED BY Zenon, <1>1, WFMin
  <1>3. \A m, n \in Nat : <<m, n>> \notin R => ~(m < n)
    BY DEF OpToRel
  <1>4. PICK n \in S : \A m \in S : <<m, n>> \notin R
    BY Zenon, <1>2
  <1>5. \A m \in S : ~(m < n)
    <2> HIDE DEF R
    <2> QED BY Zenon, <1>3, <1>4
  <1> QED BY <1>5

\* is_child_done looks at the first task of the pid: when that is awake, or
\* there is none, the process is gone or somebody of that name is awake.
LEMMA ChildDoneIsDone ==
    ASSUME NEW ls \in SUBSET Nodes, NEW ids, NEW sl, NEW p,
           ChildDone(ls, ids, sl, p)
    PROVE  Abstract!Done(p, ls, ids, Asleep(ls, sl))
  <1> DEFINE W == WithPid(ls, ids, p)
  <1>1. Abstract!Named(p, ls, ids) = W
    BY DEF Abstract!Named, WithPid
  <1>2. CASE W = {}
    BY <1>1, <1>2 DEF Abstract!Done
  <1>3. CASE W # {}
    <2>1. W \in SUBSET Nat /\ W \subseteq ls
      <3>1. W \subseteq ls
        BY DEF WithPid
      <3>2. ls \subseteq Nat
        BY ProcessAssumption DEF Nodes
      <3> QED BY Zenon, <3>1, <3>2
    <2>2. PICK n \in W : \A m \in W : n <= m
      <3> HIDE DEF W
      <3> QED BY <1>3, <2>1, LeastExists
    <2>3. sl[n] = 0
      BY <2>1, <2>2 DEF ChildDone, IsFirst
    <2> QED BY <1>1, <2>2, <2>3 DEF Abstract!Done, Asleep
  <1> QED BY <1>2, <1>3

\* Release of Scheduler, in the variables of Process.
Releases(waits) ==
    \E over \in SUBSET {n \in Nodes :
            Abstract!Done(waits[n], listed', pid', Asleep(listed', is_sleeping'))} :
        is_waiting' = [n \in Nodes |-> IF n \in over THEN 0 ELSE waits[n]]

\* Clearing is_waiting of tasks whose child is done is a Release.
LEMMA ClearingReleases ==
    ASSUME NEW waits \in [Nodes -> Nat], NEW over \in SUBSET Nodes,
           listed' \in SUBSET Nodes,
           \A n \in over : ChildDone(listed', pid', is_sleeping', waits[n]),
           is_waiting' = [n \in Nodes |-> IF n \in over THEN 0 ELSE waits[n]]
    PROVE  Releases(waits)
  <1>1. \A n \in over : Abstract!Done(waits[n], listed', pid', Asleep(listed', is_sleeping'))
    BY ChildDoneIsDone
  <1> QED BY <1>1 DEF Releases

\* What the scan of schedule clears.
LEMMA ReleasedReleases ==
    ASSUME NEW waits \in [Nodes -> Nat], NEW s, NEW e, listed' \in SUBSET Nodes,
           is_waiting' = Released(s, e, waits)
    PROVE  Releases(waits)
  <1> DEFINE over == {n \in Nodes :
                  /\ n \in listed' /\ s <= n /\ n <= e /\ waits[n] > 0
                  /\ ChildDone(listed', pid', is_sleeping', waits[n])}
  <1>1. is_waiting' = [n \in Nodes |-> IF n \in over THEN 0 ELSE waits[n]]
    BY DEF Released
  <1>2. /\ over \in SUBSET Nodes
        /\ \A n \in over : ChildDone(listed', pid', is_sleeping', waits[n])
    OBVIOUS
  <1> HIDE DEF over
  <1> QED BY Zenon, <1>1, <1>2, ClearingReleases

LEMMA ScheduleReleases ==
    ASSUME NEW waits \in [Nodes -> Nat], NEW ctx, listed' \in SUBSET Nodes,
           Schedule(ctx, waits)
    PROVE  Releases(waits)
  BY ReleasedReleases DEF Schedule, ScheduleFrom

LEMMA ScheduleNextReleases ==
    ASSUME NEW waits \in [Nodes -> Nat], NEW ctx, listed' \in SUBSET Nodes,
           ScheduleNext(ctx, waits)
    PROVE  Releases(waits)
  <1>1. CASE is_waiting' = waits
    <2> DEFINE over == {}
    <2>1. is_waiting' = [n \in Nodes |-> IF n \in over THEN 0 ELSE waits[n]]
      BY <1>1
    <2>2. /\ over \in SUBSET Nodes
          /\ \A n \in over : ChildDone(listed', pid', is_sleeping', waits[n])
      BY Zenon
    <2> HIDE DEF over
    <2> QED BY <2>1, <2>2, ClearingReleases
  <1>2. CASE is_waiting' # waits
    BY Zenon, <1>2, ReleasedReleases DEF ScheduleNext, ScheduleFrom
  <1> QED BY Zenon, <1>1, <1>2

\* The invariant says that the CPU goes to a task that is listed and ready.
LEMMA ConsistentPicks == ASSUME Consistent' PROVE Abstract!Pick
  <1>1. TypeOK' /\ PreviousListed' /\ RunningRunnable'
    BY Zenon DEF Consistent
  <1>2. running_task' \in listed' /\ running_task' \in Nodes
    BY <1>1 DEF PreviousListed, TypeOK
  <1>3. is_sleeping'[running_task'] = 0 /\ ~(is_waiting'[running_task'] > 0)
    BY Zenon, <1>1 DEF RunningRunnable, Blocked
  <1>4. is_waiting'[running_task'] \in Nat
    BY <1>1, <1>2 DEF TypeOK
  <1>5. is_waiting'[running_task'] = 0
    BY <1>3, <1>4
  <1> QED BY Zenon, <1>2, <1>3, <1>5 DEF Abstract!Pick, Abstract!Ready

-----------------------------------------------------------------------------
(* One lemma for each kind of step *)

\* What the mapping makes of the variables that most steps leave alone.
LEMMA MappedUnchanged ==
    ASSUME UNCHANGED <<listed, created, pid, is_sleeping>>
    PROVE  /\ 1 .. created' = 1 .. created /\ listed' = listed /\ pid' = pid
           /\ {n \in listed' : is_sleeping'[n] # 0} = {n \in listed : is_sleeping[n] # 0}
  OBVIOUS

\* A call that only lets schedule choose again.
LEMMA YieldImplements ==
    ASSUME Consistent', Releases(is_waiting),
           UNCHANGED <<listed, created, pid, is_sleeping>>
    PROVE  Abstract!Next
  <1>1. Abstract!Yield
    BY Zenon, MappedUnchanged, ConsistentPicks
    DEF Abstract!Yield, Abstract!Reschedule, Abstract!Release, Releases, Asleep
  <1> QED BY Zenon, <1>1 DEF Abstract!Next

\* Removing a task other than the kernel's, then schedule.
LEMMA EndImplements ==
    ASSUME NEW t \in listed \ {Kernel}, Consistent, Consistent', running_task # Kernel,
           listed' = listed \ {t}, Releases(is_waiting),
           UNCHANGED <<created, pid, is_sleeping>>
    PROVE  Abstract!Next
  <1>1. t \in Nodes
    BY ListFacts
  <1>2. {n \in listed' : is_sleeping'[n] # 0} = {n \in listed : is_sleeping[n] # 0} \ {t}
    BY Zenon
  <1>3. Abstract!End(t)
    BY Zenon, <1>2, ConsistentPicks
    DEF Abstract!End, Abstract!Reschedule, Abstract!Release, Releases, Asleep,
        Abstract!InProgram
  <1> QED BY Zenon, <1>1, <1>3 DEF Abstract!Next

\* A new task_struct is one that was never used, and it is awake.
LEMMA NewTaskStarts ==
    ASSUME NEW p \in Nat, NEW pp, Consistent, created + 1 <= MaxTasks,
           NewTask(created + 1, p, pp)
    PROVE  /\ Abstract!Start(created + 1) /\ pid'[created + 1] = p
           /\ created + 1 \in Nodes /\ created + 1 \notin listed
           /\ FreshWait(created + 1) = Abstract!Quiet(created + 1)
           /\ FreshWait(created + 1) \in [Nodes -> Nat]
           /\ \A n \in listed : is_sleeping'[n] = is_sleeping[n]
           /\ is_sleeping'[created + 1] = 0
  <1> DEFINE c == created + 1
  <1>1. /\ created \in Nodes /\ c \in Nodes /\ listed \in SUBSET Nodes
        /\ \A n \in listed : n <= created
    BY ListFacts, ProcessAssumption DEF Nodes
  <1>2. /\ pid \in [Nodes -> Nat] /\ is_sleeping \in [Nodes -> {0, 1}]
        /\ is_waiting \in [Nodes -> Nat]
    BY DEF Consistent, TypeOK
  <1>3. /\ created' = c /\ pid' = [pid EXCEPT ![c] = p]
        /\ is_sleeping' = [is_sleeping EXCEPT ![c] = 0]
    BY DEF NewTask
  <1>4. c \notin 1 .. created /\ 1 .. created' = (1 .. created) \cup {c}
    BY <1>1, <1>3 DEF Nodes
  <1>5. pid'[c] = p /\ pid' = [pid EXCEPT ![c] = pid'[c]]
    BY Zenon, <1>1, <1>2, <1>3
  <1>6. Abstract!Start(c)
    BY <1>1, <1>4, <1>5 DEF Abstract!Start
  <1>7. c \notin listed
    BY <1>1 DEF Nodes
  <1>8. FreshWait(c) = Abstract!Quiet(c) /\ FreshWait(c) \in [Nodes -> Nat]
    BY Zenon, <1>2 DEF FreshWait, Abstract!Quiet
  <1> QED BY <1>1, <1>2, <1>3, <1>5, <1>6, <1>7, <1>8

\* fork: no listed task has the pid that PID is about to hand out.
LEMMA ForkImplements == ASSUME Consistent, SysFork PROVE Abstract!Next
  <1> DEFINE c == created + 1
  <1>1. /\ c <= MaxTasks /\ NewTask(c, PID, pid[running_task])
        /\ listed' = listed \cup {c} /\ is_waiting' = FreshWait(c)
        /\ running_task' = running_task
    BY DEF SysFork
  <1>2. PID \in Nat /\ running_task # Kernel
    BY UserFacts DEF SysFork, Consistent, TypeOK
  <1>3. /\ Abstract!Start(c) /\ pid'[c] = PID /\ c \in Nodes /\ c \notin listed
        /\ FreshWait(c) = Abstract!Quiet(c)
        /\ \A n \in listed : is_sleeping'[n] = is_sleeping[n]
        /\ is_sleeping'[c] = 0
    BY <1>1, <1>2, NewTaskStarts
  <1>4. \A n \in listed : pid[n] # PID
    <2>1. \A n \in listed : pid[n] < PID /\ pid[n] \in Nat
      BY ListFacts DEF Consistent, PidsOrdered, TypeOK
    <2> QED BY <1>2, <2>1
  <1>5. Abstract!Named(pid'[c], listed, pid) = {}
    BY <1>3, <1>4 DEF Abstract!Named
  <1>6. {n \in listed' : is_sleeping'[n] # 0} = {n \in listed : is_sleeping[n] # 0}
    BY Zenon, <1>1, <1>3
  <1> HIDE DEF c
  <1>7. Abstract!Fork(c)
    BY Zenon, <1>1, <1>2, <1>3, <1>5, <1>6 DEF Abstract!Fork, Abstract!InProgram
  <1> QED BY <1>3, <1>7 DEF Abstract!Next

\* exec, and the page fault: a new task in place of the running one.
LEMMA ReplaceImplements ==
    ASSUME NEW p \in Nat, NEW pp, Consistent, Consistent', InUser,
           created + 1 <= MaxTasks, NewTask(created + 1, p, pp),
           listed' = (listed \cup {created + 1}) \ {running_task},
           ScheduleNext(FreshContext(created + 1), FreshWait(created + 1))
    PROVE  Abstract!Replace(created + 1) /\ pid'[created + 1] = p /\ created + 1 \in Nodes
  <1> DEFINE c == created + 1
  <1>1. running_task # Kernel /\ running_task \in listed
    BY Zenon, UserFacts, ListFacts
  <1>2. /\ Abstract!Start(c) /\ pid'[c] = p /\ c \in Nodes /\ c \notin listed
        /\ FreshWait(c) = Abstract!Quiet(c) /\ FreshWait(c) \in [Nodes -> Nat]
        /\ \A n \in listed : is_sleeping'[n] = is_sleeping[n]
        /\ is_sleeping'[c] = 0
    BY Zenon, NewTaskStarts
  <1>3. is_sleeping[running_task] = 0
    BY DEF Consistent, RunningRunnable, Blocked
  <1>4. {n \in listed' : is_sleeping'[n] # 0} = {n \in listed : is_sleeping[n] # 0}
    BY <1>1, <1>2, <1>3
  <1>5. listed' \in SUBSET Nodes
    BY <1>2, ListFacts
  <1>6. Releases(Abstract!Quiet(c))
    <2>1. ScheduleNext(FreshContext(c), FreshWait(c))
      OBVIOUS
    <2> HIDE DEF c
    <2>2. Releases(FreshWait(c))
      BY <1>2, <1>5, <2>1, ScheduleNextReleases
    <2> QED BY <1>2, <2>2
  <1> QED
    BY Zenon, <1>1, <1>2, <1>4, <1>6, ConsistentPicks
    DEF Abstract!Replace, Abstract!Reschedule, Abstract!Release, Releases, Asleep, Abstract!InProgram

LEMMA ExecImplements == ASSUME Consistent, Consistent', SysExec PROVE Abstract!Next
  <1> DEFINE c == created + 1
  <1>1. /\ InUser /\ c <= MaxTasks /\ NewTask(c, pid[running_task], ppid[running_task])
        /\ listed' = (listed \ {running_task}) \cup {c}
        /\ ScheduleNext(FreshContext(c), FreshWait(c))
    BY Zenon DEF SysExec
  <1>2. running_task \in listed /\ running_task # c /\ pid[running_task] \in Nat
    BY <1>1, ListFacts, UserFacts
  <1>3. listed' = (listed \cup {c}) \ {running_task}
    BY Zenon, <1>1, <1>2
  <1>4. Abstract!Replace(c) /\ pid'[c] = pid[running_task] /\ c \in Nodes
    BY <1>1, <1>2, <1>3, ReplaceImplements
  <1> HIDE DEF c
  <1> QED BY <1>4 DEF Abstract!Exec, Abstract!Next

LEMMA FaultImplements == ASSUME Consistent, Consistent', PageFault PROVE Abstract!Next
  <1> DEFINE c == created + 1
  <1>1. /\ InUser /\ c <= MaxTasks /\ NewTask(c, 1, 0)
        /\ listed' = (listed \cup {c}) \ {running_task}
        /\ ScheduleNext(FreshContext(c), FreshWait(c))
    BY DEF PageFault
  <1>2. Abstract!Replace(c) /\ pid'[c] = 1 /\ c \in Nodes
    BY <1>1, ReplaceImplements
  <1> HIDE DEF c
  <1> QED BY <1>2 DEF Abstract!Fault, Abstract!Next

\* exit and kill of oneself.
LEMMA LeaveImplements ==
    ASSUME Consistent, Consistent', InUser, DeleteCurr,
           UNCHANGED <<nameVars, sleepVars>>, ScheduleNext(rsp, is_waiting)
    PROVE  Abstract!Next
  <1>1. /\ listed' = listed \ {running_task} /\ listed \in SUBSET Nodes
        /\ running_task \in listed \ {Kernel} /\ is_waiting \in [Nodes -> Nat]
    BY ListFacts, UserFacts DEF DeleteCurr
  <1>2. Releases(is_waiting)
    BY <1>1, ScheduleNextReleases
  <1>3. UNCHANGED <<created, pid, is_sleeping>>
    BY DEF nameVars, sleepVars
  <1> QED BY Zenon, <1>1, <1>2, <1>3, EndImplements

\* kill of another task, or of nobody: never of the kernel's.
LEMMA KillImplements ==
    ASSUME NEW p, Consistent, Consistent', InUser, DeleteFromTaskList(p),
           pid[Kernel] # p, UNCHANGED <<nameVars, sleepVars>>,
           Schedule(rsp, is_waiting)
    PROVE  Abstract!Next
  <1>1. listed \in SUBSET Nodes /\ running_task # Kernel /\ is_waiting \in [Nodes -> Nat]
    BY ListFacts, UserFacts
  <1>2. UNCHANGED <<created, pid, is_sleeping>>
    BY DEF nameVars, sleepVars
  <1>3. CASE listed' = listed
    <2>1. Releases(is_waiting)
      BY Zenon, <1>1, <1>3, ScheduleReleases
    <2> QED BY <1>2, <1>3, <2>1, YieldImplements
  <1>4. CASE listed' # listed
    <2>1. PICK n \in listed : n \in WithPid(listed, pid, p) /\ listed' = listed \ {n}
      BY <1>4 DEF DeleteFromTaskList, IsFirst
    <2>2. n # Kernel
      BY Zenon, <2>1 DEF WithPid
    <2>3. Releases(is_waiting)
      BY <1>1, <2>1, ScheduleReleases
    <2> QED BY Zenon, <1>1, <1>2, <2>1, <2>2, <2>3, EndImplements
  <1> QED BY Zenon, <1>3, <1>4

LEMMA SysKillImplements ==
    ASSUME NEW p, Consistent, Consistent', MayKill(p), SysKill(p)
    PROVE  Abstract!Next
  <1>1. InUser /\ Kernel \in listed
    BY Zenon, ListFacts DEF SysKill
  <1>2. CASE KillParent(p)
    <2>1. pid[Kernel] # p
      BY <1>2 DEF KillParent, MayKill
    <2> QED BY Zenon, <1>1, <1>2, <2>1, KillImplements DEF KillParent
  <1>3. CASE KillKernel(p)
    <2>1. /\ UNCHANGED <<listed, created, pid, is_sleeping>> /\ listed \in SUBSET Nodes
          /\ is_waiting \in [Nodes -> Nat] /\ Schedule(rsp, is_waiting)
      BY <1>1, <1>3, ListFacts, UserFacts DEF KillKernel, listVars, nameVars, sleepVars
    <2>2. Releases(is_waiting)
      BY <2>1, ScheduleReleases
    <2> QED BY Zenon, <2>1, <2>2, YieldImplements
  <1>4. CASE KillSelf(p)
    BY Zenon, <1>1, <1>4, LeaveImplements DEF KillSelf
  <1>5. CASE KillOther(p)
    <2>1. pid[Kernel] # p
      BY <1>1, <1>5 DEF KillOther, WithPid
    <2> QED BY Zenon, <1>1, <1>5, <2>1, KillImplements DEF KillOther
  <1> QED BY <1>2, <1>3, <1>4, <1>5 DEF SysKill

\* wait and waitpid: for a listed task, or for nobody.
LEMMA WaitForImplements ==
    ASSUME NEW S \in SUBSET listed, Consistent, Consistent', InUser, WaitFor(S)
    PROVE  Abstract!Next \/ UNCHANGED vars
  <1>1. ASSUME NEW c \in listed, UNCHANGED <<listVars, nameVars, sleepVars>>,
               Schedule(rsp, [is_waiting EXCEPT ![running_task] = pid[c]])
        PROVE  Abstract!Next
    <2> DEFINE waits == [is_waiting EXCEPT ![running_task] = pid[c]]
    <2>1. /\ listed' = listed /\ listed \in SUBSET Nodes /\ running_task # Kernel
          /\ pid[c] \in Nat /\ is_waiting \in [Nodes -> Nat]
      BY <1>1, ListFacts, UserFacts DEF listVars
    <2>2. waits \in [Nodes -> Nat]
      BY Zenon, <2>1
    <2>3. Schedule(rsp, waits)
      BY <1>1
    <2>4. Releases(waits)
      <3> HIDE DEF waits
      <3> QED BY <2>1, <2>2, <2>3, ScheduleReleases
    <2>5. UNCHANGED <<listed, created, pid, is_sleeping>>
      BY <1>1 DEF listVars, nameVars, sleepVars
    <2>6. Abstract!Wait(c)
      BY Zenon, <2>1, <2>4, <2>5, MappedUnchanged, ConsistentPicks
      DEF Abstract!Wait, Abstract!Reschedule, Abstract!Release, Releases, Asleep, Abstract!InProgram
    <2>7. c \in Nodes
      BY <2>1
    <2> QED BY <2>6, <2>7 DEF Abstract!Next
  <1> QED BY Zenon, <1>1 DEF WaitFor

LEMMA SleepImplements ==
    ASSUME NEW t, NEW b, Consistent, Consistent', SysSleep(t, b)
    PROVE  Abstract!Next
  <1>1. /\ InUser /\ Schedule(rsp, is_waiting) /\ UNCHANGED <<listed, created, pid>>
        /\ is_sleeping' = [is_sleeping EXCEPT ![running_task] = 1]
    BY DEF SysSleep, listVars, nameVars
  <1>2. /\ listed \in SUBSET Nodes /\ running_task \in listed /\ running_task # Kernel
        /\ is_waiting \in [Nodes -> Nat] /\ is_sleeping \in [Nodes -> {0, 1}]
    BY <1>1, ListFacts, UserFacts DEF Consistent, TypeOK
  <1>3. {n \in listed' : is_sleeping'[n] # 0}
            = {n \in listed : is_sleeping[n] # 0} \cup {running_task}
    BY <1>1, <1>2
  <1>4. Releases(is_waiting)
    BY Zenon, <1>1, <1>2, ScheduleReleases
  <1>5. Abstract!Sleep
    BY Zenon, <1>1, <1>2, <1>3, <1>4, ConsistentPicks
    DEF Abstract!Sleep, Abstract!Reschedule, Abstract!Release, Releases, Asleep, Abstract!InProgram
  <1> QED BY <1>5 DEF Abstract!Next

\* The body of the idle loop and its last step release at most one task.
LEMMA ReleaseTempImplements ==
    ASSUME Consistent, Consistent', ReleaseTemp, temp \in Nodes,
           UNCHANGED <<listVars, nameVars, sleepVars>>
    PROVE  Abstract!Next
  <1>1. /\ UNCHANGED <<listed, created, pid, is_sleeping>> /\ listed \in SUBSET Nodes
        /\ is_waiting \in [Nodes -> Nat]
    BY ListFacts DEF listVars, nameVars, sleepVars, Consistent, TypeOK
  <1> DEFINE over == {n \in {temp} : /\ is_waiting[n] > 0
                                    /\ ChildDone(listed, pid, is_sleeping, is_waiting[n])}
  <1>2. is_waiting' = [n \in Nodes |-> IF n \in over THEN 0 ELSE is_waiting[n]]
    BY Zenon, <1>1 DEF ReleaseTemp
  <1>3. /\ over \in SUBSET Nodes /\ listed' \in SUBSET Nodes
        /\ \A n \in over : ChildDone(listed', pid', is_sleeping', is_waiting[n])
    BY <1>1
  <1> HIDE DEF over
  <1>4. Releases(is_waiting)
    BY <1>1, <1>2, <1>3, ClearingReleases
  <1> QED BY <1>1, <1>4, YieldImplements

\* The timer only ever wakes.
LEMMA TickImplements == ASSUME Consistent, Tick PROVE Abstract!Next
  <1>1. /\ UNCHANGED <<listed, created, pid, is_waiting, running_task>>
        /\ listed \in SUBSET Nodes
    BY ListFacts DEF Tick, listVars, nameVars, cpuVars
  <1>2. \A n \in Nodes : is_sleeping'[n] = 0 \/ is_sleeping'[n] = is_sleeping[n]
    BY DEF Tick
  <1>3. {n \in listed' : is_sleeping'[n] # 0} \subseteq {n \in listed : is_sleeping[n] # 0}
    BY Zenon, <1>1, <1>2
  <1>4. Abstract!Wake
    BY <1>1, <1>3 DEF Abstract!Wake
  <1> QED BY <1>4 DEF Abstract!Next

\* The initial state maps to an initial state.
LEMMA InitImplements == ASSUME Init PROVE Abstract!Init
  <1>1. /\ 1 .. created = {1, 2} /\ listed = {1, 2} /\ {1, 2} \subseteq Nodes
        /\ running_task = 2
    BY ProcessAssumption DEF Init, Nodes
  <1>2. {n \in listed : is_sleeping[n] # 0} = {}
    BY <1>1 DEF Init
  <1>3. is_waiting = [n \in Nodes |-> 0]
    BY DEF Init
  <1> QED BY Zenon, <1>1, <1>2, <1>3 DEF Abstract!Init, Kernel

\* A step that leaves the variables of Process alone leaves those of Scheduler.
LEMMA StutterImplements == ASSUME UNCHANGED vars PROVE UNCHANGED Abstract!schedVars
  BY DEF vars, listVars, nameVars, sleepVars, cpuVars, Abstract!schedVars

\* Every step maps to a step or to a stutter.
LEMMA StepImplements ==
    ASSUME Consistent, Consistent', [Next]_vars
    PROVE  [Abstract!Next]_(Abstract!schedVars)
  <1>1. SUFFICES Abstract!Next \/ UNCHANGED vars \/ UNCHANGED Abstract!schedVars
    BY StutterImplements
  <1>2. CASE UserStep
    <2>1. CASE SysYield
      <3>1. /\ UNCHANGED <<listed, created, pid, is_sleeping>> /\ listed \in SUBSET Nodes
            /\ is_waiting \in [Nodes -> Nat] /\ Schedule(rsp, is_waiting)
        BY Zenon, <2>1, ListFacts, UserFacts DEF SysYield, listVars, nameVars, sleepVars
      <3>2. Releases(is_waiting)
        BY <3>1, ScheduleReleases
      <3> QED BY Zenon, <3>1, <3>2, YieldImplements
    <2>2. CASE SysExit
      BY <2>2, LeaveImplements DEF SysExit
    <2>3. CASE SysWait
      <3>1. Children(running_task) \in SUBSET listed
        BY DEF Children
      <3> QED BY Zenon, <2>3, <3>1, WaitForImplements DEF SysWait
    <2>4. ASSUME NEW p \in Pids, SysWaitpid(p)
          PROVE  Abstract!Next \/ UNCHANGED vars
      <3>1. Children(running_task) \in SUBSET listed
        BY DEF Children
      <3>2. WithPid(listed, pid, p) \in SUBSET listed
        BY DEF WithPid
      <3> QED BY Zenon, <2>4, <3>1, <3>2, WaitForImplements DEF SysWaitpid
    <2>5. ASSUME NEW p \in Pids, MayKill(p), SysKill(p)
          PROVE  Abstract!Next
      BY <2>5, SysKillImplements
    <2>6. ASSUME NEW t \in SleepTimes, NEW b \in {0, 1}, SysSleep(t, b)
          PROVE  Abstract!Next
      BY <2>6, SleepImplements
    <2> QED
      BY Zenon, <1>2, <2>1, <2>2, <2>3, <2>4, <2>5, <2>6, ForkImplements, ExecImplements,
         FaultImplements DEF UserStep
  <1>3. CASE Idle
    <2>1. CASE IdleTest
      BY <2>1 DEF IdleTest, listVars, nameVars, sleepVars, Abstract!schedVars
    <2>2. CASE IdleBody \/ IdlePick
      <3>1. /\ ReleaseTemp /\ phase # "user" /\ UNCHANGED <<listVars, nameVars, sleepVars>>
        BY Zenon, <2>2 DEF IdleBody, IdlePick
      <3>2. temp \in Nodes
        BY <3>1, ListFacts DEF Consistent, ScanProgress
      <3> QED BY Zenon, <3>1, <3>2, ReleaseTempImplements
    <2> QED BY Zenon, <1>3, <2>1, <2>2 DEF Idle
  <1>4. CASE Tick
    BY <1>4, TickImplements
  <1> QED BY <1>2, <1>3, <1>4 DEF Next

\* The kernel's task list, with its two cursors and the race of the timer with
\* the idle loop, implements the set of tasks that Scheduler describes.
THEOREM ProcessImplementsScheduler == Spec => ImplementsScheduler
  BY InitImplements, StepImplements, AlwaysConsistent, PTL
  DEF Spec, ImplementsScheduler, Abstract!Spec

=============================================================================
