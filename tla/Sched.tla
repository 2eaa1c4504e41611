------------------------------- MODULE Sched -------------------------------
(***************************************************************************)
(* The CPUs: scheduler(), sched(), yield(), forkret(), sleep() and         *)
(* wakeup() of proc.c, with the timer trap that calls yield(), the hand    *)
(* over of proc_table_lock across swtch(), and the interrupt flag with     *)
(* pushcli's bookkeeping (spinlock.c), which swtch() neither saves nor     *)
(* restores.                                                               *)
(*                                                                         *)
(* A CPU executes on the stack of its scheduler or of a process.  Each     *)
(* process runs a small kernel load: it waits in a loop for a condition    *)
(* under a lock lk, or sets it and wakes the others (as the pipe, the      *)
(* console, the disk and sys_sleep do); the first process forks and waits  *)
(* for its children, the others may exit.  Slots are chosen as in          *)
(* allocproc(); what else fork, exit and wait do is in module Proc.        *)
(*                                                                         *)
(* A step is what runs between two lock operations or context switches;    *)
(* lk and proc_table_lock are spin locks as shown in module Spinlock.      *)
(***************************************************************************)
EXTENDS Naturals, Sequences, FiniteSetsExt

CONSTANTS CPU, NPROC, None,
          MaxFrames   \* bound: trap frames on a kernel stack

Proc     == 0 .. NPROC - 1
initproc == 0

ASSUME SchedAssumption ==
    /\ NPROC \in Nat \ {0} /\ MaxFrames \in Nat
    /\ None \notin CPU /\ None \notin Proc

VARIABLES
    state, chan,             \* struct proc
    pc,                      \* where the process's kernel context is
    frames,                  \* the code its trap frames return to
    curproc, ncli, intena,   \* struct cpu
    FL_IF,                   \* the CPU's interrupt flag
    stack,                   \* the stack the CPU is on; None is the scheduler's
    loop, i,                 \* where scheduler() is, and its index
    proc_table_lock, lk,     \* the CPU that holds the lock
    cond,                    \* what the sleepers wait for
    panicked

procVars == <<state, chan, pc, frames>>
cpuVars  == <<curproc, stack, loop, i>>
cliVars  == <<ncli, intena, FL_IF>>
lockVars == <<proc_table_lock, lk>>
vars == <<procVars, cpuVars, cliVars, lockVars, cond, panicked>>

\* userinit() has made the first process; the CPUs enter scheduler().
Init ==
    /\ state = [p \in Proc |-> IF p = initproc THEN "RUNNABLE" ELSE "UNUSED"]
    /\ chan = [p \in Proc |-> "0"]
    /\ pc = [p \in Proc |-> "forkret"]
    /\ frames = [p \in Proc |-> <<>>]
    /\ curproc = [c \in CPU |-> None] /\ stack = [c \in CPU |-> None]
    /\ loop = [c \in CPU |-> "sti"] /\ i = [c \in CPU |-> 0]
    /\ ncli = [c \in CPU |-> 0] /\ intena = [c \in CPU |-> FALSE]
    /\ FL_IF = [c \in CPU |-> FALSE]
    /\ proc_table_lock = None /\ lk = None
    /\ cond = FALSE /\ panicked = FALSE

At(c, here) == stack[c] # None /\ pc[stack[c]] = here
Goto(c, to) == pc' = [pc EXCEPT ![stack[c]] = to]

pushcli(c) ==
    /\ ncli' = [ncli EXCEPT ![c] = @ + 1]
    /\ intena' = IF ncli[c] = 0 THEN [intena EXCEPT ![c] = FL_IF[c]] ELSE intena
    /\ FL_IF' = [FL_IF EXCEPT ![c] = FALSE]

\* Mutant: interrupts come back with the first popcli, not the last one.
popcli_first_enables(c) ==
    /\ ncli' = [ncli EXCEPT ![c] = @ - 1]
    /\ FL_IF' = [FL_IF EXCEPT ![c] = intena[c]]
    /\ UNCHANGED intena

popcli(c) ==
    /\ ncli' = [ncli EXCEPT ![c] = @ - 1]
    /\ FL_IF' = [FL_IF EXCEPT ![c] = ncli[c] = 1 /\ intena[c]]
    /\ UNCHANGED intena

\* Mutant: acquire() does not wait for the lock.
lock_table_busy(c) ==
    proc_table_lock' = c /\ pushcli(c)

\* acquire() and release() of proc_table_lock.
lock_table(c) ==
    proc_table_lock = None /\ proc_table_lock' = c /\ pushcli(c)
unlock_table(c) ==
    proc_table_lock' = None /\ popcli(c)

\* Mutant: only the first sleeper is woken.
wakeup1_first(ch) ==
    LET sleepers == {p \in Proc : state[p] = "SLEEPING" /\ chan[p] = ch} IN
    IF sleepers = {} THEN state ELSE [state EXCEPT ![Min(sleepers)] = "RUNNABLE"]

\* wakeup1() as a function of the table.
wakeup1(ch) ==
    [p \in Proc |-> IF state[p] = "SLEEPING" /\ chan[p] = ch THEN "RUNNABLE"
                                                            ELSE state[p]]
-----------------------------------------------------------------------------
\* scheduler()
scheduler_sti(c) ==
    /\ stack[c] = None /\ loop[c] = "sti"
    /\ FL_IF' = [FL_IF EXCEPT ![c] = TRUE]
    /\ loop' = [loop EXCEPT ![c] = "acquire"]
    /\ UNCHANGED <<procVars, curproc, stack, i, ncli, intena, lockVars, cond, panicked>>

scheduler_acquire(c) ==
    /\ stack[c] = None /\ loop[c] = "acquire"
    /\ lock_table(c)
    /\ loop' = [loop EXCEPT ![c] = "for"]
    /\ i' = [i EXCEPT ![c] = 0]
    /\ UNCHANGED <<procVars, curproc, stack, lk, cond, panicked>>

Runnable(c) == {p \in i[c] .. NPROC - 1 : state[p] = "RUNNABLE"}

Dispatch(c, next) ==
    /\ stack[c] = None /\ loop[c] = "for" /\ Runnable(c) # {}
    /\ LET p == Min(Runnable(c)) IN
       /\ curproc' = [curproc EXCEPT ![c] = p]
       /\ state' = [state EXCEPT ![p] = "RUNNING"]
       /\ stack' = [stack EXCEPT ![c] = p]
       /\ i' = [i EXCEPT ![c] = next[p]]
    /\ UNCHANGED <<chan, pc, frames, loop, cliVars, lockVars, cond, panicked>>

\* Mutant: the scan starts again at the head of the table after every process.
scheduler_swtch_from_head(c) == Dispatch(c, [p \in Proc |-> 0])

\* The next RUNNABLE process of this pass over the table runs.
scheduler_swtch(c) == Dispatch(c, [p \in Proc |-> p + 1])

scheduler_release(c) ==
    /\ stack[c] = None /\ loop[c] = "for" /\ Runnable(c) = {}
    /\ unlock_table(c)
    /\ loop' = [loop EXCEPT ![c] = "sti"]
    /\ UNCHANGED <<procVars, curproc, stack, i, lk, cond, panicked>>

\* sched(): the four panics, and swtch() back to the scheduler of this CPU,
\* which clears curproc and goes on with its pass.
Resumed == [yield |-> "yielded", sleep |-> "slept", wait |-> "wait_scan", exit |-> "exit"]

sched(c) ==
    /\ stack[c] # None /\ pc[stack[c]] \in DOMAIN Resumed
    /\ panicked' = \/ FL_IF[c]
                   \/ state[curproc[c]] = "RUNNING"
                   \/ proc_table_lock # c
                   \/ ncli[c] # 1
    /\ Goto(c, Resumed[pc[stack[c]]])
    /\ stack' = [stack EXCEPT ![c] = None]
    /\ curproc' = [curproc EXCEPT ![c] = None]
    /\ UNCHANGED <<state, chan, frames, loop, i, cliVars, lockVars, cond>>
-----------------------------------------------------------------------------
\* trap(): a timer interrupt, at any place where interrupts are on.
timer(c) ==
    /\ stack[c] # None /\ FL_IF[c] /\ Len(frames[stack[c]]) < MaxFrames
    /\ frames' = [frames EXCEPT ![stack[c]] = Append(@, pc[stack[c]])]
    /\ FL_IF' = [FL_IF EXCEPT ![c] = FALSE]
    /\ Goto(c, "trap")
    /\ UNCHANGED <<state, chan, cpuVars, ncli, intena, lockVars, cond, panicked>>

yield(c) ==
    /\ At(c, "trap")
    /\ lock_table(c)
    /\ state' = [state EXCEPT ![curproc[c]] = "RUNNABLE"]
    /\ Goto(c, "yield")
    /\ UNCHANGED <<chan, frames, cpuVars, lk, cond, panicked>>

\* The rest of yield() after sched().
yield_release(c) ==
    /\ At(c, "yielded")
    /\ unlock_table(c)
    /\ Goto(c, "iret")
    /\ UNCHANGED <<state, chan, frames, cpuVars, lk, cond, panicked>>

\* The first thing a new process does; it leaves for user space.
forkret(c) ==
    /\ At(c, "forkret")
    /\ unlock_table(c)
    /\ Goto(c, "sysret")
    /\ UNCHANGED <<state, chan, frames, cpuVars, lk, cond, panicked>>

\* The trap returns to the code it interrupted, which had interrupts on.
iret(c) ==
    /\ At(c, "iret")
    /\ pc' = [pc EXCEPT ![stack[c]] = frames[stack[c]][Len(frames[stack[c]])]]
    /\ frames' = [frames EXCEPT ![stack[c]] = SubSeq(@, 1, Len(@) - 1)]
    /\ FL_IF' = [FL_IF EXCEPT ![c] = TRUE]
    /\ UNCHANGED <<state, chan, cpuVars, ncli, intena, lockVars, cond, panicked>>

\* A system call enters through a trap gate and leaves interrupts on.
syscall(c) ==
    /\ At(c, "user")
    /\ Goto(c, "syscall")
    /\ UNCHANGED <<state, chan, frames, cpuVars, cliVars, lockVars, cond, panicked>>

sysret(c) ==
    /\ At(c, "sysret")
    /\ Goto(c, "user")
    /\ FL_IF' = [FL_IF EXCEPT ![c] = TRUE]
    /\ UNCHANGED <<state, chan, frames, cpuVars, ncli, intena, lockVars, cond, panicked>>
-----------------------------------------------------------------------------
\* acquire(lk): at the head of the waiting loop, and again after sleep().
acquire_lk(c) ==
    /\ At(c, "syscall")
    /\ lk = None /\ lk' = c /\ pushcli(c)
    /\ Goto(c, "locked")
    /\ UNCHANGED <<state, chan, frames, cpuVars, proc_table_lock, cond, panicked>>

\* The condition holds: the process uses it up and releases lk.
consume(c) ==
    /\ At(c, "locked") /\ cond
    /\ cond' = FALSE
    /\ lk' = None /\ popcli(c)
    /\ Goto(c, "sysret")
    /\ UNCHANGED <<state, chan, frames, cpuVars, proc_table_lock, panicked>>

\* Mutant: sleep() releases lk before it takes proc_table_lock.
sleep_releases_first(c) ==
    /\ At(c, "locked") /\ ~cond
    /\ lk' = None
    /\ Goto(c, "sleep_lk")
    /\ UNCHANGED <<state, chan, frames, cpuVars, cliVars, proc_table_lock, cond, panicked>>

\* sleep(&cond, lk) up to acquire(&proc_table_lock).
sleep(c) ==
    /\ At(c, "locked") /\ ~cond
    /\ lock_table(c)
    /\ Goto(c, "sleep_lk")
    /\ UNCHANGED <<state, chan, frames, cpuVars, lk, cond, panicked>>

\* release(lk), and up to sched().
sleep_release(c) ==
    /\ At(c, "sleep_lk")
    /\ lk' = None /\ popcli(c)
    /\ chan' = [chan EXCEPT ![curproc[c]] = "cond"]
    /\ state' = [state EXCEPT ![curproc[c]] = "SLEEPING"]
    /\ Goto(c, "sleep")
    /\ UNCHANGED <<frames, cpuVars, proc_table_lock, cond, panicked>>

\* After sched(); acquire(lk) follows.
sleep_wakes(c) ==
    /\ At(c, "slept")
    /\ chan' = [chan EXCEPT ![curproc[c]] = "0"]
    /\ unlock_table(c)
    /\ Goto(c, "syscall")
    /\ UNCHANGED <<state, frames, cpuVars, lk, cond, panicked>>

\* A process sets the condition, calls wakeup(&cond) and releases lk.  wakeup()
\* takes and releases proc_table_lock in between.
wakeup(c) ==
    /\ At(c, "locked") /\ proc_table_lock = None
    /\ cond' = TRUE
    /\ state' = wakeup1("cond")
    /\ lk' = None /\ popcli(c)
    /\ Goto(c, "sysret")
    /\ UNCHANGED <<chan, frames, cpuVars, proc_table_lock, panicked>>

\* An interrupt handler does the same, on any CPU that has interrupts on.
device(c) ==
    /\ FL_IF[c] /\ lk = None /\ proc_table_lock = None
    /\ cond' = TRUE
    /\ state' = wakeup1("cond")
    /\ UNCHANGED <<chan, pc, frames, cpuVars, cliVars, lockVars, panicked>>
-----------------------------------------------------------------------------
\* sys_fork(): allocproc() takes the first UNUSED slot under the lock, and
\* copyproc() lets the child start in forkret().
fork(c) ==
    /\ At(c, "syscall") /\ curproc[c] = initproc /\ proc_table_lock = None
    /\ \E p \in Proc : state[p] = "UNUSED"
    /\ LET np == Min({p \in Proc : state[p] = "UNUSED"}) IN
       /\ state' = [state EXCEPT ![np] = "EMBRYO"]
       /\ pc' = [pc EXCEPT ![np] = "forkret", ![initproc] = "copyproc"]
       /\ frames' = [frames EXCEPT ![np] = <<>>]
    /\ UNCHANGED <<chan, cpuVars, cliVars, lockVars, cond, panicked>>

\* ... and the child becomes RUNNABLE, whoever holds proc_table_lock.  Only the
\* first process forks here, so np is the one EMBRYO.
fork_runnable(c) ==
    /\ At(c, "copyproc")
    /\ \E np \in Proc : /\ state[np] = "EMBRYO"
                        /\ state' = [state EXCEPT ![np] = "RUNNABLE"]
    /\ Goto(c, "sysret")
    /\ UNCHANGED <<chan, frames, cpuVars, cliVars, lockVars, cond, panicked>>

\* wakeup1(cp->parent)
TellParent == wakeup1("cp")

\* exit(): wakes the parent, becomes a zombie, never returns from sched().
exit(c) ==
    /\ At(c, "syscall") /\ curproc[c] # initproc
    /\ lock_table(c)
    /\ state' = [TellParent EXCEPT ![curproc[c]] = "ZOMBIE"]
    /\ Goto(c, "exit")
    /\ UNCHANGED <<chan, frames, cpuVars, lk, cond, panicked>>

wait(c) ==
    /\ At(c, "syscall") /\ curproc[c] = initproc
    /\ lock_table(c)
    /\ Goto(c, "wait_scan")
    /\ UNCHANGED <<state, chan, frames, cpuVars, lk, cond, panicked>>

\* Mutant: a child that still runs is taken for a zombie.
Zombies_running == {p \in Proc \ {initproc} : state[p] \in {"ZOMBIE", "RUNNING"}}

Zombies == {p \in Proc : state[p] = "ZOMBIE"}
HaveKids == \E p \in Proc \ {initproc} : state[p] # "UNUSED"

\* wait()'s loop body with a zombie, or with no child at all: it frees the
\* kernel stack of the first zombie and returns.
wait_return(c) ==
    /\ At(c, "wait_scan") /\ (Zombies # {} \/ ~HaveKids)
    /\ state' = IF Zombies = {} THEN state
                ELSE [state EXCEPT ![Min(Zombies)] = "UNUSED"]
    /\ chan' = [chan EXCEPT ![initproc] = "0"]
    /\ unlock_table(c)
    /\ Goto(c, "sysret")
    /\ UNCHANGED <<frames, cpuVars, lk, cond, panicked>>

\* ... and with live children only: sleep(cp, &proc_table_lock), which keeps
\* the lock until the scheduler has it.
wait_sleep(c) ==
    /\ At(c, "wait_scan") /\ Zombies = {} /\ HaveKids
    /\ state' = [state EXCEPT ![initproc] = "SLEEPING"]
    /\ chan' = [chan EXCEPT ![initproc] = "cp"]
    /\ Goto(c, "wait")
    /\ UNCHANGED <<frames, cpuVars, cliVars, lockVars, cond, panicked>>
-----------------------------------------------------------------------------
SchedulerStep(c) ==
    \/ scheduler_sti(c) \/ scheduler_acquire(c) \/ scheduler_swtch(c)
    \/ scheduler_release(c)

KernelStep(c) ==
    \/ sched(c) \/ yield(c) \/ yield_release(c) \/ forkret(c) \/ iret(c)
    \/ sysret(c) \/ acquire_lk(c) \/ consume(c) \/ sleep(c) \/ sleep_release(c)
    \/ sleep_wakes(c) \/ wakeup(c) \/ fork(c) \/ fork_runnable(c) \/ exit(c)
    \/ wait(c) \/ wait_return(c) \/ wait_sleep(c)

Next ==
    /\ ~panicked
    /\ \E c \in CPU : \/ SchedulerStep(c) \/ KernelStep(c)
                      \/ timer(c) \/ syscall(c) \/ device(c)

Spec == Init /\ [][Next]_vars

\* A CPU that can go on does; an exchange on a lock that is free again and
\* again succeeds in the end; a timer interrupt stays pending until it is taken.
Fairness ==
    \A c \in CPU :
        SF_vars(SchedulerStep(c)) /\ SF_vars(KernelStep(c)) /\ SF_vars(timer(c))

FairSpec == Spec /\ Fairness
-----------------------------------------------------------------------------
\* No two CPUs are ever on the same kernel stack, and curproc names the process
\* whose stack it is: a process that yields is RUNNABLE while it still runs, and
\* only proc_table_lock, held across swtch(), keeps other schedulers away.
OneCPUPerStack ==
    \A c \in CPU :
        /\ stack[c] = curproc[c]
        /\ \A d \in CPU \ {c} : stack[c] = None \/ stack[c] # stack[d]

\* wait() never frees a kernel stack that a CPU still executes on: exit() makes
\* the process a zombie before it has left its stack.
StackNotFreed ==
    \A c \in CPU : stack[c] # None => state[stack[c]] # "UNUSED"

\* None of the four panics of sched() is reached.
NoPanic == ~panicked

\* No wake-up is lost: once the condition is set and lk free, no process is
\* asleep waiting for it, whatever ran between its test of the condition and
\* its going to sleep (sleep, wakeup).
NoLostWakeup ==
    cond /\ lk = None =>
        ~ \E p \in Proc : state[p] = "SLEEPING" /\ chan[p] = "cond"

\* sleep() and wakeup() keep the promise of module Monitor.
Sleepers == {p \in Proc : state[p] = "SLEEPING" /\ chan[p] = "cond"}
Promise == INSTANCE Monitor WITH
    Process <- Proc, waiting <- Sleepers,
    holder <- IF lk = None THEN None ELSE stack[lk]
MonitorSpec == Promise!MonSpec

\* Every RUNNABLE process gets a CPU: the scheduler goes over the whole table,
\* and the timer takes the CPU from whoever has it (scheduler, trap, yield).
RunnableRuns ==
    \A p \in Proc : state[p] = "RUNNABLE" ~> state[p] = "RUNNING"
=============================================================================
