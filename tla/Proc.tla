-------------------------------- MODULE Proc --------------------------------
(***************************************************************************)
(* The life of processes: allocproc, copyproc, kill, exit and wait of      *)
(* proc.c, sys_fork and sys_sleep of sysproc.c, and the places of trap()   *)
(* where a killed process exits.                                           *)
(*                                                                         *)
(* What runs under proc_table_lock is one step, up to the next release()   *)
(* or to the context switch (module Sched shows that sched() keeps the     *)
(* lock until the switch is over).  What the code does without the lock is *)
(* a step of its own: copyproc() fills the slot it got, and gives it back  *)
(* when memory runs out, one assignment after the other.                   *)
(***************************************************************************)
EXTENDS Naturals, FiniteSetsExt

CONSTANTS NPROC, NCPU,
          MaxPid,     \* bound: the pids handed out
          MaxSleep,   \* bound: the argument of sys_sleep
          MemFails    \* whether kalloc() may find no memory

ASSUME ProcAssumption ==
    /\ NPROC \in Nat \ {0} /\ NCPU \in Nat \ {0}
    /\ MaxPid \in Nat \ {0} /\ MaxSleep \in Nat
    /\ MemFails \in BOOLEAN

Slot     == 1 .. NPROC   \* 0 is the null pointer
initproc == 1

VARIABLES
    state, pid, parent, chan, killed,   \* struct proc
    kstack, mem,   \* whether the slot owns the memory its pointers name
    nextpid,
    pc,            \* where the process is in the kernel, or "user"
    np,            \* copyproc's local variable
    left,          \* ticks to go in sys_sleep: n - (ticks - ticks0)
    tickslock,     \* the process that holds it, or 0
    panicked

memVars  == <<kstack, mem>>
tickVars == <<left, tickslock>>
vars == <<state, pid, parent, chan, killed, memVars, nextpid, pc, np, tickVars, panicked>>

State == {"UNUSED", "EMBRYO", "SLEEPING", "RUNNABLE", "RUNNING", "ZOMBIE"}
Label == {"user", "kstack", "mem", "unparent", "runnable", "wait",
          "ticks", "ticks_sleep", "ticks_lock"}

TypeOK ==
    /\ state \in [Slot -> State]
    /\ pid \in [Slot -> 0 .. MaxPid]
    /\ parent \in [Slot -> Slot \cup {0}]
    /\ chan \in [Slot -> {"0", "cp", "ticks"}]
    /\ killed \in [Slot -> BOOLEAN]
    /\ kstack \in [Slot -> BOOLEAN] /\ mem \in [Slot -> BOOLEAN]
    /\ nextpid \in 1 .. MaxPid + 1
    /\ pc \in [Slot -> Label]
    /\ np \in [Slot -> Slot \cup {0}]
    /\ left \in [Slot -> 0 .. MaxSleep]
    /\ tickslock \in Slot \cup {0}
    /\ panicked \in BOOLEAN

\* After userinit().
Init ==
    /\ state = [p \in Slot |-> IF p = initproc THEN "RUNNABLE" ELSE "UNUSED"]
    /\ pid = [p \in Slot |-> IF p = initproc THEN 1 ELSE 0]
    /\ parent = [p \in Slot |-> 0]
    /\ chan = [p \in Slot |-> "0"]
    /\ killed = [p \in Slot |-> FALSE]
    /\ kstack = [p \in Slot |-> p = initproc]
    /\ mem = [p \in Slot |-> p = initproc]
    /\ nextpid = 2
    /\ pc = [p \in Slot |-> "user"]
    /\ np = [p \in Slot |-> 0]
    /\ left = [p \in Slot |-> 0]
    /\ tickslock = 0
    /\ panicked = FALSE

Alive(p)    == state[p] \in {"SLEEPING", "RUNNABLE", "RUNNING"}
At(p, here) == ~panicked /\ state[p] = "RUNNING" /\ pc[p] = here
Goto(p, to) == pc' = [pc EXCEPT ![p] = to]

\* trap() lets a process start a system call only if it has not been killed.
SysCall(p)  == At(p, "user") /\ ~killed[p]
-----------------------------------------------------------------------------
\* scheduler() and yield(); a process that holds tickslock, or spins for it,
\* has interrupts off.
scheduler(p) ==
    /\ ~panicked /\ state[p] = "RUNNABLE"
    /\ Cardinality({q \in Slot : state[q] = "RUNNING"}) < NCPU
    /\ state' = [state EXCEPT ![p] = "RUNNING"]
    /\ UNCHANGED <<pid, parent, chan, killed, memVars, nextpid, pc, np,
                   tickVars, panicked>>

yield(p) ==
    /\ ~panicked /\ state[p] = "RUNNING" /\ tickslock # p /\ pc[p] # "ticks_lock"
    /\ state' = [state EXCEPT ![p] = "RUNNABLE"]
    /\ UNCHANGED <<pid, parent, chan, killed, memVars, nextpid, pc, np,
                   tickVars, panicked>>
-----------------------------------------------------------------------------
Unused == {q \in Slot : state[q] = "UNUSED"}

NewPid == nextpid

\* sys_fork(), copyproc(): allocproc() takes the first UNUSED slot.
allocproc(p) ==
    /\ SysCall(p) /\ Unused # {} /\ nextpid <= MaxPid
    /\ LET q == Min(Unused) IN
       /\ state' = [state EXCEPT ![q] = "EMBRYO"]
       /\ pid' = [pid EXCEPT ![q] = NewPid]
       /\ np' = [np EXCEPT ![p] = q]
    /\ nextpid' = nextpid + 1
    /\ Goto(p, "kstack")
    /\ UNCHANGED <<parent, chan, killed, memVars, tickVars, panicked>>

\* kalloc(KSTACKSIZE)
copyproc_kstack(p) ==
    /\ At(p, "kstack")
    /\ \/ /\ kstack' = [kstack EXCEPT ![np[p]] = TRUE]
          /\ Goto(p, "mem")
          /\ UNCHANGED <<state, np>>
       \/ /\ MemFails
          /\ state' = [state EXCEPT ![np[p]] = "UNUSED"]
          /\ np' = [np EXCEPT ![p] = 0]
          /\ Goto(p, "user")
          /\ UNCHANGED kstack
    /\ UNCHANGED <<pid, parent, chan, killed, mem, nextpid, tickVars, panicked>>

\* Mutant: kfree() of the stack is forgotten when there is no memory.
kfree_kstack_forgotten(q) == kstack

kfree_kstack(q) == [kstack EXCEPT ![q] = FALSE]

\* np->parent = p, and kalloc(np->sz): on failure the stack is freed and the
\* slot given back.
copyproc_mem(p) ==
    /\ At(p, "mem")
    /\ parent' = [parent EXCEPT ![np[p]] = p]
    /\ \/ /\ mem' = [mem EXCEPT ![np[p]] = TRUE]
          /\ Goto(p, "runnable")
          /\ UNCHANGED <<state, kstack>>
       \/ /\ MemFails
          /\ kstack' = kfree_kstack(np[p])
          /\ state' = [state EXCEPT ![np[p]] = "UNUSED"]
          /\ Goto(p, "unparent")
          /\ UNCHANGED mem
    /\ UNCHANGED <<pid, chan, killed, nextpid, np, tickVars, panicked>>

\* np->parent = 0, after np->state = UNUSED.
copyproc_unparent(p) ==
    /\ At(p, "unparent")
    /\ parent' = [parent EXCEPT ![np[p]] = 0]
    /\ np' = [np EXCEPT ![p] = 0]
    /\ Goto(p, "user")
    /\ UNCHANGED <<state, pid, chan, killed, memVars, nextpid, tickVars, panicked>>

\* np->state = RUNNABLE: the child starts in user space.
sys_fork(p) ==
    /\ At(p, "runnable")
    /\ state' = [state EXCEPT ![np[p]] = "RUNNABLE"]
    /\ pc' = [pc EXCEPT ![np[p]] = "user", ![p] = "user"]
    /\ np' = [np EXCEPT ![p] = 0]
    /\ UNCHANGED <<pid, parent, chan, killed, memVars, nextpid, tickVars, panicked>>
-----------------------------------------------------------------------------
\* Mutant: a victim that sleeps is left asleep.
StateOfKilled_asleep(q) == state[q]

StateOfKilled(q) == IF state[q] = "SLEEPING" THEN "RUNNABLE" ELSE state[q]

\* kill(): the first slot with that pid, in whatever state it is.
kill(p, target) ==
    /\ SysCall(p)
    /\ \E q \in Slot : pid[q] = target
    /\ LET q == Min({r \in Slot : pid[r] = target}) IN
       /\ killed' = [killed EXCEPT ![q] = TRUE]
       /\ state' = [state EXCEPT ![q] = StateOfKilled(q)]
    /\ UNCHANGED <<pid, parent, chan, memVars, nextpid, pc, np, tickVars, panicked>>

\* wakeup1() on a set of channels: the addresses of the processes in Q.
wakeup1(Q) ==
    [q \in Slot |-> IF q \in Q /\ state[q] = "SLEEPING" /\ chan[q] = "cp"
                    THEN "RUNNABLE" ELSE state[q]]

Children(p) == {q \in Slot : parent[q] = p}

ZombieChildren(p) == {q \in Children(p) : state[q] = "ZOMBIE"}

\* Mutant: only the zombies among the children are passed on.
Abandon_zombies(p) ==
    [q \in Slot |-> IF q \in ZombieChildren(p) THEN initproc ELSE parent[q]]

Abandon(p) == [q \in Slot |-> IF q \in Children(p) THEN initproc ELSE parent[q]]

\* Mutant: nobody is woken.
ToWake_nobody(p) == {}

ToWake(p) == {parent[p]} \cup (IF ZombieChildren(p) = {} THEN {} ELSE {initproc})

\* exit(): wakes the parent; the children, zombies among them, go to init.
exit(p) ==
    /\ At(p, "user")
    /\ panicked' = (p = initproc)
    /\ state' = [wakeup1(ToWake(p)) EXCEPT ![p] = "ZOMBIE"]
    /\ parent' = Abandon(p)
    /\ killed' = [killed EXCEPT ![p] = FALSE]
    /\ UNCHANGED <<pid, chan, memVars, nextpid, pc, np, tickVars>>

\* Of its own accord (init never does), or because trap() finds it killed.
exit_by_choice(p) == p # initproc /\ ~killed[p] /\ exit(p)
exit_killed(p)    == killed[p] /\ exit(p)
-----------------------------------------------------------------------------
\* One turn of wait()'s loop: the first zombie child is freed, ...
wait_reap(p) ==
    /\ SysCall(p) \/ At(p, "wait")
    /\ ZombieChildren(p) # {}
    /\ LET q == Min(ZombieChildren(p)) IN
       /\ state' = [state EXCEPT ![q] = "UNUSED"]
       /\ mem' = [mem EXCEPT ![q] = FALSE]
       /\ kstack' = kfree_kstack(q)
       /\ pid' = [pid EXCEPT ![q] = 0]
       /\ parent' = [parent EXCEPT ![q] = 0]
    /\ chan' = [chan EXCEPT ![p] = "0"]
    /\ Goto(p, "user")
    /\ UNCHANGED <<killed, nextpid, np, tickVars, panicked>>

HaveKids(p) == \E q \in Children(p) : state[q] # "UNUSED"

\* ... or it returns -1, ...
wait_fails(p) ==
    /\ SysCall(p) \/ At(p, "wait")
    /\ ZombieChildren(p) = {}
    /\ ~HaveKids(p) \/ killed[p]
    /\ chan' = [chan EXCEPT ![p] = "0"]
    /\ Goto(p, "user")
    /\ UNCHANGED <<state, pid, parent, killed, memVars, nextpid, np, tickVars, panicked>>

\* ... or it sleeps on its own address, without letting go of the lock.
wait_sleep(p) ==
    /\ SysCall(p) \/ At(p, "wait")
    /\ ZombieChildren(p) = {}
    /\ HaveKids(p) /\ ~killed[p]
    /\ state' = [state EXCEPT ![p] = "SLEEPING"]
    /\ chan' = [chan EXCEPT ![p] = "cp"]
    /\ Goto(p, "wait")
    /\ UNCHANGED <<pid, parent, killed, memVars, nextpid, np, tickVars, panicked>>
-----------------------------------------------------------------------------
\* The timer interrupt: ticks++ and wakeup(&ticks), under tickslock.
timer ==
    /\ ~panicked /\ tickslock = 0
    /\ left' = [p \in Slot |-> IF left[p] = 0 THEN 0 ELSE left[p] - 1]
    /\ state' = [p \in Slot |-> IF state[p] = "SLEEPING" /\ chan[p] = "ticks"
                                THEN "RUNNABLE" ELSE state[p]]
    /\ UNCHANGED <<pid, parent, chan, killed, memVars, nextpid, pc, np,
                   tickslock, panicked>>

\* sys_sleep(n) up to the loop.
sys_sleep(p, n) ==
    /\ SysCall(p) /\ tickslock = 0
    /\ tickslock' = p
    /\ left' = [left EXCEPT ![p] = n]
    /\ Goto(p, "ticks")
    /\ UNCHANGED <<state, pid, parent, chan, killed, memVars, nextpid, np, panicked>>

\* The loop test and the test of killed: the call returns, or will sleep.
sys_sleep_test(p) ==
    /\ At(p, "ticks")
    /\ IF left[p] > 0 /\ ~killed[p]
       THEN Goto(p, "ticks_sleep") /\ UNCHANGED tickVars
       ELSE /\ Goto(p, "user")
            /\ tickslock' = 0
            /\ left' = [left EXCEPT ![p] = 0]
    /\ UNCHANGED <<state, pid, parent, chan, killed, memVars, nextpid, np, panicked>>

\* sleep(&ticks, &tickslock), up to the context switch and after it.
sys_sleep_sleep(p) ==
    /\ At(p, "ticks_sleep")
    /\ state' = [state EXCEPT ![p] = "SLEEPING"]
    /\ chan' = [chan EXCEPT ![p] = "ticks"]
    /\ tickslock' = 0
    /\ Goto(p, "ticks_lock")
    /\ UNCHANGED <<pid, parent, killed, memVars, nextpid, np, left, panicked>>

sys_sleep_wakes(p) ==
    /\ At(p, "ticks_lock") /\ tickslock = 0
    /\ chan' = [chan EXCEPT ![p] = "0"]
    /\ tickslock' = p
    /\ Goto(p, "ticks")
    /\ UNCHANGED <<state, pid, parent, killed, memVars, nextpid, np, left, panicked>>
-----------------------------------------------------------------------------
wait(p) == wait_reap(p) \/ wait_fails(p) \/ wait_sleep(p)

\* What a process that has entered the kernel does without further choice.
KernelStep(p) ==
    \/ copyproc_kstack(p) \/ copyproc_mem(p) \/ copyproc_unparent(p) \/ sys_fork(p)
    \/ pc[p] = "wait" /\ wait(p)
    \/ sys_sleep_test(p) \/ sys_sleep_sleep(p) \/ sys_sleep_wakes(p)

\* panic() ends in for(;;).
frozen == panicked /\ UNCHANGED vars

\* Of the system calls, init (init.c) does not make exit() and sleep().
Next ==
    \/ timer \/ frozen
    \/ \E p \in Slot :
          \/ scheduler(p) \/ yield(p)
          \/ KernelStep(p) \/ exit_killed(p)
          \/ allocproc(p) \/ exit_by_choice(p)
          \/ pc[p] = "user" /\ wait(p)
          \/ \E target \in 0 .. MaxPid : kill(p, target)
          \/ p # initproc /\ \E n \in 1 .. MaxSleep : sys_sleep(p, n)

Spec == Init /\ [][Next]_vars

\* The scheduler serves every RUNNABLE process (module Sched), a process that
\* runs in the kernel goes on, trap() looks at killed and yields at the latest at
\* the next timer interrupt, the clock ticks, and init calls wait() for ever
\* (init.c).
Fairness ==
    /\ WF_vars(timer)
    /\ \A p \in Slot :
          /\ SF_vars(scheduler(p)) /\ WF_vars(yield(p))
          /\ SF_vars(KernelStep(p) \/ exit_killed(p))
    /\ SF_vars(wait(initproc))

FairSpec == Spec /\ Fairness
-----------------------------------------------------------------------------
\* The parent of a process, if it has one, has not exited: exit() hands its
\* children over to init, whatever they are doing at the time.
ParentAlive ==
    \A p \in Slot : parent[p] # 0 => Alive(parent[p]) \/ panicked

\* A slot that is free owns no memory, one that is not yet or no longer an
\* embryo owns its stack and its memory: none of the ways out of copyproc() and
\* wait() loses a page or gives one back twice.
MemoryAccounted ==
    \A p \in Slot :
        /\ state[p] = "UNUSED" => ~kstack[p] /\ ~mem[p]
        /\ state[p] \notin {"UNUSED", "EMBRYO"} => kstack[p] /\ mem[p]

\* A process that has been killed exits, asleep or not (kill, sys_sleep, wait,
\* trap); init's exit is a panic.
KilledExits ==
    \A p \in Slot \ {initproc} :
        killed[p] /\ Alive(p) ~> state[p] \in {"ZOMBIE", "UNUSED"} \/ panicked

\* A zombie that init has inherited is freed, unless a copyproc() that gave the
\* slot back earlier clears its parent only now (copyproc_unparent).
ZombieReaped ==
    \A p \in Slot \ {initproc} :
        state[p] = "ZOMBIE" /\ parent[p] = initproc
            ~> state[p] = "UNUSED" \/ parent[p] = 0 \/ panicked
=============================================================================
