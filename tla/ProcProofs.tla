----------------------------- MODULE ProcProofs -----------------------------
(***************************************************************************)
(* For any number of slots and CPUs, and whether memory runs out or not:   *)
(* parents are alive and no memory is lost in the life of processes.       *)
(***************************************************************************)
EXTENDS Proc, WellFoundedInduction, TLAPS

Making == {"kstack", "mem", "runnable"}

\* A process in the kernel is alive, and init always is.
AliveInv ==
    ~panicked => /\ Alive(initproc)
                 /\ \A p \in Slot : pc[p] # "user" => Alive(p)

\* A slot in the making is an embryo, it has one maker, and it owns what its
\* maker has got for it so far.
EmbryoInv ==
    ~panicked =>
        /\ \A p \in Slot : pc[p] \in Making \cup {"unparent"} => np[p] \in Slot
        /\ \A p \in Slot : pc[p] \in Making => state[np[p]] = "EMBRYO"
        /\ \A p \in Slot : pc[p] = "kstack"   => ~kstack[np[p]] /\ ~mem[np[p]]
        /\ \A p \in Slot : pc[p] = "mem"      => kstack[np[p]] /\ ~mem[np[p]]
        /\ \A p \in Slot : pc[p] = "runnable" => kstack[np[p]] /\ mem[np[p]]
        /\ \A p, q \in Slot :
              pc[p] \in Making /\ pc[q] \in Making /\ p # q => np[p] # np[q]

IInv == TypeOK /\ AliveInv /\ EmbryoInv /\ ParentAlive /\ MemoryAccounted
-----------------------------------------------------------------------------
\* Min picks a member: allocproc() and wait() take a slot that passed the test.
LEMMA MinIsMember ==
    ASSUME NEW S \in SUBSET Slot, S # {}
    PROVE  Min(S) \in S
<1>1. S \subseteq Nat
  BY ProcAssumption DEF Slot
<1>2. PICK x \in S : \A y \in S : ~(<<y, x>> \in OpToRel(<, Nat))
  BY <1>1, NatLessThanWellFounded, WFMin
<1>3. ASSUME NEW y \in S PROVE x =< y
  <2>1. OpToRel(<, Nat) = {ss \in Nat \X Nat : ss[1] < ss[2]}
    BY DEF OpToRel
  <2>2. ~(y < x)
    BY <1>1, <1>2, <2>1
  <2>. QED
    BY <1>1, <2>2
<1>. QED
  BY <1>3 DEF Min

\* init has a slot of the table; 0 is no process.
LEMMA InitIsSlot == initproc \in Slot /\ 0 \notin Slot
BY ProcAssumption DEF initproc, Slot

\* userinit() leaves one process, with stack and memory and without parent.
LEMMA InitHolds == Init => IInv
<1>. SUFFICES ASSUME Init PROVE IInv
  OBVIOUS
<1>1. kstack \in [Slot -> BOOLEAN] /\ mem \in [Slot -> BOOLEAN]
  BY Zenon DEF Init
<1>2. TypeOK
  <2>1. nextpid \in 1 .. MaxPid + 1 /\ pid \in [Slot -> 0 .. MaxPid]
    BY ProcAssumption DEF Init
  <2>2. state \in [Slot -> State] /\ left \in [Slot -> 0 .. MaxSleep]
    BY ProcAssumption DEF Init, State
  <2>3. /\ killed \in [Slot -> BOOLEAN] /\ panicked \in BOOLEAN
        /\ chan \in [Slot -> {"0", "cp", "ticks"}] /\ pc \in [Slot -> Label]
        /\ parent \in [Slot -> Slot \cup {0}] /\ np \in [Slot -> Slot \cup {0}]
        /\ tickslock \in Slot \cup {0}
    BY DEF Init, Label
  <2>. QED
    BY <1>1, <2>1, <2>2, <2>3 DEF TypeOK
<1>. QED
  BY <1>2, InitIsSlot
  DEF Init, IInv, AliveInv, EmbryoInv, ParentAlive, MemoryAccounted, Alive, Making
-----------------------------------------------------------------------------
\* allocproc() takes an UNUSED slot for the process that called fork.
LEMMA AllocprocStep ==
    ASSUME IInv, NEW p \in Slot, allocproc(p)
    PROVE  IInv'
<1>. DEFINE q == Min(Unused)
<1>1. q \in Slot /\ state[q] = "UNUSED"
  BY MinIsMember DEF allocproc, Unused
<1>. HIDE DEF q
<1>2. /\ state[p] = "RUNNING" /\ ~panicked /\ pc[p] = "user"
      /\ nextpid <= MaxPid /\ nextpid' = nextpid + 1
      /\ state' = [state EXCEPT ![q] = "EMBRYO"]
      /\ pid' = [pid EXCEPT ![q] = nextpid]
      /\ np' = [np EXCEPT ![p] = q]
      /\ pc' = [pc EXCEPT ![p] = "kstack"]
      /\ parent' = parent /\ chan' = chan /\ killed' = killed /\ kstack' = kstack
      /\ mem' = mem /\ left' = left /\ tickslock' = tickslock /\ panicked' = panicked
  BY DEF allocproc, SysCall, At, Goto, NewPid, memVars, tickVars, q
<1>3. TypeOK'
  BY <1>1, <1>2, ProcAssumption DEF IInv, TypeOK, State, Label
<1>4. AliveInv'
  BY <1>1, <1>2, InitIsSlot DEF IInv, AliveInv, Alive, TypeOK
<1>5. EmbryoInv'
  BY <1>1, <1>2 DEF IInv, EmbryoInv, MemoryAccounted, Making, TypeOK
<1>6. ParentAlive'
  BY <1>1, <1>2 DEF IInv, ParentAlive, Alive, TypeOK
<1>7. MemoryAccounted'
  BY <1>1, <1>2 DEF IInv, MemoryAccounted, TypeOK
<1>. QED
  BY <1>3, <1>4, <1>5, <1>6, <1>7 DEF IInv

\* copyproc() gets a stack, ...
LEMMA KstackStep ==
    ASSUME IInv, NEW p \in Slot, copyproc_kstack(p), pc'[p] = "mem"
    PROVE  IInv'
<1>1. /\ np[p] \in Slot /\ state[np[p]] = "EMBRYO" /\ np[p] # p
      /\ ~panicked
  BY DEF IInv, EmbryoInv, Making, copyproc_kstack, At
<1>2. /\ ~panicked /\ state[p] = "RUNNING" /\ pc[p] = "kstack"
      /\ kstack' = [kstack EXCEPT ![np[p]] = TRUE]
      /\ pc' = [pc EXCEPT ![p] = "mem"]
      /\ state' = state /\ pid' = pid /\ parent' = parent /\ chan' = chan
      /\ killed' = killed /\ mem' = mem /\ nextpid' = nextpid /\ np' = np
      /\ left' = left /\ tickslock' = tickslock /\ panicked' = panicked
  BY <1>1 DEF IInv, TypeOK, copyproc_kstack, At, Goto, tickVars
<1>3. TypeOK'
  BY <1>1, <1>2, ProcAssumption DEF IInv, TypeOK, State, Label
<1>4. AliveInv'
  BY <1>1, <1>2, InitIsSlot DEF IInv, AliveInv, Alive, TypeOK
<1>5. EmbryoInv'
  BY <1>1, <1>2 DEF IInv, AliveInv, EmbryoInv, MemoryAccounted, Making, Alive, TypeOK
<1>6. ParentAlive'
  BY <1>1, <1>2 DEF IInv, ParentAlive, EmbryoInv, Making, Alive, TypeOK
<1>7. MemoryAccounted'
  BY <1>1, <1>2 DEF IInv, MemoryAccounted, EmbryoInv, Making, TypeOK
<1>. QED
  BY <1>3, <1>4, <1>5, <1>6, <1>7 DEF IInv

\* ... or gives the slot back.
LEMMA KstackFailsStep ==
    ASSUME IInv, NEW p \in Slot, copyproc_kstack(p), pc'[p] = "user"
    PROVE  IInv'
<1>1. /\ np[p] \in Slot /\ state[np[p]] = "EMBRYO" /\ np[p] # p
      /\ ~panicked
  BY DEF IInv, EmbryoInv, Making, copyproc_kstack, At
<1>2. /\ ~panicked /\ state[p] = "RUNNING" /\ pc[p] = "kstack"
      /\ state' = [state EXCEPT ![np[p]] = "UNUSED"]
      /\ np' = [np EXCEPT ![p] = 0]
      /\ pc' = [pc EXCEPT ![p] = "user"]
      /\ pid' = pid /\ parent' = parent /\ chan' = chan /\ killed' = killed
      /\ kstack' = kstack /\ mem' = mem /\ nextpid' = nextpid
      /\ left' = left /\ tickslock' = tickslock /\ panicked' = panicked
  BY <1>1 DEF IInv, TypeOK, copyproc_kstack, At, Goto, tickVars
<1>3. TypeOK'
  BY <1>1, <1>2, ProcAssumption DEF IInv, TypeOK, State, Label
<1>4. AliveInv'
  BY <1>1, <1>2, InitIsSlot DEF IInv, AliveInv, Alive, TypeOK
<1>5. EmbryoInv'
  BY <1>1, <1>2 DEF IInv, AliveInv, EmbryoInv, MemoryAccounted, Making, Alive, TypeOK
<1>6. ParentAlive'
  BY <1>1, <1>2 DEF IInv, ParentAlive, EmbryoInv, Making, Alive, TypeOK
<1>7. MemoryAccounted'
  BY <1>1, <1>2 DEF IInv, MemoryAccounted, EmbryoInv, Making, TypeOK
<1>. QED
  BY <1>3, <1>4, <1>5, <1>6, <1>7 DEF IInv

\* copyproc() gets memory for the child, ...
LEMMA MemStep ==
    ASSUME IInv, NEW p \in Slot, copyproc_mem(p), pc'[p] = "runnable"
    PROVE  IInv'
<1>1. /\ np[p] \in Slot /\ state[np[p]] = "EMBRYO" /\ np[p] # p
      /\ ~panicked
  BY DEF IInv, EmbryoInv, Making, copyproc_mem, At
<1>2. /\ ~panicked /\ state[p] = "RUNNING" /\ pc[p] = "mem"
      /\ parent' = [parent EXCEPT ![np[p]] = p]
      /\ mem' = [mem EXCEPT ![np[p]] = TRUE]
      /\ pc' = [pc EXCEPT ![p] = "runnable"]
      /\ state' = state /\ pid' = pid /\ chan' = chan /\ killed' = killed
      /\ kstack' = kstack /\ nextpid' = nextpid /\ np' = np /\ left' = left
      /\ tickslock' = tickslock /\ panicked' = panicked
  BY <1>1 DEF IInv, TypeOK, copyproc_mem, At, Goto, tickVars
<1>3. TypeOK'
  BY <1>1, <1>2, ProcAssumption DEF IInv, TypeOK, State, Label
<1>4. AliveInv'
  BY <1>1, <1>2, InitIsSlot DEF IInv, AliveInv, Alive, TypeOK
<1>5. EmbryoInv'
  BY <1>1, <1>2 DEF IInv, AliveInv, EmbryoInv, MemoryAccounted, Making, Alive, TypeOK
<1>6. ParentAlive'
  BY <1>1, <1>2 DEF IInv, ParentAlive, EmbryoInv, Making, Alive, TypeOK
<1>7. MemoryAccounted'
  BY <1>1, <1>2 DEF IInv, MemoryAccounted, EmbryoInv, Making, TypeOK
<1>. QED
  BY <1>3, <1>4, <1>5, <1>6, <1>7 DEF IInv

\* ... or gives stack and slot back.
LEMMA MemFailsStep ==
    ASSUME IInv, NEW p \in Slot, copyproc_mem(p), pc'[p] = "unparent"
    PROVE  IInv'
<1>1. /\ np[p] \in Slot /\ state[np[p]] = "EMBRYO" /\ np[p] # p
      /\ ~panicked
  BY DEF IInv, EmbryoInv, Making, copyproc_mem, At
<1>2. /\ ~panicked /\ state[p] = "RUNNING" /\ pc[p] = "mem"
      /\ parent' = [parent EXCEPT ![np[p]] = p]
      /\ kstack' = [kstack EXCEPT ![np[p]] = FALSE]
      /\ state' = [state EXCEPT ![np[p]] = "UNUSED"]
      /\ pc' = [pc EXCEPT ![p] = "unparent"]
      /\ pid' = pid /\ chan' = chan /\ killed' = killed /\ mem' = mem
      /\ nextpid' = nextpid /\ np' = np /\ left' = left
      /\ tickslock' = tickslock /\ panicked' = panicked
  BY <1>1 DEF IInv, TypeOK, copyproc_mem, kfree_kstack, At, Goto, tickVars
<1>3. TypeOK'
  BY <1>1, <1>2, ProcAssumption DEF IInv, TypeOK, State, Label
<1>4. AliveInv'
  BY <1>1, <1>2, InitIsSlot DEF IInv, AliveInv, Alive, TypeOK
<1>5. EmbryoInv'
  BY <1>1, <1>2 DEF IInv, AliveInv, EmbryoInv, MemoryAccounted, Making, Alive, TypeOK
<1>6. ParentAlive'
  BY <1>1, <1>2 DEF IInv, ParentAlive, EmbryoInv, Making, Alive, TypeOK
<1>7. MemoryAccounted'
  BY <1>1, <1>2 DEF IInv, MemoryAccounted, EmbryoInv, Making, TypeOK
<1>. QED
  BY <1>3, <1>4, <1>5, <1>6, <1>7 DEF IInv

\* The slot given back loses its parent, in whatever hands it is by now.
LEMMA UnparentStep ==
    ASSUME IInv, NEW p \in Slot, copyproc_unparent(p)
    PROVE  IInv'
<1>2. /\ ~panicked /\ state[p] = "RUNNING" /\ pc[p] = "unparent"
      /\ parent' = [parent EXCEPT ![np[p]] = 0]
      /\ np' = [np EXCEPT ![p] = 0]
      /\ pc' = [pc EXCEPT ![p] = "user"]
      /\ state' = state /\ pid' = pid /\ chan' = chan /\ killed' = killed
      /\ kstack' = kstack /\ mem' = mem /\ nextpid' = nextpid
      /\ left' = left /\ tickslock' = tickslock /\ panicked' = panicked
  BY DEF copyproc_unparent, At, Goto, memVars, tickVars
<1>3. TypeOK'
  BY <1>2, ProcAssumption DEF IInv, TypeOK, State, Label
<1>4. AliveInv'
  BY <1>2, InitIsSlot DEF IInv, AliveInv, Alive, TypeOK
<1>5. EmbryoInv'
  BY <1>2 DEF IInv, AliveInv, EmbryoInv, MemoryAccounted, Making, Alive, TypeOK
<1>6. ParentAlive'
  BY <1>2 DEF IInv, ParentAlive, EmbryoInv, Making, Alive, TypeOK
<1>7. MemoryAccounted'
  BY <1>2 DEF IInv, MemoryAccounted, EmbryoInv, Making, TypeOK
<1>. QED
  BY <1>3, <1>4, <1>5, <1>6, <1>7 DEF IInv

\* The child is let go.
LEMMA ForkStep ==
    ASSUME IInv, NEW p \in Slot, sys_fork(p)
    PROVE  IInv'
<1>1. /\ np[p] \in Slot /\ state[np[p]] = "EMBRYO" /\ np[p] # p
      /\ ~panicked
  BY DEF IInv, EmbryoInv, Making, sys_fork, At
<1>2. /\ ~panicked /\ state[p] = "RUNNING" /\ pc[p] = "runnable"
      /\ state' = [state EXCEPT ![np[p]] = "RUNNABLE"]
      /\ np' = [np EXCEPT ![p] = 0]
      /\ pc' = [pc EXCEPT ![np[p]] = "user", ![p] = "user"]
      /\ pid' = pid /\ parent' = parent /\ chan' = chan /\ killed' = killed
      /\ kstack' = kstack /\ mem' = mem /\ nextpid' = nextpid
      /\ left' = left /\ tickslock' = tickslock /\ panicked' = panicked
  BY DEF sys_fork, At, memVars, tickVars
<1>3. TypeOK'
  BY <1>1, <1>2, ProcAssumption DEF IInv, TypeOK, State, Label
<1>4. AliveInv'
  BY <1>1, <1>2, InitIsSlot DEF IInv, AliveInv, Alive, TypeOK
<1>5. EmbryoInv'
  BY <1>1, <1>2 DEF IInv, AliveInv, EmbryoInv, MemoryAccounted, Making, Alive, TypeOK
<1>6. ParentAlive'
  BY <1>1, <1>2 DEF IInv, ParentAlive, EmbryoInv, Making, Alive, TypeOK
<1>7. MemoryAccounted'
  BY <1>1, <1>2 DEF IInv, MemoryAccounted, EmbryoInv, Making, TypeOK
<1>. QED
  BY <1>3, <1>4, <1>5, <1>6, <1>7 DEF IInv
-----------------------------------------------------------------------------
\* The steps that only move live processes about: scheduling, sleeping, waking.
Shuffle ==
    /\ ~panicked /\ panicked' = panicked
    /\ parent' = parent /\ kstack' = kstack /\ mem' = mem /\ np' = np
    /\ \A q \in Slot : \/ state'[q] = state[q]
                       \/ Alive(q) /\ state'[q] \in {"SLEEPING", "RUNNABLE", "RUNNING"}
    /\ \A q \in Slot : \/ pc'[q] = pc[q]
                       \/ /\ Alive(q) /\ pc[q] \notin Making \cup {"unparent"}
                          /\ pc'[q] \notin Making \cup {"unparent"}

\* A step that only moves processes between the states of living ones keeps
\* the invariant.
LEMMA ShuffleStep ==
    ASSUME IInv, TypeOK', Shuffle
    PROVE  IInv'
<1>1. \A q \in Slot : Alive(q)' <=> Alive(q)
  BY DEF Shuffle, Alive
<1>2. AliveInv'
  BY <1>1, InitIsSlot DEF IInv, AliveInv, Shuffle, TypeOK
<1>3. EmbryoInv'
  BY DEF IInv, EmbryoInv, Shuffle, Making, Alive, TypeOK
<1>4. ParentAlive'
  BY <1>1 DEF IInv, ParentAlive, Shuffle, TypeOK
<1>5. MemoryAccounted'
  BY DEF IInv, MemoryAccounted, Shuffle, Alive, TypeOK
<1>. QED
  BY <1>2, <1>3, <1>4, <1>5 DEF IInv

\* scheduler() and yield() only move a process between RUNNABLE and RUNNING.
LEMMA SchedulerStep ==
    ASSUME IInv, NEW p \in Slot, scheduler(p) \/ yield(p)
    PROVE  IInv'
<1>1. TypeOK'
  BY DEF IInv, TypeOK, State, scheduler, yield, memVars, tickVars
<1>2. Shuffle
  BY DEF IInv, TypeOK, Shuffle, Alive, scheduler, yield, memVars
<1>. QED
  BY <1>1, <1>2, ShuffleStep

\* kill() marks a process and may make it RUNNABLE.
LEMMA KillStep ==
    ASSUME IInv, NEW p \in Slot, NEW target \in 0 .. MaxPid, kill(p, target)
    PROVE  IInv'
<1>. DEFINE q == Min({r \in Slot : pid[r] = target})
<1>1. q \in Slot
  BY MinIsMember DEF kill
<1>. HIDE DEF q
<1>2. /\ ~panicked
      /\ killed' = [killed EXCEPT ![q] = TRUE]
      /\ state' = [state EXCEPT ![q] = StateOfKilled(q)]
      /\ pid' = pid /\ parent' = parent /\ chan' = chan /\ kstack' = kstack
      /\ mem' = mem /\ nextpid' = nextpid /\ pc' = pc /\ np' = np
      /\ left' = left /\ tickslock' = tickslock /\ panicked' = panicked
  BY DEF kill, SysCall, At, memVars, tickVars, q
<1>3. TypeOK'
  BY <1>1, <1>2 DEF IInv, TypeOK, State, StateOfKilled
<1>4. Shuffle
  BY <1>1, <1>2 DEF IInv, TypeOK, Shuffle, Alive, StateOfKilled
<1>. QED
  BY <1>3, <1>4, ShuffleStep

\* wait() without a zombie, and the steps of sys_sleep().
LEMMA SleepStep ==
    ASSUME IInv, NEW p \in Slot,
           \/ wait_fails(p) \/ wait_sleep(p)
           \/ \E n \in 1 .. MaxSleep : sys_sleep(p, n)
           \/ sys_sleep_test(p) \/ sys_sleep_sleep(p) \/ sys_sleep_wakes(p)
    PROVE  IInv'
<1>1. CASE wait_fails(p)
  <2>1. TypeOK'
    BY <1>1 DEF IInv, TypeOK, Label, wait_fails, Goto, memVars, tickVars
  <2>2. Shuffle
    BY <1>1 DEF IInv, TypeOK, Shuffle, Alive, Making, wait_fails, Goto, SysCall, At, memVars
  <2>. QED
    BY <2>1, <2>2, ShuffleStep
<1>2. CASE wait_sleep(p)
  <2>1. TypeOK'
    BY <1>2 DEF IInv, TypeOK, State, Label, wait_sleep, Goto, memVars, tickVars
  <2>2. Shuffle
    BY <1>2 DEF IInv, TypeOK, Shuffle, Alive, Making, wait_sleep, Goto, SysCall, At, memVars
  <2>. QED
    BY <2>1, <2>2, ShuffleStep
<1>3. CASE \E n \in 1 .. MaxSleep : sys_sleep(p, n)
  <2>1. TypeOK'
    BY <1>3, ProcAssumption DEF IInv, TypeOK, Label, sys_sleep, Goto, memVars
  <2>2. Shuffle
    BY <1>3 DEF IInv, TypeOK, Shuffle, Alive, Making, sys_sleep, Goto, SysCall, At, memVars
  <2>. QED
    BY <2>1, <2>2, ShuffleStep
<1>4. CASE sys_sleep_test(p)
  <2>1. TypeOK'
    BY <1>4, ProcAssumption
    DEF IInv, TypeOK, Label, sys_sleep_test, Goto, memVars, tickVars
  <2>2. Shuffle
    BY <1>4 DEF IInv, TypeOK, Shuffle, Alive, Making, sys_sleep_test, Goto, At, memVars
  <2>. QED
    BY <2>1, <2>2, ShuffleStep
<1>5. CASE sys_sleep_sleep(p)
  <2>1. TypeOK'
    BY <1>5 DEF IInv, TypeOK, State, Label, sys_sleep_sleep, Goto, memVars
  <2>2. Shuffle
    BY <1>5 DEF IInv, TypeOK, Shuffle, Alive, Making, sys_sleep_sleep, Goto, At, memVars
  <2>. QED
    BY <2>1, <2>2, ShuffleStep
<1>6. CASE sys_sleep_wakes(p)
  <2>1. TypeOK'
    BY <1>6 DEF IInv, TypeOK, Label, sys_sleep_wakes, Goto, memVars
  <2>2. Shuffle
    BY <1>6 DEF IInv, TypeOK, Shuffle, Alive, Making, sys_sleep_wakes, Goto, At, memVars
  <2>. QED
    BY <2>1, <2>2, ShuffleStep
<1>. QED
  BY <1>1, <1>2, <1>3, <1>4, <1>5, <1>6

\* The clock interrupt makes the sleepers of sys_sleep() RUNNABLE.
LEMMA TimerStep == IInv /\ timer => IInv'
<1>. SUFFICES ASSUME IInv, timer PROVE IInv'
  OBVIOUS
<1>1. left' \in [Slot -> 0 .. MaxSleep]
  BY ProcAssumption DEF IInv, TypeOK, timer
<1>2. TypeOK'
  BY <1>1 DEF IInv, TypeOK, State, timer, memVars
<1>3. Shuffle
  BY DEF IInv, TypeOK, Shuffle, Alive, timer, memVars
<1>. QED
  BY <1>2, <1>3, ShuffleStep
-----------------------------------------------------------------------------
\* exit() leaves no process behind whose parent it was.
LEMMA ExitStep ==
    ASSUME IInv, NEW p \in Slot, exit(p)
    PROVE  IInv'
<1>1. /\ ~panicked /\ state[p] = "RUNNING" /\ pc[p] = "user"
      /\ panicked' = (p = initproc)
      /\ state' = [wakeup1(ToWake(p)) EXCEPT ![p] = "ZOMBIE"]
      /\ parent' = [q \in Slot |-> IF parent[q] = p THEN initproc ELSE parent[q]]
      /\ killed' = [killed EXCEPT ![p] = FALSE]
      /\ pid' = pid /\ chan' = chan /\ kstack' = kstack /\ mem' = mem
      /\ nextpid' = nextpid /\ pc' = pc /\ np' = np /\ left' = left
      /\ tickslock' = tickslock
  BY DEF exit, At, Abandon, Children, memVars, tickVars
<1>2. /\ state' \in [Slot -> State] /\ state'[p] = "ZOMBIE"
      /\ \A q \in Slot \ {p} : \/ state'[q] = state[q]
                               \/ state[q] = "SLEEPING" /\ state'[q] = "RUNNABLE"
  BY <1>1 DEF IInv, TypeOK, State, wakeup1
<1>3. panicked' \in BOOLEAN
  BY <1>1, Zenon
<1>4. TypeOK'
  BY <1>1, <1>2, <1>3, InitIsSlot DEF IInv, TypeOK
<1>5. \A q \in Slot \ {p} : Alive(q)' <=> Alive(q)
  BY <1>2 DEF Alive
<1>6. ~panicked' => p # initproc
  BY <1>1
<1>7. AliveInv'
  BY <1>1, <1>5, <1>6, InitIsSlot DEF IInv, AliveInv, TypeOK
<1>8. EmbryoInv'
  BY <1>1, <1>2 DEF IInv, EmbryoInv, Making, TypeOK
<1>9. ParentAlive'
  BY <1>1, <1>5, <1>6, InitIsSlot DEF IInv, AliveInv, ParentAlive, TypeOK
<1>10. MemoryAccounted'
  BY <1>1, <1>2 DEF IInv, MemoryAccounted, TypeOK
<1>. QED
  BY <1>4, <1>7, <1>8, <1>9, <1>10 DEF IInv

\* wait() frees a zombie child.
LEMMA ReapStep ==
    ASSUME IInv, NEW p \in Slot, wait_reap(p)
    PROVE  IInv'
<1>. DEFINE q == Min(ZombieChildren(p))
<1>1. q \in Slot /\ state[q] = "ZOMBIE"
  BY MinIsMember DEF wait_reap, ZombieChildren, Children
<1>. HIDE DEF q
<1>2. /\ ~panicked /\ state[p] = "RUNNING" /\ pc[p] \in {"user", "wait"}
      /\ state' = [state EXCEPT ![q] = "UNUSED"]
      /\ mem' = [mem EXCEPT ![q] = FALSE]
      /\ kstack' = [kstack EXCEPT ![q] = FALSE]
      /\ pid' = [pid EXCEPT ![q] = 0]
      /\ parent' = [parent EXCEPT ![q] = 0]
      /\ chan' = [chan EXCEPT ![p] = "0"]
      /\ pc' = [pc EXCEPT ![p] = "user"]
      /\ killed' = killed /\ nextpid' = nextpid /\ np' = np
      /\ left' = left /\ tickslock' = tickslock /\ panicked' = panicked
  BY DEF wait_reap, SysCall, At, Goto, kfree_kstack, tickVars, q
<1>3. TypeOK'
  BY <1>1, <1>2, ProcAssumption DEF IInv, TypeOK, State, Label
<1>4. AliveInv'
  BY <1>1, <1>2, InitIsSlot DEF IInv, AliveInv, Alive, TypeOK
<1>5. EmbryoInv'
  BY <1>1, <1>2 DEF IInv, EmbryoInv, Making, TypeOK
<1>6. ParentAlive'
  BY <1>1, <1>2 DEF IInv, ParentAlive, Alive, TypeOK
<1>7. MemoryAccounted'
  BY <1>1, <1>2 DEF IInv, MemoryAccounted, TypeOK
<1>. QED
  BY <1>3, <1>4, <1>5, <1>6, <1>7 DEF IInv
-----------------------------------------------------------------------------
\* copyproc() as a whole, whatever kalloc() answers.
LEMMA CopyprocStep ==
    ASSUME IInv, NEW p \in Slot, copyproc_kstack(p) \/ copyproc_mem(p)
    PROVE  IInv'
<1>1. copyproc_kstack(p) => pc'[p] = "mem" \/ pc'[p] = "user"
  BY DEF IInv, TypeOK, copyproc_kstack, Goto
<1>2. copyproc_mem(p) => pc'[p] = "runnable" \/ pc'[p] = "unparent"
  BY DEF IInv, TypeOK, copyproc_mem, Goto
<1>. QED
  BY <1>1, <1>2, KstackStep, KstackFailsStep, MemStep, MemFailsStep

\* Every step of the kernel keeps the invariant.
LEMMA NextStep == IInv /\ [Next]_vars => IInv'
<1>. SUFFICES ASSUME IInv, [Next]_vars PROVE IInv'
  OBVIOUS
<1>1. CASE UNCHANGED vars
  BY <1>1 DEF vars, memVars, tickVars, IInv, TypeOK, AliveInv, EmbryoInv,
              ParentAlive, MemoryAccounted, Alive
<1>2. CASE timer
  BY <1>2, TimerStep
<1>3. ASSUME NEW p \in Slot,
             \/ scheduler(p) \/ yield(p)
             \/ KernelStep(p) \/ exit_killed(p)
             \/ allocproc(p) \/ exit_by_choice(p)
             \/ pc[p] = "user" /\ wait(p)
             \/ \E target \in 0 .. MaxPid : kill(p, target)
             \/ \E n \in 1 .. MaxSleep : sys_sleep(p, n)
      PROVE  IInv'
  BY <1>3, SchedulerStep, CopyprocStep, UnparentStep, ForkStep, SleepStep,
     ExitStep, ReapStep, AllocprocStep, KillStep
  DEF KernelStep, wait, exit_killed, exit_by_choice
<1>. QED
  BY <1>1, <1>2, <1>3 DEF Next, frozen

\* exit() never leaves a process whose parent has exited: its children go to
\* init in the same critical section, and copyproc() names only itself.
THEOREM ParentsAlive == Spec => []ParentAlive
<1>1. IInv => ParentAlive
  BY DEF IInv
<1>. QED
  BY <1>1, InitHolds, NextStep, PTL DEF Spec

\* No way through allocproc(), copyproc(), exit() and wait() loses or reuses
\* the stack or the memory of a process, however often kalloc() fails.
THEOREM MemoryNeverLost == Spec => []MemoryAccounted
<1>1. IInv => MemoryAccounted
  BY DEF IInv
<1>. QED
  BY <1>1, InitHolds, NextStep, PTL DEF Spec
=============================================================================
