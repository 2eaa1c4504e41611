---------------------------- MODULE SchedProofs ------------------------------
(***************************************************************************)
(* Proofs about module Sched: an inductive invariant, lemmas on how the    *)
(* steps of a CPU preserve it, and the theorems that follow from it.       *)
(*                                                                         *)
(* The idea: which locks a CPU holds, and with them ncli, can be read off  *)
(* the place where it is.  A process that is on the stack of a CPU without *)
(* being RUNNING is on its way to the scheduler, and then its CPU holds    *)
(* proc_table_lock, so that no other CPU looks at the table.               *)
(***************************************************************************)
EXTENDS Sched, WellFoundedInduction, TLAPS

\* Where a process is while its CPU holds proc_table_lock: on the way to the
\* scheduler, and on the way back from it.
Leaving   == {"yield", "sleep", "wait", "exit"}
Returning == {"forkret", "yielded", "slept", "wait_scan"}
Table     == Leaving \cup Returning \cup {"sleep_lk"}

\* ... while it holds lk, ...
Locked == {"locked", "sleep_lk"}

\* ... and while it holds neither; interrupts may be on there.
Free == {"trap", "iret", "user", "syscall", "sysret", "copyproc"}

Label == Table \cup Locked \cup Free

\* Where a process has a trap frame to return through.
InTrap == {"trap", "yield", "yielded", "iret"}

Gone == {"RUNNABLE", "SLEEPING", "ZOMBIE"}

\* The states a process on a stack may have there.
StatesAt(here) ==
    IF here = "exit" THEN {"ZOMBIE"}
    ELSE IF here \in Leaving THEN {"RUNNABLE", "SLEEPING"} ELSE {"RUNNING"}

TypeOK ==
    /\ state \in [Proc -> Gone \cup {"RUNNING", "UNUSED", "EMBRYO"}]
    /\ chan \in [Proc -> {"0", "cond", "cp"}]
    /\ pc \in [Proc -> Label]
    /\ frames \in [Proc -> Seq(Free)]
    /\ curproc \in [CPU -> Proc \cup {None}] /\ stack \in [CPU -> Proc \cup {None}]
    /\ loop \in [CPU -> {"sti", "acquire", "for"}] /\ i \in [CPU -> Nat]
    /\ ncli \in [CPU -> Nat]
    /\ intena \in [CPU -> BOOLEAN] /\ FL_IF \in [CPU -> BOOLEAN]
    /\ proc_table_lock \in CPU \cup {None} /\ lk \in CPU \cup {None}
    /\ cond \in BOOLEAN /\ panicked = FALSE

HoldsTable(c) == IF stack[c] = None THEN loop[c] = "for" ELSE pc[stack[c]] \in Table
HoldsLk(c)    == stack[c] # None /\ pc[stack[c]] \in Locked

\* A CPU: its locks, its count of pushcli(), and the process it runs.
CpuInv(c) ==
    /\ curproc[c] = stack[c]
    /\ stack[c] # None => loop[c] = "for"
    /\ proc_table_lock = c <=> HoldsTable(c)
    /\ lk = c <=> HoldsLk(c)
    /\ ncli[c] = (IF HoldsTable(c) THEN 1 ELSE 0) + (IF HoldsLk(c) THEN 1 ELSE 0)
    /\ FL_IF[c] => ncli[c] = 0
    /\ stack[c] # None => state[stack[c]] \in StatesAt(pc[stack[c]])
    /\ stack[c] # None /\ pc[stack[c]] = "sleep_lk" => ~cond

\* No two CPUs are on one stack.
StackInv == \A c, d \in CPU : c # d /\ stack[c] # None => stack[c] # stack[d]

\* A process that is on no stack does not run, and if it may come back it does
\* so from swtch(), with proc_table_lock held.
ProcInv(p) ==
    /\ (\A c \in CPU : stack[c] # p) =>
          /\ state[p] # "RUNNING"
          /\ state[p] \in {"RUNNABLE", "SLEEPING", "EMBRYO"} => pc[p] \in Returning
    /\ pc[p] \in {"wait", "wait_scan"} => p = initproc

\* A trap returns to code that was interrupted, at last to user code or to a
\* system call.
FrameInv(p) ==
    /\ pc[p] \in InTrap => frames[p] # << >>
    /\ frames[p] # << >> => frames[p][1] \notin InTrap

\* Nobody is asleep on a condition that holds.
CondInv == cond => Sleepers = {}

IInv ==
    /\ TypeOK
    /\ \A c \in CPU : CpuInv(c)
    /\ StackInv
    /\ \A p \in Proc : ProcInv(p) /\ FrameInv(p)
    /\ CondInv
-----------------------------------------------------------------------------
\* Min picks a member: the scheduler, allocproc() and wait() take a slot that
\* passed the test.
LEMMA MinIsMember ==
    ASSUME NEW S, S \subseteq Nat, S # {}
    PROVE  Min(S) \in S
<1>1. PICK x \in S : \A y \in S : <<y, x>> \notin OpToRel(<, Nat)
  BY NatLessThanWellFounded, WFMin, Zenon
<1>2. \A y \in S : ~(y < x)
  BY <1>1, Zenon DEF OpToRel
<1>3. \A y \in S : x =< y
  BY <1>2
<1>. QED
  BY <1>3, Zenon DEF Min

\* pushcli() counts, and turns interrupts off on its own CPU.
LEMMA PushFacts ==
    ASSUME TypeOK, NEW c \in CPU, pushcli(c)
    PROVE  /\ ncli' \in [CPU -> Nat] /\ intena' \in [CPU -> BOOLEAN]
           /\ FL_IF' \in [CPU -> BOOLEAN]
           /\ ncli'[c] = ncli[c] + 1 /\ ~FL_IF'[c]
           /\ \A d \in CPU \ {c} : ncli'[d] = ncli[d] /\ (FL_IF'[d] => FL_IF[d])
<1>1. ncli' \in [CPU -> Nat] /\ ncli'[c] = ncli[c] + 1
      /\ \A d \in CPU \ {c} : ncli'[d] = ncli[d]
  BY DEF TypeOK, pushcli
<1>2. intena' \in [CPU -> BOOLEAN]
  BY Zenon DEF TypeOK, pushcli
<1>3. FL_IF' \in [CPU -> BOOLEAN] /\ ~FL_IF'[c]
      /\ \A d \in CPU \ {c} : FL_IF'[d] => FL_IF[d]
  BY Zenon DEF TypeOK, pushcli
<1>. QED
  BY <1>1, <1>2, <1>3, Zenon

\* popcli() counts back, and turns interrupts on at zero at the earliest.
LEMMA PopFacts ==
    ASSUME TypeOK, NEW c \in CPU, popcli(c), ncli[c] > 0
    PROVE  /\ ncli' \in [CPU -> Nat] /\ intena' \in [CPU -> BOOLEAN]
           /\ FL_IF' \in [CPU -> BOOLEAN]
           /\ ncli'[c] = ncli[c] - 1 /\ (FL_IF'[c] => ncli'[c] = 0)
           /\ \A d \in CPU \ {c} : ncli'[d] = ncli[d] /\ (FL_IF'[d] => FL_IF[d])
<1>1. ncli' \in [CPU -> Nat] /\ ncli'[c] = ncli[c] - 1
      /\ \A d \in CPU \ {c} : ncli'[d] = ncli[d]
  BY DEF TypeOK, popcli
<1>2. intena' \in [CPU -> BOOLEAN]
  BY Zenon DEF TypeOK, popcli
<1>3. FL_IF' = [FL_IF EXCEPT ![c] = ncli[c] = 1 /\ intena[c]]
  BY Zenon DEF popcli
<1>4. (ncli[c] = 1 /\ intena[c]) \in BOOLEAN
  BY Zenon
<1>5. FL_IF' \in [CPU -> BOOLEAN] /\ (FL_IF'[c] => ncli[c] = 1)
      /\ \A d \in CPU \ {c} : FL_IF'[d] => FL_IF[d]
  BY <1>3, <1>4, Zenon DEF TypeOK
<1>. QED
  BY <1>1, <1>2, <1>5 DEF TypeOK
-----------------------------------------------------------------------------
\* What a step of CPU c does to the rest of the system: nothing to the other
\* CPUs and the processes they run, but that a process on its way to the
\* scheduler may be woken; and the condition is set under lk only.
Local(c) ==
    /\ \A d \in CPU \ {c} :
          /\ stack'[d] = stack[d] /\ curproc'[d] = curproc[d] /\ loop'[d] = loop[d]
          /\ ncli'[d] = ncli[d] /\ (FL_IF'[d] => FL_IF[d])
          /\ proc_table_lock' = d <=> proc_table_lock = d
          /\ lk' = d <=> lk = d
          /\ stack[d] # None =>
                /\ pc'[stack[d]] = pc[stack[d]]
                /\ \/ state'[stack[d]] = state[stack[d]]
                   \/ state[stack[d]] = "SLEEPING" /\ state'[stack[d]] = "RUNNABLE"
    /\ cond' => cond \/ lk \in {None, c}

\* Such a step keeps the invariant of the other CPUs.
LEMMA OthersKept ==
    ASSUME NEW c \in CPU, NEW d \in CPU \ {c}, d # None, CpuInv(d), Local(c)
    PROVE  CpuInv(d)'
<1>1. (HoldsTable(d)' <=> HoldsTable(d)) /\ (HoldsLk(d)' <=> HoldsLk(d))
  BY Zenon DEF Local, HoldsTable, HoldsLk
<1>2. stack'[d] # None /\ pc'[stack'[d]] = "sleep_lk" => ~cond'
  <2>. SUFFICES ASSUME stack'[d] # None, pc'[stack'[d]] = "sleep_lk" PROVE ~cond'
    BY Zenon
  <2>1. stack[d] # None /\ pc[stack[d]] = "sleep_lk"
    BY DEF Local
  <2>2. ~cond /\ lk = d
    BY <2>1, Zenon DEF CpuInv, HoldsLk, Locked
  <2>. QED
    BY <2>2, Zenon DEF Local
<1>3. stack'[d] # None => state'[stack'[d]] \in StatesAt(pc'[stack'[d]])
  BY DEF Local, CpuInv, StatesAt, Leaving
<1>4. /\ curproc'[d] = stack'[d]
      /\ stack'[d] # None => loop'[d] = "for"
      /\ proc_table_lock' = d <=> HoldsTable(d)'
      /\ lk' = d <=> HoldsLk(d)'
  BY <1>1, Zenon DEF Local, CpuInv
<1>5. ncli'[d] = (IF HoldsTable(d)' THEN 1 ELSE 0) + (IF HoldsLk(d)' THEN 1 ELSE 0)
  BY <1>1, Zenon DEF Local, CpuInv
<1>6. FL_IF'[d] => ncli'[d] = 0
  BY Zenon DEF Local, CpuInv
<1>. QED
  BY <1>2, <1>3, <1>4, <1>5, <1>6, Zenon DEF CpuInv
-----------------------------------------------------------------------------
\* The process p on the stack of c goes to a label, and takes and releases the
\* locks that belong to it.
Moves(c, p, to) ==
    /\ stack'[c] = p /\ curproc'[c] = p /\ loop'[c] = loop[c]
    /\ pc'[p] = to
    /\ proc_table_lock' = c <=> to \in Table
    /\ lk' = c <=> to \in Locked
    /\ ncli'[c] = (IF to \in Table THEN 1 ELSE 0) + (IF to \in Locked THEN 1 ELSE 0)
    /\ FL_IF'[c] => ncli'[c] = 0
    /\ state'[p] \in StatesAt(to)
    /\ to = "sleep_lk" => ~cond'

\* The other processes of the table: they are woken, or, if no CPU executes on
\* them, made RUNNABLE by fork() or freed as zombies.
OthersWoken(p) ==
    \A q \in Proc \ {p} :
        /\ pc'[q] = pc[q]
        /\ \/ state'[q] = state[q]
           \/ state[q] = "SLEEPING" /\ state'[q] = "RUNNABLE"
           \/ /\ \A d \in CPU : stack[d] # q
              /\ state'[q] = "UNUSED" \/ (state[q] = "EMBRYO" /\ state'[q] = "RUNNABLE")

\* The CPU itself, after such a step.
LEMMA MoverKept ==
    ASSUME NEW c \in CPU, NEW p \in Proc, NEW to, p # None, stack[c] = p,
           CpuInv(c), Moves(c, p, to)
    PROVE  CpuInv(c)'
<1>1. (HoldsTable(c)' <=> to \in Table) /\ (HoldsLk(c)' <=> to \in Locked)
  BY Zenon DEF Moves, HoldsTable, HoldsLk
<1>2. loop'[c] = "for"
  BY Zenon DEF Moves, CpuInv
<1>. QED
  BY <1>1, <1>2, Zenon DEF Moves, CpuInv

\* A step of the process on a CPU that at most wakes or frees others keeps what
\* the invariant says of CPUs, stacks and of the processes that are not running.
LEMMA StepKept ==
    ASSUME TypeOK, \A d \in CPU : CpuInv(d), StackInv, \A q \in Proc : ProcInv(q),
           NEW c \in CPU, NEW p \in Proc, NEW to, stack[c] = p,
           Moves(c, p, to), Local(c), OthersWoken(p),
           to \in {"wait", "wait_scan"} => p = initproc
    PROVE  /\ \A d \in CPU : CpuInv(d)'
           /\ StackInv'
           /\ \A q \in Proc : ProcInv(q)'
<1>0. p # None /\ \A d \in CPU : d # None
  BY SchedAssumption, Zenon
<1>1. \A d \in CPU : CpuInv(d)'
  BY <1>0, MoverKept, OthersKept, Zenon
<1>2. \A d \in CPU : stack'[d] = stack[d]
  BY Zenon DEF Local, Moves
<1>3. StackInv'
  BY <1>2, Zenon DEF StackInv
<1>4. ASSUME NEW q \in Proc PROVE ProcInv(q)'
  <2>1. CASE q = p
    BY <2>1, <1>2, <1>0, Zenon DEF ProcInv, Moves
  <2>2. CASE q # p
    <3>1. pc'[q] = pc[q]
      BY <2>2, Zenon DEF OthersWoken
    <3>2. \/ state'[q] = state[q]
          \/ state[q] \in {"SLEEPING", "EMBRYO"} /\ state'[q] = "RUNNABLE"
          \/ state'[q] = "UNUSED"
      BY <2>2, Zenon DEF OthersWoken
    <3>3. ProcInv(q)
      BY Zenon
    <3>. QED
      BY <1>2, <3>1, <3>2, <3>3, Zenon DEF ProcInv
  <2>. QED
    BY <2>1, <2>2, Zenon
<1>. QED
  BY <1>1, <1>3, <1>4, Zenon

\* Where a running process is, its CPU can tell.
LEMMA Running ==
    ASSUME IInv, NEW c \in CPU, stack[c] # None
    PROVE  /\ stack[c] \in Proc /\ curproc[c] = stack[c] /\ pc[stack[c]] \in Label
           /\ proc_table_lock = c <=> pc[stack[c]] \in Table
           /\ lk = c <=> pc[stack[c]] \in Locked
           /\ ncli[c] = (IF pc[stack[c]] \in Table THEN 1 ELSE 0)
                        + (IF pc[stack[c]] \in Locked THEN 1 ELSE 0)
           /\ FL_IF[c] => ncli[c] = 0
           /\ state[stack[c]] \in StatesAt(pc[stack[c]])
           /\ pc[stack[c]] \notin Leaving => state[stack[c]] = "RUNNING"
           /\ c # None /\ stack[c] # None
           /\ \A d \in CPU \ {c} : stack[d] # None => stack[d] \in Proc \ {stack[c]}
BY SchedAssumption
   DEF IInv, TypeOK, CpuInv, HoldsTable, HoldsLk, StackInv, StatesAt, Leaving

\* The locks, the counts and the interrupt flags after a step of CPU c that ends
\* at a label.
Keeps(c, to) ==
    /\ ncli' \in [CPU -> Nat] /\ intena' \in [CPU -> BOOLEAN]
    /\ FL_IF' \in [CPU -> BOOLEAN]
    /\ proc_table_lock' \in CPU \cup {None} /\ lk' \in CPU \cup {None}
    /\ \A d \in CPU \ {c} :
          /\ ncli'[d] = ncli[d] /\ (FL_IF'[d] => FL_IF[d])
          /\ proc_table_lock' = d <=> proc_table_lock = d
          /\ lk' = d <=> lk = d
    /\ proc_table_lock' = c <=> to \in Table
    /\ lk' = c <=> to \in Locked
    /\ ncli'[c] = (IF to \in Table THEN 1 ELSE 0) + (IF to \in Locked THEN 1 ELSE 0)
    /\ FL_IF'[c] => ncli'[c] = 0

\* A step of the process on CPU c, whatever it does, keeps the invariant if it
\* keeps the books.
LEMMA ProcessStep ==
    ASSUME IInv, NEW c \in CPU, NEW p, stack[c] = p, p # None,
           NEW to \in Label, pc' = [pc EXCEPT ![p] = to], Keeps(c, to),
           stack' = stack, curproc' = curproc, loop' = loop, i' = i,
           panicked' = panicked,
           state' \in [Proc -> Gone \cup {"RUNNING", "UNUSED", "EMBRYO"}],
           state'[p] \in StatesAt(to),
           OthersWoken(p),
           chan' \in [Proc -> {"0", "cond", "cp"}], cond' \in BOOLEAN,
           cond' => cond \/ lk \in {None, c}, to = "sleep_lk" => ~cond',
           to \in {"wait", "wait_scan"} => p = initproc,
           frames' \in [Proc -> Seq(Free)], \A q \in Proc : FrameInv(q)', CondInv'
    PROVE  IInv'
<1>1. TypeOK'
  BY Zenon DEF IInv, TypeOK, Keeps
<1>2. p \in Proc /\ curproc[c] = p /\ pc \in [Proc -> Label]
  BY Running, Zenon DEF IInv, TypeOK
<1>3. Moves(c, p, to)
  BY <1>2, Zenon DEF Moves, Keeps
<1>4. ASSUME NEW d \in CPU \ {c}, stack[d] # None
      PROVE  /\ pc'[stack[d]] = pc[stack[d]]
             /\ \/ state'[stack[d]] = state[stack[d]]
                \/ state[stack[d]] = "SLEEPING" /\ state'[stack[d]] = "RUNNABLE"
  <2>1. stack[d] \in Proc \ {p} /\ d \in CPU
    BY <1>4, Running, Zenon
  <2>2. PICK q \in Proc \ {p} : q = stack[d]
    BY <2>1, Zenon
  <2>3. pc'[q] = pc[q]
    BY <1>2, Zenon
  <2>4. state'[q] = state[q] \/ (state[q] = "SLEEPING" /\ state'[q] = "RUNNABLE")
    BY <2>1, <2>2, Zenon DEF OthersWoken
  <2>. QED
    BY <2>2, <2>3, <2>4, Zenon
<1>5. Local(c)
  BY <1>4, Zenon DEF Local, Keeps
<1>6. /\ \A d \in CPU : CpuInv(d)'
      /\ StackInv'
      /\ \A q \in Proc : ProcInv(q)'
  BY <1>2, <1>3, <1>5, StepKept, Zenon DEF IInv
<1>. QED
  BY <1>1, <1>6, Zenon DEF IInv
-----------------------------------------------------------------------------
\* How the lock operations keep the books: none at all, ...
LEMMA KeepsNone ==
    ASSUME IInv, NEW c \in CPU, stack[c] # None, NEW to,
           ncli' = ncli, intena' = intena, FL_IF' \in [CPU -> BOOLEAN],
           \A d \in CPU \ {c} : FL_IF'[d] => FL_IF[d],
           FL_IF'[c] => FL_IF[c] \/ to \in Free,
           proc_table_lock' = proc_table_lock, lk' = lk,
           to \in Table <=> pc[stack[c]] \in Table,
           to \in Locked <=> pc[stack[c]] \in Locked
    PROVE  Keeps(c, to)
<1>1. to \in Free => to \notin Table /\ to \notin Locked
  BY Zenon DEF Free, Table, Locked, Leaving, Returning
<1>2. FL_IF'[c] => ncli'[c] = 0
  BY <1>1, Running
<1>. QED
  BY <1>2, Running, Zenon DEF Keeps, IInv, TypeOK

\* ... acquire(&proc_table_lock), ...
LEMMA KeepsLockTable ==
    ASSUME IInv, NEW c \in CPU, stack[c] # None, NEW to,
           lock_table(c), lk' = lk, to \in Table, pc[stack[c]] \notin Table,
           to \in Locked <=> pc[stack[c]] \in Locked
    PROVE  Keeps(c, to)
<1>1. pushcli(c) /\ proc_table_lock = None /\ proc_table_lock' = c
  BY Zenon DEF lock_table
<1>2. TypeOK /\ \A d \in CPU : d # None
  BY SchedAssumption, Zenon DEF IInv
<1>3. /\ c # None
      /\ proc_table_lock = c <=> pc[stack[c]] \in Table
      /\ lk = c <=> pc[stack[c]] \in Locked
      /\ ncli[c] = (IF pc[stack[c]] \in Table THEN 1 ELSE 0)
                   + (IF pc[stack[c]] \in Locked THEN 1 ELSE 0)
  BY Running, Zenon
<1>4. /\ ncli' \in [CPU -> Nat] /\ intena' \in [CPU -> BOOLEAN]
      /\ FL_IF' \in [CPU -> BOOLEAN]
      /\ ncli'[c] = ncli[c] + 1 /\ ~FL_IF'[c]
      /\ \A d \in CPU \ {c} : ncli'[d] = ncli[d] /\ (FL_IF'[d] => FL_IF[d])
  BY <1>1, <1>2, PushFacts, Zenon
<1>5. proc_table_lock' \in CPU \cup {None} /\ lk' \in CPU \cup {None}
  BY <1>1, <1>2, Zenon DEF TypeOK
<1>. QED
  BY <1>1, <1>2, <1>3, <1>4, <1>5 DEF Keeps

\* ... its release, ...
LEMMA KeepsUnlockTable ==
    ASSUME IInv, NEW c \in CPU, stack[c] # None, NEW to,
           unlock_table(c), lk' = lk, to \notin Table, pc[stack[c]] \in Table,
           to \in Locked <=> pc[stack[c]] \in Locked
    PROVE  Keeps(c, to)
<1>1. popcli(c) /\ proc_table_lock' = None
  BY Zenon DEF unlock_table
<1>2. TypeOK /\ \A d \in CPU : d # None
  BY SchedAssumption, Zenon DEF IInv
<1>3. /\ c # None
      /\ proc_table_lock = c <=> pc[stack[c]] \in Table
      /\ lk = c <=> pc[stack[c]] \in Locked
      /\ ncli[c] = (IF pc[stack[c]] \in Table THEN 1 ELSE 0)
                   + (IF pc[stack[c]] \in Locked THEN 1 ELSE 0)
  BY Running, Zenon
<1>4. ncli[c] > 0
  BY <1>3
<1>5. /\ ncli' \in [CPU -> Nat] /\ intena' \in [CPU -> BOOLEAN]
      /\ FL_IF' \in [CPU -> BOOLEAN]
      /\ ncli'[c] = ncli[c] - 1 /\ (FL_IF'[c] => ncli'[c] = 0)
      /\ \A d \in CPU \ {c} : ncli'[d] = ncli[d] /\ (FL_IF'[d] => FL_IF[d])
  BY <1>1, <1>2, <1>4, PopFacts, Zenon
<1>6. proc_table_lock' \in CPU \cup {None} /\ lk' \in CPU \cup {None}
  BY <1>1, <1>2, Zenon DEF TypeOK
<1>. QED
  BY <1>1, <1>2, <1>3, <1>5, <1>6 DEF Keeps

\* ... acquire(lk) ...
LEMMA KeepsLock ==
    ASSUME IInv, NEW c \in CPU, stack[c] # None, NEW to,
           lk = None, lk' = c, pushcli(c), proc_table_lock' = proc_table_lock,
           to \in Locked, pc[stack[c]] \notin Locked,
           to \in Table <=> pc[stack[c]] \in Table
    PROVE  Keeps(c, to)
<1>1. TypeOK /\ \A d \in CPU : d # None
  BY SchedAssumption, Zenon DEF IInv
<1>2. /\ c # None
      /\ proc_table_lock = c <=> pc[stack[c]] \in Table
      /\ lk = c <=> pc[stack[c]] \in Locked
      /\ ncli[c] = (IF pc[stack[c]] \in Table THEN 1 ELSE 0)
                   + (IF pc[stack[c]] \in Locked THEN 1 ELSE 0)
  BY Running, Zenon
<1>3. /\ ncli' \in [CPU -> Nat] /\ intena' \in [CPU -> BOOLEAN]
      /\ FL_IF' \in [CPU -> BOOLEAN]
      /\ ncli'[c] = ncli[c] + 1 /\ ~FL_IF'[c]
      /\ \A d \in CPU \ {c} : ncli'[d] = ncli[d] /\ (FL_IF'[d] => FL_IF[d])
  BY <1>1, PushFacts, Zenon
<1>4. proc_table_lock' \in CPU \cup {None} /\ lk' \in CPU \cup {None}
  BY <1>1, Zenon DEF TypeOK
<1>. QED
  BY <1>1, <1>2, <1>3, <1>4 DEF Keeps

\* ... and release(lk).
LEMMA KeepsUnlock ==
    ASSUME IInv, NEW c \in CPU, stack[c] # None, NEW to,
           lk' = None, popcli(c), proc_table_lock' = proc_table_lock,
           to \notin Locked, pc[stack[c]] \in Locked,
           to \in Table <=> pc[stack[c]] \in Table
    PROVE  Keeps(c, to)
<1>1. TypeOK /\ \A d \in CPU : d # None
  BY SchedAssumption, Zenon DEF IInv
<1>2. /\ c # None
      /\ proc_table_lock = c <=> pc[stack[c]] \in Table
      /\ lk = c <=> pc[stack[c]] \in Locked
      /\ ncli[c] = (IF pc[stack[c]] \in Table THEN 1 ELSE 0)
                   + (IF pc[stack[c]] \in Locked THEN 1 ELSE 0)
  BY Running, Zenon
<1>3. ncli[c] > 0
  BY <1>2
<1>4. /\ ncli' \in [CPU -> Nat] /\ intena' \in [CPU -> BOOLEAN]
      /\ FL_IF' \in [CPU -> BOOLEAN]
      /\ ncli'[c] = ncli[c] - 1 /\ (FL_IF'[c] => ncli'[c] = 0)
      /\ \A d \in CPU \ {c} : ncli'[d] = ncli[d] /\ (FL_IF'[d] => FL_IF[d])
  BY <1>1, <1>3, PopFacts, Zenon
<1>5. proc_table_lock' \in CPU \cup {None} /\ lk' \in CPU \cup {None}
  BY <1>1, Zenon DEF TypeOK
<1>. QED
  BY <1>1, <1>2, <1>4, <1>5 DEF Keeps
-----------------------------------------------------------------------------
\* A CPU in scheduler(): it holds proc_table_lock in its loop over the table.
LEMMA Scheduling ==
    ASSUME IInv, NEW c \in CPU, stack[c] = None
    PROVE  /\ c # None /\ curproc[c] = None /\ lk # c
           /\ proc_table_lock = c <=> loop[c] = "for"
           /\ ncli[c] = IF loop[c] = "for" THEN 1 ELSE 0
BY SchedAssumption DEF IInv, TypeOK, CpuInv, HoldsTable, HoldsLk

\* Its lock operations leave the processes alone.
LEMMA TableOnly ==
    ASSUME IInv, NEW c \in CPU, stack[c] = None, NEW to \in {"sti", "acquire", "for"},
           loop' = [loop EXCEPT ![c] = to], i' \in [CPU -> Nat],
           state' = state, chan' = chan, pc' = pc, frames' = frames,
           curproc' = curproc, stack' = stack, lk' = lk, cond' = cond,
           panicked' = panicked,
           proc_table_lock' \in CPU \cup {None},
           \A d \in CPU \ {c} : proc_table_lock' = d <=> proc_table_lock = d,
           proc_table_lock' = c <=> to = "for",
           ncli' \in [CPU -> Nat], intena' \in [CPU -> BOOLEAN],
           FL_IF' \in [CPU -> BOOLEAN],
           ncli'[c] = IF to = "for" THEN 1 ELSE 0, FL_IF'[c] => ncli'[c] = 0,
           \A d \in CPU \ {c} : ncli'[d] = ncli[d] /\ (FL_IF'[d] => FL_IF[d])
    PROVE  IInv'
<1>1. TypeOK'
  BY Zenon DEF IInv, TypeOK
<1>2. loop'[c] = to /\ \A d \in CPU \ {c} : loop'[d] = loop[d]
  BY Zenon DEF IInv, TypeOK
<1>3. Local(c)
  BY <1>2, Zenon DEF Local
<1>4. \A d \in CPU \ {c} : CpuInv(d)'
  BY <1>3, OthersKept, SchedAssumption, Zenon DEF IInv
<1>5. CpuInv(c)'
  <2>1. (HoldsTable(c)' <=> to = "for") /\ ~HoldsLk(c)'
    BY <1>2, Zenon DEF HoldsTable, HoldsLk
  <2>2. curproc'[c] = stack'[c] /\ lk' # c
    BY Scheduling, Zenon
  <2>. QED
    BY <2>1, <2>2 DEF CpuInv
<1>6. StackInv' /\ CondInv' /\ \A p \in Proc : ProcInv(p)' /\ FrameInv(p)'
  BY Zenon DEF IInv, StackInv, CondInv, Sleepers, ProcInv, FrameInv
<1>. QED
  BY <1>1, <1>4, <1>5, <1>6, Zenon DEF IInv

\* sti, acquire() and release() of scheduler().
LEMMA SchedulerLocks ==
    ASSUME IInv, NEW c \in CPU,
           scheduler_sti(c) \/ scheduler_acquire(c) \/ scheduler_release(c)
    PROVE  IInv'
<1>0. TypeOK /\ \A d \in CPU : d # None
  BY SchedAssumption, Zenon DEF IInv
<1>1. CASE scheduler_sti(c)
  <2>1. stack[c] = None /\ ncli[c] = 0 /\ proc_table_lock # c
    BY <1>1, Scheduling, Zenon DEF scheduler_sti
  <2>2. FL_IF' \in [CPU -> BOOLEAN] /\ \A d \in CPU \ {c} : FL_IF'[d] => FL_IF[d]
    BY <1>0, <1>1, Zenon DEF scheduler_sti, TypeOK
  <2>3. /\ loop' = [loop EXCEPT ![c] = "acquire"]
        /\ state' = state /\ chan' = chan /\ pc' = pc /\ frames' = frames
        /\ curproc' = curproc /\ stack' = stack /\ lk' = lk /\ cond' = cond
        /\ panicked' = panicked /\ i' = i /\ ncli' = ncli /\ intena' = intena
        /\ proc_table_lock' = proc_table_lock
    BY <1>1, Zenon DEF scheduler_sti, procVars, lockVars
  <2>. QED
    BY <1>0, <2>1, <2>2, <2>3, TableOnly, Zenon DEF TypeOK
<1>2. CASE scheduler_acquire(c)
  <2>1. /\ stack[c] = None /\ ncli[c] = 0
        /\ proc_table_lock = None /\ proc_table_lock' = c /\ pushcli(c)
    BY <1>2, Scheduling, Zenon DEF scheduler_acquire, lock_table
  <2>2. /\ ncli' \in [CPU -> Nat] /\ intena' \in [CPU -> BOOLEAN]
        /\ FL_IF' \in [CPU -> BOOLEAN]
        /\ ncli'[c] = 1 /\ ~FL_IF'[c]
        /\ \A d \in CPU \ {c} : ncli'[d] = ncli[d] /\ (FL_IF'[d] => FL_IF[d])
    BY <1>0, <2>1, PushFacts
  <2>3. /\ loop' = [loop EXCEPT ![c] = "for"]
        /\ state' = state /\ chan' = chan /\ pc' = pc /\ frames' = frames
        /\ curproc' = curproc /\ stack' = stack /\ lk' = lk /\ cond' = cond
        /\ panicked' = panicked /\ i' = [i EXCEPT ![c] = 0]
    BY <1>2, Zenon DEF scheduler_acquire, procVars
  <2>4. i' \in [CPU -> Nat]
    BY <1>0, <2>3, Zenon DEF TypeOK
  <2>. QED
    BY <1>0, <2>1, <2>2, <2>3, <2>4, TableOnly, Zenon
<1>3. CASE scheduler_release(c)
  <2>1. /\ stack[c] = None /\ ncli[c] = 1
        /\ proc_table_lock = c /\ proc_table_lock' = None /\ popcli(c)
    BY <1>3, Scheduling, Zenon DEF scheduler_release, unlock_table
  <2>2. /\ ncli' \in [CPU -> Nat] /\ intena' \in [CPU -> BOOLEAN]
        /\ FL_IF' \in [CPU -> BOOLEAN]
        /\ ncli'[c] = 0
        /\ \A d \in CPU \ {c} : ncli'[d] = ncli[d] /\ (FL_IF'[d] => FL_IF[d])
    BY <1>0, <2>1, PopFacts
  <2>3. /\ loop' = [loop EXCEPT ![c] = "sti"]
        /\ state' = state /\ chan' = chan /\ pc' = pc /\ frames' = frames
        /\ curproc' = curproc /\ stack' = stack /\ lk' = lk /\ cond' = cond
        /\ panicked' = panicked /\ i' = i
    BY <1>3, Zenon DEF scheduler_release, procVars
  <2>4. i' \in [CPU -> Nat]
    BY <1>0, <2>3, Zenon DEF TypeOK
  <2>. QED
    BY <1>0, <2>1, <2>2, <2>3, <2>4, TableOnly, Zenon
<1>. QED
  BY <1>1, <1>2, <1>3, Zenon

\* swtch() to a process: only this CPU looks at the table, so the process is on
\* no other stack.
LEMMA SchedulerSwtch ==
    ASSUME IInv, NEW c \in CPU, scheduler_swtch(c)
    PROVE  IInv'
<1>1. /\ stack[c] = None /\ loop[c] = "for" /\ Runnable(c) # {}
      /\ proc_table_lock = c /\ ncli[c] = 1 /\ lk # c /\ c # None
  BY Scheduling, Zenon DEF scheduler_swtch, Dispatch
<1>2. i \in [CPU -> Nat] /\ pc \in [Proc -> Label] /\ curproc \in [CPU -> Proc \cup {None}]
      /\ stack \in [CPU -> Proc \cup {None}]
      /\ state \in [Proc -> Gone \cup {"RUNNING", "UNUSED", "EMBRYO"}]
  BY Zenon DEF IInv, TypeOK
<1>3. PICK p \in Proc : p = Min(Runnable(c)) /\ state[p] = "RUNNABLE"
  <2>1. i[c] \in Nat
    BY <1>2, Zenon
  <2>2. Runnable(c) \subseteq Nat /\ Runnable(c) \subseteq Proc
    BY <2>1, SchedAssumption DEF Runnable, Proc
  <2>3. Min(Runnable(c)) \in Runnable(c)
    BY <1>1, <2>2, MinIsMember, Zenon
  <2>. QED
    BY <2>2, <2>3, Zenon DEF Runnable
<1>4. /\ curproc' = [curproc EXCEPT ![c] = p] /\ stack' = [stack EXCEPT ![c] = p]
      /\ state' = [state EXCEPT ![p] = "RUNNING"]
      /\ i' = [i EXCEPT ![c] = p + 1]
      /\ chan' = chan /\ pc' = pc /\ frames' = frames /\ loop' = loop
      /\ ncli' = ncli /\ intena' = intena /\ FL_IF' = FL_IF
      /\ proc_table_lock' = proc_table_lock /\ lk' = lk
      /\ cond' = cond /\ panicked' = panicked
  BY <1>3, Zenon DEF scheduler_swtch, Dispatch, cliVars, lockVars
<1>5. p \in Nat /\ p # None
  BY SchedAssumption DEF Proc
<1>6. \A d \in CPU \ {c} : stack[d] # None => state[stack[d]] = "RUNNING"
  <2>. SUFFICES ASSUME NEW d \in CPU \ {c}, stack[d] # None
                PROVE  state[stack[d]] = "RUNNING"
    BY Zenon
  <2>1. pc[stack[d]] \notin Table
    BY <1>1, Running, Zenon
  <2>. QED
    BY <2>1, Running, Zenon DEF Table
<1>7. \A d \in CPU : stack[d] # p
  BY <1>1, <1>3, <1>5, <1>6, Zenon
<1>8. pc[p] \in Returning
  BY <1>3, <1>7, Zenon DEF IInv, ProcInv
<1>9. TypeOK'
  BY <1>4, <1>5 DEF IInv, TypeOK
<1>10. Local(c)
  BY <1>2, <1>4, <1>7, Zenon DEF Local
<1>11. \A d \in CPU \ {c} : CpuInv(d)'
  BY <1>10, OthersKept, SchedAssumption, Zenon DEF IInv
<1>12. CpuInv(c)'
  <2>1. stack'[c] = p /\ curproc'[c] = p /\ state'[p] = "RUNNING"
    BY <1>2, <1>4, Zenon
  <2>2. HoldsTable(c)' /\ ~HoldsLk(c)' /\ StatesAt(pc[p]) = {"RUNNING"}
        /\ pc[p] # "sleep_lk"
    BY <1>4, <1>5, <1>8, <2>1, Zenon
       DEF HoldsTable, HoldsLk, Table, Locked, Returning, Leaving, StatesAt
  <2>3. FL_IF[c] => ncli[c] = 0
    BY Zenon DEF IInv, CpuInv
  <2>. QED
    BY <1>1, <1>4, <2>1, <2>2, <2>3 DEF CpuInv
<1>13. StackInv'
  BY <1>2, <1>4, <1>7, Zenon DEF IInv, StackInv
<1>14. ASSUME NEW q \in Proc PROVE ProcInv(q)' /\ FrameInv(q)'
  <2>1. ProcInv(q) /\ FrameInv(q) /\ stack'[c] = p
    BY <1>2, <1>4, Zenon DEF IInv
  <2>2. FrameInv(q)'
    BY <1>4, <2>1, Zenon DEF FrameInv
  <2>3. q # p => state'[q] = state[q] /\ stack[c] # q
    BY <1>1, <1>2, <1>4, SchedAssumption, Zenon
  <2>4. \A d \in CPU \ {c} : stack'[d] = stack[d]
    BY <1>2, <1>4, Zenon
  <2>5. ProcInv(q)'
    BY <1>4, <2>1, <2>3, <2>4, Zenon DEF ProcInv
  <2>. QED
    BY <2>2, <2>5, Zenon
<1>15. CondInv'
  BY <1>2, <1>4, Zenon DEF IInv, CondInv, Sleepers
<1>. QED
  BY <1>9, <1>11, <1>12, <1>13, <1>14, <1>15, Zenon DEF IInv

\* sched() does not panic, and gives the CPU and proc_table_lock back to the
\* scheduler.
LEMMA SchedSwtch ==
    ASSUME IInv, NEW c \in CPU, sched(c)
    PROVE  IInv'
<1>1. stack[c] # None /\ pc[stack[c]] \in Leaving
  BY Zenon DEF sched, Resumed, Leaving
<1>2. PICK p \in Proc : p = stack[c] /\ p = curproc[c] /\ p # None /\ pc[p] \in Leaving
  BY <1>1, Running, Zenon
<1>3. /\ proc_table_lock = c /\ lk # c /\ ncli[c] = 1 /\ ~FL_IF[c] /\ c # None
      /\ state[p] \in StatesAt(pc[p])
  <2>1. pc[stack[c]] \in Table /\ pc[stack[c]] \notin Locked
    BY <1>1, Zenon DEF Table, Locked, Leaving
  <2>2. proc_table_lock = c /\ lk # c /\ ncli[c] = 1 /\ c # None
    BY <1>1, <2>1, Running
  <2>3. ~FL_IF[c] /\ state[stack[c]] \in StatesAt(pc[stack[c]])
    BY <1>1, <2>2, Running
  <2>. QED
    BY <1>2, <2>2, <2>3, Zenon
<1>4. state[p] # "RUNNING" /\ (state[p] \in {"RUNNABLE", "SLEEPING", "EMBRYO"} => pc[p] # "exit")
  BY <1>2, <1>3, Zenon DEF StatesAt
<1>5. PICK to \in Label :
         /\ to = Resumed[pc[p]]
         /\ to \in InTrap => pc[p] \in InTrap
         /\ to = "wait_scan" => pc[p] = "wait"
         /\ to # "wait" /\ (pc[p] # "exit" => to \in Returning)
  BY <1>2 DEF Resumed, Leaving, Label, Table, Returning, InTrap
<1>6. panicked' = FALSE
  BY <1>2, <1>3, <1>4, Zenon DEF sched
<1>7. /\ pc' = [pc EXCEPT ![p] = to]
      /\ stack' = [stack EXCEPT ![c] = None] /\ curproc' = [curproc EXCEPT ![c] = None]
      /\ state' = state /\ chan' = chan /\ frames' = frames /\ loop' = loop /\ i' = i
      /\ ncli' = ncli /\ intena' = intena /\ FL_IF' = FL_IF
      /\ proc_table_lock' = proc_table_lock /\ lk' = lk /\ cond' = cond
  BY <1>2, <1>5, Zenon DEF sched, Goto, cliVars, lockVars
<1>8. pc \in [Proc -> Label] /\ curproc \in [CPU -> Proc \cup {None}]
      /\ stack \in [CPU -> Proc \cup {None}]
  BY Zenon DEF IInv, TypeOK
<1>9. TypeOK'
  BY <1>6, <1>7, Zenon DEF IInv, TypeOK
<1>10. \A d \in CPU \ {c} : stack[d] # p
  BY <1>2, Zenon DEF IInv, StackInv
<1>11. Local(c)
  <2>1. \A d \in CPU \ {c} : stack[d] # None => pc'[stack[d]] = pc[stack[d]]
    BY <1>7, <1>8, <1>10, Zenon
  <2>. QED
    BY <1>7, <1>8, <2>1, Zenon DEF Local
<1>12. \A d \in CPU \ {c} : CpuInv(d)'
  BY <1>11, OthersKept, SchedAssumption, Zenon DEF IInv
<1>13. CpuInv(c)'
  <2>1. stack'[c] = None /\ curproc'[c] = None /\ loop[c] = "for"
    BY <1>2, <1>7, <1>8, Zenon DEF IInv, CpuInv
  <2>2. HoldsTable(c)' /\ ~HoldsLk(c)'
    BY <1>7, <2>1, Zenon DEF HoldsTable, HoldsLk
  <2>. QED
    BY <1>3, <1>7, <2>1, <2>2 DEF CpuInv
<1>14. StackInv'
  BY <1>7, <1>8, Zenon DEF IInv, StackInv
<1>15. ASSUME NEW q \in Proc PROVE ProcInv(q)' /\ FrameInv(q)'
  <2>1. ProcInv(q) /\ FrameInv(q)
    BY Zenon DEF IInv
  <2>2. CASE q = p
    <3>1. pc'[q] = to
      BY <1>7, <1>8, <2>2, Zenon
    <3>2. FrameInv(q)'
      BY <1>5, <1>7, <2>1, <2>2, <3>1, Zenon DEF FrameInv
    <3>3. ProcInv(q)'
      BY <1>4, <1>5, <1>7, <2>1, <2>2, <3>1, Zenon DEF ProcInv
    <3>. QED
      BY <3>2, <3>3, Zenon
  <2>3. CASE q # p
    <3>1. pc'[q] = pc[q] /\ stack[c] # q
      BY <1>2, <1>7, <1>8, <2>3, Zenon
    <3>2. FrameInv(q)'
      BY <1>7, <2>1, <3>1, Zenon DEF FrameInv
    <3>3. (\A d \in CPU : stack'[d] # q) => \A d \in CPU : stack[d] # q
      BY <1>7, <1>8, <3>1, Zenon
    <3>4. ProcInv(q)'
      BY <1>7, <2>1, <3>1, <3>3, Zenon DEF ProcInv
    <3>. QED
      BY <3>2, <3>4, Zenon
  <2>. QED
    BY <2>2, <2>3, Zenon
<1>16. CondInv'
  BY <1>7, Zenon DEF IInv, CondInv, Sleepers
<1>. QED
  BY <1>9, <1>12, <1>13, <1>14, <1>15, <1>16, Zenon DEF IInv

\* An interrupt handler that sets the condition and calls wakeup().
LEMMA Device ==
    ASSUME IInv, NEW c \in CPU, device(c)
    PROVE  IInv'
<1>1. /\ lk = None /\ cond' = TRUE /\ state' = wakeup1("cond")
      /\ chan' = chan /\ pc' = pc /\ frames' = frames
      /\ stack' = stack /\ curproc' = curproc /\ loop' = loop /\ i' = i
      /\ ncli' = ncli /\ intena' = intena /\ FL_IF' = FL_IF
      /\ proc_table_lock' = proc_table_lock /\ lk' = lk /\ panicked' = panicked
  BY Zenon DEF device, cpuVars, cliVars, lockVars
<1>2. /\ state \in [Proc -> Gone \cup {"RUNNING", "UNUSED", "EMBRYO"}]
      /\ stack \in [CPU -> Proc \cup {None}]
  BY Zenon DEF IInv, TypeOK
<1>3. /\ state' \in [Proc -> Gone \cup {"RUNNING", "UNUSED", "EMBRYO"}]
      /\ \A q \in Proc :
            /\ \/ state'[q] = state[q]
               \/ state[q] = "SLEEPING" /\ state'[q] = "RUNNABLE"
            /\ ~(state'[q] = "SLEEPING" /\ chan[q] = "cond")
  BY <1>1, <1>2, Zenon DEF wakeup1, Gone
<1>4. TypeOK'
  BY <1>1, <1>3, Zenon DEF IInv, TypeOK
<1>5. ASSUME NEW d \in CPU PROVE CpuInv(d)'
  <2>1. CpuInv(d) /\ d # None
    BY SchedAssumption, Zenon DEF IInv
  <2>2. (HoldsTable(d)' <=> HoldsTable(d)) /\ (HoldsLk(d)' <=> HoldsLk(d))
    BY <1>1, Zenon DEF HoldsTable, HoldsLk
  <2>3. ~HoldsLk(d)
    BY <1>1, <2>1, Zenon DEF CpuInv
  <2>4. stack[d] # None => pc[stack[d]] # "sleep_lk"
    BY <2>3, Zenon DEF HoldsLk, Locked
  <2>5. stack[d] # None => state'[stack[d]] \in StatesAt(pc[stack[d]])
    BY <1>2, <1>3, <2>1, Zenon DEF CpuInv, StatesAt, Leaving
  <2>. QED
    BY <1>1, <2>1, <2>2, <2>4, <2>5, Zenon DEF CpuInv
<1>6. StackInv' /\ \A p \in Proc : ProcInv(p)' /\ FrameInv(p)'
  BY <1>1, <1>3, Zenon DEF IInv, StackInv, ProcInv, FrameInv
<1>7. CondInv'
  BY <1>1, <1>3, Zenon DEF CondInv, Sleepers
<1>. QED
  BY <1>4, <1>5, <1>6, <1>7, Zenon DEF IInv

-----------------------------------------------------------------------------
\* Trap frames stay as they are, and traps are left by iret only.
LEMMA FramesKept ==
    ASSUME IInv, NEW p \in Proc, NEW to, pc' = [pc EXCEPT ![p] = to],
           frames' = frames, to \in InTrap => pc[p] \in InTrap
    PROVE  frames' \in [Proc -> Seq(Free)] /\ \A q \in Proc : FrameInv(q)'
<1>1. frames' \in [Proc -> Seq(Free)] /\ pc \in [Proc -> Label]
  BY Zenon DEF IInv, TypeOK
<1>2. ASSUME NEW q \in Proc PROVE FrameInv(q)'
  <2>1. FrameInv(q) /\ frames'[q] = frames[q] /\ (pc'[q] \in InTrap => pc[q] \in InTrap)
    BY <1>1, Zenon DEF IInv
  <2>. QED
    BY <2>1, Zenon DEF FrameInv
<1>. QED
  BY <1>1, <1>2, Zenon

\* Nobody goes to sleep, and the condition is not set.
LEMMA CondKept ==
    ASSUME IInv, cond' => cond,
           \A q \in Proc : state'[q] = "SLEEPING" /\ chan'[q] = "cond" =>
                              state[q] = "SLEEPING" /\ chan[q] = "cond"
    PROVE  CondInv'
BY Zenon DEF IInv, CondInv, Sleepers

\* The steps of a process that leave the process table alone, but for its own
\* channel.
LEMMA PlainStep ==
    ASSUME IInv, NEW c \in CPU, stack[c] # None,
           NEW to \in Label, Goto(c, to), Keeps(c, to),
           stack' = stack, curproc' = curproc, loop' = loop, i' = i,
           panicked' = panicked, state' = state, frames' = frames,
           chan' \in {chan, [chan EXCEPT ![stack[c]] = "0"]},
           cond' \in BOOLEAN, cond' => cond, to = "sleep_lk" => ~cond',
           pc[stack[c]] \notin Leaving, to \notin Leaving,
           to \in InTrap => pc[stack[c]] \in InTrap,
           to = "wait_scan" => stack[c] = initproc
    PROVE  IInv'
<1>1. PICK p \in Proc : p = stack[c] /\ p # None
  BY Running, Zenon
<1>2. pc' = [pc EXCEPT ![p] = to] /\ state[p] = "RUNNING" /\ pc[p] \notin Leaving
  BY <1>1, Running, Zenon DEF Goto
<1>3. frames' \in [Proc -> Seq(Free)] /\ \A q \in Proc : FrameInv(q)'
  BY <1>1, <1>2, FramesKept, Zenon
<1>4. /\ chan' \in [Proc -> {"0", "cond", "cp"}]
      /\ \A q \in Proc \ {p} : chan'[q] = chan[q]
  <2>1. chan' = chan \/ chan' = [chan EXCEPT ![p] = "0"]
    BY <1>1, Zenon
  <2>2. chan \in [Proc -> {"0", "cond", "cp"}]
    BY Zenon DEF IInv, TypeOK
  <2>. QED
    BY <2>1, <2>2, Zenon
<1>5. CondInv'
  BY <1>2, <1>4, CondKept, Zenon
<1>6. /\ state' \in [Proc -> Gone \cup {"RUNNING", "UNUSED", "EMBRYO"}]
      /\ state'[p] \in StatesAt(to)
  BY <1>2, Zenon DEF IInv, TypeOK, StatesAt, Leaving
<1>7. OthersWoken(p)
  BY <1>2, Zenon DEF OthersWoken, IInv, TypeOK
<1>8. to \in {"wait", "wait_scan"} => p = initproc
  BY <1>1, Zenon DEF Leaving
<1>9. cond' => cond \/ lk \in {None, c}
  BY Zenon
<1>. QED
  BY <1>1, <1>2, <1>3, <1>4, <1>5, <1>6, <1>7, <1>8, <1>9, ProcessStep, Zenon
-----------------------------------------------------------------------------
USE DEF At

\* System calls and their returns.
LEMMA PlainSyscall ==
    ASSUME IInv, NEW c \in CPU, syscall(c) \/ sysret(c)
    PROVE  IInv'
<1>1. CASE syscall(c)
  <2>1. "syscall" \in Label /\ pc[stack[c]] = "user" /\ stack[c] # None
    BY <1>1, Zenon DEF syscall, Label, Free
  <2>2. /\ ncli' = ncli /\ intena' = intena /\ FL_IF' = FL_IF
        /\ proc_table_lock' = proc_table_lock /\ lk' = lk
    BY <1>1, Zenon DEF syscall, cliVars, lockVars
  <2>3. FL_IF' \in [CPU -> BOOLEAN] /\ \A d \in CPU : FL_IF'[d] => FL_IF[d]
    BY <2>2, Zenon DEF IInv, TypeOK
  <2>4. Keeps(c, "syscall")
    BY <2>1, <2>2, <2>3, KeepsNone DEF Table, Locked, Leaving, Returning
  <2>. QED
    BY <1>1, <2>1, <2>4, PlainStep, Zenon
       DEF syscall, cpuVars, IInv, TypeOK, Leaving, InTrap
<1>2. CASE sysret(c)
  <2>1. "user" \in Label /\ pc[stack[c]] = "sysret" /\ stack[c] # None
    BY <1>2, Zenon DEF sysret, Label, Free
  <2>2. FL_IF' \in [CPU -> BOOLEAN] /\ \A d \in CPU \ {c} : FL_IF'[d] => FL_IF[d]
    BY <1>2, Zenon DEF sysret, IInv, TypeOK
  <2>3. Keeps(c, "user")
    BY <1>2, <2>1, <2>2, KeepsNone DEF sysret, lockVars, Table, Locked, Leaving,
          Returning, Free
  <2>. QED
    BY <1>2, <2>1, <2>3, PlainStep, Zenon
       DEF sysret, cpuVars, IInv, TypeOK, Leaving, InTrap
<1>. QED
  BY <1>1, <1>2, Zenon

\* acquire(lk) and consuming the condition.
LEMMA PlainLk ==
    ASSUME IInv, NEW c \in CPU, acquire_lk(c) \/ consume(c)
    PROVE  IInv'
<1>1. CASE acquire_lk(c)
  <2>1. "locked" \in Label /\ pc[stack[c]] = "syscall" /\ stack[c] # None
    BY <1>1, Zenon DEF acquire_lk, Label, Locked
  <2>2. Keeps(c, "locked")
    BY <1>1, <2>1, KeepsLock, Zenon DEF acquire_lk, Table, Locked, Leaving, Returning
  <2>. QED
    BY <1>1, <2>1, <2>2, PlainStep, Zenon
       DEF acquire_lk, cpuVars, IInv, TypeOK, Leaving, InTrap
<1>2. CASE consume(c)
  <2>1. "sysret" \in Label /\ pc[stack[c]] = "locked" /\ stack[c] # None
    BY <1>2, Zenon DEF consume, Label, Free
  <2>2. Keeps(c, "sysret")
    BY <1>2, <2>1, KeepsUnlock DEF consume, Table, Locked, Leaving, Returning
  <2>. QED
    BY <1>2, <2>1, <2>2, PlainStep, Zenon
       DEF consume, cpuVars, IInv, TypeOK, Leaving, InTrap
<1>. QED
  BY <1>1, <1>2, Zenon

\* acquire(&proc_table_lock) of sleep() and of wait().
LEMMA PlainLockTable ==
    ASSUME IInv, NEW c \in CPU, sleep(c) \/ wait(c)
    PROVE  IInv'
<1>1. CASE sleep(c)
  <2>1. "sleep_lk" \in Label /\ pc[stack[c]] = "locked" /\ stack[c] # None
    BY <1>1, Zenon DEF sleep, Label, Locked
  <2>2. Keeps(c, "sleep_lk")
    BY <1>1, <2>1, KeepsLockTable, Zenon DEF sleep, Table, Locked, Leaving, Returning
  <2>. QED
    BY <1>1, <2>1, <2>2, PlainStep, Zenon
       DEF sleep, cpuVars, IInv, TypeOK, Leaving, InTrap
<1>2. CASE wait(c)
  <2>1. "wait_scan" \in Label /\ pc[stack[c]] = "syscall" /\ stack[c] # None
    BY <1>2, Zenon DEF wait, Label, Table, Returning
  <2>2. Keeps(c, "wait_scan")
    BY <1>2, <2>1, KeepsLockTable DEF wait, Table, Locked, Leaving, Returning
  <2>3. stack[c] = initproc
    BY <1>2, <2>1, Running, Zenon DEF wait
  <2>. QED
    BY <1>2, <2>1, <2>2, <2>3, PlainStep, Zenon
       DEF wait, cpuVars, IInv, TypeOK, Leaving, InTrap
<1>. QED
  BY <1>1, <1>2, Zenon

\* What follows sched() in yield() and sleep(), and the start of a new process.
LEMMA PlainUnlockTable ==
    ASSUME IInv, NEW c \in CPU, yield_release(c) \/ forkret(c) \/ sleep_wakes(c)
    PROVE  IInv'
<1>1. CASE yield_release(c)
  <2>1. "iret" \in Label /\ pc[stack[c]] = "yielded" /\ stack[c] # None
    BY <1>1, Zenon DEF yield_release, Label, Free
  <2>2. Keeps(c, "iret")
    BY <1>1, <2>1, KeepsUnlockTable
       DEF yield_release, Table, Locked, Leaving, Returning
  <2>. QED
    BY <1>1, <2>1, <2>2, PlainStep, Zenon
       DEF yield_release, cpuVars, IInv, TypeOK, Leaving, InTrap
<1>2. CASE forkret(c)
  <2>1. "sysret" \in Label /\ pc[stack[c]] = "forkret" /\ stack[c] # None
    BY <1>2, Zenon DEF forkret, Label, Free
  <2>2. Keeps(c, "sysret")
    BY <1>2, <2>1, KeepsUnlockTable DEF forkret, Table, Locked, Leaving, Returning
  <2>. QED
    BY <1>2, <2>1, <2>2, PlainStep, Zenon
       DEF forkret, cpuVars, IInv, TypeOK, Leaving, InTrap
<1>3. CASE sleep_wakes(c)
  <2>1. "syscall" \in Label /\ pc[stack[c]] = "slept" /\ stack[c] # None
    BY <1>3, Zenon DEF sleep_wakes, Label, Free
  <2>2. Keeps(c, "syscall")
    BY <1>3, <2>1, KeepsUnlockTable
       DEF sleep_wakes, Table, Locked, Leaving, Returning
  <2>3. chan' = [chan EXCEPT ![stack[c]] = "0"]
    BY <1>3, <2>1, Running, Zenon DEF sleep_wakes
  <2>. QED
    BY <1>3, <2>1, <2>2, <2>3, PlainStep, Zenon
       DEF sleep_wakes, cpuVars, IInv, TypeOK, Leaving, InTrap
<1>. QED
  BY <1>1, <1>2, <1>3, Zenon
-----------------------------------------------------------------------------
\* yield(): RUNNABLE, and still on its stack.
LEMMA Yield ==
    ASSUME IInv, NEW c \in CPU, yield(c)
    PROVE  IInv'
<1>1. PICK p \in Proc : p = stack[c] /\ p = curproc[c] /\ p # None /\ pc[p] = "trap"
  BY Running, Zenon DEF yield
<1>2. /\ pc' = [pc EXCEPT ![p] = "yield"] /\ state' = [state EXCEPT ![p] = "RUNNABLE"]
      /\ chan' = chan /\ frames' = frames /\ cond' = cond /\ panicked' = panicked
      /\ stack' = stack /\ curproc' = curproc /\ loop' = loop /\ i' = i
  BY <1>1, Zenon DEF yield, Goto, cpuVars
<1>3. Keeps(c, "yield") /\ "yield" \in Label
  <2>1. "yield" \in Label /\ pc[stack[c]] = "trap" /\ stack[c] # None
    BY <1>1, Zenon DEF Label, Table, Leaving
  <2>. QED
    BY <2>1, KeepsLockTable DEF yield, Table, Locked, Leaving, Returning
<1>4. state \in [Proc -> Gone \cup {"RUNNING", "UNUSED", "EMBRYO"}] /\ pc \in [Proc -> Label]
  BY Zenon DEF IInv, TypeOK
<1>5. /\ state' \in [Proc -> Gone \cup {"RUNNING", "UNUSED", "EMBRYO"}]
      /\ state'[p] \in {"RUNNABLE", "SLEEPING"} /\ OthersWoken(p)
  BY <1>2, <1>4, Zenon DEF Gone, OthersWoken
<1>6. CondInv'
  BY <1>2, <1>4, CondKept, Zenon
<1>7. frames' \in [Proc -> Seq(Free)] /\ \A q \in Proc : FrameInv(q)'
  BY <1>1, <1>2, FramesKept, Zenon DEF InTrap
<1>8. chan' \in [Proc -> {"0", "cond", "cp"}] /\ cond' \in BOOLEAN
  BY <1>2, Zenon DEF IInv, TypeOK
<1>. QED
  BY <1>1, <1>2, <1>3, <1>5, <1>6, <1>7, <1>8, ProcessStep, Zenon DEF StatesAt, Leaving

\* release(lk) in sleep(), with the process SLEEPING before anybody can look.
LEMMA SleepRelease ==
    ASSUME IInv, NEW c \in CPU, sleep_release(c)
    PROVE  IInv'
<1>1. PICK p \in Proc : /\ p = stack[c] /\ p = curproc[c] /\ p # None
                        /\ pc[p] = "sleep_lk"
  BY Running, Zenon DEF sleep_release
<1>2. /\ pc' = [pc EXCEPT ![p] = "sleep"] /\ state' = [state EXCEPT ![p] = "SLEEPING"]
      /\ chan' = [chan EXCEPT ![p] = "cond"] /\ frames' = frames
      /\ cond' = cond /\ panicked' = panicked
      /\ stack' = stack /\ curproc' = curproc /\ loop' = loop /\ i' = i
  BY <1>1, Zenon DEF sleep_release, Goto, cpuVars
<1>3. Keeps(c, "sleep") /\ "sleep" \in Label
  <2>1. "sleep" \in Label /\ pc[stack[c]] = "sleep_lk" /\ stack[c] # None
    BY <1>1, Zenon DEF Label, Table, Leaving
  <2>. QED
    BY <2>1, KeepsUnlock DEF sleep_release, Table, Locked, Leaving, Returning
<1>4. state \in [Proc -> Gone \cup {"RUNNING", "UNUSED", "EMBRYO"}] /\ pc \in [Proc -> Label]
  BY Zenon DEF IInv, TypeOK
<1>5. /\ state' \in [Proc -> Gone \cup {"RUNNING", "UNUSED", "EMBRYO"}]
      /\ state'[p] \in {"RUNNABLE", "SLEEPING"} /\ OthersWoken(p)
  BY <1>2, <1>4, Zenon DEF Gone, OthersWoken
<1>6. ~cond
  BY <1>1, Zenon DEF IInv, CpuInv
<1>7. CondInv'
  BY <1>2, <1>6, Zenon DEF CondInv
<1>8. frames' \in [Proc -> Seq(Free)] /\ \A q \in Proc : FrameInv(q)'
  BY <1>1, <1>2, FramesKept, Zenon DEF InTrap
<1>9. chan' \in [Proc -> {"0", "cond", "cp"}] /\ cond' \in BOOLEAN
  BY <1>2, Zenon DEF IInv, TypeOK
<1>. QED
  BY <1>1, <1>2, <1>3, <1>5, <1>7, <1>8, <1>9, ProcessStep, Zenon DEF StatesAt, Leaving

\* wakeup1() only makes sleepers RUNNABLE.
LEMMA WokenState ==
    ASSUME IInv, NEW ch, state' = wakeup1(ch)
    PROVE  /\ state' \in [Proc -> Gone \cup {"RUNNING", "UNUSED", "EMBRYO"}]
           /\ \A q \in Proc :
                 /\ \/ state'[q] = state[q]
                    \/ state[q] = "SLEEPING" /\ state'[q] = "RUNNABLE"
                 /\ ~(state'[q] = "SLEEPING" /\ chan[q] = ch)
BY Zenon DEF wakeup1, IInv, TypeOK, Gone

\* wakeup() of a process that has set the condition.
LEMMA Wakeup ==
    ASSUME IInv, NEW c \in CPU, wakeup(c)
    PROVE  IInv'
<1>1. PICK p \in Proc : p = stack[c] /\ p # None /\ pc[p] = "locked"
                        /\ state[p] = "RUNNING" /\ lk = c
  <2>1. stack[c] # None /\ pc[stack[c]] = "locked"
    BY Zenon DEF wakeup
  <2>. QED
    BY <2>1, Running, Zenon DEF Locked, Leaving
<1>2. /\ pc' = [pc EXCEPT ![p] = "sysret"] /\ state' = wakeup1("cond")
      /\ chan' = chan /\ frames' = frames /\ cond' = TRUE /\ panicked' = panicked
      /\ stack' = stack /\ curproc' = curproc /\ loop' = loop /\ i' = i
  BY <1>1, Zenon DEF wakeup, Goto, cpuVars
<1>3. Keeps(c, "sysret") /\ "sysret" \in Label
  <2>1. "sysret" \in Label /\ pc[stack[c]] = "locked" /\ stack[c] # None
    BY <1>1, Zenon DEF Label, Free
  <2>. QED
    BY <2>1, KeepsUnlock DEF wakeup, Table, Locked, Leaving, Returning
<1>4. /\ state' \in [Proc -> Gone \cup {"RUNNING", "UNUSED", "EMBRYO"}]
      /\ \A q \in Proc :
            /\ \/ state'[q] = state[q]
               \/ state[q] = "SLEEPING" /\ state'[q] = "RUNNABLE"
            /\ ~(state'[q] = "SLEEPING" /\ chan'[q] = "cond")
  BY <1>2, WokenState, Zenon
<1>5. state'[p] = "RUNNING" /\ OthersWoken(p)
  BY <1>1, <1>2, <1>4 DEF OthersWoken, IInv, TypeOK
<1>6. CondInv'
  BY <1>4, Zenon DEF CondInv, Sleepers
<1>7. frames' \in [Proc -> Seq(Free)] /\ \A q \in Proc : FrameInv(q)'
  BY <1>1, <1>2, FramesKept, Zenon DEF InTrap
<1>8. chan' \in [Proc -> {"0", "cond", "cp"}] /\ cond' \in BOOLEAN
  BY <1>2, Zenon DEF IInv, TypeOK
<1>. QED
  BY <1>1, <1>2, <1>3, <1>4, <1>5, <1>6, <1>7, <1>8, ProcessStep, Zenon DEF StatesAt, Leaving

\* exit(): a zombie that is still on its stack.
LEMMA Exit ==
    ASSUME IInv, NEW c \in CPU, exit(c)
    PROVE  IInv'
<1>1. PICK p \in Proc : p = stack[c] /\ p = curproc[c] /\ p # None /\ pc[p] = "syscall"
  BY Running, Zenon DEF exit
<1>2. /\ pc' = [pc EXCEPT ![p] = "exit"]
      /\ state' = [wakeup1("cp") EXCEPT ![p] = "ZOMBIE"]
      /\ chan' = chan /\ frames' = frames /\ cond' = cond /\ panicked' = panicked
      /\ stack' = stack /\ curproc' = curproc /\ loop' = loop /\ i' = i
  BY <1>1, Zenon DEF exit, TellParent, Goto, cpuVars
<1>3. Keeps(c, "exit") /\ "exit" \in Label
  <2>1. "exit" \in Label /\ pc[stack[c]] = "syscall" /\ stack[c] # None
    BY <1>1, Zenon DEF Label, Table, Leaving
  <2>. QED
    BY <2>1, KeepsLockTable DEF exit, Table, Locked, Leaving, Returning
<1>4. state \in [Proc -> Gone \cup {"RUNNING", "UNUSED", "EMBRYO"}] /\ pc \in [Proc -> Label]
  BY Zenon DEF IInv, TypeOK
<1>5. /\ state' \in [Proc -> Gone \cup {"RUNNING", "UNUSED", "EMBRYO"}] /\ state'[p] = "ZOMBIE"
      /\ \A q \in Proc \ {p} : \/ state'[q] = state[q]
                               \/ state[q] = "SLEEPING" /\ state'[q] = "RUNNABLE"
  BY <1>2, <1>4, Zenon DEF wakeup1, Gone
<1>6. OthersWoken(p)
  BY <1>2, <1>4, <1>5, Zenon DEF OthersWoken
<1>7. CondInv'
  BY <1>2, <1>5, CondKept, Zenon
<1>8. frames' \in [Proc -> Seq(Free)] /\ \A q \in Proc : FrameInv(q)'
  BY <1>1, <1>2, FramesKept, Zenon DEF InTrap
<1>9. chan' \in [Proc -> {"0", "cond", "cp"}] /\ cond' \in BOOLEAN
  BY <1>2, Zenon DEF IInv, TypeOK
<1>. QED
  BY <1>1, <1>2, <1>3, <1>5, <1>6, <1>7, <1>8, <1>9, ProcessStep, Zenon DEF StatesAt, Leaving

\* Who is on a stack is RUNNING, unless its CPU holds proc_table_lock.
LEMMA OnStack ==
    ASSUME IInv, NEW d \in CPU, stack[d] # None,
           proc_table_lock # d \/ pc[stack[d]] \notin Leaving
    PROVE  stack[d] \in Proc /\ state[stack[d]] = "RUNNING"
BY Running, Zenon DEF Table

\* wait() frees a zombie that has left its stack.
LEMMA WaitReturn ==
    ASSUME IInv, NEW c \in CPU, wait_return(c)
    PROVE  IInv'
<1>1. PICK p \in Proc : p = stack[c] /\ p # None /\ pc[p] = "wait_scan"
  BY Running, Zenon DEF wait_return
<1>2. /\ p = initproc /\ proc_table_lock = c /\ state[p] = "RUNNING"
  <2>1. ProcInv(p)
    BY Zenon DEF IInv
  <2>. QED
    BY <1>1, <2>1, Running, Zenon DEF ProcInv, Table, Returning, Leaving
<1>3. /\ pc' = [pc EXCEPT ![p] = "sysret"] /\ chan' = [chan EXCEPT ![p] = "0"]
      /\ frames' = frames /\ cond' = cond /\ panicked' = panicked
      /\ stack' = stack /\ curproc' = curproc /\ loop' = loop /\ i' = i
  BY <1>1, <1>2, Zenon DEF wait_return, Goto, cpuVars
<1>4. Keeps(c, "sysret") /\ "sysret" \in Label
  <2>1. "sysret" \in Label /\ pc[stack[c]] = "wait_scan" /\ stack[c] # None
    BY <1>1, Zenon DEF Label, Free
  <2>. QED
    BY <2>1, KeepsUnlockTable DEF wait_return, Table, Locked, Leaving, Returning
<1>5. \A d \in CPU : stack[d] # None => state[stack[d]] = "RUNNING"
  <2>. SUFFICES ASSUME NEW d \in CPU, stack[d] # None
                PROVE  proc_table_lock # d \/ pc[stack[d]] \notin Leaving
    BY OnStack, Zenon
  <2>. QED
    BY <1>1, <1>2, Zenon DEF Leaving
<1>6. state \in [Proc -> Gone \cup {"RUNNING", "UNUSED", "EMBRYO"}] /\ pc \in [Proc -> Label]
  BY Zenon DEF IInv, TypeOK
<1>7. /\ state' \in [Proc -> Gone \cup {"RUNNING", "UNUSED", "EMBRYO"}]
      /\ \A q \in Proc : \/ state'[q] = state[q]
                         \/ state'[q] = "UNUSED" /\ state[q] = "ZOMBIE"
  <2>1. CASE Zombies = {}
    BY <1>6, <2>1, Zenon DEF wait_return
  <2>2. CASE Zombies # {}
    <3>1. PICK z \in Zombies : z = Min(Zombies)
      <4>1. Zombies \subseteq Nat
        BY SchedAssumption DEF Zombies, Proc
      <4>. QED
        BY <4>1, <2>2, MinIsMember, Zenon
    <3>2. state' = [state EXCEPT ![z] = "UNUSED"]
      BY <2>2, <3>1, Zenon DEF wait_return
    <3>. QED
      BY <1>6, <3>2, Zenon DEF Zombies
  <2>. QED
    BY <2>1, <2>2, Zenon
<1>8. OthersWoken(p)
  <2>. SUFFICES ASSUME NEW q \in Proc \ {p}
                PROVE  /\ pc'[q] = pc[q]
                       /\ \/ state'[q] = state[q]
                          \/ state'[q] = "UNUSED" /\ \A d \in CPU : stack[d] # q
    BY Zenon DEF OthersWoken
  <2>1. pc'[q] = pc[q]
    BY <1>3, <1>6, Zenon
  <2>2. state[q] = "ZOMBIE" => \A d \in CPU : stack[d] # q
    BY <1>5, SchedAssumption, Zenon
  <2>. QED
    BY <1>7, <2>1, <2>2, Zenon
<1>9. state'[p] = "RUNNING"
  BY <1>2, <1>7, Zenon
<1>10. chan' \in [Proc -> {"0", "cond", "cp"}] /\ cond' \in BOOLEAN
  BY <1>3, Zenon DEF IInv, TypeOK
<1>11. CondInv'
  <2>1. chan \in [Proc -> {"0", "cond", "cp"}]
    BY Zenon DEF IInv, TypeOK
  <2>. QED
    BY <1>3, <1>7, <2>1, CondKept, Zenon
<1>12. frames' \in [Proc -> Seq(Free)] /\ \A q \in Proc : FrameInv(q)'
  BY <1>1, <1>3, FramesKept, Zenon DEF InTrap
<1>. QED
  BY <1>1, <1>3, <1>4, <1>7, <1>8, <1>9, <1>10, <1>11, <1>12,
     ProcessStep, Zenon DEF StatesAt, Leaving

\* wait() goes to sleep with proc_table_lock held.
LEMMA WaitSleep ==
    ASSUME IInv, NEW c \in CPU, wait_sleep(c)
    PROVE  IInv'
<1>1. PICK p \in Proc : p = stack[c] /\ p # None /\ pc[p] = "wait_scan" /\ p = initproc
  BY Running DEF wait_sleep, IInv, ProcInv
<1>2. /\ pc' = [pc EXCEPT ![p] = "wait"] /\ state' = [state EXCEPT ![p] = "SLEEPING"]
      /\ chan' = [chan EXCEPT ![p] = "cp"] /\ frames' = frames
      /\ cond' = cond /\ panicked' = panicked
      /\ stack' = stack /\ curproc' = curproc /\ loop' = loop /\ i' = i
  BY <1>1, Zenon DEF wait_sleep, Goto, cpuVars
<1>3. Keeps(c, "wait") /\ "wait" \in Label
  <2>1. "wait" \in Label /\ pc[stack[c]] = "wait_scan" /\ stack[c] # None
    BY <1>1, Zenon DEF Label, Table, Leaving
  <2>2. /\ ncli' = ncli /\ intena' = intena /\ FL_IF' = FL_IF
        /\ proc_table_lock' = proc_table_lock /\ lk' = lk
    BY Zenon DEF wait_sleep, cliVars, lockVars
  <2>3. FL_IF' \in [CPU -> BOOLEAN] /\ \A d \in CPU : FL_IF'[d] => FL_IF[d]
    BY <2>2, Zenon DEF IInv, TypeOK
  <2>. QED
    BY <2>1, <2>2, <2>3, KeepsNone DEF Table, Locked, Leaving, Returning
<1>4. state \in [Proc -> Gone \cup {"RUNNING", "UNUSED", "EMBRYO"}] /\ pc \in [Proc -> Label]
      /\ chan \in [Proc -> {"0", "cond", "cp"}]
  BY Zenon DEF IInv, TypeOK
<1>5. /\ state' \in [Proc -> Gone \cup {"RUNNING", "UNUSED", "EMBRYO"}]
      /\ state'[p] \in {"RUNNABLE", "SLEEPING"} /\ OthersWoken(p)
  BY <1>2, <1>4, Zenon DEF Gone, OthersWoken
<1>6. CondInv'
  BY <1>2, <1>4, CondKept, Zenon
<1>7. frames' \in [Proc -> Seq(Free)] /\ \A q \in Proc : FrameInv(q)'
  BY <1>1, <1>2, FramesKept, Zenon DEF InTrap
<1>8. chan' \in [Proc -> {"0", "cond", "cp"}] /\ cond' \in BOOLEAN
  BY <1>2, <1>4, Zenon DEF IInv, TypeOK
<1>. QED
  BY <1>1, <1>2, <1>3, <1>5, <1>6, <1>7, <1>8, ProcessStep, Zenon DEF StatesAt, Leaving
-----------------------------------------------------------------------------
\* A frame is pushed on the others, ...
LEMMA Pushed ==
    ASSUME NEW S, NEW s \in Seq(S), NEW e \in S
    PROVE  /\ Append(s, e) \in Seq(S) /\ Append(s, e) # << >>
           /\ s # << >> => Append(s, e)[1] = s[1]
           /\ s = << >> => Append(s, e)[1] = e
<1>1. Len(s) \in Nat /\ Len(Append(s, e)) = Len(s) + 1
  OBVIOUS
<1>2. CASE s = << >>
  BY <1>2
<1>3. CASE s # << >>
  <2>1. Len(s) > 0
    BY <1>3
  <2>2. Append(s, e)[1] = s[1]
    BY <2>1
  <2>. QED
    BY <1>1, <1>3, <2>2
<1>. QED
  BY <1>2, <1>3, Zenon

\* ... and popped again; the first one stays the first.
LEMMA Popped ==
    ASSUME NEW S, NEW s \in Seq(S), s # << >>
    PROVE  /\ s[Len(s)] \in S /\ SubSeq(s, 1, Len(s) - 1) \in Seq(S)
           /\ SubSeq(s, 1, Len(s) - 1) = << >> => s[Len(s)] = s[1]
           /\ SubSeq(s, 1, Len(s) - 1) # << >> => SubSeq(s, 1, Len(s) - 1)[1] = s[1]
<1>1. PICK n \in Nat : n = Len(s) /\ n > 0
  OBVIOUS
<1>2. s[n] \in S
  BY <1>1
<1>3. SubSeq(s, 1, n - 1) \in Seq(S) /\ Len(SubSeq(s, 1, n - 1)) = n - 1
  BY <1>1
<1>4. CASE n = 1
  <2>1. SubSeq(s, 1, n - 1) = << >>
    BY <1>3, <1>4
  <2>. QED
    BY <1>1, <1>2, <1>4, <2>1
<1>5. CASE n > 1
  <2>1. SubSeq(s, 1, n - 1) # << >>
    BY <1>3, <1>5
  <2>2. SubSeq(s, 1, n - 1)[1] = s[1]
    BY <1>1, <1>5
  <2>. QED
    BY <1>1, <1>2, <1>3, <2>1, <2>2, Zenon
<1>. QED
  BY <1>1, <1>4, <1>5

\* A timer interrupt: interrupts are on, so the code holds no lock.
LEMMA Timer ==
    ASSUME IInv, NEW c \in CPU, timer(c)
    PROVE  IInv'
<1>1. PICK p \in Proc : /\ p = stack[c] /\ p # None /\ pc[p] \in Free
                        /\ state[p] = "RUNNING"
  <2>1. stack[c] # None /\ FL_IF[c]
    BY Zenon DEF timer
  <2>2. pc[stack[c]] \notin Table /\ pc[stack[c]] \notin Locked
    BY <2>1, Running
  <2>. QED
    BY <2>1, <2>2, Running, Zenon DEF Label, Table
<1>2. /\ pc' = [pc EXCEPT ![p] = "trap"]
      /\ frames' = [frames EXCEPT ![p] = Append(frames[p], pc[p])]
      /\ state' = state /\ chan' = chan /\ cond' = cond /\ panicked' = panicked
      /\ stack' = stack /\ curproc' = curproc /\ loop' = loop /\ i' = i
  BY <1>1, Zenon DEF timer, Goto, cpuVars
<1>3. Keeps(c, "trap") /\ "trap" \in Label
  <2>1. "trap" \in Label /\ pc[stack[c]] \in Free /\ stack[c] # None
    BY <1>1, Zenon DEF Label, Free
  <2>2. /\ ncli' = ncli /\ intena' = intena
        /\ proc_table_lock' = proc_table_lock /\ lk' = lk
    BY Zenon DEF timer, lockVars
  <2>3. FL_IF' \in [CPU -> BOOLEAN] /\ \A d \in CPU : FL_IF'[d] => FL_IF[d]
    BY Zenon DEF timer, IInv, TypeOK
  <2>. QED
    BY <2>1, <2>2, <2>3, KeepsNone DEF Free, Table, Locked, Leaving, Returning
<1>4. /\ state \in [Proc -> Gone \cup {"RUNNING", "UNUSED", "EMBRYO"}] /\ pc \in [Proc -> Label]
      /\ frames \in [Proc -> Seq(Free)] /\ \A q \in Proc : FrameInv(q)
  BY Zenon DEF IInv, TypeOK
<1>5. /\ state' \in [Proc -> Gone \cup {"RUNNING", "UNUSED", "EMBRYO"}]
      /\ state'[p] = "RUNNING" /\ OthersWoken(p)
  BY <1>1, <1>2, <1>4, Zenon DEF OthersWoken
<1>6. CondInv'
  BY <1>2, CondKept, Zenon
<1>7. frames' \in [Proc -> Seq(Free)]
  BY <1>1, <1>2, <1>4
<1>8. ASSUME NEW q \in Proc PROVE FrameInv(q)'
  <2>1. CASE q = p
    <3>1. frames'[p] = Append(frames[p], pc[p]) /\ frames[p] \in Seq(Free)
      BY <1>2, <1>4, Zenon
    <3>2. /\ frames'[p] # << >>
          /\ frames[p] # << >> => frames'[p][1] = frames[p][1]
          /\ frames[p] = << >> => frames'[p][1] = pc[p]
      BY <1>1, <3>1, Pushed
    <3>3. FrameInv(p)
      BY <1>4, Zenon
    <3>. QED
      BY <2>1, <3>2, <3>3, Zenon DEF FrameInv
  <2>2. CASE q # p
    BY <1>2, <1>4, <2>2, Zenon DEF FrameInv
  <2>. QED
    BY <2>1, <2>2, Zenon
<1>9. chan' \in [Proc -> {"0", "cond", "cp"}] /\ cond' \in BOOLEAN
  BY <1>2, Zenon DEF IInv, TypeOK
<1>10. StatesAt("trap") = {"RUNNING"}
  BY Zenon DEF StatesAt, Leaving
<1>. QED
  BY <1>1, <1>2, <1>3, <1>5, <1>6, <1>7, <1>8, <1>9, <1>10, ProcessStep, Zenon

\* iret: back to code that holds no lock.
LEMMA Iret ==
    ASSUME IInv, NEW c \in CPU, iret(c)
    PROVE  IInv'
<1>1. PICK p \in Proc : /\ p = stack[c] /\ p # None /\ pc[p] = "iret"
                        /\ state[p] = "RUNNING"
  <2>1. stack[c] # None /\ pc[stack[c]] = "iret"
    BY Zenon DEF iret
  <2>. QED
    BY <2>1, Running, Zenon DEF Leaving
<1>2. /\ frames[p] \in Seq(Free) /\ frames[p] # << >>
      /\ frames[p][1] \notin InTrap
  BY <1>1, Zenon DEF IInv, TypeOK, FrameInv, InTrap
<1>3. PICK to \in Free, s \in Seq(Free) :
         /\ to = frames[p][Len(frames[p])]
         /\ s = SubSeq(frames[p], 1, Len(frames[p]) - 1)
  BY <1>2, Popped, Zenon
<1>4. /\ s = << >> => to = frames[p][1]
      /\ s # << >> => s[1] = frames[p][1]
  BY <1>2, <1>3, Popped, Zenon
<1>5. /\ pc' = [pc EXCEPT ![p] = to]
      /\ frames' = [frames EXCEPT ![p] = s]
      /\ state' = state /\ chan' = chan /\ cond' = cond /\ panicked' = panicked
      /\ stack' = stack /\ curproc' = curproc /\ loop' = loop /\ i' = i
  BY <1>1, <1>3, Zenon DEF iret, cpuVars
<1>6. Keeps(c, to) /\ to \in Label
  <2>1. to \in Label /\ pc[stack[c]] = "iret" /\ stack[c] # None
    BY <1>1, Zenon DEF Label
  <2>2. /\ ncli' = ncli /\ intena' = intena
        /\ proc_table_lock' = proc_table_lock /\ lk' = lk
    BY Zenon DEF iret, lockVars
  <2>3. FL_IF' \in [CPU -> BOOLEAN] /\ \A d \in CPU \ {c} : FL_IF'[d] => FL_IF[d]
    BY Zenon DEF iret, IInv, TypeOK
  <2>. QED
    BY <2>1, <2>2, <2>3, KeepsNone, Zenon DEF Free, Table, Locked, Leaving, Returning
<1>7. /\ state \in [Proc -> Gone \cup {"RUNNING", "UNUSED", "EMBRYO"}] /\ pc \in [Proc -> Label]
       /\ frames \in [Proc -> Seq(Free)] /\ \A q \in Proc : FrameInv(q)
  BY Zenon DEF IInv, TypeOK
<1>8. /\ state' \in [Proc -> Gone \cup {"RUNNING", "UNUSED", "EMBRYO"}]
       /\ state'[p] = "RUNNING" /\ OthersWoken(p)
  BY <1>1, <1>5, <1>7, Zenon DEF OthersWoken
<1>9. CondInv'
  BY <1>5, CondKept, Zenon
<1>10. frames' \in [Proc -> Seq(Free)]
  BY <1>5, <1>7, Zenon
<1>11. ASSUME NEW q \in Proc PROVE FrameInv(q)'
  <2>1. CASE q = p
    <3>1. frames'[p] = s /\ pc'[p] = to
      BY <1>5, <1>7, Zenon
    <3>. QED
      BY <1>2, <1>4, <2>1, <3>1, Zenon DEF FrameInv
  <2>2. CASE q # p
    BY <1>5, <1>7, <2>2, Zenon DEF FrameInv
  <2>. QED
    BY <2>1, <2>2, Zenon
<1>12. chan' \in [Proc -> {"0", "cond", "cp"}] /\ cond' \in BOOLEAN
  BY <1>5, Zenon DEF IInv, TypeOK
<1>13. StatesAt(to) = {"RUNNING"} /\ to \notin {"sleep_lk", "wait", "wait_scan"}
  BY Zenon DEF StatesAt, Leaving, Free
<1>. QED
  BY <1>1, <1>5, <1>6, <1>8, <1>9, <1>10, <1>11, <1>12, <1>13, ProcessStep, ZenonT(30)

\* fork() takes a slot that no CPU is on.
LEMMA Fork ==
    ASSUME IInv, NEW c \in CPU, fork(c)
    PROVE  IInv'
<1>. DEFINE U == {q \in Proc : state[q] = "UNUSED"}
<1>1. /\ stack[c] # None /\ pc[stack[c]] = "syscall" /\ curproc[c] = initproc
      /\ proc_table_lock = None
  BY Zenon DEF fork
<1>2. /\ stack[c] = initproc /\ initproc \in Proc /\ initproc # None /\ lk # c
      /\ ncli[c] = 0 /\ state[initproc] = "RUNNING" /\ c # None
  BY <1>1, Running DEF Table, Locked, Leaving, Returning
<1>3. PICK np \in Proc : np = Min(U) /\ state[np] = "UNUSED"
  <2>1. U # {} /\ U \subseteq Nat
    BY SchedAssumption DEF fork, Proc
  <2>2. Min(U) \in U
    BY <2>1, MinIsMember, Zenon
  <2>. QED
    BY <2>2, Zenon
<1>4. /\ state' = [state EXCEPT ![np] = "EMBRYO"]
      /\ pc' = [pc EXCEPT ![np] = "forkret", ![initproc] = "copyproc"]
      /\ frames' = [frames EXCEPT ![np] = << >>]
      /\ chan' = chan /\ cond' = cond /\ panicked' = panicked
      /\ stack' = stack /\ curproc' = curproc /\ loop' = loop /\ i' = i
      /\ ncli' = ncli /\ intena' = intena /\ FL_IF' = FL_IF
      /\ proc_table_lock' = proc_table_lock /\ lk' = lk
  BY <1>3, Zenon DEF fork, cpuVars, cliVars, lockVars
<1>5. /\ state \in [Proc -> Gone \cup {"RUNNING", "UNUSED", "EMBRYO"}] /\ pc \in [Proc -> Label]
      /\ frames \in [Proc -> Seq(Free)] /\ stack \in [CPU -> Proc \cup {None}]
  BY Zenon DEF IInv, TypeOK
<1>6. /\ np # initproc
      /\ pc'[np] = "forkret" /\ pc'[initproc] = "copyproc" /\ state'[np] = "EMBRYO"
      /\ frames'[np] = << >>
      /\ \A q \in Proc \ {np} : state'[q] = state[q] /\ frames'[q] = frames[q]
      /\ \A q \in Proc \ {np, initproc} : pc'[q] = pc[q]
  BY <1>2, <1>3, <1>4, <1>5, Zenon
<1>7. \A d \in CPU : stack[d] # np
  BY <1>1, <1>3, OnStack, SchedAssumption, Zenon
<1>8. TypeOK'
  <2>1. pc' \in [Proc -> Label] /\ state' \in [Proc -> Gone \cup {"RUNNING", "UNUSED", "EMBRYO"}]
    BY <1>4, <1>5, Zenon DEF Label, Table, Returning, Free, Gone
  <2>2. frames' \in [Proc -> Seq(Free)]
    BY <1>4, <1>5
  <2>. QED
    BY <1>4, <2>1, <2>2, Zenon DEF IInv, TypeOK
<1>9. Local(c)
  <2>1. ASSUME NEW d \in CPU \ {c}, stack[d] # None
        PROVE  pc'[stack[d]] = pc[stack[d]] /\ state'[stack[d]] = state[stack[d]]
    <3>1. stack[d] \in Proc \ {np, initproc}
      BY <1>1, <1>2, <1>7, <2>1, Running
    <3>. QED
      BY <1>6, <3>1, Zenon
  <2>. QED
    BY <1>4, <2>1, Zenon DEF Local
<1>10. \A d \in CPU \ {c} : CpuInv(d)'
  BY <1>9, OthersKept, SchedAssumption, Zenon DEF IInv
<1>11. CpuInv(c)'
  <2>1. Moves(c, initproc, "copyproc")
    <3>1. curproc'[c] = initproc /\ stack'[c] = initproc /\ loop'[c] = loop[c]
      BY <1>1, <1>2, <1>4, Zenon
    <3>2. state'[initproc] = "RUNNING"
      BY <1>2, <1>6, Zenon
    <3>. QED
      BY <1>1, <1>2, <1>4, <1>6, <3>1, <3>2
         DEF Moves, Table, Locked, Leaving, Returning, StatesAt
  <2>. QED
    BY <1>2, <2>1, MoverKept, Zenon DEF IInv
<1>12. StackInv'
  BY <1>4, Zenon DEF IInv, StackInv
<1>13. ASSUME NEW q \in Proc PROVE ProcInv(q)' /\ FrameInv(q)'
  <2>1. ProcInv(q) /\ FrameInv(q)
    BY Zenon DEF IInv
  <2>2. CASE q = np
    BY <1>6, <2>2, Zenon DEF ProcInv, FrameInv, Returning, InTrap
  <2>3. CASE q = initproc
    BY <1>2, <1>4, <1>6, <2>1, <2>3 DEF ProcInv, FrameInv, InTrap
  <2>4. CASE q \notin {np, initproc}
    BY <1>4, <1>6, <2>1, <2>4, Zenon DEF ProcInv, FrameInv
  <2>. QED
    BY <2>2, <2>3, <2>4, Zenon
<1>14. CondInv'
  BY <1>4, <1>6, CondKept, Zenon
<1>. QED
  BY <1>8, <1>10, <1>11, <1>12, <1>13, <1>14, Zenon DEF IInv

\* The new process becomes RUNNABLE without the lock: no CPU is on its stack, and
\* it is ready to start in forkret().
LEMMA ForkRunnable ==
    ASSUME IInv, NEW c \in CPU, fork_runnable(c)
    PROVE  IInv'
<1>1. PICK p \in Proc : /\ p = stack[c] /\ p # None /\ pc[p] = "copyproc"
                        /\ state[p] = "RUNNING"
  <2>1. stack[c] # None /\ pc[stack[c]] = "copyproc"
    BY Zenon DEF fork_runnable
  <2>. QED
    BY <2>1, Running, Zenon DEF Leaving
<1>2. PICK np \in Proc : /\ state[np] = "EMBRYO"
                         /\ state' = [state EXCEPT ![np] = "RUNNABLE"]
  BY Zenon DEF fork_runnable
<1>3. /\ pc' = [pc EXCEPT ![p] = "sysret"]
      /\ frames' = frames /\ chan' = chan /\ cond' = cond /\ panicked' = panicked
      /\ stack' = stack /\ curproc' = curproc /\ loop' = loop /\ i' = i
      /\ ncli' = ncli /\ intena' = intena /\ FL_IF' = FL_IF
      /\ proc_table_lock' = proc_table_lock /\ lk' = lk
  BY <1>1, Zenon DEF fork_runnable, Goto, cpuVars, cliVars, lockVars
<1>4. /\ state \in [Proc -> Gone \cup {"RUNNING", "UNUSED", "EMBRYO"}]
      /\ pc \in [Proc -> Label] /\ FL_IF \in [CPU -> BOOLEAN]
      /\ frames \in [Proc -> Seq(Free)] /\ \A q \in Proc : FrameInv(q)
      /\ chan \in [Proc -> {"0", "cond", "cp"}] /\ cond \in BOOLEAN
  BY Zenon DEF IInv, TypeOK
<1>5. Keeps(c, "sysret") /\ "sysret" \in Label
  <2>1. "sysret" \in Label /\ pc[stack[c]] = "copyproc" /\ stack[c] # None
    BY <1>1, Zenon DEF Label, Free
  <2>2. /\ ncli' = ncli /\ intena' = intena
        /\ proc_table_lock' = proc_table_lock /\ lk' = lk
    BY <1>3, Zenon
  <2>3. FL_IF' \in [CPU -> BOOLEAN] /\ \A d \in CPU : FL_IF'[d] => FL_IF[d]
    BY <1>3, <1>4, Zenon
  <2>4. {"sysret", "copyproc"} \cap (Table \cup Locked) = {}
    BY Zenon DEF Table, Locked, Leaving, Returning
  <2>. QED
    BY <2>1, <2>2, <2>3, <2>4, KeepsNone, Zenon
<1>6. \A d \in CPU : stack[d] # np
  <2>. SUFFICES ASSUME NEW d \in CPU, stack[d] = np PROVE FALSE
    BY Zenon
  <2>1. stack[d] # None /\ CpuInv(d)
    BY SchedAssumption, Zenon DEF IInv
  <2>. QED
    BY <1>2, <2>1, Zenon DEF CpuInv, StatesAt
<1>7. /\ state' \in [Proc -> Gone \cup {"RUNNING", "UNUSED", "EMBRYO"}]
      /\ state'[p] = "RUNNING" /\ state'[np] = "RUNNABLE"
      /\ \A q \in Proc \ {np} : state'[q] = state[q]
  BY <1>1, <1>2, <1>4, Zenon DEF Gone
<1>8. OthersWoken(p)
  BY <1>2, <1>3, <1>4, <1>6, <1>7, Zenon DEF OthersWoken
<1>9. CondInv'
  BY <1>2, <1>3, <1>7, CondKept, Zenon
<1>10. ASSUME NEW q \in Proc PROVE FrameInv(q)'
  BY <1>3, <1>4, Zenon DEF FrameInv, InTrap
<1>11. StatesAt("sysret") = {"RUNNING"}
  BY Zenon DEF StatesAt, Leaving
<1>. QED
  BY <1>1, <1>3, <1>4, <1>5, <1>7, <1>8, <1>9, <1>10, <1>11, ProcessStep, Zenon
-----------------------------------------------------------------------------
\* The state userinit() leaves behind.
LEMMA InitInv == Init => IInv
<1>. SUFFICES ASSUME Init PROVE IInv
  BY Zenon
<1>1. /\ \A p \in Proc : /\ state[p] \in {"RUNNABLE", "UNUSED"} /\ pc[p] = "forkret"
                         /\ frames[p] = << >>
      /\ \A c \in CPU : /\ curproc[c] = None /\ stack[c] = None /\ loop[c] = "sti"
                        /\ ncli[c] = 0 /\ c # None
  BY SchedAssumption, Zenon DEF Init
<1>2. TypeOK
  <2>1. /\ state \in [Proc -> Gone \cup {"RUNNING", "UNUSED", "EMBRYO"}]
        /\ chan \in [Proc -> {"0", "cond", "cp"}] /\ pc \in [Proc -> Label]
    BY Zenon DEF Init, Gone, Label, Table, Returning
  <2>2. frames \in [Proc -> Seq(Free)]
    BY DEF Init
  <2>3. intena \in [CPU -> BOOLEAN] /\ FL_IF \in [CPU -> BOOLEAN]
    BY Zenon DEF Init
  <2>. QED
    BY <2>1, <2>2, <2>3, Zenon DEF Init, TypeOK
<1>3. \A c \in CPU : CpuInv(c)
  BY <1>1 DEF Init, CpuInv, HoldsTable, HoldsLk
<1>4. StackInv
  BY <1>1, Zenon DEF StackInv
<1>5. \A p \in Proc : ProcInv(p) /\ FrameInv(p)
  BY <1>1, Zenon DEF ProcInv, FrameInv, Returning, InTrap
<1>6. CondInv
  BY Zenon DEF Init, CondInv
<1>. QED
  BY <1>2, <1>3, <1>4, <1>5, <1>6, Zenon DEF IInv

\* The inductive invariant holds: a CPU's place says which locks it holds, and
\* only the holder of proc_table_lock has a process on its stack that others
\* could take for one to run or to free.
THEOREM Invariant == Spec => []IInv
<1>1. IInv /\ [Next]_vars => IInv'
  <2>. SUFFICES ASSUME IInv, [Next]_vars PROVE IInv'
    BY Zenon
  <2>1. CASE UNCHANGED vars
    <3>1. /\ state' = state /\ chan' = chan /\ pc' = pc /\ frames' = frames
          /\ curproc' = curproc /\ stack' = stack /\ loop' = loop /\ i' = i
          /\ ncli' = ncli /\ intena' = intena /\ FL_IF' = FL_IF
          /\ proc_table_lock' = proc_table_lock /\ lk' = lk /\ cond' = cond
          /\ panicked' = panicked
      BY <2>1, Zenon DEF vars, procVars, cpuVars, cliVars, lockVars
    <3>. QED
      BY <3>1 DEF IInv, TypeOK, CpuInv, HoldsTable, HoldsLk, StackInv, ProcInv,
                  FrameInv, CondInv, Sleepers
  <2>2. ASSUME NEW c \in CPU, SchedulerStep(c) PROVE IInv'
    BY <2>2, SchedulerLocks, SchedulerSwtch, Zenon DEF SchedulerStep
  <2>3. ASSUME NEW c \in CPU, KernelStep(c) PROVE IInv'
    BY <2>3, SchedSwtch, Yield, PlainUnlockTable, Iret, PlainSyscall, PlainLk,
       PlainLockTable, SleepRelease, Wakeup, Fork, ForkRunnable, Exit, WaitReturn,
       WaitSleep, Zenon
       DEF KernelStep
  <2>4. ASSUME NEW c \in CPU, timer(c) \/ syscall(c) \/ device(c) PROVE IInv'
    BY <2>4, Timer, PlainSyscall, Device, Zenon
  <2>. QED
    BY <2>1, <2>2, <2>3, <2>4, Zenon DEF Next
<1>. QED
  BY <1>1, InitInv, PTL DEF Spec

\* No two CPUs are ever on the same kernel stack, and curproc names its process:
\* proc_table_lock, held across swtch(), keeps other schedulers away from a
\* process that is RUNNABLE and has not left its stack.
THEOREM OneCPUPerStackHolds == Spec => []OneCPUPerStack
<1>1. IInv => OneCPUPerStack
  BY Zenon DEF IInv, CpuInv, StackInv, OneCPUPerStack
<1>. QED
  BY <1>1, Invariant, PTL

\* wait() never frees a kernel stack that a CPU still executes on.
THEOREM StackNotFreedHolds == Spec => []StackNotFreed
<1>1. IInv => StackNotFreed
  BY Zenon DEF IInv, CpuInv, StatesAt, StackNotFreed
<1>. QED
  BY <1>1, Invariant, PTL

\* sched() never panics: whoever calls it has interrupts off, has left the state
\* RUNNING, and holds proc_table_lock and no other lock.
THEOREM NoPanicHolds == Spec => []NoPanic
<1>1. IInv => NoPanic
  BY Zenon DEF IInv, TypeOK, NoPanic
<1>. QED
  BY <1>1, Invariant, PTL

\* No wake-up is lost between the test of a condition and sleep(): nobody is
\* asleep on a condition that holds.
THEOREM NoLostWakeupHolds == Spec => []NoLostWakeup
<1>1. IInv => NoLostWakeup
  BY Zenon DEF IInv, CondInv, Sleepers, NoLostWakeup
<1>. QED
  BY <1>1, Invariant, PTL
-----------------------------------------------------------------------------
\* Steps that a user of sleep() and wakeup() does not see.
Hidden ==
    /\ lk' = lk /\ cond' = cond
    /\ lk # None => stack'[lk] = stack[lk]
    /\ \A q \in Proc : (state'[q] = "SLEEPING" /\ chan'[q] = "cond") <=>
                          (state[q] = "SLEEPING" /\ chan[q] = "cond")

\* The steps that touch neither the table nor lk are hidden.
LEMMA HiddenPlain ==
    ASSUME IInv, NEW c \in CPU,
           \/ scheduler_sti(c) \/ scheduler_acquire(c) \/ scheduler_release(c)
           \/ timer(c) \/ yield_release(c) \/ forkret(c) \/ iret(c)
           \/ syscall(c) \/ sysret(c) \/ sleep(c) \/ wait(c)
    PROVE  Hidden
<1>1. /\ lk' = lk /\ cond' = cond /\ stack' = stack
      /\ state' = state /\ chan' = chan
  BY Zenon DEF scheduler_sti, scheduler_acquire, scheduler_release, timer, yield_release,
         forkret, iret, syscall, sysret, sleep, wait, procVars, cpuVars, lockVars
<1>. QED
  BY <1>1, Zenon DEF Hidden

\* So are the scheduler's and sched()'s: a CPU in them does not hold lk.
LEMMA HiddenSwtch ==
    ASSUME IInv, NEW c \in CPU, scheduler_swtch(c) \/ sched(c)
    PROVE  Hidden
<1>1. state \in [Proc -> Gone \cup {"RUNNING", "UNUSED", "EMBRYO"}]
      /\ stack \in [CPU -> Proc \cup {None}] /\ lk \in CPU \cup {None}
  BY Zenon DEF IInv, TypeOK
<1>2. CASE scheduler_swtch(c)
  <2>1. PICK p : /\ p = Min(Runnable(c))
                 /\ state' = [state EXCEPT ![p] = "RUNNING"]
                 /\ stack' = [stack EXCEPT ![c] = p]
                 /\ chan' = chan /\ lk' = lk /\ cond' = cond
    BY <1>2, Zenon DEF scheduler_swtch, Dispatch, lockVars
  <2>2. state[p] = "RUNNABLE"
    <3>1. Runnable(c) # {} /\ i[c] \in Nat
      BY <1>2, Zenon DEF scheduler_swtch, Dispatch, IInv, TypeOK
    <3>2. Runnable(c) \subseteq Nat
      BY <3>1, SchedAssumption DEF Runnable
    <3>3. p \in Runnable(c)
      BY <2>1, <3>1, <3>2, MinIsMember, Zenon
    <3>. QED
      BY <3>3, Zenon DEF Runnable
  <2>3. lk # c
    BY <1>2, Scheduling, Zenon DEF scheduler_swtch, Dispatch
  <2>. QED
    BY <1>1, <2>1, <2>2, <2>3, Zenon DEF Hidden
<1>3. CASE sched(c)
  <2>1. stack[c] # None /\ pc[stack[c]] \in Leaving
    BY <1>3, Zenon DEF sched, Resumed, Leaving
  <2>2. lk # c
    BY <2>1, Running, Zenon DEF Locked, Leaving
  <2>3. /\ stack' = [stack EXCEPT ![c] = None] /\ state' = state /\ chan' = chan
        /\ lk' = lk /\ cond' = cond
    BY <1>3, Zenon DEF sched, lockVars
  <2>. QED
    BY <1>1, <2>2, <2>3, Zenon DEF Hidden
<1>. QED
  BY <1>2, <1>3, Zenon

\* And those that change the table, but not for the sleepers on the condition.
LEMMA HiddenTable ==
    ASSUME IInv, NEW c \in CPU,
           yield(c) \/ sleep_wakes(c) \/ fork(c) \/ fork_runnable(c) \/ exit(c)
           \/ wait_return(c) \/ wait_sleep(c)
    PROVE  Hidden
<1>1. /\ state \in [Proc -> Gone \cup {"RUNNING", "UNUSED", "EMBRYO"}]
      /\ chan \in [Proc -> {"0", "cond", "cp"}]
  BY Zenon DEF IInv, TypeOK
<1>2. lk' = lk /\ cond' = cond /\ stack' = stack
  BY Zenon DEF yield, sleep_wakes, fork, fork_runnable, exit, wait_return,
         wait_sleep, cpuVars, lockVars
<1>3. stack[c] # None
  BY Zenon DEF yield, sleep_wakes, fork, fork_runnable, exit, wait_return,
         wait_sleep
<1>4. PICK p \in Proc : p = stack[c] /\ p = curproc[c]
  BY <1>3, Running, Zenon
<1>5. pc[p] \in {"wait_scan", "trap", "slept", "syscall", "copyproc"}
  BY <1>4, Zenon DEF yield, sleep_wakes, fork, fork_runnable, exit, wait_return,
         wait_sleep
<1>6. state[p] = "RUNNING"
  <2>1. pc[stack[c]] \notin Leaving
    BY <1>4, <1>5, Zenon DEF Leaving
  <2>. QED
    BY <1>3, <1>4, <2>1, Running, ZenonT(30)
<1>7. CASE yield(c)
  <2>1. state' = [state EXCEPT ![p] = "RUNNABLE"] /\ chan' = chan
    BY <1>4, <1>7, Zenon DEF yield
  <2>. QED
    BY <1>1, <1>2, <1>6, <2>1, Zenon DEF Hidden
<1>8. CASE sleep_wakes(c)
  <2>1. state' = state /\ chan' = [chan EXCEPT ![p] = "0"]
    BY <1>4, <1>8, Zenon DEF sleep_wakes
  <2>. QED
    BY <1>1, <1>2, <1>6, <2>1, Zenon DEF Hidden
<1>9. CASE fork(c)
  <2>. DEFINE U == {q \in Proc : state[q] = "UNUSED"}
  <2>1. U # {} /\ U \subseteq Nat
    BY <1>9, SchedAssumption DEF fork, Proc
  <2>2. Min(U) \in U
    BY <2>1, MinIsMember, Zenon
  <2>3. PICK np \in Proc : np = Min(U) /\ state[np] = "UNUSED"
    BY <2>2, Zenon
  <2>4. state' = [state EXCEPT ![np] = "EMBRYO"] /\ chan' = chan
    BY <1>9, <2>3, Zenon DEF fork
  <2>. QED
    BY <1>1, <1>2, <2>3, <2>4, Zenon DEF Hidden
<1>10. CASE exit(c)
  <2>1. state' = [wakeup1("cp") EXCEPT ![p] = "ZOMBIE"] /\ chan' = chan
    BY <1>4, <1>10, Zenon DEF exit, TellParent
  <2>2. \A q \in Proc \ {p} :
           state'[q] = IF state[q] = "SLEEPING" /\ chan[q] = "cp" THEN "RUNNABLE"
                                                                  ELSE state[q]
    BY <2>1, Zenon DEF wakeup1
  <2>3. state'[p] = "ZOMBIE"
    BY <2>1, Zenon DEF wakeup1
  <2>. QED
    BY <1>2, <1>6, <2>1, <2>2, <2>3 DEF Hidden
<1>11. CASE wait_return(c)
  <2>1. p = initproc /\ chan' = [chan EXCEPT ![p] = "0"]
    <3>1. pc[p] = "wait_scan" /\ ProcInv(p)
      BY <1>4, <1>11, Zenon DEF wait_return, IInv
    <3>. QED
      BY <1>11, <3>1, Zenon DEF wait_return, ProcInv
  <2>2. \A q \in Proc : state'[q] = state[q] \/ (state'[q] = "UNUSED" /\ state[q] = "ZOMBIE")
    <3>1. CASE Zombies = {}
      BY <1>11, <3>1, Zenon DEF wait_return
    <3>2. CASE Zombies # {}
      <4>1. Zombies \subseteq Nat
        BY SchedAssumption DEF Zombies, Proc
      <4>2. PICK z \in Zombies : z = Min(Zombies)
        BY <3>2, <4>1, MinIsMember, Zenon
      <4>3. state' = [state EXCEPT ![z] = "UNUSED"]
        BY <1>11, <3>2, <4>2, Zenon DEF wait_return
      <4>. QED
        BY <1>1, <4>3, Zenon DEF Zombies
    <3>. QED
      BY <3>1, <3>2, Zenon
  <2>3. /\ \A q \in Proc \ {p} : chan'[q] = chan[q]
        /\ \A q \in Proc : state'[q] = "SLEEPING" <=> state[q] = "SLEEPING"
    BY <1>1, <2>1, <2>2, Zenon
  <2>. QED
    BY <1>2, <1>6, <2>3, Zenon DEF Hidden
<1>12. CASE wait_sleep(c)
  <2>1. p = initproc
    <3>1. pc[p] = "wait_scan" /\ ProcInv(p)
      BY <1>4, <1>12, Zenon DEF wait_sleep, IInv
    <3>. QED
      BY <3>1, Zenon DEF ProcInv
  <2>2. state' = [state EXCEPT ![p] = "SLEEPING"] /\ chan' = [chan EXCEPT ![p] = "cp"]
    BY <1>12, <2>1, Zenon DEF wait_sleep
  <2>. QED
    BY <1>1, <1>2, <1>6, <2>2, Zenon DEF Hidden
<1>13. CASE fork_runnable(c)
  <2>1. PICK np \in Proc : /\ state[np] = "EMBRYO" /\ chan' = chan
                           /\ state' = [state EXCEPT ![np] = "RUNNABLE"]
    BY <1>13, Zenon DEF fork_runnable
  <2>. QED
    BY <1>1, <1>2, <2>1, Zenon DEF Hidden
<1>. QED
  BY <1>7, <1>8, <1>9, <1>10, <1>11, <1>12, <1>13, Zenon

\* acquire(lk) lets a process in that is not asleep.
LEMMA EnterStep ==
    ASSUME IInv, NEW c \in CPU, acquire_lk(c)
    PROVE  Promise!MonNext
<1>1. stack[c] # None /\ pc[stack[c]] = "syscall"
  BY Zenon DEF acquire_lk
<1>2. PICK p \in Proc : p = stack[c] /\ state[p] = "RUNNING"
  BY <1>1, Running, Zenon DEF Leaving
<1>3. /\ lk = None /\ lk' = c /\ c # None
      /\ stack' = stack /\ state' = state /\ chan' = chan /\ cond' = cond
  BY SchedAssumption, Zenon DEF acquire_lk, cpuVars
<1>4. p \notin Sleepers /\ Sleepers' = Sleepers
  BY <1>2, <1>3, Zenon DEF Sleepers
<1>5. Promise!Enter(p)
  BY <1>2, <1>3, <1>4, Zenon DEF Promise!Enter
<1>. QED
  BY <1>5, Zenon DEF Promise!MonNext

\* A process that finds the condition true uses it up and leaves.
LEMMA ConsumeStep ==
    ASSUME IInv, NEW c \in CPU, consume(c)
    PROVE  Promise!MonNext
<1>1. stack[c] # None /\ pc[stack[c]] = "locked"
  BY Zenon DEF consume
<1>2. PICK p \in Proc : p = stack[c]
  BY <1>1, Running, Zenon
<1>3. lk = c /\ c # None
  BY <1>1, Running, SchedAssumption, Zenon DEF Locked
<1>4. /\ lk' = None /\ cond /\ cond' = FALSE
      /\ stack' = stack /\ state' = state /\ chan' = chan
  BY Zenon DEF consume, cpuVars
<1>5. Sleepers' = Sleepers
  BY <1>4, Zenon DEF Sleepers
<1>6. Promise!Consume(p)
  BY <1>2, <1>3, <1>4, <1>5, Zenon DEF Promise!Consume
<1>. QED
  BY <1>6, Zenon DEF Promise!MonNext

\* sleep() gives up lk and joins the sleepers in one step.
LEMMA WaitStep ==
    ASSUME IInv, NEW c \in CPU, sleep_release(c)
    PROVE  Promise!MonNext
<1>1. stack[c] # None /\ pc[stack[c]] = "sleep_lk"
  BY Zenon DEF sleep_release
<1>2. PICK p \in Proc : p = stack[c] /\ p = curproc[c]
  BY <1>1, Running, Zenon
<1>3. lk = c /\ c # None
  BY <1>1, Running, SchedAssumption, Zenon DEF Locked
<1>4. ~cond
  BY <1>1, Zenon DEF IInv, CpuInv
<1>5. /\ lk' = None /\ cond' = cond /\ stack' = stack
      /\ chan' = [chan EXCEPT ![p] = "cond"]
      /\ state' = [state EXCEPT ![p] = "SLEEPING"]
  BY <1>2, Zenon DEF sleep_release, cpuVars
<1>6. chan \in [Proc -> {"0", "cond", "cp"}]
      /\ state \in [Proc -> Gone \cup {"RUNNING", "UNUSED", "EMBRYO"}]
  BY Zenon DEF IInv, TypeOK
<1>7. Sleepers' = Sleepers \cup {p}
  BY <1>2, <1>5, <1>6, Zenon DEF Sleepers
<1>8. Promise!Wait(p)
  BY <1>2, <1>3, <1>4, <1>5, <1>7, Zenon DEF Promise!Wait
<1>. QED
  BY <1>8, Zenon DEF Promise!MonNext

\* wakeup(), called by a process or by an interrupt handler, empties the set.
LEMMA SignalStep ==
    ASSUME IInv, NEW c \in CPU, wakeup(c) \/ device(c)
    PROVE  Promise!MonNext
<1>1. lk' = None /\ cond' = TRUE /\ chan' = chan /\ state' = wakeup1("cond")
  BY Zenon DEF wakeup, device, lockVars
<1>2. Sleepers' = {}
  BY <1>1, Zenon DEF Sleepers, wakeup1
<1>3. Promise!Signal
  BY <1>1, <1>2, Zenon DEF Promise!Signal
<1>. QED
  BY <1>3, Zenon DEF Promise!MonNext

\* A hidden step leaves the monitor as it is.
LEMMA HiddenStep ==
    ASSUME Hidden
    PROVE  UNCHANGED Promise!monVars
<1>1. Sleepers' = Sleepers
  BY Zenon DEF Hidden, Sleepers
<1>2. (IF lk' = None THEN None ELSE stack'[lk'])
         = (IF lk = None THEN None ELSE stack[lk])
  BY Zenon DEF Hidden
<1>. QED
  BY <1>1, <1>2, Zenon DEF Hidden, Promise!monVars

\* sleep() and wakeup() keep the promise of module Monitor: for their callers,
\* giving up lk and joining the sleepers is one step, and setting the condition
\* wakes all of them, although sleep(), sched(), the scheduler and the timer
\* take many steps for it on several CPUs.
THEOREM SchedIsMonitor == Spec => MonitorSpec
<1>1. Init => Promise!MonInit
  BY Zenon DEF Init, Sleepers, Promise!MonInit
<1>2. IInv /\ [Next]_vars => [Promise!MonNext]_(Promise!monVars)
  <2>. SUFFICES ASSUME IInv, [Next]_vars
                PROVE  Promise!MonNext \/ UNCHANGED Promise!monVars
    BY Zenon
  <2>1. CASE UNCHANGED vars
    <3>1. Hidden
      BY <2>1, Zenon DEF Hidden, vars, procVars, cpuVars, lockVars
    <3>. QED
      BY <3>1, HiddenStep, Zenon
  <2>2. ASSUME NEW c \in CPU, SchedulerStep(c) \/ KernelStep(c) \/ timer(c) \/ syscall(c)
                              \/ device(c)
        PROVE  Promise!MonNext \/ Hidden
    BY <2>2, HiddenPlain, HiddenSwtch, HiddenTable,
       EnterStep, ConsumeStep, WaitStep, SignalStep, Zenon
       DEF SchedulerStep, KernelStep
  <2>. QED
    BY <2>1, <2>2, HiddenStep, Zenon DEF Next
<1>. QED
  BY <1>1, <1>2, Invariant, PTL DEF Spec, MonitorSpec, Promise!MonSpec
=============================================================================
