------------------------------ MODULE Spinlock ------------------------------
(***************************************************************************)
(* The spin locks of spinlock.c and the interrupt flag they manage.        *)
(*                                                                         *)
(* A CPU executes one of two contexts: the code it was running ("thread")  *)
(* or, on top of it, the handler of a device interrupt ("intr").  Both     *)
(* take and give up locks.  A handler enters through an interrupt gate, so *)
(* it starts with FL_IF clear, and its iret restores the flag that was set *)
(* when it came in.  The thread may set FL_IF itself when it holds nothing *)
(* (the sti() at the head of scheduler(), proc.c).                         *)
(*                                                                         *)
(* A step is a stretch of code between two points where another CPU or an  *)
(* interrupt can make a difference.  With interrupts off only the xchg on  *)
(* lock->locked is such a point: ncli and intena belong to the CPU, and    *)
(* lock->cpu is only ever compared with the CPU that reads it.             *)
(*                                                                         *)
(* What the callers do is left open, up to the order in which they nest    *)
(* locks: wakeup() takes proc_table_lock under the lock of the caller's    *)
(* own data, never the other way round.  Rank states that order.           *)
(*                                                                         *)
(* panic() freezes every CPU: a step sets panicked when the code panics in *)
(* it, and nothing follows, so what else that step does is of no interest. *)
(***************************************************************************)
EXTENDS Naturals, FiniteSets

CONSTANTS CPU, Lock, Rank, NoLock, NoCPU,
          MaxNest   \* bound: bare pushcli() calls a context has outstanding

ASSUME SpinlockAssumption ==
    /\ NoLock \notin Lock
    /\ NoCPU \notin CPU
    /\ Rank \in [Lock -> Nat]
    /\ MaxNest \in Nat

VARIABLES
    locked,    \* struct spinlock: locked
    owner,     \* struct spinlock: cpu (NoCPU is 0xffffffff)
    ncli,      \* struct cpu: depth of pushcli nesting
    intena,    \* struct cpu: were interrupts enabled before pushcli?
    FL_IF,     \* the interrupt flag in the CPU's eflags
    level,     \* the context the CPU executes
    pc,        \* where each context is inside a call of this module
    arg,       \* the lock of that call; NoLock for a bare pushcli or popcli
    eflags,    \* pushcli's local variable
    held,      \* the locks each context has acquired and not yet released
    nest,      \* the bare pushcli calls each context has not yet undone
    base,      \* history: FL_IF as the thread itself last set it
    panicked

lockVars == <<locked, owner>>
cpuVars  == <<ncli, intena>>
ctxVars  == <<held, nest>>
vars == <<lockVars, cpuVars, FL_IF, level, pc, arg, eflags, ctxVars, base, panicked>>

Level   == {"thread", "intr"}
Context == CPU \X Level

TypeOK ==
    /\ locked \in [Lock -> BOOLEAN]
    /\ owner \in [Lock -> CPU \cup {NoCPU}]
    /\ ncli \in [CPU -> Nat]
    /\ intena \in [CPU -> BOOLEAN]
    /\ FL_IF \in [CPU -> BOOLEAN]
    /\ level \in [CPU -> Level]
    /\ pc \in [Context -> {"idle", "cli", "xchg", "popcli"}]
    /\ arg \in [Context -> Lock \cup {NoLock}]
    /\ eflags \in [Context -> BOOLEAN]
    /\ held \in [Context -> SUBSET Lock]
    /\ nest \in [Context -> 0 .. MaxNest]
    /\ base \in [CPU -> BOOLEAN]
    /\ panicked \in BOOLEAN

initlock ==
    /\ locked = [l \in Lock |-> FALSE]
    /\ owner = [l \in Lock |-> NoCPU]

\* A CPU comes out of its boot code with interrupts off.
Init ==
    /\ initlock
    /\ ncli = [c \in CPU |-> 0]
    /\ intena = [c \in CPU |-> FALSE]
    /\ FL_IF = [c \in CPU |-> FALSE]
    /\ level = [c \in CPU |-> "thread"]
    /\ pc = [x \in Context |-> "idle"]
    /\ arg = [x \in Context |-> NoLock]
    /\ eflags = [x \in Context |-> FALSE]
    /\ held = [x \in Context |-> {}]
    /\ nest = [x \in Context |-> 0]
    /\ base = [c \in CPU |-> FALSE]
    /\ panicked = FALSE

Cur(c)      == <<c, level[c]>>
Goto(c, to) == pc' = [pc EXCEPT ![Cur(c)] = to]
Quiet(x)    == pc[x] = "idle" /\ held[x] = {} /\ nest[x] = 0

holding(c, l) == locked[l] /\ owner[l] = c
-----------------------------------------------------------------------------
\* A call of acquire(), or of pushcli() alone (l = NoLock, as in curproc() and
\* setupsegs()), up to pushcli's read_eflags.
acquire(c, l) ==
    /\ pc[Cur(c)] = "idle"
    /\ IF l = NoLock THEN nest[Cur(c)] < MaxNest
                     ELSE \A m \in held[Cur(c)] : Rank[m] < Rank[l]
    /\ arg' = [arg EXCEPT ![Cur(c)] = l]
    /\ eflags' = [eflags EXCEPT ![Cur(c)] = FL_IF[c]]
    /\ Goto(c, "cli")
    /\ UNCHANGED <<lockVars, cpuVars, FL_IF, ctxVars, panicked>>

\* What is left of pushcli, given the flag its cli() leaves and whether intena
\* is recorded.
CountCli(c, flag, record) ==
    /\ pc[Cur(c)] = "cli"
    /\ FL_IF' = [FL_IF EXCEPT ![c] = flag]
    /\ intena' = IF record THEN [intena EXCEPT ![c] = eflags[Cur(c)]] ELSE intena
    /\ ncli' = [ncli EXCEPT ![c] = @ + 1]
    /\ eflags' = [eflags EXCEPT ![Cur(c)] = FALSE]
    /\ IF arg[Cur(c)] = NoLock
       THEN nest' = [nest EXCEPT ![Cur(c)] = @ + 1] /\ Goto(c, "idle")
       ELSE nest' = nest /\ Goto(c, "xchg")
    /\ UNCHANGED <<lockVars, arg, held, panicked>>

\* Mutants: the cli() is forgotten; intena is recorded by every pushcli.
pushcli_without_cli(c)  == CountCli(c, FL_IF[c], ncli[c] = 0)
pushcli_every_intena(c) == CountCli(c, FALSE, TRUE)

pushcli(c) == CountCli(c, FALSE, ncli[c] = 0)

\* Mutant: the CPU is not recorded in the lock.
RecordCPU_forgotten(c, l) == owner

RecordCPU(c, l) == [owner EXCEPT ![l] = c]

TakeLock(c, l) ==
    /\ panicked' = holding(c, l)
    /\ locked' = [locked EXCEPT ![l] = TRUE]
    /\ owner' = RecordCPU(c, l)
    /\ held' = [held EXCEPT ![Cur(c)] = @ \cup {l}]
    /\ arg' = [arg EXCEPT ![Cur(c)] = NoLock]
    /\ Goto(c, "idle")
    /\ UNCHANGED <<cpuVars, FL_IF, eflags, nest>>

\* Mutant: what xchg returns is ignored.
acquire_xchg_unchecked(c) == pc[Cur(c)] = "xchg" /\ TakeLock(c, arg[Cur(c)])

\* The rest of acquire(): its panic, or the exchange that finds the lock free.
\* The exchanges that find it taken are the spinning and change nothing.
acquire_xchg(c) ==
    /\ pc[Cur(c)] = "xchg"
    /\ locked[arg[Cur(c)]] => holding(c, arg[Cur(c)])
    /\ TakeLock(c, arg[Cur(c)])

\* release() up to its xchg; popcli follows.
release(c, l) ==
    /\ pc[Cur(c)] = "idle" /\ l \in held[Cur(c)]
    /\ panicked' = ~holding(c, l)
    /\ locked' = [locked EXCEPT ![l] = FALSE]
    /\ owner' = [owner EXCEPT ![l] = NoCPU]
    /\ held' = [held EXCEPT ![Cur(c)] = @ \ {l}]
    /\ Goto(c, "popcli")
    /\ UNCHANGED <<cpuVars, FL_IF, arg, eflags, nest>>

UndoPushcli(c) ==
    /\ pc[Cur(c)] = "idle"
    /\ nest' = [nest EXCEPT ![Cur(c)] = @ - 1]
    /\ Goto(c, "popcli")
    /\ UNCHANGED <<lockVars, cpuVars, FL_IF, arg, eflags, held, panicked>>

\* A popcli() that undoes a bare pushcli().
popcli_call(c) == nest[Cur(c)] > 0 /\ UndoPushcli(c)

UncountCli(c, enable) ==
    /\ pc[Cur(c)] = "popcli"
    /\ panicked' = (FL_IF[c] \/ ncli[c] = 0)
    /\ ncli' = [ncli EXCEPT ![c] = IF @ = 0 THEN 0 ELSE @ - 1]
    /\ FL_IF' = [FL_IF EXCEPT ![c] = @ \/ (enable /\ intena[c])]
    /\ Goto(c, "idle")
    /\ UNCHANGED <<lockVars, intena, arg, eflags, ctxVars>>

popcli(c) == UncountCli(c, ncli[c] = 1)

\* The steps of the context the CPU is executing.
ContextStep(c) ==
    /\ \/ \E l \in Lock \cup {NoLock} : acquire(c, l)
       \/ pushcli(c)
       \/ acquire_xchg(c)
       \/ \E l \in Lock : release(c, l)
       \/ popcli_call(c)
       \/ popcli(c)
    /\ UNCHANGED <<level, base>>
-----------------------------------------------------------------------------
\* sti() in scheduler().
sti(c) ==
    /\ level[c] = "thread" /\ Quiet(Cur(c))
    /\ FL_IF' = [FL_IF EXCEPT ![c] = TRUE]
    /\ base' = [base EXCEPT ![c] = TRUE]
    /\ UNCHANGED <<lockVars, cpuVars, level, pc, arg, eflags, ctxVars, panicked>>

\* The CPU takes a device interrupt, between any two steps of the thread, as
\* long as FL_IF is set.
interrupt(c) ==
    /\ level[c] = "thread" /\ FL_IF[c]
    /\ level' = [level EXCEPT ![c] = "intr"]
    /\ FL_IF' = [FL_IF EXCEPT ![c] = FALSE]
    /\ UNCHANGED <<lockVars, cpuVars, pc, arg, eflags, ctxVars, base, panicked>>

iret(c) ==
    /\ level[c] = "intr" /\ Quiet(Cur(c))
    /\ level' = [level EXCEPT ![c] = "thread"]
    /\ FL_IF' = [FL_IF EXCEPT ![c] = TRUE]
    /\ UNCHANGED <<lockVars, cpuVars, pc, arg, eflags, ctxVars, base, panicked>>

Next ==
    /\ ~panicked
    /\ \E c \in CPU : ContextStep(c) \/ sti(c) \/ interrupt(c) \/ iret(c)

Spec == Init /\ [][Next]_vars
-----------------------------------------------------------------------------
\* No two contexts, of one CPU or of two, are between the acquire() and the
\* release() of the same lock.
MutualExclusion ==
    \A x, y \in Context : x # y => held[x] \cap held[y] = {}

\* A CPU takes no interrupt while the code it runs holds a lock: otherwise the
\* handler could spin for ever on a lock its own CPU holds (acquire, pushcli).
NoInterruptWhileHolding ==
    \A c \in CPU, v \in Level : held[<<c, v>>] # {} => ~FL_IF[c]

\* None of the panics of acquire(), release() and popcli() is ever reached,
\* whatever the interleaving with the other CPUs and the interrupts.
NoPanic == ~panicked

\* A thread that has released every lock and undone every pushcli() has the
\* interrupt flag it started from: pushcli/popcli "are matched", and "if
\* interrupts are off, then pushcli, popcli leaves them off" (spinlock.c).
CliMatched ==
    \A c \in CPU : level[c] = "thread" /\ Quiet(Cur(c)) => FL_IF[c] = base[c]
=============================================================================
