-------------------------------- MODULE Pipe --------------------------------
(***************************************************************************)
(* One pipe (pipe.c) with the processes that hold its two ends.            *)
(*                                                                         *)
(* Between acquire(&p->lock) and its release a process loops over bytes;   *)
(* a turn of a loop is a step.  sleep() and wakeup() are as in module      *)
(* Monitor: giving up the lock and going to sleep is one step.  kill() of  *)
(* proc.c takes only proc_table_lock, so it may come at any time.  An end  *)
(* is closed when the last process that holds it closes it (fileclose,     *)
(* file.c); pipeclose() then runs, its last test without the lock.         *)
(***************************************************************************)
EXTENDS Integers, Sequences

CONSTANTS Reader, Writer,   \* the processes that hold the read, the write end
          Byte, PIPESIZE,
          UINT,             \* 2^32: unsigned integers wrap around there
          MaxN,             \* bound: bytes a process asks for in one call
          MayKill,          \* the processes kill() may hit
          None

Proc == Reader \cup Writer

ASSUME PipeAssumption ==
    /\ Reader \cap Writer = {} /\ Reader # {} /\ Writer # {}
    /\ None \notin Proc /\ MayKill \subseteq Proc
    /\ PIPESIZE \in Nat \ {0}
    /\ UINT \in Nat /\ UINT > PIPESIZE /\ UINT % PIPESIZE = 0
    /\ Byte # {} /\ MaxN \in [Proc -> Nat \ {0}]

VARIABLES
    readopen, writeopen, writep, readp, data,   \* struct pipe
    lock,     \* the process that holds p->lock, or None
    pc,       \* where each process is in pipe.c
    todo,     \* n - i of its call
    killed,   \* struct proc
    kfrees,   \* how often the page has been given to kfree()
    out       \* the byte piperead() delivered last

pipeVars == <<readopen, writeopen, writep, readp, data>>
vars == <<pipeVars, lock, pc, todo, killed, kfrees, out>>

\* pipealloc() has succeeded; the page holds what was in it before.
Init ==
    /\ readopen = TRUE /\ writeopen = TRUE
    /\ writep = 0 /\ readp = 0
    /\ data \in [0 .. PIPESIZE - 1 -> Byte]
    /\ lock = None
    /\ pc = [p \in Proc |-> "user"]
    /\ todo = [p \in Proc |-> 0]
    /\ killed = [p \in Proc |-> FALSE]
    /\ kfrees = 0
    /\ out \in Byte

Goto(p, to) == pc' = [pc EXCEPT ![p] = to]

Inc(x) == (x + 1) % UINT

\* wakeup(ch), while p itself goes on to another place.
wakeup(ch, p, to) ==
    pc' = [q \in Proc |-> IF q = p THEN to
                          ELSE IF pc[q] = ch THEN "acquire" ELSE pc[q]]

\* Mutant: one byte too many fits.
Full_late == writep = (readp + PIPESIZE + 1) % UINT

Full  == writep = (readp + PIPESIZE) % UINT
Empty == readp = writep
-----------------------------------------------------------------------------
\* read() or write() of n bytes; a process that was killed makes no more calls.
call(p, n) ==
    /\ pc[p] = "user" /\ ~killed[p]
    /\ todo' = [todo EXCEPT ![p] = n]
    /\ Goto(p, "acquire")
    /\ UNCHANGED <<pipeVars, lock, killed, kfrees, out>>

\* acquire(&p->lock): at the start, and in sleep() after a wake-up.
acquire(p) ==
    /\ pc[p] = "acquire" /\ lock = None
    /\ lock' = p
    /\ Goto(p, "test")
    /\ UNCHANGED <<pipeVars, todo, killed, kfrees, out>>

\* The call gives up: release() and return -1.
fails(p) ==
    /\ lock' = None
    /\ todo' = [todo EXCEPT ![p] = 0]
    /\ Goto(p, "user")
    /\ UNCHANGED <<pipeVars, killed, kfrees, out>>

\* Mutant: the wake-up is left to the next call.
returns_silently(p, ch) ==
    /\ lock' = None
    /\ todo' = [todo EXCEPT ![p] = 0]
    /\ Goto(p, "user")
    /\ UNCHANGED <<pipeVars, killed, kfrees, out>>

\* The call is done: wakeup(ch), release() and return i.
returns(p, ch) ==
    /\ lock' = None
    /\ todo' = [todo EXCEPT ![p] = 0]
    /\ wakeup(ch, p, "user")
    /\ UNCHANGED <<pipeVars, killed, kfrees, out>>

\* sleep(ch, &p->lock), once the process has decided to.
sleep(p) ==
    /\ pc[p] = "sleep"
    /\ lock' = None
    /\ Goto(p, IF p \in Reader THEN "on_readp" ELSE "on_writep")
    /\ UNCHANGED <<pipeVars, todo, killed, kfrees, out>>
-----------------------------------------------------------------------------
\* pipewrite(): a byte fits.
write_byte(p) ==
    /\ p \in Writer /\ pc[p] = "test" /\ todo[p] > 0 /\ ~Full
    /\ \E b \in Byte : data' = [data EXCEPT ![writep % PIPESIZE] = b]
    /\ writep' = Inc(writep)
    /\ todo' = [todo EXCEPT ![p] = @ - 1]
    /\ UNCHANGED <<readopen, writeopen, readp, lock, pc, killed, kfrees, out>>

\* Mutant: the loop goes on instead of returning.
write_fails_retries(p) ==
    /\ p \in Writer /\ pc[p] = "test" /\ todo[p] > 0 /\ Full
    /\ ~readopen \/ killed[p]
    /\ lock' = None
    /\ Goto(p, "acquire")
    /\ UNCHANGED <<pipeVars, todo, killed, kfrees, out>>

\* The pipe is full, and there is no point in waiting.
write_fails(p) ==
    /\ p \in Writer /\ pc[p] = "test" /\ todo[p] > 0 /\ Full
    /\ ~readopen \/ killed[p]
    /\ fails(p)

\* The pipe is full: wakeup(&p->readp), and sleep() follows.
write_full(p) ==
    /\ p \in Writer /\ pc[p] = "test" /\ todo[p] > 0 /\ Full
    /\ readopen /\ ~killed[p]
    /\ wakeup("on_readp", p, "sleep")
    /\ UNCHANGED <<pipeVars, lock, todo, killed, kfrees, out>>

write_done(p) ==
    /\ p \in Writer /\ pc[p] = "test" /\ todo[p] = 0
    /\ returns(p, "on_readp")
-----------------------------------------------------------------------------
\* piperead(): nothing to read yet.
read_fails(p) ==
    /\ p \in Reader /\ pc[p] = "test" /\ Empty /\ writeopen /\ killed[p]
    /\ fails(p)

read_empty(p) ==
    /\ p \in Reader /\ pc[p] = "test" /\ Empty /\ writeopen /\ ~killed[p]
    /\ Goto(p, "sleep")
    /\ UNCHANGED <<pipeVars, lock, todo, killed, kfrees, out>>

read_start(p) ==
    /\ p \in Reader /\ pc[p] = "test" /\ ~(Empty /\ writeopen)
    /\ Goto(p, "copy")
    /\ UNCHANGED <<pipeVars, lock, todo, killed, kfrees, out>>

read_byte(p) ==
    /\ pc[p] = "copy" /\ todo[p] > 0 /\ ~Empty
    /\ out' = data[readp % PIPESIZE]
    /\ readp' = Inc(readp)
    /\ todo' = [todo EXCEPT ![p] = @ - 1]
    /\ UNCHANGED <<readopen, writeopen, writep, data, lock, pc, killed, kfrees>>

read_done(p) ==
    /\ pc[p] = "copy" /\ (todo[p] = 0 \/ Empty)
    /\ returns(p, "on_writep")
-----------------------------------------------------------------------------
\* Where a process is from fileclose() on.
Closed == {"pipeclose", "last", "kfree", "panic", "gone"}

\* kill(): may find the process asleep, or anywhere else.
kill(p) ==
    /\ p \in MayKill /\ pc[p] \notin Closed
    /\ ~killed[p]
    /\ killed' = [killed EXCEPT ![p] = TRUE]
    /\ pc' = IF pc[p] \in {"on_readp", "on_writep"}
             THEN [pc EXCEPT ![p] = "acquire"] ELSE pc
    /\ UNCHANGED <<pipeVars, lock, todo, kfrees, out>>

\* close(), or exit(): fileclose() of one of several references, or the last.
Peers(p) == IF p \in Reader THEN Reader ELSE Writer

close(p) ==
    /\ pc[p] = "user"
    /\ Goto(p, IF \A q \in Peers(p) \ {p} : pc[q] \in Closed
               THEN "pipeclose" ELSE "gone")
    /\ UNCHANGED <<pipeVars, lock, todo, killed, kfrees, out>>

\* pipeclose(), its critical section.
pipeclose(p) ==
    /\ pc[p] = "pipeclose" /\ lock = None
    /\ IF p \in Writer
       THEN /\ writeopen' = FALSE
            /\ wakeup("on_readp", p, "last")
            /\ UNCHANGED readopen
       ELSE /\ readopen' = FALSE
            /\ wakeup("on_writep", p, "last")
            /\ UNCHANGED writeopen
    /\ UNCHANGED <<writep, readp, data, lock, todo, killed, kfrees, out>>

\* Mutant: the page is freed when the other end is still open.
last_either_end(p) ==
    /\ pc[p] = "last"
    /\ Goto(p, IF ~readopen \/ ~writeopen THEN "kfree" ELSE "gone")
    /\ UNCHANGED <<pipeVars, lock, todo, killed, kfrees, out>>

\* The test of both ends, without the lock.  Once the page has been freed it
\* holds anything at all.
last(p) ==
    /\ pc[p] = "last"
    /\ \E free \in IF kfrees = 0 THEN {~readopen /\ ~writeopen} ELSE BOOLEAN :
          Goto(p, IF free THEN "kfree" ELSE "gone")
    /\ UNCHANGED <<pipeVars, lock, todo, killed, kfrees, out>>

\* kfree(p, PAGE).  When the closer of the other end has done it before, kfree()
\* finds a free page and panics; or the page was handed out again in between,
\* and is freed under its new owner.
kfree(p) ==
    /\ pc[p] = "kfree"
    /\ kfrees' = kfrees + 1
    /\ \E to \in IF kfrees = 0 THEN {"gone"} ELSE {"panic", "gone"} : Goto(p, to)
    /\ UNCHANGED <<pipeVars, lock, todo, killed, out>>

Left(p) == pc[p] \in {"gone", "panic"}

finished == (\A p \in Proc : Left(p)) /\ UNCHANGED vars
-----------------------------------------------------------------------------
\* What a process inside a call does without further choice.
KernelStep(p) ==
    \/ acquire(p) \/ sleep(p)
    \/ write_byte(p) \/ write_fails(p) \/ write_full(p) \/ write_done(p)
    \/ read_fails(p) \/ read_empty(p) \/ read_start(p) \/ read_byte(p) \/ read_done(p)
    \/ pipeclose(p) \/ last(p) \/ kfree(p)

Next ==
    \/ finished
    \/ \E p \in Proc : KernelStep(p) \/ kill(p) \/ close(p)
                       \/ \E n \in 1 .. MaxN[p] : call(p, n)

Spec == Init /\ [][Next]_vars

\* A process in the kernel goes on, an exchange on a lock that is free again
\* and again succeeds, and every process closes its end or exits some time.
Fairness == \A p \in Proc : SF_vars(KernelStep(p)) /\ SF_vars(close(p))

FairSpec == Spec /\ Fairness
-----------------------------------------------------------------------------
\* The ring buffer with its wrapping indices is a bounded FIFO queue: readers
\* get the bytes the writers put in, each once and in that order.
Count == (writep - readp) % UINT
Queue == INSTANCE Fifo WITH
    Capacity <- PIPESIZE,
    q <- [j \in 1 .. Count |-> data[((readp + j - 1) % UINT) % PIPESIZE]]
FifoSpec == Queue!FifoSpec

\* Every read(), write() and close() returns, or is the second of two racing
\* closes, which panics: all processes are done with the pipe some time, so none
\* is left asleep in piperead() or pipewrite().
CallsReturn == <>(\A p \in Proc : Left(p))

\* No wake-up is late: when nobody is busy in the pipe, a reader sleeps because
\* there is nothing to read and a writer because there is no room, with the other
\* end open.  (One exception: a writer that was killed returns from a full pipe
\* without waking the readers.)
SleepersWait ==
    \A p \in Proc :
        /\ pc[p] = "on_readp" => \/ Empty /\ writeopen
                                 \/ lock \in Writer
                                 \/ \E w \in Writer : killed[w]
        /\ pc[p] = "on_writep" => \/ Full /\ readopen
                                  \/ lock \in Reader

\* The page is freed when nobody can use the pipe any more, and only then:
\* while a process may still touch it, but for the test at the end of
\* pipeclose(), it is not freed; whichever end is closed last, and however the
\* two closes interleave, it has been freed when all have left pipeclose(); and
\* each end frees it once at most, so that when it is freed for the second time
\* nobody is left to do it again.
PageFreed ==
    /\ kfrees > 0 => \A p \in Proc : pc[p] \in Closed \ {"pipeclose"}
    /\ (\A p \in Proc : Left(p)) => kfrees > 0
    /\ kfrees > 1 => kfrees = 2 /\ \A p \in Proc : Left(p)
=============================================================================
