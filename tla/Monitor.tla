------------------------------ MODULE Monitor ------------------------------
(***************************************************************************)
(* What sleep() and wakeup() promise their callers: a lock, a condition it *)
(* protects, and a set of processes waiting for it, where giving up the    *)
(* lock and joining the set is one step ("Atomically release lock and      *)
(* sleep on chan", proc.c) and setting the condition empties the set.      *)
(* Sched implements this; the models of the pipe and of the buffer cache   *)
(* use it.                                                                 *)
(***************************************************************************)
CONSTANTS Process, None

VARIABLES holder,   \* the process that holds the lock, or None
          cond,     \* the condition
          waiting   \* the processes asleep on the channel

monVars == <<holder, cond, waiting>>

MonInit == holder = None /\ cond = FALSE /\ waiting = {}

Enter(p) ==
    /\ holder = None /\ p \notin waiting
    /\ holder' = p
    /\ UNCHANGED <<cond, waiting>>

\* The condition holds: the process uses it up and leaves.
Consume(p) ==
    /\ holder = p /\ cond
    /\ holder' = None /\ cond' = FALSE
    /\ UNCHANGED waiting

\* It does not hold: the process leaves the lock and waits, at once.
Wait(p) ==
    /\ holder = p /\ ~cond
    /\ holder' = None /\ waiting' = waiting \cup {p}
    /\ UNCHANGED cond

\* The condition is set by a process inside, or by an interrupt handler that
\* takes and gives up the lock in between.
Signal ==
    /\ holder' = None /\ cond' = TRUE /\ waiting' = {}

MonNext == Signal \/ \E p \in Process : Enter(p) \/ Consume(p) \/ Wait(p)

MonSpec == MonInit /\ [][MonNext]_monVars
=============================================================================
