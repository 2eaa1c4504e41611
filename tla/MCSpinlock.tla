---------------------------- MODULE MCSpinlock ----------------------------
(* Two CPUs, proc_table_lock and a lock that is held while it is taken. *)
EXTENDS Spinlock, TLC

CONSTANTS c1, c2, ide_lock, proc_table_lock

MCRank == (ide_lock :> 0) @@ (proc_table_lock :> 1)
=============================================================================
