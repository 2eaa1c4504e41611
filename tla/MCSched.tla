------------------------------ MODULE MCSched ------------------------------
(* Two CPUs and three slots: init and two children that come and go. *)
EXTENDS Sched

CONSTANTS c1, c2
=============================================================================
