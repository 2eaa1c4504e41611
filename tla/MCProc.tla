------------------------------- MODULE MCProc -------------------------------
(* Three slots on two CPUs while memory may run out: init, a child and a     *)
(* grandchild, and a fourth pid for a slot that is taken a second time.      *)
EXTENDS Proc
=============================================================================
