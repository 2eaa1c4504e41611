------------------------------ MODULE MCBcache ------------------------------
(* More blocks than buffers, so that buffers are recycled. *)
EXTENDS Bcache, TLC

CONSTANTS p1, p2
=============================================================================
