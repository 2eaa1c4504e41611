------------------------------- MODULE MCPipe -------------------------------
(* A pipe of two bytes whose indices wrap at four; the reader and one of the *)
(* writers may be killed.                                                    *)
EXTENDS Pipe, TLC

CONSTANTS r1, w1, w2

MCMaxN == (r1 :> 2) @@ (w1 :> 2) @@ (w2 :> 1)
=============================================================================
