----------------------------- MODULE MCConsole ------------------------------
(***************************************************************************)
(* Console with a reader of single characters, as gets() is, and one that  *)
(* reads two at a time.                                                    *)
(***************************************************************************)
EXTENDS Console

MCN == <<1, 2>>
=============================================================================
