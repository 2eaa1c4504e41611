-------------------------------- MODULE Tty ---------------------------------
(***************************************************************************)
(* What the console promises a program that reads it: lines, in the order  *)
(* typed, each character to one reader, and control-D as end of file.      *)
(***************************************************************************)
EXTENDS Integers, Sequences

CONSTANTS
  Reader,     \* processes that read the console
  Character,  \* what is stored when typed
  Capacity    \* characters typed and not yet read

VARIABLES
  line,    \* the line being typed, which can still be edited
  cooked,  \* what was typed before it and not yet read
  got      \* for every reader what its read has been given so far

ttyVars == <<line, cooked, got>>

\* A line ends with a newline or an end of file, or where the buffer is full.
Type(c) ==
  LET l == Append(line, c)
      room == Capacity - Len(cooked) - Len(line)
  IN /\ room > 0
     /\ IF c \in {"\n", "^D"} \/ room = 1
        THEN cooked' = cooked \o l /\ line' = <<>>
        ELSE line' = l /\ UNCHANGED cooked
     /\ UNCHANGED got

Erase == line # <<>> /\ line' = SubSeq(line, 1, Len(line) - 1) /\ UNCHANGED <<cooked, got>>
EraseLine == line' = <<>> /\ UNCHANGED <<cooked, got>>

\* A reader takes characters up to the end of the line at most.
Take(p) ==
  \E k \in 1..Len(cooked) :
    /\ \A j \in 1..(k - 1) : cooked[j] # "\n"
    /\ \A j \in 1..k : cooked[j] # "^D"
    /\ got' = [got EXCEPT ![p] = @ \o SubSeq(cooked, 1, k)]
    /\ cooked' = SubSeq(cooked, k + 1, Len(cooked))
    /\ UNCHANGED line

\* An end of file is taken by a read that has been given nothing, and not
\* passed on.
TakeEof(p) ==
  /\ cooked # <<>> /\ Head(cooked) = "^D" /\ got[p] = <<>>
  /\ cooked' = Tail(cooked)
  /\ UNCHANGED <<line, got>>

Return(p) == got' = [got EXCEPT ![p] = <<>>] /\ UNCHANGED <<line, cooked>>

TtyNext ==
  \/ \E c \in Character : Type(c)
  \/ Erase \/ EraseLine
  \/ \E p \in Reader : Take(p) \/ TakeEof(p) \/ Return(p)

TtyInit == line = <<>> /\ cooked = <<>> /\ got = [p \in Reader |-> <<>>]

TtySpec == TtyInit /\ [][TtyNext]_ttyVars
=============================================================================
