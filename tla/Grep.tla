--------------------------------- MODULE Grep ---------------------------------
(***************************************************************************)
(* The matcher of grep.c, and beside it what it should compute.  A regular *)
(* expression and a text are sequences of characters; the C code's tests   *)
(* for the terminating NUL are tests for the end of the sequence.          *)
(***************************************************************************)
EXTENDS Integers, Sequences

RECURSIVE matchhere(_, _), matchstar(_, _, _)

(* c*re at the beginning of text *)
matchstar_one(c, re, text) ==
    \/ matchhere(re, text)
    \/ /\ text # << >>
       /\ text[1] = c \/ c = "."
       /\ matchhere(re, Tail(text))
matchstar(c, re, text) ==
    \/ matchhere(re, text)
    \/ /\ text # << >>
       /\ text[1] = c \/ c = "."
       /\ matchstar(c, re, Tail(text))

(* re at the beginning of text *)
matchhere(re, text) ==
    CASE re = << >> -> TRUE
      [] Len(re) >= 2 /\ re[2] = "*" -> matchstar(re[1], SubSeq(re, 3, Len(re)), text)
      [] re = <<"$">> -> text = << >>
      [] OTHER -> /\ text # << >>
                  /\ re[1] = "." \/ re[1] = text[1]
                  /\ matchhere(Tail(re), Tail(text))

match(re, text) ==
    IF re # << >> /\ re[1] = "^" THEN matchhere(Tail(re), text)
    ELSE \E i \in 1 .. Len(text) + 1 : matchhere(re, SubSeq(text, i, Len(text)))

-------------------------------------------------------------------------------
(* The reference: an expression is a sequence of items, a character that is
   starred or not, between two optional anchors; it matches a text that can
   be cut so that every item covers its piece. *)

RECURSIVE Items(_)
Items(re) ==
    IF re = << >> THEN << >>
    ELSE LET star == Len(re) >= 2 /\ re[2] = "*"
         IN <<[c |-> re[1], star |-> star]>> \o Items(SubSeq(re, IF star THEN 3 ELSE 2, Len(re)))

Covers(item, piece) ==
    /\ item.star \/ Len(piece) = 1
    /\ \A k \in DOMAIN piece : item.c = "." \/ item.c = piece[k]

Denotes(re, text) ==
    LET first == re # << >> /\ re[1] = "^"
        items == Items(IF first THEN Tail(re) ELSE re)
        last == items # << >> /\ items[Len(items)] = [c |-> "$", star |-> FALSE]
        n == Len(items) - IF last THEN 1 ELSE 0
    IN \E cut \in [0 .. n -> 0 .. Len(text)] :
          /\ first => cut[0] = 0
          /\ last => cut[n] = Len(text)
          /\ \A k \in 1 .. n :
                /\ cut[k - 1] <= cut[k]
                /\ Covers(items[k], SubSeq(text, cut[k - 1] + 1, cut[k]))
===============================================================================
