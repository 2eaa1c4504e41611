------------------------------ MODULE Console -------------------------------
(***************************************************************************)
(* Console input: the keyboard (kbd.c), the interrupt handler that edits   *)
(* the line (console_intr) and the processes that read it (console_read).  *)
(*                                                                         *)
(* input.lock protects the buffer.  A critical section is one step, but    *)
(* for sleep(): between the test of cp->killed and the switch away kill()  *)
(* may come, which takes another lock.                                     *)
(*                                                                         *)
(* Keys stand for their scan codes, letters for their class: "x" is any    *)
(* letter.  Shift and Caps Lock choose between letters, which the console  *)
(* treats alike, and are left out; so is echo and other output.            *)
(***************************************************************************)
EXTENDS Integers, Sequences

CONSTANTS
  Reader,     \* processes that read the console
  INPUT_BUF,  \* size of the buffer
  UINT,       \* 2^32: unsigned integers wrap around there
  Key,        \* keys on the keyboard
  N           \* for every reader how many characters its reads ask for

ASSUME ConsoleAssumption ==
  /\ INPUT_BUF \in Nat \ {0} /\ N \in [Reader -> Nat \ {0}]
  /\ UINT \in Nat /\ UINT > INPUT_BUF /\ UINT % INPUT_BUF = 0

VARIABLES
  shift,    \* the modifiers, as a set of bits
  input,    \* buf, r, w and e
  reader,   \* per process: pc, n (still wanted), got (stored so far)
  killed    \* struct proc

vars == <<shift, input, reader, killed>>

-----------------------------------------------------------------------------
(* The keyboard.  A scan code says that a key was pressed or released;
   the escape byte 0xE0 stands as a key of its own. *)

Code == (Key \X {"press", "release"}) \cup {<<"E0", "press">>}

Letter == {"d", "h", "p", "u"}

\* The modifier a key sets while it is down, with or without E0: there are
\* two control keys.
shiftcode(key) == IF key = "ctl" THEN {"CTL"} ELSE {}

\* "0" is NO.  After E0 there is the Enter of the keypad and no letter.
normalmap(key, esc) ==
  CASE key = "enter" -> "\n"
    [] key \in Letter /\ ~esc -> "x"
    [] OTHER -> "0"

ctlmap(key, esc) ==
  CASE key = "enter" -> "\r"
    [] key \in Letter /\ ~esc -> [d |-> "^D", h |-> "^H", p |-> "^P", u |-> "^U"][key]
    [] OTHER -> "0"

charcode(mods, key, esc) ==
  IF "CTL" \in mods THEN ctlmap(key, esc) ELSE normalmap(key, esc)

\* kbd_getc: the character (or "0") and the modifiers after a scan code.
kbd_getc(code) ==
  LET key == code[1]
      esc == "E0ESC" \in shift
      s == (shift \ {"E0ESC"}) \cup shiftcode(key)
  IN CASE key = "E0" -> [c |-> "0", shift |-> shift \cup {"E0ESC"}]
       [] key # "E0" /\ code[2] = "release" ->
            [c |-> "0", shift |-> shift \ (shiftcode(key) \cup {"E0ESC"})]
       [] OTHER -> [c |-> charcode(s, key, esc), shift |-> s]

-----------------------------------------------------------------------------
(* The line *)

Index(k) == k % INPUT_BUF
Diff(j, k) == (j - k) % UINT

\* The characters from index j up to k.
Between(j, k) == [i \in 1..Diff(k, j) |-> input.buf[Index(j + i - 1)]]

\* Cells that are in no line any more are of no account; the model clears
\* them.
Tidy(in) ==
  [in EXCEPT !.buf = [k \in DOMAIN @ |->
     IF \E i \in 1..Diff(in.e, in.r) : Index(in.r + i - 1) = k THEN @[k] ELSE "0"]]

Asleep == {p \in Reader : reader[p].pc = "asleep"}

\* wakeup(&input.r)
Woken_nobody(r) == r
Woken(r) == [p \in Reader |-> IF r[p].pc = "asleep" THEN [r[p] EXCEPT !.pc = "read"]
                              ELSE r[p]]

\* Nobody is on the way into sleep(), where input.lock is still held.
Unlocked == \A p \in Reader : reader[p].pc # "sleep"

\* There is room for one more character.
Room_one_more == Diff(input.e, input.r) <= INPUT_BUF
Room == Diff(input.e, input.r) < INPUT_BUF

\* The line is complete: with c stored, and e the index after it.
Complete(c, e) == c \in {"\n", "^D"} \/ e = (input.r + INPUT_BUF) % UINT

\* A round of console_intr's loop.
console_intr ==
  \E code \in Code :
    LET k == kbd_getc(code)
        c == k.c
        e1 == (input.e + 1) % UINT
        empty == input.e = input.w
    IN /\ Unlocked
       /\ shift' = k.shift
       /\ CASE c = "^U" ->
                input' = Tidy([input EXCEPT !.e = input.w]) /\ UNCHANGED reader
            [] c = "^H" ->
                /\ input' = IF empty THEN input
                            ELSE Tidy([input EXCEPT !.e = Diff(@, 1)])
                /\ UNCHANGED reader
            [] c \notin {"0", "^P", "^U", "^H"} /\ Room ->
                /\ input' = [input EXCEPT !.buf[Index(input.e)] = c, !.e = e1,
                               !.w = IF Complete(c, e1) THEN e1 ELSE @]
                /\ reader' = IF Complete(c, e1) THEN Woken(reader) ELSE reader
            [] OTHER -> UNCHANGED <<input, reader>>
       /\ UNCHANGED killed

-----------------------------------------------------------------------------
(* Readers *)

Idle == [pc |-> "user", n |-> 0, got |-> <<>>]

\* read(fd, dst, N[p]) of the console.
call(p) ==
  /\ reader[p].pc = "user"
  /\ reader' = [reader EXCEPT ![p] = [Idle EXCEPT !.pc = "read", !.n = N[p]]]
  /\ UNCHANGED <<shift, input, killed>>

\* The loop of console_read looks at k characters: up to the n-th, a newline or
\* an end of file, or until there are no more.
console_read(p) ==
  LET avail == Between(input.r, input.w)
      n == reader[p].n
      stops(j) == j = n \/ avail[j] \in {"\n", "^D"}
  IN /\ reader[p].pc = "read" /\ Unlocked
     /\ \E k \in 0..Len(avail) :
          LET stopped == k > 0 /\ stops(k)
              eof == stopped /\ avail[k] = "^D"
              taken == IF eof THEN k - 1 ELSE k
              got == reader[p].got \o SubSeq(avail, 1, taken)
              \* The end of file is left for the next read if there is
              \* something to return.
              used == IF eof /\ got # <<>> THEN k - 1 ELSE k
          IN /\ \A j \in 1..(k - 1) : ~stops(j)
             /\ stopped \/ k = Len(avail)
             /\ input' = Tidy([input EXCEPT !.r = (@ + used) % UINT])
             /\ reader' = [reader EXCEPT ![p] =
                  [n |-> n - taken, got |-> got,
                   pc |-> IF stopped \/ killed[p] THEN "return" ELSE "sleep"]]
     /\ UNCHANGED <<shift, killed>>

\* sleep(&input.r, &input.lock)
sleep(p) ==
  /\ reader[p].pc = "sleep"
  /\ reader' = [reader EXCEPT ![p].pc = "asleep"]
  /\ UNCHANGED <<shift, input, killed>>

\* The read returns to the program; a killed process exits, and another
\* takes its place.
return(p) ==
  /\ reader[p].pc = "return"
  /\ reader' = [reader EXCEPT ![p] = Idle]
  /\ killed' = [killed EXCEPT ![p] = FALSE]
  /\ UNCHANGED <<shift, input>>

\* kill makes a sleeping process runnable.
kill(p) ==
  /\ reader[p].pc # "user" /\ ~killed[p]
  /\ killed' = [killed EXCEPT ![p] = TRUE]
  /\ reader' = [reader EXCEPT ![p].pc = IF @ = "asleep" THEN "read" ELSE @]
  /\ UNCHANGED <<shift, input>>

-----------------------------------------------------------------------------
\* The index r may start anywhere: it has counted all characters so far.
Init ==
  /\ shift = {}
  /\ \E r \in 0..(UINT - 1) :
       input = [buf |-> [k \in 0..(INPUT_BUF - 1) |-> "0"], r |-> r, w |-> r, e |-> r]
  /\ reader = [p \in Reader |-> Idle]
  /\ killed = [p \in Reader |-> FALSE]

Next ==
  \/ console_intr
  \/ \E p \in Reader : call(p) \/ console_read(p) \/ sleep(p) \/ return(p) \/ kill(p)

Spec == Init /\ [][Next]_vars

-----------------------------------------------------------------------------
(* Properties *)

T == INSTANCE Tty WITH
       line <- Between(input.w, input.e),
       cooked <- Between(input.r, input.w),
       got <- [p \in Reader |-> reader[p].got],
       Character <- {"x", "\n", "\r", "^D"},
       Capacity <- INPUT_BUF

\* console_intr and console_read implement the line discipline of module
\* Tty: nothing typed is lost, doubled or reordered while there is room,
\* editing stays within the line, a read gets one line at most, and the
\* indices may wrap around.
TtySpec == T!TtySpec

\* A process sleeps in console_read only while there is no complete line,
\* and then the buffer has room to type the rest of one.
SleepersHaveReason ==
  Asleep # {} => input.r = input.w /\ Room
=============================================================================
