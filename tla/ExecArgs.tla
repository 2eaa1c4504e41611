------------------------------- MODULE ExecArgs -------------------------------
(***************************************************************************)
(* How argv travels into a new program and back into the kernel: exec lays *)
(* the strings, the pointers and main's frame out at the top of the new    *)
(* image, and sys_exec fetches an argv from user memory with the bounds    *)
(* checks of fetchint and fetchstr.  Memory is a function from byte        *)
(* addresses to cells: a character, or the first or a later byte of an int *)
(***************************************************************************)
EXTENDS Integers, Sequences, SequencesExt, TLC

CONSTANTS
    PAGE,       \* bytes in a page
    NARGV       \* NELEM(argv) in sys_exec

RoundUp(n, unit) == ((n + unit - 1) \div unit) * unit

Zero == [char |-> "NUL"]
Bytes(a, cells) == [b \in a .. a + Len(cells) - 1 |-> cells[b - a + 1]]
Word(a, v) == Bytes(a, <<[int |-> v], [rest |-> 1], [rest |-> 2], [rest |-> 3]>>)
String(a, s) == Bytes(a, Append([i \in DOMAIN s |-> [char |-> s[i]]], Zero))

(* strlen(argv[i]) + 1, summed over the arguments from i on *)
LenFrom(argv, i) == FoldLeft(LAMBDA n, s : n + Len(s) + 1, 0, SubSeq(argv, i, Len(argv)))

(* arglen, rounded to whole words *)
Arglen_unrounded(argv) == LenFrom(argv, 1)
Arglen(argv) == RoundUp(LenFrom(argv, 1), 4)

(* exec's new image for a program of "text" bytes: its size, the stack
   pointer, and the cells that exec writes above the program, the later
   stores over the earlier ones *)
exec_image(argv, text) ==
    LET argc == Len(argv)
        sz == RoundUp(text + Arglen(argv) + 4 * (argc + 1) + PAGE, PAGE)
        argp == sz - Arglen(argv) - 4 * (argc + 1)
        Pushed(i, mem) ==
            LET sp == sz - LenFrom(argv, i)
            IN Word(argp + 4 * (i - 1), sp) @@ String(sp, argv[i]) @@ mem
        args == FoldLeft(LAMBDA mem, i : Pushed(argc + 1 - i, mem),
                         Word(argp + 4 * argc, 0) @@ [b \in argp .. sz - 1 |-> Zero],
                         [i \in 1 .. argc |-> i])
    IN [sz |-> sz, esp |-> argp - 12,
        mem |-> Word(argp - 12, -1) @@ Word(argp - 8, argc)
                @@ Word(argp - 4, argp) @@ args]

(* fetchint and fetchstr, whose results sys_exec tests for < 0 *)
fetchint_ok(p, addr) == addr < p.sz /\ addr + 4 <= p.sz
fetchstr_ends(p, addr) == {s \in addr .. p.sz - 1 : p.mem[s] = Zero}
fetchstr(p, addr) ==
    LET end == CHOOSE s \in fetchstr_ends(p, addr) :
                   \A t \in fetchstr_ends(p, addr) : s <= t
    IN [i \in 1 .. end - addr |-> p.mem[addr + i - 1].char]

(* the loop of sys_exec: the argv it passes to exec, or Bad *)
Bad == <<"bad">>
RECURSIVE sys_exec(_, _, _)
sys_exec(p, uargv, argv) ==
    LET slot == uargv + 4 * Len(argv)
        uarg == p.mem[slot].int
    IN CASE Len(argv) >= NARGV \/ ~fetchint_ok(p, slot) -> Bad
         [] uarg = 0 -> argv
         [] uarg >= p.sz \/ fetchstr_ends(p, uarg) = {} -> Bad
         [] OTHER -> sys_exec(p, uargv, Append(argv, fetchstr(p, uarg)))
===============================================================================
