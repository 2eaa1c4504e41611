------------------------------- MODULE Programs -------------------------------
(***************************************************************************)
(* The user programs with an algorithm of their own: the shell's loop over *)
(* command lines, the exec of what a line starts, and grep's matcher.      *)
(* Each is checked against a definition of what it should compute.         *)
(***************************************************************************)
EXTENDS Sh, ExecArgs, Grep

CONSTANTS
    Lines,          \* the command lines typed at the shell
    Tables,         \* the descriptor tables the shell may be started with
    TextSizes,      \* sizes in bytes of the programs that are executed
    Patterns, Texts \* grep's arguments

VARIABLES
    ofile,          \* the shell's descriptor table
    buf,            \* its command line
    at,             \* where the shell and its child are: prompt, parsed, exited
    child,          \* the result of the child's parsecmd
    ran,            \* what runcmd started
    grep            \* the call of match that has returned: [re, text, result]
vars == <<ofile, buf, at, child, ran, grep>>

NoCall == [re |-> << >>, text |-> << >>, result |-> TRUE]

Init ==
    /\ ofile \in {main_ofile(t) : t \in Tables}
    /\ buf = << >> /\ at = "prompt" /\ child = Panic /\ ran = {} /\ grep = NoCall

(* getcmd, then the child's parsecmd(buf).  An empty buf is the end of the
   input: the shell exits, which is left out. *)
getcmd ==
    /\ at = "prompt" /\ grep = NoCall
    /\ \E line \in Lines :
          /\ line # << >>
          /\ buf' = line
          /\ child' = parsecmd(line)
          /\ at' = IF child'.ok THEN "parsed" ELSE "exited"
    /\ UNCHANGED <<ofile, ran, grep>>

(* the child's runcmd *)
run ==
    /\ at = "parsed" /\ at' = "exited"
    /\ ran' = runcmd(child.cmd, ofile, << >>)
    /\ UNCHANGED <<ofile, buf, child, grep>>

(* the shell's wait() for the child *)
reap ==
    /\ at = "exited" /\ at' = "prompt"
    /\ buf' = << >> /\ child' = Panic /\ ran' = {}
    /\ UNCHANGED <<ofile, grep>>

(* grep calls match on a line, and goes on to the next one *)
call_match ==
    /\ at = "prompt" /\ grep = NoCall
    /\ \E re \in Patterns, text \in Texts :
          grep' = [re |-> re, text |-> text, result |-> match(re, text)]
    /\ UNCHANGED <<ofile, buf, at, child, ran>>

next_line ==
    /\ grep # NoCall
    /\ grep' = NoCall
    /\ UNCHANGED <<ofile, buf, at, child, ran>>

Next == getcmd \/ run \/ reap \/ call_match \/ next_line
Spec == Init /\ [][Next]_vars

-------------------------------------------------------------------------------
(* The shell's language, by splitting a list of tokens at the separators
   that are outside parentheses. *)

(* The tokens of a line: words, >> as one, the other symbols *)
Lex(line) ==
    LET Add(st, c) ==
            LET n == Len(st.toks)
            IN CASE c = " " -> [st EXCEPT !.grows = FALSE]
                 [] c \in Letter /\ st.grows /\ st.toks[n].t = "a" ->
                        [st EXCEPT !.toks[n].w = Append(@, c)]
                 [] c = ">" /\ st.grows /\ st.toks[n].t = ">" ->
                        [toks |-> [st.toks EXCEPT ![n].t = "+"], grows |-> TRUE]
                 [] OTHER ->
                        [toks |-> Append(st.toks, [t |-> IF c \in Letter THEN "a" ELSE c,
                                                   w |-> <<c>>]),
                         grows |-> TRUE]
    IN FoldLeft(Add, [toks |-> << >>, grows |-> FALSE], line).toks

Kind(toks, k) == toks[k].t
Count(toks, n, t) == Cardinality({k \in 1 .. n : Kind(toks, k) = t})
Depth(toks, n) == Count(toks, n, "(") - Count(toks, n, ")")

(* the first place of t outside parentheses, 0 when there is none *)
FirstOuter(toks, t) ==
    LET outer == {k \in DOMAIN toks : Kind(toks, k) = t /\ Depth(toks, k) = 0}
    IN IF outer = {} THEN 0 ELSE Min(outer)

None == [type |-> "none"]
Both(type, left, right) ==
    IF left = None \/ right = None THEN None
    ELSE [type |-> type, left |-> left, right |-> right]

(* operators each followed by a word *)
IsRedirs(toks) ==
    /\ Len(toks) % 2 = 0
    /\ \A k \in DOMAIN toks :
          IF k % 2 = 1 THEN Kind(toks, k) \in {"<", ">", "+"} ELSE Kind(toks, k) = "a"

WithRedirs(cmd, toks) ==
    LET Add(c, k) == Redirected(c, Kind(toks, k), toks[k + 1].w)
    IN FoldLeft(Add, cmd, SelectSeq([k \in DOMAIN toks |-> k],
                                    LAMBDA k : Kind(toks, k) \in {"<", ">", "+"}))

(* words and redirections in any order *)
Simple(toks) ==
    LET Op(k) == k \in DOMAIN toks /\ Kind(toks, k) \in {"<", ">", "+"}
        args == SelectSeq([k \in DOMAIN toks |-> k],
                          LAMBDA k : Kind(toks, k) = "a" /\ ~Op(k - 1))
    IN IF /\ \A k \in DOMAIN toks : Kind(toks, k) = "a" \/ Op(k)
          /\ \A k \in DOMAIN toks : Op(k) => k < Len(toks) /\ ~Op(k + 1)
          /\ Len(args) < MAXARGS
       THEN WithRedirs(execcmd([k \in DOMAIN args |-> toks[args[k]].w]), toks)
       ELSE None

RECURSIVE Line(_), Pipeline(_)

Part(toks) ==
    LET close == FirstOuter(toks, ")")
        inner == Line(SubSeq(toks, 2, close - 1))
        rest == SubSeq(toks, close + 1, Len(toks))
    IN CASE toks = << >> \/ Kind(toks, 1) # "(" -> Simple(toks)
         [] close = 0 -> None
         [] OTHER -> IF inner = None \/ ~IsRedirs(rest) THEN None ELSE WithRedirs(inner, rest)

Pipeline(toks) ==
    LET bar == FirstOuter(toks, "|")
    IN IF bar = 0 THEN Part(toks)
       ELSE Both("PIPE", Part(SubSeq(toks, 1, bar - 1)),
                         Pipeline(SubSeq(toks, bar + 1, Len(toks))))

(* a pipeline followed by any number of & *)
Job(toks) ==
    LET n == Max({k \in 0 .. Len(toks) : k = 0 \/ Kind(toks, k) # "&"})
        Back(cmd, k) == backcmd(cmd)
        cmd == Pipeline(SubSeq(toks, 1, n))
    IN IF cmd = None THEN None
       ELSE FoldLeft(Back, cmd, [k \in 1 .. Len(toks) - n |-> k])

Line(toks) ==
    LET semi == FirstOuter(toks, ";")
    IN IF semi = 0 THEN Job(toks)
       ELSE Both("LIST", Job(SubSeq(toks, 1, semi - 1)),
                         Line(SubSeq(toks, semi + 1, Len(toks))))

(* the parser's tree with the C strings its pointers point at *)
RECURSIVE Words(_, _)
Words(line, cmd) ==
    CASE cmd.type = "EXEC" -> execcmd([i \in DOMAIN cmd.argv |-> CString(line, cmd.argv[i].q)])
      [] cmd.type = "REDIR" -> [cmd EXCEPT !.cmd = Words(line, @), !.file = CString(line, @.q)]
      [] cmd.type = "BACK" -> backcmd(Words(line, cmd.cmd))
      [] OTHER -> [cmd EXCEPT !.left = Words(line, @), !.right = Words(line, @)]

(* parsecmd accepts exactly the lines of the language, and the tree it builds,
   read through the NULs that nulterminate wrote into the line, is the one the
   language gives. *)
ParserMatchesGrammar ==
    at # "prompt" =>
        LET expected == Line(Lex(buf))
        IN IF child.ok THEN Words(child.line, child.cmd) = expected ELSE expected = None

-------------------------------------------------------------------------------
(* The input and the output a command should run with, whatever descriptor
   numbers pipe, dup and open returned on the way. *)
RECURSIVE Wired(_, _, _, _)
Wired(cmd, in, out, place) ==
    LET Std == (0 :> in) @@ (1 :> out) @@ (2 :> Console)
        Left == Append(place, "left")
        Right == Append(place, "right")
    IN CASE cmd.type = "EXEC" -> IF cmd.argv = << >> THEN {} ELSE {<<place, Std>>}
         [] cmd.type = "REDIR" /\ cmd.fd = 0 -> Wired(cmd.cmd, <<"file", cmd.file, cmd.mode>>, out, place)
         [] cmd.type = "REDIR" /\ cmd.fd = 1 -> Wired(cmd.cmd, in, <<"file", cmd.file, cmd.mode>>, place)
         [] cmd.type = "BACK" -> Wired(cmd.cmd, in, out, place)
         [] cmd.type = "LIST" ->
              {<<place, Std>>} \union Wired(cmd.left, in, out, Left)
                            \union Wired(cmd.right, in, out, Right)
         [] cmd.type = "PIPE" ->
              {<<place, Std>>} \union Wired(cmd.left, in, <<"write", place>>, Left)
                            \union Wired(cmd.right, <<"read", place>>, out, Right)

(* Every program runcmd starts, and every shell that waits for one, has the
   descriptors 0, 1 and 2 and no other, and they are the files the line says:
   an end of a pipe that stayed open in one of them would keep the pipe's
   reader from its end of file for ever (piperead waits while writeopen). *)
PipesWired ==
    child.ok /\ at = "exited" => {<<r.place, r.ofile>> : r \in ran} = Wired(child.cmd, Console, Console, << >>)

(* A started program finds argc and argv above its stack pointer, which is
   aligned and clear of its own text; the strings are the words of the line, and sys_exec accepts that
   very argv back (exec puts the last string's NUL in the last byte of the
   image, where fetchint's and fetchstr's bounds are). *)
ArgsPassed ==
    \A r \in ran, text \in TextSizes :
        r.do = "exec" =>
            LET argv == [i \in DOMAIN r.argv |-> CString(child.line, r.argv[i].q)]
                p == exec_image(argv, text)
            IN /\ p.esp >= text /\ p.esp % 4 = 0
               /\ p.mem[p.esp + 4].int = Len(argv)
               /\ sys_exec(p, p.mem[p.esp + 8].int, << >>) = argv

(* match finds the pattern exactly in the texts that contain a text it denotes:
   the leftmost-first search of matchstar and matchhere never misses a way to
   cut the text. *)
GrepMatches == grep.result = Denotes(grep.re, grep.text)
===============================================================================
