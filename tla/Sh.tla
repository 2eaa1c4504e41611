---------------------------------- MODULE Sh ----------------------------------
(***************************************************************************)
(* The shell, sh.c: the recursive-descent parser of a command line and     *)
(* runcmd, which turns the tree into processes and wires their file        *)
(* descriptors.  A line is a sequence of characters; a char* into it is an *)
(* index, es == Len(line) + 1, where the terminating NUL is.               *)
(*                                                                         *)
(* A parser returns [ok, cmd, s]: the tree and the advanced *ps, or ~ok    *)
(* when panic() ended the process.  The constructors' malloc, and the      *)
(* fork, pipe and open of runcmd, are taken to succeed.                    *)
(***************************************************************************)
EXTENDS Integers, Sequences, FiniteSetsExt, SequencesExt

CONSTANTS
    MAXARGS,        \* size of argv[] in struct execcmd
    Letter          \* the characters words are made of

NUL == "NUL"
whitespace == {" "}
symbols == {"<", "|", ">", "&", ";", "(", ")"}

(* *s: the character at s, NUL at es *)
At(line, s) == IF s > Len(line) THEN NUL ELSE line[s]

(* the loops "while(s < es && ...) s++": the first index from s on whose
   character is outside chars *)
Span(line, s, chars) ==
    Min({t \in s .. Len(line) + 1 : t > Len(line) \/ line[t] \notin chars})

(* gettoken(ps, es, q, eq): the token, its bounds and the advanced *ps *)
gettoken(line, s) ==
    LET q == Span(line, s, whitespace)
        c == At(line, q)
        append == c = ">" /\ At(line, q + 1) = ">"
        eq == CASE c = NUL -> q
                [] append -> q + 2
                [] c \in symbols -> q + 1
                [] OTHER -> Span(line, q, Letter)
    IN [tok |-> IF append THEN "+" ELSE IF c \in Letter THEN "a" ELSE c,
        q |-> q, eq |-> eq, s |-> Span(line, eq, whitespace)]

peek(line, s, toks) == At(line, Span(line, s, whitespace)) \in toks

(* the constructors *)
execcmd(argv) == [type |-> "EXEC", argv |-> argv]
redircmd(subcmd, file, mode, fd) ==
    [type |-> "REDIR", cmd |-> subcmd, file |-> file, mode |-> mode, fd |-> fd]
pipecmd(left, right) == [type |-> "PIPE", left |-> left, right |-> right]
listcmd(left, right) == [type |-> "LIST", left |-> left, right |-> right]
backcmd(subcmd) == [type |-> "BACK", cmd |-> subcmd]

Panic == [ok |-> FALSE]
Parsed(cmd, s) == [ok |-> TRUE, cmd |-> cmd, s |-> s]

(* a counted string [q, eq) of the line *)
Counted(t) == [q |-> t.q, eq |-> t.eq]

(* the redirection a token stands for: >> opens like > *)
Redirected(cmd, tok, file) ==
    IF tok = "<" THEN redircmd(cmd, file, "O_RDONLY", 0)
                 ELSE redircmd(cmd, file, "O_WRONLY|O_CREATE", 1)

(* r goes on to Next, or panic() has ended the process *)
Then(r, Next(_)) == IF r.ok THEN Next(r) ELSE Panic

RECURSIVE parseredirs(_, _, _), parseargs(_, _, _, _), parseline(_, _), parsepipe(_, _)

(* parseredirs(cmd, ps, es): Wrap(cmd) is applied in the caller, because
   parseexec goes on adding arguments to a command that is already wrapped *)
Redirection(line, op, file, redirs) ==
    IF file.tok # "a" THEN Panic
    ELSE parseredirs(line, file.s, Append(redirs, <<op.tok, Counted(file)>>))
parseredirs(line, s, redirs) ==
    LET op == gettoken(line, s)
    IN IF peek(line, s, {"<", ">"})
       THEN Redirection(line, op, gettoken(line, op.s), redirs)
       ELSE [ok |-> TRUE, redirs |-> redirs, s |-> s]

Wrap(cmd, redirs) ==
    FoldLeft(LAMBDA c, r : Redirected(c, r[1], r[2]), cmd, redirs)

(* the while loop of parseexec, which also ends where gettoken returns 0, and
   its body on the token t *)
Argument(line, t, argv, redirs) ==
    IF t.tok # "a" \/ Len(argv) + 1 >= MAXARGS THEN Panic
    ELSE Then(parseredirs(line, t.s, redirs),
              LAMBDA r : parseargs(line, r.s, Append(argv, Counted(t)), r.redirs))
parseargs(line, s, argv, redirs) ==
    IF peek(line, s, {"|", ")", "&", ";", NUL})
    THEN Parsed(Wrap(execcmd(argv), redirs), s)
    ELSE Argument(line, gettoken(line, s), argv, redirs)

parseblock(line, s) ==
    Then(parseline(line, gettoken(line, s).s), LAMBDA body :
        IF ~peek(line, body.s, {")"}) THEN Panic
        ELSE Then(parseredirs(line, gettoken(line, body.s).s, << >>),
                  LAMBDA r : Parsed(Wrap(body.cmd, r.redirs), r.s)))

parseexec(line, s) ==
    IF peek(line, s, {"("}) THEN parseblock(line, s)
    ELSE Then(parseredirs(line, s, << >>),
              LAMBDA r : parseargs(line, r.s, << >>, r.redirs))

parsepipe(line, s) ==
    Then(parseexec(line, s), LAMBDA left :
        IF peek(line, left.s, {"|"})
        THEN Then(parsepipe(line, gettoken(line, left.s).s),
                  LAMBDA right : Parsed(pipecmd(left.cmd, right.cmd), right.s))
        ELSE left)

(* "while(peek(ps, es, "&"))": one BACK per & *)
RECURSIVE Backed(_, _)
Backed(line, r) ==
    IF r.ok /\ peek(line, r.s, {"&"})
    THEN Backed(line, Parsed(backcmd(r.cmd), gettoken(line, r.s).s))
    ELSE r

parseline_right(line, s) ==
    Then(Backed(line, parsepipe(line, s)), LAMBDA left :
        IF peek(line, left.s, {";"})
        THEN Then(Backed(line, parsepipe(line, gettoken(line, left.s).s)),
                  LAMBDA right : Parsed(listcmd(left.cmd, right.cmd), right.s))
        ELSE left)
parseline(line, s) ==
    Then(Backed(line, parsepipe(line, s)), LAMBDA left :
        IF peek(line, left.s, {";"})
        THEN Then(parseline(line, gettoken(line, left.s).s),
                  LAMBDA right : Parsed(listcmd(left.cmd, right.cmd), right.s))
        ELSE left)

(* nulterminate(cmd): the indices where a NUL is written *)
RECURSIVE nulterminate(_)
nulterminate(cmd) ==
    CASE cmd.type = "EXEC" -> {cmd.argv[i].eq : i \in DOMAIN cmd.argv}
      [] cmd.type = "REDIR" -> nulterminate(cmd.cmd) \union {cmd.file.eq}
      [] cmd.type = "BACK" -> nulterminate(cmd.cmd)
      [] OTHER -> nulterminate(cmd.left) \union nulterminate(cmd.right)

Terminated(line, cmd) ==
    [i \in DOMAIN line |-> IF i \in nulterminate(cmd) THEN NUL ELSE line[i]]

(* parsecmd(s): everything must have been consumed *)
parsecmd(line) ==
    LET r == parseline(line, 1)
    IN IF r.ok /\ Span(line, r.s, whitespace) = Len(line) + 1
       THEN [ok |-> TRUE, cmd |-> r.cmd, line |-> Terminated(line, r.cmd)]
       ELSE Panic

(* the C string that starts at q *)
CString(line, q) == SubSeq(line, q, Span(line, q, Letter \union symbols \union whitespace) - 1)

-------------------------------------------------------------------------------
(* runcmd(cmd).  A descriptor table maps the open descriptors to files;
   pipe(p), open and dup take the lowest free ones, as fdalloc does. *)

Console == <<"console">>
Lowest(ofile) == Min((0 .. Cardinality(DOMAIN ofile)) \ DOMAIN ofile)
Opened(ofile, f) == (Lowest(ofile) :> f) @@ ofile
Closed(ofile, fds) == [fd \in DOMAIN ofile \ fds |-> ofile[fd]]

(* main: "Assumes three file descriptors open." *)
RECURSIVE main_ofile(_)
main_ofile(ofile) ==
    IF Lowest(ofile) >= 3 THEN ofile ELSE main_ofile(Opened(ofile, Console))

(* The children of a PIPE: close(fd), dup(p[end]), close(p[0]), close(p[1]) *)
PipeEnd_keeps(ofile, p, fd, end) == Closed(Opened(Closed(ofile, {fd}), ofile[p[end]]), {p[end]})
PipeEnd(ofile, p, fd, end) ==
    Closed(Opened(Closed(ofile, {fd}), ofile[p[end]]), {p[0], p[1]})

(* What comes of running cmd with the descriptors ofile: a set of records,
   one for each program that is started, [runs, argv, ofile], and one for
   each shell that waits for its children, [waits, ofile].  "place" is
   where in the tree, which names a pipe. *)
RECURSIVE runcmd(_, _, _)
runcmd(cmd, ofile, place) ==
    CASE cmd.type = "EXEC" ->
           IF cmd.argv = << >> THEN {}
           ELSE {[do |-> "exec", argv |-> cmd.argv, ofile |-> ofile, place |-> place]}
      [] cmd.type = "REDIR" ->
           runcmd(cmd.cmd, Opened(Closed(ofile, {cmd.fd}), <<"file", cmd.file, cmd.mode>>), place)
      [] cmd.type = "BACK" -> runcmd(cmd.cmd, ofile, place)
      [] cmd.type = "LIST" ->
           {[do |-> "wait", argv |-> << >>, ofile |-> ofile, place |-> place]}
           \union runcmd(cmd.left, ofile, Append(place, "left"))
           \union runcmd(cmd.right, ofile, Append(place, "right"))
      [] cmd.type = "PIPE" ->
           LET p0 == Lowest(ofile)
               o1 == Opened(ofile, <<"read", place>>)
               p == (0 :> p0) @@ (1 :> Lowest(o1))
               o2 == Opened(o1, <<"write", place>>)
           IN {[do |-> "wait", argv |-> << >>, ofile |-> Closed(o2, {p[0], p[1]}), place |-> place]}
              \union runcmd(cmd.left, PipeEnd(o2, p, 1, 1), Append(place, "left"))
              \union runcmd(cmd.right, PipeEnd(o2, p, 0, 0), Append(place, "right"))
===============================================================================
