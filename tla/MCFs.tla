-------------------------------- MODULE MCFs --------------------------------
(***************************************************************************)
(* Fs on a disk of 24 blocks that mkfs filled with README and echo: the    *)
(* tests of usertests.c, and pairs of short programs at once.              *)
(***************************************************************************)
EXTENDS Fs, Usertests

README == <<"README">>

MCFiles == <<[name |-> <<"README">>, data |-> <<"r">>],
             [name |-> <<"echo">>, data |-> <<"ELF">>]>>
MCImage == mkfs(MCFiles, 1)

Alone(prog) == [p \in Proc |-> IF p = 1 THEN prog ELSE <<>>]

\* ls(".") of the image.
MCEntry(inum, name, type, size) ==
  [cell |-> [inum |-> inum, name |-> name], type |-> type, nlink |-> 1,
   size |-> size]
MCEmpty == [cell |-> Zero, type |-> 0]
MCls == ls(<<".">>, 1, <<MCEntry(1, <<".">>, T_DIR, 6), MCEntry(1, <<"..">>, T_DIR, 6),
                         MCEntry(2, <<"README">>, T_FILE, 1),
                         MCEntry(3, <<"echo">>, T_FILE, 1), MCEmpty, MCEmpty>>)

\* Calls on descriptors that are closed, of the wrong mode or all in use.
Descriptors ==
  <<Creat(<<"w">>, "w", "ok"), [Read(0, 1, <<>>) EXCEPT !.want = "fail"], Close(0),
    Close(0), [Fstat(0, 0, 0, 0) EXCEPT !.want = "fail"], Pipe,
    [Fstat(0, 0, 0, 0) EXCEPT !.want = "fail"], Dup(0),
    [Dup(0) EXCEPT !.want = "fail"], [Pipe EXCEPT !.want = "fail"], Exit>>

\* The file table fills up before the descriptors of a process do.
FileTableFull ==
  LET Get(want) == <<Creat(README, "rw", want)>> IN
  Get("ok") \o Get("ok") \o Get("ok")
  \o <<Fork(<<Close(0)>> \o Get("ok") \o <<Close(1)>> \o Get("fail") \o <<Exit>>), Wait>>

\* a and b at once, after setup.
Both(setup, a, b) == setup \o <<Fork(b \o <<Exit>>)>> \o a \o <<Wait>>
Pairs(setup, progs) ==
  {Both(setup, pr[1], pr[2]) : pr \in progs \X progs}
Triples(setup, progs) ==
  {setup \o <<Fork(pr[1] \o <<Exit>>), Fork(pr[2] \o <<Exit>>)>> \o pr[3]
         \o <<Wait, Wait>> : pr \in progs \X progs \X progs}

x == <<"x">>
d == <<"d">>
dx == <<"d", "/", "x">>

\* Processes that make new names, the same or different ones, in the root
\* and in d.
Makers ==
  {<<Creat(x, "rw", "any"), Close(0)>>, <<Mknod(x, 1)>>, <<Link(README, x, "any")>>,
   <<Creat(README, "rw", "ok"), Read(0, 1, <<"r">>), Close(0)>>,
   <<Creat(dx, "rw", "ok"), Write(0, <<"a">>), Close(0)>>,
   <<Link(README, dx, "any")>>, <<Chdir(d, "ok"), Creat(<<"..", "/", "y">>, "w", "ok")>>}
RootMakers ==
  {<<Mkdir(x, "any")>>, <<Mkdir(x, "any"), Chdir(x, "any")>>,
   <<Creat(x, "w", "any")>>, <<Open(x, "r", "any"), Open(<<".">>, "r", "ok")>>}

\* Processes that remove names and use what is being removed; nothing is
\* allocated meanwhile.
Removers ==
  {<<Unlink(x, "any")>>, <<Unlink(<<"y">>, "any")>>,
   <<Open(x, "r", "any"), Unlink(x, "any"), Unlink(<<"y">>, "any"), Close(0)>>,
   <<Unlink(d, "any")>>, <<Chdir(d, "any"), Unlink(<<"..">>, "fail")>>,
   <<Link(x, <<"z">>, "any")>>, <<Link(x, <<"y">>, "any")>>,
   <<Open(d \o <<"/", "..", "/", "x">>, "rw", "any")>>,
   <<Exec(<<"d", "/", ".", "/", "..", "/", "echo">>, "any")>>}

Crowd ==
  {<<Unlink(x, "any")>>, <<Link(x, <<"z">>, "any")>>, <<Unlink(d, "any")>>}

Populate == <<Creat(x, "w", "ok"), Write(0, <<"a">>), Close(0), Mkdir(d, "ok"),
              Link(x, <<"y">>, "ok")>>

MCWorkloads ==
  {Alone(t) : t \in Tests(MAXFILE, BSIZE, NINODE) \cup {MCls, Descriptors, FileTableFull}
     \cup Pairs(<<Mkdir(d, "ok")>>, Makers) \cup Pairs(<<>>, RootMakers)
     \cup Pairs(Populate, Removers) \cup Triples(Populate, Crowd)}

\* The test createdelete with four files for each process.
MCCreateDelete == {Alone(createdelete(4))}
=============================================================================
