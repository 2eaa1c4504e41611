----------------------------- MODULE Usertests ------------------------------
(***************************************************************************)
(* The file system tests of usertests.c, init.c and ls.c, as programs for  *)
(* Fs: the system calls they make, in order, with the result that makes    *)
(* the test go on ("ok": not negative, "fail": negative, "cells": this     *)
(* data, "any": not looked at).  The loops are scaled down to the small    *)
(* disk; every loop bound is named.                                        *)
(*                                                                         *)
(* A path is a sequence of characters; a whole name stands as one          *)
(* character where only its identity matters.  The first open() returns    *)
(* descriptor 0: the console of the real tests is left out.                *)
(***************************************************************************)
EXTENDS Integers, Sequences, SequencesExt

Open(path, mode, want) ==
  [call |-> "open", path |-> path, create |-> FALSE, mode |-> mode, want |-> want]
Creat(path, mode, want) == [Open(path, mode, want) EXCEPT !.create = TRUE]
Unlink(path, want) == [call |-> "unlink", path |-> path, want |-> want]
Mkdir(path, want) == [call |-> "mkdir", path |-> path, want |-> want]
Chdir(path, want) == [call |-> "chdir", path |-> path, want |-> want]
Exec(path, want) == [call |-> "exec", path |-> path, want |-> want]
Mknod(path, major) == [call |-> "mknod", path |-> path, major |-> major, want |-> "any"]
Link(old, new, want) == [call |-> "link", path |-> old, new |-> new, want |-> want]
Close(fd) == [call |-> "close", fd |-> fd, want |-> "any"]
Dup(fd) == [call |-> "dup", fd |-> fd, want |-> "any"]
Write(fd, cells) == [call |-> "write", fd |-> fd, cells |-> cells, want |-> "cells"]
Read(fd, n, cells) ==
  [call |-> "read", fd |-> fd, n |-> n, cells |-> cells, want |-> "cells"]
Fstat(fd, type, nlink, size) ==
  [call |-> "fstat", fd |-> fd, cells |-> <<type, nlink, size>>, want |-> "cells"]
List(fd, n, names) ==
  [call |-> "read", fd |-> fd, n |-> n, names |-> names, want |-> "listing"]
Fork(child) == [call |-> "fork", child |-> child]
Exit == [call |-> "exit"]
Wait == [call |-> "wait"]
Pipe == [call |-> "pipe", want |-> "ok"]

\* The calls Body(1), ..., Body(n).
Loop(n, Body(_)) == FlattenSeq([i \in 1..n |-> Body(i)])

NWrites == 2     \* 100 rounds in writetest
NCreates == 2    \* 52 in createtest, 40 in concreate, 20 in createdelete
NBigWrites == 2  \* 20 in bigfile, 12 in twofiles
NShared == 2     \* 1000 in sharedfd
NBigDir == 7     \* 500 in bigdir: enough to need the indirect block
BIG == 100       \* sizeof(buf)

-----------------------------------------------------------------------------
opentest ==
  <<Open(<<"echo">>, "r", "ok"), Close(0), Open(<<"doesnotexist">>, "r", "fail")>>

writetest ==
  LET f == <<"small">> IN
  <<Creat(f, "rw", "ok")>>
  \o Loop(NWrites, LAMBDA i : <<Write(0, <<"a", "a">>), Write(0, <<"b", "b">>)>>)
  \o <<Close(0), Open(f, "r", "ok"),
       Read(0, BIG, Loop(NWrites, LAMBDA i : <<"a", "a", "b", "b">>)),
       Close(0), Unlink(f, "ok")>>

\* A file of maxfile blocks of bsize cells.
writetest1(maxfile, bsize) ==
  LET f == <<"big">>
      Data(i) == [k \in 1..bsize |-> i]
  IN <<Creat(f, "rw", "ok")>>
     \o Loop(maxfile, LAMBDA i : <<Write(0, Data(i))>>)
     \o <<Close(0), Open(f, "r", "ok")>>
     \o Loop(maxfile, LAMBDA i : <<Read(0, bsize, Data(i))>>)
     \o <<Read(0, bsize, <<>>), Close(0), Unlink(f, "ok")>>

createtest ==
  Loop(NCreates, LAMBDA i : <<Creat(<<"a", ToString(i)>>, "rw", "any"), Close(0)>>)
  \o Loop(NCreates, LAMBDA i : <<Unlink(<<"a", ToString(i)>>, "any")>>)

dirtest ==
  <<Mkdir(<<"dir0">>, "ok"), Chdir(<<"dir0">>, "ok"), Chdir(<<"..">>, "ok"),
    Unlink(<<"dir0">>, "ok")>>

exectest == <<Exec(<<"echo">>, "ok")>>

\* Parent and child write through one open file, whose offset they share.
sharedfd ==
  LET f == <<"sharedfd">>
      Writes(c) == Loop(NShared, LAMBDA i : <<Write(0, <<c, c>>)>>)
  IN <<Unlink(f, "any"), Creat(f, "rw", "ok"), Fork(Writes("c") \o <<Exit>>)>>
     \o Writes("p")
     \o <<Wait, Close(0), Open(f, "r", "ok"),
          [call |-> "read", fd |-> 0, n |-> BIG, want |-> "count", each |-> 2 * NShared],
          Close(0), Unlink(f, "any")>>

twofiles ==
  LET Half(f, c) == <<Creat(f, "rw", "ok")>>
                    \o Loop(NBigWrites, LAMBDA i : <<Write(0, <<c, c>>)>>)
                    \o <<Close(0)>>
      Check(f, c) == <<Open(f, "r", "any"),
                       Read(0, BIG, Loop(NBigWrites, LAMBDA i : <<c, c>>)),
                       Close(0)>>
  IN <<Unlink(<<"f1">>, "any"), Unlink(<<"f2">>, "any"),
       Fork(Half(<<"f2">>, "c") \o <<Exit>>)>>
     \o Half(<<"f1">>, "p") \o <<Wait>>
     \o Check(<<"f2">>, "c") \o Check(<<"f1">>, "p")
     \o <<Unlink(<<"f1">>, "any"), Unlink(<<"f2">>, "any")>>

\* Each of two processes creates n files and removes the lower half but the
\* first again; n is even, as 20 is.
createdelete(n) ==
  LET Half(c) == Loop(n, LAMBDA i :
        <<Creat(<<c, ToString(i - 1)>>, "rw", "ok"), Close(0)>>
        \o IF i > 1 /\ (i - 1) % 2 = 0
           THEN <<Unlink(<<c, ToString((i - 1) \div 2)>>, "ok")>> ELSE <<>>)
      Check(c, i) == IF i = 0 \/ i >= n \div 2
                     THEN <<Open(<<c, ToString(i)>>, "r", "ok"), Close(0)>>
                     ELSE <<Open(<<c, ToString(i)>>, "r", "fail")>>
  IN <<Fork(Half("c") \o <<Exit>>)>> \o Half("p") \o <<Wait>>
     \o Loop(n, LAMBDA i : Check("p", i - 1) \o Check("c", i - 1))
     \o Loop(n, LAMBDA i : <<Unlink(<<"p", ToString(i - 1)>>, "any"),
                             Unlink(<<"c", ToString(i - 1)>>, "any")>>)

unlinkread ==
  LET f == <<"unlinkread">> IN
  <<Creat(f, "rw", "ok"), Write(0, <<"h", "e", "l", "l", "o">>), Close(0),
    Open(f, "rw", "ok"), Unlink(f, "ok"),
    Creat(f, "rw", "any"), Write(1, <<"y", "y", "y">>), Close(1),
    Read(0, BIG, <<"h", "e", "l", "l", "o">>),
    Write(0, <<"h", "e", "l">>), Close(0), Unlink(f, "any")>>

linktest ==
  LET f1 == <<"lf1">>
      f2 == <<"lf2">>
      hello == <<"h", "e", "l", "l", "o">>
  IN <<Unlink(f1, "any"), Unlink(f2, "any"),
       Creat(f1, "rw", "ok"), Write(0, hello), Close(0),
       Link(f1, f2, "ok"), Unlink(f1, "any"), Open(f1, "r", "fail"),
       Open(f2, "r", "ok"), Read(0, BIG, hello), Close(0),
       Link(f2, f2, "fail"), Unlink(f2, "any"), Link(f2, f1, "fail"),
       Link(<<".">>, f1, "fail")>>

\* Parent and child create, link and remove the same name at once.
concreate ==
  LET f(i) == <<"C", ToString(i)>>
      Make(i) == <<Creat(f(i), "rw", "ok"), Close(0)>>
      LinkC0(i) == <<Link(f(0), f(i), "any")>>
      Look(i) == <<Open(f(i), "r", "any"), Close(0)>>
  IN Loop(NCreates, LAMBDA i :
       <<Unlink(f(i - 1), "any"),
         Fork((IF (i - 1) % 5 = 1 THEN LinkC0(i - 1) ELSE Make(i - 1)) \o <<Exit>>)>>
       \o (IF (i - 1) % 3 = 1 THEN LinkC0(i - 1) ELSE Make(i - 1))
       \o <<Wait>>)
     \o <<Open(<<".">>, "r", "any"),
          List(0, BIG, {f(i) : i \in 0..(NCreates - 1)}), Close(0)>>
     \o Loop(NCreates, LAMBDA i :
       <<Fork((IF (i - 1) % 3 = 0 THEN Look(i - 1) ELSE <<Unlink(f(i - 1), "any")>>)
              \o <<Exit>>)>>
       \o (IF (i - 1) % 3 = 1 THEN Look(i - 1) ELSE <<Unlink(f(i - 1), "any")>>)
       \o <<Wait>>)

bigdir ==
  LET x(i) == <<"x", ToString(i)>> IN
  <<Unlink(<<"bd">>, "any"), Creat(<<"bd">>, "r", "ok"), Close(0)>>
  \o Loop(NBigDir, LAMBDA i : <<Link(<<"bd">>, x(i), "ok")>>)
  \o <<Unlink(<<"bd">>, "any")>>
  \o Loop(NBigDir, LAMBDA i : <<Unlink(x(i), "ok")>>)

\* Writes that cross blocks, reads of half a write.
bigfile ==
  LET f == <<"bigfile">> IN
  <<Unlink(f, "any"), Creat(f, "rw", "ok")>>
  \o Loop(NBigWrites, LAMBDA i : <<Write(0, <<i, i, i, i>>)>>)
  \o <<Close(0), Open(f, "r", "ok")>>
  \o Loop(NBigWrites, LAMBDA i : <<Read(0, 2, <<i, i>>), Read(0, 2, <<i, i>>)>>)
  \o <<Read(0, 2, <<>>), Close(0), Unlink(f, "any")>>

subdir ==
  LET dd == <<"dd">>
      In(d, e) == d \o <<"/", e>>
      ddff == In(dd, "ff")
      dddd == In(dd, "dd")
      ddddff == In(dddd, "ff")
      ffff == In(dddd, "ffff")
      fff == In(ddff, "ff")
      xff == In(In(dd, "xx"), "ff")
  IN <<Unlink(<<"ff">>, "any"), Mkdir(dd, "ok"),
       Creat(ddff, "rw", "ok"), Write(0, <<"f", "f">>), Close(0),
       Unlink(dd, "fail"), Mkdir(<<"/">> \o dddd, "ok"),
       Creat(ddddff, "rw", "ok"), Write(0, <<"F", "F">>), Close(0),
       Open(In(In(dddd, ".."), "ff"), "r", "ok"), Read(0, BIG, <<"f", "f">>), Close(0),
       Link(ddddff, ffff, "ok"), Unlink(ddddff, "ok"), Open(ddddff, "r", "fail"),
       Chdir(dd, "ok"), Chdir(In(In(In(dd, ".."), ".."), "dd"), "ok"),
       Chdir(In(In(In(In(dd, ".."), ".."), ".."), "dd"), "ok"), Chdir(In(<<".">>, ".."), "ok"),
       Open(ffff, "r", "ok"), Read(0, BIG, <<"F", "F">>), Close(0),
       Open(ddddff, "r", "fail"), Creat(fff, "rw", "fail"), Creat(xff, "rw", "fail"),
       Creat(dd, "r", "fail"), Open(dd, "rw", "fail"), Open(dd, "w", "fail"),
       Link(fff, In(dddd, "xx"), "fail"), Link(xff, In(dddd, "xx"), "fail"),
       Link(ddff, ffff, "fail"),
       Mkdir(fff, "fail"), Mkdir(xff, "fail"), Mkdir(ffff, "fail"),
       Unlink(xff, "fail"), Unlink(fff, "fail"),
       Chdir(ddff, "fail"), Chdir(In(dd, "xx"), "fail"),
       Unlink(ffff, "ok"), Unlink(ddff, "ok"), Unlink(dd, "fail"),
       Unlink(dddd, "ok"), Unlink(dd, "ok")>>

\* A name of DIRSIZ characters (here 2) and the same with one more.
fourteen ==
  LET n14 == <<"1", "2">>
      n15 == <<"1", "2", "3">>
      In(d, e) == d \o <<"/">> \o e
  IN <<Mkdir(n14, "ok"), Mkdir(In(n14, n15), "ok"),
       Creat(In(In(n15, n15), n15), "r", "ok"), Close(0),
       Open(In(In(n14, n14), n14), "r", "ok"), Close(0),
       Mkdir(In(n14, n14), "fail"), Mkdir(In(n15, n14), "fail")>>

rmdot ==
  LET d == <<"dots">> IN
  <<Mkdir(d, "ok"), Chdir(d, "ok"), Unlink(<<".">>, "fail"), Unlink(<<"..">>, "fail"),
    Chdir(<<"/">>, "ok"), Unlink(d \o <<"/", ".">>, "fail"),
    Unlink(d \o <<"/", "..">>, "fail"), Unlink(d, "ok")>>

dirfile ==
  LET f == <<"dirfile">>
      xx == f \o <<"/", "xx">>
  IN <<Creat(f, "r", "ok"), Close(0), Chdir(f, "fail"),
       Open(xx, "r", "fail"), Creat(xx, "r", "fail"), Mkdir(xx, "fail"),
       Unlink(xx, "fail"), Link(<<"README">>, xx, "fail"), Unlink(f, "ok"),
       Open(<<".">>, "rw", "fail"), Open(<<".">>, "r", "any"),
       [Write(0, <<"x">>) EXCEPT !.want = "fail"], Close(0)>>

\* More rounds than there are slots in the inode cache.
iref(ninode) ==
  LET d == <<"irefd">>
      xx == <<"xx">>
  IN Loop(ninode + 1, LAMBDA i :
       <<Mkdir(d, "ok"), Chdir(d, "ok"),
         Mkdir(<<>>, "any"), Link(<<"README">>, <<>>, "any"),
         Creat(<<>>, "r", "any"), Close(0), Creat(xx, "r", "any"), Close(0),
         Unlink(xx, "any")>>)
     \o <<Chdir(<<"/">>, "any")>>

\* init.c, one round: the console, its copies, and a shell.
init_main ==
  <<Open(<<"console">>, "rw", "any"), Mknod(<<"console">>, 1),
    Open(<<"console">>, "rw", "any"), Dup(0), Dup(0),
    Fork(<<Exec(<<"sh">>, "any"), Exit>>), Wait>>

\* ulib's stat(path, &st).
stat(path, type, nlink, size) ==
  <<Open(path, "r", "ok"), Fstat(1, type, nlink, size), Close(1)>>

\* ls.c on a directory of nlink links that holds these entries, each a
\* record of the cell read and of what fstat says of the inode; an empty
\* one is skipped.
ls(path, nlink, entries) ==
  <<Open(path, "r", "ok"), Fstat(0, 1, nlink, Len(entries))>>
  \o Loop(Len(entries), LAMBDA k : LET e == entries[k] IN
       <<Read(0, 1, <<e.cell>>)>>
       \o IF e.type = 0 THEN <<>>
          ELSE stat(path \o <<"/">> \o e.cell.name, e.type, e.nlink, e.size))
  \o <<Read(0, 1, <<>>), Close(0)>>

\* main runs the tests one after the other; here each starts from a fresh
\* image.
Tests(maxfile, bsize, ninode) ==
  {opentest, writetest, writetest1(maxfile, bsize), createtest, dirtest, exectest,
   sharedfd, twofiles, unlinkread, linktest, concreate, bigdir, bigfile, subdir,
   fourteen, rmdot, dirfile, iref(ninode), init_main}
=============================================================================
