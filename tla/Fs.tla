--------------------------------- MODULE Fs ---------------------------------
(***************************************************************************)
(* The file system calls: sysfile.c over the file table (file.c) and the   *)
(* inode cache (fs.c), run by processes that interleave.                   *)
(*                                                                         *)
(* A process runs a program, a sequence of system calls.  ilock() waits    *)
(* for I_BUSY to clear and sleeps meanwhile, so other processes run while  *)
(* an inode is locked.  A step runs from one point where another process   *)
(* can be noticed to the next: taking an inode lock, allocating or         *)
(* freeing an inode, dropping a reference.  What a process does under a    *)
(* lock up to there, and the unlocking itself, belong to the step.         *)
(*                                                                         *)
(* proc[p].work holds what is left of the epilogue of a call: the iunlock  *)
(* and iput calls still to come, in order.                                 *)
(***************************************************************************)
EXTENDS FsDisk

CONSTANTS
  Proc,      \* processes
  NOFILE,    \* descriptors of a process
  NFILE,     \* entries of the file table
  NINODE,    \* slots of the inode cache
  Image,     \* the disk mkfs made
  Workloads  \* functions from Proc to programs

VARIABLES
  disk,      \* what is on the disk (through the buffer cache)
  icache,    \* icache.inode: for every inode number its slot, if any
  file,      \* file[]: the file table
  proc,      \* per process: cwd, ofile and where it is in its program
  panicked,  \* panic() was called
  oops       \* a call did not do what the program expects of it

vars == <<disk, icache, file, proc, panicked, oops>>

FD == 0..(NOFILE - 1)
None == -1

\* A slot is found by its inode number; no number has two slots.
NoSlot == [ref |-> 0, busy |-> FALSE, valid |-> FALSE, copy |-> Dinode(0, 0)]

Closed == [type |-> "FD_CLOSED", ref |-> 0, ip |-> 0, off |-> 0,
           readable |-> FALSE, writable |-> FALSE]

Unused == [state |-> "UNUSED", prog |-> <<>>, pc |-> "user", work |-> <<>>,
           path |-> <<>>, name |-> <<>>, ip |-> 0, dp |-> 0, k |-> "user",
           cwd |-> 0, ofile |-> [fd \in FD |-> None]]

\* A process that starts a program in the root directory.
Started(prog) ==
  IF prog = <<>> THEN Unused
  ELSE [Unused EXCEPT !.state = "RUNNING", !.prog = prog, !.cwd = ROOTINO]

Init ==
  /\ disk = Image
  /\ file = [f \in 1..NFILE |-> Closed]
  /\ \E w \in Workloads : proc = [p \in Proc |-> Started(w[p])]
  /\ icache = [i \in Inum |->
       IF i = ROOTINO
       THEN [NoSlot EXCEPT !.ref =
               Cardinality({p \in Proc : proc[p].state = "RUNNING"})]
       ELSE NoSlot]
  /\ panicked = FALSE
  /\ oops = FALSE

-----------------------------------------------------------------------------
(* The inode cache *)

\* What ilock leaves in the slot: the copy on the disk, unless it is valid.
Copy(i) == IF icache[i].valid THEN icache[i].copy ELSE disk.inode[i]
St(i) == [d |-> disk, x |-> Copy(i), i |-> i]

CanLock_always(i) == TRUE
CanLock(i) == ~icache[i].busy

\* ilock panics when the inode it reads in is free.
ReadsFree(i) == ~icache[i].valid /\ disk.inode[i].type = 0

\* The slot after a critical section that leaves the copy x.
Slot(i, x, busy) ==
  [icache EXCEPT ![i].valid = TRUE, ![i].copy = x, ![i].busy = busy]

\* iget, on the slots ic.
iget(ic, i) ==
  [ic EXCEPT ![i] = IF @.ref > 0 THEN [@ EXCEPT !.ref = @ + 1]
                    ELSE [NoSlot EXCEPT !.ref = 1]]

\* iget finds no slot and panics.
NoInodes(ic, i) ==
  ic[i].ref = 0 /\ Cardinality({j \in Inum : ic[j].ref > 0}) >= NINODE

idup(ic, i) == [ic EXCEPT ![i].ref = @ + 1]

\* ialloc takes the first inode that is free on the disk, and clears it.
FreeInode(d) == Min({i \in Inum : d.inode[i].type = 0})
ialloc(d, type) == [d EXCEPT !.inode[FreeInode(d)] = Dinode(type, 0)]

\* The last reference gone, the slot is empty.
Unref(slot) ==
  IF slot.ref = 1 THEN NoSlot ELSE [slot EXCEPT !.ref = @ - 1]

unlock(i) == [op |-> "iunlock", ip |-> i]
put(i) == [op |-> "iput", ip |-> i]
iunlockput(i) == <<unlock(i), put(i)>>

\* iput finds that this was the last reference to an inode without links.
LastUse_one_link(i) ==
  icache[i].ref = 1 /\ icache[i].valid /\ icache[i].copy.nlink <= 1
LastUse(i) ==
  icache[i].ref = 1 /\ icache[i].valid /\ icache[i].copy.nlink = 0

-----------------------------------------------------------------------------
(* Steps of a process *)

Call(p) == Head(proc[p].prog)

\* p is at pc, with nothing of an earlier step left to do.
At(p, pc) ==
  /\ ~panicked
  /\ proc[p].state = "RUNNING" /\ proc[p].pc = pc /\ proc[p].work = <<>>

Calls(p, name) ==
  At(p, "user") /\ proc[p].prog # <<>> /\ Call(p).call = name

Update(p, r) == proc' = [proc EXCEPT ![p] = r @@ @]

\* Did the call return what the program wants?  A listing has every one of
\* the names once; a count wants as many bytes of one kind as of the other.
Wanted(c, ok, cells) ==
  CASE c.want = "any" -> TRUE
    [] c.want = "ok" -> ok
    [] c.want = "fail" -> ~ok
    [] c.want = "cells" -> ok /\ cells = c.cells
    [] c.want = "listing" -> \A name \in c.names :
         Cardinality({k \in DOMAIN cells :
           cells[k] # Zero /\ cells[k].name = name}) = 1
    [] c.want = "count" -> \A b \in {"c", "p"} :
         Len(SelectSeq(cells, LAMBDA x : x = b)) = c.each

Returned == [pc |-> "user", path |-> <<>>, name |-> <<>>, ip |-> 0, dp |-> 0,
             k |-> "user"]

\* The call returns, once the work is done, with r of p changed.
ReturnWith(p, r, ok, cells, work) ==
  /\ Update(p, r @@ [prog |-> Tail(proc[p].prog), work |-> work] @@ Returned)
  /\ oops' = (oops \/ ~Wanted(Call(p), ok, cells))

Return(p, ok, work) == ReturnWith(p, << >>, ok, <<>>, work)

\* iunlock and iput, the work left.  iput of a last reference truncates and
\* frees the inode with the slot busy and icache.lock released; only then
\* is the reference dropped ("idrop").
DoWork(p) ==
  /\ ~panicked
  /\ proc[p].work # <<>>
  /\ LET w == Head(proc[p].work)
         i == w.ip
         rest == Tail(proc[p].work)
         freed == itrunc([d |-> disk, x |-> icache[i].copy, i |-> i])
         gone == iupdate([freed EXCEPT !.x.type = 0])
     IN CASE w.op = "iunlock" ->
               /\ icache' = [icache EXCEPT ![i].busy = FALSE]
               /\ Update(p, [work |-> rest])
               /\ UNCHANGED <<disk, panicked>>
          [] w.op = "iput" /\ LastUse(i) ->
               /\ panicked' = (icache[i].busy \/ ~(DataBlocks(St(i)) \subseteq disk.used))
               /\ disk' = gone.d
               /\ icache' = [icache EXCEPT ![i].busy = TRUE, ![i].copy = gone.x]
               /\ Update(p, [work |-> <<[op |-> "idrop", ip |-> i]>> \o rest])
          [] w.op = "iput" /\ ~LastUse(i) ->
               /\ icache' = [icache EXCEPT ![i] = Unref(@)]
               /\ Update(p, [work |-> rest])
               /\ UNCHANGED <<disk, panicked>>
          [] w.op = "idrop" ->
               /\ icache' = [icache EXCEPT ![i] = Unref([@ EXCEPT !.busy = FALSE])]
               /\ Update(p, [work |-> rest])
               /\ UNCHANGED <<disk, panicked>>
  /\ UNCHANGED <<file, oops>>

-----------------------------------------------------------------------------
(* Path names *)

\* nameiparent() rather than namei(): stop one level early.
Parent(k) == k \in {"create", "unlink", "link2"}

\* Where _namei starts: the root, or the working directory.
Start(p, path) == IF path # <<>> /\ path[1] = "/" THEN ROOTINO ELSE proc[p].cwd

\* A call that takes a path looks it up first; k says what comes next.
Lookup(p) ==
  /\ At(p, "user") /\ proc[p].prog # <<>>
  /\ Call(p).call \in {"open", "mkdir", "mknod", "unlink", "link", "chdir", "exec"}
  /\ LET c == Call(p)
         i == Start(p, c.path)
         k == CASE c.call \in {"mkdir", "mknod"} -> "create"
                [] c.call = "open" -> IF c.create THEN "create" ELSE "open"
                [] OTHER -> c.call
     IN /\ icache' = iget(icache, i)
        /\ panicked' = NoInodes(icache, i)
        /\ Update(p, [pc |-> "walk", path |-> c.path, ip |-> i, k |-> k])
  /\ UNCHANGED <<disk, file, oops>>

\* One round of _namei's loop, from ilock to iunlock, or its end.
Walk(p) ==
  /\ At(p, "walk")
  /\ LET i == proc[p].ip
         st == St(i)
         e == skipelem(proc[p].path)
         k == proc[p].k
         found == st.x.type = T_DIR /\ Matches(st, e.name) # {}
         next == dirlookup(st, e.name)
         unlocked == Slot(i, st.x, FALSE)
         stop == [pc |-> k, ip |-> 0, work |-> <<put(i)>>]
     IN IF NoElem(proc[p].path)
        THEN /\ Update(p, IF Parent(k) THEN stop ELSE [pc |-> k])
             /\ UNCHANGED <<icache, panicked>>
        ELSE /\ CanLock(i)
             /\ CASE st.x.type # T_DIR ->
                       icache' = unlocked /\ Update(p, stop)
                  [] st.x.type = T_DIR /\ Parent(k) /\ e.rest = <<>> ->
                       /\ icache' = unlocked
                       /\ Update(p, [pc |-> k, name |-> e.name])
                  [] st.x.type = T_DIR /\ ~(Parent(k) /\ e.rest = <<>>) /\ ~found ->
                       icache' = unlocked /\ Update(p, stop)
                  [] OTHER ->
                       /\ icache' = iget(unlocked, next)
                       /\ Update(p, [ip |-> next, path |-> e.rest,
                                     work |-> <<put(i)>>])
             /\ panicked' = (ReadsFree(i) \/ (found /\ NoInodes(unlocked, next)))
  /\ UNCHANGED <<disk, file, oops>>

\* The path was not found.
NotFound(p) ==
  /\ \E k \in {"open", "create", "unlink", "link", "chdir", "exec"} : At(p, k)
  /\ proc[p].ip = 0
  /\ Return(p, FALSE, <<>>)
  /\ UNCHANGED <<disk, icache, file, panicked>>

\* A handler continues with the inode it found, and locks it.
Locks(p, pc) == At(p, pc) /\ proc[p].ip # 0 /\ CanLock(proc[p].ip)

-----------------------------------------------------------------------------
(* open, mkdir, mknod *)

FreeFile == {f \in 1..NFILE : file[f].type = "FD_CLOSED"}
FreeFd(p) == {fd \in FD : proc[p].ofile[fd] = None}

\* The end of sys_open, with inode i locked and x its copy.  The table of
\* descriptors full, fileclose is called on a file of type FD_NONE, for
\* which it panics.
OpenFile(p, i, x) ==
  LET c == Call(p)
      f == Min(FreeFile)
  IN /\ icache' = Slot(i, x, FALSE)
     /\ panicked' = (ReadsFree(i) \/ (FreeFile # {} /\ FreeFd(p) = {}))
     /\ IF FreeFile = {} \/ FreeFd(p) = {}
        THEN Return(p, FALSE, <<put(i)>>) /\ UNCHANGED file
        ELSE /\ file' = [file EXCEPT ![f] =
                  [type |-> "FD_INODE", ref |-> 1, ip |-> i, off |-> 0,
                   readable |-> c.mode # "w", writable |-> c.mode # "r"]]
             /\ ReturnWith(p, [ofile |-> [proc[p].ofile EXCEPT
                                 ![Min(FreeFd(p))] = f]], TRUE, <<>>, <<>>)

\* Unlocks i and fails.
Refuse(p, i) ==
  /\ icache' = Slot(i, Copy(i), FALSE)
  /\ panicked' = ReadsFree(i)
  /\ Return(p, FALSE, <<put(i)>>)
  /\ UNCHANGED file

sys_open(p) ==
  /\ Locks(p, "open")
  /\ LET i == proc[p].ip
     IN IF Copy(i).type = T_DIR /\ Call(p).mode # "r"
        THEN Refuse(p, i)
        ELSE OpenFile(p, i, Copy(i))
  /\ UNCHANGED disk

\* create, up to the lock on the inode: dp is locked.  An existing file is
\* taken if the call allows it; else an inode is allocated, and dp stays
\* locked.
create(p) ==
  /\ Locks(p, "create")
  /\ LET i == proc[p].ip
         st == St(i)
         c == Call(p)
         type == CASE c.call = "open" -> T_FILE
                   [] c.call = "mkdir" -> T_DIR
                   [] c.call = "mknod" -> T_DEV
         exists == c.call = "open" /\ Matches(st, proc[p].name) # {}
         ip == IF exists THEN dirlookup(st, proc[p].name) ELSE FreeInode(disk)
         ic == Slot(i, st.x, ~exists)
     IN /\ icache' = iget(ic, ip)
        /\ panicked' = (ReadsFree(i) \/ NoInodes(ic, ip))
        /\ IF exists
           THEN /\ Update(p, [pc |-> "exists", ip |-> ip, work |-> <<put(i)>>])
                /\ UNCHANGED disk
           ELSE /\ Update(p, [pc |-> "fill", ip |-> ip, dp |-> i])
                /\ disk' = ialloc(disk, type)
  /\ UNCHANGED <<file, oops>>

create_exists(p) ==
  /\ Locks(p, "exists")
  /\ LET i == proc[p].ip
     IN IF Copy(i).type # T_FILE \/ Copy(i).major # 0
        THEN Refuse(p, i)
        ELSE OpenFile(p, i, Copy(i))
  /\ UNCHANGED disk

\* The rest of create, with the new inode locked: its entry in dp, and . and
\* .. of a directory.  If the name is there by now, the inode is given up.
create_fill(p) ==
  /\ Locks(p, "fill")
  /\ LET c == Call(p)
         i == proc[p].ip
         dp == proc[p].dp
         name == proc[p].name
         isdir == c.call = "mkdir"
         s == iupdate([St(i) EXCEPT !.x.nlink = 1, !.x.major =
                         IF c.call = "mknod" THEN c.major ELSE 0])
         sd == [d |-> s.d, x |-> Copy(dp), i |-> dp]
         taken == Matches(sd, name) # {}
         linked == dirlink(sd, name, i)
         sp == IF isdir THEN iupdate([linked EXCEPT !.x.nlink = @ + 1])
               ELSE linked
         dots == LET e == [s EXCEPT !.d = sp.d]
                 IN IF isdir
                    THEN dirlink(dirlink(e, <<".">>, i), <<"..">>, dp)
                    ELSE e
     IN IF taken
        THEN /\ icache' = Slot(i, [s.x EXCEPT !.nlink = 0], FALSE)
             /\ disk' = s.d
             /\ panicked' = (ReadsFree(i) \/ NoInodes(icache, dirlookup(sd, name)))
             /\ Return(p, FALSE, <<put(i)>> \o iunlockput(dp))
        ELSE /\ icache' = [icache EXCEPT
                  ![dp].copy = sp.x, ![dp].busy = FALSE,
                  ![i].copy = dots.x, ![i].valid = TRUE, ![i].busy = TRUE]
             /\ disk' = dots.d
             /\ panicked' = (ReadsFree(i) \/ (isdir /\ s.x.type # T_DIR))
             /\ IF c.call = "open"
                THEN /\ Update(p, [pc |-> "opened", dp |-> 0,
                                   work |-> <<put(dp)>>])
                     /\ UNCHANGED oops
                ELSE Return(p, TRUE, <<put(dp)>> \o iunlockput(i))
  /\ UNCHANGED file

\* sys_open after create, which returned the inode locked.
create_opened(p) ==
  /\ At(p, "opened")
  /\ OpenFile(p, proc[p].ip, Copy(proc[p].ip))
  /\ UNCHANGED disk

-----------------------------------------------------------------------------
(* unlink, link, chdir *)

\* "." and ".." cannot be unlinked.
IsDots_none(name) == FALSE
IsDots(name) == name \in {<<".">>, <<"..">>}

\* dp is locked and stays so if the name is there.
sys_unlink(p) ==
  /\ Locks(p, "unlink")
  /\ LET i == proc[p].ip
         st == St(i)
         name == proc[p].name
         ip == dirlookup(st, name)
         ic == Slot(i, st.x, TRUE)
     IN IF IsDots(name) \/ Matches(st, name) = {}
        THEN Refuse(p, i)
        ELSE /\ icache' = iget(ic, ip)
             /\ panicked' = (ReadsFree(i) \/ NoInodes(ic, ip))
             /\ Update(p, [pc |-> "unlink_entry", dp |-> i, ip |-> ip])
             /\ UNCHANGED <<file, oops>>
  /\ UNCHANGED disk

\* ip is locked too.  The entry is cleared and dp unlocked.
unlink_entry(p) ==
  /\ Locks(p, "unlink_entry")
  /\ LET i == proc[p].ip
         dp == proc[p].dp
         off == Min(Matches(St(dp), proc[p].name))
         sd == writei(St(dp), off, <<Zero>>)
     IN /\ panicked' = (ReadsFree(i) \/ Copy(i).nlink < 1)
        /\ IF Copy(i).type = T_DIR /\ ~isdirempty(St(i))
           THEN /\ icache' = Slot(i, Copy(i), FALSE)
                /\ Return(p, FALSE, <<put(i)>> \o iunlockput(dp))
                /\ UNCHANGED disk
           ELSE /\ icache' = [Slot(i, Copy(i), TRUE) EXCEPT
                                ![dp].busy = FALSE, ![dp].copy = sd.x]
                /\ disk' = sd.d
                /\ Update(p, [pc |-> "unlink_nlink", dp |-> 0,
                              work |-> <<put(dp)>>])
                /\ UNCHANGED oops
  /\ UNCHANGED file

\* Changes nlink by n, in memory and on the disk.
Relink_in_memory(i, n) == [St(i) EXCEPT !.x.nlink = @ + n]
Relink(i, n) == iupdate([St(i) EXCEPT !.x.nlink = @ + n])

\* ip is still locked.
unlink_nlink(p) ==
  /\ At(p, "unlink_nlink")
  /\ LET i == proc[p].ip
         s == Relink(i, -1)
     IN /\ disk' = s.d
        /\ icache' = Slot(i, s.x, FALSE)
        /\ Return(p, TRUE, <<put(i)>>)
  /\ UNCHANGED <<file, panicked>>

\* The old file gets its link first; then the new path is looked up, with
\* the inode unlocked but referenced (dp holds it).
sys_link(p) ==
  /\ Locks(p, "link")
  /\ LET i == proc[p].ip
         s == Relink(i, 1)
         path == Call(p).new
         ic == Slot(i, s.x, FALSE)
     IN IF Copy(i).type = T_DIR
        THEN Refuse(p, i) /\ UNCHANGED disk
        ELSE /\ disk' = s.d
             /\ icache' = iget(ic, Start(p, path))
             /\ panicked' = (ReadsFree(i) \/ NoInodes(ic, Start(p, path)))
             /\ Update(p, [pc |-> "walk", path |-> path, k |-> "link2",
                           dp |-> i, ip |-> Start(p, path)])
             /\ UNCHANGED <<file, oops>>

\* The entry is made, or the link is taken back (link_bad).
link_entry(p) ==
  /\ At(p, "link2")
  /\ proc[p].ip # 0 => CanLock(proc[p].ip)
  /\ LET i == proc[p].ip
         name == proc[p].name
         bad == [pc |-> "link_bad", ip |-> 0]
         taken == Matches(St(i), name) # {}
         s == dirlink(St(i), name, proc[p].dp)
     IN IF i = 0
        THEN Update(p, bad) /\ UNCHANGED <<icache, disk, panicked, oops>>
        ELSE /\ panicked' = (ReadsFree(i) \/ (taken /\ NoInodes(icache, dirlookup(St(i), name))))
             /\ IF taken
                THEN /\ icache' = Slot(i, Copy(i), FALSE)
                     /\ Update(p, [work |-> <<put(i)>>] @@ bad)
                     /\ UNCHANGED <<disk, oops>>
                ELSE /\ icache' = Slot(i, s.x, FALSE)
                     /\ disk' = s.d
                     /\ Return(p, TRUE, <<put(i), put(proc[p].dp)>>)
  /\ UNCHANGED file

link_bad(p) ==
  /\ At(p, "link_bad") /\ CanLock(proc[p].dp)
  /\ LET i == proc[p].dp
         s == Relink(i, -1)
     IN /\ disk' = s.d
        /\ icache' = Slot(i, s.x, FALSE)
        /\ Return(p, FALSE, <<put(i)>>)
  /\ UNCHANGED <<file, panicked>>

\* exec reads the file under the inode lock; what it does to memory is in
\* Kalloc.  The descriptors stay as they are.
exec(p) ==
  /\ Locks(p, "exec")
  /\ LET i == proc[p].ip
         elf == readi(St(i), 0, 1) = <<"ELF">>
     IN /\ icache' = Slot(i, Copy(i), FALSE)
        /\ panicked' = ReadsFree(i)
        /\ Return(p, elf, <<put(i)>>)
  /\ UNCHANGED <<disk, file>>

sys_chdir(p) ==
  /\ Locks(p, "chdir")
  /\ LET i == proc[p].ip
     IN IF Copy(i).type # T_DIR
        THEN Refuse(p, i)
        ELSE /\ icache' = Slot(i, Copy(i), FALSE)
             /\ panicked' = ReadsFree(i)
             /\ ReturnWith(p, [cwd |-> i], TRUE, <<>>, <<put(proc[p].cwd)>>)
             /\ UNCHANGED file
  /\ UNCHANGED disk

-----------------------------------------------------------------------------
(* Descriptors *)

\* argfd: the file behind the descriptor of the call, if there is one.
HasFd(p) == Call(p).fd \in FD /\ proc[p].ofile[Call(p).fd] # None
File(p) == proc[p].ofile[Call(p).fd]

\* A call on a bad descriptor, or one the file is not open for.
BadFd(p) ==
  /\ \E c \in {"read", "write", "fstat", "dup", "close"} : Calls(p, c)
  /\ \/ ~HasFd(p)
     \/ HasFd(p) /\ Call(p).call = "read" /\ ~file[File(p)].readable
     \/ HasFd(p) /\ Call(p).call = "write" /\ ~file[File(p)].writable
     \/ HasFd(p) /\ Call(p).call = "fstat" /\ file[File(p)].type # "FD_INODE"
     \/ HasFd(p) /\ Call(p).call = "dup" /\ FreeFd(p) = {}
  /\ Return(p, FALSE, <<>>)
  /\ UNCHANGED <<disk, icache, file, panicked>>

\* A call on an inode file, whose lock it takes.
OnInode(p, c) ==
  /\ Calls(p, c) /\ HasFd(p)
  /\ file[File(p)].type = "FD_INODE" /\ CanLock(file[File(p)].ip)

\* The program reads and writes files and directories here; pipes and the
\* console are the modules Pipe and Console.
NotDevice(p) == Copy(file[File(p)].ip).type # T_DEV

\* The offset is shared by all descriptors of the file; the inode lock
\* covers it.
fileread(p) ==
  /\ OnInode(p, "read") /\ file[File(p)].readable /\ NotDevice(p)
  /\ LET f == file[File(p)]
         cells == readi(St(f.ip), f.off, Call(p).n)
     IN /\ icache' = Slot(f.ip, Copy(f.ip), FALSE)
        /\ panicked' = ReadsFree(f.ip)
        /\ IF f.off > Copy(f.ip).size
           THEN Return(p, FALSE, <<>>) /\ UNCHANGED file
           ELSE /\ file' = [file EXCEPT ![File(p)].off = @ + Len(cells)]
                /\ ReturnWith(p, << >>, TRUE, cells, <<>>)
  /\ UNCHANGED disk

filewrite(p) ==
  /\ OnInode(p, "write") /\ file[File(p)].writable /\ NotDevice(p)
  /\ LET f == file[File(p)]
         n == Writable(f.off, Len(Call(p).cells))
         s == writei(St(f.ip), f.off, Call(p).cells)
     IN /\ icache' = Slot(f.ip, s.x, FALSE)
        /\ disk' = s.d
        /\ panicked' = ReadsFree(f.ip)
        /\ file' = [file EXCEPT ![File(p)].off = @ + n]
        /\ ReturnWith(p, << >>, TRUE, SubSeq(Call(p).cells, 1, n), <<>>)

\* fstat gives type, links and size.
stati(x) == <<x.type, x.nlink, x.size>>
filestat(p) ==
  /\ OnInode(p, "fstat")
  /\ LET i == file[File(p)].ip
         x == Copy(i)
     IN /\ icache' = Slot(i, x, FALSE)
        /\ panicked' = ReadsFree(i)
        /\ ReturnWith(p, << >>, TRUE, stati(x), <<>>)
  /\ UNCHANGED <<disk, file>>

\* fdalloc, then filedup.
sys_dup(p) ==
  /\ Calls(p, "dup") /\ HasFd(p) /\ FreeFd(p) # {}
  /\ file' = [file EXCEPT ![File(p)].ref = @ + 1]
  /\ ReturnWith(p, [ofile |-> [proc[p].ofile EXCEPT ![Min(FreeFd(p))] = File(p)]],
                TRUE, <<>>, <<>>)
  /\ UNCHANGED <<disk, icache, panicked>>

\* fileclose(f): the last reference closes the file and puts its inode.
AfterClose_always(f) == [file EXCEPT ![f] = Closed]
AfterClose(f) ==
  IF file[f].ref > 1 THEN [file EXCEPT ![f].ref = @ - 1]
  ELSE [file EXCEPT ![f] = Closed]
ClosePuts(f) ==
  IF file[f].ref = 1 /\ file[f].type = "FD_INODE" THEN <<put(file[f].ip)>> ELSE <<>>

sys_close(p) ==
  /\ Calls(p, "close") /\ HasFd(p)
  /\ file' = AfterClose(File(p))
  /\ ReturnWith(p, [ofile |-> [proc[p].ofile EXCEPT ![Call(p).fd] = None]],
                TRUE, <<>>, ClosePuts(File(p)))
  /\ UNCHANGED <<disk, icache, panicked>>

\* pipealloc takes two files, then a page (Pipe models the pipe); what it
\* took it closes again, as FD_NONE, when one is missing.  sys_pipe then
\* needs two descriptors.
sys_pipe(p) ==
  /\ Calls(p, "pipe")
  /\ LET f0 == Min(FreeFile)
         f1 == Min(FreeFile \ {f0})
         fd0 == Min(FreeFd(p))
         fd1 == Min(FreeFd(p) \ {fd0})
         End(w) == [Closed EXCEPT !.type = "FD_PIPE", !.ref = 1,
                      !.readable = ~w, !.writable = w]
         some == FreeFile # {}
         both == Cardinality(FreeFile) >= 2
     IN /\ panicked' = (some /\ ~both)
        /\ IF both /\ Cardinality(FreeFd(p)) >= 2
           THEN /\ file' = [file EXCEPT ![f0] = End(FALSE), ![f1] = End(TRUE)]
                /\ ReturnWith(p, [ofile |-> [proc[p].ofile EXCEPT
                                    ![fd0] = f0, ![fd1] = f1]], TRUE, <<>>, <<>>)
           ELSE Return(p, FALSE, <<>>) /\ UNCHANGED file
  /\ UNCHANGED <<disk, icache>>

-----------------------------------------------------------------------------
(* fork, exit, wait: what they do to files and working directories *)

Uses(p, f) == Cardinality({fd \in FD : proc[p].ofile[fd] = f})

\* copyproc: the child shares the files and the working directory.
fork(p) ==
  /\ Calls(p, "fork")
  /\ LET q == CHOOSE q \in Proc : proc[q].state = "UNUSED"
     IN proc' = [proc EXCEPT
          ![p] = [@ EXCEPT !.prog = Tail(@)],
          ![q] = [Started(Call(p).child) EXCEPT
                    !.ofile = proc[p].ofile, !.cwd = proc[p].cwd]]
  /\ file' = [f \in DOMAIN file |-> [file[f] EXCEPT !.ref = @ + Uses(p, f)]]
  /\ icache' = idup(icache, proc[p].cwd)
  /\ UNCHANGED <<disk, panicked, oops>>

\* exit closes the files one by one, then puts the working directory.
exit(p) ==
  /\ Calls(p, "exit")
  /\ LET open == FD \ FreeFd(p)
         fd == Min(open)
     IN IF open # {}
        THEN /\ file' = AfterClose(proc[p].ofile[fd])
             /\ Update(p, [ofile |-> [proc[p].ofile EXCEPT ![fd] = None],
                           work |-> ClosePuts(proc[p].ofile[fd])])
        ELSE /\ Update(p, [prog |-> <<>>, cwd |-> 0, work |-> <<put(proc[p].cwd)>>,
                           pc |-> "exited"])
             /\ UNCHANGED file
  /\ UNCHANGED <<disk, icache, panicked, oops>>

zombie(p) ==
  /\ At(p, "exited")
  /\ Update(p, [state |-> "ZOMBIE", pc |-> "user"])
  /\ UNCHANGED <<disk, icache, file, panicked, oops>>

\* wait, for the one child.
wait(p) ==
  /\ Calls(p, "wait")
  /\ \E q \in Proc :
       /\ proc[q].state = "ZOMBIE"
       /\ proc' = [proc EXCEPT ![p] = [@ EXCEPT !.prog = Tail(@)], ![q] = Unused]
  /\ UNCHANGED <<disk, icache, file, panicked, oops>>

-----------------------------------------------------------------------------
Step(p) ==
  \/ DoWork(p) \/ Lookup(p) \/ Walk(p) \/ NotFound(p)
  \/ sys_open(p) \/ create(p) \/ create_exists(p) \/ create_fill(p)
  \/ create_opened(p)
  \/ sys_unlink(p) \/ unlink_entry(p) \/ unlink_nlink(p)
  \/ sys_link(p) \/ link_entry(p) \/ link_bad(p) \/ sys_chdir(p) \/ exec(p)
  \/ BadFd(p) \/ fileread(p) \/ filewrite(p) \/ filestat(p)
  \/ sys_dup(p) \/ sys_close(p) \/ sys_pipe(p)
  \/ fork(p) \/ exit(p) \/ zombie(p) \/ wait(p)

\* p is in no call.
Idle(p) == proc[p].pc = "user" /\ proc[p].work = <<>>

Finished == \A p \in Proc : Idle(p) /\ proc[p].prog = <<>>

Done == Finished /\ UNCHANGED vars

Next == Done \/ \E p \in Proc : Step(p)

Spec == Init /\ [][Next]_vars

-----------------------------------------------------------------------------
(* Properties *)

Pending(p, ops, i) ==
  Len(SelectSeq(proc[p].work, LAMBDA w : w.op \in ops /\ w.ip = i))

\* The references to inode i: working directories, open files, and what
\* calls under way hold.
References(i) ==
  Cardinality({f \in DOMAIN file : file[f].type = "FD_INODE" /\ file[f].ip = i})
  + MapThenSumSet(LAMBDA p :
      Pending(p, {"iput", "idrop"}, i)
      + Cardinality({v \in {"cwd", "ip", "dp"} : proc[p][v] = i}), Proc)

\* ip->ref counts the references to a cached inode ("ip->ref counts the
\* number of pointer references"), and f->ref the descriptors of an open
\* file, in every state, also in the middle of calls.
RefsCounted ==
  ~panicked =>
  /\ \A i \in Inum : icache[i].ref = References(i)
  /\ \A f \in DOMAIN file :
       file[f].ref = MapThenSumSet(LAMBDA p : Uses(p, f), Proc)

Holds(p, i) ==
  \/ proc[p].dp = i /\ proc[p].pc \in {"fill", "unlink_entry"}
  \/ proc[p].ip = i /\ proc[p].pc \in {"opened", "unlink_nlink"}
  \/ Pending(p, {"iunlock", "idrop"}, i) > 0

\* A locked inode has one holder, which will unlock it: no error path of
\* create, link, unlink, open or iput forgets a lock or takes one twice.
BusyHasHolder ==
  \A i \in Inum :
    Cardinality({p \in Proc : Holds(p, i)}) = IF icache[i].busy THEN 1 ELSE 0

\* A cached inode that nobody has locked agrees with the disk, so that the
\* slot may be dropped and the inode read again.  create() gives up an inode
\* by clearing nlink in memory only.
CacheCoherent ==
  \A i \in Inum : icache[i].valid /\ ~icache[i].busy =>
    \/ icache[i].copy = disk.inode[i]
    \/ icache[i].copy = [disk.inode[i] EXCEPT !.nlink = 0]

InUse == {i \in Inum : disk.inode[i].type # 0}
Owned(i) == DataBlocks(St(i)) \cup ({Copy(i).addrs[NDIRECT]} \ {Zero})

\* Every block has one owner at most, and every owned block is marked in
\* the bitmap; free blocks are clear, which bmap relies on for indirect
\* blocks and dirlookup for directories; and every inode has blocks for
\* its size.
BlocksOwned ==
  /\ \A i, j \in InUse : i # j => Owned(i) \cap Owned(j) = {}
  /\ \A i \in InUse :
       /\ Owned(i) \subseteq disk.used
       /\ \A bn \in 0..(MAXFILE - 1) :
            bn * BSIZE < Copy(i).size => Addr(St(i), bn) # Zero
  /\ \A b \in Block \ disk.used : disk.data[b] = ZeroBlock

\* The directory entries that are links: all but "." and the ".." of the
\* root.
Links ==
  UNION {{[dir |-> d, off |-> off, inum |-> Cell(St(d), off).inum] :
            off \in {o \in Entries(St(d)) :
                       ~(Cell(St(d), o).name = <<".">> \/ (d = ROOTINO /\ o = 1))}} :
         d \in {i \in InUse : Copy(i).type = T_DIR}}

\* An inode never has fewer links than directory entries that name it, in
\* any state, so that none is freed while it can still be found; a free
\* inode has no entry; and between calls a file has exactly as many links
\* as entries.
LinksCounted ==
  LET links == Links
      n == [i \in Inum |-> Cardinality({l \in links : l.inum = i})]
      quiet == \A p \in Proc : Idle(p)
  IN \A i \in Inum :
       IF i \notin InUse THEN n[i] = 0
       ELSE /\ Copy(i).nlink >= n[i]
            /\ n[i] > 0 => Copy(i).type # 0
            /\ quiet /\ Copy(i).type # T_DIR => Copy(i).nlink = n[i]

\* Every system call of a program returns what the program expects, and
\* none panics: the file system tests of usertests.c succeed.
TestsPass == ~oops /\ ~panicked

\* The inodes whose lock p needs to go on.
Needs(p) ==
  LET at == proc[p].pc
      onfile == at = "user" /\ proc[p].prog # <<>>
                /\ Call(p).call \in {"read", "write", "fstat"} /\ HasFd(p)
  IN CASE proc[p].work # <<>> -> {}
       [] at \in {"user", "exited", "opened", "unlink_nlink"} /\ ~onfile -> {}
       [] onfile -> {file[File(p)].ip} \ {0}
       [] at = "walk" /\ NoElem(proc[p].path) -> {}
       [] at = "link_bad" -> {proc[p].dp}
       [] OTHER -> {proc[p].ip} \ {0}

\* No group of processes, in particular no process alone, sleeps in ilock
\* for inodes that members of the group hold.  create, unlink and _namei hold
\* a directory while they lock an inode in it, and ".." leads back up.
NoDeadlock ==
  \A S \in SUBSET Proc \ {{}} :
    \E p \in S : \A i \in Needs(p) : \A q \in S : ~Holds(q, i)
=============================================================================
