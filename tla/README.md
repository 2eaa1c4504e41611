# A TLA+ model of the xv6 kernel

This directory models the xv6 system in `src/xv6`: a small multiprocessor Unix
with spin locks, a scheduler, processes, pipes, a buffer cache over an IDE disk,
a file system, a console, and the user programs that have an algorithm of their
own. The modules are translated from the C source. TLC checks them on small
instances, and TLAPS proves theorems about six of the components for all
instances, among them that four implement their abstract specification.
`PROJECT.json` maps every definition to the lines it models.

## The system and its parts

| Part | Source | Module |
|---|---|---|
| Spin locks, interrupt nesting | spinlock.c | Spinlock, SpinlockProofs |
| Scheduler, sleep and wakeup | proc.c, swtch.S, trap.c | Sched, Monitor, SchedProofs |
| Process life cycle, sys_sleep | proc.c, sysproc.c, trap.c | Proc, ProcProofs |
| Pipes | pipe.c | Pipe, Fifo, PipeProofs |
| Buffer cache and disk driver | bio.c, ide.c | Bcache, BlockStore, BcacheProofs |
| Page allocator, growproc, the memory of exec | kalloc.c, proc.c, exec.c | Kalloc, KallocProofs |
| malloc and free, composed with the page allocator | umalloc.c, sysproc.c | Umalloc, Memory, MemoryProofs |
| Disk layout, blocks, file contents, directories, mkfs | fs.c, mkfs.c | FsDisk |
| Inode cache, paths, file table, file system calls | fs.c, file.c, sysfile.c | Fs |
| File system tests, init, ls | usertests.c, init.c, ls.c | Usertests |
| Console input, keyboard | console.c, kbd.c | Console, Tty, ConsoleProofs |
| Shell, exec's arguments, grep | sh.c, exec.c, syscall.c, grep.c | Sh, ExecArgs, Grep, Programs |

The parts rest on each other in this order. Every lock is a spin lock that turns
interrupts off (Spinlock). sleep() and wakeup() are built from one such lock,
proc_table_lock, and from the context switch (Sched). Pipes, the buffer cache,
the disk driver, inode locks, the console, wait() and sys_sleep() all block
through sleep() and wakeup().

The modules use each other's results instead of repeating each other's state:

* Spinlock shows that a critical section is exclusive and is not interrupted, so
  Sched takes acquire() as one step that waits for the lock to be free.
* Sched shows that giving up a lock and going to sleep is one step for everybody
  who holds that lock before wakeup(); Monitor states that promise. Pipe,
  Bcache, Fs and Proc therefore let a process release a lock and fall asleep in
  one step.
* Sched shows that nobody runs a process between `state = ...` and the end of its
  context switch, so Proc takes a critical section of proc.c that ends in
  sched() as one step.
* Bcache shows that cache, driver and drive are a block store with one user per
  block, so Fs reads and writes blocks of `disk` directly.
* Memory composes Kalloc and Umalloc: morecore's sbrk is growproc, in two steps
  between which other processes allocate and free.

## The modules

**Spinlock** (spinlock.c). Each CPU runs a thread and, on top of it, at most one
interrupt handler. `locked` and `owner` are the fields of struct spinlock,
`ncli` and `intena` those of struct cpu, `FL_IF` the flag in eflags, `eflags`
the local variable of pushcli. The actions are `acquire` (with `pushcli` and
`acquire_xchg`), `release` (with `popcli`), bare pushcli and popcli as in
curproc() and setupsegs(), `sti`, `interrupt` and `iret`. `held` and `nest`
record what the callers have taken; callers are arbitrary except that they
release what they took and nest locks in the order `Rank`. A panic in the code
sets `panicked`, and nothing happens after that.

**Sched** (proc.c: scheduler, sched, yield, forkret, sleep, wakeup, and the parts
of fork, exit and wait that meet the scheduler; trap.c: the clock). A CPU is on
the scheduler's stack or on that of a process (`stack`); `pc` says where the
kernel context of each process is, and `frames` what its trap frames return to.
A step is what runs between two lock operations or context switches. The
processes run a small load: wait in a loop for a condition under a lock, or set
it and wake the others; the first process forks and waits. The child of a fork is
an EMBRYO until sys_fork() makes it RUNNABLE, a step that does not take
proc_table_lock (sysproc.c:16).
**Monitor** is the abstract sleep and wakeup.

**Proc** (proc.c: allocproc, copyproc, kill, exit, wait; sysproc.c: sys_fork,
sys_sleep; the exits of killed processes in trap). The variables are the fields
of struct proc, `nextpid`, and for each process its place in the kernel and
copyproc's `np`. Assignments the code makes without the lock (the filling of an
embryo, and the two assignments that give a slot back when memory runs out) are
steps of their own. `kstack` and `mem` say whether a slot owns memory. `left` is
n - (ticks - ticks0) of sys_sleep(). Processes make any system calls, but init (init.c)
neither exits nor sleeps.

**Pipe** (pipe.c: piperead, pipewrite, pipeclose). The fields of struct pipe, with
indices that wrap at `UINT`; one turn of a loop is one step. The last test of
pipeclose() and its kfree() are steps without the lock. Once the page is freed
that test reads anything, and a second kfree() panics: its caller stays at "panic".
**Fifo** is the abstract bounded queue.

**Bcache** (bio.c: bget, bread, bwrite, brelse; ide.c: ide_rw,
ide_start_request, ide_intr). The flags and data of the buffers, the list in
order of use, the request queue, the drive with the command in its registers,
and the contents of the disk. The drive is external: it carries out a command
some time after it was started, and may report an error for the blocks in `Bad`.
Processes use blocks the way fs.c does: one at a time, and one more while they hold
an `Indirect` one (bmap calls balloc, and itrunc bfree, with the indirect block in
hand). Which blocks are indirect does not change in the model. bget() sleeps on
`buf`, which is the address of buffer 0, where ide_rw() may sleep too: `Woken`
models that the two share a channel. **BlockStore** is the abstract store: one
user per block at a time, and only a user changes its contents; a failure of the
drive turns them into `Lost` until the block is written again.

**Kalloc** (kalloc.c; the calls of kalloc and kfree in proc.c, exec.c, pipe.c).
The free list as a sequence of runs, in pages; `page` holds what is in each page,
so that moving and copying memory is visible. Every kalloc() and kfree() is a
step. A pipe is a page with the number of its open ends; pipeclose() is three steps,
as in the code: the critical section, the test after it, and the kfree(). The test
reads the page even when the other closer has freed it: then it is full of ones (kfree
fills it) and the answer is no, or somebody else's and the answer is anything. A
second kfree() panics if the page is still free and otherwise takes it from its new
owner; both end the run of the model (`Stopped`). **Umalloc** (umalloc.c) works on headers in units of a Header: `hdr` is the
memory, `freep` the roving pointer, `call` the call under way; a turn of the
loops of malloc() and free() is a step. **Memory** composes the two.

**FsDisk** (fs.c, mkfs.c) has the disk as a value (bitmap, inodes, contents) and
the functions of fs.c on one inode as operators: balloc, bfree, bmap, itrunc,
readi, writei, dirlookup, dirlink, skipelem. The unit is a cell, which holds a
byte, a directory entry or a block address. `mkfs` builds the first image.

**Fs** (fs.c, file.c, sysfile.c). Processes run programs, sequences of system
calls. `icache` has the slots of the inode cache with ref, I_BUSY, I_VALID and the
copy; `file` the file table; `proc` the descriptors, the working directory and
the place in the call. A step runs from one point where processes meet to the
next: an inode lock, an allocation or freeing of an inode, a reference dropped.
`work` has the iunlock() and iput() calls a system call still has to make before
it returns, each of them a step. iput() of the last reference is two steps, the
freeing on the disk and the dropping of the slot, as in the code.
**Usertests** has the tests of usertests.c, with init and ls, as such programs,
each call with the result the test expects. Loops are scaled down; a scaled
loop keeps what the test relies on (createdelete needs an even number).

**Console** (kbd.c, console.c). `shift` is kbd_getc()'s static variable, `input` the
buffer with its three indices, which wrap at `UINT`. **Tty** is the line discipline
a program may rely on.

**Sh**, **ExecArgs** and **Grep** are the algorithms as operators: gettoken and the
recursive-descent parser with the NULs it writes, runcmd on descriptor tables;
the argument block exec builds and fetchint, fetchstr and sys_exec that read it
back; match, matchhere and matchstar. **Programs** has the loops that call them and
the reference definitions: a grammar by splitting token lists, the wiring a line
calls for, the set of texts a pattern denotes.

## Runs

Ten runs pass; two show that the code does not do what a test or an assertion of it
expects.

| Run | Instance | What it shows |
|---|---|---|
| spinlock | 2 CPUs with handlers, 2 nested locks | MutualExclusion, NoInterruptWhileHolding, NoPanic, CliMatched |
| sched | 2 CPUs, 3 slots, 2 trap frames | OneCPUPerStack, StackNotFreed, NoPanic, NoLostWakeup, refinement of Monitor |
| sched_live | 1 CPU, 3 slots | RunnableRuns |
| proc | 2 CPUs, 3 slots, 4 pids, failing kalloc | ParentAlive, MemoryAccounted, KilledExits, ZombieReaped |
| pipe | 1 reader, 2 writers, 2 bytes, indices modulo 4 | PageFreed, SleepersWait, refinement of Fifo, CallsReturn |
| bcache | 2 processes, 2 buffers, 3 blocks: 2 indirect ones, 1 bad one; 2 values | refinement of BlockStore, SleeperHasHolder, OnlyBgetPanics, RequestsFinish |
| fs | 3 processes, 24 blocks, 10 inodes, 5 slots, 4 files | RefsCounted, BusyHasHolder, CacheCoherent, BlocksOwned, LinksCounted, TestsPass, NoDeadlock |
| memory | 3 processes, 6 pages, 2 pipes, a heap of up to 20 units in pages of 4 | PagesOwnedOnce, FreeListCombined, MemoryKept, HeapPartitioned, HeapCallsReturn |
| console | 2 readers, a buffer of 2, indices modulo 4 | SleepersHaveReason, refinement of Tty |
| programs | lines of up to 4 characters, nested ones of up to 7 | ParserMatchesGrammar, PipesWired, ArgsPassed, GrepMatches |
| fs_createdelete (violation) | createdelete with 4 files each | TestsPass fails: a file is lost |
| memory_pipe (violation) | 2 processes, 1 pipe | FreesAllocated fails: a page is freed twice |

*The violations.* iput() writes type 0 to the disk (fs.c:248) and drops its slot
afterwards. A create() in between gets the inode from ialloc() and, from iget(),
the slot with the old copy; it writes that copy back, and the new file has a
directory entry and an inode that counts as free. ilock() panics at its next use.
The two halves of the test run one after the other without error, so it is the
interleaving that breaks it. The pairs of the run fs keep clear of it: the
programs that remove files do not run beside programs that allocate inodes.

pipeclose() looks at readopen and writeopen after it has released the lock of the pipe
(pipe.c:73). When the two ends are closed at once, both closers find both flags clear
and both free the page; the second kfree() panics with "freeing free page"
(kalloc.c:61), its check that callers free what kalloc() returned. One close after the
other frees the page once. The passing runs meet this race too. Their properties hold up
to it: in Pipe a second kfree() is the last thing that happens (PageFreed), in Memory
the properties speak of states before it, and FreeListCombined says that no other
caller of kfree() can panic.

*Bounds.* Two CPUs suffice for every pairwise race, and two nested locks for the
nesting of ncli (its depth counts, not which locks they are). Three slots let two
sleepers meet one waker, or init inherit a grandchild; with a fourth pid a slot is
used again, also one that copyproc() is still giving back. A pipe of two bytes
with two writers and calls of up to two bytes is full, empty and half full in
mid-call, and the reader and a writer may be killed there; indices modulo
four wrap around the buffer twice. Two buffers for three blocks force recycling,
two processes that each hold an indirect block exhaust them, and two values tell old
contents from new. On the disk of fs a file has one direct
and three indirect blocks of three cells, so that the tests cross into the
indirect block and reach MAXFILE; names are cut after two elements; the inode
cache and the file table are small enough that a leaked reference or a full table
shows. Six pages are too few for three processes that grow, so that kalloc fails
and free runs split and merge; a heap of two pages wraps its ring; a page that one
closer of a pipe has freed can become another pipe, a stack or memory before the
other closer looks at it. A console
buffer of two is full after two letters. Shell lines have up to four characters
over everything the shell tells apart, up to six over words, pipes, lists and
parentheses, and up to seven with redirections in place of lists.

*Deadlock* is checked in every run. Only a panic (`frozen` in Proc, `halted` in Bcache
and Memory) or the end of all programs (`finished` in Pipe, `Done` in Fs) is a
deliberate stop.

*Fairness.* A CPU that can execute does: this is what hardware gives. A spinning
acquire() gets the lock if it is free again and again (strong fairness): the code
has no queue, and this is the assumption spin locks are used under. Timer
interrupts stay pending until taken, and so does the interrupt of the drive. Proc
takes the fairness of the scheduler from RunnableRuns, preemption from the timer
(trap() calls yield()), and init's loop around wait() from init.c; without
preemption two processes that compute for ever would starve a third. RunnableRuns
itself is checked on one CPU, where processes contend most; on two it is not checked. Memory
assumes only that the process inside malloc() or free() goes on. CallsReturn needs
every process to close its pipe end some time, as exit() does; without it a reader
may wait for ever. SleepersWait says without that assumption that nobody sleeps who
could go on.

## Deviations seen while modelling

The first two have the runs fs_createdelete and memory_pipe. The others are described
from the source, with what a run or a property does about them where one meets them.

* iput() against ialloc(), above (fs.c:248).
* pipeclose() against pipeclose(), above (pipe.c:73).
* fileclose() panics on a file of type FD_NONE, on the error paths of sys_open and
  pipealloc when a table is full (sysfile.c:282, file.c:72). Fs has the panic; the
  programs of its runs do not fill the tables in that way.
* unlink of a directory does not lower the parent's nlink, which mkdir raised
  (sysfile.c:248); LinksCounted asks for equality only of files.
* itrunc() does not free the indirect block itself (fs.c:374).
* balloc() scans the bits past sb.size (fs.c:65).
* mkfs rounds the size of the root directory up to a block (mkfs.c:135).
* create and link into a directory that is being removed leave an inode that no
  path reaches.
* malloc of more than 4096 units asks sbrk for a size that is no multiple of the
  page, for which kalloc panics (umalloc.c:52, kalloc.c:95); MemoryAssumption
  excludes it.
* copyproc() sets state to UNUSED before it clears parent, without the lock
  (proc.c:127): another CPU may take the slot in between, and its process loses
  its parent. The run proc reaches this; ZombieReaped excepts such a zombie, which
  nobody reaps.
* kill() also marks zombies and, for pid 0, unused slots; nothing clears killed when
  a slot is used again (proc.c:345; proc.h:38 says "have been killed").
* piperead() and console_read() test `killed` under a lock that kill() does not
  take: a kill between the test and sleep() is noticed at the next wake-up.
* A writer killed in a full pipe returns without the wakeup() its bytes call for
  (pipe.c:85). SleepersWait excepts the readers it leaves asleep.
* ide_intr() sets B_VALID after a failed read too: the users of the block get what was
  in the buffer. BlockStore has the block as Lost.
* bget() panics when all buffers are busy (bio.c:91), which NBUF 10 and NPROC 64 allow.
* growproc() with a negative n copies cp->sz bytes into the shorter segment
  (proc.c:57). No program calls sbrk() like that, and Kalloc has positive n only.
* intena is per CPU and swtch() does not save it, so yield() in a trap may return
  with interrupts on; the interrupted code had them on.
* console_intr() echoes without console_lock (console.c:223).
* grep scans bytes left from an earlier read past the end of the new ones
  (grep.c:17).
* `>>` opens like `>`, and of two redirections the first one wins (sh.c:390).
* argptr() refuses a buffer that ends exactly at the end of memory (syscall.c:60).

## Proofs

Each theorem holds for every value of the constants that the named ASSUME of the
module allows (TLC evaluates it in the runs): any number of CPUs, processes,
buffers and blocks, any size of the rings. The safety theorems follow from one
inductive invariant `IInv` per component, which TLC checked on the instances above
before it was proved (those of the two allocators excepted, which quantify over maps of
pages and over the naturals); there is one lemma or step per action. A refinement is proved step by
step: initial states map to initial states, and under IInv every step maps to a
step of the abstract specification or leaves its variables alone.

| Module | Theorems |
|---|---|
| SpinlockProofs | MutualExclusion, NoInterruptWhileHolding, NoPanic, CliMatched |
| SchedProofs | OneCPUPerStack, StackNotFreed, NoPanic, NoLostWakeup; Sched implements Monitor |
| ProcProofs | ParentAlive, MemoryAccounted |
| PipeProofs | PageFreed; Pipe implements Fifo |
| BcacheProofs | SleeperHasHolder, OnlyBgetPanics; Bcache implements BlockStore |
| ConsoleProofs | SleepersHaveReason; Console implements Tty |
| KallocProofs | what kalloc and kfree do to the list of runs; every step of the kernel keeps `KInv` |
| MemoryProofs | PagesOwnedOnce, FreeListCombined, MemoryKept, HeapPartitioned; RingCombined (no two free blocks of the heap touch); kalloc fails only for want of a run |

**SpinlockProofs**, for every set of CPUs and locks, every order Rank and every
MaxNest. The invariant adds:

* `LockInv`: a lock is marked taken exactly when some context holds it, and its
  cpu field then names that context's CPU. holding() is exact because of this,
  so acquire() and release() do not panic.
* `CliInv`: ncli of a CPU is the number of locks and of bare pushcli() calls the
  running context has outstanding (`Depth`), FL_IF is set only at depth 0, and
  the context that does not run owes nothing: a handler has come and gone
  entirely, and a thread was interrupted at depth 0.
* `FlagInv`: at depth above 0 intena, and before that pushcli's local eflags, are
  the flag the context started from. An interrupt may come between read_eflags
  and cli; the handler then overwrites intena and the thread's pushcli
  overwrites it again.
* `CallInv`: the guards of calls under way still hold, so a lock is not acquired
  by the context that holds it.

**SchedProofs.** Which locks a CPU holds, and with them its ncli, can be
read off the place where it is (`CpuInv`). A process that is on the stack of a CPU
without being RUNNING is on its way to the scheduler, and then its CPU holds
proc_table_lock (`StackInv`, `ProcInv`): no other CPU can find it RUNNABLE and run
on its stack, and no wait() can find it a ZOMBIE and free the stack. `FrameInv` says
what a trap returns to, so that a process comes back from yield() to code that holds
no lock. `CondInv` says that nobody sleeps on a condition that holds: who has found it
false keeps its lock until proc_table_lock is taken (`CpuInv` at sleep_lk), and
whoever makes it true needs that lock and then, for wakeup(), proc_table_lock.

**ProcProofs** proves ParentAlive and MemoryAccounted whether or not kalloc fails.
Neither is inductive alone:

* `AliveInv` says that init is alive and that only a living process is inside a
  system call, so that a parent named by copyproc() is one.
* `EmbryoInv` says that a process between allocproc() and the end of fork has an
  embryo in `np` that no other process is making, and what that embryo owns at each
  point. Without it copyproc() could fill a slot that another fork gives back.

Actions that only move living processes between states share ShuffleStep. The race
of proc.c:127 is part of the specification: the two theorems hold in spite of it.

**PipeProofs**, for any readers and writers, any PIPESIZE and any UINT that is a
multiple of it (2^32 and 512 in the code). `RingInv` bounds writep - readp, computed
modulo UINT, by PIPESIZE; lemmas on remainders then give that the slot of a new byte
is not one of the unread ones, so that a write appends to the abstract queue and a
read takes its head, also where an index wraps. That UINT is a multiple of PIPESIZE
is needed: otherwise the slot would jump at the wrap. `EndInv` says that an end is
open until the last of its holders has passed the critical section of pipeclose(),
and `FreeInv` that with both ends closed the page is freed or somebody is about to
free it, although the decision is taken without the lock. Each end has one process
that closes it last, which is why there is no third kfree().

**BcacheProofs.** `OneCopy`: no two buffers cache one block, which bget() keeps
because it searches again after every sleep. `HoldInv`: a buffer is busy when exactly
one process holds it. `IdeInv`, `QueueInv` and `DriveInv`: a buffer for which the
driver has work belongs to a process that waits in ide_rw(), is in the queue once,
and the drive works on the first request with the data its buffer still has.
`Coherent`: a buffer that need not be written is what is on the disk, so that it may
be recycled, unless the drive has failed on the block (`lost`). CacheIsStore therefore
holds with errors too. `OrderInv` is the order in which fs.c asks for blocks: an
indirect one and then one other. `SleeperInv` says that who sleeps in bget() waits for
a buffer of another process; with OrderInv, who waits while holding a block holds an
indirect one, which nobody who holds a block waits for, so that no chain of sleepers is
longer than two and none closes. OnlyBgetPanics counts: all buffers are busy and a
process has two at most, the one that asks one. xv6 has NBUF 10 and NPROC 64, so the
theorem does not exclude the panic for the kernel as configured; it says that six
processes at work in the file system are needed for it.

**ConsoleProofs**, for any readers, any INPUT_BUF and any UINT that is a multiple of
it. `OrderInv`: r, w and e are in this order around the ring and INPUT_BUF apart at
most, and a full buffer counts as a complete line. `SleepInv`: who sleeps, or is
about to, has seen all that is complete. `CountInv` ties what a read has returned to
what it still wants. The text between two indices is a `Run` of the ring; lemmas say
what storing, erasing and reading do to a run.

**KallocProofs**, for any set of processes and any number of pages. `ListOK` says of
the free list what a walk relies on: runs of pages in the order of their addresses
with a gap between any two. From it follow the contracts of the allocator
(`Allocator`): kalloc(n) takes n pages that were free or leaves the list alone, it
fails only if no n free pages are in a row, and kfree() of pages that are not free
adds just these, through all its cases, without the panic. KernelSteps proves from
the contracts that every step of the kernel keeps `KInv`; AllocatorHolds proves the
contracts from `FirstFinds` (a search finds the first place there is). FirstFinds is a
hypothesis of the lemmas up to the end of MemoryProofs, where FirstHolds proves it;
no theorem rests on it. KInv says more than PagesOwnedOnce, which is not inductive:

* `OwnOf`: there is a map from pages to owners (the free list, the memory, the
  segment and the kernel stack of a process, a pipe) that agrees with every variable.
  With counts, as in PagesOwnedOnce, a step would have to reason about five sums at
  once; with the map it moves pages from one owner to another.
* `ProcsOf`: what an entry of the process table owns in each state (`LifeOf`), and
  that the entry a fork makes or a wait buries is not unused, running or in the hands
  of another call (`MakesOf`, `BuriesOf`, `OneCallOf`). Without it copyproc() could
  fill an entry that another call gives back.
* `KeptOf`: the pages of a process hold its image.

The second kfree() of a pipe breaks KInv, so what is proved is that every step leads to
KInv or to `Halted`, the state in which that kfree() has just been made; nothing
follows it. `ClosingOK` gives the types of the closers' local state. The first kfree()
is the one that finds the page still a pipe with both ends closed; that a closer whose
page has been handed out again may see any flags there is part of the specification.

**MemoryProofs**, for any number of units in a page and any requests that
MemoryAssumption allows. The heap of
umalloc.c is described by `HInv`: every free header points to the next free address
and the last one to base (`CircleOf`), the blocks, free, held or about to be put back,
tile the heap (`BlockedOf`), no two free ones touch (`GapsOf`), and the local variables
of malloc() and free() point into the ring (`CallerOf`). That the search of free() ends
at the right place follows from the order of the circle alone. `Room` ties the two
allocators together: the heap fits into the memory of the process behind its first
page, and while growproc moves that memory the call is the one that morecore made.
MaxUnits bounds the addresses of the heap; that it is at least (NPAGES - 1) * UPP
(MemoryAssumption) means that the bound never stops a growth that the kernel grants.
The properties speak of the `Ring` that a walk from base reaches; RingIs shows that it
is the set of all free headers.

Facts that several proofs need are lemmas: remainders (ModUnique to ModAdd), runs of
a ring, MinIsMember and FirstIs (a search finds a slot that passed its test, from the
well-foundedness of the naturals), and what a sequence is.

Model-checked only:

* all liveness (RunnableRuns, KilledExits, ZombieReaped, CallsReturn,
  RequestsFinish, HeapCallsReturn), since the prover has no support for fairness;
* SleepersWait of Pipe;
* the properties of Fs, whose operators (FsDisk) fold over the blocks and entries of a
  disk, and whose TestsPass is about particular programs;
* what the recursive operators of Sh, ExecArgs, Grep and Programs compute, which
  needs induction over data.

## Not modelled

* Boot code, segment tables, interrupt controllers and multiprocessor tables:
  register programming, whose result is the initial states.
* Output to screen and printer, cprintf, procdump; Shift and Caps Lock.
* In Fs: reads and writes of devices, a failing kalloc in pipealloc, and running out
  of disk blocks or disk inodes (balloc and ialloc panic then).
* In Sh: failing fork, pipe and open, and the built-in cd. In exec: the reading of
  the ELF segments.
* usertests' pipe1, preempt, exitwait and mem, and forktest: what they test is in Pipe,
  Sched, Proc and Memory, not as programs.
* sbrk() with a negative argument, see above.
* The other user programs and the user library: one loop around one system call, or
  string helpers without state.
