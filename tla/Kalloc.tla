------------------------------- MODULE Kalloc -------------------------------
(***************************************************************************)
(* Physical memory: the page allocator (kalloc.c) and the kernel code that *)
(* allocates with it: fork (copyproc), sbrk (growproc), exec, wait and     *)
(* pipes.                                                                  *)
(*                                                                         *)
(* The unit is the page.  Every call of kalloc and kfree is one step, the  *)
(* critical section of kalloc_lock; what a process does to its own memory  *)
(* next to it belongs to the step.  Processes run on several CPUs, so any  *)
(* two of them may be between their steps at once.                         *)
(***************************************************************************)
EXTENDS Integers, Sequences, FiniteSets

CONSTANTS
  Proc,      \* the slots of the process table; process 1 is init
  NPAGES,    \* pages after the kernel, numbered from 1
  ExecSizes, \* sizes of programs
  MaxPipes   \* bound: pipes at a time

ASSUME KallocAssumption ==
  /\ Proc \subseteq Nat \ {0} /\ 1 \in Proc
  /\ NPAGES \in Nat /\ NPAGES >= 2
  /\ ExecSizes \subseteq Nat \ {0} /\ MaxPipes \in Nat

VARIABLES
  freelist,  \* the runs of free pages, in list order
  page,      \* what is in every page
  proc,      \* the process table
  pipes,     \* the pages that hold a struct pipe
  ends,      \* how many ends of the pipe in a page are open
  closing,   \* where each process is in pipeclose, and with which page
  panicked   \* panic() was called

vars == <<freelist, page, proc, pipes, ends, closing, panicked>>

Page == 1..NPAGES
KSTACKSIZE == 1
Junk == "junk"     \* memset(v, 1, len)
Cleared == "0"

Pages(v, len) == v..(v + len - 1)

\* seg is memory that a call under way has allocated and not yet given to
\* anyone; image is what the process expects in its memory.
Unused == [state |-> "UNUSED", mem |-> 0, sz |-> 0, kstack |-> 0, parent |-> 0,
           pc |-> "user", child |-> 0, seg |-> 0, len |-> 0, image |-> <<>>]

-----------------------------------------------------------------------------
(* The allocator *)

Run(p, len) == [p |-> p, len |-> len]

\* Where a loop over a list or a table stops: the first of the places that
\* would end it, 0 if there is none.
First(stops) ==
  IF stops = {} THEN 0 ELSE CHOOSE k \in stops : \A j \in stops : k <= j

\* The list without run k, and with run r before run k.
Without(fl, k) ==
  [j \in 1..(Len(fl) - 1) |-> IF j < k THEN fl[j] ELSE fl[j + 1]]
WithRun(fl, k, r) ==
  [j \in 1..(Len(fl) + 1) |->
     CASE j < k -> fl[j] [] j = k -> r [] OTHER -> fl[j - 1]]

\* kalloc: the first run that is long enough.  A longer run is cut at its
\* end; 0 if there is none.
kalloc_run(fl, n) == First({k \in DOMAIN fl : fl[k].len >= n})

kalloc_addr(fl, n) ==
  LET k == kalloc_run(fl, n)
  IN IF k = 0 THEN 0 ELSE fl[k].p + fl[k].len - n

kalloc_list_keeps(fl, n) ==
  LET k == kalloc_run(fl, n)
  IN IF k = 0 \/ fl[k].len = n THEN fl ELSE [fl EXCEPT ![k].len = @ - n]
kalloc_list(fl, n) ==
  LET k == kalloc_run(fl, n)
  IN CASE k = 0 -> fl
       [] k # 0 /\ fl[k].len = n -> Without(fl, k)
       [] OTHER -> [fl EXCEPT ![k].len = @ - n]

\* The run at which the loop of kfree ends: it starts after the freed
\* memory, holds it, or touches it.
kfree_run(fl, v, len) ==
  First({k \in DOMAIN fl :
    \/ fl[k].p >= v + len
    \/ fl[k].p <= v /\ v <= fl[k].p + fl[k].len})

\* kfree panics: "freeing free page".
FreesFree(fl, v, len) ==
  LET k == kfree_run(fl, v, len)
  IN k # 0 /\ fl[k].p <= v /\ v < fl[k].p + fl[k].len

\* The run k grew by len at its end; if it now touches the next, they are
\* one.
Joined_never(fl, k, len) == [fl EXCEPT ![k].len = @ + len]
Joined(fl, k, len) ==
  LET grown == [fl EXCEPT ![k].len = @ + len]
  IN IF k < Len(fl) /\ fl[k + 1].p = fl[k].p + fl[k].len + len
     THEN Without([grown EXCEPT ![k].len = @ + fl[k + 1].len], k + 1)
     ELSE grown

kfree(fl, v, len) ==
  LET k == kfree_run(fl, v, len)
  IN CASE k = 0 -> Append(fl, Run(v, len))
       [] k # 0 /\ fl[k].p = v + len -> [fl EXCEPT ![k] = Run(v, len + @.len)]
       [] k # 0 /\ fl[k].p > v + len -> WithRun(fl, k, Run(v, len))
       [] OTHER -> Joined(fl, k, len)

\* kfree(v, len) as a step: fills the pages with junk and lists them.
Free(v, len, contents) ==
  /\ panicked' = FreesFree(freelist, v, len)
  /\ freelist' = kfree(freelist, v, len)
  /\ page' = [a \in Page |-> IF a \in Pages(v, len) THEN Junk ELSE contents[a]]

\* The pages after storing image from v on.
Stored_short(v, image) ==
  [a \in Page |-> IF a \in Pages(v, Len(image) - 1) THEN image[a - v + 1] ELSE page[a]]
Stored(v, image) ==
  [a \in Page |-> IF a - v + 1 \in DOMAIN image THEN image[a - v + 1] ELSE page[a]]

Loaded(v, len) == [k \in 1..len |-> page[v + k - 1]]

\* memmove and memset: the image in a segment of len pages, then zeros.
Grown(image, len) ==
  [k \in 1..len |-> IF k \in DOMAIN image THEN image[k] ELSE Cleared]

NotClosing == [at |-> "no", v |-> 0]

-----------------------------------------------------------------------------
\* kinit gives the pages to the allocator, userinit takes a stack and a
\* page for initcode.
Init ==
  LET fl0 == kfree(<<>>, 1, NPAGES)
      fl1 == kalloc_list(fl0, KSTACKSIZE)
      mem == kalloc_addr(fl1, 1)
  IN /\ freelist = kalloc_list(fl1, 1)
     /\ page = [a \in Page |-> IF a = mem THEN "text" ELSE Junk]
     /\ proc = [p \in Proc |->
          IF p = 1
          THEN [Unused EXCEPT !.state = "RUNNING", !.mem = mem, !.sz = 1,
                  !.kstack = kalloc_addr(fl0, KSTACKSIZE), !.image = <<"text">>]
          ELSE Unused]
     /\ pipes = {} /\ ends = [a \in Page |-> 0]
     /\ closing = [p \in Proc |-> NotClosing]
     /\ panicked = FALSE

\* The kernel has panicked, or a page was freed under its owner and anything
\* may happen from now on: the behaviour is not followed any further.
Stopped == \E p \in Proc : closing[p].at \in {"panicked", "stole"}

Running(p, at) == ~Stopped /\ proc[p].state = "RUNNING" /\ closing[p].at = at

At(p, pc) == Running(p, "no") /\ proc[p].pc = pc

\* kalloc(n) as a step; without a long enough run the list stays as it is.
Alloc(n) == freelist' = kalloc_list(freelist, n)

\* allocproc: the first free entry of the table.
fork(p) ==
  LET q == First({r \in Proc : proc[r].state = "UNUSED"})
  IN /\ At(p, "user") /\ q # 0
     /\ proc' = [proc EXCEPT ![q].state = "EMBRYO",
                             ![p].pc = "copyproc_kstack", ![p].child = q]
     /\ UNCHANGED <<freelist, page, pipes, ends, closing, panicked>>

\* copyproc: the kernel stack.
copyproc_kstack(p) ==
  LET q == proc[p].child
      v == kalloc_addr(freelist, KSTACKSIZE)
  IN /\ At(p, "copyproc_kstack")
     /\ Alloc(KSTACKSIZE)
     /\ proc' = IF v = 0
                THEN [proc EXCEPT ![q] = Unused, ![p].pc = "user", ![p].child = 0]
                ELSE [proc EXCEPT ![q].kstack = v, ![q].parent = p,
                                  ![p].pc = "copyproc_mem"]
     /\ UNCHANGED <<page, pipes, ends, closing, panicked>>

\* copyproc: the memory, a copy of the parent's; the child can run.
copyproc_mem(p) ==
  LET q == proc[p].child
      v == kalloc_addr(freelist, proc[p].sz)
  IN /\ At(p, "copyproc_mem")
     /\ Alloc(proc[p].sz)
     /\ IF v = 0
        THEN /\ proc' = [proc EXCEPT ![p].pc = "copyproc_undo"]
             /\ UNCHANGED page
        ELSE /\ proc' = [proc EXCEPT
                  ![q].state = "RUNNING", ![q].mem = v, ![q].sz = proc[p].sz,
                  ![q].image = proc[p].image,
                  ![p].pc = "user", ![p].child = 0]
             /\ page' = Stored(v, Loaded(proc[p].mem, proc[p].sz))
     /\ UNCHANGED <<pipes, ends, closing, panicked>>

copyproc_undo(p) ==
  LET q == proc[p].child
  IN /\ At(p, "copyproc_undo")
     /\ Free(proc[q].kstack, KSTACKSIZE, page)
     /\ proc' = [proc EXCEPT ![q] = Unused, ![p].pc = "user", ![p].child = 0]
     /\ UNCHANGED <<pipes, ends, closing>>

\* growproc moves the memory to a longer segment: all of it is allocated
\* before the old one is freed.
growproc(p, n) ==
  LET len == proc[p].sz + n
      v == kalloc_addr(freelist, len)
  IN /\ At(p, "user")
     /\ Alloc(len)
     /\ proc' = IF v = 0 THEN proc
                ELSE [proc EXCEPT ![p].pc = "growproc_move", ![p].seg = v,
                                  ![p].len = len]
     /\ UNCHANGED <<page, pipes, ends, closing, panicked>>

\* The new segment, with this in it, is the memory of p.
Replaced(p, image) ==
  proc' = [proc EXCEPT ![p].pc = "user", ![p].seg = 0, ![p].len = 0,
             ![p].mem = proc[p].seg, ![p].sz = proc[p].len, ![p].image = image]

growproc_move(p) ==
  /\ At(p, "growproc_move")
  /\ Free(proc[p].mem, proc[p].sz,
          Stored(proc[p].seg, Grown(Loaded(proc[p].mem, proc[p].sz), proc[p].len)))
  /\ Replaced(p, Grown(proc[p].image, proc[p].len))
  /\ UNCHANGED <<pipes, ends, closing>>

\* exec, once it has added up the sizes in the ELF header and of the
\* arguments.
exec(p) ==
  \E len \in ExecSizes :
    LET v == kalloc_addr(freelist, len)
    IN /\ At(p, "user")
       /\ Alloc(len)
       /\ proc' = IF v = 0 THEN proc
                  ELSE [proc EXCEPT ![p].pc = "exec_load", ![p].seg = v,
                                    ![p].len = len]
       /\ UNCHANGED <<page, pipes, ends, closing, panicked>>

\* The segments are read in and the old memory is given back.
exec_commit(p) ==
  LET text == [k \in 1..proc[p].len |-> "text"]
  IN /\ At(p, "exec_load")
     /\ Free(proc[p].mem, proc[p].sz, Stored(proc[p].seg, text))
     /\ Replaced(p, text)
     /\ UNCHANGED <<pipes, ends, closing>>

\* A segment cannot be read in or does not fit: the new memory goes back.
exec_bad(p) ==
  /\ At(p, "exec_load")
  /\ Free(proc[p].seg, proc[p].len, page)
  /\ proc' = [proc EXCEPT ![p].pc = "user", ![p].seg = 0, ![p].len = 0]
  /\ UNCHANGED <<pipes, ends, closing>>

\* exit keeps the memory and the stack, which it is running on; init
\* adopts the children.
exit(p) ==
  /\ At(p, "user") /\ p # 1
  /\ proc' = [q \in Proc |->
       CASE q = p -> [proc[p] EXCEPT !.state = "ZOMBIE"]
         [] q # p /\ proc[q].parent = p -> [proc[q] EXCEPT !.parent = 1]
         [] OTHER -> proc[q]]
  /\ UNCHANGED <<freelist, page, pipes, ends, closing, panicked>>

\* wait frees the memory of a zombie child, then its stack, all under
\* proc_table_lock.
wait(p) ==
  /\ At(p, "user")
  /\ \E q \in Proc :
       /\ proc[q].state = "ZOMBIE" /\ proc[q].parent = p
       /\ Free(proc[q].mem, proc[q].sz, page)
       /\ proc' = [proc EXCEPT ![q].mem = 0, ![q].sz = 0, ![q].image = <<>>,
                               ![p].pc = "wait_kstack", ![p].child = q]
  /\ UNCHANGED <<pipes, ends, closing>>

wait_kstack(p) ==
  LET q == proc[p].child
  IN /\ At(p, "wait_kstack")
     /\ Free(proc[q].kstack, KSTACKSIZE, page)
     /\ proc' = [proc EXCEPT ![q] = Unused, ![p].pc = "user", ![p].child = 0]
     /\ UNCHANGED <<pipes, ends, closing>>

pipealloc(p) ==
  LET v == kalloc_addr(freelist, 1)
  IN /\ At(p, "user") /\ Cardinality(pipes) < MaxPipes
     /\ Alloc(1)
     /\ IF v = 0 THEN UNCHANGED <<pipes, ends>>
        ELSE pipes' = pipes \cup {v} /\ ends' = [ends EXCEPT ![v] = 2]
     /\ UNCHANGED <<page, proc, closing, panicked>>

\* pipeclose: the last reference to an end of a pipe goes, under the lock of the
\* pipe (see module Pipe for what else happens there).
pipeclose(p) ==
  /\ At(p, "user")
  /\ \E v \in pipes :
       /\ ends[v] > 0
       /\ ends' = [ends EXCEPT ![v] = @ - 1]
       /\ closing' = [closing EXCEPT ![p] = [at |-> "test", v |-> v]]
  /\ UNCHANGED <<freelist, page, proc, pipes, panicked>>

FreePage(a) == \E k \in DOMAIN freelist : a \in Pages(freelist[k].p, freelist[k].len)

\* pipeclose: are both ends closed?  The lock has been released, so that the
\* page may have gone: if it is free it is full of ones, if not of anything.
pipeclose_test(p) ==
  LET v == closing[p].v
      closed == CASE v \in pipes -> {ends[v] = 0}
                  [] v \notin pipes /\ FreePage(v) -> {FALSE}
                  [] OTHER -> BOOLEAN
  IN /\ Running(p, "test")
     /\ \E both \in closed :
          closing' = [closing EXCEPT
            ![p] = IF both THEN [at |-> "kfree", v |-> v] ELSE NotClosing]
     /\ UNCHANGED <<freelist, page, proc, pipes, ends, panicked>>

\* pipeclose: the page is freed, or was before, by the closer of the other end:
\* then kfree panics, or frees it under whoever has been given it since.
pipeclose_kfree(p) ==
  LET v == closing[p].v
      own == v \in pipes /\ ends[v] = 0
  IN /\ Running(p, "kfree")
     /\ Free(v, 1, page)
     /\ pipes' = pipes \ {v}
     /\ closing' = [closing EXCEPT
          ![p] = IF own THEN NotClosing
                 ELSE [@ EXCEPT !.at = IF FreesFree(freelist, v, 1) THEN "panicked"
                                                                    ELSE "stole"]]
     /\ UNCHANGED <<proc, ends>>

\* Steps that leave the memory of p itself where it is.
Other(p) ==
  \/ fork(p) \/ copyproc_kstack(p) \/ copyproc_mem(p) \/ copyproc_undo(p)
  \/ exec(p) \/ exec_bad(p) \/ wait(p) \/ wait_kstack(p)
  \/ pipealloc(p) \/ pipeclose(p) \/ pipeclose_test(p) \/ pipeclose_kfree(p)

-----------------------------------------------------------------------------
(* Properties *)

\* Every page has exactly one owner: a run of the free list, the memory or
\* the stack of a process, a call under way, or a pipe.  No call leaks
\* memory on its error paths, frees it twice or shares it; only two racing
\* pipecloses free a page twice, and end this.
PagesOwnedOnce ==
  ~Stopped =>
  \A a \in Page :
    Cardinality({k \in DOMAIN freelist : a \in Pages(freelist[k].p, freelist[k].len)})
    + Cardinality({p \in Proc : a \in Pages(proc[p].mem, proc[p].sz)})
    + Cardinality({p \in Proc : a \in Pages(proc[p].seg, proc[p].len)})
    + Cardinality({p \in Proc : a = proc[p].kstack})
    + Cardinality(pipes \cap {a}) = 1

\* "Free list is kept sorted and combines adjacent pages into long runs":
\* consecutive runs do not even touch, so that a request fails only if no
\* run of free pages of that length exists.  No kfree but that of a pipeclose
\* which lost the race finds its memory on the list.
FreeListCombined ==
  /\ panicked => \E p \in Proc : closing[p].at = "panicked"
  /\ ~Stopped => \A k \in 1..(Len(freelist) - 1) :
       freelist[k].p + freelist[k].len < freelist[k + 1].p

\* A process finds in its memory what it or exec put there: nobody else's
\* allocation, free or copy changes it, and growproc and fork carry it
\* over; again up to the second kfree of a pipe.
MemoryKept ==
  ~Stopped => \A p \in Proc : proc[p].image = Loaded(proc[p].mem, proc[p].sz)

\* kfree panics with "freeing free page" if the memory is on the list: a check
\* of its callers, each of which is to free what kalloc returned, once.
FreesAllocated == ~panicked
=============================================================================
