---------------------------- MODULE KallocProofs ----------------------------
(***************************************************************************)
(* Proofs about Kalloc: every step of the kernel that allocates or frees   *)
(* memory keeps KInv, from which every page has one owner, the free list   *)
(* is sorted and combined, and every process finds its memory as it left   *)
(* it.  The kernel's steps are proved from what they need of kalloc and    *)
(* kfree (Allocator), which is proved of the operators of the list after   *)
(* them.                                                                   *)
(***************************************************************************)
EXTENDS Kalloc, TLAPS

USE ZenonT(30)

\* The runs of the free list.
RunSet == [p : Nat \ {0}, len : Nat \ {0}]

\* The free list: runs of pages in the order of their addresses, with a gap
\* between any two of them.
ListOK(fl) ==
  /\ fl \in Seq(RunSet)
  /\ \A k \in 1..Len(fl) : fl[k].p + fl[k].len <= NPAGES + 1
  /\ \A j, k \in 1..Len(fl) : j < k => fl[j].p + fl[j].len < fl[k].p

\* The address a is in the run r.
InRun(r, a) == r.p <= a /\ a < r.p + r.len

\* The address a is free.
FreeAt(fl, a) == \E k \in 1..Len(fl) : InRun(fl[k], a)

\* What the list says of its runs, as numbers.
Sorted(fl) ==
  /\ Len(fl) \in Nat
  /\ \A k \in 1..Len(fl) : /\ fl[k].p \in Nat /\ fl[k].p > 0
                           /\ fl[k].len \in Nat /\ fl[k].len > 0
                           /\ fl[k].p + fl[k].len <= NPAGES + 1
  /\ \A j, k \in 1..Len(fl) : j < k => fl[j].p + fl[j].len < fl[k].p

\* A run of pages, as numbers.
RunOK(r) ==
  r.p \in Nat /\ r.p > 0 /\ r.len \in Nat /\ r.len > 0 /\ r.p + r.len <= NPAGES + 1

(* Who owns a page *)
\* The owners: the free list, the pipes, and of every process its memory, a
\* segment that a call has allocated for it, and its stack.
HFree == <<"free", 0>>

HPipe == <<"pipe", 0>>

HMem(p) == <<"mem", p>>

HSeg(p) == <<"seg", p>>

HStack(p) == <<"stack", p>>

\* The free pages.
FreeSet(fl) == {a \in Page : FreeAt(fl, a)}

\* own says of h that it owns the pages X.
Holds(own, h, X) == \A a \in Page : a \in X <=> own[a] = h

\* own is the owner of every page.
Owner == {HFree, HPipe} \cup {HMem(p) : p \in Proc} \cup {HSeg(p) : p \in Proc}
         \cup {HStack(p) : p \in Proc}

\* own is the owner of every page, as the list, the entries and the pipes say.
OwnOf(own, fl, pr, pp) ==
  /\ \A a \in Page : own[a] \in Owner
  /\ Holds(own, HFree, FreeSet(fl))
  /\ Holds(own, HPipe, pp)
  /\ \A p \in Proc : /\ Holds(own, HMem(p), Pages(pr[p].mem, pr[p].sz))
                     /\ Holds(own, HSeg(p), Pages(pr[p].seg, pr[p].len))
                     /\ Holds(own, HStack(p), {pr[p].kstack})

\* n pages from v on, if there are any, are pages.
Inside(v, n) == n = 0 \/ (v >= 1 /\ v + n <= NPAGES + 1)

(* The processes and their memory *)
Content == {Junk, Cleared, "text"}

\* What may be in the memory of a process.
Image == UNION {[1..n -> Content] : n \in Nat}

State == {"UNUSED", "EMBRYO", "RUNNING", "ZOMBIE"}

Pc == {"user", "copyproc_kstack", "copyproc_mem", "copyproc_undo",
       "growproc_move", "exec_load", "wait_kstack"}

\* A process, with its memory, a segment that a call has allocated and its
\* stack in the pages.
ProcType ==
  [state : State, mem : Nat, sz : Nat, kstack : Nat, parent : Nat, pc : Pc,
   child : Nat, seg : Nat, len : Nat, image : Image]

\* The types of the variables; the kernel has not panicked.
MType ==
  /\ ListOK(freelist)
  /\ page \in [Page -> Content]
  /\ proc \in [Proc -> ProcType]
  /\ pipes \subseteq Page
  /\ panicked = FALSE

\* The places in fork at which a process has an entry in the making, and those
\* at which it has a segment that is not yet its memory.
Making == {"copyproc_kstack", "copyproc_mem", "copyproc_undo"}

Moving == {"growproc_move", "exec_load"}

\* What a process has, in every state of its life and of the call that it
\* makes.
LifeOf(r) ==
  /\ Inside(r.mem, r.sz) /\ Inside(r.seg, r.len) /\ r.kstack <= NPAGES
  /\ r.state = "UNUSED" => r = Unused
  /\ r.state = "EMBRYO" => r.sz = 0
  /\ r.state = "RUNNING" => r.sz >= 1 /\ r.kstack >= 1
  /\ r.state = "ZOMBIE" => r.kstack >= 1
  /\ r.state # "RUNNING" => r.pc = "user"
  /\ r.pc \in Moving <=> r.len # 0
  /\ r.pc = "growproc_move" => r.len >= r.sz

\* The child that a call of p is at work on: it makes it or buries it.
MakesOf(pr, p) ==
  pr[p].pc \in Making =>
    /\ pr[p].child \in Proc /\ pr[pr[p].child].state = "EMBRYO"
    /\ pr[p].pc = "copyproc_kstack" <=> pr[pr[p].child].kstack = 0

\* A process in wait has a zombie child, whose memory is gone already.
BuriesOf(pr, p) ==
  pr[p].pc = "wait_kstack" =>
    /\ pr[p].child \in Proc /\ pr[pr[p].child].state = "ZOMBIE"
    /\ pr[pr[p].child].parent = p /\ pr[pr[p].child].sz = 0

\* A zombie has its memory until a wait has taken it.
ZombieOf(pr, p) ==
  pr[p].state = "ZOMBIE" =>
    \/ pr[p].sz >= 1
    \/ \E q \in Proc : pr[q].pc = "wait_kstack" /\ pr[q].child = p

\* No two calls are at work on the same one.
OneCallOf(pr) ==
  \A p, q \in Proc :
    pr[p].pc \in Making /\ pr[q].pc \in Making /\ pr[p].child = pr[q].child => p = q

\* The process table.
ProcsOf(pr) ==
  /\ \A p \in Proc : LifeOf(pr[p]) /\ MakesOf(pr, p) /\ BuriesOf(pr, p) /\ ZombieOf(pr, p)
  /\ OneCallOf(pr)

\* The calls that are at work on the entry of a child.
Busy == Making \cup {"wait_kstack"}

\* Every process finds in its memory what it put there.
ImageAt(image, pg, v, n) == image = [k \in 1..n |-> pg[v + k - 1]]

\* The memory of every process holds its image.
KeptOf(pg, pr) == \A p \in Proc : ImageAt(pr[p].image, pg, pr[p].mem, pr[p].sz)

\* The inductive invariant of the kernel's memory.
KInv ==
  /\ MType
  /\ ProcsOf(proc)
  /\ KeptOf(page, proc)
  /\ \E own : OwnOf(own, freelist, proc, pipes)

\* The child that p's call is at work on: no other call is.
ChildOf(p, q) ==
  /\ q \in Proc /\ q # p /\ proc[q].state \in {"EMBRYO", "ZOMBIE"}
  /\ proc[q].pc = "user" /\ proc[q].sz = 0 /\ proc[q].len = 0
  /\ proc[q].kstack \in Nat /\ proc[q].kstack <= NPAGES
  /\ \A r \in Proc : r # p /\ proc[r].pc \in Busy => proc[r].child # q

\* What the kernel's steps need of the operators of the free list: a search
\* finds the first place there is, ...
FirstFinds ==
  \A S : S \subseteq Nat =>
    \/ S = {} /\ First(S) = 0
    \/ First(S) \in S /\ \A j \in S : First(S) <= j

\* ... kalloc(n) takes n free pages off the list or fails and leaves it, ...
KallocKeeps ==
  \A fl, n :
    NPAGES \in Nat /\ ListOK(fl) /\ n \in Nat /\ n > 0 =>
      LET v == kalloc_addr(fl, n)
          l == kalloc_list(fl, n)
      IN /\ ListOK(l)
         /\ v \in Nat
         /\ v = 0 => l = fl
         /\ v # 0 => /\ Pages(v, n) \subseteq Page
                     /\ \A a \in Pages(v, n) : FreeAt(fl, a)
                     /\ \A a \in Int : FreeAt(l, a) <=> FreeAt(fl, a) /\ a \notin Pages(v, n)

\* ... fails only if there are no n free pages in a row, ...
KallocServes ==
  \A fl, n, v :
    /\ NPAGES \in Nat /\ ListOK(fl) /\ n \in Nat /\ n > 0 /\ v \in Nat
    /\ \A a \in Pages(v, n) : FreeAt(fl, a)
    => kalloc_addr(fl, n) # 0

\* ... and kfree() of pages that are not free adds them to it.
KfreeKeeps ==
  \A fl, v, n :
    /\ NPAGES \in Nat /\ ListOK(fl) /\ v \in Nat /\ v > 0 /\ n \in Nat /\ n > 0
    /\ v + n <= NPAGES + 1
    /\ \A a \in Pages(v, n) : ~FreeAt(fl, a)
    => /\ ~FreesFree(fl, v, n)
       /\ ListOK(kfree(fl, v, n))
       /\ \A a \in Int : FreeAt(kfree(fl, v, n), a) <=> FreeAt(fl, a) \/ a \in Pages(v, n)

\* The contract of the allocator.
Allocator == FirstFinds /\ KallocKeeps /\ KallocServes /\ KfreeKeeps

\* The variable closing, over pages and the places in pipeclose.
ClosingOK ==
  closing \in [Proc -> [at : {"no", "test", "kfree", "panicked", "stole"}, v : Page \cup {0}]]

\* The second kfree of the page of a pipe ended it all, and nothing else did.
Halted ==
  Stopped /\ (panicked => \E p \in Proc : closing[p].at = "panicked")

\* A step of process p in the kernel.
KernelStep(p) ==
  \/ Other(p) \/ exec_commit(p) \/ exit(p)
  \/ growproc_move(p) \/ \E n \in Nat : growproc(p, n)

\* Owners of different kinds, and of different processes, are different.
LEMMA OwnersDiffer ==
  /\ HFree # HPipe
  /\ \A p : /\ HFree # HMem(p) /\ HFree # HSeg(p) /\ HFree # HStack(p)
            /\ HPipe # HMem(p) /\ HPipe # HSeg(p) /\ HPipe # HStack(p)
  /\ \A p, q : /\ HMem(p) # HSeg(q) /\ HMem(p) # HStack(q) /\ HSeg(p) # HStack(q)
               /\ p # q => /\ HMem(p) # HMem(q) /\ HSeg(p) # HSeg(q)
                           /\ HStack(p) # HStack(q)
BY SMT DEF HFree, HPipe, HMem, HSeg, HStack

\* The types of the fields of an entry.
LEMMA TypeIs ==
  ASSUME NEW pr \in [Proc -> ProcType], NEW p \in Proc
  PROVE  /\ pr[p].state \in State /\ pr[p].mem \in Nat /\ pr[p].sz \in Nat
         /\ pr[p].kstack \in Nat /\ pr[p].parent \in Nat /\ pr[p].pc \in Pc
         /\ pr[p].child \in Nat /\ pr[p].seg \in Nat /\ pr[p].len \in Nat
         /\ pr[p].image \in Image
BY SMT DEF ProcType

\* Which places are in a call at work on a child.
LEMMA BusyIs ==
  /\ "user" \notin Busy /\ "growproc_move" \notin Busy /\ "exec_load" \notin Busy
  /\ "wait_kstack" \in Busy /\ "wait_kstack" \notin Making
  /\ \A x \in Busy : x \in Making \/ x = "wait_kstack"
  /\ \A x \in Making : x \in Busy /\ x # "user" /\ x # "wait_kstack"
  /\ "user" # "wait_kstack"
  /\ \A x \in Moving : x \notin Busy
BY SMT DEF Busy, Making, Moving

\* What the invariant says of one entry.
LEMMA EntryLife ==
  ASSUME MType, ProcsOf(proc), NEW p \in Proc
  PROVE  /\ proc[p] \in ProcType /\ LifeOf(proc[p])
         /\ MakesOf(proc, p) /\ BuriesOf(proc, p) /\ ZombieOf(proc, p)
BY DEF MType, ProcsOf

\* The child of a call under way: an entry of its own, with what the call has
\* given to it so far.
LEMMA ChildIs ==
  ASSUME KInv, NEW p \in Proc, proc[p].state = "RUNNING", proc[p].pc \in Busy
  PROVE  /\ ChildOf(p, proc[p].child)
         /\ proc[p].pc \in Making => proc[proc[p].child].state = "EMBRYO"
         /\ proc[p].pc = "copyproc_kstack" <=> proc[proc[p].child].kstack = 0
<1>. DEFINE q == proc[p].child
<1>i. MType /\ ProcsOf(proc) /\ OneCallOf(proc) /\ proc \in [Proc -> ProcType]
  BY DEF KInv, MType, ProcsOf
<1>1. MakesOf(proc, p) /\ BuriesOf(proc, p)
  BY <1>i, EntryLife
<1>2. "RUNNING" # "EMBRYO" /\ "RUNNING" # "ZOMBIE" /\ "EMBRYO" # "ZOMBIE"
      /\ "wait_kstack" # "copyproc_kstack" /\ "copyproc_kstack" \in Making
  BY SMT DEF Making
<1>3. CASE proc[p].pc \in Making
  <2>1. /\ q \in Proc /\ proc[q].state = "EMBRYO" /\ q # p
        /\ proc[p].pc = "copyproc_kstack" <=> proc[q].kstack = 0
    BY <1>1, <1>2, <1>3 DEF MakesOf
  <2>2. \A r \in Proc : r # p /\ proc[r].pc \in Busy => proc[r].child # q
    <3>1. SUFFICES ASSUME NEW r \in Proc, r # p, proc[r].pc \in Busy, proc[r].child = q PROVE FALSE
      OBVIOUS
    <3>2. CASE proc[r].pc \in Making
      BY <1>i, <1>3, <3>1, <3>2 DEF OneCallOf
    <3>3. CASE proc[r].pc = "wait_kstack"
      <4>1. BuriesOf(proc, r)
        BY <1>i, EntryLife
      <4>. QED
        BY <1>2, <2>1, <3>1, <3>3, <4>1 DEF BuriesOf
    <3>. QED
      BY <3>1, <3>2, <3>3, BusyIs
  <2>. HIDE DEF q
  <2>3. LifeOf(proc[q]) /\ proc[q] \in ProcType
    BY <1>i, <2>1, EntryLife
  <2>4. /\ proc[q].pc = "user" /\ proc[q].sz = 0 /\ proc[q].len = 0
        /\ proc[q].kstack \in Nat /\ proc[q].kstack <= NPAGES
    BY <2>1, <2>3, SMT DEF LifeOf, ProcType, Moving
  <2>. QED
    BY <1>3, <2>1, <2>2, <2>4 DEF ChildOf, q
<1>4. CASE proc[p].pc = "wait_kstack"
  <2>1. /\ q \in Proc /\ proc[q].state = "ZOMBIE" /\ q # p /\ proc[q].sz = 0 /\ proc[q].parent = p
    BY <1>1, <1>2, <1>4 DEF BuriesOf
  <2>2. \A r \in Proc : r # p /\ proc[r].pc \in Busy => proc[r].child # q
    <3>1. SUFFICES ASSUME NEW r \in Proc, r # p, proc[r].pc \in Busy, proc[r].child = q PROVE FALSE
      OBVIOUS
    <3>2. MakesOf(proc, r) /\ BuriesOf(proc, r)
      BY <1>i, EntryLife
    <3>3. CASE proc[r].pc \in Making
      BY <1>2, <2>1, <3>1, <3>2, <3>3 DEF MakesOf
    <3>4. CASE proc[r].pc = "wait_kstack"
      BY <1>2, <2>1, <3>1, <3>2, <3>4 DEF BuriesOf
    <3>. QED
      BY <3>1, <3>3, <3>4, BusyIs
  <2>. HIDE DEF q
  <2>3. LifeOf(proc[q]) /\ proc[q] \in ProcType
    BY <1>i, <2>1, EntryLife
  <2>4. /\ proc[q].pc = "user" /\ proc[q].len = 0
        /\ proc[q].kstack \in Nat /\ proc[q].kstack <= NPAGES /\ proc[q].kstack # 0
    BY <2>1, <2>3, SMT DEF LifeOf, ProcType, Moving
  <2>5. proc[p].pc # "copyproc_kstack" /\ proc[p].pc \notin Making
    BY <1>2, <1>4, BusyIs
  <2>. QED
    BY <2>1, <2>2, <2>4, <2>5 DEF ChildOf, q
<1>. QED
  BY <1>3, <1>4, BusyIs

\* Nothing changes.
LEMMA KStutter ==
  ASSUME KInv, UNCHANGED <<freelist, page, proc, pipes, panicked>>
  PROVE  KInv'
BY DEF KInv, MType

\* With such an allocator kinit() and userinit() establish the invariant and
\* every step of a process in the kernel keeps it: one step of the proof for each
\* action, after those for what the actions have in common (kalloc() for an owner,
\* kfree() from an owner, a change of entries alone).
LEMMA KernelSteps ==
  ASSUME Allocator
  PROVE  /\ Init => KInv
         /\ \A p \in Proc : KInv /\ ClosingOK /\ KernelStep(p) => KInv' \/ Halted'
<1>. DEFINE
      \* The pages X go to h.
      Transfer(own, X, h) == [a \in Page |-> IF a \in X THEN h ELSE own[a]]
      \* The pages belong to h, which gives them back.
      Gives(own, h, v, n) ==
        /\ Inside(v, n) /\ h # HFree
        /\ Holds(own, HFree, FreeSet(freelist))
        /\ \E Z : Holds(own, h, Z) /\ Pages(v, n) \subseteq Z
      \* A step of the running process p that changes the entry of another, q, that
      \* no other call is at work on.
      Changes(pr, pr2, p, q) ==
        /\ p # q
        /\ \A r \in Proc : r # p /\ r # q => pr2[r] = pr[r]
        /\ pr[p].state = "RUNNING" /\ pr2[p].state = "RUNNING"
        /\ LifeOf(pr2[p]) /\ LifeOf(pr2[q])
        /\ pr[q].pc = "user" /\ pr2[q].pc = "user"
        /\ \A r \in Proc : r # p /\ pr[r].pc \in Busy => pr[r].child # q
        /\ pr[p].pc \in Busy => pr[p].child = q
        /\ pr2[p].pc \in Busy => pr2[p].child = q
        /\ MakesOf(pr2, p) /\ BuriesOf(pr2, p) /\ ZombieOf(pr2, q)
      \* A step of the running process p that changes its own entry only, and is
      \* not at work on a child.
      ChangesOne(pr, pr2, p) ==
        /\ \A r \in Proc : r # p => pr2[r] = pr[r]
        /\ pr[p].state = "RUNNING" /\ pr2[p].state = "RUNNING" /\ LifeOf(pr2[p])
        /\ pr[p].pc \notin Busy /\ pr2[p].pc \notin Busy
      \* The entries of pr and pr2 have the same memory.
      SameMemory(r, r2) ==
        /\ r2.mem = r.mem /\ r2.sz = r.sz /\ r2.seg = r.seg /\ r2.len = r.len
        /\ r2.kstack = r.kstack /\ r2.image = r.image
      \* The image of a process and its place do not change.
      SameImage(r, r2) == r2.image = r.image /\ r2.mem = r.mem /\ r2.sz = r.sz
      \* o says of the pages X that they are h's, and as own of all others.
      Given(own, o, h, X) ==
        /\ \A a \in Page : o[a] \in Owner
        /\ \A g, Y : g # h /\ Holds(own, g, Y) => Holds(o, g, Y \ X)
        /\ \A Y : Holds(own, h, Y) => Holds(o, h, Y \cup X)
        /\ \A f, Z, g, Y : X \subseteq Z /\ Holds(own, f, Z) /\ g # f /\ g # h /\ Holds(own, g, Y)
                             => Holds(o, g, Y)
      \* What a process has in its memory does not depend on other pages.
      SamePages(pg, pg2, X) == \A a \in X : pg2[a] = pg[a]
      \* own and o differ in what they say of h and of the free list only.
      Moved(own, o, h) ==
        /\ \A a \in Page : o[a] \in Owner
        /\ Holds(o, HFree, FreeSet(freelist'))
        /\ \A g, Y : g # HFree /\ g # h /\ Holds(own, g, Y) => Holds(o, g, Y)
      \* What h has after a step that moves pages between it and the free list, and
      \* that all others keep what they have.
      MemNow(o, h, p) ==
        IF h = HMem(p) THEN Holds(o, h, Pages(proc'[p].mem, proc'[p].sz))
        ELSE Pages(proc'[p].mem, proc'[p].sz) = Pages(proc[p].mem, proc[p].sz)
      SegNow(o, h, p) ==
        IF h = HSeg(p) THEN Holds(o, h, Pages(proc'[p].seg, proc'[p].len))
        ELSE Pages(proc'[p].seg, proc'[p].len) = Pages(proc[p].seg, proc[p].len)
      StackNow(o, h, p) ==
        IF h = HStack(p) THEN Holds(o, h, {proc'[p].kstack})
        ELSE proc'[p].kstack = proc[p].kstack
      PipesNow(o, h) ==
        IF h = HPipe THEN Holds(o, h, pipes') ELSE pipes' = pipes
      \* What h's pages are for a step that gives them up: h is left without any.
      LeavesOf(h, p) ==
        /\ \/ h # HMem(p) /\ SameImage(proc[p], proc'[p])
           \/ h # HMem(p) /\ proc[p].sz = 0 /\ proc'[p].sz = 0 /\ proc'[p].image = <<>>
           \/ h = HMem(p) /\ proc'[p].sz = 0 /\ proc'[p].image = <<>>
        /\ \/ h # HSeg(p) /\ proc'[p].seg = proc[p].seg /\ proc'[p].len = proc[p].len
           \/ h # HSeg(p) /\ proc[p].len = 0 /\ proc'[p].len = 0
           \/ h = HSeg(p) /\ proc'[p].len = 0
        /\ \/ h # HStack(p) /\ proc'[p].kstack = proc[p].kstack
           \/ h = HStack(p) /\ proc'[p].kstack = 0
      \* A step takes the pages X from their owner h.
      Leaves(h, X) ==
        /\ h \in Owner /\ h # HFree
        /\ \A p \in Proc : LeavesOf(h, p)
        /\ \/ h # HPipe /\ pipes' = pipes
           \/ h = HPipe /\ pipes' = pipes \ X
      \* The pages v, ..., v + n - 1 are h's in every account of the owners.
      Is(h, v, n) ==
        /\ v \in Nat /\ n \in Nat /\ n > 0 /\ Inside(v, n)
        /\ \A own : OwnOf(own, freelist, proc, pipes) =>
             \E Z : Holds(own, h, Z) /\ Pages(v, n) \subseteq Z /\ (h = HPipe \/ Z = Pages(v, n))
      \* A step after which h has the pages v, ..., v + n - 1 of the free list.
      GainsOf(h, v, n, p) ==
        /\ \/ h # HMem(p) /\ proc'[p].mem = proc[p].mem /\ proc'[p].sz = proc[p].sz
           \/ h = HMem(p) /\ proc[p].sz = 0 /\ proc'[p].mem = v /\ proc'[p].sz = n
        /\ h # HSeg(p) /\ proc'[p].seg = proc[p].seg /\ proc'[p].len = proc[p].len
        /\ \/ h # HStack(p) /\ proc'[p].kstack = proc[p].kstack
           \/ h = HStack(p) /\ proc[p].kstack = 0 /\ n = 1 /\ proc'[p].kstack = v
      \* A step gives n pages from v on to the owner h.
      Gains(h, v, n) ==
        /\ h \in Owner /\ h # HFree
        /\ \A p \in Proc : GainsOf(h, v, n, p)
        /\ \/ h # HPipe /\ pipes' = pipes
           \/ h = HPipe /\ pipes' = pipes \cup Pages(v, n)
      \* A step that changes the table: an entry keeps its memory or has had none.
      KeepsOf(p) ==
        \/ SameMemory(proc[p], proc'[p])
        \/ /\ proc[p].sz = 0 /\ proc[p].len = 0 /\ proc[p].kstack = 0
           /\ proc'[p].sz = 0 /\ proc'[p].len = 0 /\ proc'[p].kstack = 0 /\ proc'[p].image = <<>>
      \* exit()
      \* What an entry keeps that is not the process's own.
      Relative(r, r2) ==
        /\ r2.state = r.state /\ r2.pc = r.pc /\ r2.child = r.child /\ SameMemory(r, r2)
<1>. HIDE DEF Transfer, Gives, Changes, ChangesOne, SameMemory, SameImage,
               Given, SamePages, Moved, MemNow, SegNow, StackNow, PipesNow,
               LeavesOf, Leaves, Is, GainsOf, Gains, KeepsOf, Relative
<1>FirstIs.
     \A S : S \subseteq Nat =>
       \/ S = {} /\ First(S) = 0
       \/ First(S) \in S /\ \A j \in S : First(S) <= j
  BY DEF Allocator, FirstFinds
<1>KallocTakes.
     \A fl, n :
       NPAGES \in Nat /\ ListOK(fl) /\ n \in Nat /\ n > 0 =>
         LET v == kalloc_addr(fl, n)
             l == kalloc_list(fl, n)
         IN /\ ListOK(l)
            /\ v \in Nat
            /\ v = 0 => l = fl
            /\ v # 0 => /\ Pages(v, n) \subseteq Page
                        /\ \A a \in Pages(v, n) : FreeAt(fl, a)
                        /\ \A a \in Int : FreeAt(l, a) <=> FreeAt(fl, a) /\ a \notin Pages(v, n)
  BY DEF Allocator, KallocKeeps
<1>KallocComplete.
     \A fl, n, v :
       /\ NPAGES \in Nat /\ ListOK(fl) /\ n \in Nat /\ n > 0 /\ v \in Nat
       /\ \A a \in Pages(v, n) : FreeAt(fl, a)
       => kalloc_addr(fl, n) # 0
  BY DEF Allocator, KallocServes
<1>KfreeGives.
     \A fl, v, n :
       /\ NPAGES \in Nat /\ ListOK(fl) /\ v \in Nat /\ v > 0 /\ n \in Nat /\ n > 0
       /\ v + n <= NPAGES + 1
       /\ \A a \in Pages(v, n) : ~FreeAt(fl, a)
       => /\ ~FreesFree(fl, v, n)
          /\ ListOK(kfree(fl, v, n))
          /\ \A a \in Int : FreeAt(kfree(fl, v, n), a) <=> FreeAt(fl, a) \/ a \in Pages(v, n)
  BY DEF Allocator, KfreeKeeps
<1>TransferOther.
     ASSUME NEW own, NEW g, NEW Y, NEW h, NEW f, NEW Z, NEW X, X \subseteq Z,
            Holds(own, g, Y), Holds(own, f, Z), g # f, g # h
     PROVE  Holds(Transfer(own, X, h), g, Y)
  <2>. USE <1>TransferOther
  <2>. SUFFICES ASSUME NEW a \in Page PROVE a \in Y <=> Transfer(own, X, h)[a] = g
    BY DEF Holds
  <2>1. Transfer(own, X, h)[a] = IF a \in X THEN h ELSE own[a]
    BY SMT DEF Transfer
  <2>. QED
    BY <2>1 DEF Holds
<1>TransferTo.
     ASSUME NEW own, NEW Y, NEW h, NEW X, Holds(own, h, Y)
     PROVE  Holds(Transfer(own, X, h), h, Y \cup X)
  <2>. USE <1>TransferTo
  <2>. SUFFICES ASSUME NEW a \in Page PROVE a \in Y \cup X <=> Transfer(own, X, h)[a] = h
    BY DEF Holds
  <2>1. Transfer(own, X, h)[a] = IF a \in X THEN h ELSE own[a]
    BY SMT DEF Transfer
  <2>. QED
    BY <2>1 DEF Holds
<1>TransferFrom.
     ASSUME NEW own, NEW Y, NEW h, NEW X, NEW g, g # h, Holds(own, g, Y)
     PROVE  Holds(Transfer(own, X, h), g, Y \ X)
  <2>. USE <1>TransferFrom
  <2>. SUFFICES ASSUME NEW a \in Page PROVE a \in Y \ X <=> Transfer(own, X, h)[a] = g
    BY DEF Holds
  <2>1. Transfer(own, X, h)[a] = IF a \in X THEN h ELSE own[a]
    BY SMT DEF Transfer
  <2>. QED
    BY <2>1 DEF Holds
  \* A step of kalloc() and a step of kfree().
<1>AllocStep.
     ASSUME NPAGES \in Nat, ListOK(freelist), NEW n \in Nat, n > 0, Alloc(n)
     PROVE  LET v == kalloc_addr(freelist, n)
            IN /\ ListOK(freelist')
               /\ v \in Nat
               /\ v = 0 => freelist' = freelist
               /\ v # 0 => /\ Inside(v, n)
                           /\ Pages(v, n) \subseteq FreeSet(freelist)
                           /\ FreeSet(freelist') = FreeSet(freelist) \ Pages(v, n)
  <2>. USE <1>AllocStep
  <2>. DEFINE v == kalloc_addr(freelist, n)
  <2>0. freelist' = kalloc_list(freelist, n)
    BY DEF Alloc
  <2>1. /\ ListOK(freelist')
        /\ v \in Nat
        /\ v = 0 => freelist' = freelist
        /\ v # 0 => /\ Pages(v, n) \subseteq Page
                    /\ \A a \in Pages(v, n) : FreeAt(freelist, a)
                    /\ \A a \in Int : FreeAt(freelist', a) <=>
                                        FreeAt(freelist, a) /\ a \notin Pages(v, n)
    BY <2>0, <1>KallocTakes
  <2>. HIDE DEF v
  <2>2. ASSUME v # 0 PROVE Inside(v, n)
    <3>1. v \in Pages(v, n) /\ v + n - 1 \in Pages(v, n)
      BY <2>1, SMT DEF Pages
    <3>2. v \in Page /\ v + n - 1 \in Page
      BY <2>1, <2>2, <3>1
    <3>. QED
      BY <2>1, <3>2, SMT DEF Inside, Page
  <2>3. Page \subseteq Int
    BY SMT DEF Page
  <2>4. v # 0 => /\ Pages(v, n) \subseteq FreeSet(freelist)
                 /\ FreeSet(freelist') = FreeSet(freelist) \ Pages(v, n)
    BY <2>1, <2>3 DEF FreeSet
  <2>. QED
    BY <2>1, <2>2, <2>4 DEF v
<1>InsideIs.
     ASSUME NPAGES \in Nat, NEW v \in Nat, NEW n \in Nat, Inside(v, n)
     PROVE  /\ Pages(v, n) \subseteq Page
            /\ n = 0 => Pages(v, n) = {}
  BY <1>InsideIs, SMT DEF Inside, Pages, Page
<1>FreeStep.
     ASSUME ListOK(freelist), NEW v \in Nat, NEW n \in Nat, n > 0,
            NEW own, NEW h, Gives(own, h, v, n), NEW contents, Free(v, n, contents)
     PROVE  /\ panicked' = FALSE
            /\ ListOK(freelist')
            /\ FreeSet(freelist') = FreeSet(freelist) \cup Pages(v, n)
            /\ page' = [a \in Page |-> IF a \in Pages(v, n) THEN Junk ELSE contents[a]]
  <2>. USE <1>FreeStep
  <2>0. /\ NPAGES \in Nat /\ Inside(v, n) /\ h # HFree
        /\ Holds(own, HFree, FreeSet(freelist))
    BY KallocAssumption DEF Gives
  <2>z. PICK Z : Holds(own, h, Z) /\ Pages(v, n) \subseteq Z
    BY DEF Gives
  <2>. USE <2>0, <2>z
  <2>1. v > 0 /\ v + n <= NPAGES + 1
    BY SMT DEF Inside
  <2>2. Pages(v, n) \subseteq Page
    BY <1>InsideIs
  <2>3. \A a \in Pages(v, n) : ~FreeAt(freelist, a)
    <3>1. \A a \in Page : a \in FreeSet(freelist) => a \notin Pages(v, n)
      <4>. SUFFICES ASSUME NEW a \in Page, a \in FreeSet(freelist), a \in Pages(v, n) PROVE FALSE
        OBVIOUS
      <4>1. own[a] = HFree /\ own[a] = h
        BY DEF Holds
      <4>. QED
        BY <4>1, SMT
    <3>. QED
      BY <2>2, <3>1 DEF FreeSet
  <2>4. /\ ~FreesFree(freelist, v, n)
        /\ ListOK(kfree(freelist, v, n))
        /\ \A a \in Int : FreeAt(kfree(freelist, v, n), a) <=>
                            FreeAt(freelist, a) \/ a \in Pages(v, n)
    BY <2>1, <2>3, <1>KfreeGives
  <2>5. Page \subseteq Int
    BY SMT DEF Page
  <2>6. FreeSet(freelist') = FreeSet(freelist) \cup Pages(v, n)
    <3>1. freelist' = kfree(freelist, v, n)
      BY DEF Free
    <3>. QED
      BY <2>2, <2>4, <2>5, <3>1 DEF FreeSet
  <2>7. FreesFree(freelist, v, n) \in BOOLEAN
    BY SMT DEF FreesFree
  <2>. QED
    BY <2>4, <2>6, <2>7 DEF Free
<1>TwoChange.
     ASSUME NEW pr, ProcsOf(pr), NEW pr2, NEW p \in Proc, NEW q \in Proc, Changes(pr, pr2, p, q)
     PROVE  ProcsOf(pr2)
  <2>. USE <1>TwoChange
  <2>0. /\ p # q
        /\ \A r \in Proc : r # p /\ r # q => pr2[r] = pr[r]
        /\ pr[p].state = "RUNNING" /\ pr2[p].state = "RUNNING"
        /\ LifeOf(pr2[p]) /\ LifeOf(pr2[q])
        /\ pr[q].pc = "user" /\ pr2[q].pc = "user"
        /\ \A r \in Proc : r # p /\ pr[r].pc \in Busy => pr[r].child # q
        /\ pr[p].pc \in Busy => pr[p].child = q
        /\ pr2[p].pc \in Busy => pr2[p].child = q
        /\ MakesOf(pr2, p) /\ BuriesOf(pr2, p) /\ ZombieOf(pr2, q)
    BY DEF Changes
  <2>. USE <2>0
  <2>1. \A r \in Proc : LifeOf(pr[r]) /\ MakesOf(pr, r) /\ BuriesOf(pr, r) /\ ZombieOf(pr, r)
    BY DEF ProcsOf
  <2>2. "RUNNING" # "EMBRYO" /\ "RUNNING" # "ZOMBIE"
    BY SMT
  <2>3. \A r \in Proc : LifeOf(pr2[r])
    BY <2>1
  <2>4. ASSUME NEW r \in Proc PROVE MakesOf(pr2, r)
    <3>1. CASE r = p
      BY <3>1
    <3>2. CASE r = q
      BY <3>2, BusyIs DEF MakesOf
    <3>3. CASE r # p /\ r # q
      <4>1. SUFFICES ASSUME pr[r].pc \in Making PROVE MakesOf(pr2, r)
        BY <3>3 DEF MakesOf
      <4>2. pr[r].child \in Proc /\ pr[r].child # q /\ pr[r].child # p
        <5>1. pr[r].child \in Proc /\ pr[pr[r].child].state = "EMBRYO"
          BY <2>1, <4>1 DEF MakesOf
        <5>2. pr[r].pc \in Busy
          BY <4>1, BusyIs
        <5>3. pr[r].child # p
          BY <2>2, <5>1
        <5>. QED
          BY <3>3, <5>1, <5>2, <5>3
      <4>3. pr2[r] = pr[r] /\ pr2[pr[r].child] = pr[pr[r].child]
        BY <3>3, <4>2
      <4>4. MakesOf(pr, r)
        BY <2>1
      <4>5. pr2[pr2[r].child] = pr[pr[r].child]
        BY <4>3
      <4>. QED
        BY <4>3, <4>4, <4>5 DEF MakesOf
    <3>. QED
      BY <3>1, <3>2, <3>3
  <2>5. ASSUME NEW r \in Proc PROVE BuriesOf(pr2, r)
    <3>1. CASE r = p
      BY <3>1
    <3>2. CASE r = q
      BY <3>2, BusyIs DEF BuriesOf
    <3>3. CASE r # p /\ r # q
      <4>1. SUFFICES ASSUME pr[r].pc = "wait_kstack" PROVE BuriesOf(pr2, r)
        BY <3>3 DEF BuriesOf
      <4>2. pr[r].child \in Proc /\ pr[r].child # q /\ pr[r].child # p
        <5>1. pr[r].child \in Proc /\ pr[pr[r].child].state = "ZOMBIE"
          BY <2>1, <4>1 DEF BuriesOf
        <5>2. pr[r].pc \in Busy
          BY <4>1, BusyIs
        <5>3. pr[r].child # p
          BY <2>2, <5>1
        <5>. QED
          BY <3>3, <5>1, <5>2, <5>3
      <4>3. pr2[r] = pr[r] /\ pr2[pr[r].child] = pr[pr[r].child]
        BY <3>3, <4>2
      <4>4. BuriesOf(pr, r)
        BY <2>1
      <4>5. pr2[pr2[r].child] = pr[pr[r].child]
        BY <4>3
      <4>. QED
        BY <4>3, <4>4, <4>5 DEF BuriesOf
    <3>. QED
      BY <3>1, <3>2, <3>3
  <2>6. ASSUME NEW r \in Proc PROVE ZombieOf(pr2, r)
    <3>1. CASE r = p
      BY <2>2, <3>1 DEF ZombieOf
    <3>2. CASE r = q
      BY <3>2
    <3>3. CASE r # p /\ r # q
      <4>1. pr2[r] = pr[r]
        BY <3>3
      <4>2. ASSUME NEW s \in Proc, pr[s].pc = "wait_kstack", pr[s].child = r
            PROVE  pr2[s].pc = "wait_kstack" /\ pr2[s].child = r
        <5>1. s # q
          BY <4>2, BusyIs
        <5>2. s # p
          BY <3>3, <4>2, BusyIs
        <5>. QED
          BY <4>2, <5>1, <5>2
      <4>3. ZombieOf(pr, r)
        BY <2>1
      <4>. QED
        BY <4>1, <4>2, <4>3 DEF ZombieOf
    <3>. QED
      BY <3>1, <3>2, <3>3
  <2>7. OneCallOf(pr2)
    <3>1. SUFFICES ASSUME NEW r \in Proc, NEW s \in Proc, pr2[r].pc \in Making, pr2[s].pc \in Making,
                          pr2[r].child = pr2[s].child
                   PROVE  r = s
      BY DEF OneCallOf
    <3>2. r # q /\ s # q
      BY <3>1, BusyIs
    <3>3. CASE r # p /\ s # p
      <4>1. pr2[r] = pr[r] /\ pr2[s] = pr[s]
        BY <3>2, <3>3
      <4>. QED
        BY <3>1, <4>1 DEF ProcsOf, OneCallOf
    <3>4. CASE r = p /\ s # p
      <4>1. pr2[s] = pr[s] /\ pr[s].child # q /\ pr2[p].child = q
        BY <3>1, <3>2, <3>4, BusyIs
      <4>. QED
        BY <3>1, <3>4, <4>1
    <3>5. CASE r # p /\ s = p
      <4>1. pr2[r] = pr[r] /\ pr[r].child # q /\ pr2[p].child = q
        BY <3>1, <3>2, <3>5, BusyIs
      <4>. QED
        BY <3>1, <3>5, <4>1
    <3>. QED
      BY <3>3, <3>4, <3>5
  <2>. QED
    BY <2>3, <2>4, <2>5, <2>6, <2>7 DEF ProcsOf
<1>OneChange.
     ASSUME NEW pr, ProcsOf(pr), NEW pr2, NEW p \in Proc, ChangesOne(pr, pr2, p)
     PROVE  ProcsOf(pr2)
  <2>. USE <1>OneChange
  <2>0. /\ \A r \in Proc : r # p => pr2[r] = pr[r]
        /\ pr[p].state = "RUNNING" /\ pr2[p].state = "RUNNING" /\ LifeOf(pr2[p])
        /\ pr[p].pc \notin Busy /\ pr2[p].pc \notin Busy
    BY DEF ChangesOne
  <2>. USE <2>0
  <2>1. \A r \in Proc : LifeOf(pr[r]) /\ MakesOf(pr, r) /\ BuriesOf(pr, r) /\ ZombieOf(pr, r)
    BY DEF ProcsOf
  <2>2. "RUNNING" # "EMBRYO" /\ "RUNNING" # "ZOMBIE"
    BY SMT
  <2>3. \A r \in Proc : LifeOf(pr2[r])
    BY <2>1
  <2>4. ASSUME NEW r \in Proc PROVE MakesOf(pr2, r) /\ BuriesOf(pr2, r)
    <3>1. CASE r = p
      BY <3>1, BusyIs DEF MakesOf, BuriesOf
    <3>2. CASE r # p
      <4>1. pr2[r] = pr[r]
        BY <3>2
      <4>2. ASSUME pr[r].pc \in Making PROVE pr2[pr[r].child] = pr[pr[r].child] /\ MakesOf(pr, r)
        BY <2>1, <2>2, <4>2 DEF MakesOf
      <4>3. ASSUME pr[r].pc = "wait_kstack" PROVE pr2[pr[r].child] = pr[pr[r].child] /\ BuriesOf(pr, r)
        BY <2>1, <2>2, <4>3 DEF BuriesOf
      <4>4. MakesOf(pr2, r)
        BY <4>1, <4>2 DEF MakesOf
      <4>5. BuriesOf(pr2, r)
        BY <4>1, <4>3 DEF BuriesOf
      <4>. QED
        BY <4>4, <4>5
    <3>. QED
      BY <3>1, <3>2
  <2>5. ASSUME NEW r \in Proc PROVE ZombieOf(pr2, r)
    <3>1. CASE r = p
      BY <2>2, <3>1 DEF ZombieOf
    <3>2. CASE r # p
      <4>1. pr2[r] = pr[r]
        BY <3>2
      <4>2. ASSUME NEW s \in Proc, pr[s].pc = "wait_kstack", pr[s].child = r
            PROVE  pr2[s].pc = "wait_kstack" /\ pr2[s].child = r
        BY <4>2, BusyIs
      <4>. QED
        BY <2>1, <4>1, <4>2 DEF ZombieOf
    <3>. QED
      BY <3>1, <3>2
  <2>6. OneCallOf(pr2)
    <3>1. SUFFICES ASSUME NEW r \in Proc, NEW s \in Proc, pr2[r].pc \in Making, pr2[s].pc \in Making,
                          pr2[r].child = pr2[s].child
                   PROVE  r = s
      BY DEF OneCallOf
    <3>2. r # p /\ s # p
      BY <3>1, BusyIs
    <3>3. pr2[r] = pr[r] /\ pr2[s] = pr[s]
      BY <3>2
    <3>. QED
      BY <3>1, <3>3 DEF ProcsOf, OneCallOf
  <2>. QED
    BY <2>3, <2>4, <2>5, <2>6 DEF ProcsOf
<1>SameSelf.
     \A r : SameMemory(r, r)
  BY DEF SameMemory
<1>KeptSame.
     ASSUME NEW pg, NEW pr, KeptOf(pg, pr), NEW pr2, \A p \in Proc : SameImage(pr[p], pr2[p])
     PROVE  KeptOf(pg, pr2)
  BY <1>KeptSame DEF KeptOf, SameImage
<1>MemoryUnchanged.
     ASSUME NEW pr, NEW pr2, \A r \in Proc : SameMemory(pr[r], pr2[r])
     PROVE  /\ \A own, fl, pp : OwnOf(own, fl, pr, pp) => OwnOf(own, fl, pr2, pp)
            /\ \A pg : KeptOf(pg, pr) => KeptOf(pg, pr2)
  <2>. USE <1>MemoryUnchanged
  <2>1. ASSUME NEW own, NEW fl, NEW pp, OwnOf(own, fl, pr, pp) PROVE OwnOf(own, fl, pr2, pp)
    BY <2>1 DEF OwnOf, SameMemory
  <2>2. ASSUME NEW pg, KeptOf(pg, pr) PROVE KeptOf(pg, pr2)
    <3>1. \A p \in Proc : SameImage(pr[p], pr2[p])
      BY DEF SameMemory, SameImage
    <3>. QED
      BY <2>2, <3>1, <1>KeptSame
  <2>. QED
    BY <2>1, <2>2
  \* What is left for a step that changes the table and nothing else.
<1>TableStep.
     ASSUME KInv, UNCHANGED <<freelist, page, pipes, panicked>>,
            proc' \in [Proc -> ProcType], ProcsOf(proc'),
            \A r \in Proc : SameMemory(proc[r], proc'[r])
     PROVE  KInv'
  <2>. USE <1>TableStep
  <2>1. MType'
    BY DEF KInv, MType
  <2>2. KeptOf(page', proc') /\ \E own : OwnOf(own, freelist', proc', pipes')
    BY <1>MemoryUnchanged DEF KInv
  <2>. QED
    BY <2>1, <2>2 DEF KInv
  \* The two entries of a step that changes two.
<1>FunctionOf.
     ASSUME NEW f, NEW T, f = [r \in Proc |-> f[r]], \A r \in Proc : f[r] \in T
     PROVE  f \in [Proc -> T]
  BY <1>FunctionOf
<1>ForkStep.
     ASSUME KInv, NEW p \in Proc, fork(p)
     PROVE  KInv'
  <2>. USE <1>ForkStep
  <2>. DEFINE q == First({r \in Proc : proc[r].state = "UNUSED"})
  <2>i. MType /\ ProcsOf(proc)
    BY DEF KInv
  <2>1. q \in Proc /\ proc[q].state = "UNUSED"
    <3>1. q # 0
      BY DEF fork
    <3>2. Proc \subseteq Nat
      <4>. HIDE <1>ForkStep
      <4>. QED
        BY KallocAssumption, SMT
    <3>3. {r \in Proc : proc[r].state = "UNUSED"} \subseteq Nat
      BY <3>2
    <3>. QED
      BY <3>1, <3>3, <1>FirstIs
  <2>2. proc[p].state = "RUNNING" /\ proc[p].pc = "user" /\ p # q
    BY <2>1 DEF fork, At, Running
  <2>3. /\ proc' = [proc EXCEPT ![q].state = "EMBRYO",
                                ![p].pc = "copyproc_kstack", ![p].child = q]
        /\ UNCHANGED <<freelist, page, pipes, panicked>>
    BY DEF fork
  <2>. HIDE DEF q
  <2>t. proc \in [Proc -> ProcType] /\ proc[q] \in ProcType /\ proc[p] \in ProcType
    BY <2>i, <2>1, EntryLife DEF MType
  <2>n. q \in Nat
    BY <2>1, KallocAssumption, SMT
  <2>u. proc[q] = Unused
    BY <2>i, <2>1, EntryLife DEF LifeOf
  <2>4. /\ proc'[q] = [proc[q] EXCEPT !.state = "EMBRYO"]
        /\ proc'[p] = [proc[p] EXCEPT !.pc = "copyproc_kstack", !.child = q]
        /\ \A r \in Proc : r # p /\ r # q => proc'[r] = proc[r]
        /\ proc' = [r \in Proc |-> proc'[r]]
    BY <2>1, <2>2, <2>3, <2>t DEF ProcType
  <2>5. proc'[q] \in ProcType /\ proc'[p] \in ProcType
    BY <2>4, <2>n, <2>t DEF ProcType, State, Pc
  <2>6. proc' \in [Proc -> ProcType]
    <3>1. \A r \in Proc : proc'[r] \in ProcType
      BY <2>4, <2>5, <2>t
    <3>. QED
      BY <2>4, <3>1, <1>FunctionOf
  <2>7. /\ SameMemory(proc[q], proc'[q]) /\ SameMemory(proc[p], proc'[p])
        /\ proc'[q].state = "EMBRYO" /\ proc'[q].pc = "user" /\ proc[q].pc = "user"
        /\ proc'[q].sz = 0 /\ proc'[q].len = 0 /\ proc'[q].kstack = 0
        /\ proc'[p].state = "RUNNING" /\ proc'[p].pc = "copyproc_kstack" /\ proc'[p].child = q
    BY <2>2, <2>4, <2>t, <2>u, SMT DEF ProcType, SameMemory, Unused
  <2>8. LifeOf(proc'[q])
    BY <2>5, <2>7, KallocAssumption, SMT DEF LifeOf, Inside, Moving
  <2>9. LifeOf(proc'[p])
    <3>1. LifeOf(proc[p])
      BY <2>i, EntryLife
    <3>. QED
      BY <2>2, <2>7, <3>1, SMT DEF LifeOf, Moving, SameMemory
  <2>10. \A r \in Proc : proc[r].pc \in Busy => proc[r].child # q
    <3>1. "UNUSED" # "EMBRYO" /\ "UNUSED" # "ZOMBIE"
      BY SMT
    <3>. QED
      BY <2>i, <2>1, <3>1, EntryLife, BusyIs DEF MakesOf, BuriesOf
  <2>11. MakesOf(proc', p) /\ BuriesOf(proc', p) /\ ZombieOf(proc', q)
    BY <2>1, <2>7, SMT DEF MakesOf, BuriesOf, ZombieOf
  <2>12. ProcsOf(proc')
    <3>1. /\ proc[p].pc \in Busy => proc[p].child = q
          /\ proc'[p].pc \in Busy => proc'[p].child = q
      BY <2>2, <2>7, BusyIs
    <3>2. \A r \in Proc : r # p /\ proc[r].pc \in Busy => proc[r].child # q
      BY <2>10
    <3>3. Changes(proc, proc', p, q)
      BY <2>2, <2>4, <2>7, <2>8, <2>9, <2>11, <3>1, <3>2 DEF Changes
    <3>. QED
      BY <2>i, <2>1, <3>3, <1>TwoChange
  <2>13. \A r \in Proc : SameMemory(proc[r], proc'[r])
    <3>1. \A r \in Proc : r = p \/ r = q \/ proc'[r] = proc[r]
      BY <2>4
    <3>. QED
      BY <2>7, <3>1, <1>SameSelf
  <2>. QED
    BY <2>3, <2>6, <2>12, <2>13, <1>TableStep
<1>TransferGives.
     ASSUME NEW own, \A a \in Page : own[a] \in Owner, NEW h \in Owner, NEW X
     PROVE  Given(own, Transfer(own, X, h), h, X)
  <2>. USE <1>TransferGives
  <2>. DEFINE o == Transfer(own, X, h)
  <2>1. ASSUME NEW a \in Page PROVE o[a] \in Owner
    <3>1. o[a] = IF a \in X THEN h ELSE own[a]
      BY SMT DEF Transfer
    <3>. QED
      BY <3>1
  <2>2. ASSUME NEW g, NEW Y, g # h, Holds(own, g, Y) PROVE Holds(o, g, Y \ X)
    BY <2>2, <1>TransferFrom
  <2>3. ASSUME NEW Y, Holds(own, h, Y) PROVE Holds(o, h, Y \cup X)
    BY <2>3, <1>TransferTo
  <2>4. ASSUME NEW f, NEW Z, NEW g, NEW Y, X \subseteq Z, Holds(own, f, Z), g # f, g # h,
               Holds(own, g, Y)
        PROVE  Holds(o, g, Y)
    BY <2>4, <1>TransferOther
  <2>. QED
    BY <2>1, <2>2, <2>3, <2>4 DEF Given
<1>OwnAlloc.
     ASSUME NEW own, OwnOf(own, freelist, proc, pipes), NEW h \in Owner, h # HFree,
            NEW X, X \subseteq FreeSet(freelist), FreeSet(freelist') = FreeSet(freelist) \ X
     PROVE  LET o == Transfer(own, X, h)
            IN /\ \A a \in Page : o[a] \in Owner
               /\ Holds(o, HFree, FreeSet(freelist'))
               /\ \A g, Y : g # HFree /\ g # h /\ Holds(own, g, Y) => Holds(o, g, Y)
               /\ \A Y : Holds(own, h, Y) => Holds(o, h, Y \cup X)
  <2>. USE <1>OwnAlloc
  <2>. DEFINE o == Transfer(own, X, h)
  <2>1. ASSUME NEW a \in Page PROVE o[a] \in Owner
    <3>1. o[a] = IF a \in X THEN h ELSE own[a]
      BY SMT DEF Transfer
    <3>. QED
      BY <3>1 DEF OwnOf
  <2>2. Holds(own, HFree, FreeSet(freelist))
    BY DEF OwnOf
  <2>3. Holds(o, HFree, FreeSet(freelist'))
    <3>1. Holds(o, HFree, FreeSet(freelist) \ X)
      BY <2>2, <1>TransferFrom
    <3>. QED
      BY <3>1
  <2>4. ASSUME NEW g, NEW Y, g # HFree, g # h, Holds(own, g, Y) PROVE Holds(o, g, Y)
    BY <2>2, <2>4, <1>TransferOther
  <2>5. ASSUME NEW Y, Holds(own, h, Y) PROVE Holds(o, h, Y \cup X)
    BY <2>5, <1>TransferTo
  <2>. QED
    BY <2>1, <2>3, <2>4, <2>5
<1>OwnerIs.
     ASSUME NEW p \in Proc
     PROVE  HMem(p) \in Owner /\ HSeg(p) \in Owner /\ HStack(p) \in Owner
  BY DEF Owner
<1>PipeOwner.
     HPipe \in Owner /\ HFree \in Owner
  BY DEF Owner
<1>PagesEmpty.
     ASSUME NEW v \in Nat
     PROVE  Pages(v, 0) = {}
  BY SMT DEF Pages
  \* growproc() and exec() take a segment.
<1>SegStep.
     ASSUME KInv, NEW p \in Proc, At(p, "user"), NEW n \in Nat, n > 0,
            NEW x \in Moving, x = "growproc_move" => n >= proc[p].sz,
            Alloc(n),
            proc' = IF kalloc_addr(freelist, n) = 0 THEN proc
                    ELSE [proc EXCEPT ![p].pc = x, ![p].seg = kalloc_addr(freelist, n), ![p].len = n],
            UNCHANGED <<page, pipes, panicked>>
     PROVE  KInv'
  <2>. USE <1>SegStep
  <2>. DEFINE v == kalloc_addr(freelist, n)
              X == Pages(v, n)
  <2>i. MType /\ ProcsOf(proc) /\ KeptOf(page, proc) /\ ListOK(freelist)
    BY DEF KInv, MType
  <2>1. /\ ListOK(freelist')
        /\ v \in Nat
        /\ v = 0 => freelist' = freelist
        /\ v # 0 => /\ Inside(v, n)
                    /\ X \subseteq FreeSet(freelist)
                    /\ FreeSet(freelist') = FreeSet(freelist) \ X
    BY <2>i, <1>AllocStep, KallocAssumption
  <2>2. v = 0 => proc' = proc
    OBVIOUS
  <2>3. v # 0 => proc' = [proc EXCEPT ![p].pc = x, ![p].seg = v, ![p].len = n]
    OBVIOUS
  <2>. HIDE DEF v
  <2>4. CASE v = 0
    BY <2>1, <2>2, <2>4, KStutter
  <2>5. CASE v # 0
    <3>1. /\ proc \in [Proc -> ProcType] /\ proc[p] \in ProcType
          /\ proc[p].state = "RUNNING" /\ proc[p].pc = "user" /\ LifeOf(proc[p])
      BY <2>i, EntryLife DEF MType, At, Running
    <3>2. /\ proc'[p] = [proc[p] EXCEPT !.pc = x, !.seg = v, !.len = n]
          /\ \A r \in Proc : r # p => proc'[r] = proc[r]
          /\ proc' = [r \in Proc |-> proc'[r]]
      BY <2>3, <2>5, <3>1 DEF ProcType
    <3>3. proc'[p] \in ProcType
      BY <2>1, <3>1, <3>2, SMT DEF ProcType, Moving, Pc
    <3>4. proc' \in [Proc -> ProcType]
      <4>1. \A r \in Proc : proc'[r] \in ProcType
        BY <3>1, <3>2, <3>3
      <4>. QED
        BY <3>2, <4>1, <1>FunctionOf
    <3>5. /\ proc'[p].state = "RUNNING" /\ proc'[p].pc = x
          /\ proc'[p].mem = proc[p].mem /\ proc'[p].sz = proc[p].sz /\ proc'[p].image = proc[p].image
          /\ proc'[p].kstack = proc[p].kstack /\ proc'[p].seg = v /\ proc'[p].len = n
      BY <3>1, <3>2 DEF ProcType
    <3>6. LifeOf(proc'[p])
      BY <2>1, <2>5, <3>1, <3>5, SMT DEF LifeOf, Moving
    <3>7. proc[p].pc \notin Busy /\ x \notin Busy
      <4>1. \A y \in Moving : y \notin Busy
        BY BusyIs
      <4>2. "user" \notin Busy
        BY BusyIs
      <4>. QED
        BY <3>1, <4>1, <4>2
    <3>8. ProcsOf(proc')
      <4>1. ChangesOne(proc, proc', p)
        BY <3>1, <3>2, <3>5, <3>6, <3>7 DEF ChangesOne
      <4>. QED
        BY <2>i, <4>1, <1>OneChange
    <3>9. KeptOf(page', proc')
      <4>1. \A r \in Proc : SameImage(proc[r], proc'[r])
        BY <3>2, <3>5 DEF SameImage
      <4>2. KeptOf(page, proc')
        BY <2>i, <4>1, <1>KeptSame
      <4>. QED
        BY <4>2
    <3>10. ASSUME NEW own, OwnOf(own, freelist, proc, pipes)
           PROVE  OwnOf(Transfer(own, X, HSeg(p)), freelist', proc', pipes')
      <4>. DEFINE o == Transfer(own, X, HSeg(p))
      <4>1. HSeg(p) \in Owner /\ HSeg(p) # HFree
        BY <1>OwnerIs, OwnersDiffer
      <4>2. /\ \A a \in Page : o[a] \in Owner
            /\ Holds(o, HFree, FreeSet(freelist'))
            /\ \A g, Y : g # HFree /\ g # HSeg(p) /\ Holds(own, g, Y) => Holds(o, g, Y)
            /\ \A Y : Holds(own, HSeg(p), Y) => Holds(o, HSeg(p), Y \cup X)
        BY <2>1, <2>5, <3>10, <4>1, <1>OwnAlloc
      <4>. HIDE DEF o
      <4>3. \A r \in Proc : /\ Holds(own, HMem(r), Pages(proc[r].mem, proc[r].sz))
                            /\ Holds(own, HSeg(r), Pages(proc[r].seg, proc[r].len))
                            /\ Holds(own, HStack(r), {proc[r].kstack})
        BY <3>10 DEF OwnOf
      <4>4. Holds(o, HPipe, pipes')
        BY <3>10, <4>2, OwnersDiffer DEF OwnOf
      <4>5. proc[p].len = 0 /\ Pages(proc[p].seg, 0) = {}
        BY <3>1, <1>PagesEmpty, SMT DEF LifeOf, Moving, ProcType
      <4>6. Holds(o, HSeg(p), Pages(proc'[p].seg, proc'[p].len))
        <5>1. Holds(o, HSeg(p), {} \cup X)
          BY <4>2, <4>3, <4>5
        <5>2. {} \cup X = X
          OBVIOUS
        <5>. QED
          BY <3>5, <5>1, <5>2
      <4>7. ASSUME NEW r \in Proc
            PROVE  /\ Holds(o, HMem(r), Pages(proc'[r].mem, proc'[r].sz))
                   /\ Holds(o, HSeg(r), Pages(proc'[r].seg, proc'[r].len))
                   /\ Holds(o, HStack(r), {proc'[r].kstack})
        <5>1. /\ proc'[r].mem = proc[r].mem /\ proc'[r].sz = proc[r].sz
              /\ proc'[r].kstack = proc[r].kstack
          BY <3>2, <3>5
        <5>2. Holds(o, HMem(r), Pages(proc[r].mem, proc[r].sz)) /\ Holds(o, HStack(r), {proc[r].kstack})
          BY <4>2, <4>3, OwnersDiffer
        <5>3. CASE r = p
          BY <4>6, <5>1, <5>2, <5>3
        <5>4. CASE r # p
          <6>1. Holds(o, HSeg(r), Pages(proc[r].seg, proc[r].len)) /\ proc'[r] = proc[r]
            BY <3>2, <4>2, <4>3, <5>4, OwnersDiffer
          <6>. QED
            BY <5>1, <5>2, <6>1
        <5>. QED
          BY <5>3, <5>4
      <4>. QED
        BY <4>2, <4>4, <4>7 DEF OwnOf, o
    <3>11. MType'
      BY <2>i, <2>1, <3>4 DEF MType
    <3>. QED
      BY <3>8, <3>9, <3>10, <3>11 DEF KInv
  <2>. QED
    BY <2>4, <2>5
  \* A page of the memory of r is not in a segment, a stack or the memory of
  \* another process.
<1>MemoryApart.
     ASSUME NEW own, NEW g, NEW Y, Holds(own, g, Y), NEW h, NEW Z, Holds(own, h, Z), g # h,
            Y \subseteq Page
     PROVE  \A a \in Y : a \notin Z
  <2>. USE <1>MemoryApart
  <2>. SUFFICES ASSUME NEW a \in Y, a \in Z PROVE FALSE
    OBVIOUS
  <2>1. own[a] = g /\ own[a] = h
    BY DEF Holds
  <2>. QED
    BY <2>1, SMT
<1>KeptOthers.
     ASSUME NEW v \in Nat, NEW n \in Nat, NEW pg, NEW pg2, SamePages(pg, pg2, Pages(v, n)),
            NEW image, ImageAt(image, pg, v, n)
     PROVE  ImageAt(image, pg2, v, n)
  <2>. USE <1>KeptOthers
  <2>1. \A k \in 1..n : v + k - 1 \in Pages(v, n)
    BY SMT DEF Pages
  <2>2. \A k \in 1..n : pg2[v + k - 1] = pg[v + k - 1]
    BY <2>1 DEF SamePages
  <2>. QED
    BY <2>2 DEF ImageAt
<1>StoredIs.
     ASSUME NEW v \in Nat, NEW n \in Nat, NEW image \in [1..n -> Content], Inside(v, n),
            page \in [Page -> Content]
     PROVE  /\ Stored(v, image) \in [Page -> Content]
            /\ \A a \in Page : a \notin Pages(v, n) => Stored(v, image)[a] = page[a]
            /\ \A k \in 1..n : v + k - 1 \in Pages(v, n) /\ Stored(v, image)[v + k - 1] = image[k]
  <2>. USE <1>StoredIs
  <2>0. Page \subseteq Int /\ DOMAIN image = 1..n
    BY SMT DEF Page
  <2>1. ASSUME NEW a \in Page PROVE a - v + 1 \in 1..n <=> a \in Pages(v, n)
    BY <2>0, SMT DEF Pages
  <2>2. \A a \in Page : Stored(v, image)[a] = IF a \in Pages(v, n) THEN image[a - v + 1] ELSE page[a]
    BY <2>0, <2>1 DEF Stored
  <2>3. Stored(v, image) \in [Page -> Content]
    <3>1. ASSUME NEW a \in Page PROVE Stored(v, image)[a] \in Content
      BY <2>1, <2>2
    <3>2. Stored(v, image) = [a \in Page |-> Stored(v, image)[a]]
      BY DEF Stored
    <3>. QED
      BY <3>1, <3>2
  <2>4. ASSUME NEW k \in 1..n
        PROVE  v + k - 1 \in Pages(v, n) /\ v + k - 1 \in Page /\ (v + k - 1) - v + 1 = k
    BY KallocAssumption, SMT DEF Inside, Pages, Page
  <2>5. \A k \in 1..n : v + k - 1 \in Pages(v, n) /\ Stored(v, image)[v + k - 1] = image[k]
    BY <2>2, <2>4
  <2>. QED
    BY <2>2, <2>3, <2>5
<1>ReplacedType.
     ASSUME NEW r \in ProcType, NEW v \in Nat, NEW n \in Nat, NEW image \in Image
     PROVE  [r EXCEPT !.pc = "user", !.seg = 0, !.len = 0, !.mem = v, !.sz = n, !.image = image]
              \in ProcType
  BY DEF ProcType, Pc
  \* The new segment becomes the memory of p, and the old one goes back.
<1>ReplaceStep.
     ASSUME KInv, NEW p \in Proc, NEW x \in Moving, At(p, x), NEW image \in [1..proc[p].len -> Content],
            Free(proc[p].mem, proc[p].sz, Stored(proc[p].seg, image)), Replaced(p, image),
            UNCHANGED pipes
     PROVE  KInv'
  <2>. USE <1>ReplaceStep
  <2>. DEFINE v == proc[p].seg
              n == proc[p].len
              Old == Pages(proc[p].mem, proc[p].sz)
              New == Pages(v, n)
  <2>i. MType /\ ProcsOf(proc) /\ KeptOf(page, proc) /\ ListOK(freelist) /\ NPAGES \in Nat
    BY KallocAssumption DEF KInv, MType
  <2>1. /\ proc \in [Proc -> ProcType] /\ proc[p] \in ProcType
        /\ proc[p].state = "RUNNING" /\ proc[p].pc = x /\ LifeOf(proc[p])
        /\ page \in [Page -> Content]
    BY <2>i, EntryLife DEF MType, At, Running
  <2>2. /\ proc[p].mem \in Nat /\ proc[p].sz \in Nat /\ v \in Nat /\ n \in Nat
        /\ proc[p].sz > 0 /\ n > 0 /\ Inside(proc[p].mem, proc[p].sz) /\ Inside(v, n)
        /\ proc[p].kstack >= 1 /\ proc[p].kstack <= NPAGES
    <3>1. /\ proc[p].mem \in Nat /\ proc[p].sz \in Nat /\ v \in Nat /\ n \in Nat
      BY <2>1, TypeIs
    <3>2. /\ proc[p].sz >= 1 /\ n # 0 /\ Inside(proc[p].mem, proc[p].sz) /\ Inside(v, n)
          /\ proc[p].kstack >= 1 /\ proc[p].kstack <= NPAGES
      BY <2>1 DEF LifeOf
    <3>. QED
      BY <3>1, <3>2, SMT
  <2>3. /\ proc'[p] = [proc[p] EXCEPT !.pc = "user", !.seg = 0, !.len = 0, !.mem = v, !.sz = n,
                                     !.image = image]
        /\ \A r \in Proc : r # p => proc'[r] = proc[r]
        /\ proc' = [r \in Proc |-> proc'[r]]
    BY <2>1 DEF Replaced, ProcType
  <2>4. image \in Image
    BY <2>2 DEF Image
  <2>5. proc'[p] \in ProcType
    <3>. HIDE DEF v, n
    <3>1. [proc[p] EXCEPT !.pc = "user", !.seg = 0, !.len = 0, !.mem = v, !.sz = n, !.image = image]
            \in ProcType
      BY <2>1, <2>2, <2>4, <1>ReplacedType
    <3>. QED
      BY <2>3, <3>1
  <2>6. proc' \in [Proc -> ProcType]
    <3>1. \A r \in Proc : proc'[r] \in ProcType
      BY <2>1, <2>3, <2>5
    <3>. QED
      BY <2>3, <3>1, <1>FunctionOf
  <2>7. /\ proc'[p].state = "RUNNING" /\ proc'[p].pc = "user"
        /\ proc'[p].mem = v /\ proc'[p].sz = n /\ proc'[p].image = image
        /\ proc'[p].kstack = proc[p].kstack /\ proc'[p].seg = 0 /\ proc'[p].len = 0
    BY <2>1, <2>3, SMT DEF ProcType
  <2>8. LifeOf(proc'[p])
    BY <2>1, <2>2, <2>7, SMT DEF LifeOf, Moving, Inside
  <2>9. ProcsOf(proc')
    <3>1. proc[p].pc \notin Busy /\ proc'[p].pc \notin Busy
      <4>1. \A y \in Moving : y \notin Busy
        BY BusyIs
      <4>2. "user" \notin Busy
        BY BusyIs
      <4>. QED
        BY <2>1, <2>7, <4>1, <4>2
    <3>2. ChangesOne(proc, proc', p)
      BY <2>1, <2>3, <2>7, <2>8, <3>1 DEF ChangesOne
    <3>. QED
      BY <2>i, <3>2, <1>OneChange
  <2>10. PICK own : OwnOf(own, freelist, proc, pipes)
    BY DEF KInv
  <2>11. /\ Holds(own, HFree, FreeSet(freelist))
         /\ \A r \in Proc : /\ Holds(own, HMem(r), Pages(proc[r].mem, proc[r].sz))
                            /\ Holds(own, HSeg(r), Pages(proc[r].seg, proc[r].len))
                            /\ Holds(own, HStack(r), {proc[r].kstack})
    BY <2>10 DEF OwnOf
  <2>. HIDE DEF v, n
  <2>12. /\ panicked' = FALSE
         /\ ListOK(freelist')
         /\ FreeSet(freelist') = FreeSet(freelist) \cup Old
         /\ page' = [a \in Page |-> IF a \in Old THEN Junk ELSE Stored(v, image)[a]]
    <3>1. Gives(own, HMem(p), proc[p].mem, proc[p].sz)
      BY <2>2, <2>11, OwnersDiffer DEF Gives
    <3>2. Free(proc[p].mem, proc[p].sz, Stored(v, image))
      BY DEF v
    <3>. QED
      <4>1. /\ panicked' = FALSE
            /\ ListOK(freelist')
        BY <2>i, <2>2, <3>1, <3>2, <1>FreeStep
      <4>2. FreeSet(freelist') = FreeSet(freelist) \cup Pages(proc[p].mem, proc[p].sz)
        BY <2>i, <2>2, <3>1, <3>2, <1>FreeStep
      <4>3. page' = [a \in Page |-> IF a \in Pages(proc[p].mem, proc[p].sz) THEN Junk ELSE Stored(v, image)[a]]
        BY <3>2 DEF Free
      <4>. QED
        BY <4>1, <4>2, <4>3
  <2>13. /\ Stored(v, image) \in [Page -> Content]
         /\ \A a \in Page : a \notin New => Stored(v, image)[a] = page[a]
         /\ \A k \in 1..n : v + k - 1 \in New /\ Stored(v, image)[v + k - 1] = image[k]
    BY <2>1, <2>2, <1>StoredIs DEF n
  <2>14. Old \subseteq Page /\ New \subseteq Page
    BY <2>i, <2>2, <1>InsideIs
  <2>15. \A a \in New : a \notin Old
    <3>1. Holds(own, HSeg(p), New) /\ Holds(own, HMem(p), Old) /\ HSeg(p) # HMem(p)
      BY <2>11, OwnersDiffer DEF v, n
    <3>. QED
      <4>. HIDE DEF Old, New
      <4>. QED
        BY <2>14, <3>1, <1>MemoryApart, SMT
  <2>16. page' \in [Page -> Content]
    BY <2>12, <2>13, SMT DEF Content
  <2>17. KeptOf(page', proc')
    <3>1. ASSUME NEW r \in Proc
          PROVE  ImageAt(proc'[r].image, page', proc'[r].mem, proc'[r].sz)
      <4>1. CASE r = p
        <5>1. \A k \in 1..n : page'[v + k - 1] = image[k]
          BY <2>12, <2>13, <2>14, <2>15
        <5>2. image = [k \in 1..n |-> image[k]]
          BY DEF n
        <5>3. image = [k \in 1..n |-> page'[v + k - 1]]
          BY <5>1, <5>2
        <5>. QED
          BY <2>7, <4>1, <5>3 DEF ImageAt
      <4>2. CASE r # p
        <5>. DEFINE Mine == Pages(proc[r].mem, proc[r].sz)
        <5>1. Holds(own, HMem(r), Mine) /\ Holds(own, HMem(p), Old) /\ Holds(own, HSeg(p), New)
              /\ HMem(r) # HMem(p) /\ HMem(r) # HSeg(p)
          BY <2>11, <4>2, OwnersDiffer DEF v, n
        <5>2. /\ proc[r].mem \in Nat /\ proc[r].sz \in Nat /\ Inside(proc[r].mem, proc[r].sz)
          BY <2>i, <2>1, EntryLife, TypeIs DEF LifeOf
        <5>3. Mine \subseteq Page
          BY <2>i, <5>2, <1>InsideIs
        <5>4. \A a \in Mine : a \notin Old /\ a \notin New
          <6>. HIDE DEF Old, New, Mine
          <6>. QED
            BY <5>1, <5>3, <1>MemoryApart, SMT
        <5>5. SamePages(page, page', Mine)
          BY <2>12, <2>13, <5>3, <5>4 DEF SamePages
        <5>6. ImageAt(proc[r].image, page, proc[r].mem, proc[r].sz)
          BY <2>i DEF KeptOf
        <5>7. ImageAt(proc[r].image, page', proc[r].mem, proc[r].sz)
          BY <5>2, <5>5, <5>6, <1>KeptOthers
        <5>. QED
          BY <2>3, <4>2, <5>7
      <4>. QED
        BY <4>1, <4>2
    <3>. QED
      BY <3>1 DEF KeptOf
  <2>18. \E o : OwnOf(o, freelist', proc', pipes')
    <3>. DEFINE o1 == Transfer(own, Old, HFree)
                o2 == Transfer(o1, New, HMem(p))
    <3>0. HFree # HMem(p) /\ HFree # HSeg(p) /\ HMem(p) # HSeg(p) /\ HFree # HPipe
          /\ HPipe # HMem(p) /\ HPipe # HSeg(p)
      BY OwnersDiffer
    <3>1. Given(own, o1, HFree, Old) /\ \A a \in Page : o1[a] \in Owner
      BY <2>10, <1>TransferGives, <1>PipeOwner DEF OwnOf, Given
    <3>2. Given(o1, o2, HMem(p), New)
      <4>. HIDE DEF o1
      <4>. QED
        BY <3>1, <1>TransferGives, <1>OwnerIs
    <3>. HIDE DEF o1, o2
    <3>3. Holds(own, HMem(p), Old) /\ Holds(own, HSeg(p), New) /\ Holds(own, HPipe, pipes)
      BY <2>10, <2>11 DEF OwnOf, v, n
    <3>. HIDE DEF Old, New
    <3>4. Holds(o1, HFree, FreeSet(freelist')) /\ Holds(o1, HMem(p), Old \ Old)
          /\ Holds(o1, HSeg(p), New) /\ Holds(o1, HPipe, pipes)
      <4>1. Holds(o1, HFree, FreeSet(freelist) \cup Old)
        BY <2>11, <3>1 DEF Given
      <4>. QED
        BY <2>12, <3>0, <3>1, <3>3, <4>1 DEF Given
    <3>5. Holds(o2, HFree, FreeSet(freelist')) /\ Holds(o2, HMem(p), (Old \ Old) \cup New)
          /\ Holds(o2, HSeg(p), New \ New) /\ Holds(o2, HPipe, pipes)
      BY <3>0, <3>2, <3>4 DEF Given
    <3>6. (Old \ Old) \cup New = New /\ New \ New = {}
      OBVIOUS
    <3>7. ASSUME NEW r \in Proc
          PROVE  /\ Holds(o2, HMem(r), Pages(proc'[r].mem, proc'[r].sz))
                 /\ Holds(o2, HSeg(r), Pages(proc'[r].seg, proc'[r].len))
                 /\ Holds(o2, HStack(r), {proc'[r].kstack})
      <4>0. HStack(r) # HFree /\ HStack(r) # HMem(p) /\ HStack(r) # HSeg(p)
        BY OwnersDiffer
      <4>1. Holds(o2, HStack(r), {proc[r].kstack})
        <5>1. Holds(o1, HStack(r), {proc[r].kstack})
          BY <2>11, <3>1, <3>3, <4>0 DEF Given
        <5>. QED
          BY <3>2, <3>4, <4>0, <5>1 DEF Given
      <4>2. CASE r = p
        <5>1. Holds(o2, HMem(p), New) /\ Holds(o2, HSeg(p), {})
          BY <3>5, <3>6
        <5>2. Pages(0, 0) = {}
          BY <1>PagesEmpty, SMT
        <5>3. Pages(proc'[p].mem, proc'[p].sz) = New /\ Pages(proc'[p].seg, proc'[p].len) = {}
          BY <2>7, <5>2 DEF New
        <5>. QED
          BY <2>7, <4>1, <4>2, <5>1, <5>3
      <4>3. CASE r # p
        <5>0. /\ HMem(r) # HFree /\ HMem(r) # HMem(p) /\ HMem(r) # HSeg(p)
              /\ HSeg(r) # HFree /\ HSeg(r) # HMem(p) /\ HSeg(r) # HSeg(p)
          BY <4>3, OwnersDiffer
        <5>1. /\ Holds(o1, HMem(r), Pages(proc[r].mem, proc[r].sz))
              /\ Holds(o1, HSeg(r), Pages(proc[r].seg, proc[r].len))
          BY <2>11, <3>1, <3>3, <5>0 DEF Given
        <5>2. /\ Holds(o2, HMem(r), Pages(proc[r].mem, proc[r].sz))
              /\ Holds(o2, HSeg(r), Pages(proc[r].seg, proc[r].len))
          BY <3>2, <3>4, <5>0, <5>1 DEF Given
        <5>. QED
          BY <2>3, <4>1, <4>3, <5>2
      <4>. QED
        BY <4>2, <4>3
    <3>8. OwnOf(o2, freelist', proc', pipes')
      BY <3>2, <3>5, <3>7 DEF OwnOf, Given
    <3>. QED
      BY <3>8
  <2>19. MType'
    BY <2>i, <2>6, <2>12, <2>16 DEF MType
  <2>. QED
    BY <2>9, <2>17, <2>18, <2>19 DEF KInv
  \* An entry without memory expects nothing in it.
<1>ImageEmpty.
     ASSUME NEW pg, NEW v \in Nat
     PROVE  ImageAt(<<>>, pg, v, 0)
  BY SMT DEF ImageAt
<1>OwnStep.
     ASSUME NEW own, OwnOf(own, freelist, proc, pipes), NEW o, NEW h, h # HFree, Moved(own, o, h),
            \A p \in Proc : MemNow(o, h, p) /\ SegNow(o, h, p) /\ StackNow(o, h, p),
            PipesNow(o, h)
     PROVE  OwnOf(o, freelist', proc', pipes')
  <2>. USE <1>OwnStep
  <2>0. \A g, Y : g # HFree /\ g # h /\ Holds(own, g, Y) => Holds(o, g, Y)
    BY DEF Moved
  <2>1. Holds(o, HPipe, pipes')
    <3>1. CASE h = HPipe
      BY <3>1 DEF PipesNow
    <3>2. CASE h # HPipe
      BY <2>0, <3>2, OwnersDiffer DEF PipesNow, OwnOf
    <3>. QED
      BY <3>1, <3>2
  <2>2. ASSUME NEW p \in Proc
        PROVE  /\ Holds(o, HMem(p), Pages(proc'[p].mem, proc'[p].sz))
               /\ Holds(o, HSeg(p), Pages(proc'[p].seg, proc'[p].len))
               /\ Holds(o, HStack(p), {proc'[p].kstack})
    <3>0. /\ Holds(own, HMem(p), Pages(proc[p].mem, proc[p].sz))
          /\ Holds(own, HSeg(p), Pages(proc[p].seg, proc[p].len))
          /\ Holds(own, HStack(p), {proc[p].kstack})
          /\ HMem(p) # HFree /\ HSeg(p) # HFree /\ HStack(p) # HFree
      BY OwnersDiffer DEF OwnOf
    <3>1. MemNow(o, h, p) /\ SegNow(o, h, p) /\ StackNow(o, h, p)
      OBVIOUS
    <3>2. Holds(o, HMem(p), Pages(proc'[p].mem, proc'[p].sz))
      <4>1. CASE h = HMem(p)
        BY <3>1, <4>1 DEF MemNow
      <4>2. CASE h # HMem(p)
        <5>1. Holds(o, HMem(p), Pages(proc[p].mem, proc[p].sz))
          BY <2>0, <3>0, <4>2
        <5>. QED
          BY <3>1, <4>2, <5>1 DEF MemNow
      <4>. QED
        BY <4>1, <4>2
    <3>3. Holds(o, HSeg(p), Pages(proc'[p].seg, proc'[p].len))
      <4>1. CASE h = HSeg(p)
        BY <3>1, <4>1 DEF SegNow
      <4>2. CASE h # HSeg(p)
        <5>1. Holds(o, HSeg(p), Pages(proc[p].seg, proc[p].len))
          BY <2>0, <3>0, <4>2
        <5>. QED
          BY <3>1, <4>2, <5>1 DEF SegNow
      <4>. QED
        BY <4>1, <4>2
    <3>4. Holds(o, HStack(p), {proc'[p].kstack})
      <4>1. CASE h = HStack(p)
        BY <3>1, <4>1 DEF StackNow
      <4>2. CASE h # HStack(p)
        <5>1. Holds(o, HStack(p), {proc[p].kstack})
          BY <2>0, <3>0, <4>2
        <5>. QED
          BY <3>1, <4>2, <5>1 DEF StackNow
      <4>. QED
        BY <4>1, <4>2
    <3>. QED
      BY <3>2, <3>3, <3>4
  <2>. QED
    BY <2>1, <2>2 DEF OwnOf, Moved
<1>PagesNone.
     ASSUME NEW r \in ProcType
     PROVE  /\ r.sz = 0 => Pages(r.mem, r.sz) = {}
            /\ r.len = 0 => Pages(r.seg, r.len) = {}
  BY SMT DEF ProcType, Pages
<1>HoldsNone.
     ASSUME NEW o, NEW h, Holds(o, h, {})
     PROVE  Holds(o, h, {0})
  <2>. USE <1>HoldsNone
  <2>1. 0 \notin Page
    BY SMT DEF Page
  <2>. QED
    BY <2>1 DEF Holds
  \* A step that gives back what h has.
<1>GiveStep.
     ASSUME KInv, NEW h, NEW v, NEW n, Is(h, v, n), Leaves(h, Pages(v, n)), Free(v, n, page),
            proc' \in [Proc -> ProcType], ProcsOf(proc')
     PROVE  KInv'
  <2>. USE <1>GiveStep
  <2>. DEFINE X == Pages(v, n)
  <2>i. MType /\ ProcsOf(proc) /\ KeptOf(page, proc) /\ ListOK(freelist) /\ NPAGES \in Nat
        /\ pipes \subseteq Page /\ proc \in [Proc -> ProcType] /\ page \in [Page -> Content]
    BY KallocAssumption DEF KInv, MType
  <2>1. v \in Nat /\ n \in Nat /\ n > 0 /\ Inside(v, n) /\ h # HFree /\ h \in Owner
    BY DEF Is, Leaves
  <2>2. PICK own : OwnOf(own, freelist, proc, pipes)
    BY DEF KInv
  <2>3. Holds(own, HFree, FreeSet(freelist))
    BY <2>2 DEF OwnOf
  <2>z. PICK Z : Holds(own, h, Z) /\ X \subseteq Z /\ (h = HPipe \/ Z = X)
    BY <2>2 DEF Is
  <2>4. Gives(own, h, v, n)
    BY <2>1, <2>3, <2>z DEF Gives
  <2>5. /\ panicked' = FALSE
        /\ ListOK(freelist')
        /\ FreeSet(freelist') = FreeSet(freelist) \cup X
    BY <2>i, <2>1, <2>4, <1>FreeStep
  <2>6. page' = [a \in Page |-> IF a \in X THEN Junk ELSE page[a]]
    BY DEF Free
  <2>7. page' \in [Page -> Content]
    BY <2>i, <2>6, SMT DEF Content
  <2>8. \A p \in Proc : proc[p] \in ProcType /\ proc'[p] \in ProcType /\ LeavesOf(h, p)
    BY <2>i DEF Leaves
  <2>. DEFINE o == Transfer(own, X, HFree)
  <2>9. Given(own, o, HFree, X)
    BY <2>2, <1>TransferGives, <1>PipeOwner DEF OwnOf
  <2>. HIDE DEF o, X
  <2>10. h # HPipe => Holds(o, h, {})
    <3>1. h # HPipe => Holds(o, h, X \ X)
      BY <2>1, <2>9, <2>z DEF Given
    <3>2. X \ X = {}
      OBVIOUS
    <3>. QED
      BY <3>1, <3>2
  <2>11. Moved(own, o, h)
    <3>1. Holds(o, HFree, FreeSet(freelist'))
      <4>1. Holds(o, HFree, FreeSet(freelist) \cup X)
        BY <2>3, <2>9 DEF Given
      <4>. QED
        BY <2>5, <4>1
    <3>2. ASSUME NEW g, NEW Y, g # HFree, g # h, Holds(own, g, Y) PROVE Holds(o, g, Y)
      BY <2>9, <2>z, <3>2 DEF Given
    <3>. QED
      BY <2>9, <3>1, <3>2 DEF Moved, Given
  <2>12. ASSUME NEW p \in Proc PROVE MemNow(o, h, p)
    <3>0. /\ proc[p].sz = 0 => Pages(proc[p].mem, proc[p].sz) = {}
          /\ proc'[p].sz = 0 => Pages(proc'[p].mem, proc'[p].sz) = {}
      BY <2>8, <1>PagesNone
    <3>. QED
      BY <2>8, <2>10, <3>0, OwnersDiffer DEF LeavesOf, MemNow, SameImage
  <2>13. ASSUME NEW p \in Proc PROVE SegNow(o, h, p)
    <3>0. /\ proc[p].len = 0 => Pages(proc[p].seg, proc[p].len) = {}
          /\ proc'[p].len = 0 => Pages(proc'[p].seg, proc'[p].len) = {}
      BY <2>8, <1>PagesNone
    <3>. QED
      BY <2>8, <2>10, <3>0, OwnersDiffer DEF LeavesOf, SegNow
  <2>14. ASSUME NEW p \in Proc PROVE StackNow(o, h, p)
    BY <2>8, <2>10, <1>HoldsNone, OwnersDiffer DEF LeavesOf, StackNow
  <2>15. PipesNow(o, h) /\ pipes' \subseteq Page
    <3>1. Leaves(h, X)
      BY DEF X
    <3>2. CASE h # HPipe /\ pipes' = pipes
      BY <2>i, <3>2 DEF PipesNow
    <3>3. CASE h = HPipe /\ pipes' = pipes \ X
      <4>1. Holds(own, HPipe, pipes)
        BY <2>2 DEF OwnOf
      <4>2. Holds(o, HPipe, pipes \ X)
        BY <2>1, <2>9, <3>3, <4>1 DEF Given
      <4>. QED
        BY <2>i, <3>3, <4>2 DEF PipesNow
    <3>. QED
      BY <3>1, <3>2, <3>3 DEF Leaves
  <2>16. OwnOf(o, freelist', proc', pipes')
    BY <2>1, <2>2, <2>11, <2>12, <2>13, <2>14, <2>15, <1>OwnStep
  <2>17. ASSUME NEW p \in Proc
         PROVE  ImageAt(proc'[p].image, page', proc'[p].mem, proc'[p].sz)
    <3>0. proc[p].mem \in Nat /\ proc[p].sz \in Nat /\ proc'[p].mem \in Nat
      BY <2>i, TypeIs
    <3>1. CASE h # HMem(p) /\ SameImage(proc[p], proc'[p])
      <4>. DEFINE Mine == Pages(proc[p].mem, proc[p].sz)
      <4>1. Holds(own, HMem(p), Mine) /\ Inside(proc[p].mem, proc[p].sz)
        BY <2>2, <2>i, EntryLife DEF OwnOf, LifeOf
      <4>2. Mine \subseteq Page
        BY <2>i, <3>0, <4>1, <1>InsideIs
      <4>3. \A a \in Mine : a \notin X
        <5>. HIDE DEF Mine
        <5>1. \A a \in Mine : a \notin Z
          BY <2>z, <3>1, <4>1, <4>2, <1>MemoryApart, SMT
        <5>. QED
          BY <2>z, <5>1
      <4>4. SamePages(page, page', Mine)
        BY <2>6, <4>2, <4>3 DEF SamePages
      <4>5. ImageAt(proc[p].image, page, proc[p].mem, proc[p].sz)
        BY <2>i DEF KeptOf
      <4>6. ImageAt(proc[p].image, page', proc[p].mem, proc[p].sz)
        BY <3>0, <4>4, <4>5, <1>KeptOthers
      <4>. QED
        BY <3>1, <4>6 DEF SameImage
    <3>2. CASE proc'[p].sz = 0 /\ proc'[p].image = <<>>
      <4>1. ImageAt(<<>>, page', proc'[p].mem, 0)
        BY <3>0, <1>ImageEmpty, SMT
      <4>. QED
        BY <3>2, <4>1
    <3>. QED
      BY <2>8, <3>1, <3>2 DEF LeavesOf
  <2>18. MType'
    BY <2>5, <2>7, <2>15 DEF MType
  <2>. QED
    BY <2>16, <2>17, <2>18 DEF KInv, KeptOf
<1>PagesOne.
     ASSUME NEW v \in Nat
     PROVE  Pages(v, 1) = {v}
  BY SMT DEF Pages
<1>TakeStep.
     ASSUME KInv, NEW n \in Nat, n > 0, NEW h, Gains(h, kalloc_addr(freelist, n), n),
            Alloc(n), kalloc_addr(freelist, n) # 0, panicked' = panicked,
            page' \in [Page -> Content], KeptOf(page', proc'),
            proc' \in [Proc -> ProcType], ProcsOf(proc')
     PROVE  KInv'
  <2>. USE <1>TakeStep
  <2>. DEFINE v == kalloc_addr(freelist, n)
              X == Pages(v, n)
  <2>i. MType /\ ListOK(freelist) /\ NPAGES \in Nat /\ panicked = FALSE
        /\ pipes \subseteq Page /\ proc \in [Proc -> ProcType]
    BY KallocAssumption DEF KInv, MType
  <2>1. /\ ListOK(freelist')
        /\ v \in Nat
        /\ v # 0 => /\ Inside(v, n)
                    /\ X \subseteq FreeSet(freelist)
                    /\ FreeSet(freelist') = FreeSet(freelist) \ X
    BY <2>i, <1>AllocStep
  <2>2. v # 0 /\ Gains(h, v, n)
    OBVIOUS
  <2>. HIDE DEF v
  <2>3. h \in Owner /\ h # HFree /\ \A p \in Proc : GainsOf(h, v, n, p)
    BY <2>2 DEF Gains
  <2>4. PICK own : OwnOf(own, freelist, proc, pipes)
    BY DEF KInv
  <2>5. Holds(own, HFree, FreeSet(freelist)) /\ X \subseteq Page
    BY <2>i, <2>1, <2>2, <2>4, <1>InsideIs DEF OwnOf
  <2>. DEFINE o == Transfer(own, X, h)
  <2>6. Given(own, o, h, X)
    BY <2>3, <2>4, <1>TransferGives DEF OwnOf
  <2>. HIDE DEF o
  <2>7. Moved(own, o, h)
    <3>. HIDE DEF X
    <3>1. Holds(o, HFree, FreeSet(freelist'))
      <4>1. Holds(o, HFree, FreeSet(freelist) \ X)
        BY <2>3, <2>5, <2>6 DEF Given
      <4>. QED
        BY <2>1, <2>2, <4>1
    <3>2. ASSUME NEW g, NEW Y, g # HFree, g # h, Holds(own, g, Y) PROVE Holds(o, g, Y)
      BY <2>1, <2>2, <2>5, <2>6, <3>2 DEF Given
    <3>. QED
      BY <2>6, <3>1, <3>2 DEF Moved, Given
  <2>8. Holds(own, h, {}) => Holds(o, h, X)
    <3>. HIDE DEF X
    <3>1. {} \cup X = X
      OBVIOUS
    <3>2. Holds(own, h, {}) => Holds(o, h, {} \cup X)
      BY <2>6 DEF Given
    <3>. QED
      BY <3>1, <3>2
  <2>9. ASSUME NEW p \in Proc PROVE MemNow(o, h, p)
    <3>1. CASE h # HMem(p) /\ proc'[p].mem = proc[p].mem /\ proc'[p].sz = proc[p].sz
      BY <3>1 DEF MemNow
    <3>2. CASE h = HMem(p) /\ proc[p].sz = 0 /\ proc'[p].mem = v /\ proc'[p].sz = n
      <4>1. Holds(own, HMem(p), Pages(proc[p].mem, proc[p].sz)) /\ proc[p] \in ProcType
        BY <2>i, <2>4 DEF OwnOf
      <4>2. Pages(proc[p].mem, proc[p].sz) = {}
        BY <3>2, <4>1, <1>PagesNone
      <4>3. Holds(own, h, {})
        BY <3>2, <4>1, <4>2
      <4>. QED
        BY <2>8, <3>2, <4>3 DEF MemNow
    <3>. QED
      BY <2>3, <3>1, <3>2 DEF GainsOf
  <2>10. ASSUME NEW p \in Proc PROVE SegNow(o, h, p)
    BY <2>3 DEF GainsOf, SegNow
  <2>11. ASSUME NEW p \in Proc PROVE StackNow(o, h, p)
    <3>1. CASE h # HStack(p) /\ proc'[p].kstack = proc[p].kstack
      BY <3>1 DEF StackNow
    <3>2. CASE h = HStack(p) /\ proc[p].kstack = 0 /\ n = 1 /\ proc'[p].kstack = v
      <4>1. Holds(own, h, {0})
        BY <2>4, <3>2 DEF OwnOf
      <4>2. 0 \notin Page
        BY SMT DEF Page
      <4>3. Holds(own, h, {})
        BY <4>1, <4>2 DEF Holds
      <4>4. X = {v}
        BY <2>1, <3>2, <1>PagesOne, SMT
      <4>. QED
        BY <2>8, <3>2, <4>3, <4>4 DEF StackNow
    <3>. QED
      BY <2>3, <3>1, <3>2 DEF GainsOf
  <2>12. PipesNow(o, h) /\ pipes' \subseteq Page
    <3>1. CASE h # HPipe /\ pipes' = pipes
      BY <2>i, <3>1 DEF PipesNow
    <3>2. CASE h = HPipe /\ pipes' = pipes \cup X
      <4>1. Holds(own, HPipe, pipes)
        BY <2>4 DEF OwnOf
      <4>. HIDE DEF X
      <4>2. Holds(o, HPipe, pipes \cup X)
        BY <2>6, <3>2, <4>1 DEF Given
      <4>. QED
        BY <2>i, <2>5, <3>2, <4>2 DEF PipesNow
    <3>. QED
      BY <2>2, <3>1, <3>2 DEF Gains
  <2>13. OwnOf(o, freelist', proc', pipes')
    BY <2>3, <2>4, <2>7, <2>9, <2>10, <2>11, <2>12, <1>OwnStep
  <2>14. MType'
    BY <2>i, <2>1, <2>12 DEF MType
  <2>. QED
    BY <2>13, <2>14 DEF KInv
  \* pipealloc()
<1>PipeallocStep.
     ASSUME KInv, NEW p \in Proc, pipealloc(p)
     PROVE  KInv'
  <2>. USE <1>PipeallocStep
  <2>. DEFINE v == kalloc_addr(freelist, 1)
  <2>i. MType /\ ProcsOf(proc) /\ KeptOf(page, proc) /\ ListOK(freelist) /\ page \in [Page -> Content]
        /\ proc \in [Proc -> ProcType] /\ NPAGES \in Nat
    BY KallocAssumption DEF KInv, MType
  <2>0. 1 \in Nat /\ 1 > 0
    BY SMT
  <2>1. /\ Alloc(1) /\ UNCHANGED <<page, proc, panicked>>
        /\ pipes' = IF v = 0 THEN pipes ELSE pipes \cup {v}
    <3>1. (v = 0 => pipes' = pipes) /\ (v # 0 => pipes' = pipes \cup {v})
      BY DEF pipealloc
    <3>. QED
      BY <3>1 DEF pipealloc
  <2>2. v \in Nat /\ (v = 0 => freelist' = freelist)
    BY <2>i, <2>0, <2>1, <1>AllocStep
  <2>3. CASE v = 0
    BY <2>1, <2>2, <2>3, KStutter
  <2>4. CASE v # 0
    <3>1. Pages(v, 1) = {v}
      <4>. HIDE DEF v
      <4>. QED
        BY <2>2, <1>PagesOne, SMT
    <3>2. \A r \in Proc : GainsOf(HPipe, v, 1, r)
      BY <2>1, OwnersDiffer DEF GainsOf
    <3>3. Gains(HPipe, v, 1)
      BY <2>1, <2>4, <3>1, <3>2, OwnersDiffer, <1>PipeOwner DEF Gains
    <3>4. KeptOf(page', proc') /\ ProcsOf(proc') /\ page' \in [Page -> Content]
          /\ proc' \in [Proc -> ProcType] /\ panicked' = panicked
      BY <2>i, <2>1
    <3>. QED
      BY <2>0, <2>1, <2>4, <3>3, <3>4, <1>TakeStep
  <2>. QED
    BY <2>3, <2>4
  \* pipeclose() before its kfree()
<1>PipecloseStep.
     ASSUME KInv, NEW p \in Proc, pipeclose(p) \/ pipeclose_test(p)
     PROVE  KInv'
  BY <1>PipecloseStep, KStutter DEF pipeclose, pipeclose_test
  \* The kfree() of pipeclose(), which stops the kernel if it is the second.
<1>SecondKfree.
     ASSUME ClosingOK, NEW p \in Proc, pipeclose_kfree(p),
            ~(closing[p].v \in pipes /\ ends[closing[p].v] = 0)
     PROVE  Halted'
  <2>. USE <1>SecondKfree
  <2>1. closing[p] \in [at : {"no", "test", "kfree", "panicked", "stole"}, v : Page \cup {0}]
        /\ closing = [q \in Proc |-> closing[q]]
    BY DEF ClosingOK
  <2>2. panicked' = FreesFree(freelist, closing[p].v, 1)
    BY DEF pipeclose_kfree, Free
  <2>3. closing' = [closing EXCEPT
          ![p] = [@ EXCEPT !.at = IF FreesFree(freelist, closing[p].v, 1) THEN "panicked"
                                                                         ELSE "stole"]]
    BY DEF pipeclose_kfree
  <2>4. closing'[p] = [closing[p] EXCEPT
          !.at = IF FreesFree(freelist, closing[p].v, 1) THEN "panicked" ELSE "stole"]
    BY <2>1, <2>3
  <2>5. \A x : [closing[p] EXCEPT !.at = x].at = x
    BY <2>1
  <2>6. closing'[p].at = IF FreesFree(freelist, closing[p].v, 1) THEN "panicked" ELSE "stole"
    BY <2>4, <2>5
  <2>7. CASE FreesFree(freelist, closing[p].v, 1)
    BY <2>6, <2>7 DEF Halted, Stopped
  <2>8. CASE ~FreesFree(freelist, closing[p].v, 1)
    BY <2>2, <2>6, <2>8 DEF Halted, Stopped
  <2>. QED
    BY <2>7, <2>8
<1>FirstKfree.
     ASSUME KInv, NEW p \in Proc, pipeclose_kfree(p), closing[p].v \in pipes
     PROVE  KInv'
  <2>. USE <1>FirstKfree
  <2>i. MType /\ ProcsOf(proc) /\ proc \in [Proc -> ProcType] /\ pipes \subseteq Page /\ NPAGES \in Nat
    BY KallocAssumption DEF KInv, MType
  <2>1. PICK v \in pipes : Free(v, 1, page) /\ pipes' = pipes \ {v} /\ UNCHANGED proc
    BY DEF pipeclose_kfree
  <2>2. v \in Page
    BY <2>i
  <2>3. v \in Nat /\ 1 \in Nat /\ 1 > 0 /\ Inside(v, 1)
    BY <2>i, <2>2, SMT DEF Page, Inside
  <2>4. Pages(v, 1) = {v}
    BY <2>3, <1>PagesOne, SMT
  <2>5. ASSUME NEW own, OwnOf(own, freelist, proc, pipes)
        PROVE  \E Z : Holds(own, HPipe, Z) /\ Pages(v, 1) \subseteq Z
                       /\ (HPipe = HPipe \/ Z = Pages(v, 1))
    BY <2>1, <2>4, <2>5 DEF OwnOf
  <2>6. Is(HPipe, v, 1)
    BY <2>3, <2>5 DEF Is
  <2>7. \A r \in Proc : LeavesOf(HPipe, r)
    BY <2>1, OwnersDiffer DEF LeavesOf, SameImage
  <2>8. Leaves(HPipe, Pages(v, 1))
    BY <2>1, <2>4, <2>7, <1>PipeOwner, OwnersDiffer DEF Leaves
  <2>. QED
    BY <2>i, <2>1, <2>6, <2>8, <1>GiveStep
<1>UnusedIs.
     /\ Unused \in ProcType /\ LifeOf(Unused)
     /\ Unused.state = "UNUSED" /\ Unused.pc = "user" /\ Unused.sz = 0 /\ Unused.len = 0
     /\ Unused.kstack = 0 /\ Unused.image = <<>>
  <2>1. <<>> \in Image
    BY SMT DEF Image
  <2>. QED
    BY <2>1, KallocAssumption, SMT DEF Unused, ProcType, LifeOf, State, Pc, Inside, Moving
  \* The call of a process is over.
<1>DoneType.
     ASSUME NEW r \in ProcType
     PROVE  [r EXCEPT !.pc = "user", !.child = 0] \in ProcType
  BY DEF ProcType, Pc
  \* The child's entry is free again and the call of p is over.
<1>EntryFreed.
     ASSUME KInv, NEW p \in Proc, proc[p].state = "RUNNING", proc[p].pc \in Busy,
            proc' = [proc EXCEPT ![proc[p].child] = Unused, ![p].pc = "user", ![p].child = 0]
     PROVE  /\ proc' \in [Proc -> ProcType] /\ ProcsOf(proc')
            /\ proc'[proc[p].child] = Unused
            /\ \A r \in Proc : r # proc[p].child => SameMemory(proc[r], proc'[r])
  <2>. USE <1>EntryFreed
  <2>. DEFINE q == proc[p].child
  <2>i. MType /\ ProcsOf(proc) /\ proc \in [Proc -> ProcType] /\ proc[p] \in ProcType /\ LifeOf(proc[p])
    BY EntryLife DEF KInv, MType
  <2>1. ChildOf(p, q)
    BY ChildIs
  <2>2. proc' = [proc EXCEPT ![q] = Unused, ![p].pc = "user", ![p].child = 0]
    OBVIOUS
  <2>. HIDE DEF q
  <2>3. q \in Proc /\ q # p /\ proc[q].pc = "user"
        /\ \A r \in Proc : r # p /\ proc[r].pc \in Busy => proc[r].child # q
    BY <2>1 DEF ChildOf
  <2>4. /\ proc'[q] = Unused
        /\ proc'[p] = [proc[p] EXCEPT !.pc = "user", !.child = 0]
        /\ \A r \in Proc : r # p /\ r # q => proc'[r] = proc[r]
        /\ proc' = [r \in Proc |-> proc'[r]]
    BY <2>i, <2>2, <2>3 DEF ProcType
  <2>5. proc'[p] \in ProcType
    BY <2>i, <2>4, <1>DoneType
  <2>6. proc' \in [Proc -> ProcType]
    <3>1. \A r \in Proc : proc'[r] \in ProcType
      BY <2>i, <2>4, <2>5, <1>UnusedIs
    <3>. QED
      BY <2>4, <3>1, <1>FunctionOf
  <2>7. SameMemory(proc[p], proc'[p]) /\ proc'[p].state = "RUNNING" /\ proc'[p].pc = "user"
    BY <2>i, <2>4 DEF ProcType, SameMemory
  <2>b. proc[p].len = 0
    <3>1. \A x \in Moving : x \notin Busy
      BY BusyIs
    <3>. QED
      BY <2>i, <3>1, SMT DEF LifeOf
  <2>8. LifeOf(proc'[p])
    BY <2>i, <2>7, <2>b, SMT DEF LifeOf, Moving, SameMemory
  <2>9. MakesOf(proc', p) /\ BuriesOf(proc', p) /\ ZombieOf(proc', q)
    <3>1. "user" # "wait_kstack" /\ "user" \notin Making /\ "UNUSED" # "ZOMBIE"
      BY SMT DEF Making
    <3>. QED
      BY <2>4, <2>7, <3>1, <1>UnusedIs DEF MakesOf, BuriesOf, ZombieOf
  <2>10. proc'[p].pc \notin Busy
    BY <2>7, BusyIs
  <2>11. Changes(proc, proc', p, q)
    <3>1. proc[p].child = q
      BY DEF q
    <3>2. proc'[q].pc = "user" /\ LifeOf(proc'[q])
      BY <2>4, <1>UnusedIs
    <3>. QED
      BY <2>3, <2>4, <2>7, <2>8, <2>9, <2>10, <3>1, <3>2 DEF Changes
  <2>12. ProcsOf(proc')
    BY <2>i, <2>3, <2>11, <1>TwoChange
  <2>13. \A r \in Proc : r # q => SameMemory(proc[r], proc'[r])
    BY <2>4, <2>7, <1>SameSelf
  <2>. QED
    BY <2>4, <2>6, <2>12, <2>13 DEF q
<1>LeavesOther.
     ASSUME NEW r \in Proc, SameMemory(proc[r], proc'[r]), NEW h,
            h # HMem(r), h # HSeg(r), h # HStack(r)
     PROVE  LeavesOf(h, r)
  BY <1>LeavesOther DEF LeavesOf, SameMemory, SameImage
  \* copyproc() and wait() give back the stack of the child.
<1>StackBack.
     ASSUME KInv, NEW p \in Proc, proc[p].state = "RUNNING", proc[p].pc \in Busy,
            proc[p].pc # "copyproc_kstack",
            Free(proc[proc[p].child].kstack, KSTACKSIZE, page),
            proc' = [proc EXCEPT ![proc[p].child] = Unused, ![p].pc = "user", ![p].child = 0],
            UNCHANGED pipes
     PROVE  KInv'
  <2>. USE <1>StackBack
  <2>. DEFINE q == proc[p].child
              v == proc[q].kstack
  <2>1. ChildOf(p, q) /\ v # 0
    BY ChildIs
  <2>2. proc' \in [Proc -> ProcType] /\ ProcsOf(proc') /\ proc'[q] = Unused
        /\ \A r \in Proc : r # q => SameMemory(proc[r], proc'[r])
    BY <1>EntryFreed
  <2>3. Free(v, 1, page)
    BY DEF KSTACKSIZE
  <2>. HIDE DEF q
  <2>4. q \in Proc /\ v \in Nat /\ v <= NPAGES /\ proc[q].sz = 0 /\ proc[q].len = 0
    BY <2>1 DEF ChildOf
  <2>. HIDE DEF v
  <2>5. 1 \in Nat /\ 1 > 0 /\ Inside(v, 1) /\ Pages(v, 1) = {v}
    BY <2>1, <2>4, <1>PagesOne, KallocAssumption, SMT DEF Inside
  <2>6. ASSUME NEW own, OwnOf(own, freelist, proc, pipes)
        PROVE  \E Z : Holds(own, HStack(q), Z) /\ Pages(v, 1) \subseteq Z
                       /\ (HStack(q) = HPipe \/ Z = Pages(v, 1))
    <3>1. Holds(own, HStack(q), {v})
      BY <2>4, <2>6 DEF OwnOf, v
    <3>. QED
      BY <2>5, <3>1
  <2>7. Is(HStack(q), v, 1)
    BY <2>4, <2>5, <2>6 DEF Is
  <2>8. ASSUME NEW r \in Proc PROVE LeavesOf(HStack(q), r)
    <3>1. CASE r = q
      <4>1. /\ HStack(q) # HMem(r) /\ HStack(q) # HSeg(r) /\ HStack(q) = HStack(r)
            /\ proc'[r].sz = 0 /\ proc'[r].image = <<>> /\ proc'[r].len = 0 /\ proc'[r].kstack = 0
            /\ proc[r].sz = 0 /\ proc[r].len = 0
        BY <2>2, <2>4, <3>1, <1>UnusedIs, OwnersDiffer
      <4>. QED
        BY <4>1 DEF LeavesOf
    <3>2. CASE r # q
      <4>1. HStack(q) # HMem(r) /\ HStack(q) # HSeg(r) /\ HStack(q) # HStack(r)
        BY <3>2, OwnersDiffer
      <4>2. SameMemory(proc[r], proc'[r])
        BY <2>2, <3>2
      <4>. QED
        BY <4>1, <4>2, <1>LeavesOther
    <3>. QED
      BY <3>1, <3>2
  <2>9. Leaves(HStack(q), Pages(v, 1))
    BY <2>4, <2>8, <1>OwnerIs, OwnersDiffer DEF Leaves
  <2>. QED
    BY <2>2, <2>3, <2>7, <2>9, <1>GiveStep
<1>KeepStep.
     ASSUME KInv, UNCHANGED <<freelist, page, pipes, panicked>>,
            proc' \in [Proc -> ProcType], ProcsOf(proc'),
            \A r \in Proc : KeepsOf(r)
     PROVE  KInv'
  <2>. USE <1>KeepStep
  <2>i. proc \in [Proc -> ProcType] /\ KeptOf(page, proc)
    BY DEF KInv, MType
  <2>1. MType'
    BY DEF KInv, MType
  <2>2. PICK own : OwnOf(own, freelist, proc, pipes)
    BY DEF KInv
  <2>3. ASSUME NEW p \in Proc
        PROVE  /\ Holds(own, HMem(p), Pages(proc'[p].mem, proc'[p].sz))
               /\ Holds(own, HSeg(p), Pages(proc'[p].seg, proc'[p].len))
               /\ Holds(own, HStack(p), {proc'[p].kstack})
               /\ ImageAt(proc'[p].image, page, proc'[p].mem, proc'[p].sz)
    <3>0. /\ Holds(own, HMem(p), Pages(proc[p].mem, proc[p].sz))
          /\ Holds(own, HSeg(p), Pages(proc[p].seg, proc[p].len))
          /\ Holds(own, HStack(p), {proc[p].kstack})
          /\ ImageAt(proc[p].image, page, proc[p].mem, proc[p].sz)
          /\ proc[p] \in ProcType /\ proc'[p] \in ProcType
      BY <2>i, <2>2 DEF OwnOf, KeptOf
    <3>1. CASE SameMemory(proc[p], proc'[p])
      BY <3>0, <3>1 DEF SameMemory
    <3>2. CASE /\ proc[p].sz = 0 /\ proc[p].len = 0 /\ proc[p].kstack = 0
               /\ proc'[p].sz = 0 /\ proc'[p].len = 0 /\ proc'[p].kstack = 0 /\ proc'[p].image = <<>>
      <4>1. /\ Pages(proc[p].mem, proc[p].sz) = Pages(proc'[p].mem, proc'[p].sz)
            /\ Pages(proc[p].seg, proc[p].len) = Pages(proc'[p].seg, proc'[p].len)
        BY <3>0, <3>2, <1>PagesNone
      <4>2. ImageAt(<<>>, page, proc'[p].mem, 0)
        <5>1. proc'[p].mem \in Nat
          BY TypeIs
        <5>. QED
          BY <5>1, <1>ImageEmpty, SMT
      <4>. QED
        BY <3>0, <3>2, <4>1, <4>2
    <3>. QED
      BY <3>1, <3>2 DEF KeepsOf
  <2>4. OwnOf(own, freelist', proc', pipes') /\ KeptOf(page', proc')
    BY <2>2, <2>3 DEF OwnOf, KeptOf
  <2>. QED
    BY <2>1, <2>4 DEF KInv
  \* copyproc(): the kernel stack of the child.
<1>KstackStep.
     ASSUME KInv, NEW p \in Proc, copyproc_kstack(p)
     PROVE  KInv'
  <2>. USE <1>KstackStep
  <2>. DEFINE q == proc[p].child
              v == kalloc_addr(freelist, 1)
  <2>i. MType /\ ProcsOf(proc) /\ KeptOf(page, proc) /\ ListOK(freelist) /\ NPAGES \in Nat
        /\ page \in [Page -> Content] /\ proc \in [Proc -> ProcType]
        /\ proc[p] \in ProcType /\ LifeOf(proc[p])
    BY KallocAssumption, EntryLife DEF KInv, MType
  <2>0. 1 \in Nat /\ 1 > 0
    BY SMT
  <2>1. /\ proc[p].state = "RUNNING" /\ proc[p].pc = "copyproc_kstack" /\ Alloc(1)
        /\ UNCHANGED <<page, pipes, panicked>>
        /\ v = 0 => proc' = [proc EXCEPT ![q] = Unused, ![p].pc = "user", ![p].child = 0]
        /\ v # 0 => proc' = [proc EXCEPT ![q].kstack = v, ![q].parent = p, ![p].pc = "copyproc_mem"]
    BY DEF copyproc_kstack, At, Running, KSTACKSIZE
  <2>2. v \in Nat /\ (v = 0 => freelist' = freelist) /\ (v # 0 => Inside(v, 1))
    BY <2>i, <2>0, <2>1, <1>AllocStep
  <2>3. "copyproc_kstack" \in Busy /\ "copyproc_kstack" \in Making
        /\ "copyproc_mem" \in Busy /\ "copyproc_mem" \in Making /\ "copyproc_mem" # "copyproc_kstack"
    BY SMT DEF Busy, Making
  <2>b. proc[p].pc \in Busy /\ proc[p].pc \in Making
    BY <2>1, <2>3
  <2>4. ChildOf(p, q) /\ proc[q].state = "EMBRYO" /\ proc[q].kstack = 0
    <3>1. proc[p].pc = "copyproc_kstack" <=> proc[q].kstack = 0
      BY <2>1, <2>b, ChildIs
    <3>. QED
      BY <2>1, <2>b, <3>1, ChildIs
  <2>5. CASE v = 0
    <3>1. proc' \in [Proc -> ProcType] /\ ProcsOf(proc') /\ proc'[q] = Unused
          /\ \A r \in Proc : r # q => SameMemory(proc[r], proc'[r])
      BY <2>1, <2>5, <2>b, <1>EntryFreed
    <3>2. \A r \in Proc : KeepsOf(r)
      <4>1. KeepsOf(q)
        BY <2>4, <3>1, <1>UnusedIs DEF KeepsOf, ChildOf
      <4>2. \A r \in Proc : r # q => KeepsOf(r)
        BY <3>1 DEF KeepsOf
      <4>. QED
        BY <4>1, <4>2
    <3>. QED
      BY <2>1, <2>2, <2>5, <3>1, <3>2, <1>KeepStep
  <2>6. CASE v # 0
    <3>0. proc' = [proc EXCEPT ![q].kstack = v, ![q].parent = p, ![p].pc = "copyproc_mem"]
      BY <2>1, <2>6
    <3>c. proc[p].child = q /\ Alloc(1) /\ kalloc_addr(freelist, 1) = v
      BY <2>1
    <3>. HIDE DEF q, v
    <3>1. /\ q \in Proc /\ q # p /\ proc[q].pc = "user" /\ proc[q] \in ProcType /\ LifeOf(proc[q])
          /\ \A r \in Proc : r # p /\ proc[r].pc \in Busy => proc[r].child # q
      BY <2>i, <2>4, EntryLife DEF ChildOf
    <3>2. /\ proc'[q] = [proc[q] EXCEPT !.kstack = v, !.parent = p]
          /\ proc'[p] = [proc[p] EXCEPT !.pc = "copyproc_mem"]
          /\ \A r \in Proc : r # p /\ r # q => proc'[r] = proc[r]
          /\ proc' = [r \in Proc |-> proc'[r]]
      BY <2>i, <3>0, <3>1 DEF ProcType
    <3>n. p \in Nat
      BY KallocAssumption, SMT
    <3>3. proc'[q] \in ProcType /\ proc'[p] \in ProcType
      BY <2>i, <2>2, <3>1, <3>2, <3>n DEF ProcType, Pc
    <3>4. proc' \in [Proc -> ProcType]
      <4>1. \A r \in Proc : proc'[r] \in ProcType
        BY <2>i, <3>2, <3>3
      <4>. QED
        BY <3>2, <4>1, <1>FunctionOf
    <3>5. /\ SameMemory(proc[p], proc'[p]) /\ proc'[p].state = "RUNNING" /\ proc'[p].child = q
          /\ proc'[p].pc = "copyproc_mem"
      BY <2>i, <2>1, <3>2, <3>c, SMT DEF ProcType, SameMemory
    <3>6. /\ proc'[q].state = "EMBRYO" /\ proc'[q].pc = "user" /\ proc'[q].kstack = v
          /\ proc'[q].mem = proc[q].mem /\ proc'[q].sz = proc[q].sz
          /\ proc'[q].image = proc[q].image
          /\ proc'[q].seg = proc[q].seg /\ proc'[q].len = proc[q].len
      BY <2>4, <3>1, <3>2, SMT DEF ProcType
    <3>7. v <= NPAGES
      BY <2>i, <2>2, <2>6, SMT DEF Inside
    <3>8. LifeOf(proc'[q])
      BY <2>4, <3>1, <3>6, <3>7 DEF LifeOf, Moving
    <3>9. LifeOf(proc'[p])
      BY <2>i, <2>1, <3>5, SMT DEF LifeOf, Moving, SameMemory
    <3>10. MakesOf(proc', p) /\ BuriesOf(proc', p) /\ ZombieOf(proc', q)
      <4>1. "copyproc_mem" # "wait_kstack" /\ "EMBRYO" # "ZOMBIE"
        BY SMT
      <4>2. proc'[proc'[p].child] = proc'[q] /\ proc'[p].child \in Proc
        BY <3>1, <3>5
      <4>3. MakesOf(proc', p)
        BY <2>3, <2>6, <3>5, <3>6, <4>2 DEF MakesOf
      <4>. QED
        BY <3>5, <3>6, <4>1, <4>3 DEF BuriesOf, ZombieOf
    <3>11. Changes(proc, proc', p, q)
      BY <2>1, <3>1, <3>2, <3>5, <3>6, <3>8, <3>9, <3>10, <3>c DEF Changes
    <3>12. ProcsOf(proc')
      BY <2>i, <3>1, <3>11, <1>TwoChange
    <3>13. KeptOf(page', proc')
      <4>1. \A r \in Proc : SameImage(proc[r], proc'[r])
        <5>1. SameImage(proc[p], proc'[p]) /\ SameImage(proc[q], proc'[q])
          BY <3>5, <3>6 DEF SameImage, SameMemory
        <5>. QED
          BY <3>2, <5>1 DEF SameImage
      <4>2. KeptOf(page, proc')
        BY <2>i, <4>1, <1>KeptSame
      <4>. QED
        BY <2>1, <4>2
    <3>14. ASSUME NEW r \in Proc PROVE GainsOf(HStack(q), v, 1, r)
      <4>0. HStack(q) # HMem(r) /\ HStack(q) # HSeg(r) /\ (r # q => HStack(q) # HStack(r))
        BY OwnersDiffer
      <4>1. CASE r = q
        BY <2>4, <3>6, <4>0, <4>1 DEF GainsOf
      <4>2. CASE r # q
        <5>1. SameMemory(proc[r], proc'[r])
          BY <3>2, <3>5, <4>2, <1>SameSelf
        <5>. QED
          BY <4>0, <4>2, <5>1 DEF GainsOf, SameMemory
      <4>. QED
        BY <4>1, <4>2
    <3>15. Gains(HStack(q), v, 1)
      BY <2>1, <3>1, <3>14, <1>OwnerIs, OwnersDiffer DEF Gains
    <3>16. page' \in [Page -> Content] /\ panicked' = panicked
      BY <2>i, <2>1
    <3>. QED
      BY <2>0, <2>6, <3>4, <3>12, <3>13, <3>15, <3>16, <3>c, <1>TakeStep
  <2>. QED
    BY <2>5, <2>6
<1>CopiedType.
     ASSUME NEW r \in ProcType, NEW v \in Nat, NEW n \in Nat, NEW image \in Image
     PROVE  [r EXCEPT !.state = "RUNNING", !.mem = v, !.sz = n, !.image = image] \in ProcType
  BY DEF ProcType, State
<1>EmptiedType.
     ASSUME NEW r \in ProcType
     PROVE  [r EXCEPT !.mem = 0, !.sz = 0, !.image = <<>>] \in ProcType
  <2>1. <<>> \in Image
    BY SMT DEF Image
  <2>. QED
    BY <2>1 DEF ProcType
  \* copyproc(): the memory of the child, a copy of its parent's.
<1>MemStep.
     ASSUME KInv, NEW p \in Proc, copyproc_mem(p)
     PROVE  KInv'
  <2>. USE <1>MemStep
  <2>. DEFINE q == proc[p].child
              n == proc[p].sz
              v == kalloc_addr(freelist, n)
  <2>i. MType /\ ProcsOf(proc) /\ KeptOf(page, proc) /\ ListOK(freelist) /\ NPAGES \in Nat
        /\ page \in [Page -> Content] /\ proc \in [Proc -> ProcType]
        /\ proc[p] \in ProcType /\ LifeOf(proc[p])
    BY KallocAssumption, EntryLife DEF KInv, MType
  <2>1. /\ proc[p].state = "RUNNING" /\ proc[p].pc = "copyproc_mem" /\ Alloc(n)
        /\ UNCHANGED <<pipes, panicked>>
        /\ v = 0 => page' = page /\ proc' = [proc EXCEPT ![p].pc = "copyproc_undo"]
        /\ v # 0 => /\ proc' = [proc EXCEPT ![q].state = "RUNNING", ![q].mem = v, ![q].sz = n,
                                  ![q].image = proc[p].image, ![p].pc = "user", ![p].child = 0]
                    /\ page' = Stored(v, Loaded(proc[p].mem, n))
    BY DEF copyproc_mem, At, Running
  <2>n. n \in Nat /\ n > 0 /\ n >= 1 /\ proc[p].mem \in Nat
    <3>1. proc[p].state = "RUNNING" /\ LifeOf(proc[p]) /\ proc[p].sz \in Nat /\ proc[p].mem \in Nat
      BY <2>i, <2>1, TypeIs
    <3>2. proc[p].sz >= 1
      BY <3>1 DEF LifeOf
    <3>. QED
      BY <3>1, <3>2, SMT
  <2>2. v \in Nat /\ (v = 0 => freelist' = freelist)
        /\ (v # 0 => Inside(v, n) /\ Pages(v, n) \subseteq FreeSet(freelist))
    BY <2>i, <2>1, <2>n, <1>AllocStep
  <2>3. "copyproc_mem" \in Making /\ "copyproc_mem" # "copyproc_kstack"
        /\ "copyproc_undo" \in Making /\ "copyproc_undo" # "copyproc_kstack"
    BY SMT DEF Making
  <2>b. proc[p].pc \in Busy /\ proc[p].pc \in Making /\ proc[p].pc # "copyproc_kstack"
    BY <2>1, <2>3, BusyIs
  <2>4. ChildOf(p, q) /\ proc[q].state = "EMBRYO" /\ proc[q].kstack # 0
    BY <2>1, <2>b, ChildIs
  <2>c. proc[p].child = q
    OBVIOUS
  <2>. HIDE DEF q
  <2>5. /\ q \in Proc /\ q # p /\ proc[q].pc = "user" /\ proc[q] \in ProcType /\ LifeOf(proc[q])
        /\ proc[q].sz = 0 /\ proc[q].len = 0
        /\ \A r \in Proc : r # p /\ proc[r].pc \in Busy => proc[r].child # q
    BY <2>i, <2>4, EntryLife DEF ChildOf
  <2>6. CASE v = 0
    <3>0. proc' = [proc EXCEPT ![p].pc = "copyproc_undo"]
      BY <2>1, <2>6
    <3>1. /\ proc'[p] = [proc[p] EXCEPT !.pc = "copyproc_undo"]
          /\ \A r \in Proc : r # p => proc'[r] = proc[r]
          /\ proc' = [r \in Proc |-> proc'[r]]
      BY <2>i, <3>0 DEF ProcType
    <3>2. proc'[p] \in ProcType
      BY <2>i, <3>1, SMT DEF ProcType, Pc
    <3>3. proc' \in [Proc -> ProcType]
      <4>1. \A r \in Proc : proc'[r] \in ProcType
        BY <2>i, <3>1, <3>2
      <4>. QED
        BY <3>1, <4>1, <1>FunctionOf
    <3>4. /\ SameMemory(proc[p], proc'[p]) /\ proc'[p].state = "RUNNING" /\ proc'[p].child = q
          /\ proc'[p].pc = "copyproc_undo"
      BY <2>i, <2>1, <2>c, <3>1 DEF ProcType, SameMemory
    <3>5. LifeOf(proc'[p])
      BY <2>i, <2>1, <3>4, SMT DEF LifeOf, Moving, SameMemory
    <3>6. MakesOf(proc', p) /\ BuriesOf(proc', p) /\ ZombieOf(proc', q)
      <4>1. "copyproc_undo" # "wait_kstack" /\ "EMBRYO" # "ZOMBIE"
        BY SMT
      <4>2. proc'[proc'[p].child] = proc[q] /\ proc'[p].child \in Proc /\ proc'[q] = proc[q]
        BY <2>5, <3>1, <3>4
      <4>3. MakesOf(proc', p)
        BY <2>3, <2>4, <3>4, <4>2 DEF MakesOf
      <4>. QED
        BY <2>4, <3>4, <4>1, <4>2, <4>3 DEF BuriesOf, ZombieOf
    <3>7. Changes(proc, proc', p, q)
      BY <2>1, <2>5, <2>c, <3>1, <3>4, <3>5, <3>6 DEF Changes
    <3>8. ProcsOf(proc')
      BY <2>i, <2>5, <3>7, <1>TwoChange
    <3>9. \A r \in Proc : SameMemory(proc[r], proc'[r])
      BY <3>1, <3>4, <1>SameSelf
    <3>. QED
      BY <2>1, <2>2, <2>6, <3>3, <3>8, <3>9, <1>TableStep
  <2>7. CASE v # 0
    <3>. DEFINE image == proc[p].image
    <3>0. /\ proc' = [proc EXCEPT ![q].state = "RUNNING", ![q].mem = v, ![q].sz = n,
                                  ![q].image = image, ![p].pc = "user", ![p].child = 0]
          /\ page' = Stored(v, image)
      <4>1. proc[p].image = Loaded(proc[p].mem, n)
        BY <2>i DEF KeptOf, ImageAt, Loaded
      <4>. QED
        BY <2>1, <2>7, <4>1
    <3>a. Alloc(n) /\ kalloc_addr(freelist, n) = v /\ proc[p].sz = n
      BY <2>1
    <3>t. image \in [1..n -> Content] /\ image \in Image
      <4>1. image = [k \in 1..n |-> page[proc[p].mem + k - 1]]
        BY <2>i DEF KeptOf, ImageAt
      <4>2. \A k \in 1..n : proc[p].mem + k - 1 \in Page
        BY <2>i, <2>n, SMTT(30) DEF LifeOf, Inside, Page
      <4>3. image \in [1..n -> Content]
        BY <2>i, <4>1, <4>2, SMT
      <4>. QED
        BY <2>n, <4>3 DEF Image
    <3>. HIDE DEF v, n, image
    <3>2. /\ proc'[q] = [proc[q] EXCEPT !.state = "RUNNING", !.mem = v, !.sz = n, !.image = image]
          /\ proc'[p] = [proc[p] EXCEPT !.pc = "user", !.child = 0]
          /\ \A r \in Proc : r # p /\ r # q => proc'[r] = proc[r]
          /\ proc' = [r \in Proc |-> proc'[r]]
      BY <2>i, <2>5, <3>0 DEF ProcType
    <3>3. proc'[q] \in ProcType /\ proc'[p] \in ProcType
      <4>1. proc'[p] \in ProcType
        <5>1. [proc[p] EXCEPT !.pc = "user", !.child = 0] \in ProcType
          BY <2>i, <1>DoneType
        <5>. QED
          BY <3>2, <5>1
      <4>2. [proc[q] EXCEPT !.state = "RUNNING", !.mem = v, !.sz = n, !.image = image] \in ProcType
        <5>1. proc[q] \in ProcType /\ v \in Nat /\ n \in Nat /\ image \in Image
          BY <2>2, <2>n, <2>5, <3>t
        <5>. QED
          BY <5>1, <1>CopiedType
      <4>. QED
        BY <3>2, <4>1, <4>2
    <3>4. proc' \in [Proc -> ProcType]
      <4>1. \A r \in Proc : proc'[r] \in ProcType
        BY <2>i, <3>2, <3>3
      <4>. QED
        BY <3>2, <4>1, <1>FunctionOf
    <3>5. SameMemory(proc[p], proc'[p]) /\ proc'[p].state = "RUNNING" /\ proc'[p].pc = "user"
      BY <2>i, <2>1, <3>2, SMT DEF ProcType, SameMemory
    <3>6. /\ proc'[q].state = "RUNNING" /\ proc'[q].pc = "user" /\ proc'[q].kstack = proc[q].kstack
          /\ proc'[q].mem = v /\ proc'[q].sz = n /\ proc'[q].image = image
          /\ proc'[q].seg = proc[q].seg /\ proc'[q].len = proc[q].len
      BY <2>5, <3>2, SMTT(30) DEF ProcType
    <3>8. LifeOf(proc'[q])
      <4>1. proc[q].kstack \in Nat /\ proc[q].kstack >= 1
        BY <2>4, <2>5, SMTT(30) DEF ProcType
      <4>. QED
        BY <2>n, <2>2, <2>5, <2>7, <3>6, <4>1, SMTT(30) DEF LifeOf, Moving
    <3>9. LifeOf(proc'[p])
      BY <2>i, <2>1, <3>5, SMT DEF LifeOf, Moving, SameMemory
    <3>10. MakesOf(proc', p) /\ BuriesOf(proc', p) /\ ZombieOf(proc', q)
      <4>1. "user" # "wait_kstack" /\ "RUNNING" # "ZOMBIE" /\ "user" \notin Making
        BY SMT DEF Making
      <4>. QED
        BY <3>5, <3>6, <4>1 DEF MakesOf, BuriesOf, ZombieOf
    <3>11. Changes(proc, proc', p, q)
      <4>1. proc'[p].pc \notin Busy
        BY <3>5, BusyIs
      <4>. QED
        BY <2>1, <2>5, <2>c, <3>2, <3>5, <3>6, <3>8, <3>9, <3>10, <4>1 DEF Changes
    <3>12. ProcsOf(proc')
      BY <2>i, <2>5, <3>11, <1>TwoChange
    <3>13. /\ page' \in [Page -> Content]
           /\ \A a \in Page : a \notin Pages(v, n) => page'[a] = page[a]
           /\ \A k \in 1..n : page'[v + k - 1] = image[k]
      <4>1. /\ Stored(v, image) \in [Page -> Content]
            /\ \A a \in Page : a \notin Pages(v, n) => Stored(v, image)[a] = page[a]
            /\ \A k \in 1..n : Stored(v, image)[v + k - 1] = image[k]
        BY <2>i, <2>2, <2>n, <2>7, <3>t, <1>StoredIs
      <4>. QED
        BY <3>0, <4>1
    <3>14. KeptOf(page', proc')
      <4>1. ASSUME NEW r \in Proc
            PROVE  ImageAt(proc'[r].image, page', proc'[r].mem, proc'[r].sz)
        <5>1. CASE r = q
          <6>1. image = [k \in 1..n |-> image[k]]
            BY <3>t
          <6>2. image = [k \in 1..n |-> page'[v + k - 1]]
            BY <3>13, <6>1
          <6>. QED
            BY <3>6, <5>1, <6>2 DEF ImageAt
        <5>2. CASE r # q
          <6>. DEFINE Mine == Pages(proc[r].mem, proc[r].sz)
          <6>1. PICK own : OwnOf(own, freelist, proc, pipes)
            BY DEF KInv
          <6>2. Holds(own, HMem(r), Mine) /\ Holds(own, HFree, FreeSet(freelist)) /\ HMem(r) # HFree
            BY <6>1, OwnersDiffer DEF OwnOf
          <6>3. /\ proc[r].mem \in Nat /\ proc[r].sz \in Nat /\ Inside(proc[r].mem, proc[r].sz)
            BY <2>i, EntryLife, TypeIs DEF LifeOf
          <6>4. Mine \subseteq Page
            BY <2>i, <6>3, <1>InsideIs
          <6>5. \A a \in Mine : a \notin Pages(v, n)
            <7>. HIDE DEF Mine
            <7>1. \A a \in Mine : a \notin FreeSet(freelist)
              BY <6>2, <6>4, <1>MemoryApart, SMT
            <7>. QED
              BY <2>2, <2>7, <7>1
          <6>6. SamePages(page, page', Mine)
            BY <3>13, <6>4, <6>5 DEF SamePages
          <6>7. ImageAt(proc[r].image, page, proc[r].mem, proc[r].sz)
            BY <2>i DEF KeptOf
          <6>8. ImageAt(proc[r].image, page', proc[r].mem, proc[r].sz)
            BY <6>3, <6>6, <6>7, <1>KeptOthers
          <6>9. SameMemory(proc[r], proc'[r])
            BY <3>2, <3>5, <5>2, <1>SameSelf
          <6>. QED
            BY <6>8, <6>9 DEF SameMemory
        <5>. QED
          BY <5>1, <5>2
      <4>. QED
        BY <4>1 DEF KeptOf
    <3>15. ASSUME NEW r \in Proc PROVE GainsOf(HMem(q), v, n, r)
      <4>0. HMem(q) # HStack(r) /\ HMem(q) # HSeg(r) /\ (r # q => HMem(q) # HMem(r))
        BY OwnersDiffer
      <4>1. CASE r = q
        BY <2>5, <3>6, <4>0, <4>1 DEF GainsOf
      <4>2. CASE r # q
        <5>1. SameMemory(proc[r], proc'[r])
          BY <3>2, <3>5, <4>2, <1>SameSelf
        <5>. QED
          BY <4>0, <4>2, <5>1 DEF GainsOf, SameMemory
      <4>. QED
        BY <4>1, <4>2
    <3>16. Gains(HMem(q), v, n) /\ panicked' = panicked
      BY <2>1, <2>5, <3>15, <1>OwnerIs, OwnersDiffer DEF Gains
    <3>. QED
      BY <2>n, <2>7, <3>4, <3>12, <3>13, <3>14, <3>16, <3>a, <1>TakeStep
  <2>. QED
    BY <2>6, <2>7
  \* copyproc() without memory for the child, and the end of wait().
<1>UndoStep.
     ASSUME KInv, NEW p \in Proc, copyproc_undo(p) \/ wait_kstack(p)
     PROVE  KInv'
  <2>. USE <1>UndoStep
  <2>1. /\ proc[p].state = "RUNNING" /\ proc[p].pc \in {"copyproc_undo", "wait_kstack"}
        /\ Free(proc[proc[p].child].kstack, KSTACKSIZE, page)
        /\ proc' = [proc EXCEPT ![proc[p].child] = Unused, ![p].pc = "user", ![p].child = 0]
        /\ UNCHANGED pipes
    BY DEF copyproc_undo, wait_kstack, At, Running
  <2>2. proc[p].pc \in Busy /\ proc[p].pc # "copyproc_kstack"
    BY <2>1, SMT DEF Busy, Making
  <2>. QED
    BY <2>1, <2>2, <1>StackBack
  \* wait(): the memory of the child.
<1>WaitStep.
     ASSUME KInv, NEW p \in Proc, wait(p)
     PROVE  KInv'
  <2>. USE <1>WaitStep
  <2>i. MType /\ ProcsOf(proc) /\ proc \in [Proc -> ProcType] /\ NPAGES \in Nat
        /\ proc[p] \in ProcType /\ LifeOf(proc[p])
    BY KallocAssumption, EntryLife DEF KInv, MType
  <2>1. PICK q \in Proc :
          /\ proc[q].state = "ZOMBIE" /\ proc[q].parent = p
          /\ Free(proc[q].mem, proc[q].sz, page)
          /\ proc' = [proc EXCEPT ![q].mem = 0, ![q].sz = 0, ![q].image = <<>>,
                                  ![p].pc = "wait_kstack", ![p].child = q]
    BY DEF wait
  <2>2. proc[p].state = "RUNNING" /\ proc[p].pc = "user" /\ pipes' = pipes
    BY DEF wait, At, Running
  <2>3. "RUNNING" # "ZOMBIE" /\ "EMBRYO" # "ZOMBIE" /\ "user" # "wait_kstack"
    BY SMT
  <2>4. p # q /\ proc[q] \in ProcType /\ LifeOf(proc[q]) /\ ZombieOf(proc, q)
    BY <2>i, <2>1, <2>2, <2>3, EntryLife
  <2>5. \A r \in Proc : r # p /\ proc[r].pc \in Busy => proc[r].child # q
    <3>1. SUFFICES ASSUME NEW r \in Proc, r # p, proc[r].pc \in Busy, proc[r].child = q PROVE FALSE
      OBVIOUS
    <3>2. MakesOf(proc, r) /\ BuriesOf(proc, r)
      BY <2>i, EntryLife
    <3>3. proc[q].state # "EMBRYO"
      BY <2>1, <2>3
    <3>4. CASE proc[r].pc \in Making
      BY <3>1, <3>2, <3>3, <3>4 DEF MakesOf
    <3>5. CASE proc[r].pc = "wait_kstack"
      BY <2>1, <3>1, <3>2, <3>5 DEF BuriesOf
    <3>. QED
      BY <3>1, <3>4, <3>5, BusyIs
  <2>6. proc[q].sz >= 1
    <3>1. ASSUME NEW s \in Proc, proc[s].pc = "wait_kstack", proc[s].child = q PROVE FALSE
      BY <2>2, <2>3, <2>5, <3>1, BusyIs
    <3>. QED
      BY <2>1, <2>4, <3>1 DEF ZombieOf
  <2>7. proc[q].pc = "user" /\ proc[q].len = 0 /\ proc[q].kstack >= 1 /\ proc[q].kstack <= NPAGES
        /\ Inside(proc[q].mem, proc[q].sz) /\ proc[q].mem \in Nat /\ proc[q].sz \in Nat
        /\ proc[q].sz > 0
    <3>1. proc[q].pc = "user" /\ proc[q].mem \in Nat /\ proc[q].sz \in Nat
          /\ proc[q].kstack >= 1 /\ proc[q].kstack <= NPAGES
          /\ Inside(proc[q].mem, proc[q].sz)
      BY <2>i, <2>1, <2>3, <2>4, TypeIs DEF LifeOf
    <3>2. proc[q].len = 0
      BY <2>4, <3>1, SMT DEF LifeOf, Moving
    <3>. QED
      BY <2>6, <3>1, <3>2, SMT
  <2>8. /\ proc'[q] = [proc[q] EXCEPT !.mem = 0, !.sz = 0, !.image = <<>>]
        /\ proc'[p] = [proc[p] EXCEPT !.pc = "wait_kstack", !.child = q]
        /\ \A r \in Proc : r # p /\ r # q => proc'[r] = proc[r]
        /\ proc' = [r \in Proc |-> proc'[r]]
    BY <2>i, <2>1, <2>4 DEF ProcType
  <2>9. proc'[p] \in ProcType
    <3>1. q \in Nat
      BY KallocAssumption, SMT
    <3>2. proc[p] \in ProcType /\ proc'[p] = [proc[p] EXCEPT !.pc = "wait_kstack", !.child = q]
      BY <2>i, <2>8
    <3>. QED
      BY <3>1, <3>2 DEF ProcType, Pc
  <2>10. proc'[q] \in ProcType
    <3>1. [proc[q] EXCEPT !.mem = 0, !.sz = 0, !.image = <<>>] \in ProcType
      BY <2>4, <1>EmptiedType
    <3>. QED
      BY <2>8, <3>1
  <2>11. proc' \in [Proc -> ProcType]
    <3>1. \A r \in Proc : proc'[r] \in ProcType
      BY <2>i, <2>8, <2>9, <2>10
    <3>. QED
      BY <2>8, <3>1, <1>FunctionOf
  <2>12. SameMemory(proc[p], proc'[p]) /\ proc'[p].state = "RUNNING" /\ proc'[p].pc = "wait_kstack"
         /\ proc'[p].child = q
    BY <2>i, <2>2, <2>8, SMT DEF ProcType, SameMemory
  <2>13. /\ proc'[q].state = "ZOMBIE" /\ proc'[q].pc = "user" /\ proc'[q].kstack = proc[q].kstack
         /\ proc'[q].mem = 0 /\ proc'[q].sz = 0 /\ proc'[q].image = <<>>
         /\ proc'[q].seg = proc[q].seg /\ proc'[q].len = 0 /\ proc'[q].parent = p
    BY <2>1, <2>4, <2>7, <2>8 DEF ProcType
  <2>14. LifeOf(proc'[q])
    BY <2>7, <2>13, SMT DEF LifeOf, Moving, Inside
  <2>15. LifeOf(proc'[p])
    BY <2>i, <2>2, <2>12, SMT DEF LifeOf, Moving, SameMemory
  <2>16. MakesOf(proc', p) /\ BuriesOf(proc', p) /\ ZombieOf(proc', q)
    <3>1. "wait_kstack" \notin Making
      BY BusyIs
    <3>2. proc'[proc'[p].child] = proc'[q] /\ proc'[p].child \in Proc
      BY <2>12
    <3>3. MakesOf(proc', p)
      BY <2>12, <3>1 DEF MakesOf
    <3>4. BuriesOf(proc', p)
      BY <2>12, <2>13, <3>2 DEF BuriesOf
    <3>5. ZombieOf(proc', q)
      BY <2>12 DEF ZombieOf
    <3>. QED
      BY <3>3, <3>4, <3>5
  <2>17. Changes(proc, proc', p, q)
    <3>1. proc[p].pc \notin Busy
      BY <2>2, BusyIs
    <3>. QED
      BY <2>2, <2>4, <2>5, <2>7, <2>8, <2>12, <2>13, <2>14, <2>15, <2>16, <3>1 DEF Changes
  <2>18. ProcsOf(proc')
    BY <2>i, <2>17, <1>TwoChange
  <2>19. ASSUME NEW own, OwnOf(own, freelist, proc, pipes)
         PROVE  \E Z : Holds(own, HMem(q), Z) /\ Pages(proc[q].mem, proc[q].sz) \subseteq Z
                        /\ (HMem(q) = HPipe \/ Z = Pages(proc[q].mem, proc[q].sz))
    BY <2>19 DEF OwnOf
  <2>20. Is(HMem(q), proc[q].mem, proc[q].sz)
    BY <2>7, <2>19 DEF Is
  <2>21. ASSUME NEW r \in Proc PROVE LeavesOf(HMem(q), r)
    <3>0. HMem(q) # HStack(r) /\ HMem(q) # HSeg(r) /\ (r # q => HMem(q) # HMem(r))
      BY OwnersDiffer
    <3>1. CASE r = q
      <4>1. /\ HMem(q) = HMem(r) /\ proc'[r].sz = 0 /\ proc'[r].image = <<>>
            /\ proc[r].len = 0 /\ proc'[r].len = 0 /\ proc'[r].kstack = proc[r].kstack
        BY <2>7, <2>13, <3>1
      <4>. QED
        BY <3>0, <4>1 DEF LeavesOf
    <3>2. CASE r # q
      <4>1. SameMemory(proc[r], proc'[r])
        BY <2>8, <2>12, <3>2, <1>SameSelf
      <4>. QED
        BY <3>0, <3>2, <4>1, <1>LeavesOther
    <3>. QED
      BY <3>1, <3>2
  <2>22. Leaves(HMem(q), Pages(proc[q].mem, proc[q].sz))
    BY <2>2, <2>21, <1>OwnerIs, OwnersDiffer DEF Leaves
  <2>. QED
    BY <2>1, <2>11, <2>18, <2>20, <2>22, <1>GiveStep
  \* The processes' actions that exec() and sbrk() end with.
<1>SegmentType.
     ASSUME NEW r \in ProcType
     PROVE  [r EXCEPT !.pc = "user", !.seg = 0, !.len = 0] \in ProcType
  BY DEF ProcType, Pc
<1>BadStep.
     ASSUME KInv, NEW p \in Proc, exec_bad(p)
     PROVE  KInv'
  <2>. USE <1>BadStep
  <2>. DEFINE v == proc[p].seg
              n == proc[p].len
  <2>i. MType /\ ProcsOf(proc) /\ proc \in [Proc -> ProcType] /\ NPAGES \in Nat
        /\ proc[p] \in ProcType /\ LifeOf(proc[p])
    BY KallocAssumption, EntryLife DEF KInv, MType
  <2>1. /\ proc[p].state = "RUNNING" /\ proc[p].pc = "exec_load" /\ pipes' = pipes
        /\ Free(v, n, page)
        /\ proc' = [proc EXCEPT ![p].pc = "user", ![p].seg = 0, ![p].len = 0]
    BY DEF exec_bad, At, Running
  <2>2. v \in Nat /\ n \in Nat /\ n > 0 /\ Inside(v, n)
    <3>1. v \in Nat /\ n \in Nat
      BY <2>i, TypeIs
    <3>2. "exec_load" \in Moving
      BY SMT DEF Moving
    <3>3. n # 0 /\ Inside(v, n)
      BY <2>i, <2>1, <3>2 DEF LifeOf
    <3>. HIDE DEF n, v
    <3>. QED
      BY <3>1, <3>3, SMT
  <2>3. /\ proc'[p] = [proc[p] EXCEPT !.pc = "user", !.seg = 0, !.len = 0]
        /\ \A r \in Proc : r # p => proc'[r] = proc[r]
        /\ proc' = [r \in Proc |-> proc'[r]]
    BY <2>i, <2>1 DEF ProcType
  <2>4. proc' \in [Proc -> ProcType]
    <3>1. [proc[p] EXCEPT !.pc = "user", !.seg = 0, !.len = 0] \in ProcType
      BY <2>i, <1>SegmentType
    <3>2. \A r \in Proc : proc'[r] \in ProcType
      BY <2>i, <2>3, <3>1
    <3>. QED
      BY <2>3, <3>2, <1>FunctionOf
  <2>5. /\ proc'[p].state = "RUNNING" /\ proc'[p].pc = "user"
        /\ proc'[p].mem = proc[p].mem /\ proc'[p].sz = proc[p].sz /\ proc'[p].image = proc[p].image
        /\ proc'[p].kstack = proc[p].kstack /\ proc'[p].seg = 0 /\ proc'[p].len = 0
    BY <2>i, <2>1, <2>3 DEF ProcType
  <2>6. LifeOf(proc'[p])
    <3>1. LifeOf(proc[p]) /\ proc[p].state = "RUNNING"
      BY <2>i, <2>1
    <3>. QED
      BY <2>5, <3>1, SMT DEF LifeOf, Moving, Inside
  <2>7. ProcsOf(proc')
    <3>1. proc[p].pc \notin Busy /\ proc'[p].pc \notin Busy
      BY <2>1, <2>5, BusyIs
    <3>2. ChangesOne(proc, proc', p)
      BY <2>1, <2>3, <2>5, <2>6, <3>1 DEF ChangesOne
    <3>. QED
      BY <2>i, <3>2, <1>OneChange
  <2>8. ASSUME NEW own, OwnOf(own, freelist, proc, pipes)
        PROVE  \E Z : Holds(own, HSeg(p), Z) /\ Pages(v, n) \subseteq Z
                       /\ (HSeg(p) = HPipe \/ Z = Pages(v, n))
    BY <2>8 DEF OwnOf
  <2>9. Is(HSeg(p), v, n)
    BY <2>2, <2>8 DEF Is
  <2>10. ASSUME NEW r \in Proc PROVE LeavesOf(HSeg(p), r)
    <3>0. HSeg(p) # HStack(r) /\ HSeg(p) # HMem(r) /\ (r # p => HSeg(p) # HSeg(r))
      BY OwnersDiffer
    <3>1. CASE r = p
      <4>1. /\ HSeg(p) = HSeg(r) /\ SameImage(proc[r], proc'[r])
            /\ proc'[r].len = 0 /\ proc'[r].kstack = proc[r].kstack
        BY <2>5, <3>1 DEF SameImage
      <4>. QED
        BY <3>0, <4>1 DEF LeavesOf
    <3>2. CASE r # p
      <4>1. SameMemory(proc[r], proc'[r])
        BY <2>3, <3>2, <1>SameSelf
      <4>. QED
        BY <3>0, <3>2, <4>1, <1>LeavesOther
    <3>. QED
      BY <3>1, <3>2
  <2>11. Leaves(HSeg(p), Pages(v, n))
    BY <2>1, <2>10, <1>OwnerIs, OwnersDiffer DEF Leaves
  <2>. QED
    BY <2>1, <2>4, <2>7, <2>9, <2>11, <1>GiveStep
<1>CommitStep.
     ASSUME KInv, NEW p \in Proc, exec_commit(p)
     PROVE  KInv'
  <2>. USE <1>CommitStep
  <2>. DEFINE text == [k \in 1..proc[p].len |-> "text"]
  <2>1. "exec_load" \in Moving /\ "text" \in Content
    BY SMT DEF Moving, Content
  <2>2. At(p, "exec_load") /\ Free(proc[p].mem, proc[p].sz, Stored(proc[p].seg, text))
        /\ Replaced(p, text) /\ UNCHANGED pipes
    BY DEF exec_commit
  <2>3. text \in [1..proc[p].len -> Content]
    BY <2>1
  <2>. HIDE DEF text
  <2>. QED
    BY <2>1, <2>2, <2>3, <1>ReplaceStep
<1>MoveStep.
     ASSUME KInv, NEW p \in Proc, growproc_move(p)
     PROVE  KInv'
  <2>. USE <1>MoveStep
  <2>. DEFINE image == Grown(proc[p].image, proc[p].len)
  <2>i. MType /\ ProcsOf(proc) /\ KeptOf(page, proc) /\ NPAGES \in Nat
        /\ proc[p] \in ProcType /\ LifeOf(proc[p]) /\ page \in [Page -> Content]
        /\ proc[p].mem \in Nat /\ proc[p].sz \in Nat
    BY KallocAssumption, EntryLife, TypeIs DEF KInv, MType
  <2>1. "growproc_move" \in Moving /\ Cleared \in Content
    BY SMT DEF Moving, Content
  <2>2. proc[p].image = Loaded(proc[p].mem, proc[p].sz)
    BY <2>i DEF KeptOf, ImageAt, Loaded
  <2>3. At(p, "growproc_move") /\ Free(proc[p].mem, proc[p].sz, Stored(proc[p].seg, image))
        /\ Replaced(p, image) /\ UNCHANGED pipes
    BY <2>2 DEF growproc_move
  <2>4. \A k \in DOMAIN proc[p].image : proc[p].image[k] \in Content
    <3>1. proc[p].image = [k \in 1..proc[p].sz |-> page[proc[p].mem + k - 1]]
      BY <2>i DEF KeptOf, ImageAt
    <3>2. ASSUME NEW k \in 1..proc[p].sz PROVE proc[p].mem + k - 1 \in Page
      <4>1. Inside(proc[p].mem, proc[p].sz)
        BY <2>i DEF LifeOf
      <4>. QED
        BY <2>i, <4>1, SMT DEF Inside, Page
    <3>. QED
      BY <2>i, <3>1, <3>2
  <2>5. image \in [1..proc[p].len -> Content]
    <3>1. \A k \in 1..proc[p].len :
            (IF k \in DOMAIN proc[p].image THEN proc[p].image[k] ELSE Cleared) \in Content
      BY <2>1, <2>4
    <3>. QED
      BY <3>1 DEF Grown
  <2>. HIDE DEF image
  <2>. QED
    BY <2>1, <2>3, <2>5, <1>ReplaceStep
<1>ExecStep.
     ASSUME KInv, NEW p \in Proc, exec(p)
     PROVE  KInv'
  <2>. USE <1>ExecStep
  <2>1. PICK n \in ExecSizes :
          /\ At(p, "user") /\ Alloc(n) /\ UNCHANGED <<page, pipes, panicked>>
          /\ proc' = IF kalloc_addr(freelist, n) = 0 THEN proc
                     ELSE [proc EXCEPT ![p].pc = "exec_load", ![p].seg = kalloc_addr(freelist, n),
                                       ![p].len = n]
    BY DEF exec
  <2>2. n \in Nat /\ n > 0
    BY KallocAssumption, SMT
  <2>3. "exec_load" \in Moving /\ "exec_load" # "growproc_move"
    BY SMT DEF Moving
  <2>. QED
    BY <2>1, <2>2, <2>3, <1>SegStep
<1>GrowStep.
     ASSUME KInv, NEW p \in Proc, NEW n \in Nat, growproc(p, n)
     PROVE  KInv'
  <2>. USE <1>GrowStep
  <2>. DEFINE len == proc[p].sz + n
  <2>1. /\ At(p, "user") /\ Alloc(len) /\ UNCHANGED <<page, pipes, panicked>>
        /\ proc' = IF kalloc_addr(freelist, len) = 0 THEN proc
                   ELSE [proc EXCEPT ![p].pc = "growproc_move", ![p].seg = kalloc_addr(freelist, len),
                                     ![p].len = len]
    BY DEF growproc
  <2>2. proc[p].sz \in Nat /\ proc[p].sz >= 1
    <3>1. proc[p] \in ProcType /\ LifeOf(proc[p]) /\ proc[p].state = "RUNNING" /\ proc[p].sz \in Nat
      BY <2>1, EntryLife, TypeIs DEF KInv, MType, At, Running
    <3>. QED
      BY <3>1 DEF LifeOf
  <2>3. len \in Nat /\ len > 0 /\ len >= proc[p].sz
    BY <2>2, SMT
  <2>4. "growproc_move" \in Moving
    BY SMT DEF Moving
  <2>. HIDE DEF len
  <2>. QED
    BY <2>1, <2>3, <2>4, <1>SegStep
<1>AdoptedIs.
     ASSUME NEW r \in ProcType
     PROVE  /\ [r EXCEPT !.parent = 1] \in ProcType
            /\ Relative(r, [r EXCEPT !.parent = 1])
  BY SMT DEF ProcType, Relative, SameMemory
<1>ExitedIs.
     ASSUME NEW r \in ProcType
     PROVE  LET z == [r EXCEPT !.state = "ZOMBIE"]
            IN /\ z \in ProcType /\ z.state = "ZOMBIE" /\ z.pc = r.pc /\ SameMemory(r, z)
  BY SMT DEF ProcType, State, SameMemory
<1>ExitStep.
     ASSUME KInv, NEW p \in Proc, exit(p)
     PROVE  KInv'
  <2>. USE <1>ExitStep
  <2>i. MType /\ ProcsOf(proc) /\ proc \in [Proc -> ProcType]
        /\ proc[p] \in ProcType /\ LifeOf(proc[p])
    BY EntryLife DEF KInv, MType
  <2>0. /\ proc[p].state = "RUNNING" /\ proc[p].pc = "user"
        /\ UNCHANGED <<freelist, page, pipes, panicked>>
    BY DEF exit, At, Running
  <2>1. /\ proc' = [r \in Proc |-> proc'[r]]
        /\ proc'[p] = [proc[p] EXCEPT !.state = "ZOMBIE"]
        /\ \A r \in Proc : r # p /\ proc[r].parent = p => proc'[r] = [proc[r] EXCEPT !.parent = 1]
        /\ \A r \in Proc : r # p /\ proc[r].parent # p => proc'[r] = proc[r]
    <3>1. proc' = [q \in Proc |->
            CASE q = p -> [proc[p] EXCEPT !.state = "ZOMBIE"]
              [] q # p /\ proc[q].parent = p -> [proc[q] EXCEPT !.parent = 1]
              [] OTHER -> proc[q]]
      BY DEF exit
    <3>. QED
      BY <3>1, SMT
  <2>2. /\ proc'[p] \in ProcType /\ proc'[p].state = "ZOMBIE" /\ proc'[p].pc = "user"
        /\ SameMemory(proc[p], proc'[p])
    BY <2>i, <2>0, <2>1, <1>ExitedIs
  <2>3. \A r \in Proc : r # p => proc'[r] \in ProcType /\ Relative(proc[r], proc'[r])
    <3>1. ASSUME NEW r \in Proc, r # p PROVE proc'[r] \in ProcType /\ Relative(proc[r], proc'[r])
      <4>1. proc[r] \in ProcType
        BY <2>i
      <4>2. CASE proc[r].parent = p
        BY <2>1, <3>1, <4>1, <4>2, <1>AdoptedIs
      <4>3. CASE proc[r].parent # p
        BY <2>1, <3>1, <4>1, <4>3, <1>SameSelf DEF Relative
      <4>. QED
        BY <4>2, <4>3
    <3>. QED
      BY <3>1
  <2>4. proc' \in [Proc -> ProcType]
    BY <2>1, <2>2, <2>3, <1>FunctionOf
  <2>5. \A r \in Proc : SameMemory(proc[r], proc'[r])
    BY <2>2, <2>3 DEF Relative
  <2>s. "RUNNING" # "EMBRYO" /\ "RUNNING" # "ZOMBIE" /\ "user" # "wait_kstack" /\ "user" \notin Making
        /\ "ZOMBIE" # "UNUSED" /\ "ZOMBIE" # "EMBRYO"
    BY SMT DEF Making
  <2>6. LifeOf(proc'[p])
    BY <2>i, <2>0, <2>2, SMT DEF LifeOf, SameMemory, Moving
  <2>7. ASSUME NEW r \in Proc, r # p PROVE LifeOf(proc'[r])
    <3>1. LifeOf(proc[r]) /\ Relative(proc[r], proc'[r])
      BY <2>i, <2>3, <2>7, EntryLife
    <3>2. proc[r].state = "UNUSED" => proc'[r] = proc[r]
      <4>1. SUFFICES ASSUME proc[r] = Unused PROVE proc[r].parent # p
        BY <2>1, <2>7, <3>1 DEF LifeOf
      <4>2. p # 0
        BY KallocAssumption, SMT
      <4>. QED
        BY <4>1, <4>2, SMT DEF Unused
    <3>3. CASE proc[r].state = "UNUSED"
      BY <3>1, <3>2, <3>3
    <3>4. CASE proc[r].state # "UNUSED"
      BY <3>1, <3>4 DEF LifeOf, Relative, SameMemory
    <3>. QED
      BY <3>3, <3>4
  <2>8. ASSUME NEW r \in Proc PROVE MakesOf(proc', r)
    <3>1. CASE r = p
      BY <2>2, <2>s, <3>1 DEF MakesOf
    <3>2. CASE r # p
      <4>1. SUFFICES ASSUME proc'[r].pc \in Making PROVE MakesOf(proc', r)
        BY DEF MakesOf
      <4>2. proc'[r].pc = proc[r].pc /\ proc'[r].child = proc[r].child
        BY <2>3, <3>2 DEF Relative
      <4>3. /\ proc[r].child \in Proc /\ proc[proc[r].child].state = "EMBRYO"
            /\ proc[r].pc = "copyproc_kstack" <=> proc[proc[r].child].kstack = 0
        BY <2>i, <4>1, <4>2, EntryLife DEF MakesOf
      <4>4. proc[r].child # p
        BY <2>0, <2>s, <4>3
      <4>5. Relative(proc[proc[r].child], proc'[proc[r].child])
        BY <2>3, <4>3, <4>4
      <4>6. proc'[proc'[r].child].state = "EMBRYO"
            /\ proc'[proc'[r].child].kstack = proc[proc[r].child].kstack
        BY <4>2, <4>3, <4>5 DEF Relative, SameMemory
      <4>. QED
        BY <4>2, <4>3, <4>6 DEF MakesOf
    <3>. QED
      BY <3>1, <3>2
  <2>9. ASSUME NEW r \in Proc PROVE BuriesOf(proc', r)
    <3>1. CASE r = p
      BY <2>2, <2>s, <3>1 DEF BuriesOf
    <3>2. CASE r # p
      <4>1. SUFFICES ASSUME proc'[r].pc = "wait_kstack" PROVE BuriesOf(proc', r)
        BY DEF BuriesOf
      <4>2. proc'[r].pc = proc[r].pc /\ proc'[r].child = proc[r].child
        BY <2>3, <3>2 DEF Relative
      <4>3. /\ proc[r].child \in Proc /\ proc[proc[r].child].state = "ZOMBIE"
            /\ proc[proc[r].child].parent = r /\ proc[proc[r].child].sz = 0
        BY <2>i, <4>1, <4>2, EntryLife DEF BuriesOf
      <4>4. proc[r].child # p
        BY <2>0, <2>s, <4>3
      <4>5. proc'[proc[r].child] = proc[proc[r].child]
        BY <2>1, <3>2, <4>3, <4>4
      <4>. QED
        BY <4>2, <4>3, <4>5 DEF BuriesOf
    <3>. QED
      BY <3>1, <3>2
  <2>10. ASSUME NEW r \in Proc PROVE ZombieOf(proc', r)
    <3>1. CASE r = p
      <4>1. proc[p].sz >= 1
        BY <2>i, <2>0 DEF LifeOf
      <4>. QED
        BY <2>2, <3>1, <4>1 DEF ZombieOf, SameMemory
    <3>2. CASE r # p
      <4>1. Relative(proc[r], proc'[r]) /\ ZombieOf(proc, r)
        BY <2>i, <2>3, <3>2, EntryLife
      <4>2. ASSUME NEW q \in Proc, proc[q].pc = "wait_kstack", proc[q].child = r
            PROVE  proc'[q].pc = "wait_kstack" /\ proc'[q].child = r
        <5>1. q # p
          BY <2>0, <2>s, <4>2
        <5>. QED
          BY <2>3, <4>2, <5>1 DEF Relative
      <4>. QED
        BY <4>1, <4>2 DEF ZombieOf, Relative, SameMemory
    <3>. QED
      BY <3>1, <3>2
  <2>11. OneCallOf(proc')
    <3>1. SUFFICES ASSUME NEW r \in Proc, NEW s \in Proc, proc'[r].pc \in Making,
                          proc'[s].pc \in Making, proc'[r].child = proc'[s].child
                   PROVE  r = s
      BY DEF OneCallOf
    <3>2. r # p /\ s # p
      BY <2>2, <2>s, <3>1
    <3>3. /\ proc'[r].pc = proc[r].pc /\ proc'[r].child = proc[r].child
          /\ proc'[s].pc = proc[s].pc /\ proc'[s].child = proc[s].child
      BY <2>3, <3>2 DEF Relative
    <3>. QED
      BY <2>i, <3>1, <3>3 DEF ProcsOf, OneCallOf
  <2>12. ProcsOf(proc')
    BY <2>6, <2>7, <2>8, <2>9, <2>10, <2>11 DEF ProcsOf
  <2>. QED
    BY <2>0, <2>4, <2>5, <2>12, <1>TableStep
  \* kinit() and userinit().
<1>KInit.
     ASSUME Init
     PROVE  KInv
  <2>. USE <1>KInit
  <2>. DEFINE fl0 == kfree(<<>>, 1, NPAGES)
              fl1 == kalloc_list(fl0, 1)
              stk == kalloc_addr(fl0, 1)
              mem == kalloc_addr(fl1, 1)
              First_ == [Unused EXCEPT !.state = "RUNNING", !.mem = mem, !.sz = 1,
                                       !.kstack = stk, !.image = <<"text">>]
  <2>i. /\ freelist = kalloc_list(fl1, 1)
        /\ page = [a \in Page |-> IF a = mem THEN "text" ELSE Junk]
        /\ proc = [p \in Proc |-> IF p = 1 THEN First_ ELSE Unused]
        /\ pipes = {} /\ panicked = FALSE
    BY DEF Init, KSTACKSIZE
  <2>n. NPAGES \in Nat /\ NPAGES >= 2 /\ 1 \in Proc /\ 1 \in Nat /\ 1 > 0
    BY KallocAssumption, SMT
  <2>1. ListOK(fl0) /\ \A a \in Int : FreeAt(fl0, a) <=> a \in Page
    <3>1. ListOK(<<>>) /\ \A a : ~FreeAt(<<>>, a)
      BY SMT DEF ListOK, FreeAt
    <3>2. NPAGES > 0 /\ 1 + NPAGES <= NPAGES + 1 /\ Pages(1, NPAGES) = Page
      BY <2>n, SMT DEF Pages, Page
    <3>3. /\ ListOK(fl0)
          /\ \A a \in Int : FreeAt(fl0, a) <=> FreeAt(<<>>, a) \/ a \in Pages(1, NPAGES)
      BY <2>n, <3>1, <3>2, <1>KfreeGives
    <3>. QED
      BY <3>1, <3>2, <3>3
  <2>. HIDE DEF fl0
  <2>2. /\ ListOK(fl1) /\ stk \in Nat
        /\ stk # 0 => /\ Pages(stk, 1) \subseteq Page
                      /\ \A a \in Int : FreeAt(fl1, a) <=> FreeAt(fl0, a) /\ a \notin Pages(stk, 1)
    BY <2>n, <2>1, <1>KallocTakes
  <2>3. stk # 0
    <3>1. \A a \in Pages(1, 1) : FreeAt(fl0, a)
      <4>1. Pages(1, 1) = {1} /\ 1 \in Page /\ 1 \in Int
        BY <2>n, SMT DEF Pages, Page
      <4>. QED
        BY <2>1, <4>1
    <3>. QED
      BY <2>n, <2>1, <3>1, <1>KallocComplete
  <2>. HIDE DEF fl1, stk
  <2>4. Pages(stk, 1) = {stk} /\ stk \in Page
    <3>1. Pages(stk, 1) = {stk}
      BY <2>2, <1>PagesOne, SMT
    <3>. QED
      BY <2>2, <2>3, <3>1
  <2>5. \A a \in Page : a \in Int
    BY SMT DEF Page
  <2>6. \A a \in Page : FreeAt(fl1, a) <=> a # stk
    BY <2>1, <2>2, <2>3, <2>4, <2>5
  <2>7. /\ ListOK(freelist) /\ mem \in Nat
        /\ mem # 0 => /\ Pages(mem, 1) \subseteq Page
                      /\ \A a \in Pages(mem, 1) : FreeAt(fl1, a)
                      /\ \A a \in Int : FreeAt(freelist, a) <=> FreeAt(fl1, a) /\ a \notin Pages(mem, 1)
    BY <2>i, <2>n, <2>2, <1>KallocTakes
  <2>8. mem # 0
    <3>1. PICK b \in Page : b # stk
      <4>1. 1 \in Page /\ 2 \in Page /\ 1 # 2
        BY <2>n, SMT DEF Page
      <4>. QED
        BY <4>1
    <3>2. Pages(b, 1) = {b} /\ b \in Nat
      BY SMT DEF Pages, Page
    <3>3. \A a \in Pages(b, 1) : FreeAt(fl1, a)
      BY <2>6, <3>1, <3>2
    <3>. QED
      BY <2>n, <2>2, <3>2, <3>3, <1>KallocComplete
  <2>9. Pages(mem, 1) = {mem}
    BY <2>7, <1>PagesOne, SMT
  <2>. HIDE DEF mem
  <2>10. mem \in Page /\ mem # stk
    BY <2>6, <2>7, <2>8, <2>9
  <2>11. \A a \in Page : FreeAt(freelist, a) <=> a # stk /\ a # mem
    BY <2>5, <2>6, <2>7, <2>8, <2>9
  <2>12. page \in [Page -> Content]
    BY <2>i, SMT DEF Content
  <2>13. /\ First_ \in ProcType /\ LifeOf(First_)
         /\ First_.state = "RUNNING" /\ First_.pc = "user" /\ First_.mem = mem /\ First_.sz = 1
         /\ First_.kstack = stk /\ First_.image = <<"text">> /\ First_.len = 0 /\ First_.seg = 0
    <3>1. <<"text">> \in Image
      <4>1. <<"text">> \in [1..1 -> Content]
        BY SMT DEF Content
      <4>. QED
        BY <2>n, <4>1 DEF Image
    <3>2. /\ First_ \in ProcType
          /\ First_.state = "RUNNING" /\ First_.pc = "user" /\ First_.mem = mem /\ First_.sz = 1
          /\ First_.kstack = stk /\ First_.image = <<"text">> /\ First_.len = 0 /\ First_.seg = 0
      BY <2>2, <2>7, <3>1 DEF Unused, ProcType, State, Pc
    <3>. HIDE DEF First_
    <3>3. stk >= 1 /\ stk <= NPAGES /\ mem >= 1 /\ mem <= NPAGES
      BY <2>n, <2>4, <2>10, SMT DEF Page
    <3>4. LifeOf(First_)
      BY <2>n, <2>2, <2>7, <3>2, <3>3, SMT DEF LifeOf, Inside, Moving
    <3>. QED
      BY <3>2, <3>4
  <2>. HIDE DEF First_
  <2>14. proc[1] = First_ /\ \A p \in Proc : p # 1 => proc[p] = Unused
    BY <2>i, <2>n
  <2>15. proc \in [Proc -> ProcType]
    <3>1. \A p \in Proc : proc[p] \in ProcType
      BY <2>13, <2>14, <1>UnusedIs
    <3>2. proc = [p \in Proc |-> proc[p]]
      BY <2>i
    <3>. QED
      BY <3>1, <3>2, <1>FunctionOf
  <2>16. \A p \in Proc : proc[p].pc = "user" /\ proc[p].state # "ZOMBIE" /\ LifeOf(proc[p])
    <3>1. "UNUSED" # "ZOMBIE" /\ "RUNNING" # "ZOMBIE"
      BY SMT
    <3>. QED
      BY <2>13, <2>14, <3>1, <1>UnusedIs
  <2>17. ProcsOf(proc)
    <3>1. "user" \notin Making /\ "user" # "wait_kstack"
      BY SMT DEF Making
    <3>. QED
      BY <2>16, <3>1 DEF ProcsOf, MakesOf, BuriesOf, ZombieOf, OneCallOf
  <2>18. ASSUME NEW p \in Proc PROVE ImageAt(proc[p].image, page, proc[p].mem, proc[p].sz)
    <3>1. CASE p = 1
      <4>1. page[mem] = "text"
        BY <2>i, <2>10
      <4>2. <<"text">> = [k \in 1..1 |-> page[mem + k - 1]]
        <5>1. \A k \in 1..1 : mem + k - 1 = mem
          BY <2>7, SMT
        <5>2. \A k \in 1..1 : page[mem + k - 1] = "text"
          BY <4>1, <5>1
        <5>. QED
          BY <5>2, SMT
      <4>. QED
        BY <2>13, <2>14, <3>1, <4>2 DEF ImageAt
    <3>2. CASE p # 1
      <4>1. ImageAt(<<>>, page, proc[p].mem, 0)
        <5>1. proc[p].mem \in Nat
          BY <2>15, TypeIs
        <5>. QED
          BY <5>1, <1>ImageEmpty, SMT
      <4>. QED
        BY <2>14, <3>2, <4>1, <1>UnusedIs
    <3>. QED
      BY <3>1, <3>2
  <2>19. \E own : OwnOf(own, freelist, proc, pipes)
    <3>. DEFINE own == [a \in Page |-> IF a = mem THEN HMem(1) ELSE IF a = stk THEN HStack(1) ELSE HFree]
    <3>1. \A a \in Page : own[a] = IF a = mem THEN HMem(1) ELSE IF a = stk THEN HStack(1) ELSE HFree
      OBVIOUS
    <3>. HIDE DEF own
    <3>2. \A a \in Page : own[a] \in Owner
      BY <2>n, <3>1, <1>OwnerIs, <1>PipeOwner
    <3>3. Holds(own, HFree, FreeSet(freelist))
      BY <2>11, <3>1, OwnersDiffer DEF Holds, FreeSet
    <3>4. Holds(own, HPipe, pipes)
      BY <2>i, <3>1, OwnersDiffer DEF Holds
    <3>5. ASSUME NEW p \in Proc
          PROVE  /\ Holds(own, HMem(p), Pages(proc[p].mem, proc[p].sz))
                 /\ Holds(own, HSeg(p), Pages(proc[p].seg, proc[p].len))
                 /\ Holds(own, HStack(p), {proc[p].kstack})
      <4>1. proc[p].len = 0 /\ proc[p] \in ProcType
        BY <2>13, <2>14, <2>15, <1>UnusedIs
      <4>2. Pages(proc[p].seg, proc[p].len) = {}
        BY <4>1, <1>PagesNone
      <4>3. Holds(own, HSeg(p), {})
        BY <3>1, OwnersDiffer DEF Holds
      <4>4. CASE p = 1
        <5>1. Holds(own, HMem(1), {mem}) /\ Holds(own, HStack(1), {stk})
          BY <2>10, <3>1, OwnersDiffer DEF Holds
        <5>. QED
          BY <2>9, <2>13, <2>14, <4>2, <4>3, <4>4, <5>1
      <4>5. CASE p # 1
        <5>1. Pages(proc[p].mem, proc[p].sz) = {} /\ proc[p].kstack = 0
          BY <2>14, <4>1, <4>5, <1>PagesNone, <1>UnusedIs
        <5>2. Holds(own, HMem(p), {}) /\ Holds(own, HStack(p), {})
          BY <3>1, <4>5, OwnersDiffer DEF Holds
        <5>. QED
          BY <4>2, <4>3, <5>1, <5>2, <1>HoldsNone
      <4>. QED
        BY <4>4, <4>5
    <3>6. OwnOf(own, freelist, proc, pipes)
      BY <3>2, <3>3, <3>4, <3>5 DEF OwnOf
    <3>. QED
      BY <3>6
  <2>20. MType
    BY <2>i, <2>7, <2>12, <2>15 DEF MType
  <2>. QED
    BY <2>17, <2>18, <2>19, <2>20 DEF KInv, KeptOf
<1>. QED
  BY <1>KInit, <1>ForkStep, <1>KstackStep, <1>MemStep, <1>UndoStep, <1>ExecStep, <1>BadStep, <1>WaitStep,
     <1>PipeallocStep, <1>PipecloseStep, <1>FirstKfree, <1>SecondKfree, <1>CommitStep, <1>ExitStep,
     <1>MoveStep, <1>GrowStep
     DEF KernelStep, Other

\* The fields of a run.
LEMMA RunIs ==
  ASSUME NEW r
  PROVE  r \in RunSet => r.p \in Nat /\ r.p > 0 /\ r.len \in Nat /\ r.len > 0
BY SMT DEF RunSet

\* The elements of a list of runs.
LEMMA ListElement ==
  ASSUME NEW fl \in Seq(RunSet)
  PROVE  /\ Len(fl) \in Nat /\ DOMAIN fl = 1..Len(fl)
         /\ \A k \in 1..Len(fl) : fl[k] \in RunSet
BY SMT

\* The condition on the list, in terms of its runs as numbers.
LEMMA ListSorted ==
  ASSUME NEW fl
  PROVE  ListOK(fl) <=> fl \in Seq(RunSet) /\ Sorted(fl)
<1>1. CASE fl \in Seq(RunSet)
  BY <1>1, RunIs, ListElement DEF ListOK, Sorted
<1>2. CASE fl \notin Seq(RunSet)
  BY <1>2 DEF ListOK
<1>. QED
  BY <1>1, <1>2

\* Every run of the list is a run of pages.
LEMMA SortedRun ==
  ASSUME NEW fl, Sorted(fl)
  PROVE  \A k \in 1..Len(fl) : RunOK(fl[k])
BY DEF Sorted, RunOK

\* The operators of the free list do what the kernel needs of them.
LEMMA AllocatorHolds ==
  ASSUME FirstFinds
  PROVE  Allocator
<1>. DEFINE
      \* l is fl without its run k; m says where in fl its runs are.
      Removed(fl, l, k, m) ==
        /\ \A j \in 1..Len(l) : m[j] \in 1..Len(fl) /\ m[j] # k /\ l[j] = fl[m[j]]
        /\ \A i, j \in 1..Len(l) : i < j => m[i] < m[j]
        /\ \A i \in 1..Len(fl) : i # k => \E j \in 1..Len(l) : m[j] = i
      \* l is fl with another run k.
      Replaces(fl, l, k) ==
        /\ Len(l) = Len(fl)
        /\ \A j \in 1..Len(fl) : j # k => l[j] = fl[j]
      \* The run k of l comes after the first k - 1 runs of fl, and before the others
      \* from next on.
      Fits(fl, l, k, next) ==
        /\ RunOK(l[k])
        /\ \A j \in 1..Len(fl) : j < k => fl[j].p + fl[j].len < l[k].p
        /\ \A j \in 1..Len(fl) : next <= j => l[k].p + l[k].len < fl[j].p
      \* l is fl with one more run, before run k; m says where in fl the others are.
      Inserted(fl, l, k, m) ==
        /\ \A j \in 1..Len(l) : j # k => m[j] \in 1..Len(fl) /\ l[j] = fl[m[j]]
        /\ \A j \in 1..Len(l) : j < k => m[j] < k
        /\ \A j \in 1..Len(l) : k < j => k <= m[j]
        /\ \A i, j \in 1..Len(l) : i < j /\ i # k /\ j # k => m[i] < m[j]
        /\ \A i \in 1..Len(fl) : \E j \in 1..Len(l) : j # k /\ m[j] = i
      \* Where a run that holds none of the pages can be, and when the loop of
      \* kfree() goes on past it.
      Stops(r, v, n) ==
        \/ r.p >= v + n
        \/ r.p <= v /\ v <= r.p + r.len
      \* Where the freed pages are among the runs: kfree_run() finds the place.
      Place(fl, k, v, n) ==
        /\ \A j \in 1..Len(fl) : j < k => fl[j].p + fl[j].len < v
        /\ \A j \in 1..Len(fl) : k < j => v + n <= fl[j].p
        /\ \/ v + n <= fl[k].p
           \/ fl[k].p + fl[k].len = v
      \* What kfree() makes of a list that has none of the pages.
      Freed(fl, l, v, n) ==
        /\ l \in Seq(RunSet) /\ Sorted(l)
        /\ \A a \in Int : FreeAt(l, a) <=> FreeAt(fl, a) \/ a \in Pages(v, n)
<1>. HIDE DEF Removed, Replaces, Fits, Inserted, Stops, Place, Freed
  \* A search finds the first of the places that would end it.
<1>FirstIs.
     \A S : S \subseteq Nat =>
       \/ S = {} /\ First(S) = 0
       \/ First(S) \in S /\ \A j \in S : First(S) <= j
  BY DEF FirstFinds
  \* The list without a run is a list.
<1>WithoutIs.
     ASSUME NEW T, NEW fl \in Seq(T), NEW k \in 1..Len(fl)
     PROVE  /\ Without(fl, k) \in Seq(T)
            /\ Len(Without(fl, k)) = Len(fl) - 1
            /\ \A j \in 1..(Len(fl) - 1) :
                 Without(fl, k)[j] = IF j < k THEN fl[j] ELSE fl[j + 1]
  <2>. DEFINE n == Len(fl) - 1
  <2>1. Without(fl, k) \in [1..n -> T]
    BY SMT DEF Without
  <2>2. n \in Nat
    BY SMT
  <2>. HIDE DEF n
  <2>3. Without(fl, k) \in Seq(T) /\ Len(Without(fl, k)) = n
    BY <2>1, <2>2, SMT
  <2>. QED
    BY <2>3, SMT DEF n, Without
  \* No page is in two runs of a list.
<1>RunsApart.
     ASSUME NEW r, NEW s, NEW a \in Int, InRun(r, a),
            r.p \in Nat /\ r.len \in Nat /\ s.p \in Nat /\ s.len \in Nat,
            r.p + r.len < s.p \/ s.p + s.len < r.p
     PROVE  ~InRun(s, a)
  BY <1>RunsApart, SMT DEF InRun
  \* Of two places in a list one comes first.
<1>Trichotomy.
     ASSUME NEW n, NEW j \in 1..n, NEW k \in 1..n
     PROVE  j # k => j < k \/ k < j
  BY SMT
  \* No address is in two runs of the list.
<1>RunsDisjoint.
     ASSUME NEW fl, Sorted(fl), NEW j \in 1..Len(fl), NEW k \in 1..Len(fl), j # k,
            NEW a \in Int, InRun(fl[j], a)
     PROVE  ~InRun(fl[k], a)
  <2>. USE <1>RunsDisjoint
  <2>1. fl[j].p \in Nat /\ fl[j].len \in Nat /\ fl[k].p \in Nat /\ fl[k].len \in Nat
    BY DEF Sorted
  <2>2. fl[j].p + fl[j].len < fl[k].p \/ fl[k].p + fl[k].len < fl[j].p
    BY <1>Trichotomy DEF Sorted
  <2>. QED
    BY <2>1, <2>2, <1>RunsApart
  \* A list that loses a run stays sorted and loses the addresses of that run.
<1>RemoveRun.
     ASSUME NEW fl, Sorted(fl), NEW k \in 1..Len(fl), NEW l, Len(l) \in Nat,
            NEW m, Removed(fl, l, k, m)
     PROVE  /\ Sorted(l)
            /\ \A a \in Int : FreeAt(l, a) <=> FreeAt(fl, a) /\ ~InRun(fl[k], a)
  <2>. USE <1>RemoveRun
  <2>1. \A j \in 1..Len(l) : m[j] \in 1..Len(fl) /\ m[j] # k /\ l[j] = fl[m[j]]
    BY DEF Removed
  <2>2. \A i, j \in 1..Len(l) : i < j => m[i] < m[j]
    BY DEF Removed
  <2>3. Sorted(l)
    BY <2>1, <2>2 DEF Sorted
  <2>4. ASSUME NEW a \in Int, FreeAt(l, a) PROVE FreeAt(fl, a) /\ ~InRun(fl[k], a)
    <3>1. PICK i \in 1..Len(fl) : InRun(fl[i], a) /\ i # k
      BY <2>1, <2>4 DEF FreeAt
    <3>. QED
      BY <3>1, <1>RunsDisjoint DEF FreeAt
  <2>5. ASSUME NEW a \in Int, FreeAt(fl, a), ~InRun(fl[k], a) PROVE FreeAt(l, a)
    <3>1. PICK i \in 1..Len(fl) : InRun(fl[i], a)
      BY <2>5 DEF FreeAt
    <3>2. PICK j \in 1..Len(l) : m[j] = i
      BY <2>5, <3>1 DEF Removed
    <3>. QED
      BY <2>1, <3>1, <3>2 DEF FreeAt
  <2>. QED
    BY <2>3, <2>4, <2>5
  \* A list in which a run is replaced by one that fits stays sorted.
<1>ReplaceRun.
     ASSUME NEW fl, Sorted(fl), NEW k \in 1..Len(fl), NEW l, Replaces(fl, l, k),
            Fits(fl, l, k, k + 1)
     PROVE  /\ Sorted(l)
            /\ \A a \in Int : FreeAt(l, a) <=>
                 InRun(l[k], a) \/ (FreeAt(fl, a) /\ ~InRun(fl[k], a))
  <2>. USE <1>ReplaceRun
  <2>1. Len(l) = Len(fl) /\ Len(fl) \in Nat
    BY DEF Replaces, Sorted
  <2>2. \A j \in 1..Len(l) : j # k => l[j] = fl[j]
    BY DEF Replaces
  <2>3. Sorted(l)
    <3>1. \A j \in 1..Len(l) : RunOK(l[j])
      BY <2>1, <2>2 DEF Sorted, RunOK, Fits
    <3>2. ASSUME NEW i \in 1..Len(l), NEW j \in 1..Len(l), i < j
          PROVE  l[i].p + l[i].len < l[j].p
      <4>1. CASE i = k
        <5>1. k + 1 <= j /\ j # k
          BY <2>1, <3>2, <4>1, SMT
        <5>. QED
          BY <2>1, <2>2, <4>1, <5>1 DEF Fits
      <4>2. CASE j = k
        <5>1. i # k
          BY <2>1, <3>2, <4>2, SMT
        <5>. QED
          BY <2>1, <2>2, <3>2, <4>2, <5>1 DEF Fits
      <4>3. CASE i # k /\ j # k
        BY <2>1, <2>2, <3>2, <4>3 DEF Sorted
      <4>. QED
        BY <4>1, <4>2, <4>3
    <3>. QED
      BY <2>1, <3>1, <3>2 DEF Sorted, RunOK
  <2>4. ASSUME NEW a \in Int, FreeAt(l, a)
        PROVE  InRun(l[k], a) \/ (FreeAt(fl, a) /\ ~InRun(fl[k], a))
    <3>1. PICK j \in 1..Len(fl) : InRun(l[j], a)
      BY <2>1, <2>4 DEF FreeAt
    <3>2. CASE j # k
      <4>1. InRun(fl[j], a)
        BY <2>1, <2>2, <3>1, <3>2
      <4>2. ~InRun(fl[k], a)
        BY <3>2, <4>1, <1>RunsDisjoint, SMT
      <4>. QED
        BY <4>1, <4>2 DEF FreeAt
    <3>3. CASE j = k
      BY <3>1, <3>3
    <3>. QED
      BY <3>2, <3>3
  <2>5. ASSUME NEW a \in Int, InRun(l[k], a) \/ (FreeAt(fl, a) /\ ~InRun(fl[k], a))
        PROVE  FreeAt(l, a)
    <3>1. CASE InRun(l[k], a)
      BY <2>1, <3>1 DEF FreeAt
    <3>2. ASSUME NEW i \in 1..Len(fl), InRun(fl[i], a), ~InRun(fl[k], a) PROVE FreeAt(l, a)
      BY <2>1, <2>2, <3>2 DEF FreeAt
    <3>. QED
      BY <2>5, <3>1, <3>2 DEF FreeAt
  <2>. QED
    BY <2>3, <2>4, <2>5
  \* Without() removes a run, ...
<1>WithoutRemoves.
     ASSUME NEW fl \in Seq(RunSet), Sorted(fl), NEW k \in 1..Len(fl)
     PROVE  LET l == Without(fl, k)
            IN /\ l \in Seq(RunSet) /\ Sorted(l)
               /\ \A a \in Int : FreeAt(l, a) <=> FreeAt(fl, a) /\ ~InRun(fl[k], a)
  <2>. USE <1>WithoutRemoves
  <2>. DEFINE l == Without(fl, k)
              m == [j \in 1..(Len(fl) - 1) |-> IF j < k THEN j ELSE j + 1]
  <2>1. /\ l \in Seq(RunSet) /\ Len(l) = Len(fl) - 1 /\ Len(fl) \in Nat
        /\ \A j \in 1..(Len(fl) - 1) : l[j] = IF j < k THEN fl[j] ELSE fl[j + 1]
    BY <1>WithoutIs, ListElement
  <2>. HIDE DEF l
  <2>2. Removed(fl, l, k, m)
    <3>1. \A j \in 1..Len(l) : m[j] \in 1..Len(fl) /\ m[j] # k /\ l[j] = fl[m[j]]
      BY <2>1, SMT
    <3>2. \A i, j \in 1..Len(l) : i < j => m[i] < m[j]
      BY <2>1, SMT
    <3>3. ASSUME NEW i \in 1..Len(fl), i # k PROVE \E j \in 1..Len(l) : m[j] = i
      <4>1. CASE i < k
        <5>1. i \in 1..Len(l) /\ m[i] = i
          BY <2>1, <4>1, SMT
        <5>. QED
          BY <5>1
      <4>2. CASE i > k
        <5>1. i - 1 \in 1..Len(l) /\ m[i - 1] = i
          BY <2>1, <4>2, SMT
        <5>. QED
          BY <5>1
      <4>. QED
        BY <2>1, <3>3, <4>1, <4>2, SMT
    <3>. QED
      BY <3>1, <3>2, <3>3 DEF Removed
  <2>3. Len(l) \in Nat
    BY <2>1, SMT
  <2>. HIDE DEF m
  <2>. QED
    BY <2>1, <2>2, <2>3, <1>RemoveRun DEF l
  \* ... an EXCEPT replaces one, ...
<1>ExceptReplaces.
     ASSUME NEW fl \in Seq(RunSet), NEW k \in 1..Len(fl), NEW r \in RunSet
     PROVE  LET l == [fl EXCEPT ![k] = r]
            IN l \in Seq(RunSet) /\ Replaces(fl, l, k) /\ l[k] = r
  <2>. DEFINE l == [fl EXCEPT ![k] = r]
  <2>1. l \in Seq(RunSet) /\ Len(l) = Len(fl)
    BY SMT
  <2>2. l[k] = r /\ \A j \in 1..Len(fl) : j # k => l[j] = fl[j]
    BY SMT
  <2>. QED
    BY <2>1, <2>2 DEF Replaces
  \* kalloc() takes n free pages and no others.
<1>KallocTakes.
     \A fl, n :
       NPAGES \in Nat /\ ListOK(fl) /\ n \in Nat /\ n > 0 =>
         LET v == kalloc_addr(fl, n)
             l == kalloc_list(fl, n)
         IN /\ ListOK(l)
            /\ v \in Nat
            /\ v = 0 => l = fl
            /\ v # 0 => /\ Pages(v, n) \subseteq Page
                        /\ \A a \in Pages(v, n) : FreeAt(fl, a)
                        /\ \A a \in Int : FreeAt(l, a) <=> FreeAt(fl, a) /\ a \notin Pages(v, n)
     \* The pages of a list are pages.
  <2>FreeInPage.
       ASSUME NPAGES \in Nat, NEW fl, Sorted(fl), NEW a \in Int, FreeAt(fl, a)
       PROVE  a \in Page
    BY <2>FreeInPage, SMT DEF Sorted, FreeAt, InRun, Page
    \* The pages of a run.
  <2>PagesOfRun.
       ASSUME NEW v \in Nat, NEW n \in Nat, NEW r, r.p = v, r.len = n
       PROVE  \A a : a \in Pages(v, n) <=> a \in Int /\ InRun(r, a)
    BY <2>PagesOfRun, SMT DEF Pages, InRun
    \* A run cut at its end.
  <2>RunCut.
       ASSUME NPAGES \in Nat, NEW r, RunOK(r), NEW n \in Nat, n > 0, n < r.len,
              NEW s, s.p = r.p, s.len = r.len - n
       PROVE  /\ RunOK(s) /\ s.p + s.len < r.p + r.len
              /\ r.p + r.len - n \in Nat /\ r.p + r.len - n # 0
              /\ \A a \in Int : InRun(s, a) <=> InRun(r, a) /\ a \notin Pages(r.p + r.len - n, n)
              /\ \A a \in Pages(r.p + r.len - n, n) : a \in Int /\ InRun(r, a)
    BY <2>RunCut, SMT DEF RunOK, InRun, Pages
  <2>LessTrans.
       ASSUME NEW a \in Int, NEW b \in Int, NEW c \in Int
       PROVE  (a < b /\ b < c => a < c) /\ (a + 1 <= b <=> a < b)
    BY SMT
  <2>RunInts. \A r : RunOK(r) => r.p \in Int /\ r.p + r.len \in Int
    BY SMT DEF RunOK
  <2>KallocIs.
       ASSUME NEW fl, NEW n, NEW k, k = kalloc_run(fl, n)
       PROVE  /\ kalloc_addr(fl, n) = IF k = 0 THEN 0 ELSE fl[k].p + fl[k].len - n
              /\ k = 0 => kalloc_list(fl, n) = fl
              /\ k # 0 /\ fl[k].len = n => kalloc_list(fl, n) = Without(fl, k)
              /\ k # 0 /\ fl[k].len # n =>
                   kalloc_list(fl, n) = [fl EXCEPT ![k] = [fl[k] EXCEPT !.len = fl[k].len - n]]
    <3>. USE <2>KallocIs
    <3>. DEFINE r == [fl[k] EXCEPT !.len = fl[k].len - n]
    <3>1. kalloc_addr(fl, n) = IF k = 0 THEN 0 ELSE fl[k].p + fl[k].len - n
      BY DEF kalloc_addr
    <3>2. k = 0 => kalloc_list(fl, n) = fl
      BY DEF kalloc_list
    <3>3. k # 0 /\ fl[k].len = n => kalloc_list(fl, n) = Without(fl, k)
      BY DEF kalloc_list
    <3>4. k # 0 /\ fl[k].len # n => kalloc_list(fl, n) = [fl EXCEPT ![k] = r]
      BY DEF kalloc_list
    <3>. QED
      BY <3>1, <3>2, <3>3, <3>4
  <2>. SUFFICES ASSUME NPAGES \in Nat, NEW fl, ListOK(fl), NEW n \in Nat, n > 0
                PROVE  LET v == kalloc_addr(fl, n)
                           l == kalloc_list(fl, n)
                       IN /\ ListOK(l)
                          /\ v \in Nat
                          /\ v = 0 => l = fl
                          /\ v # 0 => /\ Pages(v, n) \subseteq Page
                                      /\ \A a \in Pages(v, n) : FreeAt(fl, a)
                                      /\ \A a \in Int : FreeAt(l, a) <=>
                                                          FreeAt(fl, a) /\ a \notin Pages(v, n)
    OBVIOUS
  <2>. DEFINE k == kalloc_run(fl, n)
              v == kalloc_addr(fl, n)
              l == kalloc_list(fl, n)
  <2>1. /\ fl \in Seq(RunSet) /\ Sorted(fl) /\ DOMAIN fl = 1..Len(fl)
        /\ Len(fl) \in Nat /\ \A j \in 1..Len(fl) : fl[j] \in RunSet /\ RunOK(fl[j])
    BY ListSorted, ListElement, SortedRun
  <2>2. \/ k = 0
        \/ k \in 1..Len(fl) /\ fl[k].len >= n
    <3>. DEFINE S == {j \in DOMAIN fl : fl[j].len >= n}
    <3>1. S \subseteq Nat /\ k = First(S)
      BY <2>1, SMT DEF kalloc_run
    <3>2. (S = {} /\ First(S) = 0) \/ First(S) \in S
      BY <3>1, <1>FirstIs
    <3>. QED
      BY <2>1, <3>1, <3>2
  <2>. HIDE DEF k
  <2>3. CASE k = 0
    <3>1. v = 0 /\ l = fl
      BY <2>3, SMT DEF k, kalloc_addr, kalloc_list
    <3>. QED
      BY <3>1, SMT
  <2>4. ASSUME k \in 1..Len(fl), v \in Nat, v # 0, l \in Seq(RunSet), Sorted(l),
               \A a \in Pages(v, n) : a \in Int /\ FreeAt(fl, a),
               \A a \in Int : FreeAt(l, a) <=> FreeAt(fl, a) /\ a \notin Pages(v, n)
        PROVE  /\ ListOK(l) /\ v \in Nat /\ v # 0
               /\ Pages(v, n) \subseteq Page
               /\ \A a \in Pages(v, n) : FreeAt(fl, a)
               /\ \A a \in Int : FreeAt(l, a) <=> FreeAt(fl, a) /\ a \notin Pages(v, n)
    BY <2>1, <2>4, <2>FreeInPage, ListSorted
  <2>5. CASE k \in 1..Len(fl) /\ fl[k].len = n
    <3>1. v = fl[k].p /\ l = Without(fl, k)
      <4>1. fl[k].p \in Nat /\ fl[k].p + n - n = fl[k].p
        BY <2>1, <2>5, SMT DEF RunOK
      <4>2. k # 0
        BY <2>5, SMT
      <4>. QED
        BY <2>5, <4>1, <4>2, <2>KallocIs, SMT DEF k
    <3>2. /\ l \in Seq(RunSet) /\ Sorted(l)
          /\ \A a \in Int : FreeAt(l, a) <=> FreeAt(fl, a) /\ ~InRun(fl[k], a)
      <4>. HIDE DEF v, l
      <4>. QED
        BY <2>1, <2>5, <3>1, <1>WithoutRemoves, SMT
    <3>3. v \in Nat /\ v # 0
      BY <2>1, <2>5, <3>1, SMT DEF RunOK
    <3>4. \A a : a \in Pages(v, n) <=> a \in Int /\ InRun(fl[k], a)
      <4>. HIDE DEF v, l
      <4>. QED
        BY <2>5, <3>1, <3>3, <2>PagesOfRun, SMT
    <3>5. \A a \in Pages(v, n) : a \in Int /\ FreeAt(fl, a)
      BY <2>5, <3>4 DEF FreeAt
    <3>6. \A a \in Int : FreeAt(l, a) <=> FreeAt(fl, a) /\ a \notin Pages(v, n)
      <4>. HIDE DEF v, l
      <4>. QED
        BY <3>2, <3>4
    <3>7. v # 0 /\ k \in 1..Len(fl)
      BY <2>5, <3>3
    <3>. QED
      BY <2>4, <3>2, <3>3, <3>5, <3>6, <3>7
  <2>6. CASE k \in 1..Len(fl) /\ fl[k].len > n
    <3>. DEFINE r == [fl[k] EXCEPT !.len = fl[k].len - n]
    <3>1. v = fl[k].p + fl[k].len - n /\ l = [fl EXCEPT ![k] = r]
      <4>1. k # 0 /\ fl[k].len # n
        BY <2>1, <2>6, SMT DEF RunOK
      <4>. QED
        BY <4>1, <2>KallocIs, SMT DEF k
    <3>2. r \in RunSet /\ r.p = fl[k].p /\ r.len = fl[k].len - n
      <4>1. fl[k] \in RunSet /\ fl[k].len - n \in Nat \ {0}
        BY <2>1, <2>6, SMT DEF RunOK
      <4>. QED
        BY <4>1, SMT DEF RunSet
    <3>. HIDE DEF r
    <3>3. l \in Seq(RunSet) /\ Replaces(fl, l, k) /\ l[k] = r
      <4>. HIDE DEF v, l
      <4>. QED
        BY <2>1, <2>6, <3>1, <3>2, <1>ExceptReplaces
    <3>4. n < fl[k].len
      BY <2>1, <2>6, SMT DEF RunOK
    <3>5. /\ RunOK(r) /\ r.p + r.len < fl[k].p + fl[k].len /\ v \in Nat /\ v # 0
          /\ \A a \in Int : InRun(r, a) <=> InRun(fl[k], a) /\ a \notin Pages(v, n)
          /\ \A a \in Pages(v, n) : a \in Int /\ InRun(fl[k], a)
      BY <2>1, <2>6, <3>1, <3>2, <3>4, <2>RunCut
    <3>6. Fits(fl, l, k, k + 1)
      <4>1. \A j \in 1..Len(fl) : j < k => fl[j].p + fl[j].len < l[k].p
        BY <2>1, <2>6, <3>2, <3>3 DEF Sorted
      <4>2. ASSUME NEW j \in 1..Len(fl), k + 1 <= j PROVE l[k].p + l[k].len < fl[j].p
        <5>1. k < j
          BY <2>1, <2>6, <4>2, SMT
        <5>2. fl[k].p + fl[k].len < fl[j].p
          BY <2>1, <2>6, <5>1 DEF Sorted
        <5>3. r.p + r.len \in Int /\ fl[k].p + fl[k].len \in Int /\ fl[j].p \in Int
          <6>1. RunOK(r) /\ RunOK(fl[k]) /\ RunOK(fl[j])
            BY <2>1, <2>6, <3>5
          <6>. QED
            BY <6>1, <2>RunInts
        <5>. QED
          BY <3>3, <3>5, <5>2, <5>3, <2>LessTrans
      <4>. QED
        BY <3>3, <3>5, <4>1, <4>2 DEF Fits
    <3>7. /\ Sorted(l)
          /\ \A a \in Int : FreeAt(l, a) <=>
                InRun(r, a) \/ (FreeAt(fl, a) /\ ~InRun(fl[k], a))
      BY <2>1, <2>6, <3>3, <3>6, <1>ReplaceRun
    <3>8. \A a \in Pages(v, n) : a \in Int /\ FreeAt(fl, a)
      BY <2>6, <3>5 DEF FreeAt
    <3>9. \A a \in Int : InRun(fl[k], a) => FreeAt(fl, a)
      BY <2>6 DEF FreeAt
    <3>10. \A a \in Int : FreeAt(l, a) <=> FreeAt(fl, a) /\ a \notin Pages(v, n)
      <4>. HIDE DEF v, l
      <4>. QED
        BY <3>5, <3>7, <3>9
    <3>. QED
      BY <2>4, <2>6, <3>3, <3>5, <3>7, <3>8, <3>10
  <2>7. \/ k = 0
        \/ k \in 1..Len(fl) /\ fl[k].len = n
        \/ k \in 1..Len(fl) /\ fl[k].len > n
    BY <2>1, <2>2, SMT DEF RunOK
  <2>. QED
    BY <2>3, <2>5, <2>6, <2>7
  \* kfree() gives the pages to the list and nothing else changes: no panic,
  \* and the list is sorted and combined again.
<1>KfreeGives.
     \A fl, v, n :
       /\ NPAGES \in Nat /\ ListOK(fl) /\ v \in Nat /\ v > 0 /\ n \in Nat /\ n > 0
       /\ v + n <= NPAGES + 1
       /\ \A a \in Pages(v, n) : ~FreeAt(fl, a)
       => /\ ~FreesFree(fl, v, n)
          /\ ListOK(kfree(fl, v, n))
          /\ \A a \in Int : FreeAt(kfree(fl, v, n), a) <=> FreeAt(fl, a) \/ a \in Pages(v, n)
  <2>WithRunIs.
       ASSUME NEW T, NEW fl \in Seq(T), NEW k \in 1..Len(fl), NEW r \in T
       PROVE  /\ WithRun(fl, k, r) \in Seq(T)
              /\ Len(WithRun(fl, k, r)) = Len(fl) + 1
              /\ \A j \in 1..(Len(fl) + 1) : WithRun(fl, k, r)[j] =
                   IF j < k THEN fl[j] ELSE IF j = k THEN r ELSE fl[j - 1]
    BY SMT DEF WithRun
  <2>InsertRun.
       ASSUME NEW fl, Sorted(fl), NEW l, Len(l) \in Nat, NEW k \in 1..Len(l),
              Fits(fl, l, k, k), NEW m, Inserted(fl, l, k, m)
       PROVE  /\ Sorted(l)
              /\ \A a \in Int : FreeAt(l, a) <=> InRun(l[k], a) \/ FreeAt(fl, a)
    <3>. USE <2>InsertRun
    <3>1. \A j \in 1..Len(l) : j # k => m[j] \in 1..Len(fl) /\ l[j] = fl[m[j]]
      BY DEF Inserted
    <3>2. Sorted(l)
      <4>1. \A j \in 1..Len(l) : RunOK(l[j])
        BY <3>1 DEF Sorted, RunOK, Fits
      <4>2. ASSUME NEW i \in 1..Len(l), NEW j \in 1..Len(l), i < j
            PROVE  l[i].p + l[i].len < l[j].p
        <5>1. i # j
          BY <4>2, SMT
        <5>2. CASE i = k
          <6>1. k <= m[j] /\ m[j] \in 1..Len(fl) /\ l[j] = fl[m[j]]
            BY <3>1, <4>2, <5>1, <5>2 DEF Inserted
          <6>. QED
            BY <5>2, <6>1 DEF Fits
        <5>3. CASE j = k
          <6>1. m[i] < k /\ m[i] \in 1..Len(fl) /\ l[i] = fl[m[i]]
            BY <3>1, <4>2, <5>1, <5>3 DEF Inserted
          <6>. QED
            BY <5>3, <6>1 DEF Fits
        <5>4. CASE i # k /\ j # k
          <6>1. m[i] < m[j]
            BY <4>2, <5>4 DEF Inserted
          <6>. QED
            BY <3>1, <5>4, <6>1 DEF Sorted
        <5>. QED
          BY <5>2, <5>3, <5>4
      <4>. QED
        BY <4>1, <4>2 DEF Sorted, RunOK
    <3>3. ASSUME NEW a \in Int, FreeAt(l, a) PROVE InRun(l[k], a) \/ FreeAt(fl, a)
      BY <3>1, <3>3 DEF FreeAt
    <3>4. ASSUME NEW a \in Int, InRun(l[k], a) \/ FreeAt(fl, a) PROVE FreeAt(l, a)
      <4>1. CASE InRun(l[k], a)
        BY <4>1 DEF FreeAt
      <4>2. ASSUME NEW i \in 1..Len(fl), InRun(fl[i], a) PROVE FreeAt(l, a)
        <5>1. PICK j \in 1..Len(l) : j # k /\ m[j] = i
          BY DEF Inserted
        <5>. QED
          BY <3>1, <4>2, <5>1 DEF FreeAt
      <4>. QED
        BY <3>4, <4>1, <4>2 DEF FreeAt
    <3>. QED
      BY <3>2, <3>3, <3>4
    \* ... and WithRun() and Append() insert one.
  <2>WithRunInserts.
       ASSUME NEW fl \in Seq(RunSet), NEW k \in 1..(Len(fl) + 1), NEW r \in RunSet,
              NEW l, l \in Seq(RunSet), Len(l) = Len(fl) + 1,
              \A j \in 1..(Len(fl) + 1) : l[j] =
                IF j < k THEN fl[j] ELSE IF j = k THEN r ELSE fl[j - 1]
       PROVE  \E m : Inserted(fl, l, k, m)
    <3>. USE <2>WithRunInserts
    <3>. DEFINE m == [j \in 1..(Len(fl) + 1) |-> IF j < k THEN j ELSE j - 1]
    <3>1. Len(fl) \in Nat
      BY SMT
    <3>2. \A j \in 1..Len(l) : j # k => m[j] \in 1..Len(fl) /\ l[j] = fl[m[j]]
      BY <3>1, SMT
    <3>3. \A j \in 1..Len(l) : j < k => m[j] < k
      BY <3>1, SMT
    <3>4. \A j \in 1..Len(l) : k < j => k <= m[j]
      BY <3>1, SMT
    <3>5. \A i, j \in 1..Len(l) : i < j /\ i # k /\ j # k => m[i] < m[j]
      BY <3>1, SMT
    <3>6. ASSUME NEW i \in 1..Len(fl) PROVE \E j \in 1..Len(l) : j # k /\ m[j] = i
      <4>1. CASE i < k
        <5>1. i \in 1..Len(l) /\ i # k /\ m[i] = i
          BY <3>1, <4>1, SMT
        <5>. QED
          BY <5>1
      <4>2. CASE i >= k
        <5>1. i + 1 \in 1..Len(l) /\ i + 1 # k /\ m[i + 1] = i
          BY <3>1, <4>2, SMT
        <5>. QED
          BY <5>1
      <4>. QED
        BY <3>1, <4>1, <4>2, SMT
    <3>7. Inserted(fl, l, k, m)
      BY <3>2, <3>3, <3>4, <3>5, <3>6 DEF Inserted
    <3>. QED
      BY <3>7
  <2>RunMisses.
       ASSUME NPAGES \in Nat, NEW r, RunOK(r), NEW v \in Nat, NEW n \in Nat, n > 0,
              \A a \in Pages(v, n) : ~InRun(r, a)
       PROVE  /\ \/ r.p + r.len <= v
                 \/ v + n <= r.p
              /\ ~Stops(r, v, n) => r.p + r.len < v
    <3>. USE <2>RunMisses
    <3>1. v \in Pages(v, n)
      BY SMT DEF Pages
    <3>2. \A a \in Int : v <= a /\ a < v + n => a \in Pages(v, n)
      BY SMT DEF Pages
    <3>3. ~InRun(r, v)
      BY <3>1, SMT
    <3>4. v <= r.p /\ r.p < v + n => ~InRun(r, r.p)
      BY <3>2, SMT DEF RunOK
    <3>. QED
      BY <3>3, <3>4, SMT DEF RunOK, InRun, Stops
    \* The runs that kfree() makes: the freed pages, alone or joined to the run
    \* after them or before them or to both.
  <2>RunMade.
       ASSUME NPAGES \in Nat, NEW v \in Nat, v > 0, NEW n \in Nat, n > 0, v + n <= NPAGES + 1
       PROVE  /\ Run(v, n) \in RunSet /\ RunOK(Run(v, n))
              /\ \A a \in Int : InRun(Run(v, n), a) <=> a \in Pages(v, n)
              /\ Run(v, n).p = v /\ Run(v, n).len = n
    BY <2>RunMade, SMT DEF Run, RunSet, RunOK, InRun, Pages
  <2>RunJoined.
       ASSUME NPAGES \in Nat, NEW r, RunOK(r), NEW s, RunOK(s), r.p + r.len = s.p
       PROVE  /\ Run(r.p, r.len + s.len) \in RunSet /\ RunOK(Run(r.p, r.len + s.len))
              /\ \A a \in Int : InRun(Run(r.p, r.len + s.len), a) <=> InRun(r, a) \/ InRun(s, a)
              /\ Run(r.p, r.len + s.len).p = r.p /\ Run(r.p, r.len + s.len).len = r.len + s.len
              /\ r.p + (r.len + s.len) = s.p + s.len
    BY <2>RunJoined, SMT DEF Run, RunSet, RunOK, InRun
  <2>RunGrows.
       ASSUME NEW r \in RunSet, NEW n \in Nat
       PROVE  [r EXCEPT !.len = r.len + n] = Run(r.p, r.len + n)
    BY SMT DEF Run, RunSet
  <2>AppendIs.
       ASSUME NEW T, NEW fl \in Seq(T), NEW r \in T
       PROVE  /\ Append(fl, r) \in Seq(T)
              /\ Len(Append(fl, r)) = Len(fl) + 1
              /\ \A j \in 1..(Len(fl) + 1) : Append(fl, r)[j] =
                   IF j < Len(fl) + 1 THEN fl[j] ELSE IF j = Len(fl) + 1 THEN r ELSE fl[j - 1]
    BY SMT
    \* One run goes into the list: what <2>InsertRun and <2>WithRunInserts make of it.
  <2>ListGains.
       ASSUME NEW fl \in Seq(RunSet), Sorted(fl), NEW k \in 1..(Len(fl) + 1), NEW r \in RunSet,
              NEW l, l \in Seq(RunSet), Len(l) = Len(fl) + 1,
              \A j \in 1..(Len(fl) + 1) : l[j] =
                IF j < k THEN fl[j] ELSE IF j = k THEN r ELSE fl[j - 1],
              RunOK(r),
              \A j \in 1..Len(fl) : j < k => fl[j].p + fl[j].len < r.p,
              \A j \in 1..Len(fl) : k <= j => r.p + r.len < fl[j].p
       PROVE  /\ Sorted(l)
              /\ \A a \in Int : FreeAt(l, a) <=> InRun(r, a) \/ FreeAt(fl, a)
    <3>. USE <2>ListGains
    <3>1. PICK m : Inserted(fl, l, k, m)
      BY <2>WithRunInserts
    <3>2. l[k] = r /\ k \in 1..Len(l) /\ Len(l) \in Nat
      <4>1. ~(k < k) /\ Len(fl) + 1 \in Nat
        BY SMT
      <4>. QED
        BY <4>1
    <3>3. Fits(fl, l, k, k)
      BY <3>2 DEF Fits
    <3>4. /\ Sorted(l)
          /\ \A a \in Int : FreeAt(l, a) <=> InRun(l[k], a) \/ FreeAt(fl, a)
      BY <3>1, <3>2, <3>3, <2>InsertRun, SMT
    <3>. QED
      BY <3>2, <3>4
    \* One run is replaced.
  <2>ListChanges.
       ASSUME NEW fl \in Seq(RunSet), Sorted(fl), NEW k \in 1..Len(fl), NEW r \in RunSet,
              NEW l, l = [fl EXCEPT ![k] = r],
              RunOK(r),
              \A j \in 1..Len(fl) : j < k => fl[j].p + fl[j].len < r.p,
              \A j \in 1..Len(fl) : k < j => r.p + r.len < fl[j].p
       PROVE  /\ l \in Seq(RunSet) /\ Sorted(l)
              /\ \A a \in Int : FreeAt(l, a) <=> InRun(r, a) \/ (FreeAt(fl, a) /\ ~InRun(fl[k], a))
    <3>. USE <2>ListChanges
    <3>1. l \in Seq(RunSet) /\ Replaces(fl, l, k) /\ l[k] = r
      BY <1>ExceptReplaces
    <3>2. ASSUME NEW j \in 1..Len(fl), k + 1 <= j PROVE k < j
      BY <3>2, SMT
    <3>3. Fits(fl, l, k, k + 1)
      BY <3>1, <3>2 DEF Fits
    <3>4. /\ Sorted(l)
          /\ \A a \in Int : FreeAt(l, a) <=> InRun(l[k], a) \/ (FreeAt(fl, a) /\ ~InRun(fl[k], a))
      BY <3>1, <3>3, <1>ReplaceRun
    <3>. QED
      BY <3>1, <3>4
  <2>RunBehind.
       ASSUME NEW r, RunOK(r), NEW s, RunOK(s), NEW v \in Nat, NEW n \in Nat,
              \/ v + n <= r.p
              \/ r.p + r.len = v,
              \/ s.p + s.len <= v
              \/ v + n <= s.p,
              r.p + r.len < s.p
       PROVE  v + n <= s.p
    BY <2>RunBehind, SMT DEF RunOK
  <2>PlaceIs.
       ASSUME NPAGES \in Nat, NEW fl, ListOK(fl), NEW v \in Nat, v > 0,
              NEW n \in Nat, n > 0, \A a \in Pages(v, n) : ~FreeAt(fl, a),
              NEW k, k = kfree_run(fl, v, n)
       PROVE  \/ k = 0 /\ \A j \in 1..Len(fl) : fl[j].p + fl[j].len < v
              \/ k \in 1..Len(fl) /\ Place(fl, k, v, n)
    <3>. USE <2>PlaceIs
    <3>1. /\ fl \in Seq(RunSet) /\ Sorted(fl) /\ DOMAIN fl = 1..Len(fl)
          /\ Len(fl) \in Nat /\ \A j \in 1..Len(fl) : RunOK(fl[j])
      BY ListSorted, ListElement, SortedRun
    <3>2. \A j \in 1..Len(fl) :
            /\ \/ fl[j].p + fl[j].len <= v
               \/ v + n <= fl[j].p
            /\ ~Stops(fl[j], v, n) => fl[j].p + fl[j].len < v
      <4>1. \A j \in 1..Len(fl) : RunOK(fl[j]) /\ \A a \in Pages(v, n) : ~InRun(fl[j], a)
        BY <3>1 DEF FreeAt
      <4>. QED
        BY <4>1, <2>RunMisses
    <3>. DEFINE S == {j \in 1..Len(fl) : Stops(fl[j], v, n)}
    <3>3. S \subseteq Nat /\ k = First(S)
      BY <3>1, SMT DEF kfree_run, Stops
    <3>4. \/ S = {} /\ k = 0
          \/ k \in S /\ \A j \in S : k <= j
      BY <3>3, <1>FirstIs
    <3>5. CASE S = {} /\ k = 0
      BY <3>2, <3>5
    <3>6. CASE k \in S /\ \A j \in S : k <= j
      <4>1. k \in 1..Len(fl) /\ Stops(fl[k], v, n) /\ RunOK(fl[k])
        BY <3>1, <3>6
      <4>2. ASSUME NEW j \in 1..Len(fl), j < k PROVE fl[j].p + fl[j].len < v
        <5>1. ~(k <= j)
          BY <4>1, <4>2, SMT
        <5>. QED
          BY <3>2, <3>6, <5>1
      <4>3. /\ RunOK(fl[k])
            /\ \/ fl[k].p + fl[k].len <= v
               \/ v + n <= fl[k].p
        BY <3>2, <4>1
      <4>4. \/ v + n <= fl[k].p
            \/ fl[k].p + fl[k].len = v
        BY <4>1, <4>3, SMTT(30) DEF Stops, RunOK
      <4>5. ASSUME NEW j \in 1..Len(fl), k < j PROVE v + n <= fl[j].p
        <5>1. fl[k].p + fl[k].len < fl[j].p
          BY <3>1, <4>1, <4>5 DEF Sorted
        <5>2. RunOK(fl[j])
          BY <3>1
        <5>3. \/ fl[j].p + fl[j].len <= v
              \/ v + n <= fl[j].p
          BY <3>2
        <5>. QED
          BY <4>3, <4>4, <5>1, <5>2, <5>3, <2>RunBehind
      <4>. QED
        BY <4>1, <4>2, <4>4, <4>5 DEF Place
    <3>. QED
      BY <3>4, <3>5, <3>6
    \* kfree() as the cases of Place.
  <2>KfreeIs.
       ASSUME NEW fl, NEW v \in Nat, NEW n \in Nat
       PROVE  LET k == kfree_run(fl, v, n)
                  l == kfree(fl, v, n)
              IN /\ k = 0 => l = Append(fl, Run(v, n))
                 /\ k # 0 /\ fl[k].p = v + n => l = [fl EXCEPT ![k] = Run(v, n + fl[k].len)]
                 /\ k # 0 /\ fl[k].p # v + n /\ fl[k].p > v + n => l = WithRun(fl, k, Run(v, n))
                 /\ k # 0 /\ fl[k].p # v + n /\ ~(fl[k].p > v + n) => l = Joined(fl, k, n)
    <3>. DEFINE k == kfree_run(fl, v, n)
    <3>1. k = 0 => kfree(fl, v, n) = Append(fl, Run(v, n))
      BY DEF kfree
    <3>2. k # 0 /\ fl[k].p = v + n =>
            kfree(fl, v, n) = [fl EXCEPT ![k] = Run(v, n + fl[k].len)]
      <4>1. ~(v + n > v + n)
        BY SMT
      <4>. QED
        BY <4>1 DEF kfree
    <3>3. k # 0 /\ fl[k].p # v + n /\ fl[k].p > v + n =>
            kfree(fl, v, n) = WithRun(fl, k, Run(v, n))
      BY DEF kfree
    <3>4. k # 0 /\ fl[k].p # v + n /\ ~(fl[k].p > v + n) =>
            kfree(fl, v, n) = Joined(fl, k, n)
      BY DEF kfree
    <3>. QED
      BY <3>1, <3>2, <3>3, <3>4
  <2>JoinedIs.
       ASSUME NEW fl \in Seq(RunSet), NEW k \in 1..Len(fl), NEW n \in Nat
       PROVE  /\ k = Len(fl) \/ fl[k + 1].p # fl[k].p + fl[k].len + n =>
                   Joined(fl, k, n) = [fl EXCEPT ![k] = Run(fl[k].p, fl[k].len + n)]
              /\ k # Len(fl) /\ fl[k + 1].p = fl[k].p + fl[k].len + n =>
                   Joined(fl, k, n) =
                     Without([fl EXCEPT ![k] = Run(fl[k].p, fl[k].len + n + fl[k + 1].len)], k + 1)
    <3>1. Len(fl) \in Nat /\ fl[k] \in RunSet /\ DOMAIN fl = 1..Len(fl)
      BY ListElement
    <3>. DEFINE r == Run(fl[k].p, fl[k].len + n)
                g == [fl EXCEPT ![k] = r]
    <3>2. [fl EXCEPT ![k].len = @ + n] = g
      <4>1. [fl[k] EXCEPT !.len = fl[k].len + n] = r
        BY <3>1, <2>RunGrows
      <4>. QED
        BY <4>1
    <3>3. k < Len(fl) <=> k # Len(fl)
      <4>1. Len(fl) \in Nat
        BY <3>1
      <4>. QED
        BY <4>1, SMT
    <3>4. g[k] = r
      BY <3>1
    <3>5. [g EXCEPT ![k].len = @ + fl[k + 1].len] = [fl EXCEPT ![k] = [r EXCEPT !.len = r.len + fl[k + 1].len]]
      BY <3>1
    <3>6. [r EXCEPT !.len = r.len + fl[k + 1].len] = Run(fl[k].p, fl[k].len + n + fl[k + 1].len)
      BY SMT DEF Run
    <3>. QED
      BY <3>2, <3>3, <3>5, <3>6 DEF Joined
    \* No run is before the freed memory's end: it becomes the last run.
  <2>KfreeLast.
       ASSUME NPAGES \in Nat, NEW fl \in Seq(RunSet), Sorted(fl), NEW v \in Nat, v > 0,
              NEW n \in Nat, n > 0, v + n <= NPAGES + 1,
              \A j \in 1..Len(fl) : fl[j].p + fl[j].len < v
       PROVE  Freed(fl, Append(fl, Run(v, n)), v, n)
    <3>. USE <2>KfreeLast
    <3>. DEFINE r == Run(v, n)
                l == Append(fl, r)
                k == Len(fl) + 1
    <3>1. /\ r \in RunSet /\ RunOK(r) /\ r.p = v /\ r.len = n
          /\ \A a \in Int : InRun(r, a) <=> a \in Pages(v, n)
      BY <2>RunMade
    <3>. HIDE DEF r
    <3>2. /\ l \in Seq(RunSet) /\ Len(l) = Len(fl) + 1
          /\ \A j \in 1..(Len(fl) + 1) :
               l[j] = IF j < k THEN fl[j] ELSE IF j = k THEN r ELSE fl[j - 1]
      BY <3>1, <2>AppendIs, SMT
    <3>. HIDE DEF l
    <3>3. Len(fl) \in Nat
      BY ListElement
    <3>4. k \in 1..(Len(fl) + 1) /\ \A j \in 1..Len(fl) : ~(k <= j)
      BY <3>3, SMT
    <3>. HIDE DEF k
    <3>5. /\ Sorted(l)
          /\ \A a \in Int : FreeAt(l, a) <=> InRun(r, a) \/ FreeAt(fl, a)
      BY <3>1, <3>2, <3>4, <2>ListGains
    <3>. QED
      BY <3>1, <3>2, <3>5 DEF Freed, r, l
    \* It becomes a run of its own between two others.
  <2>KfreeBetween.
       ASSUME NPAGES \in Nat, NEW fl \in Seq(RunSet), Sorted(fl), NEW v \in Nat, v > 0,
              NEW n \in Nat, n > 0, v + n <= NPAGES + 1, NEW k \in 1..Len(fl),
              Place(fl, k, v, n), v + n < fl[k].p
       PROVE  Freed(fl, WithRun(fl, k, Run(v, n)), v, n)
    <3>. USE <2>KfreeBetween
    <3>. DEFINE r == Run(v, n)
                l == WithRun(fl, k, r)
    <3>1. /\ r \in RunSet /\ RunOK(r) /\ r.p = v /\ r.len = n
          /\ \A a \in Int : InRun(r, a) <=> a \in Pages(v, n)
      BY <2>RunMade
    <3>. HIDE DEF r
    <3>2. /\ l \in Seq(RunSet) /\ Len(l) = Len(fl) + 1
          /\ \A j \in 1..(Len(fl) + 1) :
               l[j] = IF j < k THEN fl[j] ELSE IF j = k THEN r ELSE fl[j - 1]
      BY <3>1, <2>WithRunIs, SMT
    <3>. HIDE DEF l
    <3>3. Len(fl) \in Nat
      BY ListElement
    <3>4. k \in 1..(Len(fl) + 1)
      BY <3>3, SMT
    <3>5. ASSUME NEW j \in 1..Len(fl), k <= j PROVE r.p + r.len < fl[j].p
      <4>1. CASE j = k
        BY <3>1, <4>1
      <4>2. CASE j # k
        <5>1. k < j
          BY <3>3, <3>5, <4>2, SMT
        <5>2. fl[k].p + fl[k].len < fl[j].p /\ RunOK(fl[k]) /\ RunOK(fl[j])
          BY <5>1, SortedRun DEF Sorted
        <5>3. v + n < fl[j].p
          BY <5>2, SMTT(30) DEF RunOK
        <5>. QED
          BY <3>1, <5>3
      <4>. QED
        BY <4>1, <4>2
    <3>6. /\ Sorted(l)
          /\ \A a \in Int : FreeAt(l, a) <=> InRun(r, a) \/ FreeAt(fl, a)
      BY <3>1, <3>2, <3>4, <3>5, <2>ListGains DEF Place
    <3>. QED
      BY <3>1, <3>2, <3>6 DEF Freed, r, l
    \* It touches the run after it only.
  <2>KfreeBefore.
       ASSUME NPAGES \in Nat, NEW fl \in Seq(RunSet), Sorted(fl), NEW v \in Nat, v > 0,
              NEW n \in Nat, n > 0, v + n <= NPAGES + 1, NEW k \in 1..Len(fl),
              Place(fl, k, v, n), fl[k].p = v + n
       PROVE  Freed(fl, [fl EXCEPT ![k] = Run(v, n + fl[k].len)], v, n)
    <3>. USE <2>KfreeBefore
    <3>. DEFINE r == Run(v, n + fl[k].len)
                s == Run(v, n)
                l == [fl EXCEPT ![k] = r]
    <3>1. /\ s \in RunSet /\ RunOK(s) /\ s.p = v /\ s.len = n
          /\ \A a \in Int : InRun(s, a) <=> a \in Pages(v, n)
      BY <2>RunMade
    <3>. HIDE DEF s
    <3>2. RunOK(fl[k])
      BY SortedRun
    <3>3. /\ r \in RunSet /\ RunOK(r) /\ r.p = v /\ r.p + r.len = fl[k].p + fl[k].len
          /\ \A a \in Int : InRun(r, a) <=> InRun(s, a) \/ InRun(fl[k], a)
      BY <3>1, <3>2, <2>RunJoined, SMT
    <3>. HIDE DEF r
    <3>4. \A j \in 1..Len(fl) : j < k => fl[j].p + fl[j].len < r.p
      BY <3>3 DEF Place
    <3>5. \A j \in 1..Len(fl) : k < j => r.p + r.len < fl[j].p
      BY <3>3 DEF Sorted
    <3>6. /\ l \in Seq(RunSet) /\ Sorted(l)
          /\ \A a \in Int : FreeAt(l, a) <=> InRun(r, a) \/ (FreeAt(fl, a) /\ ~InRun(fl[k], a))
      BY <3>3, <3>4, <3>5, <2>ListChanges
    <3>. HIDE DEF l
    <3>7. \A a \in Int : InRun(fl[k], a) => FreeAt(fl, a)
      BY DEF FreeAt
    <3>8. \A a \in Int : FreeAt(l, a) <=> FreeAt(fl, a) \/ a \in Pages(v, n)
      BY <3>1, <3>3, <3>6, <3>7
    <3>. QED
      BY <3>6, <3>8 DEF Freed, r, l
  <2>RunAbove.
       ASSUME NEW r, RunOK(r), NEW v \in Nat, NEW n \in Nat, v + n <= r.p, r.p # v + n
       PROVE  /\ v + n < r.p
              /\ \A s : RunOK(s) /\ r.p + r.len < s.p => v + n < s.p
    BY <2>RunAbove, SMT DEF RunOK
  <2>RunOff.
       ASSUME NEW r, RunOK(r), NEW v \in Nat, NEW n \in Nat, n > 0,
              v + n <= r.p \/ r.p + r.len = v
       PROVE  /\ ~(r.p <= v /\ v < r.p + r.len)
              /\ r.p > v + n <=> v + n < r.p
              /\ r.p + r.len = v => r.p # v + n /\ ~(r.p > v + n)
              /\ \/ r.p = v + n
                 \/ v + n < r.p /\ r.p # v + n
                 \/ r.p + r.len = v
    BY <2>RunOff, SMT DEF RunOK
  <2>NextIndex.
       ASSUME NEW m \in Nat, NEW k \in 1..m, NEW j \in 1..m, k < j
       PROVE  k + 1 \in 1..m /\ k < k + 1 /\ k # m /\ (j # k + 1 => k + 1 < j)
    BY <2>NextIndex, SMT
    \* It touches the run before it only, ...
  <2>KfreeAfter.
       ASSUME NPAGES \in Nat, NEW fl \in Seq(RunSet), Sorted(fl), NEW v \in Nat, v > 0,
              NEW n \in Nat, n > 0, v + n <= NPAGES + 1, NEW k \in 1..Len(fl),
              Place(fl, k, v, n), fl[k].p + fl[k].len = v,
              k = Len(fl) \/ fl[k + 1].p # v + n
       PROVE  Freed(fl, [fl EXCEPT ![k] = Run(fl[k].p, fl[k].len + n)], v, n)
    <3>. USE <2>KfreeAfter
    <3>. DEFINE r == Run(fl[k].p, fl[k].len + n)
                s == Run(v, n)
                l == [fl EXCEPT ![k] = r]
    <3>1. /\ s \in RunSet /\ RunOK(s) /\ s.p = v /\ s.len = n
          /\ \A a \in Int : InRun(s, a) <=> a \in Pages(v, n)
      BY <2>RunMade
    <3>. HIDE DEF s
    <3>2. RunOK(fl[k])
      BY SortedRun
    <3>n. Len(fl) \in Nat
      BY ListElement
    <3>3. /\ r \in RunSet /\ RunOK(r) /\ r.p = fl[k].p /\ r.p + r.len = v + n
          /\ \A a \in Int : InRun(r, a) <=> InRun(fl[k], a) \/ InRun(s, a)
      BY <3>1, <3>2, <2>RunJoined
    <3>. HIDE DEF r
    <3>4. \A j \in 1..Len(fl) : j < k => fl[j].p + fl[j].len < r.p
      BY <3>3 DEF Sorted
    <3>5. ASSUME NEW j \in 1..Len(fl), k < j PROVE r.p + r.len < fl[j].p
      <4>1. k + 1 \in 1..Len(fl) /\ k < k + 1 /\ k # Len(fl)
        BY <3>n, <3>5, <2>NextIndex
      <4>2. v + n <= fl[k + 1].p /\ fl[k + 1].p # v + n /\ RunOK(fl[k + 1]) /\ RunOK(fl[j])
        BY <4>1, SortedRun DEF Place
      <4>3. v + n < fl[k + 1].p
        BY <4>2, <2>RunAbove
      <4>4. CASE j = k + 1
        BY <3>3, <4>3, <4>4
      <4>5. CASE j # k + 1
        <5>1. k + 1 < j
          BY <3>n, <3>5, <4>5, <2>NextIndex
        <5>2. fl[k + 1].p + fl[k + 1].len < fl[j].p
          BY <4>1, <5>1 DEF Sorted
        <5>3. v + n < fl[j].p
          BY <4>2, <5>2, <2>RunAbove
        <5>. QED
          BY <3>3, <5>3
      <4>. QED
        BY <4>4, <4>5
    <3>6. /\ l \in Seq(RunSet) /\ Sorted(l)
          /\ \A a \in Int : FreeAt(l, a) <=> InRun(r, a) \/ (FreeAt(fl, a) /\ ~InRun(fl[k], a))
      BY <3>3, <3>4, <3>5, <2>ListChanges
    <3>. HIDE DEF l
    <3>7. \A a \in Int : InRun(fl[k], a) => FreeAt(fl, a)
      BY DEF FreeAt
    <3>8. \A a \in Int : FreeAt(l, a) <=> FreeAt(fl, a) \/ a \in Pages(v, n)
      BY <3>1, <3>3, <3>6, <3>7
    <3>. QED
      BY <3>6, <3>8 DEF Freed, r, l
  <2>RunsJoined.
       ASSUME NPAGES \in Nat, NEW r, RunOK(r), NEW s, RunOK(s), NEW v \in Nat, NEW n \in Nat,
              r.p + r.len = v, s.p = v + n
       PROVE  LET t == Run(r.p, r.len + n + s.len)
              IN /\ t \in RunSet /\ RunOK(t) /\ t.p = r.p
                 /\ t.p + t.len = s.p + s.len
                 /\ \A a \in Int : InRun(t, a) <=>
                      InRun(r, a) \/ a \in Pages(v, n) \/ InRun(s, a)
    BY <2>RunsJoined, SMT DEF Run, RunSet, RunOK, InRun, Pages
  <2>LastIndex.
       ASSUME NEW m \in Nat, NEW k \in 1..m, k # m
       PROVE  k + 1 \in 1..m /\ k < k + 1 /\ k \in 1..(m - 1)
              /\ \A j \in 1..(m - 1) :
                   /\ j < k + 1 => j \in 1..m
                   /\ j < k => j < k + 1 /\ j \in 1..m
                   /\ ~(j < k + 1) => j + 1 \in 1..m /\ j + 1 # k /\ k + 1 < j + 1
                   /\ k + 1 <= j => ~(j < k + 1)
    BY <2>LastIndex, SMT
    \* ... or the runs on both sides: all three become one.
  <2>KfreeFills.
       ASSUME NPAGES \in Nat, NEW fl \in Seq(RunSet), Sorted(fl), NEW v \in Nat, v > 0,
              NEW n \in Nat, n > 0, v + n <= NPAGES + 1, NEW k \in 1..Len(fl),
              Place(fl, k, v, n), fl[k].p + fl[k].len = v,
              k # Len(fl), fl[k + 1].p = v + n
       PROVE  Freed(fl, Without([fl EXCEPT ![k] = Run(fl[k].p, fl[k].len + n + fl[k + 1].len)], k + 1),
                    v, n)
    <3>. USE <2>KfreeFills
    <3>. DEFINE t == Run(fl[k].p, fl[k].len + n + fl[k + 1].len)
                g == [fl EXCEPT ![k] = t]
                l == Without(g, k + 1)
                w == Without(fl, k + 1)
    <3>n. Len(fl) \in Nat
      BY ListElement
    <3>k. k + 1 \in 1..Len(fl) /\ k < k + 1 /\ k \in 1..(Len(fl) - 1)
          /\ \A j \in 1..(Len(fl) - 1) :
               /\ j < k + 1 => j \in 1..Len(fl)
               /\ j < k => j < k + 1 /\ j \in 1..Len(fl)
               /\ ~(j < k + 1) => j + 1 \in 1..Len(fl) /\ j + 1 # k /\ k + 1 < j + 1
               /\ k + 1 <= j => ~(j < k + 1)
      BY <3>n, <2>LastIndex
    <3>2. RunOK(fl[k]) /\ RunOK(fl[k + 1])
      BY <3>k, SortedRun
    <3>4. /\ t \in RunSet /\ RunOK(t) /\ t.p = fl[k].p
          /\ t.p + t.len = fl[k + 1].p + fl[k + 1].len
          /\ \A a \in Int : InRun(t, a) <=>
               InRun(fl[k], a) \/ a \in Pages(v, n) \/ InRun(fl[k + 1], a)
      BY <3>2, <2>RunsJoined, SMTT(30)
    <3>. HIDE DEF t
    <3>5. /\ w \in Seq(RunSet) /\ Sorted(w)
          /\ \A a \in Int : FreeAt(w, a) <=> FreeAt(fl, a) /\ ~InRun(fl[k + 1], a)
      BY <3>k, <1>WithoutRemoves
    <3>6. /\ Len(w) = Len(fl) - 1
          /\ \A j \in 1..(Len(fl) - 1) : w[j] = IF j < k + 1 THEN fl[j] ELSE fl[j + 1]
      BY <3>k, <1>WithoutIs
    <3>7. g \in Seq(RunSet) /\ Replaces(fl, g, k) /\ g[k] = t
      BY <3>4, <1>ExceptReplaces, SMT
    <3>. HIDE DEF g
    <3>8. Len(g) = Len(fl) /\ \A j \in 1..Len(fl) : j # k => g[j] = fl[j]
      BY <3>7 DEF Replaces
    <3>9. /\ l \in Seq(RunSet) /\ Len(l) = Len(fl) - 1
          /\ \A j \in 1..(Len(fl) - 1) : l[j] = IF j < k + 1 THEN g[j] ELSE g[j + 1]
      <4>1. g \in Seq(RunSet) /\ Len(g) = Len(fl) /\ k + 1 \in 1..Len(g)
        BY <3>k, <3>7, <3>8
      <4>2. /\ l \in Seq(RunSet) /\ Len(l) = Len(g) - 1
            /\ \A j \in 1..(Len(g) - 1) : l[j] = IF j < k + 1 THEN g[j] ELSE g[j + 1]
        BY <4>1, <1>WithoutIs, SMT
      <4>. QED
        BY <4>1, <4>2
    <3>. HIDE DEF l, w
    <3>10. Replaces(w, l, k) /\ l[k] = t /\ w[k] = fl[k] /\ k \in 1..Len(w)
      <4>1. ASSUME NEW j \in 1..(Len(fl) - 1), j # k PROVE l[j] = w[j]
        <5>1. CASE j < k + 1
          <6>1. w[j] = fl[j] /\ l[j] = g[j] /\ j \in 1..Len(fl)
            BY <3>k, <3>6, <3>9, <5>1
          <6>. QED
            BY <3>8, <4>1, <6>1
        <5>2. CASE ~(j < k + 1)
          <6>1. w[j] = fl[j + 1] /\ l[j] = g[j + 1] /\ j + 1 \in 1..Len(fl) /\ j + 1 # k
            BY <3>k, <3>6, <3>9, <5>2
          <6>. QED
            BY <3>8, <6>1
        <5>. QED
          BY <5>1, <5>2
      <4>2. l[k] = t /\ w[k] = fl[k] /\ k \in 1..Len(w)
        BY <3>k, <3>6, <3>7, <3>9
      <4>. QED
        BY <3>6, <3>9, <4>1, <4>2 DEF Replaces
    <3>11. Fits(w, l, k, k + 1)
      <4>1. ASSUME NEW j \in 1..Len(w), j < k PROVE w[j].p + w[j].len < l[k].p
        <5>1. w[j] = fl[j] /\ j \in 1..Len(fl)
          BY <3>k, <3>6, <4>1
        <5>. QED
          BY <3>4, <3>10, <4>1, <5>1 DEF Sorted
      <4>2. ASSUME NEW j \in 1..Len(w), k + 1 <= j PROVE l[k].p + l[k].len < w[j].p
        <5>1. w[j] = fl[j + 1] /\ j + 1 \in 1..Len(fl) /\ k + 1 < j + 1
          BY <3>k, <3>6, <4>2
        <5>. QED
          BY <3>k, <3>4, <3>10, <5>1 DEF Sorted
      <4>. QED
        BY <3>4, <3>10, <4>1, <4>2 DEF Fits
    <3>12. /\ Sorted(l)
           /\ \A a \in Int : FreeAt(l, a) <=> InRun(l[k], a) \/ (FreeAt(w, a) /\ ~InRun(w[k], a))
      BY <3>5, <3>10, <3>11, <1>ReplaceRun
    <3>13. \A a \in Int : InRun(fl[k], a) \/ InRun(fl[k + 1], a) => FreeAt(fl, a)
      BY <3>k DEF FreeAt
    <3>14. \A a \in Int : FreeAt(l, a) <=> FreeAt(fl, a) \/ a \in Pages(v, n)
      BY <3>4, <3>5, <3>10, <3>12, <3>13
    <3>. QED
      BY <3>9, <3>12, <3>14 DEF Freed, l, g, t
  <2>. SUFFICES ASSUME NPAGES \in Nat, NEW fl, ListOK(fl), NEW v \in Nat, v > 0,
                       NEW n \in Nat, n > 0, v + n <= NPAGES + 1,
                       \A a \in Pages(v, n) : ~FreeAt(fl, a)
                PROVE  /\ ~FreesFree(fl, v, n)
                       /\ ListOK(kfree(fl, v, n))
                       /\ \A a \in Int : FreeAt(kfree(fl, v, n), a) <=>
                                           FreeAt(fl, a) \/ a \in Pages(v, n)
    OBVIOUS
  <2>. DEFINE k == kfree_run(fl, v, n)
              l == kfree(fl, v, n)
  <2>1. /\ fl \in Seq(RunSet) /\ Sorted(fl)
        /\ \A j \in 1..Len(fl) : RunOK(fl[j])
    BY ListSorted, SortedRun
  <2>2. \/ k = 0 /\ \A j \in 1..Len(fl) : fl[j].p + fl[j].len < v
        \/ k \in 1..Len(fl) /\ Place(fl, k, v, n)
    BY <2>PlaceIs
  <2>3. ~FreesFree(fl, v, n)
    <3>1. CASE k = 0
      BY <3>1 DEF FreesFree
    <3>2. CASE k \in 1..Len(fl) /\ Place(fl, k, v, n)
      <4>1. RunOK(fl[k]) /\ (v + n <= fl[k].p \/ fl[k].p + fl[k].len = v)
        BY <2>1, <3>2 DEF Place
      <4>2. ~(fl[k].p <= v /\ v < fl[k].p + fl[k].len)
        BY <4>1, <2>RunOff
      <4>. QED
        BY <4>2 DEF FreesFree
    <3>. QED
      BY <2>2, <3>1, <3>2
  <2>k. k = kfree_run(fl, v, n)
    BY SMT
  <2>i. /\ k = 0 => l = Append(fl, Run(v, n))
        /\ k # 0 /\ fl[k].p = v + n => l = [fl EXCEPT ![k] = Run(v, n + fl[k].len)]
        /\ k # 0 /\ fl[k].p # v + n /\ fl[k].p > v + n => l = WithRun(fl, k, Run(v, n))
        /\ k # 0 /\ fl[k].p # v + n /\ ~(fl[k].p > v + n) => l = Joined(fl, k, n)
    BY <2>KfreeIs
  <2>. HIDE DEF k, l
  <2>4. Freed(fl, l, v, n)
    <3>1. CASE k = 0 /\ \A j \in 1..Len(fl) : fl[j].p + fl[j].len < v
      <4>1. l = Append(fl, Run(v, n))
        BY <2>i, <3>1
      <4>. QED
        BY <2>1, <3>1, <4>1, <2>KfreeLast
    <3>2. CASE k \in 1..Len(fl) /\ Place(fl, k, v, n)
      <4>0. k # 0 /\ v + n \in Nat
        BY <3>2, SMT
      <4>1. RunOK(fl[k]) /\ (v + n <= fl[k].p \/ fl[k].p + fl[k].len = v)
        BY <2>1, <3>2 DEF Place
      <4>2. /\ fl[k].p > v + n <=> v + n < fl[k].p
            /\ fl[k].p + fl[k].len = v => fl[k].p # v + n /\ ~(fl[k].p > v + n)
            /\ \/ fl[k].p = v + n
               \/ v + n < fl[k].p /\ fl[k].p # v + n
               \/ fl[k].p + fl[k].len = v
        BY <4>1, <2>RunOff
      <4>3. CASE fl[k].p = v + n
        <5>1. l = [fl EXCEPT ![k] = Run(v, n + fl[k].len)]
          BY <4>0, <4>3, <2>i
        <5>. QED
          BY <2>1, <3>2, <4>3, <5>1, <2>KfreeBefore
      <4>4. CASE v + n < fl[k].p /\ fl[k].p # v + n
        <5>1. l = WithRun(fl, k, Run(v, n))
          BY <4>0, <4>2, <4>4, <2>i
        <5>. QED
          BY <2>1, <3>2, <4>4, <5>1, <2>KfreeBetween
      <4>5. CASE fl[k].p + fl[k].len = v
        <5>1. l = Joined(fl, k, n)
          BY <4>0, <4>2, <4>5, <2>i
        <5>j. /\ k = Len(fl) \/ fl[k + 1].p # fl[k].p + fl[k].len + n =>
                   Joined(fl, k, n) = [fl EXCEPT ![k] = Run(fl[k].p, fl[k].len + n)]
              /\ k # Len(fl) /\ fl[k + 1].p = fl[k].p + fl[k].len + n =>
                   Joined(fl, k, n) =
                     Without([fl EXCEPT ![k] = Run(fl[k].p, fl[k].len + n + fl[k + 1].len)], k + 1)
          BY <2>1, <3>2, <2>JoinedIs, SMT
        <5>2. CASE k = Len(fl) \/ fl[k + 1].p # v + n
          <6>0. k = Len(fl) \/ fl[k + 1].p # fl[k].p + fl[k].len + n
            BY <4>5, <5>2
          <6>1. l = [fl EXCEPT ![k] = Run(fl[k].p, fl[k].len + n)]
            BY <5>j, <5>1, <6>0
          <6>. QED
            BY <2>1, <3>2, <4>5, <5>2, <6>1, <2>KfreeAfter
        <5>3. CASE ~(k = Len(fl) \/ fl[k + 1].p # v + n)
          <6>1. l = Without([fl EXCEPT ![k] = Run(fl[k].p, fl[k].len + n + fl[k + 1].len)], k + 1)
            BY <5>j, <4>5, <5>1, <5>3
          <6>. QED
            BY <2>1, <3>2, <4>5, <5>3, <6>1, <2>KfreeFills
        <5>. QED
          BY <5>2, <5>3
      <4>. QED
        BY <4>2, <4>3, <4>4, <4>5
    <3>. QED
      BY <2>2, <3>1, <3>2
  <2>. QED
    BY <2>3, <2>4, ListSorted DEF Freed, l
  \* kalloc() fails only if there are no n free pages in a row.
<1>KallocComplete.
     ASSUME NPAGES \in Nat, NEW fl, ListOK(fl), NEW n \in Nat, n > 0,
            NEW v \in Nat, \A a \in Pages(v, n) : FreeAt(fl, a)
     PROVE  kalloc_addr(fl, n) # 0
  <2>. USE <1>KallocComplete
  <2>. DEFINE k == kalloc_run(fl, n)
  <2>1. /\ fl \in Seq(RunSet) /\ Sorted(fl) /\ DOMAIN fl = 1..Len(fl)
        /\ Len(fl) \in Nat /\ \A j \in 1..Len(fl) : fl[j] \in RunSet /\ RunOK(fl[j])
    BY ListSorted, ListElement, SortedRun
  <2>2. v \in Pages(v, n)
    BY SMT DEF Pages
  <2>3. PICK j \in 1..Len(fl) : InRun(fl[j], v)
    BY <2>2 DEF FreeAt
  <2>4. fl[j].len >= n
    <3>1. SUFFICES ASSUME ~(fl[j].len >= n) PROVE FALSE
      OBVIOUS
    <3>. DEFINE e == fl[j].p + fl[j].len
    <3>2. RunOK(fl[j])
      BY <2>1
    <3>3. e \in Pages(v, n) /\ e \in Int /\ ~InRun(fl[j], e)
      BY <2>3, <3>1, <3>2, SMT DEF RunOK, InRun, Pages
    <3>4. PICK i \in 1..Len(fl) : InRun(fl[i], e)
      BY <3>3 DEF FreeAt
    <3>5. RunOK(fl[i]) /\ i # j
      BY <2>1, <3>3, <3>4
    <3>6. i < j => fl[i].p + fl[i].len < fl[j].p
      BY DEF ListOK
    <3>7. j < i => fl[j].p + fl[j].len < fl[i].p
      BY DEF ListOK
    <3>8. i < j \/ j < i
      BY <3>5, SMT
    <3>9. /\ ~(fl[i].p + fl[i].len < fl[j].p)
          /\ ~(fl[j].p + fl[j].len < fl[i].p)
      BY <3>2, <3>4, <3>5, SMT DEF RunOK, InRun
    <3>. QED
      BY <3>6, <3>7, <3>8, <3>9
  <2>5. k # 0 /\ k \in 1..Len(fl) /\ fl[k].len >= n
    <3>. DEFINE S == {i \in DOMAIN fl : fl[i].len >= n}
    <3>1. S \subseteq Nat /\ k = First(S) /\ j \in S
      <4>1. 1..Len(fl) \subseteq Nat
        BY SMT
      <4>. QED
        BY <2>1, <2>4, <4>1 DEF kalloc_run
    <3>2. k \in S
      <4>. HIDE DEF S, k
      <4>. QED
        BY <3>1, <1>FirstIs
    <3>3. k \in 1..Len(fl) /\ fl[k].len >= n
      BY <2>1, <3>2
    <3>4. k # 0
      <4>. HIDE DEF k
      <4>. QED
        BY <2>1, <3>3, SMT
    <3>. QED
      BY <3>3, <3>4
  <2>. HIDE DEF k
  <2>6. RunOK(fl[k])
    BY <2>1, <2>5
  <2>7. fl[k].p + fl[k].len - n # 0
    BY <2>5, <2>6, SMT DEF RunOK
  <2>8. kalloc_addr(fl, n) = fl[k].p + fl[k].len - n
    BY <2>5 DEF kalloc_addr, k
  <2>. QED
    BY <2>7, <2>8
<1>1. KallocKeeps
  BY <1>KallocTakes DEF KallocKeeps
<1>2. KallocServes
  BY <1>KallocComplete DEF KallocServes
<1>3. KfreeKeeps
  BY <1>KfreeGives DEF KfreeKeeps
<1>. QED
  BY <1>1, <1>2, <1>3 DEF Allocator

\* kinit() and userinit() give every page one owner.
LEMMA KStart ==
  ASSUME FirstFinds, Init
  PROVE  KInv
BY AllocatorHolds, KernelSteps

\* Every step in the kernel leaves every page with one owner, but for the second
\* kfree of a pipe.
LEMMA KStep ==
  ASSUME FirstFinds, NEW p \in Proc, KInv, ClosingOK, KernelStep(p)
  PROVE  KInv' \/ Halted'
BY AllocatorHolds, KernelSteps
=============================================================================
