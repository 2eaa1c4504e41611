------------------------------- MODULE Memory -------------------------------
(***************************************************************************)
(* Kernel and user memory together: the processes of Kalloc, one of which, *)
(* User, has the heap of Umalloc.  morecore's sbrk is growproc, which may  *)
(* fail, and takes two steps between which the others run; the others do   *)
(* not grow.                                                               *)
(***************************************************************************)
EXTENDS Kalloc

CONSTANTS
  UPP,                         \* Headers in a page
  MaxUnits, NALLOC, Requests   \* see Umalloc

\* The process whose heap is modelled, which never exits.
User == 1

VARIABLES hdr, freep, brk, held, call

H == INSTANCE Umalloc

heap == <<hdr, freep, brk, held, call>>
allvars == <<freelist, page, proc, pipes, ends, closing, panicked,
             hdr, freep, brk, held, call>>

ASSUME MemoryAssumption ==
  /\ UPP \in Nat \ {0} /\ NALLOC \in Nat \ {0} /\ Requests \subseteq Nat \ {0}
  \* A heap that fills the memory has an address for every unit.
  /\ MaxUnits \in Nat /\ MaxUnits >= (NPAGES - 1) * UPP
  \* Requests whose sbrk is no multiple of the page panic in kalloc.
  /\ \A n \in Requests \cup {NALLOC} : n >= NALLOC => n % UPP = 0

\* morecore calls sbrk.
morecore_sbrk ==
  LET n == H!morecore_units
  IN /\ call.pc = "sbrk"
     /\ growproc(User, n \div UPP)
     /\ IF kalloc_addr(freelist, proc[User].sz + n \div UPP) = 0
        THEN H!morecore_fails
        ELSE UNCHANGED heap

\* The memory has moved and sbrk returns.
morecore_returns == growproc_move(User) /\ H!morecore

\* The program calls malloc and free.
program ==
  /\ At(User, "user")
  /\ \/ \E n \in Requests : H!malloc(n)
     \/ \E bp \in held : H!free(bp)
  /\ UNCHANGED vars

\* A step inside malloc or free.
program_step == At(User, "user") /\ H!HStep /\ UNCHANGED vars

\* A new program has a new heap.
NewHeap ==
  hdr' = [a \in H!Addr |-> H!NoHeader] /\ freep' = H!Null /\ brk' = 1
  /\ held' = {} /\ call' = H!Idle

Init_ == Init /\ H!HInit

\* While malloc or free runs, User makes no other system call.
InProgram(p) == p = User => call = H!Idle

\* See Kalloc.
halted == Stopped /\ UNCHANGED allvars

Next ==
  \/ halted
  \/ morecore_sbrk \/ morecore_returns \/ program \/ program_step
  \/ \E p \in Proc :
       \/ InProgram(p) /\ Other(p) /\ UNCHANGED heap
       \/ p # User /\ (exec_commit(p) \/ exit(p)) /\ UNCHANGED heap
  \/ InProgram(User) /\ exec_commit(User) /\ NewHeap

\* The scheduler runs User again and again.
HeapStep == morecore_sbrk \/ morecore_returns \/ program_step
Spec == Init_ /\ [][Next]_allvars /\ WF_allvars(HeapStep)

-----------------------------------------------------------------------------
\* malloc never hands out memory twice and loses none: free blocks and held
\* blocks of umalloc.c partition what sbrk gave, although growproc moves the
\* whole process meanwhile.
HeapPartitioned == H!HeapPartitioned

\* free joins a block with both neighbours: no two blocks on the ring touch.
RingCombined == H!RingCombined

\* Every call of malloc and free returns: the walk around the ring ends,
\* also when sbrk fails, and after morecore the search finds the new block
\* (unless the kernel stops).
HeapCallsReturn == (call.pc # "idle") ~> (call.pc = "idle" \/ Stopped)
=============================================================================
