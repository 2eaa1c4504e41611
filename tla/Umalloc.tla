------------------------------- MODULE Umalloc ------------------------------
(***************************************************************************)
(* malloc and free of the C library (umalloc.c) in one process.  The free  *)
(* blocks form a ring through their headers; the loops of malloc and free  *)
(* that walk it take one step a round, so that a walk that never ends is a *)
(* behaviour of the model.                                                 *)
(*                                                                         *)
(* The unit of memory is the Header.  Address 0 is base, which the         *)
(* compiler puts below the heap; the heap begins at 1.                     *)
(***************************************************************************)
EXTENDS Integers, Sequences

CONSTANTS
  MaxUnits,  \* units the heap can get from the kernel
  NALLOC,    \* PAGE, the fewest units morecore asks for
  Requests   \* values of nunits

VARIABLES
  hdr,    \* header at every address: the next free block, the size
  freep,  \* where the next search begins
  brk,    \* the end of the heap
  held,   \* the blocks the program has, by the address of their header
  call    \* the call under way and its local variables

hvars == <<hdr, freep, brk, held, call>>

Addr == 0..MaxUnits
base == 0
Null == -1

Idle == [pc |-> "idle", n |-> 0, p |-> 0, prevp |-> 0, bp |-> 0, core |-> FALSE]

\* Only headers that mean something are kept: the rest of the memory is 0.
NoHeader == [ptr |-> Null, size |-> 0]

HInit ==
  /\ hdr = [a \in Addr |-> NoHeader]
  /\ freep = Null
  /\ brk = 1
  /\ held = {}
  /\ call = Idle

-----------------------------------------------------------------------------
\* malloc(nbytes), nbytes rounded up to n units with the header.
malloc(n) ==
  /\ call = Idle
  /\ LET first == freep = Null
         h == IF first THEN [hdr EXCEPT ![base] = [ptr |-> base, size |-> 0]] ELSE hdr
         prevp == IF first THEN base ELSE freep
     IN /\ hdr' = h
        /\ freep' = prevp
        /\ call' = [Idle EXCEPT !.pc = "search", !.n = n, !.prevp = prevp,
                                !.p = h[prevp].ptr]
  /\ UNCHANGED <<brk, held>>

\* The block is large enough: all of it, or its tail.
malloc_found ==
  LET p == call.p
      n == call.n
      left == hdr[p].size - n
  IN /\ call.pc = "search" /\ hdr[p].size >= n
     /\ hdr' = IF left = 0
               THEN [hdr EXCEPT ![call.prevp].ptr = hdr[p].ptr,
                                ![p].ptr = Null]
               ELSE [hdr EXCEPT ![p].size = left,
                                ![p + left] = [ptr |-> Null, size |-> n]]
     /\ held' = held \cup {p + left}
     /\ freep' = call.prevp
     /\ call' = Idle
     /\ UNCHANGED brk

\* On to the next block, or, back where the search began, to morecore.
malloc_next ==
  /\ call.pc = "search" /\ hdr[call.p].size < call.n
  /\ call' = IF call.p = freep THEN [call EXCEPT !.pc = "sbrk"]
             ELSE [call EXCEPT !.prevp = call.p, !.p = hdr[call.p].ptr]
  /\ UNCHANGED <<hdr, freep, brk, held>>

\* What morecore asks of sbrk.
morecore_units == IF call.n < NALLOC THEN NALLOC ELSE call.n

\* sbrk gives the memory; morecore frees it.
morecore ==
  /\ call.pc = "sbrk"
  /\ hdr' = [hdr EXCEPT ![brk] = [ptr |-> Null, size |-> morecore_units]]
  /\ brk' = brk + morecore_units
  /\ call' = [call EXCEPT !.pc = "free", !.bp = brk, !.p = freep, !.core = TRUE]
  /\ UNCHANGED <<freep, held>>

\* sbrk fails and malloc returns 0.
morecore_fails ==
  /\ call.pc = "sbrk"
  /\ call' = Idle
  /\ UNCHANGED <<hdr, freep, brk, held>>

free(bp) ==
  /\ call = Idle
  /\ held' = held \ {bp}
  /\ call' = [Idle EXCEPT !.pc = "free", !.bp = bp, !.p = freep]
  /\ UNCHANGED <<hdr, freep, brk>>

\* bp belongs after p: between p and the next block, or p is the last block
\* and bp is above it or below the first.
Between_no_wrap(bp, p) == bp > p /\ bp < hdr[p].ptr
Between(bp, p) ==
  \/ bp > p /\ bp < hdr[p].ptr
  \/ p >= hdr[p].ptr /\ (bp > p \/ bp < hdr[p].ptr)

free_next ==
  /\ call.pc = "free" /\ ~Between(call.bp, call.p)
  /\ call' = [call EXCEPT !.p = hdr[@].ptr]
  /\ UNCHANGED <<hdr, freep, brk, held>>

\* The headers with block bp, joined to the next block if they touch.
JoinNext_same_size(h, bp, p) ==
  LET next == h[p].ptr
  IN IF bp + h[bp].size = next
     THEN [h EXCEPT ![bp].ptr = h[next].ptr, ![next] = NoHeader]
     ELSE [h EXCEPT ![bp].ptr = next]
JoinNext(h, bp, p) ==
  LET next == h[p].ptr
  IN IF bp + h[bp].size = next
     THEN [h EXCEPT ![bp] = [ptr |-> h[next].ptr, size |-> @.size + h[next].size],
                    ![next] = NoHeader]
     ELSE [h EXCEPT ![bp].ptr = next]

\* ... and linked after p, or joined to it.
LinkOnly(h, bp, p) == [h EXCEPT ![p].ptr = bp]
LinkOrJoin(h, bp, p) ==
  IF p + h[p].size = bp
  THEN [h EXCEPT ![p] = [ptr |-> h[bp].ptr, size |-> @.size + h[bp].size],
                 ![bp] = NoHeader]
  ELSE [h EXCEPT ![p].ptr = bp]

\* The block goes in after p.  In morecore the search then goes on behind
\* freep.
free_insert ==
  LET p == call.p
      h == LinkOrJoin(JoinNext(hdr, call.bp, p), call.bp, p)
  IN /\ call.pc = "free" /\ Between(call.bp, p)
     /\ hdr' = h
     /\ freep' = p
     /\ call' = IF call.core
                THEN [Idle EXCEPT !.pc = "search", !.n = call.n,
                                  !.prevp = p, !.p = h[p].ptr]
                ELSE Idle
     /\ UNCHANGED <<brk, held>>

\* The steps inside a call, but for sbrk.
HStep == malloc_found \/ malloc_next \/ free_next \/ free_insert

-----------------------------------------------------------------------------
(* Properties *)

\* The blocks that some header points to, and those on the ring: what a walk
\* from base on reaches.
Linked == ({base} \cup {hdr[a].ptr : a \in Addr}) \ {Null}
Ring ==
  {a \in Linked :
     \A S \in SUBSET Linked :
       base \in S /\ (\A b \in S : hdr[b].ptr \in S \cup {Null}) => a \in S}

Units(a) == a..(a + hdr[a].size - 1)

\* The heap is the union of the free blocks and of the blocks the program
\* holds, and no two of them overlap: malloc never hands out memory twice
\* and none is lost.  A block that is being freed is in neither.
HeapPartitioned ==
  freep # Null =>
  LET blocks == Ring \cup held
                \cup (IF call.pc = "free" THEN {call.bp} ELSE {})
  IN /\ Ring \cap held = {}
     /\ UNION {Units(a) : a \in blocks} = 1..(brk - 1)
     /\ \A a, b \in blocks : a # b => Units(a) \cap Units(b) = {}

\* The ring climbs but for one step, and no free block touches the next:
\* freed neighbours have been joined.
RingCombined ==
  freep # Null =>
  /\ freep \in Ring
  /\ \A a \in Ring :
       hdr[a].ptr = base \/ a + hdr[a].size < hdr[a].ptr
=============================================================================
