---------------------------- MODULE MemoryProofs ----------------------------
(***************************************************************************)
(* Proofs about Memory: the invariant HInv of the heap of umalloc.c, that  *)
(* the kernel's memory has Room for it, and the properties of the run      *)
(* memory as theorems about Spec.                                          *)
(***************************************************************************)
EXTENDS Memory, KallocProofs, TLAPS

USE ZenonT(30)

(* The ring of free blocks *)

\* The addresses of the heap and the headers; base is 0 and Null is -1.
A == H!Addr

HdrSet == [ptr : A \cup {-1}, size : Nat]

\* The blocks with a pointer are the free ones.
FreeOf(h) == {a \in A : h[a].ptr # -1}

\* b is the block after a in a ring of the blocks F in the order of their
\* addresses.
Follows(F, a, b) ==
  \/ b > a /\ \A c \in F : c > a => b <= c
  \/ b = 0 /\ \A c \in F : c <= a

\* The free blocks are linked in the order of their addresses, from base around
\* to base.
CircleOf(h) ==
  /\ h \in [A -> HdrSet]
  /\ 0 \in FreeOf(h) /\ h[0].size = 0
  /\ \A a \in FreeOf(h) : h[a].ptr \in FreeOf(h) /\ Follows(FreeOf(h), a, h[a].ptr)

\* Addresses are numbers, base is one and Null is none.
LEMMA AddrIs == A \subseteq Nat /\ 0 \in A /\ -1 \notin A
BY MemoryAssumption, SMT DEF A, H!Addr

\* Free blocks are addresses with a pointer.
LEMMA FreeIs ==
  ASSUME NEW h
  PROVE  /\ FreeOf(h) \subseteq A /\ FreeOf(h) \subseteq Nat
         /\ \A a \in A : a \in FreeOf(h) <=> h[a].ptr # -1
BY AddrIs DEF FreeOf

\* p, the block after x, is not in the ring any more.
Unlinked(h, h2, x, p) ==
  /\ h2 \in [A -> HdrSet] /\ h2[0].size = 0
  /\ h2[x].ptr = h[p].ptr /\ h2[p].ptr = -1
  /\ \A y \in A : y # x /\ y # p => h2[y].ptr = h[y].ptr

\* The next block is the next one among fewer blocks.
LEMMA FollowsFewer ==
  ASSUME NEW F, NEW G, G \subseteq F, NEW a, NEW b, Follows(F, a, b)
  PROVE  Follows(G, a, b)
BY DEF Follows

\* Without p the block before p is followed by the block after it.
LEMMA FollowsSkip ==
  ASSUME NEW F, F \subseteq Nat, NEW x \in F, NEW p \in F, NEW n \in F, p # 0,
         Follows(F, x, p), Follows(F, p, n)
  PROVE  Follows(F \ {p}, x, n)
<1>1. p > x /\ \A c \in F : c > x => p <= c
  BY DEF Follows
<1>2. CASE n > p /\ \A c \in F : c > p => n <= c
  <2>1. n > x
    BY <1>1, <1>2, SMT
  <2>2. ASSUME NEW c \in F \ {p}, c > x PROVE n <= c
    <3>1. p <= c /\ c # p
      BY <1>1, <2>2
    <3>2. c > p
      BY <3>1, SMT
    <3>. QED
      BY <1>2, <3>2
  <2>. QED
    BY <2>1, <2>2 DEF Follows
<1>3. CASE n = 0 /\ \A c \in F : c <= p
  <2>1. ASSUME NEW c \in F \ {p} PROVE c <= x
    <3>1. c <= p /\ c # p /\ (c > x => p <= c)
      BY <1>1, <1>3
    <3>. QED
      BY <3>1, SMT
  <2>. QED
    BY <1>3, <2>1 DEF Follows
<1>. QED
  BY <1>2, <1>3 DEF Follows

\* Only one block is before p.
LEMMA FollowsOne ==
  ASSUME NEW F, F \subseteq Nat, NEW x \in F, NEW y \in F, NEW p \in F, p # 0,
         Follows(F, x, p), Follows(F, y, p)
  PROVE  x = y
<1>1. /\ p > x /\ (y > x => p <= y)
      /\ p > y /\ (x > y => p <= x)
  BY DEF Follows
<1>. QED
  BY <1>1, SMT

\* Only base follows itself.
LEMMA FollowsSelf ==
  ASSUME NEW F, F \subseteq Nat, NEW x \in F, Follows(F, x, x)
  PROVE  x = 0
BY SMT DEF Follows

\* malloc() takes a block off the ring: the rest is a ring.
LEMMA UnlinkCircle ==
  ASSUME NEW h, CircleOf(h), NEW x \in FreeOf(h), NEW p, p = h[x].ptr, p # 0,
         NEW h2, Unlinked(h, h2, x, p)
  PROVE  /\ FreeOf(h2) = FreeOf(h) \ {p}
         /\ CircleOf(h2) /\ x # p /\ p \in FreeOf(h)
<1>. DEFINE F == FreeOf(h)
<1>0. /\ F \subseteq A /\ F \subseteq Nat
      /\ \A a \in A : a \in F <=> h[a].ptr # -1
      /\ \A a \in A : a \in FreeOf(h2) <=> h2[a].ptr # -1
      /\ FreeOf(h2) \subseteq A
  BY FreeIs
<1>1. /\ \A a \in F : h[a].ptr \in F /\ Follows(F, a, h[a].ptr)
      /\ 0 \in F
  BY DEF CircleOf
<1>2. /\ h2 \in [A -> HdrSet] /\ h2[0].size = 0
      /\ h2[x].ptr = h[p].ptr /\ h2[p].ptr = -1
      /\ \A y \in A : y # x /\ y # p => h2[y].ptr = h[y].ptr
  BY DEF Unlinked
<1>. HIDE DEF F
<1>x. x \in F
  BY DEF F
<1>3. p \in F /\ Follows(F, x, p) /\ Follows(F, p, h[p].ptr) /\ h[p].ptr \in F
  BY <1>1, <1>x
<1>4. x # p /\ h[p].ptr # p
  <2>1. ASSUME NEW y \in F, Follows(F, y, y) PROVE y = 0
    BY <1>0, <2>1, FollowsSelf
  <2>. QED
    BY <1>3, <1>x, <2>1
<1>5. FreeOf(h2) = F \ {p}
  <2>1. ASSUME NEW a \in A PROVE h2[a].ptr # -1 <=> a \in F /\ a # p
    <3>1. CASE a = x
      <4>1. -1 # h[p].ptr
        BY <1>0, <1>3, AddrIs
      <4>. QED
        BY <1>2, <1>4, <1>x, <3>1, <4>1
    <3>2. CASE a = p
      BY <1>2, <3>2
    <3>3. CASE a # x /\ a # p
      BY <1>0, <1>2, <3>3
    <3>. QED
      BY <3>1, <3>2, <3>3
  <2>. QED
    BY <1>0, <2>1
<1>6. ASSUME NEW a \in F, a # p PROVE h2[a].ptr \in F \ {p} /\ Follows(F \ {p}, a, h2[a].ptr)
  <2>1. CASE a = x
    <3>1. Follows(F \ {p}, x, h[p].ptr)
      BY <1>0, <1>3, <1>x, FollowsSkip
    <3>. QED
      BY <1>2, <1>3, <1>4, <2>1, <3>1
  <2>2. CASE a # x
    <3>1. h2[a].ptr = h[a].ptr /\ h[a].ptr \in F /\ Follows(F, a, h[a].ptr)
      BY <1>0, <1>1, <1>2, <1>6, <2>2
    <3>2. h[a].ptr # p
      BY <1>0, <1>3, <1>x, <2>2, <3>1, FollowsOne
    <3>3. Follows(F \ {p}, a, h[a].ptr)
      BY <3>1, FollowsFewer
    <3>. QED
      BY <3>1, <3>2, <3>3
  <2>. QED
    BY <2>1, <2>2
<1>7. CircleOf(h2)
  <2>1. \A a \in FreeOf(h2) : h2[a].ptr \in FreeOf(h2) /\ Follows(FreeOf(h2), a, h2[a].ptr)
    BY <1>5, <1>6
  <2>2. 0 \in FreeOf(h2)
    BY <1>1, <1>5
  <2>. QED
    BY <1>2, <2>1, <2>2 DEF CircleOf
<1>. QED
  BY <1>3, <1>4, <1>5, <1>7 DEF F

\* bp is in the ring behind p.
LinkedIn(h, h2, bp, p) ==
  /\ h2 \in [A -> HdrSet] /\ h2[0].size = 0
  /\ h2[bp].ptr = h[p].ptr /\ h2[p].ptr = bp
  /\ \A y \in A : y # bp /\ y # p => h2[y].ptr = h[y].ptr

\* A new block b between p and the next one.
LEMMA FollowsInsert ==
  ASSUME NEW F, F \subseteq Nat, NEW p \in F, NEW n \in F, Follows(F, p, n),
         NEW b \in Nat, b > p, n = 0 \/ b < n, b \notin F
  PROVE  /\ Follows(F \cup {b}, p, b) /\ Follows(F \cup {b}, b, n)
         /\ \A a \in F : a # p => \A m \in F : Follows(F, a, m) => Follows(F \cup {b}, a, m)
<1>1. /\ \A c \in F : c > p => b < c
      /\ n = 0 => \A c \in F : c <= b
  <2>1. CASE n > p /\ \A c \in F : c > p => n <= c
    <3>1. n # 0 /\ b < n
      BY <2>1, SMT
    <3>. QED
      BY <2>1, <3>1, SMT
  <2>2. CASE n = 0 /\ \A c \in F : c <= p
    BY <2>2, SMT
  <2>. QED
    BY <2>1, <2>2 DEF Follows
<1>2. Follows(F \cup {b}, p, b)
  <2>1. \A c \in F \cup {b} : c > p => b <= c
    BY <1>1, SMT
  <2>. QED
    BY <2>1 DEF Follows
<1>3. Follows(F \cup {b}, b, n)
  <2>1. CASE n > p /\ \A c \in F : c > p => n <= c
    <3>1. n > b
      BY <2>1, SMT
    <3>2. \A c \in F \cup {b} : c > b => n <= c
      BY <2>1, SMT
    <3>. QED
      BY <3>1, <3>2 DEF Follows
  <2>2. CASE n = 0 /\ \A c \in F : c <= p
    <3>1. \A c \in F \cup {b} : c <= b
      BY <2>2, SMT
    <3>. QED
      BY <2>2, <3>1 DEF Follows
  <2>. QED
    BY <2>1, <2>2 DEF Follows
<1>4. ASSUME NEW a \in F, a # p, NEW m \in F, Follows(F, a, m) PROVE Follows(F \cup {b}, a, m)
  <2>1. CASE m > a /\ \A c \in F : c > a => m <= c
    <3>1. b > a => m <= b
      <4>1. SUFFICES ASSUME b > a PROVE m <= b
        OBVIOUS
      <4>2. p > a
        <5>1. a > p => b < a
          BY <1>1
        <5>. QED
          BY <1>4, <4>1, <5>1, SMT
      <4>3. m <= p
        BY <2>1, <4>2
      <4>. QED
        BY <4>3, SMT
    <3>2. \A c \in F \cup {b} : c > a => m <= c
      BY <2>1, <3>1
    <3>. QED
      BY <2>1, <3>2 DEF Follows
  <2>2. CASE m = 0 /\ \A c \in F : c <= a
    <3>1. p <= a
      BY <2>2
    <3>2. a > p
      BY <1>4, <3>1, SMT
    <3>3. b <= a
      <4>1. b < a
        BY <1>1, <3>2
      <4>. QED
        BY <4>1, SMT
    <3>4. \A c \in F \cup {b} : c <= a
      BY <2>2, <3>3
    <3>. QED
      BY <2>2, <3>4 DEF Follows
  <2>. QED
    BY <1>4, <2>1, <2>2 DEF Follows
<1>. QED
  BY <1>2, <1>3, <1>4

\* free() links a block into the ring: the result is a ring.
LEMMA LinkCircle ==
  ASSUME NEW h, CircleOf(h), NEW p \in FreeOf(h), NEW bp \in A, bp \notin FreeOf(h), bp > p,
         h[p].ptr = 0 \/ bp < h[p].ptr, NEW h2, LinkedIn(h, h2, bp, p)
  PROVE  FreeOf(h2) = FreeOf(h) \cup {bp} /\ CircleOf(h2)
<1>. DEFINE F == FreeOf(h)
            n == h[p].ptr
<1>0. /\ F \subseteq A /\ F \subseteq Nat
      /\ \A a \in A : a \in F <=> h[a].ptr # -1
      /\ \A a \in A : a \in FreeOf(h2) <=> h2[a].ptr # -1
      /\ FreeOf(h2) \subseteq A /\ A \subseteq Nat /\ -1 \notin A
  BY FreeIs, AddrIs
<1>1. /\ \A a \in F : h[a].ptr \in F /\ Follows(F, a, h[a].ptr)
      /\ 0 \in F
  BY DEF CircleOf
<1>2. /\ h2 \in [A -> HdrSet] /\ h2[0].size = 0
      /\ h2[bp].ptr = n /\ h2[p].ptr = bp
      /\ \A y \in A : y # bp /\ y # p => h2[y].ptr = h[y].ptr
  BY DEF LinkedIn
<1>3. n \in F /\ Follows(F, p, n) /\ (n = 0 \/ bp < n) /\ p \in F /\ bp \notin F /\ bp \in Nat
  BY <1>0, <1>1
<1>. HIDE DEF F, n
<1>4. /\ Follows(F \cup {bp}, p, bp) /\ Follows(F \cup {bp}, bp, n)
      /\ \A a \in F : a # p => \A m \in F : Follows(F, a, m) => Follows(F \cup {bp}, a, m)
  BY <1>0, <1>3, FollowsInsert
<1>5. FreeOf(h2) = F \cup {bp}
  <2>1. ASSUME NEW a \in A PROVE h2[a].ptr # -1 <=> a \in F \cup {bp}
    <3>1. -1 # n /\ -1 # bp
      BY <1>0, <1>3
    <3>2. CASE a = bp
      BY <1>2, <3>1, <3>2
    <3>3. CASE a = p
      BY <1>2, <1>3, <3>1, <3>3
    <3>4. CASE a # bp /\ a # p
      BY <1>0, <1>2, <3>4
    <3>. QED
      BY <3>2, <3>3, <3>4
  <2>. QED
    BY <1>0, <2>1
<1>6. ASSUME NEW a \in F \cup {bp}
      PROVE  h2[a].ptr \in F \cup {bp} /\ Follows(F \cup {bp}, a, h2[a].ptr)
  <2>1. CASE a = bp
    BY <1>2, <1>3, <1>4, <2>1
  <2>2. CASE a = p
    BY <1>2, <1>4, <2>2
  <2>3. CASE a # bp /\ a # p
    <3>1. a \in F /\ h2[a].ptr = h[a].ptr
      BY <1>0, <1>2, <2>3
    <3>. QED
      BY <1>1, <1>4, <2>3, <3>1
  <2>. QED
    BY <2>1, <2>2, <2>3
<1>7. CircleOf(h2)
  <2>1. \A a \in FreeOf(h2) : h2[a].ptr \in FreeOf(h2) /\ Follows(FreeOf(h2), a, h2[a].ptr)
    BY <1>5, <1>6
  <2>2. 0 \in FreeOf(h2)
    BY <1>1, <1>5
  <2>. QED
    BY <1>2, <2>1, <2>2 DEF CircleOf
<1>. QED
  BY <1>5, <1>7 DEF F

(* The blocks *)

\* The blocks B fill the heap from 1 to e - 1 without overlap.
BlockOK(h, e, a) == a \in Nat /\ a >= 1 /\ h[a].size \in Nat /\ h[a].size >= 1 /\ a + h[a].size <= e

\* Blocks that do not overlap, the units of a block, and a set of blocks that
\* divides the heap up to e.
Apart(h, a, b) == a < b => a + h[a].size <= b

In(h, a, u) == a <= u /\ u < a + h[a].size

BlockedOf(h, e, B) ==
  /\ e \in Nat /\ e >= 1 /\ B \subseteq A
  /\ \A a \in B : BlockOK(h, e, a)
  /\ \A a, b \in B : Apart(h, a, b)
  /\ \A u \in 1..(e - 1) : \E a \in B : In(h, a, u)

\* The sizes of the blocks decide.
LEMMA BlocksSame ==
  ASSUME NEW h, NEW e, NEW B, BlockedOf(h, e, B), NEW h2, \A a \in B : h2[a].size = h[a].size
  PROVE  BlockedOf(h2, e, B)
<1>1. \A a \in B : BlockOK(h2, e, a)
  BY DEF BlockedOf, BlockOK
<1>2. \A a, b \in B : Apart(h2, a, b)
  BY DEF BlockedOf, Apart
<1>3. \A u \in 1..(e - 1) : \E a \in B : In(h2, a, u)
  BY DEF BlockedOf, In
<1>. QED
  BY <1>1, <1>2, <1>3 DEF BlockedOf

\* morecore(): a new block at the end.
LEMMA BlocksMore ==
  ASSUME NEW h, NEW e \in A, NEW B, BlockedOf(h, e, B), NEW n \in Nat, n >= 1, NEW h2,
         h2[e].size = n, \A a \in B : h2[a].size = h[a].size
  PROVE  BlockedOf(h2, e + n, B \cup {e}) /\ e \notin B
<1>0. /\ e \in Nat /\ e >= 1 /\ B \subseteq A
      /\ \A a \in B : BlockOK(h, e, a)
      /\ \A a, b \in B : Apart(h, a, b)
      /\ \A u \in 1..(e - 1) : \E a \in B : In(h, a, u)
  BY DEF BlockedOf
<1>1. ASSUME NEW a \in B PROVE a \in Nat /\ h2[a].size \in Nat /\ a >= 1 /\ h2[a].size >= 1 /\ a + h2[a].size <= e
  BY <1>0 DEF BlockOK
<1>2. ASSUME NEW a \in B PROVE a < e /\ a + h2[a].size <= e + n
  <2>1. a \in Nat /\ h2[a].size \in Nat /\ a >= 1 /\ h2[a].size >= 1 /\ a + h2[a].size <= e
    BY <1>1, SMT
  <2>. QED
    BY <1>0, <2>1, SMT
<1>3. e \notin B
  <2>1. ~(e < e)
    BY <1>0, SMT
  <2>. QED
    BY <1>2, <2>1
<1>4. \A a \in B \cup {e} : BlockOK(h2, e + n, a)
  <2>1. \A a \in B : BlockOK(h2, e + n, a)
    BY <1>1, <1>2 DEF BlockOK
  <2>2. BlockOK(h2, e + n, e)
    BY <1>0, SMT DEF BlockOK
  <2>. QED
    BY <2>1, <2>2
<1>5. \A a, b \in B \cup {e} : Apart(h2, a, b)
  <2>1. \A a, b \in B : Apart(h2, a, b)
    BY <1>0 DEF Apart
  <2>2. \A a \in B : Apart(h2, a, e)
    BY <1>1 DEF Apart
  <2>3. \A b \in B : Apart(h2, e, b)
    <3>1. ASSUME NEW b \in B PROVE ~(e < b)
      <4>1. b < e /\ b \in Nat
        BY <1>1, <1>2
      <4>. QED
        BY <1>0, <4>1, SMT
    <3>. QED
      BY <3>1 DEF Apart
  <2>4. Apart(h2, e, e)
    BY <1>0, SMT DEF Apart
  <2>. QED
    BY <2>1, <2>2, <2>3, <2>4
<1>6. \A u \in 1..((e + n) - 1) : \E a \in B \cup {e} : In(h2, a, u)
  <2>1. SUFFICES ASSUME NEW u \in 1..((e + n) - 1) PROVE \E a \in B \cup {e} : In(h2, a, u)
    OBVIOUS
  <2>2. CASE u < e
    <3>1. u \in 1..(e - 1)
      BY <1>0, <2>2, SMT
    <3>. QED
      BY <1>0, <3>1 DEF In
  <2>3. CASE u >= e
    <3>1. In(h2, e, u)
      BY <1>0, <2>3, SMT DEF In
    <3>. QED
      BY <3>1
  <2>. QED
    BY <1>0, <2>2, <2>3, SMT
<1>7. e + n \in Nat /\ e + n >= 1
  BY <1>0, SMT
<1>8. B \cup {e} \subseteq A
  BY <1>0
<1>. QED
  BY <1>3, <1>4, <1>5, <1>6, <1>7, <1>8 DEF BlockedOf

\* malloc(): a block is cut in two.
LEMMA BlocksCut ==
  ASSUME NEW h, NEW e, NEW B, BlockedOf(h, e, B), NEW p \in B, NEW left \in Nat, left >= 1,
         NEW n \in Nat, n >= 1, h[p].size = left + n, p + left \in A, NEW h2,
         h2[p].size = left, h2[p + left].size = n,
         \A a \in B : a # p => h2[a].size = h[a].size
  PROVE  BlockedOf(h2, e, B \cup {p + left}) /\ p + left \notin B
<1>. DEFINE q == p + left
<1>0. /\ e \in Nat /\ e >= 1 /\ B \subseteq A
      /\ \A a \in B : BlockOK(h, e, a)
      /\ \A a, b \in B : Apart(h, a, b)
      /\ \A u \in 1..(e - 1) : \E a \in B : In(h, a, u)
  BY DEF BlockedOf
<1>1. p \in Nat /\ p >= 1 /\ p + (left + n) <= e
  BY <1>0 DEF BlockOK
<1>2. ASSUME NEW a \in B, a # p
      PROVE  /\ a \in Nat /\ a >= 1 /\ h2[a].size \in Nat /\ h2[a].size >= 1 /\ a + h2[a].size <= e
             /\ a < p => a + h2[a].size <= p
             /\ p < a => p + (left + n) <= a
  BY <1>0, <1>2 DEF BlockOK, Apart
<1>q. q \in Nat /\ q >= 1 /\ q + n <= e /\ p < q /\ p + left <= q /\ p + left <= e
  <2>1. e \in Nat
    BY <1>0
  <2>. QED
    BY <1>1, <2>1, SMT
<1>3. ASSUME NEW a \in B, a # p
      PROVE  a # q /\ (a < q => a + h2[a].size <= q) /\ (q < a => q + n <= a)
  <2>1. /\ a \in Nat /\ a >= 1 /\ h2[a].size \in Nat /\ h2[a].size >= 1 /\ a + h2[a].size <= e
        /\ a < p => a + h2[a].size <= p
        /\ p < a => p + (left + n) <= a
    BY <1>2, <1>3, SMT
  <2>. QED
    BY <1>1, <1>3, <2>1, SMT
<1>4. q \notin B
  <2>1. q # p
    BY <1>1, <1>q, SMT
  <2>. QED
    BY <1>3, <2>1
<1>q2. h2[q].size = n /\ q \in A
  OBVIOUS
<1>. HIDE DEF q
<1>5. \A a \in B \cup {q} : BlockOK(h2, e, a)
  <2>1. \A a \in B : a # p => BlockOK(h2, e, a)
    BY <1>2 DEF BlockOK
  <2>2. BlockOK(h2, e, p)
    BY <1>1, <1>q DEF BlockOK
  <2>3. BlockOK(h2, e, q)
    BY <1>q, <1>q2 DEF BlockOK
  <2>. QED
    BY <2>1, <2>2, <2>3
<1>6. ASSUME NEW a \in B \cup {q}, NEW b \in B \cup {q} PROVE Apart(h2, a, b)
  <2>1. CASE a \in B /\ a # p
    <3>1. CASE b = q
      BY <1>3, <2>1, <3>1 DEF Apart
    <3>2. CASE b \in B
      BY <1>0, <2>1, <3>2 DEF Apart
    <3>. QED
      BY <3>1, <3>2
  <2>2. CASE a = p
    <3>1. CASE b = q
      BY <1>q, <2>2, <3>1 DEF Apart
    <3>2. CASE b \in B /\ b # p
      <4>1. p < b => p + left <= b
        <5>1. (p < b => p + (left + n) <= b) /\ b \in Nat
          BY <1>2, <3>2
        <5>. QED
          BY <1>1, <5>1, SMT
      <4>. QED
        BY <2>2, <4>1 DEF Apart
    <3>3. CASE b = p
      BY <1>1, <2>2, <3>3, SMT DEF Apart
    <3>. QED
      BY <3>1, <3>2, <3>3
  <2>3. CASE a = q
    <3>1. CASE b = q
      BY <1>q, <2>3, <3>1, SMT DEF Apart
    <3>2. CASE b \in B /\ b # p
      BY <1>3, <1>q2, <2>3, <3>2 DEF Apart
    <3>3. CASE b = p
      <4>1. ~(q < p)
        BY <1>1, <1>q, SMT
      <4>. QED
        BY <2>3, <3>3, <4>1 DEF Apart
    <3>. QED
      BY <3>1, <3>2, <3>3
  <2>. QED
    BY <2>1, <2>2, <2>3
<1>7. ASSUME NEW u \in 1..(e - 1) PROVE \E a \in B \cup {q} : In(h2, a, u)
  <2>1. PICK a \in B : In(h, a, u)
    BY <1>0
  <2>2. CASE a # p
    BY <2>1, <2>2 DEF In
  <2>3. CASE a = p
    <3>1. p <= u /\ u < p + (left + n) /\ u \in Int
      BY <2>1, <2>3, SMT DEF In
    <3>2. (p <= u /\ u < p + left) \/ (q <= u /\ u < q + n)
      BY <1>1, <3>1, SMT DEF q
    <3>. QED
      BY <1>q2, <3>2 DEF In
  <2>. QED
    BY <2>2, <2>3
<1>. QED
  BY <1>0, <1>4, <1>5, <1>6, <1>7, <1>q2 DEF BlockedOf, q

\* free(): two blocks are one.
LEMMA BlocksJoin ==
  ASSUME NEW h, NEW e, NEW B, BlockedOf(h, e, B), NEW p \in B, NEW b \in B, p + h[p].size = b,
         NEW h2, h2[p].size = h[p].size + h[b].size,
         \A a \in B : a # p /\ a # b => h2[a].size = h[a].size
  PROVE  BlockedOf(h2, e, B \ {b}) /\ p # b
<1>0. /\ e \in Nat /\ e >= 1 /\ B \subseteq A
      /\ \A a \in B : BlockOK(h, e, a)
      /\ \A a, c \in B : Apart(h, a, c)
      /\ \A u \in 1..(e - 1) : \E a \in B : In(h, a, u)
  BY DEF BlockedOf
<1>. DEFINE sp == h[p].size
            sb == h[b].size
<1>1. /\ p \in Nat /\ p >= 1 /\ sp \in Nat /\ sp >= 1 /\ p + sp = b
      /\ b \in Nat /\ sb \in Nat /\ sb >= 1 /\ b + sb <= e
  BY <1>0 DEF BlockOK
<1>s. h2[p].size = sp + sb
  OBVIOUS
<1>. HIDE DEF sp, sb
<1>2. p # b /\ p < b /\ p + (sp + sb) <= e /\ sp + sb \in Nat /\ sp + sb >= 1 /\ p + (sp + sb) = b + sb
  BY <1>1, SMT
<1>3. ASSUME NEW a \in B, a # p, a # b
      PROVE  /\ a \in Nat /\ a >= 1 /\ h2[a].size \in Nat /\ h2[a].size >= 1 /\ a + h2[a].size <= e
             /\ a < p => a + h2[a].size <= p
             /\ b < a => b + sb <= a
             /\ p < a => p + sp <= a
  BY <1>0, <1>3 DEF BlockOK, Apart, sb, sp
<1>4. \A a \in B \ {b} : BlockOK(h2, e, a)
  <2>1. BlockOK(h2, e, p)
    BY <1>1, <1>2, <1>s DEF BlockOK
  <2>2. \A a \in B : a # p /\ a # b => BlockOK(h2, e, a)
    BY <1>3 DEF BlockOK
  <2>. QED
    BY <2>1, <2>2
<1>5. ASSUME NEW a \in B \ {b}, NEW c \in B \ {b} PROVE Apart(h2, a, c)
  <2>1. CASE a # p
    BY <1>0, <2>1 DEF Apart
  <2>2. CASE a = p /\ c = p
    BY <1>1, <2>2, SMT DEF Apart
  <2>3. CASE a = p /\ c # p
    <3>1. /\ c \in Nat /\ c # b
          /\ b < c => b + sb <= c
          /\ p < c => p + sp <= c
      BY <1>3, <2>3
    <3>2. p < c => p + (sp + sb) <= c
      BY <1>1, <3>1, SMT
    <3>. QED
      BY <1>s, <2>3, <3>2 DEF Apart
  <2>. QED
    BY <2>1, <2>2, <2>3
<1>6. ASSUME NEW u \in 1..(e - 1) PROVE \E a \in B \ {b} : In(h2, a, u)
  <2>1. PICK a \in B : In(h, a, u)
    BY <1>0
  <2>2. CASE a # p /\ a # b
    BY <2>1, <2>2 DEF In
  <2>3. CASE a = p \/ a = b
    <3>1. (p <= u /\ u < p + sp) \/ (b <= u /\ u < b + sb)
      BY <2>1, <2>3 DEF In, sp, sb
    <3>2. u \in Int
      BY SMT
    <3>3. p <= u /\ u < p + (sp + sb)
      BY <1>1, <3>1, <3>2, SMT
    <3>. QED
      BY <1>2, <1>s, <3>3 DEF In
  <2>. QED
    BY <2>2, <2>3
<1>. QED
  BY <1>0, <1>2, <1>4, <1>5, <1>6 DEF BlockedOf

(* The heap: ring and blocks together *)

\* An end of the heap that leaves an address for each of its units.
End(e) == e \in Nat /\ e >= 1 /\ e <= MaxUnits + 1

\* The free blocks, the blocks the program has and the block it frees.
BlocksOf(h, hd, fr) == (FreeOf(h) \ {0}) \cup hd \cup fr

\* A heap up to e with the blocks hd held by the program and the blocks fr about
\* to be put back.
HeapOf(h, e, hd, fr) ==
  /\ CircleOf(h)
  /\ BlockedOf(h, e, BlocksOf(h, hd, fr))
  /\ hd \cap FreeOf(h) = {} /\ fr \cap FreeOf(h) = {} /\ hd \cap fr = {}

\* No free block outside Y touches the next.
GapAt(h, a) == h[a].ptr = 0 \/ a + h[a].size < h[a].ptr

\* No free block outside Y touches the next one.
GapsOf(h, Y) == \A a \in FreeOf(h) : a \notin Y => GapAt(h, a)

\* What a heap says of its addresses.
LEMMA HeapFacts ==
  ASSUME NEW h, NEW e, NEW hd, NEW fr, HeapOf(h, e, hd, fr)
  PROVE  /\ h \in [A -> HdrSet] /\ 0 \in FreeOf(h) /\ h[0].size = 0
         /\ e \in Nat /\ e >= 1
         /\ \A a \in A : h[a].size \in Nat /\ h[a].ptr \in A \cup {-1}
         /\ \A a \in FreeOf(h) : h[a].ptr \in FreeOf(h) /\ Follows(FreeOf(h), a, h[a].ptr)
         /\ \A a \in FreeOf(h) : a # 0 => BlockOK(h, e, a)
         /\ \A a \in hd \cup fr : BlockOK(h, e, a) /\ a \in A /\ a \notin FreeOf(h)
         /\ \A a, b \in BlocksOf(h, hd, fr) : Apart(h, a, b)
<1>1. /\ h \in [A -> HdrSet] /\ 0 \in FreeOf(h) /\ h[0].size = 0
      /\ e \in Nat /\ e >= 1
      /\ \A a \in FreeOf(h) : h[a].ptr \in FreeOf(h) /\ Follows(FreeOf(h), a, h[a].ptr)
  BY DEF HeapOf, CircleOf, BlockedOf
<1>2. \A a \in A : h[a].size \in Nat /\ h[a].ptr \in A \cup {-1}
  <2>1. \A r \in HdrSet : r.size \in Nat /\ r.ptr \in A \cup {-1}
    BY SMT DEF HdrSet
  <2>2. \A a \in A : h[a] \in HdrSet
    BY <1>1
  <2>. QED
    BY <2>1, <2>2
<1>3. /\ BlocksOf(h, hd, fr) \subseteq A
      /\ \A a \in BlocksOf(h, hd, fr) : BlockOK(h, e, a)
      /\ \A a, b \in BlocksOf(h, hd, fr) : Apart(h, a, b)
  BY DEF HeapOf, BlockedOf
<1>4. /\ \A a \in FreeOf(h) : a # 0 => a \in BlocksOf(h, hd, fr)
      /\ \A a \in hd \cup fr : a \in BlocksOf(h, hd, fr)
  BY DEF BlocksOf
<1>5. \A a \in hd \cup fr : a \notin FreeOf(h)
  BY DEF HeapOf
<1>. QED
  BY <1>1, <1>2, <1>3, <1>4, <1>5

\* malloc() takes a whole block.
LEMMA TakeHeap ==
  ASSUME NEW h, NEW e, NEW hd, HeapOf(h, e, hd, {}), GapsOf(h, {}),
         NEW x \in FreeOf(h), NEW p, p = h[x].ptr, p # 0,
         NEW h2, Unlinked(h, h2, x, p), \A a \in A : h2[a].size = h[a].size
  PROVE  HeapOf(h2, e, hd \cup {p}, {}) /\ GapsOf(h2, {}) /\ x \in FreeOf(h2)
<1>1. /\ FreeOf(h2) = FreeOf(h) \ {p}
      /\ CircleOf(h2) /\ x # p /\ p \in FreeOf(h)
  BY UnlinkCircle DEF HeapOf
<1>2. BlocksOf(h2, hd \cup {p}, {}) = BlocksOf(h, hd, {})
  BY <1>1 DEF BlocksOf
<1>3. BlockedOf(h2, e, BlocksOf(h, hd, {}))
  <2>1. BlockedOf(h, e, BlocksOf(h, hd, {}))
    BY DEF HeapOf
  <2>2. \A a \in BlocksOf(h, hd, {}) : h2[a].size = h[a].size
    BY <2>1 DEF BlockedOf
  <2>. QED
    BY <2>1, <2>2, BlocksSame
<1>4. HeapOf(h2, e, hd \cup {p}, {})
  <2>1. (hd \cup {p}) \cap FreeOf(h2) = {}
    BY <1>1 DEF HeapOf
  <2>. QED
    BY <1>1, <1>2, <1>3, <2>1 DEF HeapOf
<1>5. GapAt(h2, x)
  <2>1. GapAt(h, x) /\ GapAt(h, p)
    BY <1>1 DEF GapsOf
  <2>2. /\ x \in Nat /\ h[x].size \in Nat /\ p \in Nat /\ h[p].size \in Nat
        /\ h[p].ptr \in Nat
    <3>1. /\ \A a \in A : h[a].size \in Nat
          /\ \A a \in FreeOf(h) : h[a].ptr \in FreeOf(h)
      BY HeapFacts
    <3>2. FreeOf(h) \subseteq A /\ FreeOf(h) \subseteq Nat
      BY FreeIs
    <3>. QED
      BY <1>1, <3>1, <3>2
  <2>3. h2[x].ptr = h[p].ptr /\ h2[x].size = h[x].size
    BY FreeIs DEF Unlinked
  <2>4. x + h[x].size < p
    BY <2>1 DEF GapAt
  <2>5. h[p].ptr = 0 \/ p + h[p].size < h[p].ptr
    BY <2>1 DEF GapAt
  <2>6. h[p].ptr = 0 \/ x + h[x].size < h[p].ptr
    BY <2>2, <2>4, <2>5, SMT
  <2>. QED
    BY <2>3, <2>6 DEF GapAt
<1>6. GapsOf(h2, {})
  <2>1. ASSUME NEW a \in FreeOf(h2), a # x PROVE GapAt(h2, a)
    <3>1. a \in FreeOf(h) /\ a # p /\ a \in A
      BY <1>1, <2>1, FreeIs
    <3>2. h2[a].ptr = h[a].ptr /\ h2[a].size = h[a].size
      BY <2>1, <3>1 DEF Unlinked
    <3>. QED
      BY <3>1, <3>2 DEF GapsOf, GapAt
  <2>. QED
    BY <1>5, <2>1 DEF GapsOf
<1>. QED
  BY <1>1, <1>4, <1>6

\* The ring is the same if the pointers are.
LEMMA CircleSame ==
  ASSUME NEW h, CircleOf(h), NEW h2, h2 \in [A -> HdrSet], h2[0].size = 0,
         \A a \in A : h2[a].ptr = h[a].ptr
  PROVE  CircleOf(h2) /\ FreeOf(h2) = FreeOf(h)
<1>1. FreeOf(h2) = FreeOf(h)
  BY DEF FreeOf
<1>. QED
  BY <1>1, FreeIs DEF CircleOf

\* malloc() takes the tail of a block.
LEMMA CutHeap ==
  ASSUME NEW h, NEW e, End(e), NEW hd, HeapOf(h, e, hd, {}), GapsOf(h, {}),
         NEW p \in FreeOf(h), p # 0, NEW n \in Nat, n >= 1,
         NEW left \in Nat, left >= 1, h[p].size = left + n,
         NEW h2, h2 \in [A -> HdrSet], h2[p].size = left, h2[p].ptr = h[p].ptr,
         p + left \in A =>
           h2[p + left].size = n /\ h2[p + left].ptr = -1,
         \A a \in A : a # p /\ a # p + left => h2[a] = h[a]
  PROVE  HeapOf(h2, e, hd \cup {p + left}, {}) /\ GapsOf(h2, {}) /\ FreeOf(h2) = FreeOf(h)
<1>. DEFINE B == BlocksOf(h, hd, {})
            q == p + left
<1>1. BlockOK(h, e, p) /\ p \in B /\ BlockedOf(h, e, B)
  <2>1. p \in B /\ BlockedOf(h, e, B)
    BY DEF HeapOf, BlocksOf
  <2>. QED
    BY <2>1 DEF BlockedOf
<1>2. q \in A /\ q # 0 /\ q # p
  <2>1. p \in Nat /\ p >= 1 /\ p + (left + n) <= e /\ e \in Nat /\ e <= MaxUnits + 1 /\ MaxUnits \in Nat
    BY <1>1, MemoryAssumption, SMT DEF BlockOK, End
  <2>. QED
    BY <2>1, SMT DEF A, H!Addr
<1>3. h2[q].size = n /\ h2[q].ptr = -1
  BY <1>2
<1>4. BlockedOf(h2, e, B \cup {q}) /\ q \notin B
  <2>1. B \subseteq A
    BY <1>1 DEF BlockedOf
  <2>2. \A a \in B : a # p /\ a # q => h2[a].size = h[a].size
    BY <2>1
  <2>3. q \notin B
    <3>2. SUFFICES ASSUME q \in B PROVE FALSE
      BY SMT
    <3>3. Apart(h, p, q)
      BY <1>1, <3>2 DEF BlockedOf
    <3>. QED
      BY <1>1, <3>3, SMT DEF Apart, BlockOK
  <2>4. \A a \in B : a # p => h2[a].size = h[a].size
    BY <2>2, <2>3
  <2>. HIDE DEF B
  <2>. QED
    BY <1>1, <1>2, <1>3, <2>4, BlocksCut, SMT
<1>. HIDE DEF q
<1>5. q \notin FreeOf(h) /\ q \notin hd
  BY <1>2, <1>4 DEF BlocksOf
<1>6. \A a \in A : h2[a].ptr = h[a].ptr
  <2>1. h[q].ptr = -1
    BY <1>2, <1>5, FreeIs
  <2>. QED
    BY <1>3, <2>1 DEF q
<1>7. CircleOf(h2) /\ FreeOf(h2) = FreeOf(h)
  <2>1. h2[0] = h[0] /\ h[0].size = 0
    BY <1>2, HeapFacts, AddrIs DEF q
  <2>. QED
    BY <1>6, <2>1, CircleSame DEF HeapOf
<1>8. HeapOf(h2, e, hd \cup {q}, {})
  <2>1. BlocksOf(h2, hd \cup {q}, {}) = B \cup {q}
    BY <1>7 DEF BlocksOf
  <2>2. (hd \cup {q}) \cap FreeOf(h2) = {}
    BY <1>5, <1>7 DEF HeapOf
  <2>. HIDE DEF B
  <2>. QED
    BY <1>4, <1>7, <2>1, <2>2 DEF HeapOf
<1>9. GapsOf(h2, {})
  <2>1. ASSUME NEW a \in FreeOf(h), a # p PROVE GapAt(h2, a)
    <3>1. a # q /\ a \in A
      BY <1>5, FreeIs
    <3>2. h2[a] = h[a]
      BY <2>1, <3>1 DEF q
    <3>. QED
      BY <3>2 DEF GapsOf, GapAt
  <2>2. GapAt(h2, p)
    <3>1. h[p].ptr = 0 \/ p + (left + n) < h[p].ptr
      BY DEF GapsOf, GapAt
    <3>2. p \in Nat /\ h[p].ptr \in Nat
      BY HeapFacts, FreeIs
    <3>3. h[p].ptr = 0 \/ p + left < h[p].ptr
      BY <3>1, <3>2, SMT
    <3>. QED
      BY <3>3 DEF GapAt
  <2>. QED
    BY <1>7, <2>1, <2>2 DEF GapsOf
<1>. QED
  BY <1>7, <1>8, <1>9 DEF q

\* morecore() makes a block of what sbrk gave.
LEMMA MoreHeap ==
  ASSUME NEW h, NEW e \in A, NEW hd, HeapOf(h, e, hd, {}), GapsOf(h, {}),
         NEW n \in Nat, n >= 1,
         NEW h2, h2 \in [A -> HdrSet], h2[e].size = n, h2[e].ptr = -1,
         \A a \in A : a # e => h2[a] = h[a]
  PROVE  HeapOf(h2, e + n, hd, {e}) /\ GapsOf(h2, {}) /\ FreeOf(h2) = FreeOf(h)
<1>. DEFINE B == BlocksOf(h, hd, {})
<1>1. BlockedOf(h, e, B) /\ e >= 1 /\ e \in Nat
  BY HeapFacts DEF HeapOf
<1>2. e # 0
  BY <1>1, SMT
<1>3. e \notin B
  <2>1. SUFFICES ASSUME e \in B PROVE FALSE
    BY SMT
  <2>2. BlockOK(h, e, e)
    BY <1>1, <2>1 DEF BlockedOf
  <2>. QED
    BY <2>2, SMT DEF BlockOK
<1>4. BlockedOf(h2, e + n, B \cup {e})
  <2>1. \A a \in B : h2[a].size = h[a].size
    BY <1>1, <1>3 DEF BlockedOf
  <2>. HIDE DEF B
  <2>. QED
    BY <1>1, <2>1, BlocksMore, SMT
<1>5. e \notin FreeOf(h) /\ e \notin hd
  BY <1>2, <1>3 DEF BlocksOf
<1>6. \A a \in A : h2[a].ptr = h[a].ptr
  <2>1. h[e].ptr = -1
    BY <1>5, FreeIs
  <2>. QED
    BY <2>1
<1>7. CircleOf(h2) /\ FreeOf(h2) = FreeOf(h)
  <2>1. h2[0] = h[0] /\ h[0].size = 0
    BY <1>2, HeapFacts, AddrIs
  <2>. QED
    BY <1>6, <2>1, CircleSame DEF HeapOf
<1>8. HeapOf(h2, e + n, hd, {e})
  <2>1. BlocksOf(h2, hd, {e}) = B \cup {e}
    BY <1>7 DEF BlocksOf
  <2>2. hd \cap FreeOf(h2) = {} /\ {e} \cap FreeOf(h2) = {} /\ hd \cap {e} = {}
    BY <1>5, <1>7 DEF HeapOf
  <2>. HIDE DEF B
  <2>. QED
    BY <1>4, <1>7, <2>1, <2>2 DEF HeapOf
<1>9. GapsOf(h2, {})
  <2>1. ASSUME NEW a \in FreeOf(h) PROVE GapAt(h2, a)
    <3>1. a # e /\ a \in A
      BY <1>5, FreeIs
    <3>2. h2[a] = h[a]
      BY <3>1
    <3>. QED
      BY <3>2 DEF GapsOf, GapAt
  <2>. QED
    BY <1>7, <2>1 DEF GapsOf
<1>. QED
  BY <1>7, <1>8, <1>9

\* free() begins with a block the program had.
LEMMA FreeHeap ==
  ASSUME NEW h, NEW e, NEW hd, HeapOf(h, e, hd, {}), NEW bp \in hd
  PROVE  HeapOf(h, e, hd \ {bp}, {bp})
<1>1. BlocksOf(h, hd \ {bp}, {bp}) = BlocksOf(h, hd, {})
  BY DEF BlocksOf
<1>. QED
  BY <1>1 DEF HeapOf

\* The place free() finds for the block bp.
LEMMA BetweenIs ==
  ASSUME NEW F, F \subseteq Nat, NEW p \in F, NEW n \in F, Follows(F, p, n), NEW bp \in Nat,
         \/ bp > p /\ bp < n
         \/ p >= n /\ (bp > p \/ bp < n)
  PROVE  bp > p /\ (n = 0 \/ bp < n)
<1>1. p \in Nat /\ n \in Nat /\ (n > p \/ n = 0)
  BY DEF Follows
<1>. QED
  BY <1>1, SMT

\* No size changes; bp belongs between p and the block after it.
SameSizes(h, h2) == \A a \in A : h2[a].size = h[a].size

Behind(h, bp, p) == bp > p /\ (h[p].ptr = 0 \/ bp < h[p].ptr)

\* free() links the block bp behind p.
LEMMA InsertHeap ==
  ASSUME NEW h, NEW e, NEW hd, NEW bp, HeapOf(h, e, hd, {bp}), GapsOf(h, {}),
         NEW p \in FreeOf(h), Behind(h, bp, p),
         NEW h2, LinkedIn(h, h2, bp, p), SameSizes(h, h2)
  PROVE  /\ HeapOf(h2, e, hd, {}) /\ GapsOf(h2, {p, bp})
         /\ FreeOf(h2) = FreeOf(h) \cup {bp}
<1>1. BlockedOf(h, e, BlocksOf(h, hd, {bp})) /\ CircleOf(h)
  BY DEF HeapOf
<1>2. bp \in A /\ bp \notin FreeOf(h) /\ bp \notin hd /\ hd \cap FreeOf(h) = {}
  BY <1>1 DEF HeapOf, BlockedOf, BlocksOf
<1>3. FreeOf(h2) = FreeOf(h) \cup {bp} /\ CircleOf(h2)
  <2>1. bp > p /\ (h[p].ptr = 0 \/ bp < h[p].ptr)
    BY DEF Behind
  <2>. QED
    BY <1>1, <1>2, <2>1, LinkCircle
<1>4. bp # 0
  BY <1>2, HeapFacts
<1>5. BlocksOf(h2, hd, {}) = BlocksOf(h, hd, {bp})
  BY <1>3, <1>4 DEF BlocksOf
<1>6. BlockedOf(h2, e, BlocksOf(h, hd, {bp}))
  <2>2. \A a \in BlocksOf(h, hd, {bp}) : h2[a].size = h[a].size
    BY <1>1 DEF BlockedOf, SameSizes
  <2>. QED
    BY <1>1, <2>2, BlocksSame
<1>7. HeapOf(h2, e, hd, {})
  <2>1. hd \cap FreeOf(h2) = {} /\ {} \cap FreeOf(h2) = {} /\ hd \cap {} = {}
    BY <1>2, <1>3
  <2>. QED
    BY <1>3, <1>5, <1>6, <2>1 DEF HeapOf
<1>8. ASSUME NEW a \in FreeOf(h2), a # p, a # bp PROVE GapAt(h2, a)
  <2>1. a \in FreeOf(h) /\ a \in A
    BY <1>3, <1>8, FreeIs
  <2>2. h2[a].ptr = h[a].ptr /\ h2[a].size = h[a].size
    BY <1>8, <2>1 DEF LinkedIn, SameSizes
  <2>. QED
    BY <2>1, <2>2 DEF GapsOf, GapAt
<1>. QED
  BY <1>3, <1>7, <1>8 DEF GapsOf

\* The block b behind x is part of x now.
JoinedAt(h, h2, x, b) ==
  /\ h2 \in [A -> HdrSet]
  /\ h2[x].ptr = h[b].ptr /\ h2[x].size = h[x].size + h[b].size
  /\ h2[b].ptr = -1
  /\ \A a \in A : a # x /\ a # b => h2[a] = h[a]

\* free() joins a block with the next one, which it touches.
LEMMA JoinHeap ==
  ASSUME NEW h, NEW e, NEW hd, HeapOf(h, e, hd, {}), NEW Y, GapsOf(h, Y),
         NEW x \in FreeOf(h), NEW b, b = h[x].ptr, b # 0, b \notin Y, x + h[x].size = b,
         NEW h2, JoinedAt(h, h2, x, b)
  PROVE  /\ HeapOf(h2, e, hd, {}) /\ GapsOf(h2, Y \ {x})
         /\ FreeOf(h2) = FreeOf(h) \ {b} /\ x \in FreeOf(h2)
<1>. DEFINE B == BlocksOf(h, hd, {})
<1>1. BlockedOf(h, e, B) /\ CircleOf(h) /\ hd \cap FreeOf(h) = {}
  BY DEF HeapOf
<1>2. /\ \A a \in A : h[a].size \in Nat
      /\ \A a \in FreeOf(h) : h[a].ptr \in FreeOf(h)
      /\ h[0].size = 0 /\ 0 \in FreeOf(h)
      /\ FreeOf(h) \subseteq A /\ FreeOf(h) \subseteq Nat /\ 0 \in A
  BY HeapFacts, FreeIs, AddrIs
<1>3. b \in FreeOf(h) /\ x \in A /\ b \in A /\ x \in Nat /\ b \in Nat
  BY <1>2
<1>4. x # 0
  <2>1. h[0].size = 0 /\ 0 + 0 = 0
    BY <1>2, SMT
  <2>. QED
    BY <2>1
<1>5. x \in B /\ b \in B
  BY <1>3, <1>4 DEF BlocksOf
<1>6. h2[x].size = h[x].size + h[b].size /\ \A a \in A : a # x /\ a # b => h2[a] = h[a]
  BY DEF JoinedAt
<1>7. BlockedOf(h2, e, B \ {b}) /\ x # b
  <2>1. \A a \in B : a # x /\ a # b => h2[a].size = h[a].size
    BY <1>1, <1>6 DEF BlockedOf
  <2>. HIDE DEF B
  <2>. QED
    BY <1>1, <1>5, <1>6, <2>1, BlocksJoin, SMT
<1>8. Unlinked(h, h2, x, b)
  <2>1. h2[0].size = 0
    BY <1>2, <1>4, <1>6
  <2>. QED
    BY <2>1 DEF JoinedAt, Unlinked
<1>9. FreeOf(h2) = FreeOf(h) \ {b} /\ CircleOf(h2)
  BY <1>1, <1>8, UnlinkCircle
<1>10. HeapOf(h2, e, hd, {})
  <2>1. BlocksOf(h2, hd, {}) = B \ {b}
    <3>1. b \notin hd
      BY <1>1, <1>3
    <3>. QED
      BY <1>9, <3>1 DEF BlocksOf
  <2>2. hd \cap FreeOf(h2) = {} /\ {} \cap FreeOf(h2) = {} /\ hd \cap {} = {}
    BY <1>1, <1>9
  <2>. HIDE DEF B
  <2>. QED
    BY <1>7, <1>9, <2>1, <2>2 DEF HeapOf
<1>11. GapAt(h2, x)
  <2>1. h[b].ptr = 0 \/ b + h[b].size < h[b].ptr
    BY <1>3 DEF GapsOf, GapAt
  <2>2. h[b].ptr \in Nat /\ h[b].size \in Nat /\ h[x].size \in Nat
    BY <1>2, <1>3
  <2>3. h[b].ptr = 0 \/ x + (h[x].size + h[b].size) < h[b].ptr
    BY <1>3, <2>1, <2>2, SMT
  <2>4. h2[x].ptr = h[b].ptr
    BY DEF JoinedAt
  <2>. QED
    BY <1>6, <2>3, <2>4 DEF GapAt
<1>12. ASSUME NEW a \in FreeOf(h2), a # x, a \notin Y PROVE GapAt(h2, a)
  <2>1. a \in FreeOf(h) /\ a # b /\ a \in A
    BY <1>2, <1>9
  <2>2. h2[a] = h[a]
    BY <1>6, <1>12, <2>1
  <2>. QED
    BY <1>12, <2>1, <2>2 DEF GapsOf, GapAt
<1>13. GapsOf(h2, Y \ {x})
  BY <1>11, <1>12 DEF GapsOf
<1>. QED
  BY <1>7, <1>9, <1>10, <1>13

\* A block that does not touch the next.
LEMMA GapIs ==
  ASSUME NEW h, NEW e, NEW hd, HeapOf(h, e, hd, {}), NEW Y, GapsOf(h, Y),
         NEW x \in FreeOf(h), NEW b, b = h[x].ptr, b = 0 \/ b > x, x + h[x].size # b
  PROVE  GapsOf(h, Y \ {x})
<1>1. /\ \A a \in A : h[a].size \in Nat
      /\ \A a \in FreeOf(h) : h[a].ptr \in FreeOf(h)
      /\ h[0].size = 0
      /\ FreeOf(h) \subseteq A /\ FreeOf(h) \subseteq Nat
  BY HeapFacts, FreeIs
<1>2. x \in Nat /\ b \in Nat /\ h[x].size \in Nat /\ b \in FreeOf(h)
  BY <1>1
<1>3. GapAt(h, x)
  <2>1. CASE b = 0
    BY <2>1 DEF GapAt
  <2>2. CASE b # 0 /\ x = 0
    <3>1. 0 + 0 < b
      BY <1>2, <2>2, SMT
    <3>. QED
      BY <1>1, <2>2, <3>1 DEF GapAt
  <2>3. CASE b # 0 /\ x # 0
    <3>1. x \in BlocksOf(h, hd, {}) /\ b \in BlocksOf(h, hd, {})
      BY <1>2, <2>3 DEF BlocksOf
    <3>2. Apart(h, x, b)
      BY <3>1 DEF HeapOf, BlockedOf
    <3>3. x + h[x].size < b
      <4>1. x < b => x + h[x].size <= b
        BY <3>2 DEF Apart
      <4>. QED
        BY <1>2, <2>3, <4>1, SMT
    <3>. QED
      BY <3>3 DEF GapAt
  <2>. QED
    BY <2>1, <2>2, <2>3
<1>. QED
  BY <1>3 DEF GapsOf

\* The fields of a header.
LEMMA HdrIs ==
  ASSUME NEW x, NEW n, x \in A \cup {-1}, n \in Nat
  PROVE  /\ [ptr |-> x, size |-> n] \in HdrSet
         /\ [ptr |-> x, size |-> n].ptr = x /\ [ptr |-> x, size |-> n].size = n
BY SMT DEF HdrSet

\* A header with a new pointer.
LEMMA HdrPtr ==
  ASSUME NEW r \in HdrSet, NEW x, x \in A \cup {-1}
  PROVE  /\ [r EXCEPT !.ptr = x] \in HdrSet
         /\ [r EXCEPT !.ptr = x].ptr = x /\ [r EXCEPT !.ptr = x].size = r.size
BY SMT DEF HdrSet

\* The header of an address without a block.
LEMMA NoHeaderIs == H!NoHeader \in HdrSet /\ H!NoHeader.ptr = -1 /\ H!NoHeader.size = 0
BY SMT DEF HdrSet, H!NoHeader, H!Null

\* One header is changed.
LEMMA SetIs ==
  ASSUME NEW h, h \in [A -> HdrSet], NEW x \in A, NEW v, v \in HdrSet
  PROVE  /\ [h EXCEPT ![x] = v] \in [A -> HdrSet] /\ [h EXCEPT ![x] = v][x] = v
         /\ \A a \in A : a # x => [h EXCEPT ![x] = v][a] = h[a]
OBVIOUS

\* h2 is h but for a pointer, or with a block joined.
PtrSet(h, x, v, h2) == h2 = [h EXCEPT ![x].ptr = v]

\* The block x takes in the block b behind it.
NextJoined(h, x, b, h2) ==
  h2 = [h EXCEPT ![x] = [ptr |-> h[b].ptr, size |-> @.size + h[b].size], ![b] = H!NoHeader]

\* The pointer of one header is changed.
LEMMA SetPtr ==
  ASSUME NEW h, h \in [A -> HdrSet], NEW x \in A, NEW v, v \in A \cup {-1}, NEW h2,
         PtrSet(h, x, v, h2)
  PROVE  /\ h2 \in [A -> HdrSet] /\ h2[x].ptr = v /\ h2[x].size = h[x].size
         /\ \A a \in A : a # x => h2[a] = h[a]
         /\ \A a \in A : h2[a].size = h[a].size
<1>. DEFINE w == [h[x] EXCEPT !.ptr = v]
<1>1. h[x] \in HdrSet
  OBVIOUS
<1>2. w \in HdrSet /\ w.ptr = v /\ w.size = h[x].size
  BY <1>1, HdrPtr
<1>3. h2 = [h EXCEPT ![x] = w]
  BY DEF PtrSet
<1>. HIDE DEF w
<1>4. h2 \in [A -> HdrSet] /\ h2[x] = w /\ \A a \in A : a # x => h2[a] = h[a]
  BY <1>2, <1>3, SetIs
<1>. QED
  BY <1>2, <1>4

\* x takes its next block b in.
LEMMA SetJoined ==
  ASSUME NEW h, h \in [A -> HdrSet], NEW x \in A, NEW b \in A, x # b, NEW h2,
         NextJoined(h, x, b, h2)
  PROVE  /\ h2 \in [A -> HdrSet]
         /\ h2[x].ptr = h[b].ptr /\ h2[x].size = h[x].size + h[b].size
         /\ h2[b].ptr = -1
         /\ \A a \in A : a # x /\ a # b => h2[a] = h[a]
<1>. DEFINE w == [ptr |-> h[b].ptr, size |-> h[x].size + h[b].size]
            g == [h EXCEPT ![x] = w]
<1>1. h[x] \in HdrSet /\ h[b] \in HdrSet
  OBVIOUS
<1>2. \A r \in HdrSet : r.ptr \in A \cup {-1} /\ r.size \in Nat
  BY SMT DEF HdrSet
<1>3. h[b].ptr \in A \cup {-1} /\ h[x].size \in Nat /\ h[b].size \in Nat
  BY <1>1, <1>2
<1>4. h[x].size + h[b].size \in Nat
  BY <1>3, SMT
<1>5. w \in HdrSet /\ w.ptr = h[b].ptr /\ w.size = h[x].size + h[b].size
  BY <1>3, <1>4, HdrIs
<1>6. h2 = [g EXCEPT ![b] = H!NoHeader]
  BY DEF NextJoined
<1>. HIDE DEF w
<1>7. g \in [A -> HdrSet] /\ g[x] = w /\ \A a \in A : a # x => g[a] = h[a]
  BY <1>5, SetIs
<1>. HIDE DEF g
<1>8. h2 \in [A -> HdrSet] /\ h2[b] = H!NoHeader /\ \A a \in A : a # b => h2[a] = g[a]
  BY <1>6, <1>7, NoHeaderIs, SetIs
<1>. QED
  BY <1>5, <1>7, <1>8, NoHeaderIs

\* free() goes on from p no further: the block bp belongs behind p.
FitsAt(h, bp, p) ==
  \/ bp > p /\ bp < h[p].ptr
  \/ p >= h[p].ptr /\ (bp > p \/ bp < h[p].ptr)

\* The memory after free() has put bp behind p.
IsPut(h, bp, p, h3) == h3 = H!LinkOrJoin(H!JoinNext(h, bp, p), bp, p)

\* free() puts the block bp behind p, joined to both neighbours.
LEMMA PutHeap ==
  ASSUME NEW h, NEW e, NEW hd, NEW bp, HeapOf(h, e, hd, {bp}), GapsOf(h, {}),
         NEW p \in FreeOf(h),
         FitsAt(h, bp, p), NEW h3, IsPut(h, bp, p, h3)
  PROVE  HeapOf(h3, e, hd, {}) /\ GapsOf(h3, {}) /\ p \in FreeOf(h3)
<1>. DEFINE F == FreeOf(h)
            next == h[p].ptr
            hl == [h EXCEPT ![bp].ptr = next]
            h1 == [hl EXCEPT ![p].ptr = bp]
            hj == H!JoinNext(h, bp, p)
            h2 == [hj EXCEPT ![p].ptr = bp]
<1>1. /\ h \in [A -> HdrSet] /\ h[0].size = 0 /\ 0 \in F
      /\ \A a \in F : h[a].ptr \in F /\ Follows(F, a, h[a].ptr)
      /\ F \subseteq A /\ F \subseteq Nat /\ A \subseteq Nat
  BY FreeIs, AddrIs DEF HeapOf, CircleOf
<1>2. bp \in A /\ bp \notin F
  BY DEF HeapOf, BlockedOf, BlocksOf
<1>3. /\ p \in F /\ next \in F /\ Follows(F, p, next) /\ bp \in Nat /\ bp # 0 /\ bp # p /\ bp # next
      /\ p \in A /\ next \in A /\ next \in A \cup {-1} /\ bp \in A \cup {-1}
  BY <1>1, <1>2
<1>4. bp > p /\ (next = 0 \/ bp < next)
  <2>1. \/ bp > p /\ bp < next
        \/ p >= next /\ (bp > p \/ bp < next)
    BY DEF FitsAt
  <2>. HIDE DEF F, next
  <2>. QED
    BY <1>1, <1>3, <2>1, BetweenIs
<1>5. next # 0 => next # p
  <2>1. next = p => Follows(F, p, p)
    BY <1>3
  <2>. HIDE DEF F, next
  <2>. QED
    BY <1>1, <1>3, <2>1, FollowsSelf
<1>6. h[bp].size \in Nat /\ h[bp].size >= 1
  <2>1. BlockOK(h, e, bp)
    BY DEF HeapOf, BlockedOf, BlocksOf
  <2>. QED
    BY <2>1 DEF BlockOK
<1>. HIDE DEF F, next
<1>a. PtrSet(h, bp, next, hl) /\ PtrSet(hl, p, bp, h1) /\ PtrSet(hj, p, bp, h2)
  BY DEF PtrSet
<1>. HIDE DEF hl, h1, h2
<1>7. /\ hl \in [A -> HdrSet] /\ hl[bp].ptr = next
      /\ \A a \in A : a # bp => hl[a] = h[a]
      /\ \A a \in A : hl[a].size = h[a].size
  BY <1>1, <1>2, <1>3, <1>a, SetPtr, SMTT(30)
<1>8. /\ h1 \in [A -> HdrSet] /\ h1[p].ptr = bp
      /\ \A a \in A : a # p => h1[a] = hl[a]
      /\ \A a \in A : h1[a].size = hl[a].size
  BY <1>3, <1>7, <1>a, SetPtr, SMT
<1>9. HeapOf(h1, e, hd, {}) /\ GapsOf(h1, {p, bp}) /\ FreeOf(h1) = F \cup {bp}
  <2>1. \A a \in A : h1[a].size = h[a].size
    BY <1>7, <1>8
  <2>2. LinkedIn(h, h1, bp, p)
    BY <1>1, <1>2, <1>3, <1>7, <1>8, <2>1 DEF LinkedIn, next
  <2>3. Behind(h, bp, p) /\ SameSizes(h, h1)
    BY <1>4, <2>1 DEF next, Behind, SameSizes
  <2>4. HeapOf(h1, e, hd, {})
    BY <2>2, <2>3, InsertHeap
  <2>5. GapsOf(h1, {p, bp})
    BY <2>2, <2>3, InsertHeap
  <2>6. FreeOf(h1) = FreeOf(h) \cup {bp}
    <3>1. bp \in A /\ bp \notin FreeOf(h) /\ CircleOf(h)
      BY <1>2 DEF F, HeapOf
    <3>2. bp > p /\ (h[p].ptr = 0 \/ bp < h[p].ptr)
      BY <1>4 DEF next
    <3>. QED
      BY <2>2, <3>1, <3>2, LinkCircle
  <2>. QED
    BY <2>4, <2>5, <2>6 DEF F
<1>10. h1[bp].ptr = next /\ h1[bp].size = h[bp].size /\ h1[p].size = h[p].size
  BY <1>2, <1>3, <1>7, <1>8
<1>11. /\ HeapOf(h2, e, hd, {}) /\ GapsOf(h2, {p})
       /\ bp \in FreeOf(h2) /\ p \in FreeOf(h2)
       /\ h2[p].ptr = bp /\ h2[p].size = h[p].size /\ hj[p].size = h[p].size
       /\ h2[bp] = hj[bp] /\ h2 \in [A -> HdrSet] /\ hj \in [A -> HdrSet]
       /\ \A a \in A : a # p => h2[a] = hj[a]
  <2>1. CASE bp + h[bp].size = next
    <3>1. next # 0 /\ next # p
      <4>1. next # 0
        BY <1>3, <1>6, <2>1, SMT
      <4>. QED
        BY <1>5, <4>1
    <3>2. NextJoined(h, bp, next, hj)
      BY <2>1 DEF H!JoinNext, next, NextJoined
    <3>. HIDE DEF hj
    <3>3. /\ hj \in [A -> HdrSet]
          /\ hj[bp].ptr = h[next].ptr /\ hj[bp].size = h[bp].size + h[next].size
          /\ hj[next].ptr = -1
          /\ \A a \in A : a # bp /\ a # next => hj[a] = h[a]
      BY <1>1, <1>2, <1>3, <3>2, SetJoined, SMT
    <3>4. /\ h2 \in [A -> HdrSet] /\ h2[p].ptr = bp /\ h2[p].size = hj[p].size
          /\ \A a \in A : a # p => h2[a] = hj[a]
      BY <1>3, <1>a, <3>3, SetPtr, SMT
    <3>5. hj[p] = h[p] /\ h2[bp] = hj[bp] /\ h2[next] = hj[next]
      BY <1>2, <1>3, <3>1, <3>3, <3>4
    <3>6. h1[next] = h[next]
      BY <1>3, <1>7, <1>8, <3>1
    <3>7. ASSUME NEW a \in A, a # bp, a # next PROVE h2[a] = h1[a]
      <4>1. CASE a # p
        BY <1>7, <1>8, <3>3, <3>4, <3>7, <4>1
      <4>2. CASE a = p
        <5>1. \A r, s \in HdrSet : r.ptr = s.ptr /\ r.size = s.size => r = s
          BY SMT DEF HdrSet
        <5>2. h2[p] \in HdrSet /\ h1[p] \in HdrSet
          BY <1>3, <1>8, <3>4
        <5>3. h2[p].ptr = h1[p].ptr /\ h2[p].size = h1[p].size
          BY <1>8, <1>10, <3>4, <3>5
        <5>. QED
          BY <4>2, <5>1, <5>2, <5>3
      <4>. QED
        BY <4>1, <4>2
    <3>8. JoinedAt(h1, h2, bp, next)
      BY <1>10, <3>3, <3>4, <3>5, <3>6, <3>7 DEF JoinedAt
    <3>9. /\ HeapOf(h2, e, hd, {}) /\ GapsOf(h2, {p, bp} \ {bp})
          /\ FreeOf(h2) = FreeOf(h1) \ {next} /\ bp \in FreeOf(h2)
      <4>1. next \notin {p, bp} /\ bp + h1[bp].size = next /\ bp \in FreeOf(h1) /\ next = h1[bp].ptr
        BY <1>3, <1>9, <1>10, <2>1, <3>1
      <4>. QED
        BY <1>9, <3>1, <3>8, <4>1, JoinHeap
    <3>10. {p, bp} \ {bp} = {p}
      BY <1>3
    <3>11. p \in FreeOf(h2)
      BY <1>3, <1>9, <3>1, <3>9
    <3>. QED
      BY <3>3, <3>4, <3>5, <3>9, <3>10, <3>11
  <2>2. CASE bp + h[bp].size # next
    <3>1. hj = hl
      BY <2>2 DEF H!JoinNext, next, hl
    <3>2. h2 = h1
      BY <3>1 DEF h1, h2
    <3>3. GapsOf(h1, {p, bp} \ {bp})
      <4>1. bp \in FreeOf(h1) /\ bp + h1[bp].size # next /\ next = h1[bp].ptr
        BY <1>9, <1>10, <2>2
      <4>2. next = 0 \/ next > bp
        <5>1. next \in Nat
          BY <1>1, <1>3
        <5>. QED
          BY <1>3, <1>4, <5>1, SMT
      <4>. QED
        BY <1>9, <4>1, <4>2, GapIs
    <3>4. {p, bp} \ {bp} = {p}
      BY <1>3
    <3>5. h1[bp] = hl[bp] /\ bp \in FreeOf(h1) /\ p \in FreeOf(h1) /\ hl[p].size = h[p].size
      BY <1>2, <1>3, <1>7, <1>8, <1>9
    <3>. HIDE DEF hj
    <3>. QED
      BY <1>7, <1>8, <1>9, <1>10, <3>1, <3>2, <3>3, <3>4, <3>5
  <2>. QED
    BY <2>1, <2>2
<1>. HIDE DEF hj
<1>12. CASE p + h[p].size = bp
  <2>1. NextJoined(hj, p, bp, h3)
    <3>1. p + hj[p].size = bp
      BY <1>11, <1>12
    <3>. QED
      BY <3>1 DEF IsPut, H!LinkOrJoin, hj, NextJoined
  <2>2. /\ h3 \in [A -> HdrSet]
        /\ h3[p].ptr = hj[bp].ptr /\ h3[p].size = hj[p].size + hj[bp].size
        /\ h3[bp].ptr = -1
        /\ \A a \in A : a # p /\ a # bp => h3[a] = hj[a]
    BY <1>2, <1>3, <1>11, <2>1, SetJoined, SMT
  <2>3. JoinedAt(h2, h3, p, bp)
    BY <1>11, <2>2 DEF JoinedAt
  <2>4. /\ HeapOf(h3, e, hd, {}) /\ GapsOf(h3, {p} \ {p}) /\ p \in FreeOf(h3)
    <3>1. /\ bp \notin {p} /\ p + h2[p].size = bp /\ bp = h2[p].ptr /\ bp # 0
          /\ HeapOf(h2, e, hd, {}) /\ GapsOf(h2, {p}) /\ p \in FreeOf(h2)
      BY <1>3, <1>11, <1>12
    <3>. QED
      BY <2>3, <3>1, JoinHeap
  <2>. QED
    BY <2>4 DEF GapsOf
<1>13. CASE p + h[p].size # bp
  <2>1. h3 = h2
    <3>1. p + hj[p].size # bp
      BY <1>11, <1>13
    <3>. QED
      BY <3>1 DEF IsPut, H!LinkOrJoin, hj, h2
  <2>2. GapsOf(h2, {p} \ {p})
    <3>1. p + h2[p].size # bp /\ bp = h2[p].ptr
      BY <1>11, <1>13
    <3>. QED
      BY <1>4, <1>11, <3>1, GapIs
  <2>. QED
    BY <1>11, <2>1, <2>2 DEF GapsOf
<1>. QED
  BY <1>12, <1>13

\* The call under way, and the block that it is about to put back.
CallType == [pc : {"idle", "search", "sbrk", "free"}, n : Nat, p : A, prevp : A, bp : A, core : BOOLEAN]

FreeingOf(c) == IF c.pc = "free" THEN {c.bp} ELSE {}

\* The local variables of malloc and free.
CallerOf(h, f, c) ==
  /\ f \in FreeOf(h)
  /\ c.pc = "search" => c.prevp \in FreeOf(h) /\ c.p = h[c.prevp].ptr /\ c.n \in Requests
  /\ c.pc = "free" => c.p \in FreeOf(h) /\ (c.core => c.n \in Requests)
  /\ c.pc = "sbrk" => c.n \in Requests

\* The heap of a program that has not called malloc().
NoHeap(h, e, hd, c) == h = [a \in A |-> H!NoHeader] /\ hd = {} /\ c = H!Idle /\ e = 1

\* The heap before the first call of malloc() and after it.
HOf(h, f, e, hd, c) ==
  /\ End(e) /\ c \in CallType
  /\ f = -1 => NoHeap(h, e, hd, c)
  /\ f # -1 => HeapOf(h, e, hd, FreeingOf(c)) /\ GapsOf(h, {}) /\ CallerOf(h, f, c)

\* The inductive invariant of the heap.
HInv == HOf(hdr, freep, brk, held, call)

\* A new heap ends at 1.
LEMMA OneAddr == End(1)
BY MemoryAssumption, SMT DEF End

\* No call is under way.
LEMMA IdleIs == H!Idle \in CallType /\ H!Idle.pc = "idle"
BY AddrIs, SMT DEF H!Idle, CallType

\* Without a call no block is about to be put back.
LEMMA IdleFreeing == FreeingOf(H!Idle) = {} /\ \A h, f : f \in FreeOf(h) => CallerOf(h, f, H!Idle)
BY IdleIs, SMT DEF FreeingOf, CallerOf

\* A program that has not called malloc.
LEMMA NewStep == HOf([a \in A |-> H!NoHeader], -1, 1, {}, H!Idle)
BY OneAddr, IdleIs DEF HOf, NoHeap

\* malloc's first call makes the ring of base.
LEMMA FirstHeap ==
  ASSUME NEW h, h = [[a \in A |-> H!NoHeader] EXCEPT ![0] = [ptr |-> 0, size |-> 0]]
  PROVE  HeapOf(h, 1, {}, {}) /\ GapsOf(h, {}) /\ 0 \in FreeOf(h) /\ h[0].ptr = 0
<1>. DEFINE g == [a \in A |-> H!NoHeader]
            w == [ptr |-> 0, size |-> 0]
<1>1. g \in [A -> HdrSet] /\ \A a \in A : g[a] = H!NoHeader
  BY NoHeaderIs
<1>2. w \in HdrSet /\ w.ptr = 0 /\ w.size = 0
  BY AddrIs, HdrIs, SMT
<1>. HIDE DEF g, w
<1>3. h \in [A -> HdrSet] /\ h[0] = w /\ \A a \in A : a # 0 => h[a] = g[a]
  BY <1>1, <1>2, AddrIs, SetIs DEF g, w
<1>4. h[0].ptr = 0 /\ h[0].size = 0 /\ \A a \in A : a # 0 => h[a].ptr = -1
  BY <1>1, <1>2, <1>3, NoHeaderIs
<1>5. FreeOf(h) = {0}
  <2>1. 0 # -1
    BY SMT
  <2>. QED
    BY <1>4, <2>1, AddrIs DEF FreeOf
<1>6. CircleOf(h)
  <2>1. Follows({0}, 0, 0)
    BY SMT DEF Follows
  <2>. QED
    BY <1>3, <1>4, <1>5, <2>1 DEF CircleOf
<1>7. BlocksOf(h, {}, {}) = {}
  BY <1>5 DEF BlocksOf
<1>8. BlockedOf(h, 1, {})
  <2>1. 1..(1 - 1) = {}
    BY SMT
  <2>2. 1 \in Nat /\ 1 >= 1
    BY SMT
  <2>. QED
    BY <2>1, <2>2 DEF BlockedOf
<1>9. HeapOf(h, 1, {}, {})
  <2>1. {} \cap FreeOf(h) = {} /\ {} \cap {} = {}
    OBVIOUS
  <2>. QED
    BY <1>6, <1>7, <1>8, <2>1 DEF HeapOf
<1>. QED
  BY <1>4, <1>5, <1>9 DEF GapsOf, GapAt

\* malloc() begins to search for n units behind x.
IsSearch(c, h, x, n) == c = [H!Idle EXCEPT !.pc = "search", !.n = n, !.prevp = x, !.p = h[x].ptr]

\* A search begins.
LEMMA SearchIs ==
  ASSUME NEW h, NEW x \in FreeOf(h), NEW n \in Requests, CircleOf(h), NEW c,
         IsSearch(c, h, x, n)
  PROVE  /\ c \in CallType /\ c.pc = "search" /\ c.n = n /\ c.prevp = x /\ c.p = h[x].ptr
         /\ FreeingOf(c) = {} /\ CallerOf(h, x, c)
<1>1. x \in A /\ h[x].ptr \in A /\ n \in Nat
  BY FreeIs, MemoryAssumption DEF CircleOf
<1>2. c \in CallType /\ c.pc = "search" /\ c.n = n /\ c.prevp = x /\ c.p = h[x].ptr
  BY <1>1, AddrIs DEF H!Idle, CallType, IsSearch
<1>3. FreeingOf(c) = {}
  BY <1>2, SMT DEF FreeingOf
<1>4. "search" # "free" /\ "search" # "sbrk"
  BY SMT
<1>. QED
  BY <1>2, <1>3, <1>4 DEF CallerOf

\* malloc() is called.
LEMMA MallocStep ==
  ASSUME HInv, NEW n \in Requests, H!malloc(n)
  PROVE  HInv'
<1>. DEFINE first == freep = H!Null
            h == IF first THEN [hdr EXCEPT ![H!base] = [ptr |-> H!base, size |-> 0]] ELSE hdr
            prevp == IF first THEN H!base ELSE freep
<1>1. /\ call = H!Idle /\ hdr' = h /\ freep' = prevp
      /\ IsSearch(call', h, prevp, n) /\ brk' = brk /\ held' = held
  BY DEF H!malloc, IsSearch
<1>2. HeapOf(h, brk, held, {}) /\ GapsOf(h, {}) /\ prevp \in FreeOf(h)
  <2>1. CASE freep = -1
    <3>1. hdr = [a \in A |-> H!NoHeader] /\ held = {} /\ brk = 1
      BY <2>1 DEF HInv, HOf, NoHeap
    <3>2. h = [[a \in A |-> H!NoHeader] EXCEPT ![0] = [ptr |-> 0, size |-> 0]] /\ prevp = 0
      BY <2>1, <3>1, SMT DEF H!Null, H!base
    <3>. HIDE DEF h, prevp
    <3>. QED
      BY <3>1, <3>2, FirstHeap
  <2>2. CASE freep # -1
    <3>1. h = hdr /\ prevp = freep
      BY <2>2, SMT DEF H!Null
    <3>2. HeapOf(hdr, brk, held, FreeingOf(call)) /\ GapsOf(hdr, {}) /\ freep \in FreeOf(hdr)
      BY <2>2 DEF HInv, HOf, CallerOf
    <3>. HIDE DEF h, prevp
    <3>. QED
      BY <1>1, <3>1, <3>2, IdleFreeing
  <2>. QED
    BY <2>1, <2>2
<1>. HIDE DEF h, prevp
<1>3. /\ call' \in CallType /\ FreeingOf(call') = {} /\ CallerOf(h, prevp, call')
  BY <1>1, <1>2, SearchIs DEF HeapOf
<1>4. prevp # -1
  BY <1>2, FreeIs, AddrIs
<1>5. End(brk)
  BY DEF HInv, HOf
<1>6. HOf(h, prevp, brk, held, call')
  BY <1>2, <1>3, <1>4, <1>5 DEF HOf
<1>. QED
  BY <1>1, <1>6 DEF HInv

\* A call under way has a heap.
LEMMA UnderWay ==
  ASSUME HInv, call # H!Idle
  PROVE  /\ HeapOf(hdr, brk, held, FreeingOf(call)) /\ GapsOf(hdr, {}) /\ CallerOf(hdr, freep, call)
         /\ End(brk) /\ call \in CallType /\ freep # -1 /\ freep \in FreeOf(hdr)
BY DEF HInv, HOf, NoHeap, CallerOf

\* A call at any other place than idle is under way.
LEMMA NotIdle ==
  ASSUME call.pc # "idle"
  PROVE  call # H!Idle
BY IdleIs

\* malloc_found: all of the block, or its tail.
LEMMA FoundStep ==
  ASSUME HInv, H!malloc_found
  PROVE  HInv'
<1>. DEFINE p == call.p
            n == call.n
            x == call.prevp
            left == hdr[p].size - n
<1>1. /\ call.pc = "search" /\ hdr[p].size >= n
      /\ hdr' = IF left = 0
                THEN [hdr EXCEPT ![x].ptr = hdr[p].ptr, ![p].ptr = H!Null]
                ELSE [hdr EXCEPT ![p].size = left, ![p + left] = [ptr |-> H!Null, size |-> n]]
      /\ held' = held \cup {p + left} /\ freep' = x /\ call' = H!Idle /\ brk' = brk
  BY DEF H!malloc_found
<1>2. "search" # "idle" /\ "search" # "free"
  BY SMT
<1>3. /\ HeapOf(hdr, brk, held, {}) /\ GapsOf(hdr, {}) /\ CallerOf(hdr, freep, call)
      /\ End(brk)
  <2>1. FreeingOf(call) = {}
    BY <1>1, <1>2 DEF FreeingOf
  <2>. QED
    BY <1>1, <1>2, <2>1, UnderWay, NotIdle
<1>4. x \in FreeOf(hdr) /\ p = hdr[x].ptr /\ n \in Requests
  BY <1>1, <1>3 DEF CallerOf
<1>5. /\ hdr \in [A -> HdrSet] /\ hdr[0].size = 0
      /\ \A a \in FreeOf(hdr) : hdr[a].ptr \in FreeOf(hdr)
      /\ FreeOf(hdr) \subseteq A /\ FreeOf(hdr) \subseteq Nat
  BY <1>3, FreeIs DEF HeapOf, CircleOf
<1>. HIDE DEF p, n, x
<1>6. p \in FreeOf(hdr) /\ p \in A /\ p \in Nat /\ x \in A /\ hdr[p].ptr \in A
  BY <1>4, <1>5
<1>7. n \in Nat /\ n >= 1
  BY <1>4, MemoryAssumption, SMT
<1>8. hdr[p].size \in Nat
  BY <1>5, <1>6, SMT DEF HdrSet
<1>9. p # 0
  <2>1. ~(0 >= n)
    BY <1>7, SMT
  <2>. QED
    BY <1>1, <1>5, <2>1
<1>10. left \in Nat /\ hdr[p].size = left + n
  BY <1>1, <1>7, <1>8, SMT
<1>11. /\ HeapOf(hdr', brk, held \cup {p + left}, {}) /\ GapsOf(hdr', {})
       /\ x \in FreeOf(hdr')
  <2>1. CASE left = 0
    <3>. DEFINE g == [hdr EXCEPT ![x].ptr = hdr[p].ptr]
    <3>1. PtrSet(hdr, x, hdr[p].ptr, g) /\ PtrSet(g, p, -1, hdr')
      BY <1>1, <2>1, SMT DEF PtrSet, H!Null
    <3>. HIDE DEF g, left
    <3>2. /\ g \in [A -> HdrSet] /\ g[x].ptr = hdr[p].ptr
          /\ \A a \in A : a # x => g[a] = hdr[a]
          /\ \A a \in A : g[a].size = hdr[a].size
      BY <1>5, <1>6, <3>1, SetPtr, SMT
    <3>3. /\ hdr' \in [A -> HdrSet] /\ hdr'[p].ptr = -1
          /\ \A a \in A : a # p => hdr'[a] = g[a]
          /\ \A a \in A : hdr'[a].size = g[a].size
      <4>1. -1 \in A \cup {-1} /\ PtrSet(g, p, -1, hdr') /\ g \in [A -> HdrSet] /\ p \in A
        BY <1>6, <3>1, <3>2
      <4>2. ASSUME NEW v, v \in A \cup {-1}, PtrSet(g, p, v, hdr')
            PROVE  /\ hdr' \in [A -> HdrSet] /\ hdr'[p].ptr = v
                   /\ \A a \in A : a # p => hdr'[a] = g[a]
                   /\ \A a \in A : hdr'[a].size = g[a].size
        BY <4>1, <4>2, SetPtr, SMT
      <4>. QED
        BY <4>1, <4>2
    <3>4. x # p
      <4>1. x = p => Follows(FreeOf(hdr), x, x)
        BY <1>3, <1>4 DEF HeapOf, CircleOf
      <4>. QED
        BY <1>4, <1>5, <1>9, <4>1, FollowsSelf
    <3>5. Unlinked(hdr, hdr', x, p)
      BY <1>5, <1>6, <3>2, <3>3, <3>4, AddrIs DEF Unlinked
    <3>6. HeapOf(hdr', brk, held \cup {p}, {}) /\ GapsOf(hdr', {}) /\ x \in FreeOf(hdr')
      <4>1. \A a \in A : hdr'[a].size = hdr[a].size
        BY <3>2, <3>3
      <4>. QED
        BY <1>3, <1>4, <1>9, <3>5, <4>1, TakeHeap
    <3>7. p + left = p
      BY <1>6, <2>1, SMT
    <3>. QED
      BY <3>6, <3>7
  <2>2. CASE left # 0
    <3>1. left >= 1
      BY <1>10, <2>2, SMT
    <3>. DEFINE q == p + left
    <3>2. hdr' = [hdr EXCEPT ![p].size = left, ![q] = [ptr |-> -1, size |-> n]]
      BY <1>1, <2>2, SMT DEF H!Null
    <3>3. q # p
      BY <1>6, <1>10, <3>1, SMT
    <3>. HIDE DEF left
    <3>4. /\ hdr' \in [A -> HdrSet] /\ hdr'[p].size = left /\ hdr'[p].ptr = hdr[p].ptr
          /\ q \in A => hdr'[q].size = n /\ hdr'[q].ptr = -1
          /\ \A a \in A : a # p /\ a # q => hdr'[a] = hdr[a]
      <4>. DEFINE v == [hdr[p] EXCEPT !.size = left]
                  w == [ptr |-> -1, size |-> n]
                  g == [hdr EXCEPT ![p] = v]
      <4>1. v \in HdrSet /\ v.size = left /\ v.ptr = hdr[p].ptr
        BY <1>5, <1>6, <1>10, SMT DEF HdrSet
      <4>2. w \in HdrSet /\ w.size = n /\ w.ptr = -1
        BY <1>7, HdrIs, SMT
      <4>3. hdr' = [g EXCEPT ![q] = w]
        BY <3>2
      <4>. HIDE DEF v, w, q
      <4>4. g \in [A -> HdrSet] /\ g[p] = v /\ \A a \in A : a # p => g[a] = hdr[a]
        BY <1>5, <1>6, <4>1, SetIs
      <4>. HIDE DEF g
      <4>5. CASE q \in A
        <5>1. hdr' \in [A -> HdrSet] /\ hdr'[q] = w /\ \A a \in A : a # q => hdr'[a] = g[a]
          BY <4>2, <4>3, <4>4, <4>5, SetIs
        <5>. QED
          BY <1>6, <3>3, <4>1, <4>2, <4>4, <5>1
      <4>6. CASE q \notin A
        <5>1. hdr' = g
          BY <4>3, <4>4, <4>6, SMTT(30)
        <5>. QED
          BY <1>6, <3>3, <4>1, <4>2, <4>4, <4>6, <5>1
      <4>. QED
        BY <4>5, <4>6
    <3>5. /\ HeapOf(hdr', brk, held \cup {p + left}, {}) /\ GapsOf(hdr', {})
          /\ FreeOf(hdr') = FreeOf(hdr)
      BY <1>3, <1>6, <1>7, <1>9, <1>10, <3>1, <3>4, CutHeap, SMTT(30)
    <3>. QED
      BY <1>4, <3>5
  <2>. QED
    BY <2>1, <2>2
<1>12. x # -1
  BY <1>6, AddrIs
<1>13. HOf(hdr', x, brk, held \cup {p + left}, H!Idle)
  BY <1>3, <1>11, <1>12, IdleIs, IdleFreeing DEF HOf
<1>. HIDE DEF left
<1>. QED
  BY <1>1, <1>13 DEF HInv, x

\* The constants are numbers.
LEMMA RequestIs ==
  /\ NALLOC \in Nat /\ NALLOC >= 1 /\ UPP \in Nat /\ UPP >= 1
  /\ \A n \in Requests : n \in Nat /\ n >= 1
BY MemoryAssumption, SMT

\* The four values of pc.
LEMMA Pcs == /\ "search" # "idle" /\ "search" # "free" /\ "search" # "sbrk"
             /\ "sbrk" # "idle" /\ "sbrk" # "free" /\ "free" # "idle"
BY SMT

\* A call that goes on: only its local variables change.
LEMMA NextStep ==
  ASSUME HInv, H!malloc_next
  PROVE  HInv'
<1>1. /\ call.pc = "search" /\ hdr' = hdr /\ freep' = freep /\ brk' = brk /\ held' = held
      /\ \/ call' = [call EXCEPT !.pc = "sbrk"]
         \/ call' = [call EXCEPT !.prevp = call.p, !.p = hdr[call.p].ptr]
  BY DEF H!malloc_next
<1>2. /\ HeapOf(hdr, brk, held, FreeingOf(call)) /\ GapsOf(hdr, {}) /\ CallerOf(hdr, freep, call)
      /\ End(brk) /\ call \in CallType /\ freep # -1 /\ freep \in FreeOf(hdr)
  BY <1>1, Pcs, UnderWay, NotIdle
<1>3. call.prevp \in FreeOf(hdr) /\ call.p = hdr[call.prevp].ptr /\ call.n \in Requests
  BY <1>1, <1>2 DEF CallerOf
<1>4. /\ FreeOf(hdr) \subseteq A
      /\ \A a \in FreeOf(hdr) : hdr[a].ptr \in FreeOf(hdr)
  BY <1>2, FreeIs DEF HeapOf, CircleOf
<1>5. call.p \in FreeOf(hdr) /\ hdr[call.p].ptr \in A /\ call.p \in A
  BY <1>3, <1>4
<1>6. CASE call' = [call EXCEPT !.pc = "sbrk"]
  <2>1. call' \in CallType /\ call'.pc = "sbrk" /\ call'.n = call.n
    BY <1>2, <1>6, SMT DEF CallType
  <2>2. FreeingOf(call') = FreeingOf(call) /\ CallerOf(hdr, freep, call')
    BY <1>1, <1>2, <1>3, <2>1, Pcs DEF FreeingOf, CallerOf
  <2>. QED
    BY <1>1, <1>2, <2>1, <2>2 DEF HInv, HOf
<1>7. CASE call' = [call EXCEPT !.prevp = call.p, !.p = hdr[call.p].ptr]
  <2>1. /\ call' \in CallType /\ call'.pc = "search" /\ call'.n = call.n
        /\ call'.prevp = call.p /\ call'.p = hdr[call.p].ptr
    BY <1>1, <1>2, <1>5, <1>7 DEF CallType
  <2>2. FreeingOf(call') = FreeingOf(call) /\ CallerOf(hdr, freep, call')
    BY <1>1, <1>2, <1>3, <1>5, <2>1, Pcs DEF FreeingOf, CallerOf
  <2>. QED
    BY <1>1, <1>2, <2>1, <2>2 DEF HInv, HOf
<1>. QED
  BY <1>1, <1>6, <1>7

\* sbrk fails.
LEMMA FailStep ==
  ASSUME HInv, H!morecore_fails
  PROVE  HInv'
<1>1. /\ call.pc = "sbrk" /\ hdr' = hdr /\ freep' = freep /\ brk' = brk /\ held' = held
      /\ call' = H!Idle
  BY DEF H!morecore_fails
<1>2. /\ HeapOf(hdr, brk, held, FreeingOf(call)) /\ GapsOf(hdr, {})
      /\ End(brk) /\ freep # -1 /\ freep \in FreeOf(hdr)
  BY <1>1, Pcs, UnderWay, NotIdle
<1>3. FreeingOf(call) = {}
  BY <1>1, Pcs DEF FreeingOf
<1>. QED
  BY <1>1, <1>2, <1>3, IdleIs, IdleFreeing DEF HInv, HOf

\* sbrk gives the memory.
LEMMA MoreStep ==
  ASSUME HInv, H!morecore, End(brk + H!morecore_units)
  PROVE  HInv'
<1>. DEFINE n == H!morecore_units
            w == [ptr |-> H!Null, size |-> n]
<1>1. /\ call.pc = "sbrk" /\ hdr' = [hdr EXCEPT ![brk] = w] /\ brk' = brk + n
      /\ call' = [call EXCEPT !.pc = "free", !.bp = brk, !.p = freep, !.core = TRUE]
      /\ freep' = freep /\ held' = held
  BY DEF H!morecore
<1>2. /\ HeapOf(hdr, brk, held, FreeingOf(call)) /\ GapsOf(hdr, {}) /\ CallerOf(hdr, freep, call)
      /\ End(brk) /\ call \in CallType /\ freep # -1 /\ freep \in FreeOf(hdr)
  BY <1>1, Pcs, UnderWay, NotIdle
<1>3. FreeingOf(call) = {} /\ call.n \in Requests
  BY <1>1, <1>2, Pcs DEF FreeingOf, CallerOf
<1>4. n \in Nat /\ n >= 1 /\ End(brk + n)
  <2>1. call.n \in Nat /\ call.n >= 1 /\ NALLOC \in Nat /\ NALLOC >= 1
    BY <1>3, RequestIs
  <2>2. n \in Nat /\ n >= 1
    BY <2>1, SMT DEF H!morecore_units
  <2>. QED
    BY <2>2
<1>5. w \in HdrSet /\ w.ptr = -1 /\ w.size = n
  BY <1>4, HdrIs, SMT DEF H!Null
<1>. HIDE DEF n, w
<1>a. brk \in A
  BY <1>2, <1>4, MemoryAssumption, SMT DEF End, A, H!Addr
<1>6. hdr' \in [A -> HdrSet] /\ hdr'[brk] = w /\ \A a \in A : a # brk => hdr'[a] = hdr[a]
  BY <1>1, <1>2, <1>5, <1>a, SetIs DEF HeapOf, CircleOf
<1>7. HeapOf(hdr', brk + n, held, {brk}) /\ GapsOf(hdr', {}) /\ FreeOf(hdr') = FreeOf(hdr)
  <2>1. /\ HeapOf(hdr, brk, held, {}) /\ GapsOf(hdr, {}) /\ brk \in A /\ n \in Nat /\ n >= 1
        /\ hdr' \in [A -> HdrSet] /\ hdr'[brk].size = n /\ hdr'[brk].ptr = -1
        /\ \A a \in A : a # brk => hdr'[a] = hdr[a]
    BY <1>2, <1>3, <1>4, <1>5, <1>6, <1>a
  <2>. QED
    BY <2>1, MoreHeap, SMT
<1>8. /\ call' \in CallType /\ call'.pc = "free" /\ call'.bp = brk /\ call'.p = freep
      /\ call'.n = call.n
  <2>1. freep \in A
    BY <1>2, FreeIs
  <2>. QED
    BY <1>1, <1>2, <1>a, <2>1 DEF CallType
<1>9. FreeingOf(call') = {brk} /\ CallerOf(hdr', freep, call')
  BY <1>2, <1>3, <1>7, <1>8, Pcs DEF FreeingOf, CallerOf
<1>10. HOf(hdr', freep, brk + n, held, call')
  BY <1>2, <1>4, <1>7, <1>8, <1>9 DEF HOf
<1>. QED
  BY <1>1, <1>10 DEF HInv

\* free(bp) begins.
LEMMA FreeStepH ==
  ASSUME HInv, NEW bp \in held, H!free(bp)
  PROVE  HInv'
<1>1. /\ call = H!Idle /\ held' = held \ {bp} /\ hdr' = hdr /\ freep' = freep /\ brk' = brk
      /\ call' = [H!Idle EXCEPT !.pc = "free", !.bp = bp, !.p = freep]
  BY DEF H!free
<1>2. freep # -1
  BY DEF HInv, HOf, NoHeap
<1>3. /\ HeapOf(hdr, brk, held, {}) /\ GapsOf(hdr, {}) /\ End(brk) /\ freep \in FreeOf(hdr)
  BY <1>1, <1>2, IdleFreeing DEF HInv, HOf, CallerOf
<1>4. HeapOf(hdr, brk, held \ {bp}, {bp})
  BY <1>3, FreeHeap
<1>5. /\ call' \in CallType /\ call'.pc = "free" /\ call'.bp = bp /\ call'.p = freep
      /\ call'.core = FALSE
  <2>1. freep \in A /\ bp \in A
    BY <1>3, FreeIs DEF HeapOf, BlockedOf, BlocksOf
  <2>. QED
    BY <1>1, <2>1, AddrIs DEF CallType, H!Idle
<1>6. FreeingOf(call') = {bp} /\ CallerOf(hdr, freep, call')
  BY <1>3, <1>5, Pcs DEF FreeingOf, CallerOf
<1>7. HOf(hdr, freep, brk, held \ {bp}, call')
  BY <1>2, <1>3, <1>4, <1>5, <1>6 DEF HOf
<1>. QED
  BY <1>1, <1>7 DEF HInv

\* free goes on around the ring.
LEMMA FreeNextStep ==
  ASSUME HInv, H!free_next
  PROVE  HInv'
<1>. DEFINE y == hdr[call.p].ptr
<1>1. /\ call.pc = "free" /\ hdr' = hdr /\ freep' = freep /\ brk' = brk /\ held' = held
      /\ call' = [call EXCEPT !.p = y]
  BY SMT DEF H!free_next
<1>2. /\ HeapOf(hdr, brk, held, FreeingOf(call)) /\ GapsOf(hdr, {}) /\ CallerOf(hdr, freep, call)
      /\ End(brk) /\ call \in CallType /\ freep # -1 /\ freep \in FreeOf(hdr)
  BY <1>1, Pcs, UnderWay, NotIdle
<1>3. call.p \in FreeOf(hdr) /\ (call.core => call.n \in Requests)
  BY <1>1, <1>2 DEF CallerOf
<1>4. y \in FreeOf(hdr) /\ y \in A
  BY <1>2, <1>3, FreeIs DEF HeapOf, CircleOf
<1>. HIDE DEF y
<1>5. /\ call' \in CallType /\ call'.pc = "free" /\ call'.bp = call.bp /\ call'.p = y
      /\ call'.core = call.core /\ call'.n = call.n
  BY <1>1, <1>2, <1>4, SMT DEF CallType
<1>6. FreeingOf(call') = FreeingOf(call) /\ CallerOf(hdr, freep, call')
  <2>1. FreeingOf(call') = FreeingOf(call)
    BY <1>1, <1>5 DEF FreeingOf
  <2>. QED
    BY <1>2, <1>3, <1>4, <1>5, <2>1, Pcs DEF CallerOf
<1>. QED
  BY <1>1, <1>2, <1>5, <1>6 DEF HInv, HOf

\* free puts the block in.
LEMMA InsertStep ==
  ASSUME HInv, H!free_insert
  PROVE  HInv'
<1>. DEFINE p == call.p
            bp == call.bp
            h == H!LinkOrJoin(H!JoinNext(hdr, bp, p), bp, p)
<1>1. /\ call.pc = "free" /\ H!Between(bp, p) /\ hdr' = h /\ freep' = p
      /\ call' = IF call.core
                 THEN [H!Idle EXCEPT !.pc = "search", !.n = call.n, !.prevp = p, !.p = h[p].ptr]
                 ELSE H!Idle
      /\ brk' = brk /\ held' = held
  BY DEF H!free_insert
<1>2. /\ HeapOf(hdr, brk, held, FreeingOf(call)) /\ GapsOf(hdr, {}) /\ CallerOf(hdr, freep, call)
      /\ End(brk) /\ call \in CallType
  BY <1>1, Pcs, UnderWay, NotIdle
<1>3. p \in FreeOf(hdr) /\ (call.core => call.n \in Requests) /\ FreeingOf(call) = {bp}
  BY <1>1, <1>2 DEF CallerOf, FreeingOf
<1>4. IsPut(hdr, bp, p, h) /\ FitsAt(hdr, bp, p)
  BY <1>1 DEF IsPut, FitsAt, H!Between
<1>5. call.core \in BOOLEAN
  BY <1>2, SMT DEF CallType
<1>. HIDE DEF p, bp, h
<1>6. HeapOf(h, brk, held, {}) /\ GapsOf(h, {}) /\ p \in FreeOf(h)
  <2>1. /\ HeapOf(hdr, brk, held, {bp}) /\ GapsOf(hdr, {}) /\ p \in FreeOf(hdr)
        /\ FitsAt(hdr, bp, p) /\ IsPut(hdr, bp, p, h)
    BY <1>2, <1>3, <1>4
  <2>. QED
    BY <2>1, PutHeap
<1>7. /\ call' \in CallType /\ FreeingOf(call') = {} /\ CallerOf(h, p, call')
  <2>1. CASE call.core
    <3>1. IsSearch(call', h, p, call.n)
      BY <1>1, <2>1 DEF IsSearch
    <3>. QED
      BY <1>3, <1>6, <2>1, <3>1, SearchIs DEF HeapOf
  <2>2. CASE ~call.core
    BY <1>1, <1>6, <2>2, IdleIs, IdleFreeing
  <2>. QED
    BY <2>1, <2>2
<1>8. p # -1
  BY <1>6, FreeIs, AddrIs
<1>9. HOf(h, p, brk, held, call')
  BY <1>2, <1>6, <1>7, <1>8 DEF HOf
<1>. QED
  BY <1>1, <1>9 DEF HInv

\* The call under way asks for a number of units.
CallOK ==
  /\ call = [pc |-> call.pc, n |-> call.n, p |-> call.p, prevp |-> call.prevp,
             bp |-> call.bp, core |-> call.core]
  /\ call.n \in Nat

\* Without a call CallOK holds.
LEMMA IdleOK ==
  H!Idle = [pc |-> H!Idle.pc, n |-> H!Idle.n, p |-> H!Idle.p, prevp |-> H!Idle.prevp,
            bp |-> H!Idle.bp, core |-> H!Idle.core] /\ H!Idle.n \in Nat
BY SMT DEF H!Idle

\* Every step of the heap keeps the number of units asked for a number.
LEMMA CallStep ==
  ASSUME CallOK,
         \/ \E n \in Requests : H!malloc(n)
         \/ \E bp \in held : H!free(bp)
         \/ H!HStep \/ H!morecore \/ H!morecore_fails \/ NewHeap \/ UNCHANGED heap
  PROVE  CallOK'
<1>1. ASSUME NEW n \in Requests, H!malloc(n) PROVE CallOK'
  <2>1. n \in Nat
    BY MemoryAssumption, SMT
  <2>2. PICK x, y : call' = [H!Idle EXCEPT !.pc = "search", !.n = n, !.prevp = x, !.p = y]
    BY <1>1 DEF H!malloc
  <2>. QED
    BY <2>1, <2>2 DEF CallOK, H!Idle
<1>2. ASSUME NEW bp \in held, H!free(bp) PROVE CallOK'
  <2>1. call' = [H!Idle EXCEPT !.pc = "free", !.bp = bp, !.p = freep]
    BY <1>2 DEF H!free
  <2>. QED
    BY <2>1 DEF CallOK, H!Idle
<1>3. CASE H!malloc_found \/ H!morecore_fails \/ NewHeap
  <2>1. call' = H!Idle
    BY <1>3 DEF H!malloc_found, H!morecore_fails, NewHeap
  <2>. QED
    BY <2>1, IdleOK DEF CallOK
<1>4. CASE H!malloc_next
  <2>1. call' = [call EXCEPT !.pc = "sbrk"] \/ \E x, y : call' = [call EXCEPT !.prevp = x, !.p = y]
    BY <1>4 DEF H!malloc_next
  <2>. QED
    BY <2>1 DEF CallOK
<1>5. CASE H!free_next
  <2>1. \E x : call' = [call EXCEPT !.p = x]
    BY <1>5 DEF H!free_next
  <2>. QED
    BY <2>1, SMT DEF CallOK
<1>6. CASE H!free_insert
  <2>. DEFINE x == H!LinkOrJoin(H!JoinNext(hdr, call.bp, call.p), call.bp, call.p)[call.p].ptr
  <2>1. call' = IF call.core
                THEN [H!Idle EXCEPT !.pc = "search", !.n = call.n, !.prevp = call.p, !.p = x]
                ELSE H!Idle
    BY <1>6 DEF H!free_insert
  <2>. HIDE DEF x
  <2>. QED
    BY <2>1 DEF CallOK, H!Idle
<1>7. CASE H!morecore
  <2>1. \E x, y : call' = [call EXCEPT !.pc = "free", !.bp = x, !.p = y, !.core = TRUE]
    BY <1>7 DEF H!morecore
  <2>. QED
    BY <2>1 DEF CallOK
<1>8. CASE UNCHANGED heap
  BY <1>8 DEF CallOK, heap
<1>. QED
  BY <1>1, <1>2, <1>3, <1>4, <1>5, <1>6, <1>7, <1>8 DEF H!HStep

\* Only the steps of pipeclose change closing.
LEMMA ClosingStep ==
  ASSUME ClosingOK, pipes \subseteq Page, [Next]_allvars
  PROVE  ClosingOK'
<1>. DEFINE CSet == [at : {"no", "test", "kfree", "panicked", "stole"}, v : Page \cup {0}]
<1>0. closing \in [Proc -> CSet]
  BY DEF ClosingOK
<1>n. NotClosing \in CSet
  BY SMT DEF NotClosing
<1>1. ASSUME NEW p \in Proc, NEW c \in CSet, closing' = [closing EXCEPT ![p] = c] PROVE ClosingOK'
  <2>. HIDE DEF CSet
  <2>1. closing' \in [Proc -> CSet]
    BY <1>0, <1>1
  <2>. QED
    BY <2>1 DEF ClosingOK, CSet
<1>2. ASSUME NEW p \in Proc, pipeclose(p) PROVE ClosingOK'
  <2>1. PICK v \in pipes : closing' = [closing EXCEPT ![p] = [at |-> "test", v |-> v]]
    BY <1>2 DEF pipeclose
  <2>2. [at |-> "test", v |-> v] \in CSet
    BY SMT
  <2>. QED
    BY <1>1, <2>1, <2>2
<1>3. ASSUME NEW p \in Proc, pipeclose_test(p) PROVE ClosingOK'
  <2>1. \/ closing' = [closing EXCEPT ![p] = [at |-> "kfree", v |-> closing[p].v]]
        \/ closing' = [closing EXCEPT ![p] = NotClosing]
    BY <1>3 DEF pipeclose_test
  <2>2. closing[p] \in CSet
    BY <1>0
  <2>3. [at |-> "kfree", v |-> closing[p].v] \in CSet
    BY <2>2, SMT
  <2>. QED
    BY <1>n, <1>1, <2>1, <2>3
<1>4. ASSUME NEW p \in Proc, pipeclose_kfree(p) PROVE ClosingOK'
  <2>1. \/ closing' = [closing EXCEPT ![p] = [closing[p] EXCEPT !.at = "panicked"]]
        \/ closing' = [closing EXCEPT ![p] = [closing[p] EXCEPT !.at = "stole"]]
        \/ closing' = [closing EXCEPT ![p] = NotClosing]
    <3>1. closing' = [closing EXCEPT ![p] = NotClosing]
          \/ closing' = [closing EXCEPT ![p] = [closing[p] EXCEPT
               !.at = IF FreesFree(freelist, closing[p].v, 1) THEN "panicked" ELSE "stole"]]
      BY <1>4 DEF pipeclose_kfree
    <3>. QED
      BY <3>1
  <2>2. closing[p] \in CSet
    BY <1>0
  <2>3. [closing[p] EXCEPT !.at = "panicked"] \in CSet /\ [closing[p] EXCEPT !.at = "stole"] \in CSet
    BY <2>2, SMT
  <2>. QED
    BY <1>n, <1>1, <2>1, <2>3
<1>5. CASE closing' = closing
  BY <1>5 DEF ClosingOK
<1>6. CASE morecore_sbrk \/ morecore_returns \/ program \/ program_step \/ halted \/ UNCHANGED allvars
  <2>1. closing' = closing
    BY <1>6 DEF morecore_sbrk, growproc, morecore_returns, growproc_move, program, program_step,
                halted, allvars, vars
  <2>. QED
    BY <1>5, <2>1
<1>7. ASSUME NEW p \in Proc, exec_commit(p) \/ exit(p) PROVE ClosingOK'
  BY <1>5, <1>7 DEF exec_commit, exit
<1>8. ASSUME NEW p \in Proc, Other(p) PROVE ClosingOK'
  <2>1. CASE fork(p) \/ copyproc_kstack(p) \/ copyproc_mem(p) \/ copyproc_undo(p)
    BY <1>5, <2>1 DEF fork, copyproc_kstack, copyproc_mem, copyproc_undo
  <2>2. CASE exec(p) \/ exec_bad(p) \/ wait(p) \/ wait_kstack(p) \/ pipealloc(p)
    BY <1>5, <2>2 DEF exec, exec_bad, wait, wait_kstack, pipealloc
  <2>. QED
    BY <1>2, <1>3, <1>4, <1>8, <2>1, <2>2 DEF Other
<1>9. User \in Proc
  BY KallocAssumption, SMT DEF User
<1>. QED
  BY <1>6, <1>7, <1>8, <1>9 DEF Next

\* Once the kernel has stopped nothing happens any more.
LEMMA StoppedStays ==
  ASSUME Stopped, [Next]_allvars
  PROVE  UNCHANGED allvars
<1>1. \A p, x : ~Running(p, x)
  BY DEF Running
<1>2. \A p, x : ~At(p, x)
  BY <1>1 DEF At
<1>3. ~morecore_sbrk /\ ~morecore_returns /\ ~program /\ ~program_step
  BY <1>2 DEF morecore_sbrk, growproc, morecore_returns, growproc_move, program, program_step
<1>4. \A p : ~exec_commit(p) /\ ~exit(p)
  BY <1>2 DEF exec_commit, exit
<1>5. \A p : ~fork(p) /\ ~copyproc_kstack(p) /\ ~copyproc_mem(p) /\ ~copyproc_undo(p)
  BY <1>2 DEF fork, copyproc_kstack, copyproc_mem, copyproc_undo
<1>6. \A p : ~exec(p) /\ ~exec_bad(p) /\ ~wait(p) /\ ~wait_kstack(p)
  BY <1>2 DEF exec, exec_bad, wait, wait_kstack
<1>7. \A p : ~pipealloc(p) /\ ~pipeclose(p) /\ ~pipeclose_test(p) /\ ~pipeclose_kfree(p)
  BY <1>1, <1>2 DEF pipealloc, pipeclose, pipeclose_test, pipeclose_kfree
<1>8. \A p : ~Other(p)
  BY <1>5, <1>6, <1>7 DEF Other
<1>. QED
  BY <1>3, <1>4, <1>8 DEF Next, halted

\* The kernel's memory in every step of the system.
LEMMA KNext ==
  ASSUME FirstFinds, KInv, ClosingOK, CallOK, [Next]_allvars
  PROVE  (KInv' \/ Halted') /\ CallOK'
<1>1. CASE morecore_sbrk
  <2>. DEFINE n == H!morecore_units
  <2>1. n \div UPP \in Nat
    <3>1. n \in Nat
      BY MemoryAssumption, SMT DEF H!morecore_units, CallOK
    <3>. HIDE DEF n
    <3>. QED
      BY <3>1, MemoryAssumption, SMT
  <2>2. growproc(User, n \div UPP) /\ (H!morecore_fails \/ UNCHANGED heap)
    BY <1>1 DEF morecore_sbrk
  <2>3. User \in Proc
    BY KallocAssumption, SMT DEF User
  <2>. HIDE DEF n
  <2>. QED
    BY <2>1, <2>2, <2>3, KStep, CallStep DEF KernelStep
<1>2. CASE morecore_returns
  <2>1. growproc_move(User) /\ H!morecore /\ User \in Proc
    BY <1>2, KallocAssumption, SMT DEF morecore_returns, User
  <2>. QED
    BY <2>1, KStep, CallStep DEF KernelStep
<1>3. CASE program \/ program_step
  <2>1. KInv'
    BY <1>3, KStutter DEF program, program_step, vars
  <2>2. CallOK'
    BY <1>3, CallStep DEF program, program_step
  <2>. QED
    BY <2>1, <2>2
<1>4. ASSUME NEW p \in Proc, Other(p), UNCHANGED heap
      PROVE  (KInv' \/ Halted') /\ CallOK'
  <2>1. KInv' \/ Halted'
    BY <1>4, KStep DEF KernelStep
  <2>. QED
    BY <1>4, <2>1, CallStep
<1>5. ASSUME NEW p \in Proc, exec_commit(p) \/ exit(p), UNCHANGED heap
      PROVE  (KInv' \/ Halted') /\ CallOK'
  BY <1>5, KStep, CallStep DEF KernelStep
<1>6. CASE exec_commit(User) /\ NewHeap
  <2>1. User \in Proc
    BY KallocAssumption, SMT DEF User
  <2>. QED
    BY <1>6, <2>1, KStep, CallStep DEF KernelStep
<1>7. CASE UNCHANGED allvars \/ halted
  <2>1. UNCHANGED heap /\ UNCHANGED <<freelist, page, proc, pipes, panicked>>
    BY <1>7 DEF allvars, heap, halted
  <2>. QED
    BY <2>1, KStutter, CallStep
<1>. QED
  BY <1>1, <1>2, <1>3, <1>4, <1>5, <1>6, <1>7 DEF Next

(* The memory of User holds its heap *)

\* A page of User's memory is its stack; the heap is in the others.  While
\* sbrk moves the memory it has the pages that morecore asked for.
Room ==
  /\ brk - 1 + UPP <= proc[User].sz * UPP
  /\ proc[User].pc = "growproc_move" =>
       call.pc = "sbrk" /\ proc[User].len = proc[User].sz + H!morecore_units \div UPP
  /\ proc[User].state = "RUNNING"

\* The entry of User after a step that does not grow it.
Stays(r, r2) ==
  /\ r2.state = r.state /\ r2.sz = r.sz
  /\ \/ r2.pc = r.pc /\ r2.len = r.len
     \/ r2.pc # "growproc_move"

\* The changes of an entry that keep its memory.
LEMMA StaysIs ==
  ASSUME NEW r \in ProcType
  PROVE  /\ Stays(r, r)
         /\ Stays(r, [r EXCEPT !.parent = 1])
         /\ Stays(r, [r EXCEPT !.pc = "user", !.child = 0])
         /\ Stays(r, [r EXCEPT !.pc = "user", !.seg = 0, !.len = 0])
         /\ Stays(r, [r EXCEPT !.pc = "copyproc_mem"])
         /\ Stays(r, [r EXCEPT !.pc = "copyproc_undo"])
BY SMT DEF ProcType, Stays

\* User is a process.
LEMMA UserIs == User \in Proc
BY KallocAssumption, SMT DEF User

\* No step of another process, and none of User's other system calls, changes the
\* size of User's memory.
LEMMA UserStays ==
  ASSUME FirstFinds, KInv, proc[User].state = "RUNNING", NEW p \in Proc,
         Other(p) \/ (p # User /\ (exec_commit(p) \/ exit(p)))
  PROVE  Stays(proc[User], proc'[User])
<1>. DEFINE u == User
<1>1. proc \in [Proc -> ProcType] /\ proc[u] \in ProcType /\ u \in Proc /\ proc[p] \in ProcType
  BY UserIs DEF KInv, MType
<1>. HIDE DEF u
<1>2. proc[u].state = "RUNNING"
  BY DEF u
<1>3. "RUNNING" # "UNUSED" /\ "RUNNING" # "EMBRYO" /\ "RUNNING" # "ZOMBIE"
  BY SMT
<1>4. Stays(proc[u], proc[u])
  BY <1>1, StaysIs
<1>5. CASE fork(p)
  <2>. DEFINE q == First({r \in Proc : proc[r].state = "UNUSED"})
  <2>1. /\ q # 0
        /\ proc' = [proc EXCEPT ![q].state = "EMBRYO",
                             ![p].pc = "copyproc_kstack", ![p].child = q]
    BY <1>5 DEF fork
  <2>2. q \in Proc /\ proc[q].state = "UNUSED"
    <3>. DEFINE S == {r \in Proc : proc[r].state = "UNUSED"}
    <3>0. Proc \subseteq Nat
      BY KallocAssumption, SMT
    <3>1. S \subseteq Nat
      BY <3>0
    <3>2. q = First(S)
      BY SMT
    <3>. HIDE DEF S, q
    <3>3. q \in S
      BY <2>1, <3>1, <3>2 DEF FirstFinds
    <3>. QED
      BY <3>3 DEF S
  <2>. HIDE DEF q
  <2>3. q # u
    BY <1>2, <1>3, <2>2
  <2>4. CASE p = u
    <3>1. proc'[u] = [proc[u] EXCEPT !.pc = "copyproc_kstack", !.child = q]
      BY <1>1, <2>1, <2>2, <2>3, <2>4
    <3>2. Stays(proc[u], proc'[u])
      BY <1>1, <3>1, SMT DEF ProcType, Stays
    <3>. QED
      BY <3>2 DEF u
  <2>5. CASE p # u
    <3>1. proc'[u] = proc[u]
      BY <1>1, <2>1, <2>2, <2>3, <2>5
    <3>. QED
      BY <1>4, <3>1 DEF u
  <2>. QED
    BY <2>4, <2>5
<1>6. ASSUME copyproc_kstack(p) \/ copyproc_mem(p) \/ copyproc_undo(p) \/ wait_kstack(p)
      PROVE  Stays(proc[User], proc'[User])
  <2>. DEFINE q == proc[p].child
  <2>1. q \in Proc /\ q # p /\ proc[q].state \in {"EMBRYO", "ZOMBIE"}
    <3>1. proc[p].state = "RUNNING" /\ proc[p].pc \in Busy
      BY <1>6 DEF copyproc_kstack, copyproc_mem, copyproc_undo, wait_kstack, At, Running, Busy, Making
    <3>. QED
      BY <3>1, ChildIs DEF ChildOf
  <2>2. q # u
    BY <1>2, <1>3, <2>1
  <2>3. CASE p # u
    <3>1. \/ proc' = [proc EXCEPT ![q] = Unused, ![p].pc = "user", ![p].child = 0]
          \/ \E v : proc' = [proc EXCEPT ![q].kstack = v, ![q].parent = p, ![p].pc = "copyproc_mem"]
          \/ proc' = [proc EXCEPT ![p].pc = "copyproc_undo"]
          \/ \E v : proc' = [proc EXCEPT
                  ![q].state = "RUNNING", ![q].mem = v, ![q].sz = proc[p].sz,
                  ![q].image = proc[p].image, ![p].pc = "user", ![p].child = 0]
      BY <1>6 DEF copyproc_kstack, copyproc_mem, copyproc_undo, wait_kstack
    <3>. HIDE DEF q
    <3>2. proc'[u] = proc[u]
      BY <1>1, <2>1, <2>2, <2>3, <3>1
    <3>. QED
      BY <1>4, <3>2 DEF u
  <2>4. CASE p = u
    <3>1. \/ proc' = [proc EXCEPT ![q] = Unused, ![p].pc = "user", ![p].child = 0]
          \/ \E v : proc' = [proc EXCEPT ![q].kstack = v, ![q].parent = p, ![p].pc = "copyproc_mem"]
          \/ proc' = [proc EXCEPT ![p].pc = "copyproc_undo"]
          \/ \E v : proc' = [proc EXCEPT
                  ![q].state = "RUNNING", ![q].mem = v, ![q].sz = proc[p].sz,
                  ![q].image = proc[p].image, ![p].pc = "user", ![p].child = 0]
      BY <1>6 DEF copyproc_kstack, copyproc_mem, copyproc_undo, wait_kstack
    <3>. HIDE DEF q
    <3>2. \/ proc'[u] = [proc[u] EXCEPT !.pc = "user", !.child = 0]
          \/ proc'[u] = [proc[u] EXCEPT !.pc = "copyproc_mem"]
          \/ proc'[u] = [proc[u] EXCEPT !.pc = "copyproc_undo"]
      BY <1>1, <2>1, <2>2, <2>4, <3>1
    <3>. QED
      BY <1>1, <3>2, StaysIs DEF u
  <2>. QED
    BY <2>3, <2>4
<1>7. ASSUME exec(p) \/ exec_bad(p) PROVE Stays(proc[User], proc'[User])
  <2>1. \/ proc' = proc
        \/ \E v, n : proc' = [proc EXCEPT ![p].pc = "exec_load", ![p].seg = v, ![p].len = n]
        \/ proc' = [proc EXCEPT ![p].pc = "user", ![p].seg = 0, ![p].len = 0]
    BY <1>7 DEF exec, exec_bad
  <2>2. CASE p # u
    <3>1. proc'[u] = proc[u]
      BY <1>1, <2>1, <2>2
    <3>. QED
      BY <1>4, <3>1 DEF u
  <2>3. ASSUME p = u, NEW v, NEW n,
               proc' = [proc EXCEPT ![p].pc = "exec_load", ![p].seg = v, ![p].len = n]
        PROVE  Stays(proc[User], proc'[User])
    <3>1. proc'[u] = [proc[u] EXCEPT !.pc = "exec_load", !.seg = v, !.len = n]
      BY <1>1, <2>3, SMT
    <3>2. Stays(proc[u], proc'[u])
      BY <1>1, <3>1, SMT DEF ProcType, Stays
    <3>. QED
      BY <3>2 DEF u
  <2>4. CASE p = u /\ proc' = [proc EXCEPT ![p].pc = "user", ![p].seg = 0, ![p].len = 0]
    <3>1. proc'[u] = [proc[u] EXCEPT !.pc = "user", !.seg = 0, !.len = 0]
      BY <1>1, <2>4, SMT
    <3>2. Stays(proc[u], proc'[u])
      BY <1>1, <3>1, SMT DEF ProcType, Stays
    <3>. QED
      BY <3>2 DEF u
  <2>5. CASE proc' = proc
    BY <1>4, <2>5 DEF u
  <2>. QED
    BY <2>1, <2>2, <2>3, <2>4, <2>5
<1>8. CASE wait(p)
  <2>1. PICK q \in Proc : /\ proc[q].state = "ZOMBIE"
          /\ proc' = [proc EXCEPT ![q].mem = 0, ![q].sz = 0, ![q].image = <<>>,
                                  ![p].pc = "wait_kstack", ![p].child = q]
    BY <1>8 DEF wait
  <2>2. q # u
    BY <1>2, <1>3, <2>1
  <2>3. CASE p # u
    <3>1. proc'[u] = proc[u]
      BY <1>1, <2>1, <2>2, <2>3, SMT
    <3>. QED
      BY <1>4, <3>1 DEF u
  <2>4. CASE p = u
    <3>1. proc'[u] = [proc[u] EXCEPT !.pc = "wait_kstack", !.child = q]
      BY <1>1, <2>1, <2>2, <2>4
    <3>2. Stays(proc[u], proc'[u])
      BY <1>1, <3>1, SMT DEF ProcType, Stays
    <3>. QED
      BY <3>2 DEF u
  <2>. QED
    BY <2>3, <2>4
<1>9. CASE pipealloc(p) \/ pipeclose(p) \/ pipeclose_test(p) \/ pipeclose_kfree(p)
  <2>1. proc' = proc
    BY <1>9 DEF pipealloc, pipeclose, pipeclose_test, pipeclose_kfree
  <2>. QED
    BY <1>4, <2>1 DEF u
<1>10. CASE p # User /\ exec_commit(p)
  <2>1. PICK x : proc' = [proc EXCEPT ![p].pc = "user", ![p].seg = 0, ![p].len = 0,
             ![p].mem = proc[p].seg, ![p].sz = proc[p].len, ![p].image = x]
    BY <1>10 DEF exec_commit, Replaced
  <2>2. proc'[u] = proc[u]
    BY <1>1, <1>10, <2>1, SMT DEF u
  <2>. QED
    BY <1>4, <2>2 DEF u
<1>11. CASE p # User /\ exit(p)
  <2>1. proc' = [q \in Proc |->
       CASE q = p -> [proc[p] EXCEPT !.state = "ZOMBIE"]
         [] q # p /\ proc[q].parent = p -> [proc[q] EXCEPT !.parent = 1]
         [] OTHER -> proc[q]]
    BY <1>11 DEF exit
  <2>2. proc'[u] = proc[u] \/ proc'[u] = [proc[u] EXCEPT !.parent = 1]
    BY <1>1, <1>11, <2>1, SMT DEF u
  <2>. QED
    BY <1>1, <2>2, StaysIs DEF u
<1>. QED
  BY <1>5, <1>6, <1>7, <1>8, <1>9, <1>10, <1>11 DEF Other

\* The pages that morecore asks for hold the units.
LEMMA GrownRoom ==
  ASSUME NEW b \in Nat, NEW s \in Nat, NEW n \in Nat, NEW u \in Nat, u >= 1, n % u = 0,
         b - 1 + u <= s * u
  PROVE  (b + n) - 1 + u <= (s + n \div u) * u
<1>. DEFINE d == n \div u
<1>1. d \in Nat /\ n = u * d
  BY SMT
<1>. HIDE DEF d
<1>2. (s + d) * u = s * u + u * d
  BY <1>1, SMT
<1>3. s * u \in Nat /\ u * d \in Nat
  BY <1>1, SMT
<1>4. (b + n) - 1 + u <= s * u + u * d
  BY <1>1, <1>3, SMT
<1>. QED
  BY <1>2, <1>4, SMT DEF d

\* No segment is longer than the memory.
LEMMA EndRoom ==
  ASSUME NEW b \in Nat, NEW l \in Nat, NEW np \in Nat, NEW u \in Nat, NEW mu \in Nat,
         l <= np, mu >= (np - 1) * u, b - 1 + u <= l * u
  PROVE  b <= mu + 1
<1>1. l * u <= np * u
  BY SMT
<1>2. (np - 1) * u = np * u - u
  BY SMT
<1>3. np * u \in Nat /\ l * u \in Nat
  BY SMT
<1>. QED
  BY <1>1, <1>2, <1>3, SMT

\* The entry of User.
LEMMA UserEntry ==
  ASSUME KInv
  PROVE  /\ proc \in [Proc -> ProcType] /\ User \in Proc /\ proc[User] \in ProcType
         /\ proc[User].sz \in Nat /\ proc[User].len \in Nat /\ LifeOf(proc[User])
<1>1. MType /\ ProcsOf(proc) /\ User \in Proc
  BY UserIs DEF KInv
<1>2. proc[User] \in ProcType /\ LifeOf(proc[User]) /\ proc \in [Proc -> ProcType]
  BY <1>1, EntryLife DEF MType
<1>. QED
  BY <1>1, <1>2, TypeIs

\* A step of the kernel for someone else, or for User but not for its heap.
LEMMA RoomKept ==
  ASSUME Room, Stays(proc[User], proc'[User]), UNCHANGED heap
  PROVE  Room'
<1>1. brk' = brk /\ call' = call
  BY DEF heap
<1>2. H!morecore_units' = H!morecore_units
  BY <1>1 DEF H!morecore_units
<1>3. proc'[User].sz = proc[User].sz /\ proc'[User].state = proc[User].state
  BY DEF Stays
<1>4. brk' - 1 + UPP <= proc'[User].sz * UPP /\ proc'[User].state = "RUNNING"
  BY <1>1, <1>3 DEF Room
<1>5. proc'[User].pc = "growproc_move" =>
        call'.pc = "sbrk" /\ proc'[User].len = proc'[User].sz + H!morecore_units' \div UPP
  BY <1>1, <1>2, <1>3 DEF Room, Stays
<1>. QED
  BY <1>4, <1>5 DEF Room

\* Steps that leave the heap alone.
LEMMA HStutter ==
  ASSUME HInv, UNCHANGED heap
  PROVE  HInv'
BY DEF HInv, heap

\* A step inside malloc or free, or a call of theirs: the end of the heap
\* stays.
LEMMA ProgramStep ==
  ASSUME HInv, Room,
         \/ \E n \in Requests : H!malloc(n)
         \/ \E bp \in held : H!free(bp)
         \/ H!HStep,
         At(User, "user"), proc' = proc
  PROVE  HInv' /\ Room'
<1>1. HInv'
  BY MallocStep, FreeStepH, FoundStep, NextStep, FreeNextStep, InsertStep DEF H!HStep
<1>2. brk' = brk
  BY DEF H!malloc, H!free, H!HStep, H!malloc_found, H!malloc_next, H!free_next, H!free_insert
<1>3. proc[User].pc = "user" /\ "user" # "growproc_move"
  BY SMT DEF At, Running
<1>4. proc'[User].pc # "growproc_move" /\ proc'[User].state = "RUNNING"
  BY <1>3 DEF Room
<1>5. brk' - 1 + UPP <= proc'[User].sz * UPP
  BY <1>2 DEF Room
<1>. QED
  BY <1>1, <1>4, <1>5 DEF Room

\* morecore calls sbrk.
LEMMA SbrkStep ==
  ASSUME KInv, HInv, Room, morecore_sbrk
  PROVE  HInv' /\ Room'
<1>. DEFINE n == H!morecore_units
            len == proc[User].sz + n \div UPP
            v == kalloc_addr(freelist, len)
<1>1. /\ call.pc = "sbrk" /\ At(User, "user")
      /\ proc' = IF v = 0 THEN proc
                 ELSE [proc EXCEPT ![User].pc = "growproc_move", ![User].seg = v, ![User].len = len]
      /\ IF v = 0 THEN H!morecore_fails ELSE UNCHANGED heap
  BY DEF morecore_sbrk, growproc
<1>2. proc[User].pc # "growproc_move"
  BY <1>1, SMT DEF At, Running
<1>3. CASE v = 0
  <2>1. H!morecore_fails /\ proc' = proc
    BY <1>1, <1>3
  <2>2. brk' = brk
    BY <2>1 DEF H!morecore_fails
  <2>3. brk' - 1 + UPP <= proc'[User].sz * UPP /\ proc'[User].state = "RUNNING"
        /\ proc'[User].pc # "growproc_move"
    BY <1>2, <2>1, <2>2 DEF Room
  <2>. QED
    BY <2>1, <2>3, FailStep DEF Room
<1>4. CASE v # 0
  <2>1. UNCHANGED heap
        /\ proc' = [proc EXCEPT ![User].pc = "growproc_move", ![User].seg = v, ![User].len = len]
    BY <1>1, <1>4
  <2>2. brk' = brk /\ call' = call
    BY <2>1 DEF heap
  <2>3. H!morecore_units' = n
    BY <2>2 DEF H!morecore_units
  <2>. HIDE DEF n, v, len
  <2>4. /\ proc'[User].sz = proc[User].sz /\ proc'[User].state = proc[User].state
        /\ proc'[User].len = len
    <3>1. proc \in [Proc -> ProcType] /\ User \in Proc /\ proc[User] \in ProcType
      BY UserEntry
    <3>. HIDE DEF User
    <3>. QED
      BY <2>1, <3>1, SMT DEF ProcType
  <2>5. brk' - 1 + UPP <= proc'[User].sz * UPP /\ proc'[User].state = "RUNNING"
    BY <2>2, <2>4 DEF Room
  <2>6. call'.pc = "sbrk" /\ proc'[User].len = proc'[User].sz + H!morecore_units' \div UPP
    BY <1>1, <2>2, <2>3, <2>4 DEF len
  <2>7. Room'
    BY <2>5, <2>6 DEF Room
  <2>. QED
    BY <2>1, <2>7, HStutter
<1>. QED
  BY <1>3, <1>4

\* What morecore asks for is whole pages.
LEMMA UnitsIs ==
  ASSUME HInv, call.pc = "sbrk"
  PROVE  /\ H!morecore_units \in Nat /\ H!morecore_units % UPP = 0
         /\ brk \in Nat /\ brk >= 1
<1>1. CallerOf(hdr, freep, call) /\ End(brk)
  BY Pcs, UnderWay, NotIdle
<1>2. call.n \in Requests
  BY <1>1 DEF CallerOf
<1>3. \A m \in Requests \cup {NALLOC} : m \in Nat /\ (m >= NALLOC => m % UPP = 0)
  BY MemoryAssumption, SMT
<1>4. NALLOC \in Nat /\ NALLOC >= NALLOC /\ NALLOC % UPP = 0
  BY <1>3, MemoryAssumption, SMT
<1>5. call.n \in Nat /\ (call.n >= NALLOC => call.n % UPP = 0)
  BY <1>2, <1>3
<1>6. ~(call.n < NALLOC) => call.n >= NALLOC
  BY <1>4, <1>5, SMT
<1>. QED
  BY <1>1, <1>4, <1>5, <1>6 DEF End, H!morecore_units

\* The memory has moved and sbrk returns.
LEMMA ReturnStep ==
  ASSUME KInv, HInv, Room, morecore_returns
  PROVE  HInv' /\ Room'
<1>. DEFINE n == H!morecore_units
            r == proc[User]
<1>1. /\ At(User, "growproc_move") /\ H!morecore
      /\ \E x : proc' = [proc EXCEPT ![User].pc = "user", ![User].seg = 0, ![User].len = 0,
                ![User].mem = proc[User].seg, ![User].sz = proc[User].len, ![User].image = x]
  BY DEF morecore_returns, growproc_move, Replaced
<1>2. /\ proc \in [Proc -> ProcType] /\ User \in Proc /\ r \in ProcType
      /\ r.sz \in Nat /\ r.len \in Nat /\ LifeOf(r)
  BY UserEntry
<1>3. /\ r.pc = "growproc_move" /\ r.state = "RUNNING" /\ call.pc = "sbrk"
      /\ r.len = r.sz + n \div UPP /\ brk - 1 + UPP <= r.sz * UPP
  BY <1>1 DEF At, Running, Room
<1>4. n \in Nat /\ n % UPP = 0 /\ brk \in Nat /\ brk >= 1
  BY <1>3, UnitsIs
<1>5. UPP \in Nat /\ UPP >= 1 /\ MaxUnits \in Nat /\ MaxUnits >= (NPAGES - 1) * UPP /\ NPAGES \in Nat
  BY MemoryAssumption, KallocAssumption, SMT
<1>6. brk' = brk + n
  BY <1>1 DEF H!morecore
<1>. HIDE DEF n
<1>7. (brk + n) - 1 + UPP <= r.len * UPP
  BY <1>2, <1>3, <1>4, <1>5, GrownRoom
<1>8. r.len <= NPAGES
  <2>1. r.len = 0 \/ (r.seg >= 1 /\ r.seg + r.len <= NPAGES + 1)
    BY <1>2 DEF LifeOf, Inside
  <2>2. r.seg \in Nat
    BY <1>2, TypeIs
  <2>. HIDE DEF r
  <2>. QED
    BY <1>2, <1>5, <2>1, <2>2, SMT
<1>9. End(brk + n)
  <2>1. brk + n \in Nat /\ brk + n >= 1
    BY <1>4, SMT
  <2>2. brk + n <= MaxUnits + 1
    BY <1>2, <1>5, <1>7, <1>8, <2>1, EndRoom
  <2>. QED
    BY <2>1, <2>2 DEF End
<1>10. HInv'
  BY <1>1, <1>9, MoreStep DEF n
<1>11. proc'[User].sz = r.len /\ proc'[User].state = r.state /\ proc'[User].pc = "user"
  <2>. HIDE DEF User
  <2>. QED
    BY <1>1, <1>2, SMT DEF ProcType
<1>12. "user" # "growproc_move"
  BY SMT
<1>13. Room'
  BY <1>3, <1>6, <1>7, <1>11, <1>12 DEF Room
<1>. QED
  BY <1>10, <1>13

\* exec gives User a new heap.
LEMMA NewHeapStep ==
  ASSUME KInv, Room, exec_commit(User), NewHeap
  PROVE  HInv' /\ Room'
<1>1. HInv'
  BY NewStep DEF HInv, NewHeap, A, H!Null
<1>2. PICK x : proc' = [proc EXCEPT ![User].pc = "user", ![User].seg = 0, ![User].len = 0,
                ![User].mem = proc[User].seg, ![User].sz = proc[User].len, ![User].image = x]
  BY DEF exec_commit, Replaced
<1>3. proc[User].pc = "exec_load" /\ brk' = 1 /\ proc[User].state = "RUNNING"
  BY DEF exec_commit, At, Running, NewHeap, Room
<1>4. /\ proc \in [Proc -> ProcType] /\ User \in Proc /\ proc[User] \in ProcType
      /\ proc[User].len \in Nat /\ LifeOf(proc[User])
  BY UserEntry
<1>5. proc[User].len >= 1
  <2>1. proc[User].len # 0
    BY <1>3, <1>4, SMT DEF LifeOf, Moving
  <2>. QED
    BY <1>4, <2>1, SMT
<1>6. proc'[User].sz = proc[User].len /\ proc'[User].state = "RUNNING" /\ proc'[User].pc # "growproc_move"
  <2>. HIDE DEF User
  <2>. QED
    BY <1>2, <1>3, <1>4, SMT DEF ProcType
<1>7. 1 - 1 + UPP <= proc[User].len * UPP
  <2>1. ASSUME NEW l \in Nat, l >= 1, NEW u \in Nat PROVE 1 - 1 + u <= l * u
    <3>1. 1 * u <= l * u
      BY <2>1, SMT
    <3>. QED
      BY <3>1, SMT
  <2>2. UPP \in Nat
    BY RequestIs
  <2>. QED
    BY <1>4, <1>5, <2>1, <2>2
<1>8. Room'
  BY <1>3, <1>6, <1>7 DEF Room
<1>. QED
  BY <1>1, <1>8

\* The heap in every step of the system.
LEMMA HNext ==
  ASSUME FirstFinds, KInv, HInv, Room, [Next]_allvars
  PROVE  HInv' /\ Room'
<1>1. CASE program \/ program_step
  <2>1. proc' = proc
    BY <1>1 DEF program, program_step, vars
  <2>. QED
    BY <1>1, <2>1, ProgramStep DEF program, program_step
<1>2. ASSUME NEW p \in Proc, Other(p) \/ (p # User /\ (exec_commit(p) \/ exit(p))), UNCHANGED heap
      PROVE  HInv' /\ Room'
  <2>1. Stays(proc[User], proc'[User])
    BY <1>2, UserStays DEF Room
  <2>. QED
    BY <1>2, <2>1, RoomKept, HStutter
<1>3. CASE UNCHANGED allvars \/ halted
  <2>1. UNCHANGED heap /\ proc' = proc
    BY <1>3 DEF allvars, heap, halted
  <2>2. Stays(proc[User], proc'[User])
    BY <2>1, UserEntry, StaysIs
  <2>. QED
    BY <2>1, <2>2, RoomKept, HStutter
<1>. QED
  BY <1>1, <1>2, <1>3, SbrkStep, ReturnStep, NewHeapStep DEF Next

\* A new program has an empty heap and a page.
LEMMA HStart ==
  ASSUME Init_
  PROVE  HInv /\ Room
<1>1. HInv
  BY NewStep DEF HInv, Init_, H!HInit, A, H!Null
<1>2. proc[User].sz = 1 /\ proc[User].state = "RUNNING" /\ proc[User].pc = "user"
  <2>. DEFINE fl0 == kfree(<<>>, 1, NPAGES)
              fl1 == kalloc_list(fl0, KSTACKSIZE)
              mem == kalloc_addr(fl1, 1)
              st == kalloc_addr(fl0, KSTACKSIZE)
  <2>1. proc = [p \in Proc |->
          IF p = 1
          THEN [Unused EXCEPT !.state = "RUNNING", !.mem = mem, !.sz = 1,
                  !.kstack = st, !.image = <<"text">>]
          ELSE Unused]
    BY DEF Init_, Init
  <2>. HIDE DEF fl0, fl1, mem, st
  <2>2. proc[1] = [Unused EXCEPT !.state = "RUNNING", !.mem = mem, !.sz = 1,
                  !.kstack = st, !.image = <<"text">>]
    BY <2>1, KallocAssumption, SMT
  <2>. QED
    BY <2>2, SMT DEF User, Unused
<1>3. brk = 1 /\ UPP \in Nat
  BY RequestIs DEF Init_, H!HInit
<1>4. 1 - 1 + UPP <= 1 * UPP /\ "user" # "growproc_move"
  BY <1>3, SMT
<1>5. Room
  BY <1>2, <1>3, <1>4 DEF Room
<1>. QED
  BY <1>1, <1>5

(* The ring of the properties is the set of the free blocks *)

\* A set of numbers has a least one.
LEMMA LeastIs ==
  ASSUME FirstFinds, NEW S, S \subseteq Nat, S # {}
  PROVE  \E x \in S : \A y \in S : ~(y < x)
<1>1. First(S) \in S /\ \A y \in S : First(S) <= y
  BY DEF FirstFinds
<1>2. ASSUME NEW y \in S PROVE ~(y < First(S))
  <2>1. y \in Nat /\ First(S) \in Nat /\ First(S) <= y
    BY <1>1
  <2>. QED
    BY <2>1, SMT
<1>. QED
  BY <1>1, <1>2

\* A set of free blocks with base that a walk does not leave.
Walked(h, S) == S \subseteq FreeOf(h) /\ 0 \in S /\ \A b \in S : h[b].ptr \in S

\* A set of blocks with base that a walk does not leave has them all.
LEMMA WalkAll ==
  ASSUME FirstFinds, NEW h, CircleOf(h), NEW S, Walked(h, S)
  PROVE  FreeOf(h) \subseteq S
<1>. DEFINE F == FreeOf(h)
<1>1. /\ F \subseteq Nat /\ 0 \in F
      /\ \A a \in F : Follows(F, a, h[a].ptr)
  BY FreeIs DEF CircleOf
<1>. HIDE DEF F
<1>w. 0 \in S /\ (\A b \in S : h[b].ptr \in S) /\ S \subseteq F
  BY DEF Walked, F
<1>2. SUFFICES ASSUME F \ S # {} PROVE FALSE
  BY DEF F
<1>3. PICK c \in F \ S : \A y \in F \ S : ~(y < c)
  <2>1. F \ S \subseteq Nat
    BY <1>1
  <2>. QED
    BY <1>2, <2>1, LeastIs
<1>. DEFINE T == {d \in F : d < c}
            G == {c - d : d \in T}
<1>4. c \in Nat /\ c # 0 /\ c \in F /\ c \notin S
  BY <1>1, <1>3, <1>w
<1>5. 0 \in T
  BY <1>1, <1>4, SMT
<1>6. \A d \in T : d \in S /\ d \in Nat /\ d < c /\ d \in F
  BY <1>1, <1>3
<1>7. PICK d \in T : \A y \in T : ~(c - y < c - d)
  <2>1. G \subseteq Nat
    BY <1>4, <1>6, SMT
  <2>2. G # {}
    BY <1>5
  <2>3. PICK x \in G : \A y \in G : ~(y < x)
    <3>. HIDE DEF G
    <3>. QED
      BY <2>1, <2>2, LeastIs
  <2>. QED
    BY <2>3
<1>. HIDE DEF T
<1>. DEFINE n == h[d].ptr
<1>8. d \in S /\ d \in Nat /\ d < c /\ d \in F /\ n \in S /\ Follows(F, d, n)
  BY <1>1, <1>6, <1>7, <1>w
<1>. HIDE DEF n
<1>9. n \in F /\ n \in Nat /\ n # c
  BY <1>1, <1>4, <1>8, <1>w
<1>10. n > d /\ n <= c
  <2>1. CASE n > d /\ \A e \in F : e > d => n <= e
    <3>1. c > d
      BY <1>4, <1>8, SMT
    <3>. QED
      BY <1>4, <2>1, <3>1
  <2>2. CASE n = 0 /\ \A e \in F : e <= d
    <3>1. c <= d
      BY <1>4, <2>2
    <3>. QED
      BY <1>4, <1>8, <3>1, SMT
  <2>. QED
    BY <1>8, <2>1, <2>2 DEF Follows
<1>11. n \in T
  <2>1. n < c
    BY <1>4, <1>9, <1>10, SMT
  <2>. QED
    BY <1>9, <2>1 DEF T
<1>12. c - n < c - d
  BY <1>4, <1>8, <1>9, <1>10, SMT
<1>. QED
  BY <1>7, <1>11, <1>12

\* A walk from base reaches the free blocks, all of them.
LEMMA RingIs ==
  ASSUME FirstFinds, CircleOf(hdr)
  PROVE  H!Ring = FreeOf(hdr)
<1>. DEFINE F == FreeOf(hdr)
            L == H!Linked
<1>1. /\ F \subseteq A /\ 0 \in F /\ -1 \notin A /\ 0 \in A
      /\ \A a \in A : a \in F <=> hdr[a].ptr # -1
      /\ \A a \in F : hdr[a].ptr \in F
  BY FreeIs, AddrIs DEF CircleOf
<1>2. \A x : x \in L <=> x # -1 /\ (x = 0 \/ \E a \in A : x = hdr[a].ptr)
  BY DEF H!Linked, H!base, H!Null, A
<1>. HIDE DEF L, F
<1>3. L \subseteq F /\ 0 \in L
  <2>1. 0 # -1
    BY SMT
  <2>2. ASSUME NEW a \in A, hdr[a].ptr # -1 PROVE hdr[a].ptr \in F
    BY <1>1, <2>2
  <2>3. ASSUME NEW x \in L PROVE x \in F
    <3>1. x = 0 \/ \E a \in A : x = hdr[a].ptr /\ hdr[a].ptr # -1
      BY <1>2
    <3>. QED
      BY <1>1, <2>2, <3>1
  <2>4. 0 \in L
    BY <1>2, <2>1
  <2>. QED
    BY <2>3, <2>4
<1>4. \A b \in L : hdr[b].ptr \in L
  BY <1>1, <1>2, <1>3
<1>5. L = F
  <2>1. F \subseteq L
    <3>1. Walked(hdr, L)
      BY <1>3, <1>4 DEF Walked, F
    <3>. QED
      BY <3>1, WalkAll DEF F
  <2>. QED
    BY <1>3, <2>1
<1>6. ASSUME NEW a \in F, NEW S \in SUBSET L, 0 \in S, \A b \in S : hdr[b].ptr \in S \cup {-1}
      PROVE  a \in S
  <2>1. \A b \in S : hdr[b].ptr \in S
    BY <1>1, <1>3, <1>6
  <2>2. F \subseteq S
    <3>1. Walked(hdr, S)
      BY <1>3, <1>6, <2>1 DEF Walked, F
    <3>. QED
      BY <3>1, WalkAll DEF F
  <2>. QED
    BY <2>2
<1>7. H!Ring = {a \in L : \A S \in SUBSET L : 0 \in S /\ (\A b \in S : hdr[b].ptr \in S \cup {-1}) => a \in S}
  BY DEF H!Ring, L, H!base, H!Null
<1>8. \A a : a \in H!Ring <=> a \in F
  BY <1>5, <1>6, <1>7
<1>. QED
  BY <1>8 DEF F

\* The invariant implies RingCombined.
LEMMA RingHolds ==
  ASSUME FirstFinds, HInv
  PROVE  RingCombined
<1>1. SUFFICES ASSUME freep # -1
               PROVE  /\ freep \in H!Ring
                      /\ \A a \in H!Ring : hdr[a].ptr = 0 \/ a + hdr[a].size < hdr[a].ptr
  BY DEF RingCombined, H!RingCombined, H!base, H!Null
<1>2. HeapOf(hdr, brk, held, FreeingOf(call)) /\ GapsOf(hdr, {}) /\ CallerOf(hdr, freep, call)
  BY <1>1 DEF HInv, HOf
<1>3. H!Ring = FreeOf(hdr)
  BY <1>2, RingIs DEF HeapOf
<1>. QED
  BY <1>2, <1>3 DEF CallerOf, GapsOf, GapAt

\* The invariant implies HeapPartitioned.
LEMMA PartitionHolds ==
  ASSUME FirstFinds, HInv
  PROVE  HeapPartitioned
<1>. DEFINE B == BlocksOf(hdr, held, FreeingOf(call))
<1>1. SUFFICES ASSUME freep # -1
               PROVE  LET blocks == H!Ring \cup held \cup FreeingOf(call)
                      IN /\ H!Ring \cap held = {}
                         /\ UNION {H!Units(a) : a \in blocks} = 1..(brk - 1)
                         /\ \A a, b \in blocks : a # b => H!Units(a) \cap H!Units(b) = {}
  BY DEF HeapPartitioned, H!HeapPartitioned, H!Null, FreeingOf
<1>2. HeapOf(hdr, brk, held, FreeingOf(call))
  BY <1>1 DEF HInv, HOf
<1>3. H!Ring = FreeOf(hdr)
  BY <1>2, RingIs DEF HeapOf
<1>4. H!Ring \cup held \cup FreeingOf(call) = B \cup {0}
  BY <1>2, <1>3 DEF BlocksOf, HeapOf, CircleOf
<1>5. BlockedOf(hdr, brk, B) /\ held \cap FreeOf(hdr) = {} /\ hdr[0].size = 0
  BY <1>2 DEF HeapOf, CircleOf
<1>. HIDE DEF B
<1>6. /\ brk \in Nat /\ brk >= 1
      /\ \A a \in B : BlockOK(hdr, brk, a)
      /\ \A a, b \in B : Apart(hdr, a, b)
      /\ \A u \in 1..(brk - 1) : \E a \in B : In(hdr, a, u)
  BY <1>5 DEF BlockedOf
<1>7. H!Units(0) = {}
  BY <1>5, SMT DEF H!Units
<1>8. ASSUME NEW a \in B
      PROVE  /\ \A u : u \in H!Units(a) <=> u \in Int /\ In(hdr, a, u)
             /\ H!Units(a) \subseteq 1..(brk - 1)
  <2>1. a \in Nat /\ a >= 1 /\ hdr[a].size \in Nat /\ hdr[a].size >= 1 /\ a + hdr[a].size <= brk
    BY <1>6 DEF BlockOK
  <2>. DEFINE s == hdr[a].size
  <2>2. H!Units(a) = a..(a + s - 1) /\ \A u : In(hdr, a, u) <=> a <= u /\ u < a + s
    BY DEF H!Units, In
  <2>3. s \in Nat /\ s >= 1 /\ a + s <= brk
    BY <2>1, SMT
  <2>. HIDE DEF s
  <2>4. /\ \A u : u \in a..(a + s - 1) <=> u \in Int /\ a <= u /\ u < a + s
        /\ a..(a + s - 1) \subseteq 1..(brk - 1)
    BY <1>6, <2>1, <2>3, SMT
  <2>. QED
    BY <2>2, <2>4
<1>9. UNION {H!Units(a) : a \in B \cup {0}} = 1..(brk - 1)
  <2>1. ASSUME NEW u \in 1..(brk - 1) PROVE \E a \in B \cup {0} : u \in H!Units(a)
    <3>1. u \in Int
      BY SMT
    <3>. QED
      BY <1>6, <1>8, <3>1
  <2>2. ASSUME NEW a \in B \cup {0}, NEW u \in H!Units(a) PROVE u \in 1..(brk - 1)
    BY <1>7, <1>8
  <2>. QED
    BY <2>1, <2>2
<1>10. ASSUME NEW a \in B \cup {0}, NEW b \in B \cup {0}, a # b
       PROVE  H!Units(a) \cap H!Units(b) = {}
  <2>1. CASE a \in B /\ b \in B
    <3>1. SUFFICES ASSUME NEW u, u \in H!Units(a), u \in H!Units(b) PROVE FALSE
      OBVIOUS
    <3>2. u \in Int /\ In(hdr, a, u) /\ In(hdr, b, u)
      BY <1>8, <2>1, <3>1
    <3>3. Apart(hdr, a, b) /\ Apart(hdr, b, a) /\ BlockOK(hdr, brk, a) /\ BlockOK(hdr, brk, b)
      BY <1>6, <2>1
    <3>. QED
      BY <1>10, <3>2, <3>3, SMT DEF Apart, In, BlockOK
  <2>. QED
    BY <1>7, <2>1
<1>. QED
  BY <1>3, <1>4, <1>5, <1>9, <1>10

(* The properties of the kernel's memory *)

\* The invariant implies FreeListCombined.
LEMMA ListHolds ==
  ASSUME KInv
  PROVE  FreeListCombined
<1>2. ListOK(freelist) /\ panicked = FALSE
  BY DEF KInv, MType
<1>3. Len(freelist) \in Nat
  BY <1>2, SMT DEF ListOK
<1>4. ASSUME NEW k \in 1..(Len(freelist) - 1)
      PROVE  freelist[k].p + freelist[k].len < freelist[k + 1].p
  <2>1. k \in 1..Len(freelist) /\ k + 1 \in 1..Len(freelist) /\ k < k + 1
    BY <1>3, SMT
  <2>. QED
    BY <1>2, <2>1 DEF ListOK
<1>. QED
  BY <1>2, <1>4 DEF FreeListCombined

\* The invariant implies MemoryKept.
LEMMA KeptHolds == KInv => MemoryKept
BY DEF KInv, KeptOf, ImageAt, MemoryKept, Loaded

\* kalloc(n) fails only if there are no n free pages in a row.
KallocFinds ==
  ~Stopped => \A n \in Nat \ {0}, v \in Nat :
    Pages(v, n) \subseteq FreeSet(freelist) => kalloc_addr(freelist, n) # 0

\* The invariant implies KallocFinds.
LEMMA FindsHolds ==
  ASSUME FirstFinds, KInv
  PROVE  KallocFinds
<1>1. SUFFICES ASSUME NEW n \in Nat \ {0}, NEW v \in Nat, Pages(v, n) \subseteq FreeSet(freelist)
               PROVE  kalloc_addr(freelist, n) # 0
  BY DEF KallocFinds
<1>2. NPAGES \in Nat /\ ListOK(freelist) /\ n \in Nat /\ n > 0
  BY <1>1, KallocAssumption, SMT DEF KInv, MType
<1>3. \A a \in Pages(v, n) : FreeAt(freelist, a)
  BY <1>1 DEF FreeSet
<1>. QED
  BY <1>2, <1>3, AllocatorHolds DEF Allocator, KallocServes

\* The cardinalities of a set without elements and of one with one element.
Counts ==
  /\ \A S : (\A x \in S : FALSE) => Cardinality(S) = 0
  /\ \A S : \A x \in S : (\A y \in S : y = x) => Cardinality(S) = 1

\* The invariant implies PagesOwnedOnce.
LEMMA OwnedHolds ==
  ASSUME Counts, KInv
  PROVE  PagesOwnedOnce
<1>CountNone. \A S : (\A x \in S : FALSE) => Cardinality(S) = 0
  BY DEF Counts
<1>CountOne. \A S : \A x \in S : (\A y \in S : y = x) => Cardinality(S) = 1
  BY DEF Counts
<1>. SUFFICES ASSUME NEW a \in Page
     PROVE  Cardinality({k \in DOMAIN freelist : a \in Pages(freelist[k].p, freelist[k].len)})
            + Cardinality({p \in Proc : a \in Pages(proc[p].mem, proc[p].sz)})
            + Cardinality({p \in Proc : a \in Pages(proc[p].seg, proc[p].len)})
            + Cardinality({p \in Proc : a = proc[p].kstack})
            + Cardinality(pipes \cap {a}) = 1
  BY DEF PagesOwnedOnce
<1>. DEFINE F == {k \in DOMAIN freelist : a \in Pages(freelist[k].p, freelist[k].len)}
            M == {p \in Proc : a \in Pages(proc[p].mem, proc[p].sz)}
            S == {p \in Proc : a \in Pages(proc[p].seg, proc[p].len)}
            K == {p \in Proc : a = proc[p].kstack}
            P == pipes \cap {a}
<1>1. PICK own : OwnOf(own, freelist, proc, pipes)
  BY DEF KInv
<1>2. own[a] \in Owner
  BY <1>1 DEF OwnOf
<1>3. /\ \A p \in Proc : p \in M <=> own[a] = HMem(p)
      /\ \A p \in Proc : p \in S <=> own[a] = HSeg(p)
      /\ \A p \in Proc : p \in K <=> own[a] = HStack(p)
  BY <1>1 DEF OwnOf, Holds
<1>4. /\ a \in P <=> own[a] = HPipe
      /\ \A x \in P : x = a
  BY <1>1 DEF OwnOf, Holds
<1>5. ListOK(freelist) /\ NPAGES \in Nat
  BY KallocAssumption DEF KInv, MType
<1>6. DOMAIN freelist = 1..Len(freelist) /\ \A k \in 1..Len(freelist) : RunOK(freelist[k])
  BY <1>5, ListSorted, ListElement, SortedRun
<1>7. \A k \in 1..Len(freelist) : a \in Pages(freelist[k].p, freelist[k].len) <=> InRun(freelist[k], a)
  <2>1. ASSUME NEW r, RunOK(r) PROVE a \in Pages(r.p, r.len) <=> InRun(r, a)
    BY <2>1, SMT DEF RunOK, Pages, InRun, Page
  <2>. QED
    BY <1>6, <2>1
<1>8. \A k \in F : k \in 1..Len(freelist) /\ InRun(freelist[k], a)
  BY <1>6, <1>7
<1>9. (\E k \in F : TRUE) <=> own[a] = HFree
  <2>1. FreeAt(freelist, a) <=> own[a] = HFree
    BY <1>1 DEF OwnOf, Holds, FreeSet
  <2>. QED
    BY <1>6, <1>7, <1>8, <2>1 DEF FreeAt
<1>10. \A j, k \in F : j = k
  <2>1. SUFFICES ASSUME NEW j \in F, NEW k \in F, j # k PROVE FALSE
    OBVIOUS
  <2>2. j \in 1..Len(freelist) /\ k \in 1..Len(freelist) /\ InRun(freelist[j], a)
        /\ InRun(freelist[k], a) /\ RunOK(freelist[j]) /\ RunOK(freelist[k])
    BY <1>6, <1>8
  <2>3. j < k \/ k < j
    BY <2>1, <2>2, SMT
  <2>4. ASSUME NEW r, NEW s, RunOK(r), RunOK(s), InRun(r, a), InRun(s, a)
        PROVE  ~(r.p + r.len < s.p)
    BY <2>4, SMT DEF RunOK, InRun, Page
  <2>5. /\ j < k => freelist[j].p + freelist[j].len < freelist[k].p
        /\ k < j => freelist[k].p + freelist[k].len < freelist[j].p
    BY <1>5, <2>2 DEF ListOK
  <2>. QED
    BY <2>2, <2>3, <2>4, <2>5
<1>. HIDE DEF F, M, S, K, P
<1>11. /\ M \subseteq Proc /\ S \subseteq Proc /\ K \subseteq Proc /\ P \subseteq {a}
  BY DEF M, S, K, P
<1>12. Cardinality(F) + Cardinality(M) + Cardinality(S) + Cardinality(K) + Cardinality(P) = 1
  <2>o. \A p, q : /\ HMem(p) # HSeg(q) /\ HMem(p) # HStack(q) /\ HSeg(p) # HStack(q)
                  /\ HMem(p) # HFree /\ HSeg(p) # HFree /\ HStack(p) # HFree
                  /\ HMem(p) # HPipe /\ HSeg(p) # HPipe /\ HStack(p) # HPipe
                  /\ HMem(p) = HMem(q) => p = q
                  /\ HSeg(p) = HSeg(q) => p = q
                  /\ HStack(p) = HStack(q) => p = q
    BY OwnersDiffer
  <2>0. 1 + 0 + 0 + 0 + 0 = 1 /\ 0 + 1 + 0 + 0 + 0 = 1 /\ 0 + 0 + 1 + 0 + 0 = 1
        /\ 0 + 0 + 0 + 1 + 0 = 1 /\ 0 + 0 + 0 + 0 + 1 = 1
    BY SMT
  <2>f. own[a] # HFree => Cardinality(F) = 0
    BY <1>9, <1>CountNone
  <2>p. own[a] # HPipe => Cardinality(P) = 0
    BY <1>4, <1>CountNone
  <2>m. (\A p \in Proc : own[a] # HMem(p)) => Cardinality(M) = 0
    BY <1>3, <1>11, <1>CountNone
  <2>s. (\A p \in Proc : own[a] # HSeg(p)) => Cardinality(S) = 0
    BY <1>3, <1>11, <1>CountNone
  <2>k. (\A p \in Proc : own[a] # HStack(p)) => Cardinality(K) = 0
    BY <1>3, <1>11, <1>CountNone
  <2>1. CASE own[a] = HFree
    <3>1. Cardinality(F) = 1
      <4>1. PICK k \in F : TRUE
        BY <1>9, <2>1
      <4>. QED
        BY <1>10, <4>1, <1>CountOne
    <3>2. Cardinality(M) = 0 /\ Cardinality(S) = 0 /\ Cardinality(K) = 0 /\ Cardinality(P) = 0
      BY <2>1, <2>o, <2>p, <2>m, <2>s, <2>k, OwnersDiffer
    <3>. QED
      BY <2>0, <3>1, <3>2
  <2>2. CASE own[a] = HPipe
    <3>1. Cardinality(P) = 1
      BY <1>4, <2>2, <1>CountOne
    <3>2. Cardinality(M) = 0 /\ Cardinality(S) = 0 /\ Cardinality(K) = 0 /\ Cardinality(F) = 0
      BY <2>2, <2>o, <2>f, <2>m, <2>s, <2>k, OwnersDiffer
    <3>. QED
      BY <2>0, <3>1, <3>2
  <2>3. ASSUME NEW p \in Proc, own[a] = HMem(p)
        PROVE  Cardinality(F) + Cardinality(M) + Cardinality(S) + Cardinality(K) + Cardinality(P) = 1
    <3>1. Cardinality(M) = 1
      <4>1. p \in M /\ \A q \in M : q = p
        BY <1>3, <1>11, <2>3, <2>o
      <4>. QED
        BY <4>1, <1>CountOne
    <3>2. Cardinality(F) = 0 /\ Cardinality(S) = 0 /\ Cardinality(K) = 0 /\ Cardinality(P) = 0
      BY <2>3, <2>o, <2>p, <2>f, <2>s, <2>k
    <3>. QED
      BY <2>0, <3>1, <3>2
  <2>4. ASSUME NEW p \in Proc, own[a] = HSeg(p)
        PROVE  Cardinality(F) + Cardinality(M) + Cardinality(S) + Cardinality(K) + Cardinality(P) = 1
    <3>1. Cardinality(S) = 1
      <4>1. p \in S /\ \A q \in S : q = p
        BY <1>3, <1>11, <2>4, <2>o
      <4>. QED
        BY <4>1, <1>CountOne
    <3>2. Cardinality(F) = 0 /\ Cardinality(M) = 0 /\ Cardinality(K) = 0 /\ Cardinality(P) = 0
      BY <2>4, <2>o, <2>p, <2>f, <2>m, <2>k
    <3>. QED
      BY <2>0, <3>1, <3>2
  <2>5. ASSUME NEW p \in Proc, own[a] = HStack(p)
        PROVE  Cardinality(F) + Cardinality(M) + Cardinality(S) + Cardinality(K) + Cardinality(P) = 1
    <3>1. Cardinality(K) = 1
      <4>1. p \in K /\ \A q \in K : q = p
        BY <1>3, <1>11, <2>5, <2>o
      <4>. QED
        BY <4>1, <1>CountOne
    <3>2. Cardinality(F) = 0 /\ Cardinality(M) = 0 /\ Cardinality(S) = 0 /\ Cardinality(P) = 0
      BY <2>5, <2>o, <2>p, <2>f, <2>m, <2>s
    <3>. QED
      BY <2>0, <3>1, <3>2
  <2>. QED
    BY <1>2, <2>1, <2>2, <2>3, <2>4, <2>5 DEF Owner
<1>. QED
  BY <1>12 DEF F, M, S, K, P

(* The theorems *)

LOCAL INSTANCE WellFoundedInduction

\* Every set of numbers that is not empty has a least one, and First is that one.
LEMMA FirstIs ==
  ASSUME NEW S, S \subseteq Nat
  PROVE  \/ S = {} /\ First(S) = 0
         \/ First(S) \in S /\ \A j \in S : First(S) <= j
<1>1. CASE S = {}
  BY <1>1, SMT DEF First
<1>2. CASE S # {}
  <2>1. PICK x \in S : \A y \in S : <<y, x>> \notin OpToRel(<, Nat)
    BY <1>2, WFMin, NatLessThanWellFounded
  <2>2. \A y \in S : ~(y < x)
    BY <2>1 DEF OpToRel
  <2>3. \A y \in S : x <= y
    BY <2>2, SMT
  <2>4. First(S) = CHOOSE k \in S : \A j \in S : k <= j
    BY <1>2 DEF First
  <2>. QED
    BY <2>3, <2>4
<1>. QED
  BY <1>1, <1>2

\* A search finds the first of the places that would end it.
LEMMA FirstHolds == FirstFinds
BY FirstIs DEF FirstFinds

INSTANCE FiniteSetTheorems

\* The cardinalities of small sets.
LEMMA CountIs == Counts
<1>1. ASSUME NEW S, \A x \in S : FALSE PROVE Cardinality(S) = 0
  <2>1. S = {}
    BY <1>1
  <2>. QED
    BY <2>1, FS_EmptySet
<1>2. ASSUME NEW S, NEW x \in S, \A y \in S : y = x PROVE Cardinality(S) = 1
  <2>1. S = {x}
    BY <1>2
  <2>. QED
    BY <2>1, FS_Singleton
<1>. QED
  BY <1>1, <1>2 DEF Counts

\* The kernel's memory is as its invariant says, in every step of the kernel and
\* of the program.
\* Only the second kfree of the page of a pipe ends that.
THEOREM KInvHolds == Spec => []((KInv \/ Halted) /\ ClosingOK /\ CallOK)
<1>. DEFINE Inv == (KInv \/ Halted) /\ ClosingOK /\ CallOK
<1>1. Init_ => Inv
  <2>1. Init_ => KInv
    BY FirstHolds, KStart DEF Init_
  <2>2. Init_ => CallOK
    BY IdleOK DEF Init_, H!HInit, CallOK
  <2>3. Init_ => ClosingOK
    BY SMT DEF Init_, Init, ClosingOK, NotClosing
  <2>. QED
    BY <2>1, <2>2, <2>3
<1>2. Inv /\ [Next]_allvars => Inv'
  <2>. SUFFICES ASSUME Inv, [Next]_allvars PROVE Inv'
    OBVIOUS
  <2>1. CASE KInv
    <3>1. pipes \subseteq Page
      BY <2>1 DEF KInv, MType
    <3>. QED
      BY <2>1, <3>1, FirstHolds, KNext, ClosingStep
  <2>2. CASE Halted
    <3>1. UNCHANGED allvars
      BY <2>2, StoppedStays DEF Halted
    <3>2. closing' = closing /\ panicked' = panicked /\ call' = call
      BY <3>1 DEF allvars
    <3>3. Halted' /\ ClosingOK'
      BY <2>2, <3>2 DEF Halted, Stopped, ClosingOK
    <3>4. CallOK'
      BY <3>2 DEF CallOK
    <3>. QED
      BY <3>3, <3>4
  <2>. QED
    BY <2>1, <2>2
<1>. QED
  BY <1>1, <1>2, PTL DEF Spec

\* The heap of User is as its invariant says and fits into User's memory.
THEOREM HInvHolds == Spec => [](HInv /\ Room)
<1>1. Init_ => HInv /\ Room
  BY HStart
<1>2. (KInv \/ Halted) /\ HInv /\ Room /\ [Next]_allvars => (HInv /\ Room)'
  <2>1. ASSUME KInv, HInv, Room, [Next]_allvars PROVE (HInv /\ Room)'
    BY <2>1, FirstHolds, HNext
  <2>2. ASSUME Halted, HInv, Room, [Next]_allvars PROVE (HInv /\ Room)'
    <3>1. UNCHANGED allvars
      BY <2>2, StoppedStays DEF Halted
    <3>2. UNCHANGED heap /\ proc' = proc
      BY <3>1 DEF allvars, heap
    <3>3. Stays(proc[User], proc'[User])
      BY <3>2 DEF Stays
    <3>. QED
      BY <2>2, <3>2, <3>3, RoomKept, HStutter
  <2>. QED
    BY <2>1, <2>2
<1>. QED
  BY <1>1, <1>2, KInvHolds, PTL DEF Spec

\* Every page has exactly one owner, on every path of fork, exec, sbrk, exit, wait
\* and pipe in proc.c, exec.c and pipe.c, up to the second of two racing kfrees of
\* the page of a pipe.
THEOREM PagesOwnedOnceHolds == Spec => []PagesOwnedOnce
<1>1. KInv \/ Halted => PagesOwnedOnce
  BY CountIs, OwnedHolds DEF Halted, PagesOwnedOnce
<1>. QED
  BY <1>1, KInvHolds, PTL

\* The list of kalloc.c stays sorted, no two of its runs touch, and no kfree panics
\* but that of the second of two racing pipecloses.
THEOREM FreeListCombinedHolds == Spec => []FreeListCombined
<1>1. KInv \/ Halted => FreeListCombined
  BY ListHolds DEF Halted, FreeListCombined
<1>. QED
  BY <1>1, KInvHolds, PTL

\* What a process has in its memory is what it put there, although growproc, exec
\* and copyproc move and copy it while others allocate and free, up to the second
\* of two racing kfrees of the page of a pipe.
THEOREM MemoryKeptHolds == Spec => []MemoryKept
<1>1. KInv \/ Halted => MemoryKept
  BY KeptHolds DEF Halted, MemoryKept
<1>. QED
  BY <1>1, KInvHolds, PTL

\* kalloc(n) of kalloc.c fails only if there are no n free pages in a row.
THEOREM KallocFindsHolds == Spec => []KallocFinds
<1>1. KInv \/ Halted => KallocFinds
  BY FirstHolds, FindsHolds DEF Halted, KallocFinds
<1>. QED
  BY <1>1, KInvHolds, PTL

\* The free blocks of umalloc.c, the blocks of the program and the block that
\* free() is about to put back divide what sbrk gave, with no overlap and no gap.
THEOREM HeapPartitionedHolds == Spec => []HeapPartitioned
<1>1. HInv => HeapPartitioned
  BY FirstHolds, PartitionHolds
<1>. QED
  BY <1>1, HInvHolds, PTL

\* free() of umalloc.c joins neighbours: no two blocks on the ring touch.
THEOREM RingCombinedHolds == Spec => []RingCombined
<1>1. HInv => RingCombined
  BY FirstHolds, RingHolds
<1>. QED
  BY <1>1, HInvHolds, PTL
=============================================================================
