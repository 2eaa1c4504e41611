----------------------------- MODULE PipeProofs -----------------------------
(***************************************************************************)
(* For any processes, any PIPESIZE and any UINT that is a multiple of it:  *)
(* the ring buffer of pipe.c is a bounded FIFO queue, although its indices *)
(* wrap around, and the page of the pipe is freed exactly when nobody can  *)
(* use it any more.                                                        *)
(***************************************************************************)
EXTENDS Pipe, TLAPS, SequenceTheorems

Label == {"user", "acquire", "test", "copy", "sleep", "on_readp", "on_writep"}
         \cup Closed

TypeOK ==
    /\ readopen \in BOOLEAN /\ writeopen \in BOOLEAN
    /\ writep \in 0 .. UINT - 1 /\ readp \in 0 .. UINT - 1
    /\ data \in [0 .. PIPESIZE - 1 -> Byte]
    /\ pc \in [Proc -> Label]
    /\ kfrees \in Nat
    /\ out \in Byte

\* The pipe holds no more than PIPESIZE bytes.
RingInv == Count <= PIPESIZE

\* The processes that have passed the critical section of pipeclose().
Past == {"last", "kfree", "panic", "gone"}

\* One end of the pipe, which the processes in End hold, each at some label: it
\* is open until one of them has passed pipeclose(), and only the last one to
\* close it goes there.
EndInv(End, open, at) ==
    /\ open <=> \E p \in End : at[p] \notin Past
    /\ \A p \in End : at[p] \in Closed \ {"gone"} =>
          \A q \in End \ {p} : at[q] = "gone"

\* All processes that hold one end have left.
AllGone(End) == \A p \in End : pc[p] = "gone"

\* Both ends closed and the page not yet freed: somebody is about to do it.
\* Who has freed it has left, and with it everybody at its end.
FreeInv ==
    /\ \A p \in Proc : pc[p] = "kfree" => ~readopen /\ ~writeopen
    /\ kfrees > 0 => ~readopen /\ ~writeopen
    /\ ~readopen /\ ~writeopen /\ kfrees = 0 =>
          \E p \in Proc : pc[p] \in {"last", "kfree"}
    /\ kfrees > 0 => AllGone(Reader) \/ AllGone(Writer)
    /\ kfrees > 1 => kfrees = 2 /\ \A p \in Proc : Left(p)

IInv ==
    /\ TypeOK /\ RingInv
    /\ EndInv(Reader, readopen, pc) /\ EndInv(Writer, writeopen, pc)
    /\ FreeInv
-----------------------------------------------------------------------------
\* Remainders are unique.
LEMMA ModUnique ==
    ASSUME NEW b \in Nat \ {0}, NEW k \in Int, NEW r \in 0 .. b - 1
    PROVE  (b * k + r) % b = r
OBVIOUS

\* A number is a multiple of b and its remainder.
LEMMA ModSplit ==
    ASSUME NEW a \in Int, NEW b \in Nat \ {0}
    PROVE  /\ a % b \in 0 .. b - 1 /\ a % b \in Int
           /\ \E k \in Int : a = b * k + (a % b)
<1>1. a % b \in 0 .. b - 1 /\ a % b \in Int
  OBVIOUS
<1>2. a \div b \in Int
  OBVIOUS
<1>3. a = b * (a \div b) + (a % b)
  OBVIOUS
<1>. QED
  BY <1>1, <1>2, <1>3, Zenon

\* A product distributes over a sum, and associates.
LEMMA Product ==
    ASSUME NEW b \in Int, NEW k \in Int, NEW m \in Int
    PROVE  /\ b * (k + m) = b * k + b * m
           /\ b * (m - k) = b * m - b * k
           /\ b * k \in Int /\ b * m \in Int
OBVIOUS

\* A multiple of b does not change the remainder.
LEMMA ModShift ==
    ASSUME NEW a \in Int, NEW b \in Nat \ {0}, NEW k \in Int
    PROVE  (a + b * k) % b = a % b
<1>1. PICK m \in Int : a = b * m + (a % b)
  BY ModSplit, Zenon
<1>2. a % b \in 0 .. b - 1 /\ m + k \in Int
  BY ModSplit
<1>3. b * (m + k) = b * m + b * k /\ b * m \in Int /\ b * k \in Int
  BY Product
<1>4. a + b * k = b * (m + k) + (a % b)
  BY <1>1, <1>2, <1>3
<1>5. (b * (m + k) + (a % b)) % b = a % b
  BY <1>2, ModUnique, Zenon
<1>. QED
  BY <1>4, <1>5, Zenon

\* Remainders may be taken before a sum.
LEMMA ModAdd ==
    ASSUME NEW a \in Int, NEW c \in Int, NEW b \in Nat \ {0}
    PROVE  ((a % b) + c) % b = (a + c) % b
<1>1. PICK k \in Int : a = b * k + (a % b)
  BY ModSplit, Zenon
<1>2. a % b \in Int /\ (a % b) + c \in Int /\ b * k \in Int
  BY ModSplit
<1>3. a + c = ((a % b) + c) + b * k
  BY <1>1, <1>2
<1>4. (((a % b) + c) + b * k) % b = ((a % b) + c) % b
  BY <1>2, ModShift, Zenon
<1>. QED
  BY <1>3, <1>4, Zenon

\* A remainder modulo a multiple of b is as good as the number itself.
LEMMA ModMod ==
    ASSUME NEW a \in Int, NEW b \in Nat \ {0}, NEW u \in Nat \ {0}, u % b = 0
    PROVE  (a % u) % b = a % b
<1>1. PICK m \in Int : u = b * m
  <2>1. u \in Int
    OBVIOUS
  <2>2. PICK m \in Int : u = b * m + (u % b)
    BY <2>1, ModSplit, Zenon
  <2>3. u = b * m
    BY <2>2
  <2>. QED
    BY <2>3, Zenon
<1>2. PICK k \in Int : a = (a % u) + u * k
  <2>1. PICK k \in Int : a = u * k + (a % u)
    BY ModSplit, Zenon
  <2>2. u * k \in Int /\ a % u \in Int
    OBVIOUS
  <2>3. a = (a % u) + u * k
    BY <2>1, <2>2
  <2>. QED
    BY <2>3, Zenon
<1>3. u * k = b * (m * k) /\ m * k \in Int
  <2>1. (b * m) * k = b * (m * k) /\ m * k \in Int
    OBVIOUS
  <2>. QED
    BY <1>1, <2>1, Zenon
<1>4. a % u \in Int
  BY ModSplit, Zenon
<1>5. a = (a % u) + b * (m * k)
  BY <1>2, <1>3, Zenon
<1>6. ((a % u) + b * (m * k)) % b = (a % u) % b
  BY <1>3, <1>4, ModShift, Zenon
<1>. QED
  BY <1>5, <1>6, Zenon

\* Different numbers less than b apart have different remainders.
LEMMA ModApart ==
    ASSUME NEW a \in Int, NEW c \in Int, NEW b \in Nat \ {0}, a < c, c < a + b
    PROVE  a % b # c % b
<1>. SUFFICES ASSUME a % b = c % b PROVE FALSE
  BY Zenon
<1>1. PICK k \in Int : a = b * k + (a % b)
  BY ModSplit, Zenon
<1>2. PICK m \in Int : c = b * m + (c % b)
  BY ModSplit, Zenon
<1>3. c - a = b * (m - k)
  BY <1>1, <1>2, ModSplit
<1>4. CASE m - k <= 0
  BY <1>3, <1>4
<1>5. CASE m - k >= 1
  BY <1>3, <1>5
<1>. QED
  BY <1>4, <1>5
-----------------------------------------------------------------------------
\* The number of bytes between two indices, and the cell of the j-th of them.
Dist(w, r) == (w - r) % UINT
Cell(r, j) == ((r + j - 1) % UINT) % PIPESIZE

\* A number in range is its own remainder.
LEMMA ModSmall ==
    ASSUME NEW b \in Nat \ {0}, NEW a \in 0 .. b - 1
    PROVE  a % b = a
OBVIOUS

\* The wrapping indices give the number of bytes and the place of the next one.
LEMMA DistBasic ==
    ASSUME NEW w \in 0 .. UINT - 1, NEW r \in 0 .. UINT - 1
    PROVE  /\ Dist(w, r) \in 0 .. UINT - 1
           /\ (r + Dist(w, r)) % UINT = w
           /\ (w = r) = (Dist(w, r) = 0)
           /\ (w = (r + PIPESIZE) % UINT) = (Dist(w, r) = PIPESIZE)
<1>. UINT \in Nat \ {0} /\ PIPESIZE \in 0 .. UINT - 1 /\ w - r \in Int
  BY PipeAssumption
<1>1. Dist(w, r) \in 0 .. UINT - 1
  BY DEF Dist
<1>2. (r + Dist(w, r)) % UINT = w
  <2>. r \in Int
    OBVIOUS
  <2>1. (((w - r) % UINT) + r) % UINT = ((w - r) + r) % UINT
    BY ModAdd, Zenon
  <2>2. (w - r) + r = w /\ ((w - r) % UINT) + r = r + Dist(w, r)
    BY <1>1 DEF Dist
  <2>. QED
    BY <2>1, <2>2, ModSmall, Zenon
<1>3. (w = r) = (Dist(w, r) = 0)
  <2>1. w = r => Dist(w, r) = 0
    <3>1. 0 % UINT = 0
      BY ModSmall
    <3>. QED
      BY <3>1 DEF Dist
  <2>2. Dist(w, r) = 0 => w = r
    BY <1>2, ModSmall
  <2>. QED
    BY <2>1, <2>2, Zenon
<1>4. w = (r + PIPESIZE) % UINT => Dist(w, r) = PIPESIZE
  <2>. r + PIPESIZE \in Int /\ -r \in Int
    OBVIOUS
  <2>1. (((r + PIPESIZE) % UINT) + (-r)) % UINT = ((r + PIPESIZE) + (-r)) % UINT
    BY ModAdd, Zenon
  <2>2. (r + PIPESIZE) + (-r) = PIPESIZE /\ w + (-r) = w - r
    OBVIOUS
  <2>. QED
    BY <2>1, <2>2, ModSmall, Zenon DEF Dist
<1>5. Dist(w, r) = PIPESIZE => w = (r + PIPESIZE) % UINT
  BY <1>2, Zenon
<1>. QED
  BY <1>1, <1>2, <1>3, <1>4, <1>5, Zenon

\* Writing a byte makes one more, reading one makes one less.
LEMMA DistStep ==
    ASSUME NEW w \in 0 .. UINT - 1, NEW r \in 0 .. UINT - 1
    PROVE  /\ Inc(w) \in 0 .. UINT - 1 /\ Inc(r) \in 0 .. UINT - 1
           /\ Dist(w, r) < UINT - 1 => Dist(Inc(w), r) = Dist(w, r) + 1
           /\ Dist(w, r) > 0 => Dist(w, Inc(r)) = Dist(w, r) - 1
<1>. UINT \in Nat \ {0} /\ w - r \in Int
  BY PipeAssumption
<1>1. Inc(w) \in 0 .. UINT - 1 /\ Inc(r) \in 0 .. UINT - 1
  BY DEF Inc
<1>2. Dist(w, r) \in 0 .. UINT - 1
  BY DEF Dist
<1>3. ASSUME Dist(w, r) < UINT - 1
      PROVE  Dist(Inc(w), r) = Dist(w, r) + 1
  <2>. w + 1 \in Int /\ -r \in Int /\ 1 \in Int
    OBVIOUS
  <2>1. (((w + 1) % UINT) + (-r)) % UINT = ((w + 1) + (-r)) % UINT
    BY ModAdd, Zenon
  <2>2. (((w - r) % UINT) + 1) % UINT = ((w - r) + 1) % UINT
    BY ModAdd, Zenon
  <2>3. (w + 1) + (-r) = (w - r) + 1
    OBVIOUS
  <2>4. ((w + 1) % UINT) + (-r) = Inc(w) - r
    BY <1>1, Zenon DEF Inc
  <2>5. Dist(w, r) + 1 \in 0 .. UINT - 1
    BY <1>2, <1>3
  <2>6. (Dist(w, r) + 1) % UINT = Dist(w, r) + 1
    BY <2>5, ModSmall, Zenon
  <2>. QED
    BY <2>1, <2>2, <2>3, <2>4, <2>6, Zenon DEF Dist
<1>4. ASSUME Dist(w, r) > 0
      PROVE  Dist(w, Inc(r)) = Dist(w, r) - 1
  <2>. -1 \in Int
    OBVIOUS
  <2>1. (((w - r) % UINT) + (-1)) % UINT = ((w - r) + (-1)) % UINT
    BY ModAdd, Zenon
  <2>2. Dist(w, r) + (-1) \in 0 .. UINT - 1
    BY <1>2, <1>4
  <2>3. (Dist(w, r) + (-1)) % UINT = Dist(w, r) - 1
    BY <2>2, ModSmall, Zenon
  <2>4. (w - Inc(r)) % UINT = ((w - r) + (-1)) % UINT
    <3>1. CASE r + 1 < UINT
      <4>1. Inc(r) = r + 1
        BY <3>1, ModSmall DEF Inc
      <4>. QED
        BY <4>1
    <3>2. CASE r + 1 = UINT
      <4>1. Inc(r) = 0
        <5>1. (UINT * 1 + 0) % UINT = 0
          BY ModUnique
        <5>. QED
          BY <3>2, <5>1 DEF Inc
      <4>2. (((w - r) + (-1)) + UINT * 1) % UINT = ((w - r) + (-1)) % UINT
        BY ModShift
      <4>3. ((w - r) + (-1)) + UINT * 1 = w - Inc(r)
        BY <3>2, <4>1
      <4>. QED
        BY <4>2, <4>3, Zenon
    <3>. QED
      BY <3>1, <3>2
  <2>. QED
    BY <2>1, <2>3, <2>4, Zenon DEF Dist
<1>. QED
  BY <1>1, <1>3, <1>4, Zenon

\* The cells of the bytes: they lie in the buffer, those less than PIPESIZE apart
\* are different, and they move along with the read index.
LEMMA CellBasic ==
    ASSUME NEW r \in 0 .. UINT - 1, NEW j \in Int
    PROVE  /\ Cell(r, j) = (r + j - 1) % PIPESIZE
           /\ Cell(r, j) \in 0 .. PIPESIZE - 1
           /\ Cell(Inc(r), j) = Cell(r, j + 1)
           /\ \A k \in Int : j < k /\ k < j + PIPESIZE => Cell(r, j) # Cell(r, k)
<1>. /\ UINT \in Nat \ {0} /\ PIPESIZE \in Nat \ {0} /\ UINT % PIPESIZE = 0
     /\ r \in Int
  BY PipeAssumption
<1>1. ASSUME NEW k \in Int PROVE Cell(r, k) = (r + k - 1) % PIPESIZE
  <2>1. r + k - 1 \in Int
    OBVIOUS
  <2>. QED
    BY <2>1, ModMod, Zenon DEF Cell
<1>2. Cell(r, j) \in 0 .. PIPESIZE - 1
  BY <1>1
<1>3. Cell(Inc(r), j) = Cell(r, j + 1)
  <2>1. PICK i \in Int : i = j - 1
    OBVIOUS
  <2>2. r + 1 \in Int
    OBVIOUS
  <2>3. (((r + 1) % UINT) + i) % UINT = ((r + 1) + i) % UINT
    BY <2>2, ModAdd, Zenon
  <2>4. (r + 1) + i = r + (j + 1) - 1
    BY <2>1
  <2>5. Inc(r) = (r + 1) % UINT /\ Inc(r) \in Int
    BY <2>2, ModSplit, Zenon DEF Inc
  <2>6. ((r + 1) % UINT) + i = Inc(r) + j - 1
    BY <2>1, <2>5, Zenon
  <2>. QED
    BY <2>3, <2>4, <2>6, Zenon DEF Cell
<1>4. ASSUME NEW k \in Int, j < k, k < j + PIPESIZE
      PROVE  Cell(r, j) # Cell(r, k)
  <2>1. /\ r + j - 1 \in Int /\ r + k - 1 \in Int
        /\ r + j - 1 < r + k - 1 /\ r + k - 1 < (r + j - 1) + PIPESIZE
    BY <1>4
  <2>2. (r + j - 1) % PIPESIZE # (r + k - 1) % PIPESIZE
    BY <2>1, ModApart, Zenon
  <2>. QED
    BY <1>1, <2>2, Zenon
<1>. QED
  BY <1>1, <1>2, <1>3, <1>4, Zenon

\* A function on 1 .. n is a sequence of length n.
LEMMA SeqOf ==
    ASSUME NEW S, NEW n \in Nat, NEW f \in [1 .. n -> S]
    PROVE  f \in Seq(S) /\ Len(f) = n
<1>1. f \in Seq(S)
  BY SeqDef, Zenon
<1>2. DOMAIN f = 1 .. n
  BY Zenon
<1>3. Len(f) \in Nat /\ DOMAIN f = 1 .. Len(f)
  BY <1>1, LenProperties, Zenon
<1>. QED
  BY <1>1, <1>2, <1>3

\* What Append returns, for sequences given as functions.
LEMMA SeqAppend ==
    ASSUME NEW S, NEW n \in Nat, NEW f \in [1 .. n -> S], NEW b \in S,
           NEW g \in [1 .. n + 1 -> S], \A j \in 1 .. n : g[j] = f[j], g[n + 1] = b
    PROVE  g = Append(f, b)
<1>1. f \in Seq(S) /\ Len(f) = n
  BY SeqOf, Zenon
<1>2. n + 1 \in Nat
  OBVIOUS
<1>3. g \in Seq(S) /\ Len(g) = n + 1
  BY <1>2, SeqOf, Zenon
<1>4. Append(f, b) \in Seq(S) /\ Len(Append(f, b)) = n + 1
  BY <1>1
<1>5. \A j \in 1 .. n + 1 : g[j] = Append(f, b)[j]
  BY <1>1
<1>. QED
  BY <1>3, <1>4, <1>5, SeqEqual, Zenon

\* The same for Head and Tail.
LEMMA SeqTail ==
    ASSUME NEW S, NEW n \in Nat \ {0}, NEW f \in [1 .. n -> S],
           NEW g \in [1 .. n - 1 -> S], \A j \in 1 .. n - 1 : g[j] = f[j + 1]
    PROVE  f # << >> /\ Head(f) = f[1] /\ g = Tail(f)
<1>1. f \in Seq(S) /\ Len(f) = n
  BY SeqOf, Zenon
<1>2. n - 1 \in Nat
  OBVIOUS
<1>3. g \in Seq(S) /\ Len(g) = n - 1
  BY <1>2, SeqOf, Zenon
<1>4. f # << >> /\ Head(f) = f[1]
  BY <1>1
<1>5. /\ Tail(f) \in Seq(S) /\ Len(Tail(f)) = n - 1
      /\ \A j \in 1 .. n - 1 : Tail(f)[j] = f[j + 1]
  BY <1>1, <1>4, HeadTailProperties
<1>6. \A j \in 1 .. n - 1 : Tail(f)[j] = g[j]
  BY <1>5, Zenon
<1>. QED
  BY <1>3, <1>4, <1>5, <1>6, SeqEqual, Zenon

\* The bytes in the buffer d between the indices r and w, the oldest first.
Bytes(w, r, d) == [j \in 1 .. Dist(w, r) |-> d[Cell(r, j)]]

\* A byte that is written while there is room comes after all the others.
LEMMA BytesPut ==
    ASSUME NEW w \in 0 .. UINT - 1, NEW r \in 0 .. UINT - 1,
           NEW d \in [0 .. PIPESIZE - 1 -> Byte], NEW b \in Byte,
           Dist(w, r) < PIPESIZE
    PROVE  /\ Len(Bytes(w, r, d)) < PIPESIZE
           /\ Bytes(Inc(w), r, [d EXCEPT ![w % PIPESIZE] = b]) =
                 Append(Bytes(w, r, d), b)
<1>1. PICK n \in Nat : n = Dist(w, r)
  BY DistBasic
<1>2. n < UINT - 1 /\ n < PIPESIZE /\ PIPESIZE \in Nat \ {0} /\ r \in Int
  BY <1>1, PipeAssumption
<1>3. PICK e : e = [d EXCEPT ![w % PIPESIZE] = b]
  BY Zenon
<1>4. Dist(Inc(w), r) = n + 1
  BY <1>1, <1>2, DistStep, Zenon
<1>5. \A j \in Int : Cell(r, j) \in 0 .. PIPESIZE - 1
  BY CellBasic, Zenon
<1>6. Cell(r, n + 1) = w % PIPESIZE
  <2>1. r + (n + 1) - 1 = r + n
    BY <1>2
  <2>. QED
    BY <1>1, <2>1, DistBasic DEF Cell
<1>7. \A j \in 1 .. n : Cell(r, j) # w % PIPESIZE
  <2>. SUFFICES ASSUME NEW j \in 1 .. n PROVE Cell(r, j) # w % PIPESIZE
    BY Zenon
  <2>1. j \in Int /\ n + 1 \in Int /\ j < n + 1 /\ n + 1 < j + PIPESIZE
    BY <1>2
  <2>2. Cell(r, j) # Cell(r, n + 1)
    BY <2>1, CellBasic, Zenon
  <2>. QED
    BY <2>2, <1>6, Zenon
<1>8. \A j \in 1 .. n : e[Cell(r, j)] = d[Cell(r, j)]
  BY <1>3, <1>5, <1>7
<1>9. e[Cell(r, n + 1)] = b /\ e \in [0 .. PIPESIZE - 1 -> Byte]
  <2>1. w % PIPESIZE \in 0 .. PIPESIZE - 1
    BY <1>2, <1>5, <1>6
  <2>. QED
    BY <1>3, <1>6, <2>1, Zenon
<1>10. Bytes(w, r, d) \in [1 .. n -> Byte]
  BY <1>1, <1>5 DEF Bytes
<1>11. Bytes(Inc(w), r, e) \in [1 .. n + 1 -> Byte]
  <2>1. Bytes(Inc(w), r, e) = [j \in 1 .. n + 1 |-> e[Cell(r, j)]]
    BY <1>4, Zenon DEF Bytes
  <2>2. ASSUME NEW j \in 1 .. n + 1 PROVE e[Cell(r, j)] \in Byte
    <3>1. j \in Int
      OBVIOUS
    <3>2. Cell(r, j) \in 0 .. PIPESIZE - 1
      BY <1>5, <3>1, Zenon
    <3>. QED
      BY <1>9, <3>2, Zenon
  <2>. QED
    BY <2>1, <2>2, Zenon
<1>12. \A j \in 1 .. n : Bytes(Inc(w), r, e)[j] = Bytes(w, r, d)[j]
  BY <1>1, <1>4, <1>8 DEF Bytes
<1>13. Bytes(Inc(w), r, e)[n + 1] = b
  BY <1>4, <1>9 DEF Bytes
<1>14. Len(Bytes(w, r, d)) = n
  BY <1>10, SeqOf, Zenon
<1>15. Bytes(Inc(w), r, e) = Append(Bytes(w, r, d), b)
  BY <1>10, <1>11, <1>12, <1>13, SeqAppend
<1>. QED
  BY <1>2, <1>3, <1>14, <1>15, Zenon

\* Reading takes the oldest byte and leaves the others as they were.
LEMMA BytesGet ==
    ASSUME NEW w \in 0 .. UINT - 1, NEW r \in 0 .. UINT - 1,
           NEW d \in [0 .. PIPESIZE - 1 -> Byte], w # r
    PROVE  /\ Bytes(w, r, d) # << >>
           /\ d[r % PIPESIZE] = Head(Bytes(w, r, d))
           /\ Bytes(w, Inc(r), d) = Tail(Bytes(w, r, d))
<1>1. PICK n \in Nat \ {0} : n = Dist(w, r)
  BY DistBasic
<1>2. Dist(w, Inc(r)) = n - 1
  BY <1>1, DistStep
<1>3. \A j \in Int : /\ Cell(r, j) \in 0 .. PIPESIZE - 1
                     /\ Cell(Inc(r), j) = Cell(r, j + 1)
  BY CellBasic, Zenon
<1>4. Cell(r, 1) = r % PIPESIZE
  <2>1. r + 1 - 1 = r /\ UINT \in Nat \ {0}
    BY PipeAssumption
  <2>. QED
    BY <2>1, ModSmall, Zenon DEF Cell
<1>5. Bytes(w, r, d) \in [1 .. n -> Byte]
  BY <1>1, <1>3 DEF Bytes
<1>6. Bytes(w, r, d)[1] = d[r % PIPESIZE]
  BY <1>1, <1>4 DEF Bytes
<1>7. \A j \in 1 .. n - 1 : j + 1 \in 1 .. n /\ j \in Int
  OBVIOUS
<1>8. Bytes(w, Inc(r), d) \in [1 .. n - 1 -> Byte]
  <2>1. Bytes(w, Inc(r), d) = [j \in 1 .. n - 1 |-> d[Cell(Inc(r), j)]]
    BY <1>2, Zenon DEF Bytes
  <2>2. ASSUME NEW j \in 1 .. n - 1 PROVE d[Cell(Inc(r), j)] \in Byte
    <3>1. j \in Int /\ j + 1 \in Int
      OBVIOUS
    <3>2. Cell(Inc(r), j) \in 0 .. PIPESIZE - 1
      BY <1>3, <3>1, Zenon
    <3>. QED
      BY <3>2, Zenon
  <2>. QED
    BY <2>1, <2>2, Zenon
<1>9. \A j \in 1 .. n - 1 : Bytes(w, Inc(r), d)[j] = Bytes(w, r, d)[j + 1]
  BY <1>1, <1>2, <1>3, <1>7, Zenon DEF Bytes
<1>. QED
  BY <1>5, <1>6, <1>8, <1>9, SeqTail
-----------------------------------------------------------------------------
\* A process that moves from one label to another, but not into or out of those
\* at which its reference is closed.
Quiet(from, to) == from \in Closed \/ to \in Closed => to = from

\* Steps of the processes that leave closing aside do not change an end.
LEMMA EndQuiet ==
    ASSUME NEW End, NEW o, NEW f, NEW g, EndInv(End, o, f),
           \A q \in End : Quiet(f[q], g[q])
    PROVE  EndInv(End, o, g)
BY Zenon DEF EndInv, Quiet, Past, Closed

\* close(): the end stays open, and the last process goes to pipeclose().
LEMMA EndClose ==
    ASSUME NEW End, NEW o, NEW f, NEW g, NEW p \in End, EndInv(End, o, f),
           f[p] = "user", \A q \in End \ {p} : g[q] = f[q],
           g[p] = IF \A q \in End \ {p} : f[q] \in Closed
                  THEN "pipeclose" ELSE "gone"
    PROVE  EndInv(End, o, g)
<1>1. \A q \in End : f[q] \in Closed => f[q] = "gone"
  BY Zenon DEF EndInv, Closed
<1>2. o
  BY Zenon DEF EndInv, Past
<1>3. CASE \A q \in End \ {p} : f[q] \in Closed
  BY <1>1, <1>2, <1>3, Zenon DEF EndInv, Past, Closed
<1>4. CASE ~(\A q \in End \ {p} : f[q] \in Closed)
  BY <1>1, <1>2, <1>4, Zenon DEF EndInv, Past, Closed
<1>. QED
  BY <1>3, <1>4, Zenon

\* pipeclose() closes the end: nobody else holds it.
LEMMA EndPipeclose ==
    ASSUME NEW End, NEW o, NEW f, NEW g, NEW p \in End, EndInv(End, o, f),
           f[p] = "pipeclose", g[p] = "last",
           \A q \in End \ {p} : Quiet(f[q], g[q])
    PROVE  EndInv(End, FALSE, g)
<1>1. \A q \in End \ {p} : f[q] = "gone"
  BY Zenon DEF EndInv, Closed
<1>2. \A q \in End \ {p} : g[q] = "gone"
  BY <1>1, Zenon DEF Quiet, Closed
<1>. QED
  BY <1>2, Zenon DEF EndInv, Past, Closed

\* So it stays when pipeclose() goes on.
LEMMA EndLast ==
    ASSUME NEW End, NEW o, NEW f, NEW g, NEW p \in End, EndInv(End, o, f),
           f[p] \in {"last", "kfree"}, g[p] \in {"kfree", "panic", "gone"},
           \A q \in End \ {p} : g[q] = f[q]
    PROVE  EndInv(End, o, g)
<1>1. \A q \in End \ {p} : f[q] = "gone"
  BY Zenon DEF EndInv, Closed
<1>. QED
  BY <1>1, Zenon DEF EndInv, Past, Closed
-----------------------------------------------------------------------------
\* A step that leaves the ends and the page alone.
QuietStep ==
    /\ \A q \in Proc : Quiet(pc[q], pc'[q])
    /\ pc' \in [Proc -> Label]
    /\ readopen' = readopen /\ writeopen' = writeopen /\ kfrees' = kfrees

\* A step that leaves the bytes alone.
SameBytes == writep' = writep /\ readp' = readp /\ data' = data /\ out' = out

\* wakeup() moves sleepers only, and the process that calls it.
LEMMA WakeupQuiet ==
    ASSUME TypeOK, NEW p \in Proc, NEW ch \in {"on_readp", "on_writep"},
           NEW to \in Label, wakeup(ch, p, to)
    PROVE  /\ pc' \in [Proc -> Label] /\ pc'[p] = to
           /\ \A q \in Proc \ {p} : Quiet(pc[q], pc'[q])
<1>1. \A q \in Proc : pc[q] \in Label
  BY Zenon DEF TypeOK
<1>2. \A q \in Proc : pc'[q] = IF q = p THEN to
                               ELSE IF pc[q] = ch THEN "acquire" ELSE pc[q]
  BY Zenon DEF wakeup
<1>3. pc' \in [Proc -> Label]
  BY <1>1, Zenon DEF wakeup, Label
<1>. QED
  BY <1>2, <1>3, Zenon DEF Quiet, Closed

\* A jump of one process.
LEMMA GotoQuiet ==
    ASSUME TypeOK, NEW p \in Proc, NEW to \in Label, Goto(p, to)
    PROVE  /\ pc' \in [Proc -> Label] /\ pc'[p] = to
           /\ \A q \in Proc \ {p} : pc'[q] = pc[q]
BY Zenon DEF TypeOK, Goto

\* Every step but the ones of close() and pipeclose() is quiet.
LEMMA Kinds ==
    ASSUME TypeOK, [Next]_vars
    PROVE  \/ QuietStep
           \/ \E p \in Proc : close(p) \/ pipeclose(p) \/ last(p) \/ kfree(p)
<1>. SUFFICES ASSUME ~(\E p \in Proc : close(p) \/ pipeclose(p) \/ last(p) \/ kfree(p))
              PROVE  QuietStep
  BY Zenon
<1>0. pc \in [Proc -> Label] /\ \A a : Quiet(a, a)
  BY Zenon DEF TypeOK, Quiet
<1>1. CASE UNCHANGED vars
  BY <1>0, <1>1, Zenon DEF vars, pipeVars, QuietStep
<1>2. CASE finished
  BY <1>0, <1>2, Zenon DEF finished, vars, pipeVars, QuietStep
<1>3. ASSUME NEW p \in Proc, NEW n, call(p, n) PROVE QuietStep
  <2>1. Goto(p, "acquire") /\ pc[p] = "user"
    BY <1>3, Zenon DEF call
  <2>2. "acquire" \in Label
    BY Zenon DEF Label
  <2>3. readopen' = readopen /\ writeopen' = writeopen /\ kfrees' = kfrees
    BY <1>3, Zenon DEF call, pipeVars
  <2>. QED
    BY <2>1, <2>2, <2>3, GotoQuiet, Zenon DEF QuietStep, Quiet, Closed
<1>4. ASSUME NEW p \in Proc, acquire(p) \/ sleep(p) \/ read_empty(p) \/ read_start(p)
      PROVE  QuietStep
  <2>1. PICK to \in {"test", "on_readp", "on_writep", "sleep", "copy"} :
           Goto(p, to) /\ pc[p] \in {"acquire", "sleep", "test"}
    BY <1>4, Zenon DEF acquire, sleep, read_empty, read_start
  <2>2. to \in Label
    BY Zenon DEF Label
  <2>3. readopen' = readopen /\ writeopen' = writeopen /\ kfrees' = kfrees
    BY <1>4, Zenon DEF acquire, sleep, read_empty, read_start, pipeVars
  <2>. QED
    BY <2>1, <2>2, <2>3, GotoQuiet, Zenon DEF QuietStep, Quiet, Closed
<1>5. ASSUME NEW p \in Proc, write_byte(p) \/ read_byte(p) PROVE QuietStep
  BY <1>0, <1>5, Zenon DEF write_byte, read_byte, QuietStep
<1>6. ASSUME NEW p \in Proc, write_fails(p) \/ read_fails(p) PROVE QuietStep
  <2>1. fails(p) /\ pc[p] = "test"
    BY <1>6, Zenon DEF write_fails, read_fails
  <2>2. "user" \in Label
    BY Zenon DEF Label
  <2>. QED
    BY <2>1, <2>2, GotoQuiet, Zenon DEF fails, pipeVars, QuietStep, Quiet, Closed
<1>7. ASSUME NEW p \in Proc, write_full(p) \/ write_done(p) \/ read_done(p)
      PROVE  QuietStep
  <2>1. PICK to \in {"sleep", "user"}, ch \in {"on_readp", "on_writep"} :
           wakeup(ch, p, to) /\ pc[p] \in {"test", "copy"}
    BY <1>7, Zenon DEF write_full, write_done, read_done, returns
  <2>2. to \in Label
    BY Zenon DEF Label
  <2>3. readopen' = readopen /\ writeopen' = writeopen /\ kfrees' = kfrees
    BY <1>7, Zenon DEF write_full, write_done, read_done, returns, pipeVars
  <2>. QED
    BY <2>1, <2>2, <2>3, WakeupQuiet, Zenon DEF QuietStep, Quiet, Closed
<1>8. ASSUME NEW p \in Proc, kill(p) PROVE QuietStep
  <2>1. CASE pc' = pc
    BY <1>0, <1>8, <2>1, Zenon DEF kill, pipeVars, QuietStep
  <2>2. CASE pc[p] \in {"on_readp", "on_writep"}
    <3>1. Goto(p, "acquire") /\ "acquire" \in Label
      BY <1>8, <2>2, Zenon DEF kill, Goto, Label
    <3>. QED
      BY <1>8, <2>2, <3>1, GotoQuiet, Zenon DEF kill, pipeVars, QuietStep, Quiet, Closed
  <2>. QED
    BY <1>8, <2>1, <2>2, Zenon DEF kill
<1>. QED
  BY <1>1, <1>2, <1>3, <1>4, <1>5, <1>6, <1>7, <1>8, Zenon DEF Next, KernelStep

\* Only a byte written or read changes the buffer.
LEMMA ByteKinds ==
    ASSUME [Next]_vars
    PROVE  SameBytes \/ \E p \in Proc : write_byte(p) \/ read_byte(p)
<1>1. CASE UNCHANGED vars \/ finished
  BY <1>1, Zenon DEF finished, vars, pipeVars, SameBytes
<1>2. ASSUME NEW p \in Proc, NEW n, call(p, n) PROVE SameBytes
  BY <1>2, Zenon DEF call, pipeVars, SameBytes
<1>3. ASSUME NEW p \in Proc, acquire(p) \/ sleep(p) \/ read_empty(p) \/ read_start(p)
      PROVE  SameBytes
  BY <1>3, Zenon DEF acquire, sleep, read_empty, read_start, pipeVars, SameBytes
<1>4. ASSUME NEW p \in Proc, write_fails(p) \/ read_fails(p) \/ write_full(p)
                             \/ write_done(p) \/ read_done(p)
      PROVE  SameBytes
  BY <1>4, Zenon DEF write_fails, read_fails, fails, write_full, write_done, read_done,
              returns, pipeVars, SameBytes
<1>5. ASSUME NEW p \in Proc, kill(p) \/ close(p) \/ pipeclose(p) \/ last(p) \/ kfree(p)
      PROVE  SameBytes
  BY <1>5, Zenon DEF kill, close, pipeclose, last, kfree, pipeVars, SameBytes
<1>. QED
  BY <1>1, <1>2, <1>3, <1>4, <1>5, Zenon DEF Next, KernelStep

\* A byte more, and a byte less.
LEMMA WriteByte ==
    ASSUME TypeOK, RingInv, NEW p \in Proc, write_byte(p)
    PROVE  /\ writep' \in 0 .. UINT - 1 /\ data' \in [0 .. PIPESIZE - 1 -> Byte]
           /\ RingInv' /\ readp' = readp /\ out' = out
           /\ \E b \in Byte : /\ Len(Bytes(writep, readp, data)) < PIPESIZE
                              /\ Bytes(writep', readp', data') =
                                    Append(Bytes(writep, readp, data), b)
<1>1. writep \in 0 .. UINT - 1 /\ readp \in 0 .. UINT - 1
      /\ data \in [0 .. PIPESIZE - 1 -> Byte]
  BY Zenon DEF TypeOK
<1>2. /\ writep' = Inc(writep) /\ readp' = readp /\ out' = out
      /\ writep # (readp + PIPESIZE) % UINT
  BY Zenon DEF write_byte, Full
<1>3. PICK b \in Byte : data' = [data EXCEPT ![writep % PIPESIZE] = b]
  BY Zenon DEF write_byte
<1>4. Dist(writep, readp) < PIPESIZE /\ PIPESIZE \in Nat /\ PIPESIZE < UINT /\ UINT \in Nat
  BY <1>1, <1>2, DistBasic, PipeAssumption DEF RingInv, Count, Dist
<1>5. Dist(writep, readp) \in 0 .. UINT - 1
  BY <1>1, DistBasic, Zenon
<1>6. writep' \in 0 .. UINT - 1 /\ Dist(writep', readp') = Dist(writep, readp) + 1
  BY <1>1, <1>2, <1>4, <1>5, DistStep
<1>7. RingInv'
  BY <1>4, <1>5, <1>6 DEF RingInv, Count, Dist
<1>8. data' \in [0 .. PIPESIZE - 1 -> Byte]
  BY <1>1, <1>3, Zenon
<1>9. Len(Bytes(writep, readp, data)) < PIPESIZE
  BY <1>1, <1>4, BytesPut, Zenon
<1>10. Bytes(writep', readp', data') = Append(Bytes(writep, readp, data), b)
  BY <1>1, <1>2, <1>3, <1>4, BytesPut, Zenon
<1>. QED
  BY <1>2, <1>6, <1>7, <1>8, <1>9, <1>10, Zenon

\* The same for piperead().
LEMMA ReadByte ==
    ASSUME TypeOK, RingInv, NEW p \in Proc, read_byte(p)
    PROVE  /\ readp' \in 0 .. UINT - 1 /\ out' \in Byte
           /\ RingInv' /\ writep' = writep /\ data' = data
           /\ Bytes(writep, readp, data) # << >>
           /\ out' = Head(Bytes(writep, readp, data))
           /\ Bytes(writep', readp', data') = Tail(Bytes(writep, readp, data))
<1>1. writep \in 0 .. UINT - 1 /\ readp \in 0 .. UINT - 1
      /\ data \in [0 .. PIPESIZE - 1 -> Byte]
  BY Zenon DEF TypeOK
<1>2. /\ readp' = Inc(readp) /\ writep' = writep /\ data' = data
      /\ out' = data[readp % PIPESIZE] /\ writep # readp
  BY Zenon DEF read_byte, Empty
<1>3. /\ Dist(writep, readp) <= PIPESIZE /\ PIPESIZE \in Nat \ {0} /\ UINT \in Nat
      /\ Dist(writep, readp) \in 0 .. UINT - 1 /\ Dist(writep, readp) > 0
  <2>1. Dist(writep, readp) \in 0 .. UINT - 1 /\ Dist(writep, readp) # 0
    BY <1>1, <1>2, DistBasic
  <2>2. Dist(writep, readp) <= PIPESIZE
    BY Zenon DEF RingInv, Count, Dist
  <2>. QED
    BY <2>1, <2>2, PipeAssumption
<1>4. readp' \in 0 .. UINT - 1 /\ Dist(writep', readp') = Dist(writep, readp) - 1
  BY <1>1, <1>2, <1>3, DistStep, Zenon
<1>5. RingInv'
  BY <1>3, <1>4 DEF RingInv, Count, Dist
<1>6. out' \in Byte
  <2>1. readp \in Int /\ readp % PIPESIZE \in 0 .. PIPESIZE - 1
    BY <1>1, <1>3
  <2>. QED
    BY <1>1, <1>2, <2>1, Zenon
<1>. QED
  BY <1>1, <1>2, <1>4, <1>5, <1>6, BytesGet, Zenon
-----------------------------------------------------------------------------
\* The pipe that pipealloc() returns.
LEMMA InitInv == Init => IInv
<1>. SUFFICES ASSUME Init PROVE IInv
  BY Zenon
<1>1. TypeOK
  BY PipeAssumption DEF Init, TypeOK, Label
<1>2. RingInv
  <2>1. UINT \in Nat \ {0} /\ PIPESIZE \in Nat
    BY PipeAssumption
  <2>2. writep - readp = 0 /\ 0 % UINT = 0
    BY <2>1 DEF Init
  <2>. QED
    BY <2>1, <2>2 DEF RingInv, Count
<1>3. \A p \in Proc : pc[p] = "user"
  BY Zenon DEF Init
<1>4. EndInv(Reader, readopen, pc) /\ EndInv(Writer, writeopen, pc)
  BY <1>3, PipeAssumption, Zenon DEF Init, EndInv, Proc, Closed, Past
<1>5. FreeInv
  BY <1>3 DEF Init, FreeInv
<1>. QED
  BY <1>1, <1>2, <1>4, <1>5, Zenon DEF IInv

\* The bytes and the indices stay in range, and no byte is overwritten.
LEMMA RingNext ==
    ASSUME TypeOK, RingInv, [Next]_vars
    PROVE  /\ writep' \in 0 .. UINT - 1 /\ readp' \in 0 .. UINT - 1
           /\ data' \in [0 .. PIPESIZE - 1 -> Byte] /\ out' \in Byte /\ RingInv'
<1>1. CASE SameBytes
  BY <1>1, Zenon DEF SameBytes, TypeOK, RingInv, Count
<1>2. ASSUME NEW p \in Proc, write_byte(p) \/ read_byte(p)
      PROVE  /\ writep' \in 0 .. UINT - 1 /\ readp' \in 0 .. UINT - 1
             /\ data' \in [0 .. PIPESIZE - 1 -> Byte] /\ out' \in Byte /\ RingInv'
  BY <1>2, WriteByte, ReadByte, Zenon DEF TypeOK
<1>. QED
  BY <1>1, <1>2, ByteKinds, Zenon

\* The ends and the page, as far as a step changes them.
Ends ==
    /\ readopen \in BOOLEAN /\ writeopen \in BOOLEAN
    /\ pc \in [Proc -> Label] /\ kfrees \in Nat
    /\ EndInv(Reader, readopen, pc) /\ EndInv(Writer, writeopen, pc) /\ FreeInv

\* Quiet steps keep them.
LEMMA EndsQuiet ==
    ASSUME Ends, QuietStep
    PROVE  Ends'
<1>1. EndInv(Reader, readopen', pc') /\ EndInv(Writer, writeopen', pc')
  BY EndQuiet, Zenon DEF Ends, QuietStep, Proc
<1>2. FreeInv'
  BY Zenon DEF Ends, QuietStep, FreeInv, AllGone, Left, Quiet, Closed, Proc
<1>. QED
  BY <1>1, <1>2, Zenon DEF Ends, QuietStep

\* close() of one of several references, or of the last.
LEMMA EndsClose ==
    ASSUME TypeOK, Ends, NEW p \in Proc, close(p)
    PROVE  Ends'
<1>1. /\ readopen' = readopen /\ writeopen' = writeopen /\ kfrees' = kfrees
      /\ pc[p] = "user"
  BY Zenon DEF close, pipeVars
<1>2. PICK to \in {"pipeclose", "gone"} :
         /\ to = IF \A q \in Peers(p) \ {p} : pc[q] \in Closed
                 THEN "pipeclose" ELSE "gone"
         /\ Goto(p, to)
  BY Zenon DEF close
<1>3. to \in Label
  BY Zenon DEF Label, Closed
<1>4. /\ pc' \in [Proc -> Label] /\ pc'[p] = to
      /\ \A q \in Proc \ {p} : pc'[q] = pc[q]
  BY <1>2, <1>3, GotoQuiet, Zenon
<1>5. \A a : Quiet(a, a)
  BY Zenon DEF Quiet
<1>6. ASSUME p \in Reader
      PROVE  EndInv(Reader, readopen, pc') /\ EndInv(Writer, writeopen, pc')
  <2>1. p \notin Writer /\ Peers(p) = Reader
    BY <1>6, PipeAssumption, Zenon DEF Peers
  <2>2. EndInv(Reader, readopen, pc')
    BY <1>1, <1>2, <1>4, <1>6, <2>1, EndClose, Zenon DEF Ends, Proc
  <2>3. EndInv(Writer, writeopen, pc')
    BY <1>4, <1>5, <2>1, EndQuiet, Zenon DEF Ends, Proc
  <2>. QED
    BY <2>2, <2>3, Zenon
<1>7. ASSUME p \notin Reader
      PROVE  EndInv(Reader, readopen, pc') /\ EndInv(Writer, writeopen, pc')
  <2>1. p \in Writer /\ Peers(p) = Writer
    BY <1>7, Zenon DEF Peers, Proc
  <2>2. EndInv(Writer, writeopen, pc')
    BY <1>1, <1>2, <1>4, <2>1, EndClose, Zenon DEF Ends, Proc
  <2>3. EndInv(Reader, readopen, pc')
    BY <1>4, <1>5, <1>7, EndQuiet, Zenon DEF Ends, Proc
  <2>. QED
    BY <2>2, <2>3, Zenon
<1>8. FreeInv'
  <2>1. ~(\A q \in Proc : Left(q)) /\ \A q \in Proc : pc[q] = "gone" => pc'[q] = "gone"
    BY <1>1, <1>4, Zenon DEF Left
  <2>. QED
    BY <1>1, <1>2, <1>4, <2>1, Zenon DEF Ends, FreeInv, AllGone, Proc
<1>. QED
  BY <1>1, <1>4, <1>6, <1>7, <1>8, Zenon DEF Ends

\* pipeclose() of the process that holds the last reference to an end.
LEMMA EndsPipeclose ==
    ASSUME TypeOK, Ends, NEW p \in Proc, pipeclose(p)
    PROVE  Ends'
<1>1. "last" \in Label /\ pc[p] = "pipeclose" /\ kfrees' = kfrees
  BY Zenon DEF pipeclose, Label, Closed
<1>2. PICK ch \in {"on_readp", "on_writep"} : wakeup(ch, p, "last")
  BY Zenon DEF pipeclose
<1>3. /\ pc' \in [Proc -> Label] /\ pc'[p] = "last"
      /\ \A q \in Proc \ {p} : Quiet(pc[q], pc'[q])
  BY <1>1, <1>2, WakeupQuiet, Zenon
<1>4. CASE p \in Writer
  <2>1. p \notin Reader /\ writeopen' = FALSE /\ readopen' = readopen
    BY <1>4, PipeAssumption, Zenon DEF pipeclose
  <2>2. EndInv(Writer, FALSE, pc')
    BY <1>1, <1>3, <1>4, EndPipeclose, Zenon DEF Ends, Proc
  <2>3. EndInv(Reader, readopen, pc')
    BY <1>3, <2>1, EndQuiet, Zenon DEF Ends, Proc
  <2>4. FreeInv'
    BY <1>1, <1>3, <2>1, Zenon DEF Ends, FreeInv, AllGone, Left, Quiet, Closed, Proc
  <2>. QED
    BY <1>1, <1>3, <2>1, <2>2, <2>3, <2>4, Zenon DEF Ends
<1>5. CASE p \notin Writer
  <2>1. p \in Reader /\ readopen' = FALSE /\ writeopen' = writeopen
    BY <1>5, Zenon DEF pipeclose, Proc
  <2>2. EndInv(Reader, FALSE, pc')
    BY <1>1, <1>3, <2>1, EndPipeclose, Zenon DEF Ends, Proc
  <2>3. EndInv(Writer, writeopen, pc')
    BY <1>3, <1>5, EndQuiet, Zenon DEF Ends, Proc
  <2>4. FreeInv'
    BY <1>1, <1>3, <2>1, Zenon DEF Ends, FreeInv, AllGone, Left, Quiet, Closed, Proc
  <2>. QED
    BY <1>1, <1>3, <2>1, <2>2, <2>3, <2>4, Zenon DEF Ends
<1>. QED
  BY <1>4, <1>5, Zenon

\* The test at the end of pipeclose(), and kfree(): whoever comes last frees.
LEMMA EndsLast ==
    ASSUME TypeOK, Ends, NEW p \in Proc, last(p) \/ kfree(p)
    PROVE  Ends'
<1>1. /\ readopen' = readopen /\ writeopen' = writeopen
      /\ pc[p] \in {"last", "kfree"}
  BY Zenon DEF last, kfree, pipeVars
<1>2. PICK to \in {"kfree", "panic", "gone"} : Goto(p, to)
  BY Zenon DEF last, kfree
<1>3. to \in Label
  BY Zenon DEF Label, Closed
<1>4. /\ pc' \in [Proc -> Label] /\ pc'[p] = to
      /\ \A q \in Proc \ {p} : pc'[q] = pc[q]
  BY <1>2, <1>3, GotoQuiet, Zenon
<1>5. \A a : Quiet(a, a)
  BY Zenon DEF Quiet
<1>6. ASSUME NEW End, NEW o, End \subseteq Proc, EndInv(End, o, pc)
      PROVE  EndInv(End, o, pc')
  <2>1. CASE p \in End
    BY <1>1, <1>4, <1>6, <2>1, EndLast, Zenon
  <2>2. CASE p \notin End
    BY <1>4, <1>5, <1>6, <2>2, EndQuiet, Zenon
  <2>. QED
    BY <2>1, <2>2, Zenon
<1>7. EndInv(Reader, readopen, pc') /\ EndInv(Writer, writeopen, pc')
  <2>1. Reader \subseteq Proc /\ Writer \subseteq Proc
    BY Zenon DEF Proc
  <2>. QED
    BY <1>6, <2>1, Zenon DEF Ends
<1>8. CASE last(p)
  <2>1. kfrees' = kfrees /\ pc[p] = "last" /\ to \in {"kfree", "gone"}
    <3>1. PICK go \in {"kfree", "gone"} : Goto(p, go)
      BY <1>8, Zenon DEF last
    <3>2. pc'[p] = go
      BY <3>1, Zenon DEF Ends, Goto
    <3>. QED
      BY <1>4, <1>8, <3>2, Zenon DEF last
  <2>2. kfrees = 0 => (to = "kfree" <=> ~readopen /\ ~writeopen)
    <3>. SUFFICES ASSUME kfrees = 0 PROVE to = "kfree" <=> ~readopen /\ ~writeopen
      BY Zenon
    <3>1. Goto(p, IF ~readopen /\ ~writeopen THEN "kfree" ELSE "gone")
      BY <1>8, Zenon DEF last
    <3>2. pc'[p] = IF ~readopen /\ ~writeopen THEN "kfree" ELSE "gone"
      BY <3>1, Zenon DEF Ends, Goto
    <3>. QED
      BY <1>4, <3>2, Zenon
  <2>3. /\ \A q \in Proc : pc'[q] = "kfree" => ~readopen' /\ ~writeopen'
        /\ kfrees' > 0 => ~readopen' /\ ~writeopen'
        /\ ~readopen' /\ ~writeopen' /\ kfrees' = 0 =>
              \E q \in Proc : pc'[q] \in {"last", "kfree"}
    BY <1>1, <1>4, <2>1, <2>2 DEF Ends, FreeInv
  <2>4. /\ kfrees' > 0 => AllGone(Reader)' \/ AllGone(Writer)'
        /\ ~(\A q \in Proc : Left(q))
    BY <1>4, <2>1, Zenon DEF Ends, FreeInv, AllGone, Left, Proc
  <2>5. FreeInv'
    BY <2>1, <2>3, <2>4, Zenon DEF Ends, FreeInv
  <2>. QED
    BY <1>1, <1>4, <1>7, <2>1, <2>5, Zenon DEF Ends
<1>9. CASE kfree(p)
  <2>1. kfrees' = kfrees + 1 /\ kfrees' \in Nat /\ kfrees' > 0 /\ kfrees' # 0 /\ pc[p] = "kfree"
    BY <1>9 DEF kfree, Ends
  <2>2. ~readopen /\ ~writeopen
    BY <2>1, Zenon DEF Ends, FreeInv
  <2>3. ~Left(p) /\ kfrees <= 1
    <3>1. ~Left(p) /\ ~(kfrees > 1)
      BY <2>1, Zenon DEF Left, Ends, FreeInv
    <3>. QED
      BY <3>1 DEF Ends
  <2>4. \A End \in {Reader, Writer} : p \in End => \A q \in End \ {p} : pc[q] = "gone"
    BY <2>1, Zenon DEF Ends, EndInv, Closed
  <2>5. to \in {"gone", "panic"} /\ (kfrees = 0 => to = "gone")
    <3>1. PICK go \in {"gone", "panic"} : Goto(p, go) /\ (kfrees = 0 => go = "gone")
      BY <1>9, Zenon DEF kfree
    <3>2. pc'[p] = go
      BY <3>1, Zenon DEF Ends, Goto
    <3>. QED
      BY <1>4, <3>1, <3>2, Zenon
  <2>6. AllGone(Reader)' \/ AllGone(Writer)'
    <3>1. CASE kfrees = 0
      BY <1>4, <2>4, <2>5, <3>1, Zenon DEF AllGone, Proc
    <3>2. CASE kfrees # 0
      <4>1. kfrees > 0
        BY <3>2 DEF Ends
      <4>2. AllGone(Reader) \/ AllGone(Writer)
        BY <4>1, Zenon DEF Ends, FreeInv
      <4>. QED
        BY <1>4, <2>1, <4>2, Zenon DEF AllGone, Proc
    <3>. QED
      BY <3>1, <3>2, Zenon
  <2>7. ASSUME kfrees' > 1 PROVE kfrees' = 2 /\ \A q \in Proc : Left(q)'
    <3>1. kfrees > 0 /\ kfrees' = 2
      BY <2>1, <2>3, <2>7 DEF Ends
    <3>2. AllGone(Reader) \/ AllGone(Writer)
      BY <3>1, Zenon DEF Ends, FreeInv
    <3>3. \A q \in Proc \ {p} : pc[q] = "gone"
      BY <2>1, <2>4, <3>2, Zenon DEF AllGone, Proc
    <3>. QED
      BY <1>4, <2>5, <3>1, <3>3, Zenon DEF Left
  <2>8. FreeInv'
    BY <1>1, <2>1, <2>2, <2>6, <2>7, Zenon DEF FreeInv
  <2>. QED
    BY <1>1, <1>4, <1>7, <2>1, <2>8, Zenon DEF Ends
<1>. QED
  BY <1>8, <1>9, Zenon
-----------------------------------------------------------------------------
\* The inductive invariant holds: at most PIPESIZE bytes lie between the indices,
\* an end is open as long as a process that has not passed pipeclose() holds it,
\* and when both are closed the page is freed or about to be.
THEOREM Invariant == Spec => []IInv
<1>1. IInv /\ [Next]_vars => IInv'
  <2>. SUFFICES ASSUME IInv, [Next]_vars PROVE IInv'
    BY Zenon
  <2>1. TypeOK /\ RingInv /\ Ends
    BY Zenon DEF IInv, TypeOK, Ends
  <2>2. Ends'
    BY <2>1, Kinds, EndsQuiet, EndsClose, EndsPipeclose, EndsLast, Zenon
  <2>3. /\ writep' \in 0 .. UINT - 1 /\ readp' \in 0 .. UINT - 1
        /\ data' \in [0 .. PIPESIZE - 1 -> Byte] /\ out' \in Byte /\ RingInv'
    BY <2>1, RingNext, Zenon
  <2>. QED
    BY <2>2, <2>3, Zenon DEF IInv, TypeOK, Ends
<1>. QED
  BY <1>1, InitInv, PTL DEF Spec

\* pipeclose() frees the page when nobody can use the pipe any more, and only
\* then, however the closes of the two ends interleave; and no more than once
\* for each end.
THEOREM PageFreedHolds == Spec => []PageFreed
<1>1. IInv => PageFreed
  <2>. SUFFICES ASSUME IInv PROVE PageFreed
    BY Zenon
  <2>1. kfrees > 0 => \A p \in Proc : pc[p] \in Closed \ {"pipeclose"}
    BY Zenon DEF IInv, FreeInv, EndInv, Past, Closed, Proc
  <2>2. (\A p \in Proc : Left(p)) => kfrees > 0
    <3>. SUFFICES ASSUME \A p \in Proc : Left(p) PROVE kfrees > 0
      BY Zenon
    <3>1. ~readopen /\ ~writeopen
      BY Zenon DEF IInv, EndInv, Past, Left, Proc
    <3>2. kfrees # 0 /\ kfrees \in Nat
      BY <3>1, Zenon DEF IInv, FreeInv, TypeOK, Left
    <3>. QED
      BY <3>2
  <2>3. kfrees > 1 => kfrees = 2 /\ \A p \in Proc : Left(p)
    BY Zenon DEF IInv, FreeInv
  <2>. QED
    BY <2>1, <2>2, <2>3, Zenon DEF PageFreed
<1>. QED
  BY <1>1, Invariant, PTL

\* pipewrite() and piperead() implement a bounded first-in first-out queue: the
\* readers get the bytes the writers put in, each once and in that order,
\* although both indices wrap around.
THEOREM PipeIsFifo == Spec => FifoSpec
<1>1. Init => Queue!FifoInit
  <2>. SUFFICES ASSUME Init PROVE Queue!FifoInit
    BY Zenon
  <2>1. UINT \in Nat \ {0}
    BY PipeAssumption
  <2>2. Count = 0
    BY <2>1, ModSmall DEF Init, Count
  <2>3. [j \in 1 .. Count |-> data[((readp + j - 1) % UINT) % PIPESIZE]] = << >>
    BY <2>2
  <2>. QED
    BY <2>3, Zenon DEF Init, Queue!FifoInit
<1>2. IInv /\ [Next]_vars => [Queue!FifoNext]_(Queue!fifoVars)
  <2>. SUFFICES ASSUME IInv, [Next]_vars PROVE [Queue!FifoNext]_(Queue!fifoVars)
    BY Zenon
  <2>. DEFINE q == [j \in 1 .. Count |-> data[((readp + j - 1) % UINT) % PIPESIZE]]
  <2>1. TypeOK /\ RingInv
    BY Zenon DEF IInv
  <2>2. q = Bytes(writep, readp, data)
    BY Zenon DEF Bytes, Dist, Cell, Count
  <2>3. q' = Bytes(writep', readp', data')
    BY Zenon DEF Bytes, Dist, Cell, Count
  <2>4. CASE SameBytes
    <3>1. q' = q /\ out' = out
      BY <2>2, <2>3, <2>4, Zenon DEF SameBytes
    <3>. QED
      BY <3>1, Zenon DEF Queue!fifoVars
  <2>5. ASSUME NEW p \in Proc, write_byte(p) PROVE Queue!FifoNext
    <3>1. PICK b \in Byte : Len(q) < PIPESIZE /\ q' = Append(q, b) /\ out' = out
      BY <2>1, <2>2, <2>3, <2>5, WriteByte, Zenon
    <3>2. Queue!Put(b)
      BY <3>1, Zenon DEF Queue!Put
    <3>. QED
      BY <3>2, Zenon DEF Queue!FifoNext
  <2>6. ASSUME NEW p \in Proc, read_byte(p) PROVE Queue!FifoNext
    <3>1. q # << >> /\ out' = Head(q) /\ q' = Tail(q)
      BY <2>1, <2>2, <2>3, <2>6, ReadByte, Zenon
    <3>. QED
      BY <3>1, Zenon DEF Queue!FifoNext, Queue!Get
  <2>. QED
    BY <2>4, <2>5, <2>6, ByteKinds, Zenon
<1>. QED
  BY <1>1, <1>2, Invariant, PTL DEF Spec, FifoSpec, Queue!FifoSpec
=============================================================================
