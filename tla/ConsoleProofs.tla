--------------------------- MODULE ConsoleProofs ----------------------------
(***************************************************************************)
(* For any readers, any size of the buffer, any UINT that is a multiple of *)
(* it and any keys: the ring buffer of console.c with its three wrapping   *)
(* indices implements the line discipline of module Tty, and a process     *)
(* sleeps in console_read() only while there is no line to read.           *)
(***************************************************************************)
EXTENDS Console, SequenceTheorems, TLAPS

Stored == {"x", "\n", "\r", "^D"}

\* The characters typed and not yet read, and those of them in complete lines.
Typed == Diff(input.e, input.r)
Ready == Diff(input.w, input.r)

Waiting == {"read", "sleep", "asleep"}

TypeOK ==
    /\ input \in [buf : [0 .. INPUT_BUF - 1 -> Stored \cup {"0"}],
                  r : 0 .. UINT - 1, w : 0 .. UINT - 1, e : 0 .. UINT - 1]
    /\ reader \in [Reader -> [pc : Waiting \cup {"user", "return"}, n : Nat,
                              got : Seq(Stored \cup {"0"})]]
    /\ killed \in [Reader -> BOOLEAN]

\* The indices are in the order r, w, e around the ring, at most INPUT_BUF
\* apart, and a full buffer counts as complete.
OrderInv ==
    /\ Ready <= Typed /\ Typed <= INPUT_BUF
    /\ Typed = INPUT_BUF => Ready = INPUT_BUF

\* Who sleeps, or is about to, has seen everything there is to read.
SleepInv == \A p \in Reader : reader[p].pc \in {"sleep", "asleep"} => Ready = 0

\* A read has been given what it asked for, but for the n it still wants, and
\* goes on only when it wants some.
CountInv ==
    \A p \in Reader : reader[p].pc # "user" =>
        /\ Len(reader[p].got) + reader[p].n = N[p]
        /\ reader[p].pc \in Waiting => reader[p].n > 0

IInv == TypeOK /\ OrderInv /\ SleepInv /\ CountInv
-----------------------------------------------------------------------------
(* Remainders *)

\* Remainders are unique.
LEMMA ModUnique ==
    ASSUME NEW b \in Nat \ {0}, NEW k \in Int, NEW r \in 0 .. b - 1
    PROVE  (b * k + r) % b = r
OBVIOUS

\* A number is a multiple of b and its remainder.
LEMMA ModSplit ==
    ASSUME NEW a \in Int, NEW b \in Nat \ {0}
    PROVE  /\ a % b \in 0 .. b - 1 /\ a % b \in Int
           /\ \E k \in Int : a = b * k + (a % b)
<1>1. a % b \in 0 .. b - 1 /\ a % b \in Int
  OBVIOUS
<1>2. a \div b \in Int
  OBVIOUS
<1>3. a = b * (a \div b) + (a % b)
  OBVIOUS
<1>. QED
  BY <1>1, <1>2, <1>3, Zenon

\* A product distributes over a sum, and associates.
LEMMA Product ==
    ASSUME NEW b \in Int, NEW k \in Int, NEW m \in Int
    PROVE  /\ b * (k + m) = b * k + b * m
           /\ b * (m - k) = b * m - b * k
           /\ b * k \in Int /\ b * m \in Int
OBVIOUS

\* A multiple of b does not change the remainder.
LEMMA ModShift ==
    ASSUME NEW a \in Int, NEW b \in Nat \ {0}, NEW k \in Int
    PROVE  (a + b * k) % b = a % b
<1>1. PICK m \in Int : a = b * m + (a % b)
  BY ModSplit, Zenon
<1>2. a % b \in 0 .. b - 1 /\ m + k \in Int
  BY ModSplit
<1>3. b * (m + k) = b * m + b * k /\ b * m \in Int /\ b * k \in Int
  BY Product
<1>4. a + b * k = b * (m + k) + (a % b)
  BY <1>1, <1>2, <1>3
<1>5. (b * (m + k) + (a % b)) % b = a % b
  BY <1>2, ModUnique, Zenon
<1>. QED
  BY <1>4, <1>5, Zenon

\* Remainders may be taken before a sum.
LEMMA ModAdd ==
    ASSUME NEW a \in Int, NEW c \in Int, NEW b \in Nat \ {0}
    PROVE  ((a % b) + c) % b = (a + c) % b
<1>1. PICK k \in Int : a = b * k + (a % b)
  BY ModSplit, Zenon
<1>2. a % b \in Int /\ (a % b) + c \in Int /\ b * k \in Int
  BY ModSplit
<1>3. a + c = ((a % b) + c) + b * k
  BY <1>1, <1>2
<1>4. (((a % b) + c) + b * k) % b = ((a % b) + c) % b
  BY <1>2, ModShift, Zenon
<1>. QED
  BY <1>3, <1>4, Zenon

\* A remainder modulo a multiple of b is as good as the number itself.
LEMMA ModMod ==
    ASSUME NEW a \in Int, NEW b \in Nat \ {0}, NEW u \in Nat \ {0}, u % b = 0
    PROVE  (a % u) % b = a % b
<1>1. PICK m \in Int : u = b * m
  <2>1. u \in Int
    OBVIOUS
  <2>2. PICK m \in Int : u = b * m + (u % b)
    BY <2>1, ModSplit, Zenon
  <2>3. u = b * m
    BY <2>2
  <2>. QED
    BY <2>3, Zenon
<1>2. PICK k \in Int : a = (a % u) + u * k
  <2>1. PICK k \in Int : a = u * k + (a % u)
    BY ModSplit, Zenon
  <2>2. u * k \in Int /\ a % u \in Int
    OBVIOUS
  <2>3. a = (a % u) + u * k
    BY <2>1, <2>2
  <2>. QED
    BY <2>3, Zenon
<1>3. u * k = b * (m * k) /\ m * k \in Int
  <2>1. (b * m) * k = b * (m * k) /\ m * k \in Int
    OBVIOUS
  <2>. QED
    BY <1>1, <2>1, Zenon
<1>4. a % u \in Int
  BY ModSplit, Zenon
<1>5. a = (a % u) + b * (m * k)
  BY <1>2, <1>3, Zenon
<1>6. ((a % u) + b * (m * k)) % b = (a % u) % b
  BY <1>3, <1>4, ModShift, Zenon
<1>. QED
  BY <1>5, <1>6, Zenon

\* Different numbers less than b apart have different remainders.
LEMMA ModApart ==
    ASSUME NEW a \in Int, NEW c \in Int, NEW b \in Nat \ {0}, a < c, c < a + b
    PROVE  a % b # c % b
<1>. SUFFICES ASSUME a % b = c % b PROVE FALSE
  BY Zenon
<1>1. PICK k \in Int : a = b * k + (a % b)
  BY ModSplit, Zenon
<1>2. PICK m \in Int : c = b * m + (c % b)
  BY ModSplit, Zenon
<1>3. c - a = b * (m - k)
  BY <1>1, <1>2, ModSplit
<1>4. CASE m - k <= 0
  BY <1>3, <1>4
<1>5. CASE m - k >= 1
  BY <1>3, <1>5
<1>. QED
  BY <1>4, <1>5
\* A number in range is its own remainder.
LEMMA ModSmall ==
    ASSUME NEW b \in Nat \ {0}, NEW a \in 0 .. b - 1
    PROVE  a % b = a
OBVIOUS
-----------------------------------------------------------------------------
(* Distances around the ring *)

\* UINT and INPUT_BUF as the arithmetic lemmas want them.
LEMMA Sizes ==
    /\ UINT \in Nat \ {0} /\ INPUT_BUF \in Nat \ {0} /\ INPUT_BUF \in 0 .. UINT - 1
    /\ UINT % INPUT_BUF = 0
BY ConsoleAssumption

\* An index is found again from its distance.
LEMMA DiffBack ==
    ASSUME NEW j \in 0 .. UINT - 1, NEW k \in 0 .. UINT - 1
    PROVE  Diff(j, k) \in 0 .. UINT - 1 /\ (k + Diff(j, k)) % UINT = j
<1>. UINT \in Nat \ {0} /\ j - k \in Int /\ k \in Int
  BY Sizes
<1>1. Diff(j, k) \in 0 .. UINT - 1
  BY DEF Diff
<1>2. (((j - k) % UINT) + k) % UINT = ((j - k) + k) % UINT
  BY ModAdd, Zenon
<1>3. (j - k) + k = j /\ ((j - k) % UINT) + k = k + Diff(j, k)
  BY <1>1 DEF Diff
<1>. QED
  BY <1>1, <1>2, <1>3, ModSmall, Zenon

\* The distance of two indices that are a and b after the same one.
LEMMA DiffApart ==
    ASSUME NEW s \in Int, NEW a \in Int, NEW b \in Int, a <= b, b - a < UINT
    PROVE  Diff((s + b) % UINT, (s + a) % UINT) = b - a
<1>. UINT \in Nat \ {0} /\ s + b \in Int /\ s + a \in Int
  BY Sizes
<1>1. PICK x \in Int : x = (s + a) % UINT
  BY ModSplit, Zenon
<1>2. PICK k \in Int : s + a = UINT * k + x
  BY <1>1, ModSplit, Zenon
<1>3. PICK y \in Int : y = UINT * k
  BY Product
<1>4. -x \in Int
  OBVIOUS
<1>5. (((s + b) % UINT) + (-x)) % UINT = ((s + b) + (-x)) % UINT
  BY <1>4, ModAdd, Zenon
<1>6. (s + b) + (-x) = (b - a) + UINT * k
  BY <1>2, <1>3
<1>7. b - a \in 0 .. UINT - 1 /\ b - a \in Int
  BY Sizes
<1>8. ((b - a) + UINT * k) % UINT = (b - a) % UINT
  BY <1>7, ModShift, Zenon
<1>9. (b - a) % UINT = b - a
  BY <1>7, ModSmall, Zenon
<1>10. ((s + b) % UINT) + (-x) = ((s + b) % UINT) - x
  BY ModSplit, Zenon
<1>. QED
  BY <1>1, <1>5, <1>6, <1>8, <1>9, <1>10, Zenon DEF Diff

\* Wrapping an index does not change the cell that lies c after it.
LEMMA IndexWraps ==
    ASSUME NEW s \in Int, NEW c \in Int
    PROVE  /\ Index((s % UINT) + c) = Index(s + c)
           /\ Index(s) \in 0 .. INPUT_BUF - 1
<1>. /\ UINT \in Nat \ {0} /\ INPUT_BUF \in Nat \ {0} /\ UINT % INPUT_BUF = 0
  BY Sizes, Zenon
<1>1. PICK x \in Int : x = s % UINT
  BY ModSplit, Zenon
<1>2. x % INPUT_BUF = s % INPUT_BUF
  BY <1>1, ModMod, Zenon
<1>3. ((x % INPUT_BUF) + c) % INPUT_BUF = (x + c) % INPUT_BUF
  BY ModAdd, Zenon
<1>4. ((s % INPUT_BUF) + c) % INPUT_BUF = (s + c) % INPUT_BUF
  BY ModAdd, Zenon
<1>5. Index(s) \in 0 .. INPUT_BUF - 1
  BY DEF Index
<1>. QED
  BY <1>1, <1>2, <1>3, <1>4, <1>5, Zenon DEF Index

\* Cells less than INPUT_BUF apart are different.
LEMMA IndexApart ==
    ASSUME NEW j \in Int, NEW k \in Int, j < k, k < j + INPUT_BUF
    PROVE  Index(j) # Index(k)
BY Sizes, ModApart, Zenon DEF Index
-----------------------------------------------------------------------------
(* The characters in consecutive cells *)

Char == Stored \cup {"0"}
Buffer == [0 .. INPUT_BUF - 1 -> Char]

\* The n characters in the cells from index s on.
Run(d, s, n) == [i \in 1 .. n |-> d[Index(s + i - 1)]]

\* They are a sequence.
LEMMA RunType ==
    ASSUME NEW d \in Buffer, NEW s \in Int, NEW n \in Nat
    PROVE  /\ Run(d, s, n) \in Seq(Char) /\ Len(Run(d, s, n)) = n
           /\ \A i \in 1 .. n : Run(d, s, n)[i] = d[Index(s + i - 1)]
<1>1. ASSUME NEW i \in 1 .. n PROVE d[Index(s + i - 1)] \in Char
  <2>1. s + i - 1 \in Int
    OBVIOUS
  <2>2. Index(s + i - 1) \in 0 .. INPUT_BUF - 1
    BY <2>1, IndexWraps, Zenon
  <2>. QED
    BY <2>2, Zenon DEF Buffer
<1>2. PICK f : f = Run(d, s, n)
  BY Zenon
<1>3. f \in [1 .. n -> Char] /\ \A i \in 1 .. n : f[i] = d[Index(s + i - 1)]
  BY <1>1, <1>2, Zenon DEF Run
<1>4. f \in Seq(Char) /\ Len(f) = n
  <2>1. f \in Seq(Char) /\ DOMAIN f = 1 .. n
    BY <1>3, SeqDef, Zenon
  <2>2. Len(f) \in Nat /\ DOMAIN f = 1 .. Len(f)
    BY <2>1, LenProperties, Zenon
  <2>. QED
    BY <2>1, <2>2
<1>. QED
  BY <1>2, <1>3, <1>4, Zenon

\* A sequence with the same characters is the same.
LEMMA RunEqual ==
    ASSUME NEW d \in Buffer, NEW s \in Int, NEW n \in Nat,
           NEW q \in Seq(Char), Len(q) = n,
           \A i \in 1 .. n : q[i] = d[Index(s + i - 1)]
    PROVE  q = Run(d, s, n)
<1>1. PICK f \in Seq(Char) : /\ f = Run(d, s, n) /\ Len(f) = n
                             /\ \A i \in 1 .. n : f[i] = d[Index(s + i - 1)]
  BY RunType, Zenon
<1>2. \A i \in 1 .. n : q[i] = f[i]
  BY <1>1, Zenon
<1>. QED
  BY <1>1, <1>2, SeqEqual, Zenon

\* The index may have wrapped around.
LEMMA RunWraps ==
    ASSUME NEW d \in Buffer, NEW s \in Int, NEW n \in Nat
    PROVE  Run(d, s % UINT, n) = Run(d, s, n)
<1>1. PICK x \in Int : x = s % UINT
  BY Sizes, ModSplit, Zenon
<1>2. ASSUME NEW i \in 1 .. n PROVE Index(x + i - 1) = Index(s + i - 1)
  <2>1. PICK c \in Int : c = i - 1
    OBVIOUS
  <2>2. Index(x + c) = Index(s + c)
    BY <1>1, IndexWraps, Zenon
  <2>3. x + c = x + i - 1 /\ s + c = s + i - 1
    BY <2>1, Zenon
  <2>. QED
    BY <2>2, <2>3, Zenon
<1>3. Run(d, x, n) = Run(d, s, n)
  BY <1>2, Zenon DEF Run
<1>. QED
  BY <1>1, <1>3, Zenon

\* The first m of them.
LEMMA RunFirst ==
    ASSUME NEW d \in Buffer, NEW s \in Int, NEW n \in Nat, NEW m \in 0 .. n
    PROVE  SubSeq(Run(d, s, n), 1, m) = Run(d, s, m)
<1>1. PICK f \in Seq(Char) : /\ f = Run(d, s, n) /\ Len(f) = n
                             /\ \A i \in 1 .. n : f[i] = d[Index(s + i - 1)]
  BY RunType, Zenon
<1>2. PICK q : q = SubSeq(f, 1, m)
  BY Zenon
<1>3. /\ q \in Seq(Char) /\ Len(q) = m
      /\ \A i \in 1 .. m : q[i] = f[i]
  BY <1>1, <1>2, SubSeqProperties, SMTT(30)
<1>4. \A i \in 1 .. m : q[i] = d[Index(s + i - 1)]
  BY <1>1, <1>3
<1>5. m \in Nat
  OBVIOUS
<1>. QED
  BY <1>1, <1>2, <1>3, <1>4, <1>5, RunEqual, Zenon

\* The others.
LEMMA RunRest ==
    ASSUME NEW d \in Buffer, NEW s \in Int, NEW n \in Nat, NEW m \in 0 .. n
    PROVE  SubSeq(Run(d, s, n), m + 1, n) = Run(d, s + m, n - m)
<1>1. PICK f \in Seq(Char) : /\ f = Run(d, s, n) /\ Len(f) = n
                             /\ \A i \in 1 .. n : f[i] = d[Index(s + i - 1)]
  BY RunType, Zenon
<1>2. PICK q : q = SubSeq(f, m + 1, n)
  BY Zenon
<1>3. PICK x \in Nat : x = n - m
  OBVIOUS
<1>4. /\ q \in Seq(Char) /\ Len(q) = x
      /\ \A i \in 1 .. x : q[i] = f[m + i]
  <2>1. m + 1 \in 1 .. n + 1
    OBVIOUS
  <2>. QED
    BY <1>1, <1>2, <1>3, <2>1, SubSeqProperties, SMTT(30)
<1>5. PICK t \in Int : t = s + m
  OBVIOUS
<1>6. ASSUME NEW i \in 1 .. x PROVE q[i] = d[Index(t + i - 1)]
  <2>1. m + i \in 1 .. n /\ s + (m + i) - 1 = t + i - 1
    BY <1>3, <1>5
  <2>. QED
    BY <1>1, <1>4, <2>1, Zenon
<1>7. q = Run(d, t, x)
  BY <1>4, <1>6, RunEqual, Zenon
<1>. QED
  BY <1>1, <1>2, <1>3, <1>5, <1>7, Zenon

\* Two adjacent runs are one.
LEMMA RunConcat ==
    ASSUME NEW d \in Buffer, NEW s \in Int, NEW m \in Nat, NEW n \in Nat
    PROVE  Run(d, s, m) \o Run(d, s + m, n) = Run(d, s, m + n)
<1>1. PICK f \in Seq(Char) : /\ f = Run(d, s, m) /\ Len(f) = m
                             /\ \A i \in 1 .. m : f[i] = d[Index(s + i - 1)]
  BY RunType, Zenon
<1>2. PICK t \in Int : t = s + m
  OBVIOUS
<1>3. PICK g \in Seq(Char) : /\ g = Run(d, t, n) /\ Len(g) = n
                             /\ \A i \in 1 .. n : g[i] = d[Index(t + i - 1)]
  BY RunType, Zenon
<1>4. PICK q : q = f \o g
  BY Zenon
<1>5. /\ q \in Seq(Char) /\ Len(q) = m + n
      /\ \A i \in 1 .. m + n : q[i] = IF i <= m THEN f[i] ELSE g[i - m]
  <2>1. /\ q \in Seq(Char) /\ Len(q) = Len(f) + Len(g)
        /\ \A i \in 1 .. Len(f) + Len(g) :
              q[i] = IF i <= Len(f) THEN f[i] ELSE g[i - Len(f)]
    BY <1>4, ConcatProperties, Zenon
  <2>. QED
    BY <1>1, <1>3, <2>1, Zenon
<1>6. ASSUME NEW i \in 1 .. m + n PROVE q[i] = d[Index(s + i - 1)]
  <2>1. CASE i <= m
    BY <1>1, <1>5, <2>1
  <2>2. CASE ~(i <= m)
    <3>1. i - m \in 1 .. n /\ t + (i - m) - 1 = s + i - 1
      BY <1>2, <2>2
    <3>. QED
      BY <1>3, <1>5, <2>2, <3>1, Zenon
  <2>. QED
    BY <2>1, <2>2, Zenon
<1>7. m + n \in Nat
  OBVIOUS
<1>. QED
  BY <1>1, <1>2, <1>3, <1>4, <1>5, <1>6, <1>7, RunEqual, ZenonT(30)

\* One more character.
LEMMA RunAppend ==
    ASSUME NEW d \in Buffer, NEW s \in Int, NEW n \in Nat
    PROVE  Append(Run(d, s, n), d[Index(s + n)]) = Run(d, s, n + 1)
<1>1. PICK f \in Seq(Char) : /\ f = Run(d, s, n) /\ Len(f) = n
                             /\ \A i \in 1 .. n : f[i] = d[Index(s + i - 1)]
  BY RunType, Zenon
<1>2. PICK c : c = d[Index(s + n)]
  BY Zenon
<1>3. c \in Char
  <2>1. s + n \in Int
    OBVIOUS
  <2>2. Index(s + n) \in 0 .. INPUT_BUF - 1
    BY <2>1, IndexWraps, Zenon
  <2>. QED
    BY <1>2, <2>2, Zenon DEF Buffer
<1>4. PICK q : q = Append(f, c)
  BY Zenon
<1>5. /\ q \in Seq(Char) /\ Len(q) = n + 1 /\ q[n + 1] = c
      /\ \A i \in 1 .. n : q[i] = f[i]
  BY <1>1, <1>3, <1>4, AppendProperties
<1>6. ASSUME NEW i \in 1 .. n + 1 PROVE q[i] = d[Index(s + i - 1)]
  <2>1. CASE i <= n
    BY <1>1, <1>5, <2>1
  <2>2. CASE i = n + 1
    <3>1. s + i - 1 = s + n
      BY <2>2
    <3>. QED
      BY <1>2, <1>5, <2>2, <3>1, Zenon
  <2>. QED
    BY <2>1, <2>2
<1>7. n + 1 \in Nat
  OBVIOUS
<1>. QED
  BY <1>1, <1>2, <1>4, <1>5, <1>6, <1>7, RunEqual, Zenon
-----------------------------------------------------------------------------
(* The buffer as a value *)

Input == [buf : Buffer, r : 0 .. UINT - 1, w : 0 .. UINT - 1, e : 0 .. UINT - 1]

\* The buffer holds b characters, a of them in complete lines.
Holds(in, a, b) ==
    /\ in \in Input
    /\ a \in Nat /\ b \in Nat /\ a <= b /\ b <= INPUT_BUF
    /\ in.w = (in.r + a) % UINT /\ in.e = (in.r + b) % UINT

\* The characters between two indices, and those that can be read and edited.
Cut(in, j, k) == [i \in 1 .. Diff(k, j) |-> in.buf[Index(j + i - 1)]]
Cooked(in) == Cut(in, in.r, in.w)
Line(in) == Cut(in, in.w, in.e)

\* The distances of the indices.
LEMMA HoldsDiff ==
    ASSUME NEW in, NEW a, NEW b, Holds(in, a, b)
    PROVE  /\ Diff(in.w, in.r) = a /\ Diff(in.e, in.r) = b
           /\ Diff(in.e, in.w) = b - a
<1>1. PICK s \in Int : s = in.r
  BY Sizes DEF Holds, Input
<1>2. /\ a \in Int /\ b \in Int /\ 0 \in Int /\ a <= b /\ 0 <= a
      /\ b - a < UINT /\ a - 0 < UINT /\ b - 0 < UINT /\ 0 <= b
  BY Sizes DEF Holds
<1>3. (s + 0) % UINT = s
  <2>1. s + 0 = s /\ s \in 0 .. UINT - 1 /\ UINT \in Nat \ {0}
    BY <1>1, Sizes DEF Holds, Input
  <2>. QED
    BY <2>1, ModSmall, Zenon
<1>4. Diff((s + a) % UINT, (s + 0) % UINT) = a - 0
  BY <1>2, DiffApart, Zenon
<1>5. Diff((s + b) % UINT, (s + 0) % UINT) = b - 0
  BY <1>2, DiffApart, Zenon
<1>6. Diff((s + b) % UINT, (s + a) % UINT) = b - a
  BY <1>2, DiffApart, Zenon
<1>7. a - 0 = a /\ b - 0 = b
  BY <1>2
<1>8. in.w = (s + a) % UINT /\ in.e = (s + b) % UINT
  BY <1>1, Zenon DEF Holds
<1>. QED
  BY <1>1, <1>3, <1>4, <1>5, <1>6, <1>7, <1>8, Zenon

\* What can be read lies in the cells from r on, and what can be edited after it.
LEMMA HoldsText ==
    ASSUME NEW in, NEW a, NEW b, Holds(in, a, b)
    PROVE  /\ Cooked(in) = Run(in.buf, in.r, a)
           /\ Line(in) = Run(in.buf, in.r + a, b - a)
           /\ b - a \in Nat /\ in.r \in Int /\ in.r + a \in Int /\ in.buf \in Buffer
<1>1. /\ b - a \in Nat /\ in.r \in Int /\ in.r + a \in Int /\ in.buf \in Buffer
  BY Sizes DEF Holds, Input
<1>2. Cooked(in) = Run(in.buf, in.r, a)
  BY HoldsDiff, Zenon DEF Cooked, Cut, Run
<1>3. Line(in) = Run(in.buf, (in.r + a) % UINT, b - a)
  BY HoldsDiff, Zenon DEF Line, Cut, Run, Holds
<1>. QED
  BY <1>1, <1>2, <1>3, RunWraps, Zenon

\* Clearing the cells outside of the lines changes nothing else.
LEMMA TidyHolds ==
    ASSUME NEW in, NEW a, NEW b, Holds(in, a, b)
    PROVE  /\ Holds(Tidy(in), a, b)
           /\ Cooked(Tidy(in)) = Cooked(in) /\ Line(Tidy(in)) = Line(in)
           /\ Tidy(in).r = in.r
<1>1. PICK t : t = Tidy(in)
  BY Zenon
<1>2. /\ in \in Input /\ Diff(in.e, in.r) = b /\ a \in Nat /\ b \in Nat /\ a <= b
      /\ in.r \in Int /\ in.buf \in Buffer
  BY HoldsDiff, HoldsText, Zenon DEF Holds
<1>3. PICK d : d = [k \in 0 .. INPUT_BUF - 1 |->
                      IF \E i \in 1 .. b : Index(in.r + i - 1) = k THEN in.buf[k] ELSE "0"]
  BY Zenon
<1>4. t = [in EXCEPT !.buf = d]
  BY <1>1, <1>2, <1>3, Zenon DEF Tidy, Buffer
<1>5. d \in Buffer
  BY <1>2, <1>3, Zenon DEF Buffer, Char
<1>6. t \in Input /\ t.buf = d /\ t.r = in.r /\ t.w = in.w /\ t.e = in.e
  BY <1>2, <1>4, <1>5, Zenon DEF Input
<1>7. ASSUME NEW i \in 1 .. b
      PROVE  d[Index(in.r + i - 1)] = in.buf[Index(in.r + i - 1)]
  <2>1. in.r + i - 1 \in Int
    BY <1>2
  <2>2. Index(in.r + i - 1) \in 0 .. INPUT_BUF - 1
    BY <2>1, IndexWraps, Zenon
  <2>. QED
    BY <1>3, <2>2, Zenon
<1>8. Run(d, in.r, a) = Run(in.buf, in.r, a)
  <2>1. \A i \in 1 .. a : i \in 1 .. b
    BY <1>2
  <2>. QED
    BY <1>7, <2>1, Zenon DEF Run
<1>9. Run(d, in.r + a, b - a) = Run(in.buf, in.r + a, b - a)
  <2>1. ASSUME NEW i \in 1 .. b - a
        PROVE  d[Index((in.r + a) + i - 1)] = in.buf[Index((in.r + a) + i - 1)]
    <3>1. a + i \in 1 .. b /\ in.r + (a + i) - 1 = (in.r + a) + i - 1
      BY <1>2
    <3>. QED
      BY <1>7, <3>1, Zenon
  <2>. QED
    BY <2>1, Zenon DEF Run
<1>10. Holds(t, a, b)
  BY <1>6, Zenon DEF Holds
<1>. QED
  BY <1>1, <1>6, <1>8, <1>9, <1>10, HoldsText

\* The kill character forgets the line.
LEMMA KillLine ==
    ASSUME NEW in, NEW a, NEW b, Holds(in, a, b)
    PROVE  LET t == [in EXCEPT !.e = in.w]
           IN  /\ Holds(t, a, a) /\ t.r = in.r
               /\ Cooked(t) = Cooked(in) /\ Line(t) = << >>
<1>1. PICK t : t = [in EXCEPT !.e = in.w]
  BY Zenon
<1>2. Holds(t, a, a) /\ t.r = in.r /\ t.buf = in.buf
  BY <1>1, Sizes DEF Holds, Input
<1>3. Cooked(t) = Cooked(in)
  BY <1>2, HoldsText
<1>4. a - a = 0
  BY DEF Holds
<1>5. Line(t) = << >>
  BY <1>2, <1>4, HoldsText DEF Run
<1>. QED
  BY <1>1, <1>2, <1>3, <1>5, Zenon

\* Backspace takes back the last character of the line.
LEMMA EraseLast ==
    ASSUME NEW in, NEW a, NEW b, Holds(in, a, b), in.e # in.w
    PROVE  LET t == [in EXCEPT !.e = Diff(in.e, 1)]
           IN  /\ Holds(t, a, b - 1) /\ t.r = in.r
               /\ Cooked(t) = Cooked(in)
               /\ Line(in) # << >> /\ Line(t) = SubSeq(Line(in), 1, Len(Line(in)) - 1)
<1>1. PICK t : t = [in EXCEPT !.e = Diff(in.e, 1)]
  BY Zenon
<1>2. /\ in \in Input /\ a \in Nat /\ b \in Nat /\ a < b /\ b <= INPUT_BUF
      /\ UINT \in Nat \ {0} /\ in.r + b \in Int /\ in.r \in Int
  BY Sizes DEF Holds, Input
<1>3. Diff(in.e, 1) = (in.r + (b - 1)) % UINT
  <2>. -1 \in Int
    OBVIOUS
  <2>1. (((in.r + b) % UINT) + (-1)) % UINT = ((in.r + b) + (-1)) % UINT
    BY <1>2, ModAdd, Zenon
  <2>2. (in.r + b) + (-1) = in.r + (b - 1)
    BY <1>2
  <2>3. PICK x \in Int : x = (in.r + b) % UINT
    BY <1>2, ModSplit, Zenon
  <2>4. x + (-1) = x - 1
    BY Zenon
  <2>. QED
    BY <2>1, <2>2, <2>3, <2>4, Zenon DEF Diff, Holds
<1>4. Diff(in.e, 1) \in 0 .. UINT - 1
  <2>1. in.e - 1 \in Int
    BY <1>2 DEF Input
  <2>. QED
    BY <1>2, <2>1 DEF Diff
<1>5. b - 1 \in Nat /\ a <= b - 1 /\ b - 1 <= INPUT_BUF
  BY <1>2, Sizes
<1>6. Holds(t, a, b - 1) /\ t.r = in.r /\ t.buf = in.buf
  BY <1>1, <1>2, <1>3, <1>4, <1>5, Zenon DEF Holds, Input
<1>7. Cooked(t) = Cooked(in)
  BY <1>6, HoldsText
<1>8. PICK n \in Nat : n = b - a
  BY <1>2
<1>9. PICK m \in 0 .. n : m = (b - 1) - a /\ m = n - 1
  BY <1>2, <1>8
<1>10. PICK s \in Int : s = in.r + a
  BY <1>2
<1>11. Line(in) = Run(in.buf, s, n) /\ Line(t) = Run(in.buf, s, m) /\ in.buf \in Buffer
  BY <1>6, <1>8, <1>9, <1>10, HoldsText
<1>12. Len(Run(in.buf, s, n)) = n /\ n # 0
  <2>1. n # 0
    BY <1>2, <1>8
  <2>. QED
    BY <1>11, <2>1, RunType, Zenon
<1>13. Line(in) # << >>
  BY <1>11, <1>12
<1>14. Line(t) = SubSeq(Line(in), 1, m)
  BY <1>11, RunFirst, Zenon
<1>. QED
  BY <1>1, <1>6, <1>7, <1>9, <1>11, <1>12, <1>13, <1>14, Zenon

\* A character is stored after the others while there is room.
LEMMA StoreChar ==
    ASSUME NEW in, NEW a, NEW b, Holds(in, a, b), b < INPUT_BUF, NEW c \in Char
    PROVE  LET t == [in EXCEPT !.buf[Index(in.e)] = c, !.e = (in.e + 1) % UINT]
           IN  /\ Holds(t, a, b + 1) /\ t.r = in.r
               /\ Cooked(t) = Cooked(in) /\ Line(t) = Append(Line(in), c)
<1>1. PICK d : d = [in.buf EXCEPT ![Index(in.e)] = c]
  BY Zenon
<1>2. PICK t : t = [in EXCEPT !.buf = d, !.e = (in.e + 1) % UINT]
  BY Zenon
<1>3. /\ in \in Input /\ a \in Nat /\ b \in Nat /\ a <= b /\ b < INPUT_BUF
      /\ UINT \in Nat \ {0} /\ INPUT_BUF \in Nat \ {0} /\ INPUT_BUF < UINT
      /\ in.r + b \in Int /\ in.r \in Int
      /\ in.buf \in Buffer /\ in.e = (in.r + b) % UINT
  BY Sizes DEF Holds, Input
<1>4. (in.e + 1) % UINT = (in.r + (b + 1)) % UINT
  <2>1. (((in.r + b) % UINT) + 1) % UINT = ((in.r + b) + 1) % UINT
    BY <1>3, ModAdd
  <2>2. (in.r + b) + 1 = in.r + (b + 1)
    BY <1>3
  <2>. QED
    BY <1>3, <2>1, <2>2, Zenon
<1>5. (in.e + 1) % UINT \in 0 .. UINT - 1
  BY <1>3 DEF Input
<1>6. Index(in.e) = Index(in.r + b) /\ Index(in.r + b) \in 0 .. INPUT_BUF - 1
  <2>. PICK y \in Int : y = in.r + b
    BY <1>3, Zenon
  <2>0. 0 \in Int
    OBVIOUS
  <2>1. Index((y % UINT) + 0) = Index(y + 0)
    BY <2>0, IndexWraps, Zenon
  <2>2. PICK x \in Int : x = y % UINT
    BY <1>3, ModSplit, Zenon
  <2>3. x + 0 = x /\ y + 0 = y
    OBVIOUS
  <2>4. Index(in.r + b) \in 0 .. INPUT_BUF - 1
    BY <1>3, IndexWraps, Zenon
  <2>. QED
    BY <1>3, <2>1, <2>2, <2>3, <2>4, Zenon
<1>7. d \in Buffer /\ d[Index(in.r + b)] = c
  BY <1>1, <1>3, <1>6, Zenon DEF Buffer
<1>8. Holds(t, a, b + 1) /\ t.r = in.r /\ t.buf = d
  <2>1. b + 1 \in Nat /\ a <= b + 1 /\ b + 1 <= INPUT_BUF
    BY <1>3
  <2>2. t \in Input /\ t.r = in.r /\ t.buf = d /\ t.w = in.w /\ t.e = (in.e + 1) % UINT
    BY <1>2, <1>3, <1>5, <1>7, Zenon DEF Input
  <2>. QED
    BY <1>4, <2>1, <2>2, Zenon DEF Holds
<1>9. ASSUME NEW i \in 1 .. b
      PROVE  d[Index(in.r + i - 1)] = in.buf[Index(in.r + i - 1)]
  <2>1. PICK x \in Int : x = in.r + i - 1
    BY <1>3
  <2>2. x < in.r + b /\ in.r + b < x + INPUT_BUF
    BY <1>3, <2>1
  <2>3. Index(x) # Index(in.r + b) /\ Index(x) \in 0 .. INPUT_BUF - 1
    BY <1>3, <2>2, IndexApart, IndexWraps, Zenon
  <2>. QED
    BY <1>1, <1>3, <1>6, <2>1, <2>3, Zenon DEF Buffer
<1>10. Run(d, in.r, a) = Run(in.buf, in.r, a)
  <2>1. \A i \in 1 .. a : i \in 1 .. b
    BY <1>3
  <2>. QED
    BY <1>9, <2>1, Zenon DEF Run
<1>11. PICK n \in Nat : n = b - a /\ n + 1 = (b + 1) - a
  BY <1>3
<1>12. PICK s \in Int : s = in.r + a /\ s + n = in.r + b
  BY <1>3, <1>11
<1>13. Run(d, s, n) = Run(in.buf, s, n)
  <2>1. ASSUME NEW i \in 1 .. n
        PROVE  d[Index(s + i - 1)] = in.buf[Index(s + i - 1)]
    <3>1. a + i \in 1 .. b /\ in.r + (a + i) - 1 = s + i - 1
      BY <1>3, <1>11, <1>12
    <3>. QED
      BY <1>9, <3>1, Zenon
  <2>. QED
    BY <2>1, Zenon DEF Run
<1>14. Append(Run(d, s, n), c) = Run(d, s, n + 1)
  BY <1>7, <1>12, RunAppend, Zenon
<1>15. Cooked(t) = Cooked(in)
  BY <1>8, <1>10, HoldsText
<1>16. Line(t) = Run(d, s, n + 1) /\ Line(in) = Run(in.buf, s, n)
  BY <1>8, <1>11, <1>12, HoldsText
<1>17. t = [in EXCEPT !.buf[Index(in.e)] = c, !.e = (in.e + 1) % UINT]
  BY <1>1, <1>2, <1>3, Zenon DEF Input
<1>. QED
  BY <1>8, <1>13, <1>14, <1>15, <1>16, <1>17, Zenon

\* Setting w to e completes the line.
LEMMA CompleteLine ==
    ASSUME NEW in, NEW a, NEW b, Holds(in, a, b)
    PROVE  LET t == [in EXCEPT !.w = in.e]
           IN  /\ Holds(t, b, b) /\ t.r = in.r
               /\ Cooked(t) = Cooked(in) \o Line(in) /\ Line(t) = << >>
<1>1. PICK t : t = [in EXCEPT !.w = in.e]
  BY Zenon
<1>2. Holds(t, b, b) /\ t.r = in.r /\ t.buf = in.buf
  BY <1>1, Sizes DEF Holds, Input
<1>3. a \in Nat /\ b \in Nat /\ b - b = 0 /\ b - a \in Nat /\ a + (b - a) = b
  BY DEF Holds
<1>4. Line(t) = << >>
  BY <1>2, <1>3, HoldsText DEF Run
<1>5. PICK n \in Nat : n = b - a /\ a + n = b
  BY <1>3, Zenon
<1>6. in.buf \in Buffer /\ in.r \in Int
  BY HoldsText, Zenon
<1>7. Run(in.buf, in.r, a) \o Run(in.buf, in.r + a, n) = Run(in.buf, in.r, a + n)
  BY <1>3, <1>6, RunConcat, Zenon
<1>8. Cooked(t) = Cooked(in) \o Line(in)
  <2>1. Cooked(t) = Run(in.buf, in.r, b)
    BY <1>2, HoldsText, Zenon
  <2>2. Cooked(in) = Run(in.buf, in.r, a) /\ Line(in) = Run(in.buf, in.r + a, n)
    BY <1>5, HoldsText, Zenon
  <2>. QED
    BY <1>5, <1>7, <2>1, <2>2, Zenon
<1>. QED
  BY <1>1, <1>2, <1>4, <1>8, Zenon

\* Reading takes characters from the front.
LEMMA TakeChars ==
    ASSUME NEW in, NEW a, NEW b, Holds(in, a, b), NEW u \in 0 .. a
    PROVE  LET t == [in EXCEPT !.r = (in.r + u) % UINT]
           IN  /\ Holds(t, a - u, b - u)
               /\ Cooked(t) = SubSeq(Cooked(in), u + 1, a) /\ Line(t) = Line(in)
               /\ Len(Cooked(in)) = a /\ Cooked(in) \in Seq(Char)
<1>1. PICK t : t = [in EXCEPT !.r = (in.r + u) % UINT]
  BY Zenon
<1>2. /\ in \in Input /\ a \in Nat /\ b \in Nat /\ a <= b /\ b <= INPUT_BUF
      /\ UINT \in Nat \ {0} /\ INPUT_BUF \in Nat
      /\ in.r \in Int /\ in.buf \in Buffer /\ u \in Nat
  BY Sizes DEF Holds, Input
<1>3. PICK m \in Nat : m = a - u
  BY <1>2
<1>4. PICK n \in Nat : n = b - u /\ n - m = b - a
  BY <1>2, <1>3
<1>5. PICK s \in Int : s = in.r + u
  BY <1>2
<1>6. /\ t \in Input /\ t.r = s % UINT /\ t.buf = in.buf /\ t.w = in.w /\ t.e = in.e
  <2>1. s % UINT \in 0 .. UINT - 1
    BY <1>2
  <2>. QED
    BY <1>1, <1>2, <1>5, <2>1, Zenon DEF Input
<1>7. ASSUME NEW k \in Int PROVE ((s % UINT) + (k - u)) % UINT = (in.r + k) % UINT
  <2>1. k - u \in Int /\ s + (k - u) = in.r + k
    BY <1>2, <1>5
  <2>2. ((s % UINT) + (k - u)) % UINT = (s + (k - u)) % UINT
    BY <1>2, <2>1, ModAdd, Zenon
  <2>. QED
    BY <2>1, <2>2, Zenon
<1>8. Holds(t, m, n)
  <2>1. in.w = (in.r + a) % UINT /\ in.e = (in.r + b) % UINT
    BY Zenon DEF Holds
  <2>2. ((s % UINT) + (a - u)) % UINT = (in.r + a) % UINT
    BY <1>2, <1>7
  <2>3. ((s % UINT) + (b - u)) % UINT = (in.r + b) % UINT
    BY <1>2, <1>7
  <2>4. m <= n /\ n <= INPUT_BUF
    BY <1>2, <1>3, <1>4
  <2>. QED
    BY <1>3, <1>4, <1>6, <2>1, <2>2, <2>3, <2>4, Zenon DEF Holds
<1>9. Cooked(t) = SubSeq(Cooked(in), u + 1, a)
  <2>1. Cooked(t) = Run(in.buf, s % UINT, m) /\ Cooked(in) = Run(in.buf, in.r, a)
    BY <1>6, <1>8, HoldsText, Zenon
  <2>2. Run(in.buf, s % UINT, m) = Run(in.buf, s, m)
    BY <1>2, RunWraps, Zenon
  <2>3. SubSeq(Run(in.buf, in.r, a), u + 1, a) = Run(in.buf, in.r + u, a - u)
    BY <1>2, RunRest, Zenon
  <2>. QED
    BY <1>3, <1>5, <2>1, <2>2, <2>3, Zenon
<1>10. Line(t) = Line(in)
  BY <1>6, Zenon DEF Line, Cut
<1>11. Len(Cooked(in)) = a /\ Cooked(in) \in Seq(Char)
  BY <1>2, HoldsText, RunType
<1>. QED
  BY <1>1, <1>3, <1>4, <1>5, <1>8, <1>9, <1>10, <1>11, Zenon
-----------------------------------------------------------------------------
(* What the steps do *)

\* The state, as the lemmas above want it.
LEMMA InputHolds ==
    ASSUME TypeOK, OrderInv
    PROVE  Holds(input, Ready, Typed)
<1>1. input \in Input
  BY Zenon DEF TypeOK, Input, Buffer, Char
<1>2. PICK i \in Input : i = input
  BY <1>1, Zenon
<1>3. i.r \in 0 .. UINT - 1 /\ i.w \in 0 .. UINT - 1 /\ i.e \in 0 .. UINT - 1
  BY Zenon DEF Input
<1>4. /\ Diff(i.w, i.r) \in 0 .. UINT - 1 /\ (i.r + Diff(i.w, i.r)) % UINT = i.w
      /\ Diff(i.e, i.r) \in 0 .. UINT - 1 /\ (i.r + Diff(i.e, i.r)) % UINT = i.e
  BY <1>3, DiffBack, Zenon
<1>5. Diff(i.w, i.r) \in Nat /\ Diff(i.e, i.r) \in Nat
  BY <1>4, Sizes
<1>. QED
  BY <1>2, <1>4, <1>5, Zenon DEF Holds, OrderInv, Ready, Typed

\* A scan code is a character to store, a control character or nothing.
LEMMA KeyChars ==
    ASSUME NEW code \in Code
    PROVE  kbd_getc(code).c \in Stored \cup {"0", "^P", "^U", "^H"}
<1>1. ASSUME NEW key, NEW esc
      PROVE  ctlmap(key, esc) \in Stored \cup {"0", "^P", "^U", "^H"}
  <2>1. CASE key \in Letter /\ key # "enter" /\ ~esc
    <3>1. ctlmap(key, esc) = [d |-> "^D", h |-> "^H", p |-> "^P", u |-> "^U"][key]
      BY <2>1, Zenon DEF ctlmap
    <3>. QED
      BY <2>1, <3>1 DEF Letter, Stored
  <2>2. CASE key = "enter"
    BY <2>2, Zenon DEF ctlmap, Letter, Stored
  <2>3. CASE ~(key = "enter") /\ ~(key \in Letter /\ ~esc)
    BY <2>3, Zenon DEF ctlmap
  <2>. QED
    BY <2>1, <2>2, <2>3, Zenon
<1>2. ASSUME NEW key, NEW esc
      PROVE  normalmap(key, esc) \in Stored \cup {"0", "^P", "^U", "^H"}
  BY Zenon DEF normalmap, Stored, Letter
<1>3. ASSUME NEW mods, NEW key, NEW esc
      PROVE  charcode(mods, key, esc) \in Stored \cup {"0", "^P", "^U", "^H"}
  BY <1>1, <1>2, Zenon DEF charcode
<1>. QED
  BY <1>3, Zenon DEF kbd_getc

\* Storing a character, with w and the sleepers as console_intr leaves them.
Store(c) ==
    LET e1 == (input.e + 1) % UINT
    IN  /\ Unlocked /\ Room
        /\ input' = [input EXCEPT !.buf[Index(input.e)] = c, !.e = e1,
                        !.w = IF Complete(c, e1) THEN e1 ELSE @]
        /\ reader' = IF Complete(c, e1) THEN Woken(reader) ELSE reader

\* What a scan code can do to the line.
LEMMA IntrKinds ==
    ASSUME console_intr
    PROVE  /\ killed' = killed
           /\ \/ input' = Tidy([input EXCEPT !.e = input.w]) /\ reader' = reader
              \/ /\ input.e # input.w /\ reader' = reader
                 /\ input' = Tidy([input EXCEPT !.e = Diff(input.e, 1)])
              \/ \E c \in Stored : Store(c)
              \/ input' = input /\ reader' = reader
<1>1. PICK code \in Code :
        LET k == kbd_getc(code)
            c == k.c
            e1 == (input.e + 1) % UINT
            empty == input.e = input.w
        IN /\ Unlocked
           /\ CASE c = "^U" ->
                    input' = Tidy([input EXCEPT !.e = input.w]) /\ UNCHANGED reader
                [] c = "^H" ->
                    /\ input' = IF empty THEN input
                                ELSE Tidy([input EXCEPT !.e = Diff(@, 1)])
                    /\ UNCHANGED reader
                [] c \notin {"0", "^P", "^U", "^H"} /\ Room ->
                    /\ input' = [input EXCEPT !.buf[Index(input.e)] = c, !.e = e1,
                                   !.w = IF Complete(c, e1) THEN e1 ELSE @]
                    /\ reader' = IF Complete(c, e1) THEN Woken(reader) ELSE reader
                [] OTHER -> UNCHANGED <<input, reader>>
           /\ UNCHANGED killed
  BY Zenon DEF console_intr
<1>2. PICK c : c = kbd_getc(code).c
  BY Zenon
<1>3. c \in Stored \cup {"0", "^P", "^U", "^H"}
  BY <1>2, KeyChars, Zenon
<1>4. CASE c = "^U"
  BY <1>1, <1>2, <1>4, Zenon
<1>5. CASE c = "^H"
  BY <1>1, <1>2, <1>5, Zenon
<1>6. CASE c \notin {"0", "^P", "^U", "^H"} /\ Room
  <2>1. c \in Stored
    BY <1>3, <1>6, Zenon
  <2>2. Store(c)
    BY <1>1, <1>2, <1>6, Zenon DEF Store
  <2>. QED
    BY <1>1, <2>1, <2>2, Zenon
<1>7. CASE c \in {"0", "^P"} \/ (c \notin {"0", "^P", "^U", "^H"} /\ ~Room)
  BY <1>1, <1>2, <1>7, Zenon
<1>. QED
  BY <1>4, <1>5, <1>6, <1>7, Zenon

\* The line is complete at the end of the buffer.
LEMMA CompleteIs ==
    ASSUME TypeOK, OrderInv, NEW c
    PROVE  Complete(c, (input.e + 1) % UINT) <=>
              c \in {"\n", "^D"} \/ Typed + 1 = INPUT_BUF
<1>1. Holds(input, Ready, Typed)
  BY InputHolds, Zenon
<1>2. PICK b \in Nat : b = Typed /\ b <= INPUT_BUF
  BY <1>1, Zenon DEF Holds
<1>3. PICK s \in 0 .. UINT - 1 : s = input.r
  BY Zenon DEF TypeOK
<1>4. PICK e \in 0 .. UINT - 1 : e = input.e /\ e = (s + b) % UINT
  BY <1>1, <1>2, <1>3, Zenon DEF Holds, TypeOK
<1>5. /\ UINT \in Nat \ {0} /\ INPUT_BUF \in Nat \ {0} /\ INPUT_BUF < UINT
      /\ s + b \in Int /\ s \in Int
  BY <1>3, Sizes
<1>6. (e + 1) % UINT = (s + (b + 1)) % UINT
  <2>. 1 \in Int
    OBVIOUS
  <2>1. (((s + b) % UINT) + 1) % UINT = ((s + b) + 1) % UINT
    BY <1>5, ModAdd, Zenon
  <2>2. (s + b) + 1 = s + (b + 1)
    BY <1>5
  <2>. QED
    BY <1>4, <2>1, <2>2, Zenon
<1>7. b + 1 < INPUT_BUF => (s + (b + 1)) % UINT # (s + INPUT_BUF) % UINT
  <2>. SUFFICES ASSUME b + 1 < INPUT_BUF
                PROVE  (s + (b + 1)) % UINT # (s + INPUT_BUF) % UINT
    BY Zenon
  <2>1. PICK j \in Int : j = s + (b + 1)
    BY <1>5
  <2>2. PICK k \in Int : k = s + INPUT_BUF
    BY <1>5
  <2>3. j < k /\ k < j + UINT
    BY <1>5, <2>1, <2>2
  <2>4. j % UINT # k % UINT
    BY <1>5, <2>3, ModApart, Zenon
  <2>. QED
    BY <2>1, <2>2, <2>4, Zenon
<1>8. b = INPUT_BUF => (s + (b + 1)) % UINT # (s + INPUT_BUF) % UINT
  <2>. SUFFICES ASSUME b = INPUT_BUF
                PROVE  (s + (b + 1)) % UINT # (s + INPUT_BUF) % UINT
    BY Zenon
  <2>1. PICK j \in Int : j = s + (b + 1)
    BY <1>5
  <2>2. PICK k \in Int : k = s + INPUT_BUF
    BY <1>5, Zenon
  <2>3. k < j /\ j < k + UINT
    BY <1>5, <2>1, <2>2
  <2>4. j % UINT # k % UINT
    BY <1>5, <2>3, ModApart, Zenon
  <2>. QED
    BY <2>1, <2>2, <2>4, Zenon
<1>9. (s + (b + 1)) % UINT = (s + INPUT_BUF) % UINT <=> b + 1 = INPUT_BUF
  BY <1>2, <1>5, <1>7, <1>8
<1>. QED
  BY <1>2, <1>3, <1>4, <1>6, <1>9, Zenon DEF Complete

\* console_read() returns the first characters that are ready, and uses up as
\* many, or the one end of file that it has come to with nothing to return.
ReadResult(p, taken, used, to) ==
    LET v == Cooked(input)
    IN  /\ input' = Tidy([input EXCEPT !.r = (input.r + used) % UINT])
        /\ reader' = [reader EXCEPT ![p] =
              [n |-> reader[p].n - taken,
               got |-> reader[p].got \o SubSeq(v, 1, taken), pc |-> to]]
        /\ taken <= reader[p].n
        /\ to = "sleep" => used = Ready /\ taken < reader[p].n
        /\ \A j \in 1 .. taken - 1 : v[j] # "\n"
        /\ \A j \in 1 .. taken : v[j] # "^D"
        /\ \/ used = taken
           \/ /\ taken = 0 /\ used = 1 /\ v[1] = "^D"
              /\ reader[p].got = << >>

\* The loop of console_read(): it takes what it may, uses up what it takes, or an
\* end of file when it has nothing to return, and sleeps only when nothing is left.
LEMMA ReadKinds ==
    ASSUME TypeOK, OrderInv, CountInv, NEW p \in Reader, console_read(p)
    PROVE  \E taken, used \in 0 .. Ready, to \in {"return", "sleep"} :
             ReadResult(p, taken, used, to)
<1>. DEFINE v == Between(input.r, input.w)
            n == reader[p].n
            stops(j) == j = n \/ v[j] \in {"\n", "^D"}
<1>1. PICK k \in 0 .. Len(v) :
         LET stopped == k > 0 /\ stops(k)
             eof == stopped /\ v[k] = "^D"
             taken == IF eof THEN k - 1 ELSE k
             got == reader[p].got \o SubSeq(v, 1, taken)
             used == IF eof /\ got # << >> THEN k - 1 ELSE k
         IN  /\ \A j \in 1 .. (k - 1) : ~stops(j)
             /\ stopped \/ k = Len(v)
             /\ input' = Tidy([input EXCEPT !.r = (input.r + used) % UINT])
             /\ reader' = [reader EXCEPT ![p] =
                  [n |-> n - taken, got |-> got,
                   pc |-> IF stopped \/ killed[p] THEN "return" ELSE "sleep"]]
  BY Zenon DEF console_read
<1>. DEFINE stopped == k > 0 /\ stops(k)
            eof == stopped /\ v[k] = "^D"
            taken == IF eof THEN k - 1 ELSE k
            got == reader[p].got \o SubSeq(v, 1, taken)
            used == IF eof /\ got # << >> THEN k - 1 ELSE k
            to == IF stopped \/ killed[p] THEN "return" ELSE "sleep"
<1>0. reader[p].pc = "read"
  BY Zenon DEF console_read
<1>2. Holds(input, Ready, Typed)
  BY InputHolds, Zenon
<1>3. v \in Seq(Char) /\ Len(v) = Ready /\ Ready \in Nat /\ v = Cooked(input)
  <2>1. v = Cooked(input)
    BY Zenon DEF Between, Cooked, Cut
  <2>2. Ready \in Nat /\ v = Run(input.buf, input.r, Ready)
    BY <1>2, <2>1, HoldsText, Zenon DEF Holds
  <2>3. input.buf \in Buffer /\ input.r \in Int
    BY <1>2, HoldsText, Zenon
  <2>. QED
    BY <2>1, <2>2, <2>3, RunType
<1>4. n \in Nat /\ n > 0 /\ reader[p].got \in Seq(Char)
  BY <1>0, Zenon DEF TypeOK, CountInv, Waiting, Char
<1>. HIDE DEF v, n
<1>5. /\ \A j \in 1 .. (k - 1) : j # n /\ v[j] # "\n" /\ v[j] # "^D"
      /\ stopped \/ k = Len(v)
      /\ input' = Tidy([input EXCEPT !.r = (input.r + used) % UINT])
      /\ reader' = [reader EXCEPT ![p] = [n |-> n - taken, got |-> got, pc |-> to]]
  <2>1. /\ \A j \in 1 .. (k - 1) : ~stops(j)
        /\ stopped \/ k = Len(v)
        /\ input' = Tidy([input EXCEPT !.r = (input.r + used) % UINT])
        /\ reader' = [reader EXCEPT ![p] = [n |-> n - taken, got |-> got, pc |-> to]]
    BY <1>1, Zenon
  <2>2. \A j \in 1 .. (k - 1) : j # n /\ v[j] # "\n" /\ v[j] # "^D"
    BY <2>1, Zenon
  <2>. QED
    BY <2>1, <2>2, Zenon
<1>6. CASE ~stopped
  <2>1. ~eof /\ k = Ready /\ taken = Ready /\ used = Ready
    BY <1>3, <1>5, <1>6, Zenon
  <2>2. \A j \in 1 .. Ready : j # n /\ v[j] # "\n" /\ v[j] # "^D"
    <3>1. ASSUME NEW j \in 1 .. Ready PROVE j \in 1 .. (k - 1) \/ (j = k /\ k > 0)
      BY <1>3, <2>1
    <3>2. k > 0 => k # n /\ v[k] # "\n" /\ v[k] # "^D"
      BY <1>6, Zenon
    <3>. QED
      BY <1>5, <3>1, <3>2, Zenon
  <2>3. Ready < n
    BY <1>3, <1>4, <2>2
  <2>4. to \in {"return", "sleep"}
    BY Zenon
  <2>5. Ready \in 0 .. Ready /\ \A j \in 1 .. Ready - 1 : j \in 1 .. Ready
    BY <1>3
  <2>. HIDE DEF eof, taken, used, got, to
  <2>6. /\ input' = Tidy([input EXCEPT !.r = (input.r + Ready) % UINT])
        /\ reader' = [reader EXCEPT ![p] =
              [n |-> n - Ready, got |-> reader[p].got \o SubSeq(v, 1, Ready), pc |-> to]]
    BY <1>5, <2>1, Zenon DEF got
  <2>7. \A j \in 1 .. Ready - 1 : v[j] # "\n"
    BY <2>2, <2>5, Zenon
  <2>8. \A j \in 1 .. Ready : v[j] # "^D"
    BY <2>2, Zenon
  <2>9. Ready <= n
    BY <1>3, <1>4, <2>3
  <2>10. ReadResult(p, Ready, Ready, to)
    BY <1>3, <2>3, <2>6, <2>7, <2>8, <2>9, Zenon DEF n, ReadResult
  <2>. QED
    BY <2>4, <2>5, <2>10, Zenon
<1>7. CASE stopped
  <2>2. /\ k \in 1 .. Ready
        /\ \A j \in 1 .. Ready : j < k => v[j] # "\n" /\ v[j] # "^D"
        /\ k <= n
    <3>1. k \in 1 .. Ready
      BY <1>3, <1>7
    <3>2. ASSUME NEW j \in 1 .. Ready, j < k PROVE j \in 1 .. (k - 1)
      BY <1>3, <3>1, <3>2
    <3>3. n \notin 1 .. (k - 1)
      BY <1>5, Zenon
    <3>4. k <= n
      BY <1>3, <1>4, <3>1, <3>3
    <3>. QED
      BY <1>5, <3>1, <3>2, <3>4, Zenon
  <2>. PICK m \in 1 .. Ready : m = k
    BY <2>2, Zenon
  <2>3. to = "return" /\ (eof <=> v[m] = "^D")
    BY <1>7, Zenon
  <2>. HIDE DEF eof, to, stopped
  <2>4. CASE v[m] # "^D"
    <3>1. taken = m /\ used = m
      BY <2>3, <2>4, Zenon
    <3>2. m \in 0 .. Ready /\ \A j \in 1 .. m : j \in 1 .. Ready /\ (j < m \/ j = m)
      BY <1>3
    <3>3. (\A j \in 1 .. m - 1 : v[j] # "\n") /\ (\A j \in 1 .. m : v[j] # "^D")
      BY <1>3, <2>2, <2>4, <3>2
    <3>. HIDE DEF taken, used, got
    <3>4. ReadResult(p, m, m, to)
      BY <1>3, <1>5, <2>2, <2>3, <3>1, <3>3, Zenon DEF n, got, ReadResult
    <3>. QED
      BY <2>3, <3>2, <3>4, Zenon
  <2>5. CASE v[m] = "^D"
    <3>1. taken = m - 1 /\ used = IF got # << >> THEN m - 1 ELSE m
      BY <2>3, <2>5, Zenon
    <3>2. PICK i \in 0 .. Ready : i = m - 1
      BY <1>3
    <3>3. \A j \in 1 .. i : j \in 1 .. Ready /\ j < m
      BY <1>3, <3>2
    <3>4. (\A j \in 1 .. i - 1 : v[j] # "\n") /\ (\A j \in 1 .. i : v[j] # "^D")
      BY <1>3, <2>2, <3>2, <3>3
    <3>5. i <= n
      BY <1>3, <1>4, <2>2, <3>2
    <3>. HIDE DEF taken, used, got
    <3>6. CASE got # << >>
      <4>1. ReadResult(p, i, i, to)
        BY <1>3, <1>5, <2>3, <3>1, <3>2, <3>4, <3>5, <3>6, Zenon DEF n, got, ReadResult
      <4>. QED
        BY <2>3, <4>1, Zenon
    <3>7. CASE got = << >>
      <4>1. PICK g \in Seq(Char) : g = reader[p].got
        BY <1>4, Zenon
      <4>2. PICK h : h = SubSeq(v, 1, i)
        BY Zenon
      <4>3. h \in Seq(Char) /\ Len(h) = i
        BY <1>3, <3>2, <4>2, SubSeqProperties, SMTT(30)
      <4>4. g \o h = << >>
        BY <3>1, <3>2, <3>7, <4>1, <4>2, Zenon DEF got
      <4>5. Len(g \o h) = Len(g) + Len(h) /\ Len(g) \in Nat
        BY <4>3, ConcatProperties, LenProperties, Zenon
      <4>6. Len(g) = 0 /\ i = 0
        BY <4>3, <4>4, <4>5, <3>2
      <4>7. g = << >>
        BY <4>1, <4>6, EmptySeq, Zenon
      <4>8. m = 1 /\ m \in 0 .. Ready
        BY <3>2, <4>6
      <4>9. ReadResult(p, i, m, to)
        BY <1>3, <1>5, <2>3, <2>5, <3>1, <3>2, <3>4, <3>5, <3>7, <4>1, <4>6, <4>7, <4>8, Zenon
        DEF n, got, ReadResult
      <4>. QED
        BY <2>3, <4>8, <4>9, Zenon
    <3>. QED
      BY <3>6, <3>7, Zenon
  <2>. QED
    BY <2>4, <2>5, Zenon
<1>. QED
  BY <1>6, <1>7, Zenon
-----------------------------------------------------------------------------
(* The invariant *)

\* What the invariant says of the buffer, given what is in it.
LEMMA OrderOf ==
    ASSUME NEW a, NEW b, Holds(input', a, b), b = INPUT_BUF => a = INPUT_BUF
    PROVE  /\ input' \in Input /\ OrderInv' /\ Ready' = a /\ Typed' = b
<1>1. Diff(input'.w, input'.r) = a /\ Diff(input'.e, input'.r) = b
  BY HoldsDiff, Zenon
<1>2. Ready' = a /\ Typed' = b
  BY <1>1, Zenon DEF Ready, Typed
<1>. QED
  BY <1>2, Zenon DEF OrderInv, Holds

\* What the invariant says of the readers, given what can be read.
Readers(rd, ready) ==
    /\ rd \in [Reader -> [pc : Waiting \cup {"user", "return"}, n : Nat, got : Seq(Char)]]
    /\ \A p \in Reader :
         /\ rd[p].pc \in {"sleep", "asleep"} => ready = 0
         /\ rd[p].pc # "user" => /\ Len(rd[p].got) + rd[p].n = N[p]
                                 /\ rd[p].pc \in Waiting => rd[p].n > 0

\* The invariant in these terms.
LEMMA IInvIs ==
    IInv <=> /\ input \in Input /\ OrderInv /\ Readers(reader, Ready)
             /\ killed \in [Reader -> BOOLEAN]
BY Zenon DEF IInv, TypeOK, SleepInv, CountInv, Readers, Input, Buffer, Char

\* The same for the next state.
LEMMA IInvNext ==
    ASSUME input' \in Input, OrderInv', Readers(reader', Ready'),
           killed' \in [Reader -> BOOLEAN]
    PROVE  IInv'
BY Zenon DEF IInv, TypeOK, SleepInv, CountInv, Readers, Input, Buffer, Char

\* wakeup() leaves nobody asleep.
LEMMA WokenReaders ==
    ASSUME NEW ready, NEW ready2, Readers(reader, ready), Unlocked
    PROVE  Readers(Woken(reader), ready2)
<1>1. PICK rd : rd = Woken(reader)
  BY Zenon
<1>2. ASSUME NEW p \in Reader
      PROVE  /\ rd[p] \in [pc : Waiting \cup {"user", "return"}, n : Nat, got : Seq(Char)]
             /\ rd[p].pc \notin {"sleep", "asleep"}
             /\ rd[p].n = reader[p].n /\ rd[p].got = reader[p].got
             /\ rd[p].pc = "user" <=> reader[p].pc = "user"
             /\ rd[p].pc \in Waiting <=> reader[p].pc \in Waiting
  <2>1. reader[p] \in [pc : Waiting \cup {"user", "return"}, n : Nat, got : Seq(Char)]
    BY Zenon DEF Readers
  <2>2. CASE reader[p].pc = "asleep"
    <3>1. rd[p] = [reader[p] EXCEPT !.pc = "read"]
      BY <1>1, <2>2, Zenon DEF Woken
    <3>2. rd[p].pc = "read" /\ rd[p].n = reader[p].n /\ rd[p].got = reader[p].got
      BY <2>1, <3>1, Zenon
    <3>3. rd[p] \in [pc : Waiting \cup {"user", "return"}, n : Nat, got : Seq(Char)]
      BY <2>1, <3>1, Zenon DEF Waiting
    <3>. QED
      BY <2>2, <3>2, <3>3, Zenon DEF Waiting
  <2>3. CASE reader[p].pc # "asleep"
    <3>1. rd[p] = reader[p]
      BY <1>1, <2>3, Zenon DEF Woken
    <3>. QED
      BY <2>1, <2>3, <3>1 DEF Unlocked
  <2>. QED
    BY <2>2, <2>3, Zenon
<1>3. rd \in [Reader -> [pc : Waiting \cup {"user", "return"}, n : Nat, got : Seq(Char)]]
  BY <1>1, <1>2, Zenon DEF Woken
<1>. QED
  BY <1>1, <1>2, <1>3, Zenon DEF Readers

\* A round of console_intr's loop: what becomes of the buffer and of the readers.
LEMMA StoreStep ==
    ASSUME IInv, NEW c \in Stored, Store(c)
    PROVE  /\ Typed < INPUT_BUF /\ Typed \in Nat /\ Ready \in Nat
           /\ LET l == Append(Line(input), c)
              IN  \/ /\ c \in {"\n", "^D"} \/ Typed + 1 = INPUT_BUF
                     /\ Holds(input', Typed + 1, Typed + 1)
                     /\ Cooked(input') = Cooked(input) \o l /\ Line(input') = << >>
                     /\ reader' = Woken(reader) /\ Unlocked
                  \/ /\ ~(c \in {"\n", "^D"} \/ Typed + 1 = INPUT_BUF)
                     /\ Holds(input', Ready, Typed + 1)
                     /\ Cooked(input') = Cooked(input) /\ Line(input') = l
                     /\ reader' = reader
<1>1. TypeOK /\ OrderInv /\ Holds(input, Ready, Typed)
  BY InputHolds, Zenon DEF IInv
<1>2. Typed < INPUT_BUF /\ Typed \in Nat /\ Ready \in Nat /\ c \in Char
  BY <1>1, Zenon DEF Store, Room, Typed, Holds, Char
<1>3. PICK t : t = [input EXCEPT !.buf[Index(input.e)] = c, !.e = (input.e + 1) % UINT]
  BY Zenon
<1>4. /\ Holds(t, Ready, Typed + 1) /\ t.r = input.r
      /\ Cooked(t) = Cooked(input) /\ Line(t) = Append(Line(input), c)
  BY <1>1, <1>2, <1>3, StoreChar, Zenon
<1>5. input \in Input
  BY <1>1, Zenon DEF Holds
<1>6. CASE Complete(c, (input.e + 1) % UINT)
  <2>1. c \in {"\n", "^D"} \/ Typed + 1 = INPUT_BUF
    BY <1>1, <1>6, CompleteIs, Zenon
  <2>2. input' = [t EXCEPT !.w = t.e]
    BY <1>3, <1>5, <1>6, Zenon DEF Store, Input
  <2>3. /\ Holds(input', Typed + 1, Typed + 1)
        /\ Cooked(input') = Cooked(t) \o Line(t) /\ Line(input') = << >>
    BY <1>4, <2>2, CompleteLine, Zenon
  <2>. QED
    BY <1>2, <1>4, <1>6, <2>1, <2>3, Zenon DEF Store
<1>7. CASE ~Complete(c, (input.e + 1) % UINT)
  <2>1. ~(c \in {"\n", "^D"} \/ Typed + 1 = INPUT_BUF)
    BY <1>1, <1>7, CompleteIs, Zenon
  <2>2. input' = t
    BY <1>3, <1>5, <1>7, Zenon DEF Store, Input
  <2>. QED
    BY <1>2, <1>4, <1>7, <2>1, <2>2, Zenon DEF Store
<1>. QED
  BY <1>6, <1>7, Zenon

\* The steps that edit the line.
LEMMA EditStep ==
    ASSUME IInv
    PROVE  /\ input' = Tidy([input EXCEPT !.e = input.w]) =>
                /\ Holds(input', Ready, Ready)
                /\ Cooked(input') = Cooked(input) /\ Line(input') = << >>
           /\ input.e # input.w /\ input' = Tidy([input EXCEPT !.e = Diff(input.e, 1)]) =>
                /\ Holds(input', Ready, Typed - 1)
                /\ Cooked(input') = Cooked(input) /\ Line(input) # << >>
                /\ Line(input') = SubSeq(Line(input), 1, Len(Line(input)) - 1)
<1>1. Holds(input, Ready, Typed)
  BY InputHolds, Zenon DEF IInv
<1>2. ASSUME input' = Tidy([input EXCEPT !.e = input.w])
      PROVE  /\ Holds(input', Ready, Ready)
             /\ Cooked(input') = Cooked(input) /\ Line(input') = << >>
  <2>1. PICK t : t = [input EXCEPT !.e = input.w]
    BY Zenon
  <2>2. Holds(t, Ready, Ready) /\ Cooked(t) = Cooked(input) /\ Line(t) = << >>
    BY <1>1, <2>1, KillLine, Zenon
  <2>. QED
    BY <1>2, <2>1, <2>2, TidyHolds, Zenon
<1>3. ASSUME input.e # input.w, input' = Tidy([input EXCEPT !.e = Diff(input.e, 1)])
      PROVE  /\ Holds(input', Ready, Typed - 1)
             /\ Cooked(input') = Cooked(input) /\ Line(input) # << >>
             /\ Line(input') = SubSeq(Line(input), 1, Len(Line(input)) - 1)
  <2>1. PICK t : t = [input EXCEPT !.e = Diff(input.e, 1)]
    BY Zenon
  <2>2. /\ Holds(t, Ready, Typed - 1) /\ Cooked(t) = Cooked(input) /\ Line(input) # << >>
        /\ Line(t) = SubSeq(Line(input), 1, Len(Line(input)) - 1)
    BY <1>1, <1>3, <2>1, EraseLast, Zenon
  <2>. QED
    BY <1>3, <2>1, <2>2, TidyHolds, Zenon
<1>. QED
  BY <1>2, <1>3, Zenon

\* Characters are taken from the front of what can be read.
LEMMA ReadStep ==
    ASSUME IInv, NEW u \in 0 .. Ready,
           input' = Tidy([input EXCEPT !.r = (input.r + u) % UINT])
    PROVE  /\ Holds(input', Ready - u, Typed - u)
           /\ Cooked(input') = SubSeq(Cooked(input), u + 1, Ready)
           /\ Line(input') = Line(input)
           /\ Len(Cooked(input)) = Ready /\ Cooked(input) \in Seq(Char)
           /\ Ready \in Nat /\ Typed \in Nat
<1>1. Holds(input, Ready, Typed)
  BY InputHolds, Zenon DEF IInv
<1>2. PICK t : t = [input EXCEPT !.r = (input.r + u) % UINT]
  BY Zenon
<1>3. /\ Holds(t, Ready - u, Typed - u)
      /\ Cooked(t) = SubSeq(Cooked(input), u + 1, Ready) /\ Line(t) = Line(input)
      /\ Len(Cooked(input)) = Ready /\ Cooked(input) \in Seq(Char)
  BY <1>1, <1>2, TakeChars, Zenon
<1>4. Ready \in Nat /\ Typed \in Nat
  BY <1>1, Zenon DEF Holds
<1>. QED
  BY <1>2, <1>3, <1>4, TidyHolds, Zenon

\* A reader that changes alone.
LEMMA OneReader ==
    ASSUME NEW ready, NEW ready2, Readers(reader, ready), NEW p \in Reader, NEW x,
           x \in [pc : Waiting \cup {"user", "return"}, n : Nat, got : Seq(Char)],
           x.pc \in {"sleep", "asleep"} => ready2 = 0,
           x.pc # "user" => /\ Len(x.got) + x.n = N[p]
                            /\ x.pc \in Waiting => x.n > 0,
           ready = 0 => ready2 = 0
    PROVE  Readers([reader EXCEPT ![p] = x], ready2)
BY Zenon DEF Readers

\* The steps of a reader other than the loop of console_read().
LEMMA ReaderSteps ==
    ASSUME IInv, NEW p \in Reader,
           call(p) \/ sleep(p) \/ return(p) \/ kill(p)
    PROVE  IInv'
<1>1. /\ input \in Input /\ OrderInv /\ Readers(reader, Ready)
      /\ killed \in [Reader -> BOOLEAN]
  BY IInvIs, Zenon
<1>2. input' = input /\ Ready' = Ready /\ OrderInv'
  BY <1>1, Zenon DEF call, sleep, return, kill, Ready, Typed, OrderInv
<1>3. killed' \in [Reader -> BOOLEAN]
  BY <1>1, Zenon DEF call, sleep, return, kill
<1>. DEFINE R == [pc : Waiting \cup {"user", "return"}, n : Nat, got : Seq(Char)]
<1>4. reader[p] \in R /\ N[p] \in Nat /\ N[p] > 0
  BY <1>1, ConsoleAssumption DEF Readers
<1>5. << >> \in Seq(Char) /\ Len(<< >>) = 0
  OBVIOUS
<1>6. CASE call(p)
  <2>1. PICK x : x = [Idle EXCEPT !.pc = "read", !.n = N[p]]
    BY Zenon
  <2>2. reader' = [reader EXCEPT ![p] = x]
    BY <1>6, <2>1, Zenon DEF call
  <2>3. /\ x \in R /\ x.pc = "read" /\ x.n > 0
        /\ Len(x.got) + x.n = N[p]
    <3>1. Idle \in R /\ Idle.got = << >>
      BY <1>5, Zenon DEF Idle
    <3>2. x \in R /\ x.pc = "read" /\ x.n = N[p] /\ x.got = << >>
      BY <1>4, <2>1, <3>1, Zenon DEF Waiting
    <3>. QED
      BY <1>4, <1>5, <3>2
  <2>4. Readers(reader', Ready)
    BY <1>1, <2>2, <2>3, OneReader, Zenon
  <2>. QED
    BY <1>1, <1>2, <1>3, <2>4, IInvNext, Zenon
<1>7. CASE sleep(p)
  <2>1. PICK x : x = [reader[p] EXCEPT !.pc = "asleep"]
    BY Zenon
  <2>2. reader' = [reader EXCEPT ![p] = x] /\ reader[p].pc = "sleep"
    BY <1>1, <1>7, <2>1, Zenon DEF sleep, Readers
  <2>3. x \in R /\ x.pc = "asleep" /\ x.n = reader[p].n /\ x.got = reader[p].got
    BY <1>4, <2>1, Zenon DEF Waiting
  <2>4. Ready = 0 /\ Len(x.got) + x.n = N[p] /\ x.n > 0
    BY <1>1, <2>2, <2>3, Zenon DEF Readers, Waiting
  <2>5. Readers(reader', Ready)
    BY <1>1, <2>2, <2>3, <2>4, OneReader, Zenon
  <2>. QED
    BY <1>1, <1>2, <1>3, <2>5, IInvNext, Zenon
<1>8. CASE return(p)
  <2>1. PICK x : x = [pc |-> "user", n |-> 0, got |-> << >>]
    BY Zenon
  <2>2. reader' = [reader EXCEPT ![p] = x]
    BY <1>8, <2>1, Zenon DEF return, Idle
  <2>3. x \in R /\ x.pc = "user"
    BY <1>5, <2>1, Zenon
  <2>4. Readers(reader', Ready)
    BY <1>1, <2>2, <2>3, OneReader, Zenon
  <2>. QED
    BY <1>1, <1>2, <1>3, <2>4, IInvNext, Zenon
<1>9. CASE kill(p)
  <2>1. PICK to : to = IF reader[p].pc = "asleep" THEN "read" ELSE reader[p].pc
    BY Zenon
  <2>2. PICK x : x = [reader[p] EXCEPT !.pc = to]
    BY Zenon
  <2>3. reader' = [reader EXCEPT ![p] = x] /\ reader[p].pc # "user"
    BY <1>1, <1>9, <2>1, <2>2, Zenon DEF kill, Readers
  <2>4. x \in R /\ x.pc = to /\ x.n = reader[p].n /\ x.got = reader[p].got
    BY <1>4, <2>1, <2>2, Zenon DEF Waiting
  <2>5. /\ Len(x.got) + x.n = N[p]
        /\ x.pc \in Waiting => x.n > 0
        /\ x.pc \in {"sleep", "asleep"} => Ready = 0
    BY <1>1, <2>1, <2>3, <2>4, Zenon DEF Readers, Waiting
  <2>6. Readers([reader EXCEPT ![p] = x], Ready)
    <3>1. to # "user"
      BY <2>1, <2>3, Zenon
    <3>. QED
      BY <1>1, <2>4, <2>5, <3>1, OneReader, Zenon
  <2>. QED
    BY <1>1, <1>2, <1>3, <2>3, <2>6, IInvNext, Zenon
<1>. QED
  BY <1>6, <1>7, <1>8, <1>9, Zenon

\* A turn of the loop of console_read().
LEMMA ReadInv ==
    ASSUME IInv, NEW p \in Reader, console_read(p)
    PROVE  IInv'
<1>1. /\ input \in Input /\ OrderInv /\ Readers(reader, Ready)
      /\ killed \in [Reader -> BOOLEAN] /\ TypeOK /\ CountInv
  BY IInvIs, Zenon DEF IInv
<1>2. reader[p].pc = "read" /\ killed' = killed
  BY Zenon DEF console_read
<1>3. PICK taken \in 0 .. Ready, used \in 0 .. Ready, to \in {"return", "sleep"} :
         /\ input' = Tidy([input EXCEPT !.r = (input.r + used) % UINT])
         /\ reader' = [reader EXCEPT ![p] =
               [n |-> reader[p].n - taken,
                got |-> reader[p].got \o SubSeq(Cooked(input), 1, taken), pc |-> to]]
         /\ taken <= reader[p].n
         /\ to = "sleep" => used = Ready /\ taken < reader[p].n
  BY <1>1, ReadKinds, Zenon DEF ReadResult
<1>4. /\ Holds(input', Ready - used, Typed - used)
      /\ Len(Cooked(input)) = Ready /\ Cooked(input) \in Seq(Char)
      /\ Ready \in Nat /\ Typed \in Nat
  BY <1>3, ReadStep, Zenon
<1>5. Typed - used = INPUT_BUF => Ready - used = INPUT_BUF
  BY <1>1, <1>4, Sizes DEF OrderInv
<1>6. input' \in Input /\ OrderInv' /\ Ready' = Ready - used
  BY <1>4, <1>5, OrderOf, Zenon
<1>7. PICK g \in Seq(Char) : g = reader[p].got /\ Len(g) \in Nat
  BY <1>1, LenProperties, Zenon DEF Readers
<1>8. PICK h : h = SubSeq(Cooked(input), 1, taken)
  BY Zenon
<1>9. h \in Seq(Char) /\ Len(h) = taken
  BY <1>4, <1>8, SubSeqProperties, SMTT(30)
<1>10. g \o h \in Seq(Char) /\ Len(g \o h) = Len(g) + taken
  BY <1>9, ConcatProperties, Zenon
<1>11. PICK n \in Nat : /\ n = reader[p].n - taken /\ Len(g \o h) + n = N[p]
                        /\ to = "sleep" => n > 0
  <2>1. PICK m \in Nat : m = reader[p].n /\ Len(g) + m = N[p]
    BY <1>1, <1>2, <1>7, Zenon DEF Readers
  <2>2. taken \in Nat /\ taken <= m /\ (to = "sleep" => taken < m)
    BY <1>3, <1>4, <2>1
  <2>3. m - taken \in Nat /\ (Len(g) + taken) + (m - taken) = Len(g) + m
    BY <1>7, <2>2
  <2>4. to = "sleep" => m - taken > 0
    BY <2>2
  <2>. QED
    BY <1>10, <2>1, <2>3, <2>4, Zenon
<1>12. PICK x : x = [n |-> n, got |-> g \o h, pc |-> to]
  BY Zenon
<1>13. /\ x \in [pc : Waiting \cup {"user", "return"}, n : Nat, got : Seq(Char)]
       /\ x.pc = to /\ x.n = n /\ x.got = g \o h
  BY <1>10, <1>12, Zenon DEF Waiting
<1>14. to = "sleep" => Ready' = 0
  <2>1. Ready - Ready = 0
    BY <1>4
  <2>. QED
    BY <1>3, <1>6, <2>1, Zenon
<1>15. Ready = 0 => Ready' = 0
  <2>1. PICK a \in Nat : a = Ready
    BY <1>4, Zenon
  <2>2. PICK u \in Nat : u = used /\ u <= a
    BY <2>1
  <2>3. a = 0 => a - u = 0
    BY <2>2
  <2>. QED
    BY <1>6, <2>1, <2>2, <2>3, Zenon
<1>16. /\ x.pc \in {"sleep", "asleep"} => Ready' = 0
       /\ x.pc # "user" => /\ Len(x.got) + x.n = N[p]
                           /\ x.pc \in Waiting => x.n > 0
  BY <1>11, <1>13, <1>14, Zenon DEF Waiting
<1>17. PICK ready2 : ready2 = Ready'
  BY Zenon
<1>18. Readers([reader EXCEPT ![p] = x], ready2)
  BY <1>1, <1>13, <1>15, <1>16, <1>17, OneReader, Zenon
<1>19. reader' = [reader EXCEPT ![p] = x]
  BY <1>3, <1>7, <1>8, <1>11, <1>12, Zenon
<1>. QED
  BY <1>1, <1>2, <1>6, <1>17, <1>18, <1>19, IInvNext, Zenon

\* A scan code.
LEMMA IntrInv ==
    ASSUME IInv, console_intr
    PROVE  IInv'
<1>1. /\ input \in Input /\ OrderInv /\ Readers(reader, Ready)
      /\ killed \in [Reader -> BOOLEAN]
  BY IInvIs, Zenon
<1>2. Holds(input, Ready, Typed)
  BY InputHolds, Zenon DEF IInv
<1>3. /\ Ready \in Nat /\ Typed \in Nat /\ INPUT_BUF \in Nat /\ Ready <= Typed
      /\ Typed <= INPUT_BUF
  BY <1>2, Sizes, Zenon DEF Holds
<1>4. killed' \in [Reader -> BOOLEAN]
  BY <1>1, IntrKinds, Zenon
<1>5. CASE input' = Tidy([input EXCEPT !.e = input.w]) /\ reader' = reader
  <2>1. Holds(input', Ready, Ready)
    BY <1>5, EditStep, Zenon
  <2>2. input' \in Input /\ OrderInv' /\ Ready' = Ready
    BY <2>1, OrderOf, Zenon
  <2>. QED
    BY <1>1, <1>4, <1>5, <2>2, IInvNext, Zenon
<1>6. CASE /\ input.e # input.w /\ reader' = reader
           /\ input' = Tidy([input EXCEPT !.e = Diff(input.e, 1)])
  <2>1. Holds(input', Ready, Typed - 1)
    BY <1>6, EditStep, Zenon
  <2>2. Typed - 1 # INPUT_BUF
    BY <1>3
  <2>3. input' \in Input /\ OrderInv' /\ Ready' = Ready
    BY <2>1, <2>2, OrderOf, Zenon
  <2>. QED
    BY <1>1, <1>4, <1>6, <2>3, IInvNext, Zenon
<1>7. ASSUME NEW c \in Stored, Store(c) PROVE IInv'
  <2>1. CASE /\ Holds(input', Typed + 1, Typed + 1)
             /\ reader' = Woken(reader) /\ Unlocked
    <3>1. input' \in Input /\ OrderInv'
      BY <2>1, OrderOf, Zenon
    <3>2. PICK r2 : r2 = Ready'
      BY Zenon
    <3>3. Readers(Woken(reader), r2)
      BY <1>1, <2>1, WokenReaders, Zenon
    <3>. QED
      BY <1>1, <1>4, <2>1, <3>1, <3>2, <3>3, IInvNext, Zenon
  <2>2. CASE /\ Typed + 1 # INPUT_BUF /\ Holds(input', Ready, Typed + 1)
             /\ reader' = reader
    <3>1. input' \in Input /\ OrderInv' /\ Ready' = Ready
      BY <2>2, OrderOf, Zenon
    <3>. QED
      BY <1>1, <1>4, <2>2, <3>1, IInvNext, Zenon
  <2>. QED
    BY <1>7, <2>1, <2>2, StoreStep, Zenon
<1>8. CASE input' = input /\ reader' = reader
  <2>1. OrderInv' /\ Ready' = Ready
    BY <1>1, <1>8, Zenon DEF OrderInv, Ready, Typed
  <2>. QED
    BY <1>1, <1>4, <1>8, <2>1, IInvNext, Zenon
<1>. QED
  BY <1>5, <1>6, <1>7, <1>8, IntrKinds, Zenon

\* The console after boot.
LEMMA InitInv == Init => IInv
<1>. SUFFICES ASSUME Init PROVE IInv
  BY Zenon
<1>1. PICK r \in 0 .. UINT - 1 :
        input = [buf |-> [k \in 0 .. INPUT_BUF - 1 |-> "0"], r |-> r, w |-> r, e |-> r]
  BY Zenon DEF Init
<1>2. input \in Input /\ input.r = r /\ input.w = r /\ input.e = r
  BY <1>1, Zenon DEF Input, Buffer, Char
<1>3. Diff(r, r) = 0
  <2>1. r - r = 0 /\ UINT \in Nat \ {0} /\ 0 \in 0 .. UINT - 1
    BY Sizes
  <2>. QED
    BY <2>1, ModSmall, Zenon DEF Diff
<1>4. Ready = 0 /\ Typed = 0
  BY <1>2, <1>3, Zenon DEF Ready, Typed
<1>5. OrderInv
  BY <1>4, Sizes DEF OrderInv
<1>6. Idle \in [pc : Waiting \cup {"user", "return"}, n : Nat, got : Seq(Char)]
      /\ Idle.pc = "user"
  BY DEF Idle
<1>7. Readers(reader, Ready)
  BY <1>6, Zenon DEF Init, Readers
<1>8. killed \in [Reader -> BOOLEAN]
  BY Zenon DEF Init
<1>. QED
  BY <1>2, <1>5, <1>7, <1>8, IInvIs, Zenon

\* The inductive invariant holds: the three indices stay in order and no more
\* than INPUT_BUF apart, a full buffer counts as a line, who sleeps has read
\* everything, and no read is given more than it asked for.
THEOREM Invariant == Spec => []IInv
<1>1. IInv /\ [Next]_vars => IInv'
  <2>. SUFFICES ASSUME IInv, [Next]_vars PROVE IInv'
    BY Zenon
  <2>1. CASE console_intr
    BY <2>1, IntrInv, Zenon
  <2>2. ASSUME NEW p \in Reader,
               call(p) \/ console_read(p) \/ sleep(p) \/ return(p) \/ kill(p)
        PROVE  IInv'
    BY <2>2, ReadInv, ReaderSteps, Zenon
  <2>3. CASE UNCHANGED vars
    BY <2>3, Zenon DEF vars, IInv, TypeOK, OrderInv, SleepInv, CountInv, Ready, Typed
  <2>. QED
    BY <2>1, <2>2, <2>3, Zenon DEF Next
<1>. QED
  BY <1>1, InitInv, PTL DEF Spec

\* A process sleeps in console_read() only while there is no complete line, and
\* then there is room to type the rest of one: the console cannot get stuck with
\* a full buffer and everybody asleep.
THEOREM SleepersHaveReasonHolds == Spec => []SleepersHaveReason
<1>1. IInv => SleepersHaveReason
  <2>. SUFFICES ASSUME IInv, Asleep # {} PROVE input.r = input.w /\ Room
    BY Zenon DEF SleepersHaveReason
  <2>1. Ready = 0
    BY Zenon DEF Asleep, IInv, SleepInv
  <2>2. Holds(input, Ready, Typed)
    BY InputHolds, Zenon DEF IInv
  <2>3. PICK r \in 0 .. UINT - 1 : r = input.r
    BY <2>2, Zenon DEF Holds, Input
  <2>4. input.w = (r + 0) % UINT
    BY <2>1, <2>2, <2>3, Zenon DEF Holds
  <2>5. (r + 0) % UINT = r
    <3>1. r + 0 = r /\ UINT \in Nat \ {0}
      BY Sizes
    <3>. QED
      BY <3>1, ModSmall, Zenon
  <2>6. Typed \in Nat /\ Typed <= INPUT_BUF /\ Typed # INPUT_BUF /\ INPUT_BUF \in Nat
    BY <2>1, <2>2, Sizes, Zenon DEF Holds, IInv, OrderInv
  <2>7. Room
    BY <2>6 DEF Room, Typed
  <2>. QED
    BY <2>3, <2>4, <2>5, <2>7, Zenon
<1>. QED
  BY <1>1, Invariant, PTL

\* console_intr() and console_read() implement the line discipline of module Tty,
\* for any size of the buffer and although all three indices wrap around: what is
\* typed is read once and in order, editing stays within the line, a read takes
\* no more than a line, and an end of file ends exactly one read.
THEOREM ConsoleIsTty == Spec => TtySpec
<1>. DEFINE line == Between(input.w, input.e)
            cooked == Between(input.r, input.w)
            got == [p \in Reader |-> reader[p].got]
<1>1. Init => T!TtyInit
  <2>. SUFFICES ASSUME Init PROVE T!TtyInit
    BY Zenon
  <2>1. PICK r \in 0 .. UINT - 1 : input.r = r /\ input.w = r /\ input.e = r
    BY DEF Init
  <2>2. Diff(r, r) = 0
    <3>1. r - r = 0 /\ UINT \in Nat \ {0} /\ 0 \in 0 .. UINT - 1
      BY Sizes
    <3>. QED
      BY <3>1, ModSmall, Zenon DEF Diff
  <2>3. line = << >> /\ cooked = << >>
    BY <2>1, <2>2 DEF Between
  <2>4. got = [p \in Reader |-> << >>]
    BY Zenon DEF Init, Idle
  <2>. QED
    BY <2>3, <2>4, Zenon DEF T!TtyInit
<1>2. IInv /\ [Next]_vars => [T!TtyNext]_(T!ttyVars)
  <2>. SUFFICES ASSUME IInv, [Next]_vars PROVE [T!TtyNext]_(T!ttyVars)
    BY Zenon
  <2>1. line = Line(input) /\ cooked = Cooked(input)
    BY Zenon DEF Between, Line, Cooked, Cut
  <2>2. line' = Line(input') /\ cooked' = Cooked(input')
    BY Zenon DEF Between, Line, Cooked, Cut
  <2>3. TypeOK /\ OrderInv /\ CountInv /\ Holds(input, Ready, Typed)
    BY InputHolds, Zenon DEF IInv
  <2>4. /\ Ready \in Nat /\ Typed \in Nat /\ INPUT_BUF \in Nat /\ Ready <= Typed
        /\ Len(cooked) = Ready /\ Len(line) = Typed - Ready
        /\ cooked \in Seq(Char) /\ line \in Seq(Char)
    <3>1. /\ cooked = Run(input.buf, input.r, Ready)
          /\ line = Run(input.buf, input.r + Ready, Typed - Ready)
          /\ Typed - Ready \in Nat /\ input.r \in Int /\ input.r + Ready \in Int
          /\ input.buf \in Buffer
      BY <2>1, <2>3, HoldsText, Zenon
    <3>2. Ready \in Nat /\ Typed \in Nat /\ INPUT_BUF \in Nat /\ Ready <= Typed
      BY <2>3, Sizes, Zenon DEF Holds
    <3>3. ASSUME NEW q, NEW s \in Int, NEW n \in Nat, q = Run(input.buf, s, n)
          PROVE  q \in Seq(Char) /\ Len(q) = n
      BY <3>1, <3>3, RunType, Zenon
    <3>4. cooked \in Seq(Char) /\ Len(cooked) = Ready
      BY <3>1, <3>2, <3>3, Zenon
    <3>5. line \in Seq(Char) /\ Len(line) = Typed - Ready
      BY <3>1, <3>3, Zenon
    <3>. QED
      BY <3>2, <3>4, <3>5, Zenon
  <2>. HIDE DEF line, cooked
  <2>5. ASSUME reader' = reader PROVE got' = got
    BY <2>5, Zenon
  <2>6. CASE console_intr
    <3>1. CASE input' = Tidy([input EXCEPT !.e = input.w]) /\ reader' = reader
      <4>1. line' = << >> /\ cooked' = cooked /\ got' = got
        BY <2>1, <2>2, <2>5, <3>1, EditStep, Zenon
      <4>. QED
        BY <4>1, Zenon DEF T!TtyNext, T!EraseLine, line, cooked
    <3>2. CASE /\ input.e # input.w /\ reader' = reader
               /\ input' = Tidy([input EXCEPT !.e = Diff(input.e, 1)])
      <4>1. /\ line # << >> /\ line' = SubSeq(line, 1, Len(line) - 1)
            /\ cooked' = cooked /\ got' = got
        BY <2>1, <2>2, <2>5, <3>2, EditStep, Zenon
      <4>. QED
        BY <4>1, Zenon DEF T!TtyNext, T!Erase, line, cooked
    <3>3. ASSUME NEW c \in Stored, Store(c) PROVE T!TtyNext
      <4>1. INPUT_BUF - Len(cooked) - Len(line) = INPUT_BUF - Typed /\ INPUT_BUF - Typed > 0
        BY <2>4, <3>3, StoreStep
      <4>2. /\ got' = got
            /\ IF c \in {"\n", "^D"} \/ INPUT_BUF - Typed = 1
               THEN cooked' = cooked \o Append(line, c) /\ line' = << >>
               ELSE line' = Append(line, c) /\ cooked' = cooked
        <5>1. Typed + 1 = INPUT_BUF <=> INPUT_BUF - Typed = 1
          BY <2>4
        <5>2. ASSUME reader' = Woken(reader) PROVE got' = got
          <6>1. \A p \in Reader : reader'[p].got = reader[p].got
            BY <5>2, <2>3, Zenon DEF Woken, TypeOK
          <6>. QED
            BY <6>1, Zenon
        <5>. QED
          BY <2>1, <2>2, <2>5, <3>3, <5>1, <5>2, StoreStep, Zenon
      <4>3. T!Type(c)
        BY <4>1, <4>2, Zenon DEF T!Type, line, cooked
      <4>. QED
        BY <4>3, Zenon DEF T!TtyNext, Stored
    <3>4. CASE input' = input /\ reader' = reader
      BY <2>1, <2>2, <2>5, <3>4, Zenon DEF T!ttyVars, line, cooked
    <3>. QED
      BY <2>6, <3>1, <3>2, <3>3, <3>4, IntrKinds, Zenon
  <2>7. ASSUME NEW p \in Reader, call(p) \/ return(p) PROVE T!TtyNext
    <3>1. line' = line /\ cooked' = cooked
      BY <2>1, <2>2, <2>7, Zenon DEF call, return
    <3>2. PICK x : reader' = [reader EXCEPT ![p] = x] /\ x.got = << >>
      <4>1. Idle.got = << >> /\ [Idle EXCEPT !.pc = "read", !.n = N[p]].got = << >>
        BY Zenon DEF Idle
      <4>. QED
        BY <2>7, <4>1, Zenon DEF call, return
    <3>3. \A q \in Reader : reader'[q].got = IF q = p THEN << >> ELSE reader[q].got
      BY <2>3, <3>2, Zenon DEF TypeOK
    <3>4. got' = [got EXCEPT ![p] = << >>]
      BY <3>3, Zenon
    <3>. QED
      BY <3>1, <3>4, Zenon DEF T!TtyNext, T!Return, line, cooked
  <2>8. ASSUME NEW p \in Reader, sleep(p) \/ kill(p) PROVE UNCHANGED T!ttyVars
    <3>1. line' = line /\ cooked' = cooked
      BY <2>1, <2>2, <2>8, Zenon DEF sleep, kill
    <3>2. \A q \in Reader : reader'[q].got = reader[q].got
      <4>1. PICK to : reader' = [reader EXCEPT ![p] = [reader[p] EXCEPT !.pc = to]]
        BY <2>3, <2>8, Zenon DEF sleep, kill, TypeOK
      <4>2. reader[p] \in [pc : Waiting \cup {"user", "return"}, n : Nat,
                           got : Seq(Stored \cup {"0"})]
        BY <2>3, Zenon DEF TypeOK
      <4>3. [reader[p] EXCEPT !.pc = to].got = reader[p].got
        BY <4>2, Zenon
      <4>. QED
        BY <2>3, <4>1, <4>3, Zenon DEF TypeOK
    <3>3. got' = got
      BY <3>2, Zenon
    <3>. QED
      BY <3>1, <3>3, Zenon DEF T!ttyVars, line, cooked
  <2>9. ASSUME NEW p \in Reader, console_read(p) PROVE [T!TtyNext]_(T!ttyVars)
    <3>1. PICK taken \in 0 .. Ready, used \in 0 .. Ready, to \in {"return", "sleep"} :
             /\ input' = Tidy([input EXCEPT !.r = (input.r + used) % UINT])
             /\ reader' = [reader EXCEPT ![p] =
                   [n |-> reader[p].n - taken,
                    got |-> reader[p].got \o SubSeq(cooked, 1, taken), pc |-> to]]
             /\ \A j \in 1 .. taken - 1 : cooked[j] # "\n"
             /\ \A j \in 1 .. taken : cooked[j] # "^D"
             /\ \/ used = taken
                \/ /\ taken = 0 /\ used = 1 /\ cooked[1] = "^D"
                   /\ reader[p].got = << >>
      <4>1. PICK taken \in 0 .. Ready, used \in 0 .. Ready, to \in {"return", "sleep"} :
               ReadResult(p, taken, used, to)
        BY <2>3, <2>9, ReadKinds, Zenon
      <4>. QED
        BY <2>1, <4>1, Zenon DEF ReadResult
    <3>2. cooked' = SubSeq(cooked, used + 1, Len(cooked)) /\ line' = line
      BY <2>1, <2>2, <2>4, <3>1, ReadStep, Zenon
    <3>3. got' = [got EXCEPT ![p] = got[p] \o SubSeq(cooked, 1, taken)]
      BY <2>3, <3>1, Zenon DEF TypeOK
    <3>4. got[p] = reader[p].got /\ got[p] \in Seq(Char)
      BY <2>3, Zenon DEF TypeOK, Char
    <3>. HIDE DEF got
    <3>5. taken = 0 => got' = got
      <4>. SUFFICES ASSUME taken = 0 PROVE got' = got
        BY Zenon
      <4>1. SubSeq(cooked, 1, 0) = << >>
        BY <2>4, SubSeqEmpty
      <4>2. got[p] \o << >> = got[p]
        BY <3>4, ConcatEmptySeq, Zenon
      <4>. QED
        BY <3>3, <4>1, <4>2, Zenon DEF got
    <3>6. CASE used = taken /\ taken # 0
      <4>1. taken \in 1 .. Len(cooked)
        BY <2>4, <3>6
      <4>2. T!Take(p)
        BY <3>1, <3>2, <3>3, <3>6, <4>1, Zenon DEF T!Take, line, cooked, got
      <4>. QED
        BY <4>2, Zenon DEF T!TtyNext
    <3>7. CASE used = taken /\ taken = 0
      <4>1. SubSeq(cooked, 1, Len(cooked)) = cooked
        BY <2>4, SubSeqFull, Zenon
      <4>2. cooked' = cooked
        BY <3>2, <3>7, <4>1
      <4>. QED
        BY <3>2, <3>5, <3>7, <4>2, Zenon DEF T!ttyVars, line, cooked, got
    <3>8. CASE taken = 0 /\ used = 1 /\ cooked[1] = "^D" /\ reader[p].got = << >>
      <4>1. cooked # << >> /\ Head(cooked) = cooked[1]
        BY <2>4, <3>8
      <4>2. Tail(cooked) = SubSeq(cooked, 2, Len(cooked))
        BY <2>4, <4>1, TailIsSubSeq, Zenon
      <4>3. T!TakeEof(p)
        BY <3>2, <3>4, <3>5, <3>8, <4>1, <4>2 DEF T!TakeEof, line, cooked, got
      <4>. QED
        BY <4>3, Zenon DEF T!TtyNext
    <3>. QED
      BY <3>1, <3>6, <3>7, <3>8, Zenon
  <2>10. CASE UNCHANGED vars
    BY <2>1, <2>2, <2>5, <2>10, Zenon DEF vars, T!ttyVars, line, cooked
  <2>. QED
    BY <2>6, <2>7, <2>8, <2>9, <2>10, Zenon DEF Next
<1>. QED
  BY <1>1, <1>2, Invariant, PTL DEF Spec, TtySpec, T!TtySpec
=============================================================================
