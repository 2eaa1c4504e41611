--------------------------- MODULE BcacheProofs ---------------------------
(***************************************************************************)
(* Proofs about module Bcache, for any number of processes, buffers and    *)
(* blocks: the cache and the driver implement the block store of module    *)
(* BlockStore (StoreSpec), a sleeper in bget() has somebody to wait for,   *)
(* and the only panic that can be reached is "bget: no buffers", when more *)
(* than NBUF / 2 processes are at work.                                    *)
(*                                                                         *)
(* The idea: a buffer on its way through the driver belongs to a process   *)
(* that holds it and waits, so that nobody changes what the drive was told *)
(* to do with it; and no two buffers cache one block.                      *)
(***************************************************************************)
EXTENDS Bcache, TLAPS

InUse(b) == busy[b] \/ valid[b]

\* The driver has work to do for b.
Pending(b) == dirty[b] \/ ~valid[b]

\* Where a process is that has put its buffer into the queue.
InQueue == {"on_b", "ide_check"}

TypeOK ==
    /\ busy \in [Buf -> BOOLEAN] /\ valid \in [Buf -> BOOLEAN]
    /\ dirty \in [Buf -> BOOLEAN]
    /\ sector \in [Buf -> Sector] /\ data \in [Buf -> Value]
    /\ lru \in Seq(Buf) /\ ide_queue \in Seq(Buf)
    /\ drive \in [state : {"idle", "busy", "done", "error"}, write : BOOLEAN,
                  sector : Sector, count : {0, 1}, val : Value]
    /\ disk \in [Sector -> Value] /\ lost \in SUBSET Sector
    /\ pc \in [Proc -> {"fs", "bget", "on_buf", "ide_rw", "on_b", "ide_check"}]
    /\ want \in [Proc -> Sector] /\ cur \in [Proc -> Buf]
    /\ hold \in [Proc -> SUBSET Buf]
    /\ panicked \in BOOLEAN

\* Every buffer is in the list.
LruInv == \A b \in Buf : \E k \in 1 .. Len(lru) : lru[k] = b

\* A buffer is busy when one process holds it.
HoldInv ==
    /\ \A b \in Buf : busy[b] <=> \E p \in Proc : b \in hold[p]
    /\ \A p, q \in Proc : \A b \in hold[p] : b \in hold[q] => p = q

\* No two buffers cache one block.
OneCopy == \A b, c \in Buf : InUse(b) /\ InUse(c) /\ sector[b] = sector[c] => b = c

\* What a process holds, and what it may ask for on top of it.
OrderInv ==
    \A p \in Proc :
        /\ \A b, c \in hold[p] : (sector[b] \in Indirect <=> sector[c] \in Indirect) => b = c
        /\ pc[p] \in {"bget", "on_buf"} =>
              \/ hold[p] = {}
              \/ want[p] \notin Indirect /\ \A b \in hold[p] : sector[b] \in Indirect

\* A process in the driver holds its buffer, and the driver has work to do when
\* it comes; a buffer for which there is work belongs to such a process.
IdeInv ==
    /\ \A p \in Proc : InIde(p) => cur[p] \in hold[p]
    /\ \A p \in Proc : pc[p] = "ide_rw" => Pending(cur[p])
    /\ \A b \in Buf : busy[b] /\ Pending(b) => \E p \in Proc : InIde(p) /\ cur[p] = b
    /\ \A b \in Buf : dirty[b] => busy[b] /\ valid[b]

\* The requests in the queue: one for each buffer, whose process waits.
QueueInv ==
    /\ \A k \in 1 .. Len(ide_queue) :
          /\ Pending(ide_queue[k])
          /\ \E p \in Proc : pc[p] \in InQueue /\ cur[p] = ide_queue[k]
    /\ \A j, k \in 1 .. Len(ide_queue) : ide_queue[j] = ide_queue[k] => j = k

\* The drive works on the first request, whose buffer has not changed since.
DriveInv ==
    /\ drive.state = "busy" => ide_queue # <<>>
    /\ ide_queue # <<>> =>
          /\ drive.sector = sector[ide_queue[1]] /\ drive.count = 1
          /\ drive.write = dirty[ide_queue[1]]
          /\ drive.write => drive.val = data[ide_queue[1]]
          /\ drive.write /\ drive.state = "done" => disk[drive.sector] = drive.val
          /\ drive.state = "error" => drive.sector \in lost

\* A buffer that need not be written is what is on the disk.
Coherent ==
    \A b \in Buf : ~Pending(b) /\ sector[b] \notin lost => data[b] = disk[sector[b]]

\* Who sleeps in bget() waits for a buffer that somebody else has.
SleeperInv ==
    \A p \in Proc : pc[p] = "on_buf" =>
        \E b \in Buf : busy[b] /\ sector[b] = want[p] /\ b \notin hold[p]

\* The one panic that can be reached: a process asks for a buffer and all are busy.
NoBuffers ==
    panicked => /\ \A b \in Buf : busy[b]
                /\ \E p \in Proc : pc[p] = "bget" /\ NotCached(want[p])

IInv ==
    /\ TypeOK /\ LruInv /\ HoldInv /\ OneCopy /\ OrderInv /\ IdeInv /\ QueueInv
    /\ DriveInv /\ Coherent /\ SleeperInv /\ NoBuffers
-----------------------------------------------------------------------------
\* What the proofs need to know about sequences: their length and elements, ...
LEMMA SeqLen ==
    ASSUME NEW S, NEW s \in Seq(S)
    PROVE  Len(s) \in Nat /\ DOMAIN s = 1 .. Len(s)
OBVIOUS

LEMMA SeqElement ==
    ASSUME NEW S, NEW s \in Seq(S), NEW k \in 1 .. Len(s)
    PROVE  s[k] \in S
OBVIOUS

LEMMA SeqNonEmpty ==
    ASSUME NEW S, NEW s \in Seq(S), s # <<>>
    PROVE  1 \in 1 .. Len(s) /\ Len(s) > 0
OBVIOUS

\* ... when a function is a sequence, ...
LEMMA SeqMade ==
    ASSUME NEW S, NEW n \in Nat, NEW f \in [1 .. n -> S]
    PROVE  f \in Seq(S) /\ Len(f) = n
OBVIOUS

\* ... and what is left of one without its head, or with one more element.
LEMMA SeqTail ==
    ASSUME NEW S, NEW s \in Seq(S), s # <<>>
    PROVE  /\ Head(s) = s[1] /\ Tail(s) \in Seq(S) /\ Len(Tail(s)) = Len(s) - 1
           /\ \A i \in 1 .. Len(Tail(s)) : Tail(s)[i] = s[i + 1]
OBVIOUS

LEMMA SeqAppend ==
    ASSUME NEW S, NEW s \in Seq(S), NEW e \in S
    PROVE  /\ Append(s, e) \in Seq(S) /\ Append(s, e) # <<>>
           /\ Len(Append(s, e)) = Len(s) + 1
           /\ \A i \in 1 .. Len(s) : Append(s, e)[i] = s[i]
           /\ Append(s, e)[Len(s) + 1] = e
OBVIOUS

\* bget()'s loops see buffers, and all of them.
LEMMA ListFacts ==
    ASSUME TypeOK, LruInv
    PROVE  /\ \A k \in 1 .. Len(lru) : lru[k] \in Buf
           /\ \A s : NotCached(s) => \A b \in Buf : ~Caches(b, s)
<1>1. lru \in Seq(Buf)
  BY Zenon DEF TypeOK
<1>2. \A k \in 1 .. Len(lru) : lru[k] \in Buf
  BY <1>1, SeqElement, Zenon
<1>3. \A s : NotCached(s) => \A b \in Buf : ~Caches(b, s)
  BY Zenon DEF LruInv, NotCached
<1>. QED
  BY <1>2, <1>3, Zenon

\* brelse() moves a buffer to the front of the list and loses none.
LEMMA ToFrontFacts ==
    ASSUME TypeOK, LruInv, NEW b \in Buf
    PROVE  /\ ToFront(b) \in Seq(Buf)
           /\ \A c \in Buf : \E k \in 1 .. Len(ToFront(b)) : ToFront(b)[k] = c
<1>1. PICK n \in Nat : n = Len(lru) /\ lru \in Seq(Buf)
  BY SeqLen, Zenon DEF TypeOK
<1>2. \A k \in 1 .. n : lru[k] \in Buf
  BY <1>1, SeqElement, Zenon
<1>3. PICK m \in 1 .. n : m = (CHOOSE k \in 1 .. Len(lru) : lru[k] = b) /\ lru[m] = b
  <2>1. \E k \in 1 .. n : lru[k] = b
    BY <1>1, Zenon DEF LruInv
  <2>. QED
    BY <1>1, <2>1, Zenon
<1>4. PICK u : u = ToFront(b)
  BY Zenon
<1>5. u = [k \in 1 .. n |-> CASE k = 1              -> b
                             [] 1 < k /\ k <= m  -> lru[k - 1]
                             [] OTHER            -> lru[k]]
  BY <1>1, <1>3, <1>4 DEF ToFront
<1>6. \A k \in 1 .. n : k # 1 => k - 1 \in 1 .. n
  OBVIOUS
<1>7. u \in [1 .. n -> Buf]
  BY <1>2, <1>5, <1>6
<1>8. u \in Seq(Buf) /\ Len(u) = n
  BY <1>7, SeqMade, Zenon
<1>9. ASSUME NEW c \in Buf PROVE \E k \in 1 .. n : u[k] = c
  <2>1. PICK j \in 1 .. n : lru[j] = c
    BY <1>1, Zenon DEF LruInv
  <2>2. CASE j = m
    <3>1. c = b /\ 1 \in 1 .. n
      BY <1>3, <2>1, <2>2
    <3>. QED
      BY <1>5, <3>1
  <2>3. CASE j < m
    <3>1. PICK h \in 1 .. n : h = j + 1 /\ h # 1 /\ 1 < h /\ h <= m /\ h - 1 = j
      BY <2>3
    <3>. QED
      BY <1>5, <2>1, <3>1, Zenon
  <2>4. CASE j > m
    <3>1. j # 1 /\ ~(j <= m)
      BY <2>4
    <3>. QED
      BY <1>5, <2>1, <3>1, Zenon
  <2>. QED
    BY <2>2, <2>3, <2>4
<1>. QED
  BY <1>4, <1>8, <1>9, Zenon
-----------------------------------------------------------------------------
\* What holds of the buffers and of who holds them is left alone by a step that
\* changes neither.
LEMMA BuffersKept ==
    ASSUME IInv, UNCHANGED <<busy, valid, dirty, sector, hold>>
    PROVE  /\ HoldInv' /\ OneCopy'
           /\ \A b \in Buf : /\ InUse(b)' = InUse(b) /\ Pending(b)' = Pending(b)
<1>1. busy' = busy /\ valid' = valid /\ dirty' = dirty /\ sector' = sector /\ hold' = hold
  BY Zenon
<1>2. HoldInv'
  BY <1>1, Zenon DEF IInv, HoldInv
<1>3. \A b \in Buf : InUse(b)' = InUse(b) /\ Pending(b)' = Pending(b)
  BY <1>1, Zenon DEF InUse, Pending
<1>4. OneCopy'
  BY <1>1, Zenon DEF IInv, OneCopy, InUse
<1>. QED
  BY <1>2, <1>3, <1>4, Zenon

\* bread() asks for a block that keeps to the order.
LEMMA Bread ==
    ASSUME IInv, ~panicked, NEW p \in Proc, NEW s \in Sector, bread(p, s)
    PROVE  IInv'
<1>1. /\ busy' = busy /\ valid' = valid /\ dirty' = dirty /\ sector' = sector
      /\ data' = data /\ lru' = lru /\ ide_queue' = ide_queue /\ drive' = drive
      /\ disk' = disk /\ lost' = lost /\ cur' = cur /\ hold' = hold /\ panicked' = panicked
  BY Zenon DEF bread, bufVars
<1>2. /\ pc \in [Proc -> {"fs", "bget", "on_buf", "ide_rw", "on_b", "ide_check"}]
      /\ want \in [Proc -> Sector]
  BY Zenon DEF IInv, TypeOK
<1>3. /\ pc' = [pc EXCEPT ![p] = "bget"] /\ want' = [want EXCEPT ![p] = s]
      /\ pc[p] = "fs"
      /\ hold[p] = {} \/ (s \notin Indirect /\ \A b \in hold[p] : sector[b] \in Indirect)
  BY Zenon DEF bread
<1>4. /\ pc'[p] = "bget" /\ want'[p] = s
      /\ \A q \in Proc \ {p} : pc'[q] = pc[q] /\ want'[q] = want[q]
      /\ pc' \in [Proc -> {"fs", "bget", "on_buf", "ide_rw", "on_b", "ide_check"}]
      /\ want' \in [Proc -> Sector]
  BY <1>2, <1>3, Zenon
<1>5. TypeOK' /\ LruInv' /\ NoBuffers'
  BY <1>1, <1>4, Zenon DEF IInv, TypeOK, LruInv, NoBuffers
<1>6. HoldInv' /\ OneCopy' /\ \A b \in Buf : Pending(b)' = Pending(b)
  BY <1>1, BuffersKept, Zenon
<1>7. OrderInv'
  BY <1>1, <1>3, <1>4 DEF IInv, OrderInv
<1>8. \A q \in Proc : /\ InIde(q)' = InIde(q) /\ (pc'[q] = "ide_rw" <=> pc[q] = "ide_rw")
                      /\ (pc'[q] \in InQueue <=> pc[q] \in InQueue)
                      /\ (pc'[q] = "on_buf" => q # p /\ pc[q] = "on_buf")
  BY <1>3, <1>4 DEF InIde, InQueue
<1>9. IdeInv'
  BY <1>1, <1>6, <1>8, Zenon DEF IInv, IdeInv, TypeOK
<1>10. QueueInv'
  BY <1>1, <1>6, <1>8, SeqElement DEF IInv, QueueInv, TypeOK
<1>11. DriveInv' /\ Coherent'
  BY <1>1, <1>6, Zenon DEF IInv, DriveInv, Coherent
<1>12. SleeperInv'
  BY <1>1, <1>4, <1>8, Zenon DEF IInv, SleeperInv
<1>. QED
  BY <1>5, <1>6, <1>7, <1>9, <1>10, <1>11, <1>12, Zenon DEF IInv

\* The order of the blocks that a process asks for is kept while nobody asks.
LEMMA OrderKept ==
    ASSUME OrderInv, hold' = hold, sector' = sector, want' = want,
           \A p \in Proc : pc'[p] \in {"bget", "on_buf"} => pc[p] \in {"bget", "on_buf"}
    PROVE  OrderInv'
<1>1. ASSUME NEW p \in Proc, NEW b \in hold[p], NEW c \in hold[p],
             sector[b] \in Indirect <=> sector[c] \in Indirect
      PROVE  b = c
  BY <1>1, Zenon DEF OrderInv
<1>2. ASSUME NEW p \in Proc, pc'[p] \in {"bget", "on_buf"}
      PROVE  \/ hold[p] = {}
             \/ want[p] \notin Indirect /\ \A b \in hold[p] : sector[b] \in Indirect
  <2>1. pc[p] \in {"bget", "on_buf"}
    BY <1>2, Zenon
  <2>. QED
    BY <2>1, Zenon DEF OrderInv
<1>. QED
  BY <1>1, <1>2 DEF OrderInv

\* A process goes to sleep in bget() on a buffer that somebody else holds.
LEMMA BgetSleep ==
    ASSUME IInv, ~panicked, NEW p \in Proc, bget_sleep(p)
    PROVE  IInv'
<1>1. /\ busy' = busy /\ valid' = valid /\ dirty' = dirty /\ sector' = sector
      /\ data' = data /\ lru' = lru /\ ide_queue' = ide_queue /\ drive' = drive
      /\ disk' = disk /\ lost' = lost /\ cur' = cur /\ hold' = hold /\ panicked' = panicked
      /\ want' = want
  BY Zenon DEF bget_sleep, bufVars
<1>2. pc \in [Proc -> {"fs", "bget", "on_buf", "ide_rw", "on_b", "ide_check"}]
  BY Zenon DEF IInv, TypeOK
<1>3. pc' = [pc EXCEPT ![p] = "on_buf"] /\ pc[p] = "bget"
  BY Zenon DEF bget_sleep
<1>4. /\ pc'[p] = "on_buf" /\ \A q \in Proc \ {p} : pc'[q] = pc[q]
      /\ pc' \in [Proc -> {"fs", "bget", "on_buf", "ide_rw", "on_b", "ide_check"}]
  BY <1>2, <1>3, Zenon
<1>5. TypeOK' /\ LruInv' /\ NoBuffers'
  BY <1>1, <1>4, Zenon DEF IInv, TypeOK, LruInv, NoBuffers
<1>6. HoldInv' /\ OneCopy' /\ \A b \in Buf : Pending(b)' = Pending(b)
  BY <1>1, BuffersKept, Zenon
<1>7. OrderInv'
  BY <1>1, <1>3, <1>4, OrderKept, Zenon DEF IInv
<1>8. \A q \in Proc : /\ InIde(q)' = InIde(q) /\ (pc'[q] = "ide_rw" <=> pc[q] = "ide_rw")
                      /\ (pc'[q] \in InQueue <=> pc[q] \in InQueue)
  BY <1>3, <1>4 DEF InIde, InQueue
<1>9. IdeInv'
  BY <1>1, <1>6, <1>8, Zenon DEF IInv, IdeInv, TypeOK
<1>10. QueueInv'
  BY <1>1, <1>6, <1>8, SeqElement DEF IInv, QueueInv, TypeOK
<1>11. DriveInv' /\ Coherent'
  BY <1>1, <1>6, Zenon DEF IInv, DriveInv, Coherent
<1>12. PICK k \in 1 .. Len(lru) : Cached(want[p], k) /\ busy[lru[k]]
  BY Zenon DEF bget_sleep
<1>13. PICK b \in Buf : busy[b] /\ sector[b] = want[p]
  BY <1>12, ListFacts, Zenon DEF IInv, Cached, Caches
<1>14. b \notin hold[p]
  BY <1>3, <1>13, Zenon DEF IInv, OrderInv
<1>15. SleeperInv'
  BY <1>1, <1>4, <1>13, <1>14, Zenon DEF IInv, SleeperInv
<1>. QED
  BY <1>5, <1>6, <1>7, <1>9, <1>10, <1>11, <1>15, Zenon DEF IInv

\* A process that ide_rw() woke leaves the driver once its request is done.
LEMMA IdeRwTest ==
    ASSUME IInv, ~panicked, NEW p \in Proc, ide_rw_test(p)
    PROVE  IInv'
<1>1. /\ busy' = busy /\ valid' = valid /\ dirty' = dirty /\ sector' = sector
      /\ data' = data /\ lru' = lru /\ ide_queue' = ide_queue /\ drive' = drive
      /\ disk' = disk /\ lost' = lost /\ hold' = hold /\ panicked' = panicked /\ want' = want
  BY Zenon DEF ide_rw_test, bufVars
<1>2. /\ pc \in [Proc -> {"fs", "bget", "on_buf", "ide_rw", "on_b", "ide_check"}]
      /\ cur \in [Proc -> Buf] /\ 0 \in Buf
  BY BcacheAssumption DEF IInv, TypeOK, Buf
<1>3. pc[p] = "ide_check"
  BY Zenon DEF ide_rw_test
<1>4. /\ pc' \in [Proc -> {"fs", "bget", "on_buf", "ide_rw", "on_b", "ide_check"}]
      /\ cur' \in [Proc -> Buf]
      /\ \A q \in Proc \ {p} : pc'[q] = pc[q] /\ cur'[q] = cur[q]
      /\ \/ pc'[p] = "fs" /\ ~Pending(cur[p])
         \/ pc'[p] = "on_b" /\ cur'[p] = cur[p]
  <2>1. CASE valid[cur[p]] /\ ~dirty[cur[p]]
    <3>1. pc' = [pc EXCEPT ![p] = "fs"] /\ cur' = [cur EXCEPT ![p] = 0]
      BY <2>1, Zenon DEF ide_rw_test
    <3>. QED
      BY <1>2, <2>1, <3>1, Zenon DEF Pending
  <2>2. CASE ~(valid[cur[p]] /\ ~dirty[cur[p]])
    <3>1. pc' = [pc EXCEPT ![p] = "on_b"] /\ cur' = cur
      BY <2>2, Zenon DEF ide_rw_test
    <3>. QED
      BY <1>2, <3>1, Zenon
  <2>. QED
    BY <2>1, <2>2, Zenon
<1>5. TypeOK' /\ LruInv' /\ NoBuffers'
  BY <1>1, <1>4, Zenon DEF IInv, TypeOK, LruInv, NoBuffers
<1>6. HoldInv' /\ OneCopy' /\ \A b \in Buf : Pending(b)' = Pending(b)
  BY <1>1, BuffersKept, Zenon
<1>7. OrderInv' /\ SleeperInv'
  BY <1>1, <1>3, <1>4 DEF IInv, OrderInv, SleeperInv
<1>8. \A q \in Proc : /\ InIde(q)' => InIde(q) /\ cur'[q] = cur[q]
                      /\ pc'[q] = "ide_rw" => pc[q] = "ide_rw"
                      /\ Pending(cur[q]) /\ InIde(q) => InIde(q)' /\ cur'[q] = cur[q]
                      /\ Pending(cur[q]) /\ pc[q] \in InQueue =>
                            pc'[q] \in InQueue /\ cur'[q] = cur[q]
  BY <1>3, <1>4, Zenon DEF InIde, InQueue
<1>9. IdeInv'
  <2>1. \A q \in Proc : InIde(q)' => cur'[q] \in hold'[q]
    BY <1>1, <1>8, Zenon DEF IInv, IdeInv
  <2>2. \A q \in Proc : pc'[q] = "ide_rw" => Pending(cur[q])' /\ cur'[q] = cur[q]
    BY <1>1, <1>2, <1>3, <1>4, <1>6, Zenon DEF IInv, IdeInv
  <2>3. \A b \in Buf : busy'[b] /\ Pending(b)' => \E q \in Proc : InIde(q)' /\ cur'[q] = b
    BY <1>1, <1>6, <1>8, Zenon DEF IInv, IdeInv
  <2>. QED
    BY <1>1, <2>1, <2>2, <2>3, Zenon DEF IInv, IdeInv
<1>10. QueueInv'
  BY <1>1, <1>6, <1>8, SeqElement DEF IInv, QueueInv, TypeOK
<1>11. DriveInv' /\ Coherent'
  BY <1>1, <1>6, Zenon DEF IInv, DriveInv, Coherent
<1>. QED
  BY <1>5, <1>6, <1>7, <1>9, <1>10, <1>11, Zenon DEF IInv

\* The buffers in the driver are busy.
LEMMA DriverBusy ==
    ASSUME IInv
    PROVE  /\ \A q \in Proc : InIde(q) => cur[q] \in Buf /\ busy[cur[q]]
           /\ \A k \in 1 .. Len(ide_queue) : ide_queue[k] \in Buf /\ busy[ide_queue[k]]
           /\ ide_queue # <<>> => ide_queue[1] \in Buf /\ busy[ide_queue[1]]
                                  /\ 1 \in 1 .. Len(ide_queue)
<1>1. \A q \in Proc : InIde(q) => cur[q] \in Buf /\ busy[cur[q]]
  BY Zenon DEF IInv, TypeOK, IdeInv, HoldInv
<1>2. ide_queue \in Seq(Buf) /\ Len(ide_queue) \in Nat
  BY SeqLen, Zenon DEF IInv, TypeOK
<1>3. ASSUME NEW k \in 1 .. Len(ide_queue)
      PROVE  ide_queue[k] \in Buf /\ busy[ide_queue[k]]
  <2>1. PICK q \in Proc : pc[q] \in InQueue /\ cur[q] = ide_queue[k]
    BY Zenon DEF IInv, QueueInv
  <2>. QED
    BY <1>1, <2>1, Zenon DEF InIde, InQueue
<1>4. ide_queue # <<>> => 1 \in 1 .. Len(ide_queue)
  BY <1>2, SeqNonEmpty, Zenon
<1>. QED
  BY <1>1, <1>3, <1>4, Zenon

\* bget() gives p a buffer b that was not busy, for a block that no other buffer
\* caches.
Obtains(p, b) ==
    /\ pc[p] = "bget" /\ Got(p, b) /\ ~busy[b]
    /\ sector' = [sector EXCEPT ![b] = want[p]]
    /\ valid' = valid \/ valid' = [valid EXCEPT ![b] = FALSE]
    /\ valid'[b] => sector[b] = want[p]
    /\ \A c \in Buf \ {b} : InUse(c) => sector[c] # want[p]

\* The block is cached and free ...
LEMMA CachedObtains ==
    ASSUME IInv, NEW p \in Proc, bget_cached(p)
    PROVE  \E b \in Buf : Obtains(p, b)
<1>0. PICK k \in 1 .. Len(lru) : Cached(want[p], k) /\ ~busy[lru[k]] /\ Got(p, lru[k])
  BY Zenon DEF bget_cached
<1>1. PICK b \in Buf : b = lru[k]
  BY ListFacts, Zenon DEF IInv
<1>2. InUse(b) /\ sector[b] = want[p] /\ ~busy[b]
  BY <1>0, <1>1, Zenon DEF Cached, Caches, InUse
<1>3. pc[p] = "bget" /\ Got(p, b) /\ valid' = valid /\ sector' = sector
  BY <1>0, <1>1, Zenon DEF bget_cached
<1>4. sector' = [sector EXCEPT ![b] = want[p]]
  BY <1>2, <1>3, Zenon DEF IInv, TypeOK
<1>5. \A c \in Buf \ {b} : InUse(c) => sector[c] # want[p]
  BY <1>2, Zenon DEF IInv, OneCopy
<1>. QED
  BY <1>2, <1>3, <1>4, <1>5, Zenon DEF Obtains

\* ... or it is not cached, and a buffer is recycled.
LEMMA FreshObtains ==
    ASSUME IInv, NEW p \in Proc, bget_fresh(p)
    PROVE  \E b \in Buf : Obtains(p, b)
<1>0. PICK k \in 1 .. Len(lru) :
          /\ Spare(k) /\ Got(p, lru[k]) /\ valid' = Recycled(lru[k])
          /\ sector' = [sector EXCEPT ![lru[k]] = want[p]]
  BY Zenon DEF bget_fresh
<1>1. \A c \in Buf : InUse(c) => sector[c] # want[p]
  BY ListFacts, Zenon DEF IInv, bget_fresh, Caches, InUse
<1>2. PICK b \in Buf : b = lru[k]
  BY ListFacts, Zenon DEF IInv
<1>3. ~busy[b]
  BY <1>0, <1>2, Zenon DEF Spare
<1>4. /\ pc[p] = "bget" /\ Got(p, b) /\ valid' = [valid EXCEPT ![b] = FALSE]
      /\ sector' = [sector EXCEPT ![b] = want[p]]
  BY <1>0, <1>2, Zenon DEF bget_fresh, Recycled
<1>5. ~valid'[b]
  BY <1>4, Zenon DEF IInv, TypeOK
<1>. QED
  BY <1>1, <1>3, <1>4, <1>5, Zenon DEF Obtains

\* Either way the invariant is kept.
LEMMA Obtain ==
    ASSUME IInv, ~panicked, NEW p \in Proc, NEW b \in Buf, Obtains(p, b)
    PROVE  IInv'
<1>. /\ pc[p] = "bget" /\ Got(p, b) /\ ~busy[b]
     /\ sector' = [sector EXCEPT ![b] = want[p]]
     /\ valid' = valid \/ valid' = [valid EXCEPT ![b] = FALSE]
     /\ valid'[b] => sector[b] = want[p]
     /\ \A c \in Buf \ {b} : InUse(c) => sector[c] # want[p]
  BY Zenon DEF Obtains
<1>1. /\ dirty' = dirty /\ data' = data /\ lru' = lru /\ ide_queue' = ide_queue
      /\ drive' = drive /\ disk' = disk /\ lost' = lost /\ panicked' = panicked
  BY Zenon DEF Got
<1>2. /\ busy \in [Buf -> BOOLEAN] /\ valid \in [Buf -> BOOLEAN]
      /\ sector \in [Buf -> Sector] /\ hold \in [Proc -> SUBSET Buf]
      /\ pc \in [Proc -> {"fs", "bget", "on_buf", "ide_rw", "on_b", "ide_check"}]
      /\ want \in [Proc -> Sector] /\ cur \in [Proc -> Buf] /\ 0 \in Sector
  BY BcacheAssumption, Zenon DEF IInv, TypeOK
<1>3. /\ busy' \in [Buf -> BOOLEAN] /\ busy'[b]
      /\ \A c \in Buf \ {b} : busy'[c] = busy[c]
  BY <1>2, Zenon DEF Got
<1>4. /\ valid' \in [Buf -> BOOLEAN] /\ (valid'[b] => valid[b])
      /\ \A c \in Buf \ {b} : valid'[c] = valid[c]
  <2>1. CASE valid' = valid
    BY <1>2, <2>1, Zenon
  <2>2. CASE valid' = [valid EXCEPT ![b] = FALSE]
    BY <1>2, <2>2, Zenon
  <2>. QED
    BY <2>1, <2>2, Zenon
<1>5. /\ sector' \in [Buf -> Sector] /\ sector'[b] = want[p]
      /\ \A c \in Buf \ {b} : sector'[c] = sector[c]
  BY <1>2, Zenon
<1>6. /\ hold' \in [Proc -> SUBSET Buf] /\ hold'[p] = hold[p] \cup {b}
      /\ want' \in [Proc -> Sector]
      /\ \A q \in Proc \ {p} : hold'[q] = hold[q] /\ want'[q] = want[q]
  BY <1>2, Zenon DEF Got
<1>7. /\ pc' \in [Proc -> {"fs", "bget", "on_buf", "ide_rw", "on_b", "ide_check"}]
      /\ cur' \in [Proc -> Buf]
      /\ \A q \in Proc \ {p} : pc'[q] = pc[q] /\ cur'[q] = cur[q]
      /\ \/ pc'[p] = "ide_rw" /\ cur'[p] = b /\ ~valid'[b]
         \/ pc'[p] = "fs" /\ valid'[b]
  <2>1. CASE ~valid'[b]
    <3>1. pc' = [pc EXCEPT ![p] = "ide_rw"] /\ cur' = [cur EXCEPT ![p] = b]
      BY <2>1, Zenon DEF Got, NeedsRead
    <3>. QED
      BY <1>2, <2>1, <3>1, Zenon
  <2>2. CASE valid'[b]
    <3>1. pc' = [pc EXCEPT ![p] = "fs"] /\ cur' = cur
      BY <2>2, Zenon DEF Got, NeedsRead
    <3>. QED
      BY <1>2, <2>2, <3>1, Zenon
  <2>. QED
    BY <2>1, <2>2, Zenon
<1>8. TypeOK' /\ LruInv' /\ NoBuffers'
  <2>1. TypeOK'
    BY <1>1, <1>3, <1>4, <1>5, <1>6, <1>7, Zenon DEF IInv, TypeOK
  <2>. QED
    BY <1>1, <2>1, Zenon DEF IInv, LruInv, NoBuffers
<1>9. ~dirty[b] /\ \A q \in Proc : b \notin hold[q]
  BY Zenon DEF IInv, IdeInv, HoldInv
<1>10. HoldInv'
  BY <1>3, <1>6, <1>9 DEF IInv, HoldInv
<1>11. \A c \in Buf \ {b} : InUse(c)' = InUse(c) /\ Pending(c)' = Pending(c)
  BY <1>1, <1>3, <1>4, Zenon DEF InUse, Pending
<1>12. OneCopy'
  <2>1. ASSUME NEW c \in Buf, NEW d \in Buf, c # d, InUse(c)', InUse(d)'
        PROVE  sector'[c] # sector'[d]
    BY <1>5, <1>11, <2>1, Zenon DEF IInv, OneCopy
  <2>. QED
    BY <2>1, Zenon DEF OneCopy
<1>13. OrderInv'
  <2>1. ASSUME NEW q \in Proc \ {p}, NEW c \in hold[q] PROVE sector'[c] = sector[c]
    BY <1>2, <1>5, <1>9
  <2>2. ASSUME NEW c \in hold[p] PROVE sector'[c] = sector[c] /\ c # b
    BY <1>2, <1>5, <1>9
  <2>3. \A c \in hold[p] : want[p] \notin Indirect /\ sector[c] \in Indirect
    BY Zenon DEF IInv, OrderInv
  <2>4. \A c, d \in hold'[p] : (sector'[c] \in Indirect <=> sector'[d] \in Indirect) => c = d
    <3>1. ASSUME NEW c \in hold[p], NEW d \in hold[p], sector[c] \in Indirect <=> sector[d] \in Indirect
          PROVE  c = d
      BY <3>1, Zenon DEF IInv, OrderInv
    <3>2. \A c \in hold[p] : c # b /\ sector'[c] \in Indirect /\ sector[c] \in Indirect
      BY <2>2, <2>3, Zenon
    <3>3. hold[p] # {} => sector'[b] \notin Indirect
      BY <1>5, <2>3, Zenon
    <3>. QED
      BY <1>6, <3>1, <3>2, <3>3, Zenon
  <2>. QED
    BY <1>6, <1>7, <2>1, <2>4 DEF IInv, OrderInv
<1>14. \A q \in Proc \ {p} : /\ InIde(q)' = InIde(q)
                             /\ InIde(q) => cur'[q] = cur[q] /\ cur[q] \in Buf \ {b}
  BY <1>7, DriverBusy, Zenon DEF InIde
<1>15. IdeInv'
  <2>1. \A q \in Proc : InIde(q)' => cur'[q] \in hold'[q]
    BY <1>6, <1>7, <1>14 DEF IInv, IdeInv, InIde
  <2>2. \A q \in Proc : pc'[q] = "ide_rw" => (dirty'[cur'[q]] \/ ~valid'[cur'[q]])
    <3>1. ASSUME NEW q \in Proc \ {p}, pc'[q] = "ide_rw"
          PROVE  dirty'[cur'[q]] \/ ~valid'[cur'[q]]
      BY <1>1, <1>4, <1>7, <1>14, <3>1 DEF IInv, IdeInv, InIde, Pending
    <3>. QED
      BY <1>7, <3>1, Zenon
  <2>3. ASSUME NEW c \in Buf, busy'[c], Pending(c)'
        PROVE  \E q \in Proc : InIde(q)' /\ cur'[q] = c
    <3>1. CASE c = b
      BY <1>1, <1>7, <1>9, <2>3, <3>1, Zenon DEF Pending, InIde
    <3>2. CASE c # b
      <4>1. PICK q \in Proc : InIde(q) /\ cur[q] = c
        BY <1>3, <1>11, <2>3, <3>2, Zenon DEF IInv, IdeInv
      <4>. QED
        BY <1>14, <4>1, Zenon DEF InIde
    <3>. QED
      BY <3>1, <3>2, Zenon
  <2>4. \A c \in Buf : dirty'[c] => busy'[c] /\ valid'[c]
    BY <1>1, <1>3, <1>4, <1>9, Zenon DEF IInv, IdeInv
  <2>. QED
    BY <2>1, <2>2, <2>3, <2>4, Zenon DEF IdeInv, Pending
<1>16. QueueInv'
  <2>1. ASSUME NEW k \in 1 .. Len(ide_queue)
        PROVE  Pending(ide_queue[k])' /\ \E q \in Proc : pc'[q] \in InQueue /\ cur'[q] = ide_queue[k]
    <3>1. ide_queue[k] \in Buf \ {b}
      BY DriverBusy, Zenon
    <3>2. PICK q \in Proc : pc[q] \in InQueue /\ cur[q] = ide_queue[k]
      BY Zenon DEF IInv, QueueInv
    <3>3. Pending(ide_queue[k])'
      BY <1>1, <1>4, <3>1, Zenon DEF IInv, QueueInv, Pending
    <3>. QED
      BY <1>7, <3>2, <3>3, Zenon DEF InQueue
  <2>. QED
    BY <1>1, <2>1, Zenon DEF IInv, QueueInv
<1>17. DriveInv'
  BY <1>1, <1>5, DriverBusy, Zenon DEF IInv, DriveInv
<1>18. Coherent'
  BY <1>1, <1>4, <1>5, <1>11 DEF IInv, Coherent, Pending
<1>19. SleeperInv'
  <2>1. ASSUME NEW q \in Proc, pc'[q] = "on_buf"
        PROVE  \E c \in Buf : busy'[c] /\ sector'[c] = want'[q] /\ c \notin hold'[q]
    BY <1>3, <1>5, <1>6, <1>7, <2>1 DEF IInv, SleeperInv
  <2>. QED
    BY <2>1, Zenon DEF SleeperInv
<1>. QED
  BY <1>8, <1>10, <1>12, <1>13, <1>15, <1>16, <1>17, <1>18, <1>19, Zenon DEF IInv

\* bget() finds the block cached and free.
LEMMA BgetCached ==
    ASSUME IInv, ~panicked, NEW p \in Proc, bget_cached(p)
    PROVE  IInv'
BY CachedObtains, Obtain, Zenon

\* bget() recycles a buffer for a block that is not cached ...
LEMMA BgetFresh ==
    ASSUME IInv, ~panicked, NEW p \in Proc, bget_fresh(p)
    PROVE  IInv'
BY FreshObtains, Obtain, Zenon

\* ... or panics when all buffers are busy.
LEMMA BgetPanic ==
    ASSUME IInv, ~panicked, NEW p \in Proc, bget_panic(p)
    PROVE  IInv'
<1>1. \A b \in Buf : busy[b]
  BY Zenon DEF IInv, LruInv, bget_panic
<1>2. /\ busy' = busy /\ valid' = valid /\ dirty' = dirty /\ sector' = sector
      /\ data' = data /\ lru' = lru /\ ide_queue' = ide_queue /\ drive' = drive
      /\ disk' = disk /\ lost' = lost /\ cur' = cur /\ hold' = hold /\ want' = want /\ pc' = pc
      /\ panicked' = TRUE
  BY Zenon DEF bget_panic, bufVars
<1>3. TypeOK' /\ LruInv' /\ HoldInv' /\ OneCopy' /\ OrderInv'
  <2>1. TypeOK'
    BY <1>2 DEF IInv, TypeOK
  <2>. QED
    BY <1>2, <2>1, Zenon DEF IInv, LruInv, HoldInv, OneCopy, OrderInv, InUse
<1>4. IdeInv' /\ QueueInv'
  BY <1>2, Zenon DEF IInv, IdeInv, QueueInv, InIde, Pending
<1>5. DriveInv' /\ Coherent' /\ SleeperInv'
  BY <1>2, Zenon DEF IInv, DriveInv, Coherent, SleeperInv, Pending
<1>6. NoBuffers'
  <2>1. NotCached(want[p])' <=> NotCached(want[p])
    BY <1>2, Zenon DEF NotCached, Caches
  <2>. QED
    BY <1>1, <1>2, <2>1, Zenon DEF NoBuffers, bget_panic
<1>. QED
  BY <1>3, <1>4, <1>5, <1>6, Zenon DEF IInv

\* A buffer whose holder is not in the driver with it is clean, and nowhere in
\* the driver.
LEMMA HeldIsClean ==
    ASSUME IInv, NEW p \in Proc, NEW b \in hold[p], pc[p] = "fs"
    PROVE  /\ b \in Buf /\ busy[b] /\ valid[b] /\ ~dirty[b]
           /\ \A q \in Proc : InIde(q) => cur[q] # b
           /\ \A k \in 1 .. Len(ide_queue) : ide_queue[k] # b
<1>1. b \in Buf /\ busy[b]
  BY Zenon DEF IInv, TypeOK, HoldInv
<1>2. \A q \in Proc : InIde(q) => cur[q] # b
  BY DEF IInv, IdeInv, HoldInv, InIde
<1>3. valid[b] /\ ~dirty[b]
  BY <1>1, <1>2, Zenon DEF IInv, IdeInv, Pending
<1>4. \A k \in 1 .. Len(ide_queue) : ide_queue[k] # b
  BY <1>2, Zenon DEF IInv, QueueInv, InIde, InQueue
<1>. QED
  BY <1>1, <1>2, <1>3, <1>4, Zenon

\* bwrite() changes a clean buffer and takes it to the driver.
LEMMA Bwrite ==
    ASSUME IInv, ~panicked, NEW p \in Proc, NEW b \in Buf, NEW v \in Value, bwrite(p, b, v)
    PROVE  IInv'
<1>1. pc[p] = "fs" /\ b \in hold[p]
  BY Zenon DEF bwrite
<1>2. /\ busy[b] /\ valid[b] /\ ~dirty[b]
      /\ \A q \in Proc : InIde(q) => cur[q] # b
      /\ \A k \in 1 .. Len(ide_queue) : ide_queue[k] # b
  BY <1>1, HeldIsClean, Zenon
<1>3. /\ busy' = busy /\ valid' = valid /\ sector' = sector /\ lru' = lru
      /\ ide_queue' = ide_queue /\ drive' = drive /\ disk' = disk /\ want' = want
      /\ hold' = hold /\ panicked' = FALSE /\ lost' = lost \ {sector[b]}
  BY <1>2, Zenon DEF bwrite
<1>4. /\ data \in [Buf -> Value] /\ dirty \in [Buf -> BOOLEAN] /\ cur \in [Proc -> Buf]
      /\ pc \in [Proc -> {"fs", "bget", "on_buf", "ide_rw", "on_b", "ide_check"}]
  BY Zenon DEF IInv, TypeOK
<1>5. /\ dirty' \in [Buf -> BOOLEAN] /\ dirty'[b]
      /\ \A c \in Buf \ {b} : dirty'[c] = dirty[c]
  BY <1>4, Zenon DEF bwrite
<1>6. /\ data' \in [Buf -> Value] /\ \A c \in Buf \ {b} : data'[c] = data[c]
      /\ pc' \in [Proc -> {"fs", "bget", "on_buf", "ide_rw", "on_b", "ide_check"}]
      /\ cur' \in [Proc -> Buf] /\ pc'[p] = "ide_rw" /\ cur'[p] = b
      /\ \A q \in Proc \ {p} : pc'[q] = pc[q] /\ cur'[q] = cur[q]
  BY <1>4, Zenon DEF bwrite
<1>7. TypeOK'
  <2>1. lost' \in SUBSET Sector
    BY <1>3, Zenon DEF IInv, TypeOK
  <2>. QED
    BY <1>3, <1>5, <1>6, <2>1, Zenon DEF IInv, TypeOK
<1>8. LruInv' /\ NoBuffers' /\ HoldInv' /\ OneCopy'
  BY <1>3, Zenon DEF IInv, LruInv, NoBuffers, HoldInv, OneCopy, InUse
<1>9. OrderInv' /\ SleeperInv'
  BY <1>3, <1>6 DEF IInv, OrderInv, SleeperInv
<1>10. Pending(b)' /\ \A c \in Buf \ {b} : Pending(c)' = Pending(c)
  BY <1>3, <1>5, Zenon DEF Pending
<1>11. \A q \in Proc \ {p} : /\ InIde(q)' = InIde(q)
                             /\ InIde(q) => cur'[q] = cur[q] /\ cur[q] \in Buf \ {b}
  BY <1>2, <1>4, <1>6, Zenon DEF InIde
<1>12. InIde(p)' /\ ~InIde(p)
  BY <1>1, <1>6, Zenon DEF InIde
<1>13. IdeInv'
  <2>1. \A q \in Proc : InIde(q)' => cur'[q] \in hold'[q]
    BY <1>1, <1>3, <1>6, <1>11, Zenon DEF IInv, IdeInv
  <2>2. \A q \in Proc : pc'[q] = "ide_rw" => (dirty'[cur'[q]] \/ ~valid'[cur'[q]])
    <3>1. ASSUME NEW q \in Proc \ {p}, pc'[q] = "ide_rw"
          PROVE  dirty'[cur'[q]] \/ ~valid'[cur'[q]]
      BY <1>3, <1>5, <1>6, <1>11, <3>1 DEF IInv, IdeInv, InIde, Pending
    <3>. QED
      BY <1>5, <1>6, <3>1, Zenon
  <2>3. ASSUME NEW c \in Buf, busy'[c], Pending(c)'
        PROVE  \E q \in Proc : InIde(q)' /\ cur'[q] = c
    <3>1. CASE c = b
      BY <1>6, <1>12, <3>1, Zenon
    <3>2. CASE c # b
      <4>1. PICK q \in Proc : InIde(q) /\ cur[q] = c
        BY <1>3, <1>10, <2>3, <3>2, Zenon DEF IInv, IdeInv
      <4>. QED
        BY <1>11, <1>12, <4>1, Zenon
    <3>. QED
      BY <3>1, <3>2, Zenon
  <2>4. \A c \in Buf : dirty'[c] => busy'[c] /\ valid'[c]
    BY <1>2, <1>3, <1>5, Zenon DEF IInv, IdeInv
  <2>. QED
    BY <2>1, <2>2, <2>3, <2>4, Zenon DEF IdeInv, Pending
<1>14. QueueInv'
  <2>1. ASSUME NEW k \in 1 .. Len(ide_queue)
        PROVE  Pending(ide_queue[k])' /\ \E q \in Proc : pc'[q] \in InQueue /\ cur'[q] = ide_queue[k]
    <3>1. ide_queue[k] \in Buf \ {b}
      BY <1>2, DriverBusy, Zenon
    <3>2. PICK q \in Proc : pc[q] \in InQueue /\ cur[q] = ide_queue[k]
      BY Zenon DEF IInv, QueueInv
    <3>3. Pending(ide_queue[k])'
      BY <1>3, <1>5, <3>1, Zenon DEF IInv, QueueInv, Pending
    <3>. QED
      BY <1>1, <1>6, <3>2, <3>3, Zenon DEF InQueue
  <2>. QED
    BY <1>3, <2>1, Zenon DEF IInv, QueueInv
<1>15. DriveInv'
  <2>1. ide_queue # <<>> => sector[ide_queue[1]] # sector[b]
    BY <1>2, DriverBusy, Zenon DEF IInv, OneCopy, InUse
  <2>. QED
    BY <1>2, <1>3, <1>5, <1>6, <2>1, DriverBusy, Zenon DEF IInv, DriveInv
<1>16. Coherent'
  <2>1. ASSUME NEW c \in Buf, ~Pending(c)', sector[c] \notin lost'
        PROVE  data'[c] = disk[sector[c]]
    <3>1. c # b /\ ~Pending(c)
      BY <1>10, <2>1, Zenon
    <3>2. sector[c] # sector[b]
      BY <1>2, <3>1, Zenon DEF IInv, OneCopy, InUse, Pending
    <3>3. sector[c] \notin lost
      BY <1>3, <2>1, <3>2, Zenon
    <3>. QED
      BY <1>6, <3>1, <3>3, Zenon DEF IInv, Coherent
  <2>. QED
    BY <1>3, <2>1, Zenon DEF Coherent
<1>. QED
  BY <1>7, <1>8, <1>9, <1>13, <1>14, <1>15, <1>16, Zenon DEF IInv

\* wakeup() only lets sleepers go on.
LEMMA WokenFacts ==
    ASSUME TypeOK, NEW ch \in Buf, pc' = Woken(ch), cur' = cur
    PROVE  /\ pc' \in [Proc -> {"fs", "bget", "on_buf", "ide_rw", "on_b", "ide_check"}]
           /\ \A q \in Proc : /\ InIde(q)' = InIde(q)
                              /\ pc'[q] = "ide_rw" <=> pc[q] = "ide_rw"
                              /\ pc'[q] \in InQueue <=> pc[q] \in InQueue
                              /\ pc'[q] = "on_buf" => ch # 0 /\ pc[q] = "on_buf"
                              /\ pc'[q] = "bget" => pc[q] \in {"bget", "on_buf"}
<1>1. pc \in [Proc -> {"fs", "bget", "on_buf", "ide_rw", "on_b", "ide_check"}]
  BY Zenon DEF TypeOK
<1>2. ASSUME NEW q \in Proc
      PROVE  /\ pc'[q] = CASE pc[q] = "on_buf" /\ ch = 0     -> "bget"
                           [] pc[q] = "on_b" /\ cur[q] = ch  -> "ide_check"
                           [] OTHER                          -> pc[q]
             /\ pc'[q] \in {"fs", "bget", "on_buf", "ide_rw", "on_b", "ide_check"}
  BY <1>1, Zenon DEF Woken
<1>3. pc' \in [Proc -> {"fs", "bget", "on_buf", "ide_rw", "on_b", "ide_check"}]
  BY <1>1, Zenon DEF Woken
<1>. QED
  BY <1>1, <1>2, <1>3 DEF InIde, InQueue

\* brelse() gives up a clean buffer and wakes everybody who waits in bget().
LEMMA Brelse ==
    ASSUME IInv, ~panicked, NEW p \in Proc, NEW b \in Buf, brelse(p, b)
    PROVE  IInv'
<1>1. pc[p] = "fs" /\ b \in hold[p]
  BY Zenon DEF brelse
<1>2. /\ busy[b] /\ valid[b] /\ ~dirty[b]
      /\ \A q \in Proc : InIde(q) => cur[q] # b
  BY <1>1, HeldIsClean, Zenon
<1>3. /\ valid' = valid /\ dirty' = dirty /\ sector' = sector /\ data' = data
      /\ ide_queue' = ide_queue /\ drive' = drive /\ disk' = disk /\ lost' = lost /\ want' = want
      /\ cur' = cur /\ panicked' = FALSE
  BY <1>2, Zenon DEF brelse
<1>4. /\ busy \in [Buf -> BOOLEAN] /\ hold \in [Proc -> SUBSET Buf] /\ 0 \in Buf
  BY BcacheAssumption DEF IInv, TypeOK, Buf
<1>5. /\ busy' \in [Buf -> BOOLEAN] /\ ~busy'[b]
      /\ \A c \in Buf \ {b} : busy'[c] = busy[c]
  BY <1>4, Zenon DEF brelse
<1>6. /\ hold' \in [Proc -> SUBSET Buf] /\ hold'[p] = hold[p] \ {b}
      /\ \A q \in Proc \ {p} : hold'[q] = hold[q]
  BY <1>4, Zenon DEF brelse
<1>7. lru' \in Seq(Buf) /\ LruInv'
  BY ToFrontFacts, Zenon DEF IInv, brelse, LruInv
<1>8. /\ pc' \in [Proc -> {"fs", "bget", "on_buf", "ide_rw", "on_b", "ide_check"}]
      /\ \A q \in Proc : /\ InIde(q)' = InIde(q)
                         /\ pc'[q] = "ide_rw" <=> pc[q] = "ide_rw"
                         /\ pc'[q] \in InQueue <=> pc[q] \in InQueue
                         /\ pc'[q] # "on_buf"
                         /\ pc'[q] = "bget" => pc[q] \in {"bget", "on_buf"}
  <2>1. pc' = Woken(0)
    BY Zenon DEF brelse, AfterRelease
  <2>. QED
    BY <1>3, <1>4, <2>1, WokenFacts, Zenon DEF IInv
<1>9. TypeOK' /\ NoBuffers'
  BY <1>3, <1>5, <1>6, <1>7, <1>8, Zenon DEF IInv, TypeOK, NoBuffers
<1>10. \A q \in Proc \ {p} : b \notin hold[q]
  BY <1>1, Zenon DEF IInv, HoldInv
<1>11. HoldInv'
  BY <1>5, <1>6, <1>10 DEF IInv, HoldInv
<1>12. \A c \in Buf : (InUse(c)' => InUse(c)) /\ Pending(c)' = Pending(c)
  BY <1>3, <1>5, Zenon DEF InUse, Pending
<1>13. OneCopy'
  BY <1>3, <1>12, Zenon DEF IInv, OneCopy
<1>14. OrderInv'
  <2>1. \A q \in Proc : hold'[q] \subseteq hold[q]
    BY <1>6, Zenon
  <2>. QED
    BY <1>3, <1>8, <2>1, Zenon DEF IInv, OrderInv
<1>15. IdeInv'
  <2>1. \A q \in Proc : InIde(q)' => cur'[q] \in hold'[q]
    BY <1>2, <1>3, <1>6, <1>8, Zenon DEF IInv, IdeInv
  <2>2. \A q \in Proc : pc'[q] = "ide_rw" => (dirty'[cur'[q]] \/ ~valid'[cur'[q]])
    BY <1>3, <1>8, Zenon DEF IInv, IdeInv, Pending
  <2>3. \A c \in Buf : busy'[c] /\ Pending(c)' => \E q \in Proc : InIde(q)' /\ cur'[q] = c
    BY <1>3, <1>5, <1>8, <1>12, Zenon DEF IInv, IdeInv
  <2>4. \A c \in Buf : dirty'[c] => busy'[c] /\ valid'[c]
    BY <1>2, <1>3, <1>5, Zenon DEF IInv, IdeInv
  <2>. QED
    BY <2>1, <2>2, <2>3, <2>4, Zenon DEF IdeInv, Pending
<1>16. QueueInv'
  BY <1>3, <1>8, <1>12, DriverBusy, Zenon DEF IInv, QueueInv
<1>17. DriveInv' /\ Coherent'
  BY <1>3, <1>12, Zenon DEF IInv, DriveInv, Coherent
<1>18. SleeperInv'
  BY <1>8, Zenon DEF SleeperInv
<1>. QED
  BY <1>7, <1>9, <1>11, <1>13, <1>14, <1>15, <1>16, <1>17, <1>18, Zenon DEF IInv

\* What a process in the driver has to itself.
LEMMA OwnBuffer ==
    ASSUME IInv, NEW p \in Proc, NEW q \in Proc, InIde(p), InIde(q), cur[p] = cur[q]
    PROVE  p = q
BY Zenon DEF IInv, IdeInv, HoldInv

\* The command that starts a request.
LEMMA CommandFacts ==
    ASSUME TypeOK, NEW b \in Buf
    PROVE  /\ ide_start_request(b) \in [state : {"idle", "busy", "done", "error"}, write : BOOLEAN,
                                        sector : Sector, count : {0, 1}, val : Value]
           /\ ide_start_request(b).state = "busy" /\ ide_start_request(b).count = 1
           /\ ide_start_request(b).sector = sector[b]
           /\ ide_start_request(b).write = dirty[b]
           /\ dirty[b] => ide_start_request(b).val = data[b]
<1>1. /\ dirty[b] \in BOOLEAN /\ sector[b] \in Sector /\ data[b] \in Value /\ 0 \in Value
  BY BcacheAssumption, Zenon DEF TypeOK
<1>2. PICK v \in Value : v = (IF dirty[b] THEN data[b] ELSE 0) /\ (dirty[b] => v = data[b])
  BY <1>1, Zenon
<1>3. ide_start_request(b) = [state |-> "busy", write |-> dirty[b], sector |-> sector[b],
                              count |-> 1, val |-> v]
  BY <1>2, Zenon DEF ide_start_request, Command
<1>4. PICK w \in BOOLEAN : w = dirty[b]
  BY <1>1, Zenon
<1>5. PICK s \in Sector : s = sector[b]
  BY <1>1, Zenon
<1>6. ide_start_request(b) = [state |-> "busy", write |-> w, sector |-> s, count |-> 1, val |-> v]
  BY <1>3, <1>4, <1>5, Zenon
<1>. QED
  BY <1>2, <1>4, <1>5, <1>6

\* ide_rw() puts a buffer into the queue that was not there, and for which there
\* is work to do.
LEMMA IdeRw ==
    ASSUME IInv, ~panicked, NEW p \in Proc, ide_rw(p)
    PROVE  IInv'
<1>1. PICK b : b = cur[p]
  BY Zenon
<1>2. pc[p] = "ide_rw" /\ InIde(p)
  BY Zenon DEF ide_rw, InIde
<1>3. b \in Buf /\ busy[b] /\ Pending(b)
  BY <1>1, <1>2, DriverBusy, Zenon DEF IInv, IdeInv
<1>4. /\ busy' = busy /\ valid' = valid /\ dirty' = dirty /\ sector' = sector
      /\ data' = data /\ lru' = lru /\ disk' = disk /\ lost' = lost /\ want' = want /\ cur' = cur
      /\ hold' = hold
  BY Zenon DEF ide_rw, bufVars
<1>5. panicked' = FALSE
  BY <1>1, <1>3, Zenon DEF ide_rw, Pending
<1>6. /\ pc' \in [Proc -> {"fs", "bget", "on_buf", "ide_rw", "on_b", "ide_check"}]
      /\ pc'[p] = "on_b" /\ \A q \in Proc \ {p} : pc'[q] = pc[q]
  <2>1. pc \in [Proc -> {"fs", "bget", "on_buf", "ide_rw", "on_b", "ide_check"}]
    BY Zenon DEF IInv, TypeOK
  <2>. QED
    BY <2>1, Zenon DEF ide_rw
<1>7. ide_queue \in Seq(Buf) /\ Len(ide_queue) \in Nat
  BY SeqLen, Zenon DEF IInv, TypeOK
<1>8. /\ ide_queue' \in Seq(Buf) /\ Len(ide_queue') = Len(ide_queue) + 1
      /\ \A k \in 1 .. Len(ide_queue) : ide_queue'[k] = ide_queue[k]
      /\ ide_queue'[Len(ide_queue) + 1] = b
      /\ ide_queue' # <<>>
  <2>1. ide_queue' = Append(ide_queue, b)
    BY <1>1, Zenon DEF ide_rw
  <2>. QED
    BY <1>3, <1>7, <2>1, SeqAppend
<1>9. \A k \in 1 .. Len(ide_queue) : ide_queue[k] # b
  <2>1. ASSUME NEW k \in 1 .. Len(ide_queue), ide_queue[k] = b PROVE FALSE
    <3>1. PICK q \in Proc : pc[q] \in InQueue /\ cur[q] = ide_queue[k]
      BY Zenon DEF IInv, QueueInv
    <3>2. InIde(q)
      BY <3>1, Zenon DEF InIde, InQueue
    <3>3. q = p
      BY <1>1, <1>2, <2>1, <3>1, <3>2, OwnBuffer, Zenon
    <3>. QED
      BY <1>2, <3>1, <3>3, Zenon DEF InQueue
  <2>. QED
    BY <2>1, Zenon
<1>10. /\ drive' \in [state : {"idle", "busy", "done", "error"}, write : BOOLEAN,
                     sector : Sector, count : {0, 1}, val : Value]
       /\ ide_queue # <<>> => drive' = drive
       /\ ide_queue = <<>> => drive' = ide_start_request(b)
  <2>1. drive' = IF ide_queue = <<>> THEN ide_start_request(b) ELSE drive
    BY <1>1, Zenon DEF ide_rw
  <2>2. drive \in [state : {"idle", "busy", "done", "error"}, write : BOOLEAN,
                  sector : Sector, count : {0, 1}, val : Value]
    BY Zenon DEF IInv, TypeOK
  <2>. QED
    BY <1>3, <2>1, <2>2, CommandFacts, Zenon DEF IInv
<1>11. TypeOK'
  BY <1>4, <1>5, <1>6, <1>8, <1>10, Zenon DEF IInv, TypeOK
<1>12. LruInv' /\ NoBuffers' /\ Coherent'
  BY <1>4, <1>5, Zenon DEF IInv, LruInv, NoBuffers, Coherent, Pending
<1>13. HoldInv' /\ OneCopy' /\ \A c \in Buf : Pending(c)' = Pending(c)
  BY <1>4, BuffersKept, Zenon
<1>14. OrderInv' /\ SleeperInv'
  <2>1. OrderInv'
    BY <1>4, <1>6, OrderKept, Zenon DEF IInv
  <2>. QED
    BY <1>4, <1>6, <2>1, Zenon DEF IInv, SleeperInv
<1>15. \A q \in Proc : /\ InIde(q)' = InIde(q)
                       /\ pc'[q] = "ide_rw" => pc[q] = "ide_rw"
                       /\ pc[q] \in InQueue => pc'[q] \in InQueue
  BY <1>2, <1>6 DEF InIde, InQueue
<1>16. IdeInv'
  BY <1>4, <1>13, <1>15, Zenon DEF IInv, IdeInv, TypeOK
<1>17. QueueInv'
  <2>1. ASSUME NEW k \in 1 .. Len(ide_queue')
        PROVE  /\ Pending(ide_queue'[k])
               /\ \E q \in Proc : pc'[q] \in InQueue /\ cur[q] = ide_queue'[k]
    <3>1. CASE k = Len(ide_queue) + 1
      BY <1>1, <1>3, <1>6, <1>8, <3>1, Zenon DEF InQueue
    <3>2. CASE k \in 1 .. Len(ide_queue)
      BY <1>8, <1>15, <3>2, Zenon DEF IInv, QueueInv
    <3>. QED
      BY <1>7, <1>8, <3>1, <3>2
  <2>2. ASSUME NEW j \in 1 .. Len(ide_queue'), NEW k \in 1 .. Len(ide_queue'),
               ide_queue'[j] = ide_queue'[k]
        PROVE  j = k
    <3>1. /\ j = Len(ide_queue) + 1 \/ j \in 1 .. Len(ide_queue)
          /\ k = Len(ide_queue) + 1 \/ k \in 1 .. Len(ide_queue)
      BY <1>7, <1>8
    <3>. QED
      BY <1>8, <1>9, <2>2, <3>1 DEF IInv, QueueInv
  <2>3. \A k \in 1 .. Len(ide_queue') : Pending(ide_queue[k])'
    BY <1>4, <2>1, Zenon DEF Pending
  <2>. QED
    BY <1>4, <2>1, <2>2, <2>3, Zenon DEF QueueInv
<1>18. DriveInv'
  <2>1. CASE ide_queue = <<>>
    <3>1. ide_queue'[1] = b
      BY <1>7, <1>8, <2>1, SeqNonEmpty
    <3>2. /\ drive'.state = "busy" /\ drive'.count = 1 /\ drive'.sector = sector[b]
          /\ drive'.write = dirty[b] /\ (dirty[b] => drive'.val = data[b])
      BY <1>3, <1>10, <2>1, CommandFacts DEF IInv
    <3>. QED
      BY <1>4, <1>8, <3>1, <3>2, Zenon DEF DriveInv
  <2>2. CASE ide_queue # <<>>
    <3>1. ide_queue'[1] = ide_queue[1]
      BY <1>8, <2>2, DriverBusy, Zenon
    <3>. QED
      BY <1>4, <1>8, <1>10, <2>2, <3>1, Zenon DEF IInv, DriveInv
  <2>. QED
    BY <2>1, <2>2, Zenon
<1>. QED
  BY <1>11, <1>12, <1>13, <1>14, <1>16, <1>17, <1>18, Zenon DEF IInv

\* The drive finishes a command; what it writes is what the buffer holds.
LEMMA DriveDone ==
    ASSUME IInv, ~panicked, NEW ok \in BOOLEAN, drive_done(ok)
    PROVE  IInv'
<1>1. /\ busy' = busy /\ valid' = valid /\ dirty' = dirty /\ sector' = sector
      /\ data' = data /\ lru' = lru /\ ide_queue' = ide_queue /\ pc' = pc
      /\ want' = want /\ cur' = cur /\ hold' = hold /\ panicked' = panicked
  BY Zenon DEF drive_done, bufVars
<1>2. /\ drive \in [state : {"idle", "busy", "done", "error"}, write : BOOLEAN,
                    sector : Sector, count : {0, 1}, val : Value]
      /\ disk \in [Sector -> Value] /\ drive.state = "busy"
  BY Zenon DEF IInv, TypeOK, drive_done
<1>3. PICK st \in {"done", "error"} : /\ st = IF ok THEN "done" ELSE "error"
                                      /\ drive' = [drive EXCEPT !.state = st]
  BY Zenon DEF drive_done
<1>4. /\ drive' \in [state : {"idle", "busy", "done", "error"}, write : BOOLEAN,
                     sector : Sector, count : {0, 1}, val : Value]
      /\ drive'.state = st /\ drive'.write = drive.write /\ drive'.sector = drive.sector
      /\ drive'.count = drive.count /\ drive'.val = drive.val
  BY <1>2, <1>3, Zenon
<1>5. /\ ide_queue # <<>> /\ ide_queue[1] \in Buf /\ busy[ide_queue[1]]
      /\ drive.count = 1 /\ drive.sector = sector[ide_queue[1]]
      /\ drive.write = dirty[ide_queue[1]]
  BY <1>2, DriverBusy, Zenon DEF IInv, DriveInv
<1>6. drive.sector \in Nat /\ drive.sector \in Sector /\ drive.val \in Value
  BY <1>2, BcacheAssumption, Zenon
<1>7. drive.sector .. drive.sector + drive.count - 1 = {drive.sector}
  BY <1>5, <1>6
<1>8. disk' = [s \in Sector |-> IF ok /\ drive.write /\ s \in {drive.sector} THEN drive.val
                                                                            ELSE disk[s]]
  BY <1>7, Zenon DEF drive_done
<1>9. /\ disk' \in [Sector -> Value]
      /\ \A s \in Sector : disk'[s] = IF ok /\ drive.write /\ s = drive.sector THEN drive.val
                                                                              ELSE disk[s]
  BY <1>2, <1>6, <1>8, Zenon
<1>10. /\ lost' \in SUBSET Sector /\ lost \subseteq lost'
       /\ ~ok => drive.sector \in lost'
  <2>1. lost' = IF ok THEN lost ELSE lost \cup {drive.sector}
    BY Zenon DEF drive_done
  <2>2. lost \in SUBSET Sector
    BY Zenon DEF IInv, TypeOK
  <2>. QED
    BY <1>6, <2>1, <2>2, Zenon
<1>15. TypeOK'
  BY <1>1, <1>4, <1>9, <1>10, Zenon DEF IInv, TypeOK
<1>11. LruInv' /\ HoldInv' /\ OneCopy' /\ SleeperInv' /\ NoBuffers'
  BY <1>1, Zenon DEF IInv, LruInv, HoldInv, OneCopy, SleeperInv, NoBuffers, InUse
<1>21. OrderInv'
  BY <1>1, OrderKept, Zenon DEF IInv
<1>12. IdeInv' /\ QueueInv'
  BY <1>1 DEF IInv, IdeInv, QueueInv, InIde, Pending
<1>13. DriveInv'
  <2>1. drive'.state = "error" => drive'.sector \in lost'
    BY <1>3, <1>4, <1>10, Zenon
  <2>2. drive'.write /\ drive'.state = "done" => disk'[drive'.sector] = drive'.val
    BY <1>3, <1>4, <1>6, <1>9, Zenon
  <2>3. drive'.write => drive'.val = data[ide_queue[1]]
    BY <1>4, <1>5, Zenon DEF IInv, DriveInv
  <2>. QED
    BY <1>1, <1>4, <1>5, <2>1, <2>2, <2>3, Zenon DEF DriveInv
<1>14. Coherent'
  <2>1. ASSUME NEW b \in Buf, ~Pending(b), sector[b] \notin lost'
        PROVE  data[b] = disk'[sector[b]]
    <3>1. sector[b] \in Sector /\ data[b] = disk[sector[b]]
      BY <1>10, <2>1, Zenon DEF IInv, TypeOK, Coherent
    <3>2. drive.write => sector[b] # drive.sector
      BY <1>5, <2>1, Zenon DEF IInv, OneCopy, InUse, Pending
    <3>. QED
      BY <1>9, <3>1, <3>2, Zenon
  <2>. QED
    BY <1>1, <2>1, Zenon DEF Coherent, Pending
<1>. QED
  BY <1>11, <1>12, <1>13, <1>14, <1>15, <1>21, Zenon DEF IInv

\* An idle drive.
LEMMA IdleFacts ==
    ASSUME NEW st \in {"idle", "done"}
    PROVE  /\ Idle(st) \in [state : {"idle", "busy", "done", "error"}, write : BOOLEAN,
                            sector : Sector, count : {0, 1}, val : Value]
           /\ Idle(st).state = st
BY BcacheAssumption, Zenon DEF Idle

\* An interrupt that belongs to no request changes nothing but the drive.
LEMMA IdeIntrStray ==
    ASSUME IInv, ~panicked, ide_intr_stray
    PROVE  IInv'
<1>1. /\ busy' = busy /\ valid' = valid /\ dirty' = dirty /\ sector' = sector
      /\ data' = data /\ lru' = lru /\ ide_queue' = ide_queue /\ disk' = disk /\ lost' = lost /\ pc' = pc
      /\ want' = want /\ cur' = cur /\ hold' = hold /\ panicked' = panicked
      /\ ide_queue = <<>> /\ drive' = Idle("idle")
  BY Zenon DEF ide_intr_stray, bufVars
<1>2. TypeOK'
  BY <1>1, IdleFacts, Zenon DEF IInv, TypeOK
<1>3. LruInv' /\ HoldInv' /\ OneCopy' /\ SleeperInv' /\ NoBuffers'
  BY <1>1, Zenon DEF IInv, LruInv, HoldInv, OneCopy, SleeperInv, NoBuffers, InUse
<1>6. OrderInv'
  BY <1>1, OrderKept, Zenon DEF IInv
<1>4. IdeInv' /\ QueueInv' /\ Coherent'
  BY <1>1 DEF IInv, IdeInv, QueueInv, Coherent, InIde, Pending
<1>5. DriveInv'
  BY <1>1, IdleFacts, Zenon DEF DriveInv
<1>. QED
  BY <1>2, <1>3, <1>4, <1>5, <1>6, Zenon DEF IInv

\* The interrupt at the end of a request: the buffer is clean, its process goes
\* on, and the next request starts.
LEMMA IdeIntr ==
    ASSUME IInv, ~panicked, ide_intr
    PROVE  IInv'
<1>1. /\ busy' = busy /\ sector' = sector /\ lru' = lru /\ disk' = disk /\ lost' = lost
      /\ want' = want /\ cur' = cur /\ hold' = hold /\ panicked' = panicked
  BY Zenon DEF ide_intr
<1>2. /\ ide_queue # <<>> /\ drive.state \in {"done", "error"}
      /\ ide_queue' = Tail(ide_queue)
  BY Zenon DEF ide_intr
<1>3. ide_queue \in Seq(Buf) /\ Len(ide_queue) \in Nat
  BY SeqLen, Zenon DEF IInv, TypeOK
<1>4. PICK b \in Buf : /\ b = ide_queue[1] /\ b = Head(ide_queue) /\ busy[b]
                       /\ 1 \in 1 .. Len(ide_queue)
  BY <1>2, <1>3, DriverBusy
<1>5. /\ ide_queue' \in Seq(Buf) /\ Len(ide_queue') = Len(ide_queue) - 1
      /\ \A k \in 1 .. Len(ide_queue') :
            /\ ide_queue'[k] = ide_queue[k + 1] /\ k + 1 \in 1 .. Len(ide_queue)
            /\ ide_queue'[k] \in Buf \ {b}
  <2>1. /\ ide_queue' \in Seq(Buf) /\ Len(ide_queue') = Len(ide_queue) - 1
        /\ \A k \in 1 .. Len(ide_queue') : ide_queue'[k] = ide_queue[k + 1]
    BY <1>2, <1>3, SeqTail, Zenon
  <2>2. ASSUME NEW k \in 1 .. Len(ide_queue')
        PROVE  k + 1 \in 1 .. Len(ide_queue) /\ k + 1 # 1
    BY <1>3, <2>1
  <2>3. ASSUME NEW k \in 1 .. Len(ide_queue') PROVE ide_queue'[k] \in Buf \ {b}
    <3>1. PICK j \in 1 .. Len(ide_queue) : j = k + 1 /\ j # 1
      BY <2>2, Zenon
    <3>2. ide_queue[j] \in Buf /\ ide_queue[j] # ide_queue[1]
      BY <1>4, <3>1, DriverBusy, Zenon DEF IInv, QueueInv
    <3>. QED
      BY <1>4, <2>1, <3>1, <3>2, Zenon
  <2>. QED
    BY <2>1, <2>2, <2>3, Zenon
<1>6. /\ valid \in [Buf -> BOOLEAN] /\ dirty \in [Buf -> BOOLEAN]
      /\ data \in [Buf -> Value] /\ disk \in [Sector -> Value]
      /\ drive.sector \in Sector
  BY Zenon DEF IInv, TypeOK
<1>7. /\ valid' \in [Buf -> BOOLEAN] /\ valid'[b]
      /\ \A c \in Buf \ {b} : valid'[c] = valid[c]
  BY <1>4, <1>6, Zenon DEF ide_intr
<1>8. /\ dirty' \in [Buf -> BOOLEAN] /\ ~dirty'[b]
      /\ \A c \in Buf \ {b} : dirty'[c] = dirty[c]
  BY <1>4, <1>6, Zenon DEF ide_intr
<1>9. /\ data' \in [Buf -> Value] /\ \A c \in Buf \ {b} : data'[c] = data[c]
      /\ ~dirty[b] /\ drive.state = "done" => data'[b] = disk[drive.sector]
      /\ dirty[b] => data'[b] = data[b]
  <2>1. data' = IF ~dirty[b] /\ drive.state = "done"
                THEN [data EXCEPT ![b] = disk[drive.sector]] ELSE data
    BY <1>4, Zenon DEF ide_intr
  <2>2. CASE ~dirty[b] /\ drive.state = "done"
    BY <1>6, <2>1, <2>2, Zenon
  <2>3. CASE ~(~dirty[b] /\ drive.state = "done")
    BY <1>6, <2>1, <2>3, Zenon
  <2>. QED
    BY <2>2, <2>3, Zenon
<1>10. /\ pc' \in [Proc -> {"fs", "bget", "on_buf", "ide_rw", "on_b", "ide_check"}]
       /\ \A q \in Proc : /\ InIde(q)' = InIde(q)
                          /\ pc'[q] = "ide_rw" <=> pc[q] = "ide_rw"
                          /\ pc'[q] \in InQueue <=> pc[q] \in InQueue
                          /\ pc'[q] = "on_buf" => pc[q] = "on_buf"
                          /\ pc'[q] = "bget" => pc[q] \in {"bget", "on_buf"}
  <2>1. pc' = Woken(b)
    BY <1>4, Zenon DEF ide_intr
  <2>. QED
    BY <1>1, <2>1, WokenFacts, Zenon DEF IInv
<1>11. \/ ide_queue' = <<>> /\ drive' = Idle("idle")
       \/ /\ ide_queue' # <<>> /\ drive' = ide_start_request(ide_queue'[1])
          /\ ide_queue'[1] \in Buf \ {b}
  <2>1. CASE Len(ide_queue) = 1
    <3>1. ide_queue' = <<>>
      BY <1>5, <2>1, SeqNonEmpty
    <3>. QED
      BY <2>1, <3>1, Zenon DEF ide_intr, StartNext
  <2>2. CASE Len(ide_queue) # 1
    <3>1. 1 \in 1 .. Len(ide_queue') /\ 1 + 1 = 2
      BY <1>3, <1>4, <1>5, <2>2
    <3>2. ide_queue'[1] = ide_queue[2] /\ ide_queue'[1] \in Buf \ {b}
      BY <1>5, <3>1, Zenon
    <3>3. ide_queue' # <<>>
      BY <3>1
    <3>. QED
      BY <2>2, <3>2, <3>3, Zenon DEF ide_intr, StartNext
  <2>. QED
    BY <2>1, <2>2, Zenon
<1>12. TypeOK'
  <2>1. drive' \in [state : {"idle", "busy", "done", "error"}, write : BOOLEAN,
                    sector : Sector, count : {0, 1}, val : Value]
    BY <1>11, IdleFacts, CommandFacts DEF IInv
  <2>. QED
    BY <1>1, <1>5, <1>7, <1>8, <1>9, <1>10, <2>1, Zenon DEF IInv, TypeOK
<1>13. LruInv' /\ NoBuffers' /\ HoldInv'
  BY <1>1, Zenon DEF IInv, LruInv, NoBuffers, HoldInv
<1>14. OneCopy'
  <2>1. \A c \in Buf : InUse(c)' = InUse(c)
    BY <1>1, <1>4, <1>7, Zenon DEF InUse
  <2>. QED
    BY <1>1, <2>1, Zenon DEF IInv, OneCopy
<1>15. OrderInv' /\ SleeperInv'
  BY <1>1, <1>10, Zenon DEF IInv, OrderInv, SleeperInv
<1>16. ~Pending(b)' /\ \A c \in Buf \ {b} : Pending(c)' = Pending(c)
  BY <1>7, <1>8, Zenon DEF Pending
<1>17. IdeInv'
  <2>1. \A q \in Proc : InIde(q)' => cur'[q] \in hold'[q]
    BY <1>1, <1>10, Zenon DEF IInv, IdeInv
  <2>2. ASSUME NEW q \in Proc, pc'[q] = "ide_rw"
        PROVE  dirty'[cur[q]] \/ ~valid'[cur[q]]
    <3>1. PICK r \in Proc : pc[r] \in InQueue /\ cur[r] = b
      BY <1>4 DEF IInv, QueueInv
    <3>2. pc[q] = "ide_rw" /\ InIde(q) /\ InIde(r)
      BY <1>10, <2>2, <3>1, Zenon DEF InIde, InQueue
    <3>3. q # r
      BY <3>1, <3>2, Zenon DEF InQueue
    <3>4. cur[q] \in Buf \ {b}
      BY <3>1, <3>2, <3>3, OwnBuffer, DriverBusy, Zenon
    <3>5. Pending(cur[q])
      BY <3>2, Zenon DEF IInv, IdeInv
    <3>. QED
      BY <1>7, <1>8, <3>4, <3>5, Zenon DEF Pending
  <2>3. \A c \in Buf : busy'[c] /\ Pending(c)' => \E q \in Proc : InIde(q)' /\ cur'[q] = c
    BY <1>1, <1>10, <1>16, Zenon DEF IInv, IdeInv
  <2>4. \A c \in Buf : dirty'[c] => busy'[c] /\ valid'[c]
    BY <1>1, <1>7, <1>8, Zenon DEF IInv, IdeInv
  <2>. QED
    BY <1>1, <2>1, <2>2, <2>3, <2>4, Zenon DEF IdeInv, Pending
<1>18. QueueInv'
  <2>1. ASSUME NEW k \in 1 .. Len(ide_queue')
        PROVE  /\ Pending(ide_queue[k])'
               /\ \E q \in Proc : pc'[q] \in InQueue /\ cur'[q] = ide_queue'[k]
    <3>1. PICK j \in 1 .. Len(ide_queue) : j = k + 1 /\ ide_queue'[k] = ide_queue[j]
      BY <1>5, Zenon
    <3>2. Pending(ide_queue[j]) /\ ide_queue[j] \in Buf \ {b}
      BY <1>5, <3>1, Zenon DEF IInv, QueueInv
    <3>3. PICK q \in Proc : pc[q] \in InQueue /\ cur[q] = ide_queue[j]
      BY Zenon DEF IInv, QueueInv
    <3>4. dirty'[ide_queue'[k]] \/ ~valid'[ide_queue'[k]]
      BY <1>7, <1>8, <3>1, <3>2, Zenon DEF Pending
    <3>. QED
      BY <1>1, <1>10, <3>1, <3>3, <3>4, Zenon DEF Pending
  <2>2. ASSUME NEW j \in 1 .. Len(ide_queue'), NEW k \in 1 .. Len(ide_queue'),
               ide_queue'[j] = ide_queue'[k]
        PROVE  j = k
    <3>1. j + 1 \in 1 .. Len(ide_queue) /\ k + 1 \in 1 .. Len(ide_queue)
          /\ ide_queue[j + 1] = ide_queue[k + 1]
      BY <1>5, <2>2, Zenon
    <3>2. j + 1 = k + 1
      BY <3>1, Zenon DEF IInv, QueueInv
    <3>. QED
      BY <3>2
  <2>. QED
    BY <2>1, <2>2, Zenon DEF QueueInv
<1>19. DriveInv'
  <2>1. CASE ide_queue' = <<>> /\ drive' = Idle("idle")
    BY <2>1, IdleFacts, Zenon DEF DriveInv
  <2>2. CASE /\ ide_queue' # <<>> /\ drive' = ide_start_request(ide_queue'[1])
             /\ ide_queue'[1] \in Buf \ {b}
    <3>1. PICK c \in Buf \ {b} : c = ide_queue'[1]
      BY <2>2, Zenon
    <3>2. /\ drive'.state = "busy" /\ drive'.count = 1 /\ drive'.sector = sector[c]
          /\ drive'.write = dirty[c] /\ (dirty[c] => drive'.val = data[c])
      BY <2>2, <3>1, CommandFacts, Zenon DEF IInv
    <3>. QED
      BY <1>1, <1>8, <1>9, <2>2, <3>1, <3>2, Zenon DEF DriveInv
  <2>. QED
    BY <1>11, <2>1, <2>2, Zenon
<1>20. Coherent'
  <2>1. ASSUME sector[b] \notin lost PROVE data'[b] = disk[sector[b]]
    <3>1. /\ drive.state = "done" /\ drive.sector = sector[b]
          /\ dirty[b] => data[b] = disk[drive.sector]
      BY <1>2, <1>4, <2>1, Zenon DEF IInv, DriveInv
    <3>. QED
      BY <1>9, <3>1, Zenon
  <2>. QED
    BY <1>1, <1>9, <1>16, <2>1, Zenon DEF IInv, Coherent
<1>. QED
  BY <1>12, <1>13, <1>14, <1>15, <1>17, <1>18, <1>19, <1>20, Zenon DEF IInv

\* After binit() and ide_init().
LEMMA InitInv == Init => IInv
<1>. SUFFICES ASSUME Init PROVE IInv
  BY Zenon
<1>1. NBUF \in Nat /\ 0 \in Buf /\ 0 \in Sector /\ 0 \in Value
  BY BcacheAssumption DEF Buf
<1>2. /\ busy = [b \in Buf |-> FALSE] /\ valid = [b \in Buf |-> FALSE]
      /\ dirty = [b \in Buf |-> FALSE]
      /\ sector = [b \in Buf |-> 0] /\ data = [b \in Buf |-> 0]
      /\ ide_queue = <<>> /\ disk \in [Sector -> Value] /\ lost = {}
      /\ pc = [p \in Proc |-> "fs"] /\ want = [p \in Proc |-> 0] /\ cur = [p \in Proc |-> 0]
      /\ hold = [p \in Proc |-> {}] /\ panicked = FALSE
      /\ \E st \in {"idle", "done"} : drive = Idle(st)
  BY Zenon DEF Init
<1>3. busy \in [Buf -> BOOLEAN] /\ valid \in [Buf -> BOOLEAN] /\ dirty \in [Buf -> BOOLEAN]
      /\ \A b \in Buf : ~busy[b] /\ ~valid[b] /\ ~dirty[b]
  BY <1>2, Zenon
<1>4. lru \in Seq(Buf) /\ LruInv
  <2>6. lru = [i \in 1 .. NBUF |-> NBUF - i]
    BY Zenon DEF Init
  <2>7. lru \in [1 .. NBUF -> Buf]
    BY <1>1, <2>6 DEF Buf
  <2>8. lru \in Seq(Buf)
    BY <1>1, <2>7, SeqMade, Zenon
  <2>9. Len(lru) = NBUF
    BY <1>1, <2>6
  <2>10. ASSUME NEW b \in Buf PROVE \E k \in 1 .. Len(lru) : lru[k] = b
    <3>1. NBUF - b \in 1 .. NBUF /\ NBUF - (NBUF - b) = b
      BY <1>1 DEF Buf
    <3>. QED
      BY <2>6, <2>9, <3>1, Zenon
  <2>. QED
    BY <2>8, <2>10, Zenon DEF LruInv
<1>5. TypeOK
  <2>1. <<>> \in Seq(Buf)
    OBVIOUS
  <2>2. /\ busy \in [Buf -> BOOLEAN] /\ valid \in [Buf -> BOOLEAN]
        /\ dirty \in [Buf -> BOOLEAN] /\ panicked \in BOOLEAN
    BY <1>2, Zenon
  <2>3. /\ sector \in [Buf -> Sector] /\ data \in [Buf -> Value]
        /\ disk \in [Sector -> Value] /\ lost \in SUBSET Sector /\ want \in [Proc -> Sector]
        /\ cur \in [Proc -> Buf] /\ hold \in [Proc -> SUBSET Buf]
    BY <1>1, <1>2, BcacheAssumption
  <2>4. pc \in [Proc -> {"fs", "bget", "on_buf", "ide_rw", "on_b", "ide_check"}]
    BY <1>2
  <2>. QED
    BY <1>2, <1>4, <2>1, <2>2, <2>3, <2>4, IdleFacts, Zenon DEF TypeOK
<1>6. HoldInv /\ OneCopy /\ OrderInv /\ SleeperInv /\ NoBuffers
  BY <1>2, <1>3, Zenon DEF HoldInv, OneCopy, OrderInv, SleeperInv, NoBuffers, InUse
<1>7. IdeInv /\ QueueInv /\ Coherent
  <2>1. Len(ide_queue) = 0
    BY <1>2, Zenon
  <2>. QED
    BY <1>2, <1>3, <2>1 DEF IdeInv, QueueInv, Coherent, InIde, Pending
<1>8. DriveInv
  BY <1>2, IdleFacts, Zenon DEF DriveInv
<1>. QED
  BY <1>4, <1>5, <1>6, <1>7, <1>8, Zenon DEF IInv

\* The invariant of the buffer cache and the driver, whatever the processes do,
\* in whatever order the drive, its interrupts and the processes go on.
THEOREM Invariant == Spec => []IInv
<1>1. IInv /\ [Next]_vars => IInv'
  <2>. SUFFICES ASSUME IInv, [Next]_vars PROVE IInv'
    BY Zenon
  <2>1. CASE UNCHANGED vars
    <3>1. /\ busy' = busy /\ valid' = valid /\ dirty' = dirty /\ sector' = sector
          /\ data' = data /\ lru' = lru /\ ide_queue' = ide_queue /\ drive' = drive
          /\ disk' = disk /\ lost' = lost /\ cur' = cur /\ hold' = hold /\ want' = want /\ pc' = pc
          /\ panicked' = panicked
      BY <2>1, Zenon DEF vars, bufVars
    <3>2. TypeOK' /\ LruInv' /\ HoldInv' /\ OneCopy' /\ OrderInv'
      <4>1. TypeOK'
        BY <3>1 DEF IInv, TypeOK
      <4>. QED
        BY <3>1, <4>1, Zenon DEF IInv, LruInv, HoldInv, OneCopy, OrderInv, InUse
    <3>3. IdeInv' /\ QueueInv'
      BY <3>1, Zenon DEF IInv, IdeInv, QueueInv, InIde, Pending
    <3>4. DriveInv' /\ Coherent' /\ SleeperInv'
      BY <3>1, Zenon DEF IInv, DriveInv, Coherent, SleeperInv, Pending
    <3>5. NoBuffers'
      <4>1. \A p \in Proc : NotCached(want[p])' <=> NotCached(want[p])
        BY <3>1, Zenon DEF NotCached, Caches
      <4>. QED
        BY <3>1, <4>1, Zenon DEF IInv, NoBuffers
    <3>. QED
      BY <3>2, <3>3, <3>4, <3>5, Zenon DEF IInv
  <2>2. CASE Next /\ ~panicked
    <3>0. ~panicked
      BY <2>2, Zenon
    <3>1. ASSUME NEW p \in Proc, KernelStep(p) PROVE IInv'
      BY <3>0, <3>1, BgetSleep, BgetCached, BgetFresh, BgetPanic,
         IdeRw, IdeRwTest, Zenon DEF KernelStep, bget
    <3>2. ASSUME NEW p \in Proc, Release(p) PROVE IInv'
      BY <3>0, <3>2, Brelse, Zenon DEF Release
    <3>3. ASSUME DiskStep PROVE IInv'
      BY <3>0, <3>3, DriveDone, Zenon DEF DiskStep
    <3>. QED
      BY <2>2, <3>0, <3>1, <3>2, <3>3, Bread, Bwrite, IdeIntrStray, IdeIntr, Zenon
         DEF Next, halted
  <2>. QED
    BY <2>1, <2>2, Zenon DEF Next, halted
<1>. QED
  BY <1>1, InitInv, PTL DEF Spec

\* No wake-up is lost in bget(), nobody waits there for a buffer of their own,
\* and no two wait for each other: the order in which fs.c asks for blocks and
\* the wake-up of all sleepers in brelse() see to it.
THEOREM SleeperHasHolderHolds == Spec => []SleeperHasHolder
<1>1. IInv => SleeperHasHolder
  <2>. SUFFICES ASSUME IInv PROVE SleeperHasHolder
    BY Zenon
  <2>1. ASSUME NEW p \in Proc, pc[p] = "on_buf"
        PROVE  \E q \in Proc \ {p} : Holds(q, want[p])
    <3>1. PICK b \in Buf : busy[b] /\ sector[b] = want[p] /\ b \notin hold[p]
      BY <2>1, Zenon DEF IInv, SleeperInv
    <3>2. PICK q \in Proc : b \in hold[q]
      BY <3>1, Zenon DEF IInv, HoldInv
    <3>3. q # p
      BY <3>1, <3>2, Zenon
    <3>. QED
      BY <3>1, <3>2, <3>3, Zenon DEF Holds
  <2>2. ASSUME NEW q \in Proc, pc[q] = "on_buf", NEW s, Holds(q, s)
        PROVE  \E r \in Proc : Holds(r, want[q]) /\ pc[r] # "on_buf"
    <3>1. want[q] \notin Indirect
      BY <2>2, Zenon DEF IInv, OrderInv, Holds
    <3>2. PICK r \in Proc : Holds(r, want[q])
      BY <2>1, <2>2, Zenon
    <3>3. pc[r] # "on_buf"
      BY <3>1, <3>2, Zenon DEF IInv, OrderInv, Holds
    <3>. QED
      BY <3>2, <3>3, Zenon
  <2>. QED
    BY <2>1, <2>2, Zenon DEF SleeperHasHolder
<1>. QED
  BY <1>1, Invariant, PTL

-----------------------------------------------------------------------------
\* What is in a block, and who has it, before a step ...
LEMMA StoreNow ==
    ASSUME IInv, NEW s \in Sector
    PROVE  /\ \A b \in Buf : valid[b] /\ sector[b] = s => Contents(s) = data[b]
           /\ (\A b \in Buf : ~(valid[b] /\ sector[b] = s)) => Contents(s) = disk[s]
           /\ \A p \in Proc : \A b \in hold[p] : sector[b] = s => UserOf(s) = p
           /\ (\A p \in Proc : \A b \in hold[p] : sector[b] # s) => UserOf(s) = Nobody
<1>1. ASSUME NEW b \in Buf, valid[b], sector[b] = s PROVE Contents(s) = data[b]
  <2>1. PICK d : d = CHOOSE c \in Buf : valid[c] /\ sector[c] = s
    BY Zenon
  <2>2. d \in Buf /\ valid[d] /\ sector[d] = s
    BY <1>1, <2>1, Zenon
  <2>3. d = b
    BY <1>1, <2>2, Zenon DEF IInv, OneCopy, InUse
  <2>. QED
    BY <1>1, <2>1, <2>3, Zenon DEF Contents
<1>2. ASSUME NEW p \in Proc, NEW b \in hold[p], sector[b] = s PROVE UserOf(s) = p
  <2>1. PICK q : q = CHOOSE r \in Proc : \E c \in hold[r] : sector[c] = s
    BY Zenon
  <2>2. PICK c : q \in Proc /\ c \in hold[q] /\ sector[c] = s
    <3>1. \E r \in Proc : \E c \in hold[r] : sector[c] = s
      BY <1>2, Zenon
    <3>2. q \in Proc /\ \E c \in hold[q] : sector[c] = s
      BY <2>1, <3>1, Zenon
    <3>. QED
      BY <3>2, Zenon
  <2>3. b \in Buf /\ c \in Buf /\ busy[b] /\ busy[c]
    BY <2>2, Zenon DEF IInv, TypeOK, HoldInv
  <2>4. c = b
    BY <1>2, <2>2, <2>3, Zenon DEF IInv, OneCopy, InUse
  <2>5. q = p
    BY <2>2, <2>4, Zenon DEF IInv, HoldInv
  <2>. QED
    BY <1>2, <2>1, <2>5, Zenon DEF UserOf
<1>3. (\A b \in Buf : ~(valid[b] /\ sector[b] = s)) => Contents(s) = disk[s]
  BY Zenon DEF Contents
<1>4. (\A p \in Proc : \A b \in hold[p] : sector[b] # s) => UserOf(s) = Nobody
  BY Zenon DEF UserOf
<1>. QED
  BY <1>1, <1>2, <1>3, <1>4, Zenon

\* ... and after it.
LEMMA StoreThen ==
    ASSUME IInv', NEW s \in Sector
    PROVE  /\ \A b \in Buf : valid'[b] /\ sector'[b] = s => Contents(s)' = data'[b]
           /\ (\A b \in Buf : ~(valid'[b] /\ sector'[b] = s)) => Contents(s)' = disk'[s]
           /\ \A p \in Proc : \A b \in hold'[p] : sector'[b] = s => UserOf(s)' = p
           /\ (\A p \in Proc : \A b \in hold'[p] : sector'[b] # s) => UserOf(s)' = Nobody
<1>1. ASSUME NEW b \in Buf, valid'[b], sector'[b] = s PROVE Contents(s)' = data'[b]
  <2>1. PICK d : d = CHOOSE c \in Buf : valid'[c] /\ sector'[c] = s
    BY Zenon
  <2>2. d \in Buf /\ valid'[d] /\ sector'[d] = s
    BY <1>1, <2>1, Zenon
  <2>3. d = b
    BY <1>1, <2>2, Zenon DEF IInv, OneCopy, InUse
  <2>. QED
    BY <1>1, <2>1, <2>3, Zenon DEF Contents
<1>2. ASSUME NEW p \in Proc, NEW b \in hold'[p], sector'[b] = s PROVE UserOf(s)' = p
  <2>1. PICK q : q = CHOOSE r \in Proc : \E c \in hold'[r] : sector'[c] = s
    BY Zenon
  <2>2. PICK c : q \in Proc /\ c \in hold'[q] /\ sector'[c] = s
    <3>1. \E r \in Proc : \E c \in hold'[r] : sector'[c] = s
      BY <1>2, Zenon
    <3>2. q \in Proc /\ \E c \in hold'[q] : sector'[c] = s
      BY <2>1, <3>1, Zenon
    <3>. QED
      BY <3>2, Zenon
  <2>3. b \in Buf /\ c \in Buf /\ busy'[b] /\ busy'[c]
    BY <2>2, Zenon DEF IInv, TypeOK, HoldInv
  <2>4. c = b
    BY <1>2, <2>2, <2>3, Zenon DEF IInv, OneCopy, InUse
  <2>5. q = p
    BY <2>2, <2>4, Zenon DEF IInv, HoldInv
  <2>. QED
    BY <1>2, <2>1, <2>5, Zenon DEF UserOf
<1>3. (\A b \in Buf : ~(valid'[b] /\ sector'[b] = s)) => Contents(s)' = disk'[s]
  BY Zenon DEF Contents
<1>4. (\A p \in Proc : \A b \in hold'[p] : sector'[b] # s) => UserOf(s)' = Nobody
  BY Zenon DEF UserOf
<1>. QED
  BY <1>1, <1>2, <1>3, <1>4, Zenon

\* Steps that a user of the cache does not see.
Hidden == \A s \in Sector : Stored(s)' = Stored(s) /\ UserOf(s)' = UserOf(s)

LEMMA HiddenStep ==
    ASSUME Hidden
    PROVE  UNCHANGED Promise!storeVars
BY Zenon DEF Hidden, Promise!storeVars

\* Most steps touch neither contents nor holders.
LEMMA HiddenPlain ==
    ASSUME UNCHANGED <<valid, sector, data, disk, lost, hold>>
    PROVE  Hidden
BY Zenon DEF Hidden, Stored, Contents, UserOf

\* The drive writes to the disk what the buffer of its request already shows.
LEMMA HiddenDrive ==
    ASSUME IInv, IInv', NEW ok \in BOOLEAN, drive_done(ok)
    PROVE  /\ \A s \in Sector : Contents(s)' = Contents(s) /\ UserOf(s)' = UserOf(s)
           /\ \E p \in Proc : drive.sector \in Sector /\ UserOf(drive.sector) = p
<1>1. /\ valid' = valid /\ sector' = sector /\ data' = data /\ hold' = hold
      /\ drive.state = "busy"
  BY Zenon DEF drive_done, bufVars
<1>2. \A s \in Sector : UserOf(s)' = UserOf(s)
  BY <1>1, Zenon DEF UserOf
<1>3. PICK b \in Buf : /\ b = ide_queue[1] /\ busy[b] /\ drive.count = 1
                       /\ drive.sector = sector[b] /\ drive.write = dirty[b]
  BY <1>1, DriverBusy, Zenon DEF IInv, DriveInv
<1>4. drive.sector \in Nat /\ drive.sector \in Sector
  BY BcacheAssumption, Zenon DEF IInv, TypeOK
<1>5. drive.sector .. drive.sector + drive.count - 1 = {drive.sector}
  BY <1>3, <1>4
<1>6. disk' = [s \in Sector |-> IF ok /\ drive.write /\ s \in {drive.sector} THEN drive.val
                                                                            ELSE disk[s]]
  BY <1>5, Zenon DEF drive_done
<1>7. ASSUME NEW s \in Sector PROVE Contents(s)' = Contents(s)
  <2>1. CASE s = sector[b] /\ dirty[b]
    <3>1. valid[b]
      BY <2>1, Zenon DEF IInv, IdeInv
    <3>2. Contents(s) = data[b]
      BY <2>1, <3>1, StoreNow, Zenon
    <3>3. Contents(s)' = data'[b]
      BY <1>1, <2>1, <3>1, StoreThen, Zenon
    <3>. QED
      BY <1>1, <3>2, <3>3, Zenon
  <2>2. CASE ~(s = sector[b] /\ dirty[b])
    <3>1. disk'[s] = disk[s]
      BY <1>3, <1>6, <2>2, Zenon
    <3>. QED
      BY <1>1, <3>1, Zenon DEF Contents
  <2>. QED
    BY <2>1, <2>2, Zenon
<1>8. PICK p \in Proc : b \in hold[p]
  BY <1>3, Zenon DEF IInv, HoldInv
<1>9. UserOf(drive.sector) = p
  BY <1>3, <1>4, <1>8, StoreNow, Zenon
<1>. QED
  BY <1>2, <1>4, <1>7, <1>9, Zenon

\* A command that fails loses the block of the process that waits for it.
LEMMA DriveStep ==
    ASSUME IInv, IInv', DiskStep
    PROVE  Promise!StoreNext \/ Hidden
<1>1. PICK ok \in BOOLEAN : drive_done(ok)
  BY Zenon DEF DiskStep
<1>2. lost' = IF ok THEN lost ELSE lost \cup {drive.sector}
  BY <1>1, Zenon DEF drive_done
<1>3. \A s \in Sector : Contents(s)' = Contents(s) /\ UserOf(s)' = UserOf(s)
  BY <1>1, HiddenDrive, Zenon
<1>4. PICK p \in Proc : drive.sector \in Sector /\ UserOf(drive.sector) = p
  BY <1>1, HiddenDrive, Zenon
<1>5. CASE ok
  <2>1. lost' = lost
    BY <1>2, <1>5, Zenon
  <2>. QED
    BY <1>3, <2>1, Zenon DEF Hidden, Stored
<1>6. CASE ~ok
  <2>1. lost' = lost \cup {drive.sector}
    BY <1>2, <1>6, Zenon
  <2>2. PICK s \in Sector : s = drive.sector
    BY <1>4, Zenon
  <2>3. Stored(s)' = Lost
    BY <2>1, <2>2, Zenon DEF Stored
  <2>4. \A t \in Sector \ {s} : Stored(t)' = Stored(t)
    BY <1>3, <2>1, <2>2, Zenon DEF Stored
  <2>5. [t \in Sector |-> Stored(t)'] = [[t \in Sector |-> Stored(t)] EXCEPT ![s] = Lost]
    BY <2>3, <2>4, Zenon
  <2>6. [t \in Sector |-> UserOf(t)'] = [t \in Sector |-> UserOf(t)]
    BY <1>3, Zenon
  <2>7. Promise!Fail(p, s)
    BY <1>4, <2>2, <2>5, <2>6, Zenon DEF Promise!Fail
  <2>. QED
    BY <2>7, Zenon DEF Promise!StoreNext
<1>. QED
  BY <1>5, <1>6, Zenon

\* The interrupt fills a buffer with what is on the disk, or leaves its data.
LEMMA HiddenIntr ==
    ASSUME IInv, IInv', ide_intr
    PROVE  Hidden
<1>1. /\ sector' = sector /\ disk' = disk /\ lost' = lost /\ hold' = hold /\ ide_queue # <<>>
      /\ drive.state \in {"done", "error"}
  BY Zenon DEF ide_intr
<1>2. \A s \in Sector : UserOf(s)' = UserOf(s)
  BY <1>1, Zenon DEF UserOf
<1>3. ide_queue \in Seq(Buf)
  BY Zenon DEF IInv, TypeOK
<1>4. PICK b \in Buf : /\ b = ide_queue[1] /\ b = Head(ide_queue) /\ busy[b]
                       /\ 1 \in 1 .. Len(ide_queue)
  BY <1>1, <1>3, DriverBusy
<1>5. /\ drive.sector = sector[b] /\ Pending(b) /\ (dirty[b] => valid[b])
      /\ sector[b] \notin lost => drive.state = "done"
  BY <1>1, <1>4 DEF IInv, DriveInv, QueueInv, IdeInv
<1>6. /\ valid \in [Buf -> BOOLEAN] /\ data \in [Buf -> Value]
  BY Zenon DEF IInv, TypeOK
<1>7. valid'[b] /\ \A c \in Buf \ {b} : valid'[c] = valid[c]
  BY <1>4, <1>6, Zenon DEF ide_intr
<1>8. /\ \A c \in Buf \ {b} : data'[c] = data[c]
      /\ ~dirty[b] /\ sector[b] \notin lost => data'[b] = disk[sector[b]]
      /\ dirty[b] => data'[b] = data[b]
  <2>1. data' = IF ~dirty[b] /\ drive.state = "done"
                THEN [data EXCEPT ![b] = disk[sector[b]]] ELSE data
    BY <1>4, <1>5, Zenon DEF ide_intr
  <2>2. CASE ~(~dirty[b] /\ drive.state = "done")
    BY <1>5, <1>6, <2>1, <2>2, Zenon
  <2>3. CASE ~dirty[b] /\ drive.state = "done"
    BY <1>6, <2>1, <2>3, Zenon
  <2>. QED
    BY <2>2, <2>3, Zenon
<1>9. ASSUME NEW s \in Sector, s \notin lost PROVE Contents(s)' = Contents(s)
  <2>1. CASE s = sector[b] /\ dirty[b]
    <3>1. Contents(s) = data[b]
      BY <1>5, <2>1, StoreNow, Zenon
    <3>2. Contents(s)' = data'[b]
      BY <1>1, <1>7, <2>1, StoreThen, Zenon
    <3>. QED
      BY <1>8, <2>1, <3>1, <3>2, Zenon
  <2>2. CASE s = sector[b] /\ ~dirty[b]
    <3>1. \A c \in Buf : ~(valid[c] /\ sector[c] = s)
      BY <1>4, <1>5, <2>2, Zenon DEF IInv, OneCopy, InUse, Pending
    <3>2. Contents(s) = disk[s]
      BY <3>1, StoreNow, Zenon
    <3>3. Contents(s)' = data'[b]
      BY <1>1, <1>7, <2>2, StoreThen, Zenon
    <3>. QED
      BY <1>8, <1>9, <2>2, <3>2, <3>3, Zenon
  <2>3. CASE s # sector[b]
    <3>1. CASE \E c \in Buf : valid[c] /\ sector[c] = s
      <4>1. PICK c \in Buf : valid[c] /\ sector[c] = s
        BY <3>1, Zenon
      <4>2. c # b /\ valid'[c] /\ sector'[c] = s
        BY <1>1, <1>7, <2>3, <4>1, Zenon
      <4>3. Contents(s) = data[c]
        BY <4>1, StoreNow, Zenon
      <4>4. Contents(s)' = data'[c]
        BY <4>2, StoreThen, Zenon
      <4>. QED
        BY <1>8, <4>2, <4>3, <4>4, Zenon
    <3>2. CASE \A c \in Buf : ~(valid[c] /\ sector[c] = s)
      <4>1. \A c \in Buf : ~(valid'[c] /\ sector'[c] = s)
        BY <1>1, <1>7, <2>3, <3>2, Zenon
      <4>2. Contents(s) = disk[s]
        BY <3>2, StoreNow, Zenon
      <4>3. Contents(s)' = disk'[s]
        BY <4>1, StoreThen, Zenon
      <4>. QED
        BY <1>1, <4>2, <4>3, Zenon
    <3>. QED
      BY <3>1, <3>2, Zenon
  <2>. QED
    BY <2>1, <2>2, <2>3, Zenon
<1>. QED
  BY <1>1, <1>2, <1>9, Zenon DEF Hidden, Stored

\* bget() takes a block that nobody has; a buffer that is recycled for it was on
\* the disk already.
LEMMA TakeStep ==
    ASSUME IInv, IInv', NEW p \in Proc, NEW b \in Buf, Obtains(p, b)
    PROVE  Promise!StoreNext
<1>. /\ pc[p] = "bget" /\ Got(p, b) /\ ~busy[b]
     /\ sector' = [sector EXCEPT ![b] = want[p]]
     /\ valid' = valid \/ valid' = [valid EXCEPT ![b] = FALSE]
     /\ valid'[b] => sector[b] = want[p]
     /\ \A c \in Buf \ {b} : InUse(c) => sector[c] # want[p]
  BY Zenon DEF Obtains
<1>1. data' = data /\ disk' = disk /\ lost' = lost
  BY Zenon DEF Got
<1>2. /\ valid \in [Buf -> BOOLEAN] /\ sector \in [Buf -> Sector]
      /\ hold \in [Proc -> SUBSET Buf] /\ want[p] \in Sector
  BY Zenon DEF IInv, TypeOK
<1>3. /\ valid'[b] => valid[b]
      /\ \A c \in Buf \ {b} : valid'[c] = valid[c]
  <2>1. CASE valid' = valid
    BY <1>2, <2>1, Zenon
  <2>2. CASE valid' = [valid EXCEPT ![b] = FALSE]
    BY <1>2, <2>2, Zenon
  <2>. QED
    BY <2>1, <2>2, Zenon
<1>4. sector'[b] = want[p] /\ \A c \in Buf \ {b} : sector'[c] = sector[c]
  BY <1>2, Zenon
<1>5. hold'[p] = hold[p] \cup {b} /\ \A q \in Proc \ {p} : hold'[q] = hold[q]
  BY <1>2, Zenon DEF Got
<1>6. valid[b] /\ sector[b] \notin lost => data[b] = disk[sector[b]]
  BY Zenon DEF IInv, Coherent, IdeInv, Pending
<1>7. ASSUME NEW s \in Sector, s \notin lost PROVE Contents(s)' = Contents(s)
  <2>1. CASE \E c \in Buf \ {b} : valid[c] /\ sector[c] = s
    <3>1. PICK c \in Buf \ {b} : valid[c] /\ sector[c] = s
      BY <2>1, Zenon
    <3>2. Contents(s) = data[c]
      BY <3>1, StoreNow, Zenon
    <3>3. valid'[c] /\ sector'[c] = s
      BY <1>3, <1>4, <3>1, Zenon
    <3>4. Contents(s)' = data'[c]
      BY <3>3, StoreThen, Zenon
    <3>. QED
      BY <1>1, <3>2, <3>4, Zenon
  <2>2. CASE valid'[b] /\ sector'[b] = s
    <3>1. Contents(s) = data[b]
      BY <1>3, <1>4, <2>2, StoreNow
    <3>2. Contents(s)' = data'[b]
      BY <2>2, StoreThen, Zenon
    <3>. QED
      BY <1>1, <3>1, <3>2, Zenon
  <2>3. CASE /\ \A c \in Buf \ {b} : ~(valid[c] /\ sector[c] = s)
             /\ ~(valid'[b] /\ sector'[b] = s)
    <3>1. \A c \in Buf : ~(valid'[c] /\ sector'[c] = s)
      BY <1>3, <1>4, <2>3, Zenon
    <3>2. Contents(s)' = disk'[s]
      BY <3>1, StoreThen, Zenon
    <3>3. Contents(s) = disk[s]
      <4>1. CASE valid[b] /\ sector[b] = s
        BY <1>6, <1>7, <4>1, StoreNow, Zenon
      <4>2. CASE ~(valid[b] /\ sector[b] = s)
        BY <2>3, <4>2, StoreNow, Zenon
      <4>. QED
        BY <4>1, <4>2, Zenon
    <3>. QED
      BY <1>1, <3>2, <3>3, Zenon
  <2>. QED
    BY <2>1, <2>2, <2>3, Zenon
<1>8. \A q \in Proc : \A c \in hold[q] : c \in Buf \ {b} /\ sector[c] # want[p]
  <2>1. \A q \in Proc : \A c \in hold[q] : c \in Buf /\ busy[c]
    BY <1>2, Zenon DEF IInv, HoldInv
  <2>. QED
    BY <2>1, Zenon DEF InUse
<1>9. PICK s \in Sector : s = want[p]
  BY <1>2, Zenon
<1>10. UserOf(s) = Nobody
  BY <1>8, <1>9, StoreNow
<1>11. UserOf(s)' = p
  BY <1>4, <1>5, <1>9, StoreThen, Zenon
<1>12. ASSUME NEW t \in Sector \ {s} PROVE UserOf(t)' = UserOf(t)
  <2>1. CASE \E q \in Proc : \E c \in hold[q] : sector[c] = t
    <3>1. PICK q \in Proc : \E c \in hold[q] : sector[c] = t
      BY <2>1, Zenon
    <3>2. PICK c \in hold[q] : sector[c] = t
      BY <3>1, Zenon
    <3>3. UserOf(t) = q
      BY <3>2, StoreNow, Zenon
    <3>4. c \in hold'[q] /\ sector'[c] = t
      BY <1>4, <1>5, <1>8, <3>2, Zenon
    <3>5. UserOf(t)' = q
      BY <3>4, StoreThen, Zenon
    <3>. QED
      BY <3>3, <3>5, Zenon
  <2>2. CASE \A q \in Proc : \A c \in hold[q] : sector[c] # t
    <3>1. UserOf(t) = Nobody
      BY <2>2, StoreNow, Zenon
    <3>2. \A q \in Proc : \A c \in hold'[q] : sector'[c] # t
      BY <1>4, <1>5, <1>8, <1>9, <2>2
    <3>3. UserOf(t)' = Nobody
      BY <3>2, StoreThen, Zenon
    <3>. QED
      BY <3>1, <3>3, Zenon
  <2>. QED
    BY <2>1, <2>2, Zenon
<1>13. [t \in Sector |-> UserOf(t)'] = [[t \in Sector |-> UserOf(t)] EXCEPT ![s] = p]
  BY <1>11, <1>12, Zenon
<1>14. [t \in Sector |-> Stored(t)'] = [t \in Sector |-> Stored(t)]
  BY <1>1, <1>7, Zenon DEF Stored
<1>15. Promise!Take(p, s)
  BY <1>9, <1>10, <1>13, <1>14, Zenon DEF Promise!Take
<1>. QED
  BY <1>15, Zenon DEF Promise!StoreNext

\* bwrite() puts something into a block, by the process that has it.
LEMMA PutStep ==
    ASSUME IInv, IInv', NEW p \in Proc, NEW b \in Buf, NEW v \in Value, bwrite(p, b, v)
    PROVE  Promise!StoreNext
<1>1. pc[p] = "fs" /\ b \in hold[p]
  BY Zenon DEF bwrite
<1>2. valid[b]
  BY <1>1, HeldIsClean, Zenon
<1>3. /\ valid' = valid /\ sector' = sector /\ disk' = disk /\ hold' = hold
      /\ lost' = lost \ {sector[b]}
  BY Zenon DEF bwrite
<1>4. data'[b] = v /\ \A c \in Buf \ {b} : data'[c] = data[c]
  BY DEF bwrite, IInv, TypeOK
<1>5. PICK s \in Sector : s = sector[b]
  BY Zenon DEF IInv, TypeOK
<1>6. UserOf(s) = p
  BY <1>1, <1>5, StoreNow, Zenon
<1>7. \A t \in Sector : UserOf(t)' = UserOf(t)
  BY <1>3, Zenon DEF UserOf
<1>8. Contents(s)' = v
  BY <1>2, <1>3, <1>4, <1>5, StoreThen, Zenon
<1>9. ASSUME NEW t \in Sector \ {s} PROVE Contents(t)' = Contents(t)
  <2>1. CASE \E c \in Buf : valid[c] /\ sector[c] = t
    <3>1. PICK c \in Buf : valid[c] /\ sector[c] = t
      BY <2>1, Zenon
    <3>2. Contents(t) = data[c] /\ c # b
      BY <1>5, <3>1, StoreNow, Zenon
    <3>3. Contents(t)' = data'[c]
      BY <1>3, <3>1, StoreThen, Zenon
    <3>. QED
      BY <1>4, <3>2, <3>3, Zenon
  <2>2. CASE \A c \in Buf : ~(valid[c] /\ sector[c] = t)
    BY <1>3, <2>2, StoreNow, StoreThen, Zenon
  <2>. QED
    BY <2>1, <2>2, Zenon
<1>10. [t \in Sector |-> Stored(t)'] = [[t \in Sector |-> Stored(t)] EXCEPT ![s] = v]
  <2>1. Stored(s)' = v
    BY <1>3, <1>5, <1>8, Zenon DEF Stored
  <2>2. \A t \in Sector \ {s} : Stored(t)' = Stored(t)
    BY <1>3, <1>5, <1>9, Zenon DEF Stored
  <2>. QED
    BY <2>1, <2>2, Zenon
<1>11. [t \in Sector |-> UserOf(t)'] = [t \in Sector |-> UserOf(t)]
  BY <1>7, Zenon
<1>12. Promise!Put(p, s, v)
  BY <1>5, <1>6, <1>10, <1>11, Zenon DEF Promise!Put
<1>. QED
  BY <1>12, Zenon DEF Promise!StoreNext

\* brelse() gives a block back.
LEMMA GiveStep ==
    ASSUME IInv, IInv', NEW p \in Proc, NEW b \in Buf, brelse(p, b)
    PROVE  Promise!StoreNext
<1>1. b \in hold[p]
  BY Zenon DEF brelse
<1>2. valid' = valid /\ sector' = sector /\ disk' = disk /\ lost' = lost /\ data' = data
  BY Zenon DEF brelse
<1>3. hold'[p] = hold[p] \ {b} /\ \A q \in Proc \ {p} : hold'[q] = hold[q]
  BY DEF brelse, IInv, TypeOK
<1>4. PICK s \in Sector : s = sector[b]
  BY Zenon DEF IInv, TypeOK
<1>5. UserOf(s) = p
  BY <1>1, <1>4, StoreNow, Zenon
<1>6. \A q \in Proc : \A c \in hold'[q] : sector'[c] # s
  <2>1. \A q \in Proc : \A c \in hold[q] : c \in Buf /\ busy[c]
    BY Zenon DEF IInv, TypeOK, HoldInv
  <2>2. \A q \in Proc : \A c \in hold[q] : sector[c] = s => c = b /\ q = p
    <3>1. OneCopy /\ HoldInv
      BY Zenon DEF IInv
    <3>. QED
      BY <1>1, <1>4, <2>1, <3>1 DEF OneCopy, InUse, HoldInv
  <2>. QED
    BY <1>2, <1>3, <2>2, Zenon
<1>7. UserOf(s)' = Nobody
  BY <1>6, StoreThen, Zenon
<1>8. ASSUME NEW t \in Sector \ {s} PROVE UserOf(t)' = UserOf(t)
  <2>1. CASE \E q \in Proc : \E c \in hold[q] : sector[c] = t
    <3>1. PICK q \in Proc : \E c \in hold[q] : sector[c] = t
      BY <2>1, Zenon
    <3>2. PICK c \in hold[q] : sector[c] = t
      BY <3>1, Zenon
    <3>3. UserOf(t) = q
      BY <3>2, StoreNow, Zenon
    <3>4. c \in hold'[q] /\ sector'[c] = t
      BY <1>2, <1>3, <1>4, <3>2, Zenon
    <3>5. UserOf(t)' = q
      BY <3>4, StoreThen, Zenon
    <3>. QED
      BY <3>3, <3>5, Zenon
  <2>2. CASE \A q \in Proc : \A c \in hold[q] : sector[c] # t
    <3>1. UserOf(t) = Nobody
      BY <2>2, StoreNow, Zenon
    <3>2. \A q \in Proc : \A c \in hold'[q] : sector'[c] # t
      BY <1>2, <1>3, <2>2, Zenon
    <3>3. UserOf(t)' = Nobody
      BY <3>2, StoreThen, Zenon
    <3>. QED
      BY <3>1, <3>3, Zenon
  <2>. QED
    BY <2>1, <2>2, Zenon
<1>9. \A t \in Sector : Contents(t)' = Contents(t)
  BY <1>2, Zenon DEF Contents
<1>10. [t \in Sector |-> UserOf(t)'] = [[t \in Sector |-> UserOf(t)] EXCEPT ![s] = Nobody]
  BY <1>7, <1>8, Zenon
<1>11. [t \in Sector |-> Stored(t)'] = [t \in Sector |-> Stored(t)]
  BY <1>2, <1>9, Zenon DEF Stored
<1>12. Promise!Give(p, s)
  BY <1>4, <1>5, <1>10, <1>11, Zenon DEF Promise!Give
<1>. QED
  BY <1>12, Zenon DEF Promise!StoreNext

\* The cache and the driver implement the block store of module BlockStore: a
\* block keeps its last contents through write, release, eviction and
\* re-reading, and has one user at a time; a command of the drive that fails
\* costs the contents of its own block and of no other, until it is written.
THEOREM CacheIsStore == Spec => StoreSpec
<1>1. Init => Promise!StoreInit
  <2>. SUFFICES ASSUME Init PROVE Promise!StoreInit
    BY Zenon
  <2>1. /\ \A b \in Buf : ~valid[b]
        /\ disk \in [Sector -> Value] /\ lost = {} /\ hold = [p \in Proc |-> {}]
    BY Zenon DEF Init
  <2>2. \A s \in Sector : Stored(s) \in Value
    BY <2>1, Zenon DEF Stored, Contents
  <2>3. \A s \in Sector : UserOf(s) = Nobody
    BY <2>1, Zenon DEF UserOf
  <2>. QED
    BY <2>2, <2>3, Zenon DEF Promise!StoreInit
<1>2. IInv /\ IInv' /\ [Next]_vars => [Promise!StoreNext]_(Promise!storeVars)
  <2>. SUFFICES ASSUME IInv, IInv', [Next]_vars
                PROVE  Promise!StoreNext \/ UNCHANGED Promise!storeVars
    BY Zenon
  <2>1. CASE UNCHANGED vars
    BY <2>1, HiddenPlain, HiddenStep, Zenon DEF vars, bufVars
  <2>2. ASSUME NEW p \in Proc, KernelStep(p) PROVE Promise!StoreNext \/ Hidden
    <3>1. CASE bget_sleep(p)
      BY <3>1, HiddenPlain, Zenon DEF bget_sleep, bufVars
    <3>2. CASE bget_cached(p)
      BY <3>2, CachedObtains, TakeStep, Zenon
    <3>3. CASE bget_fresh(p)
      BY <3>3, FreshObtains, TakeStep, Zenon
    <3>4. CASE bget_panic(p)
      BY <3>4, HiddenPlain, Zenon DEF bget_panic, bufVars
    <3>5. CASE ide_rw(p)
      BY <3>5, HiddenPlain, Zenon DEF ide_rw, bufVars
    <3>6. CASE ide_rw_test(p)
      BY <3>6, HiddenPlain, Zenon DEF ide_rw_test, bufVars
    <3>. QED
      BY <2>2, <3>1, <3>2, <3>3, <3>4, <3>5, <3>6, Zenon DEF KernelStep, bget
  <2>3. ASSUME NEW p \in Proc, Release(p) PROVE Promise!StoreNext
    BY <2>3, GiveStep, Zenon DEF Release
  <2>4. ASSUME NEW p \in Proc, NEW s \in Sector, bread(p, s) PROVE Hidden
    BY <2>4, HiddenPlain, Zenon DEF bread, bufVars
  <2>5. ASSUME NEW p \in Proc, NEW b \in Buf, NEW v \in Value, bwrite(p, b, v)
        PROVE  Promise!StoreNext
    BY <2>5, PutStep, Zenon
  <2>6. ASSUME DiskStep PROVE Promise!StoreNext \/ Hidden
    BY <2>6, DriveStep, Zenon
  <2>7. ASSUME ide_intr_stray PROVE Hidden
    BY <2>7, HiddenPlain, Zenon DEF ide_intr_stray, bufVars
  <2>8. ASSUME ide_intr PROVE Hidden
    BY <2>8, HiddenIntr, Zenon
  <2>. QED
    BY <2>1, <2>2, <2>3, <2>4, <2>5, <2>6, <2>7, <2>8, HiddenStep, Zenon DEF Next, halted
<1>. QED
  BY <1>1, <1>2, Invariant, PTL DEF Spec, StoreSpec, Promise!StoreSpec

-----------------------------------------------------------------------------
(* How many buffers bget() needs: the invariant says who holds which blocks,  *)
(* and counting them bounds the buffers in use.                               *)

INSTANCE FiniteSetTheorems

\* brelse(), bwrite() and ide_rw() never panic; bget() does when all the buffers
\* are busy, and then more processes are at work than half the buffers: each
\* has an indirect block and one other block at most, and the one that asks has
\* an indirect block at most.
THEOREM OnlyBgetPanicsHolds == Spec => []OnlyBgetPanics
<1>1. IInv => OnlyBgetPanics
  <2>. SUFFICES ASSUME IInv, panicked
                PROVE  /\ \E p \in Proc : pc[p] = "bget" /\ NotCached(want[p])
                       /\ \A b \in Buf : busy[b]
                       /\ NBUF < 2 * Cardinality({p \in Proc : pc[p] = "bget" \/ hold[p] # {}})
    BY Zenon DEF OnlyBgetPanics
  <2>1. PICK p \in Proc : pc[p] = "bget" /\ NotCached(want[p]) /\ \A b \in Buf : busy[b]
    BY Zenon DEF IInv, NoBuffers
  <2>2. \A b \in Buf : \E q \in Proc : b \in hold[q]
    BY <2>1, Zenon DEF IInv, HoldInv
  <2>. DEFINE U == {q \in Proc : pc[q] = "bget" \/ hold[q] # {}}
              holder(b) == CHOOSE q \in Proc : b \in hold[q]
              kind(b) == IF sector[b] \in Indirect THEN 1 ELSE 0
              slot == <<p, 0>>
              T == (U \X (0 .. 1)) \ {slot}
              f == [b \in Buf |-> <<holder(b), kind(b)>>]
  <2>3. \A b \in Buf : holder(b) \in U /\ b \in hold[holder(b)]
    <3>1. \A b \in Buf : holder(b) \in Proc /\ b \in hold[holder(b)]
      BY <2>2, Zenon
    <3>. QED
      BY <3>1, Zenon
  <2>4. p \in U /\ U \subseteq Proc
    BY <2>1, Zenon
  <2>. HIDE DEF holder, U
  <2>5. \A b \in Buf : f[b] \in T
    <3>1. \A b \in hold[p] : sector[b] \in Indirect
      BY <2>1, Zenon DEF IInv, OrderInv
    <3>2. ASSUME NEW b \in Buf PROVE <<holder(b), kind(b)>> # slot
      <4>1. CASE holder(b) # p
        BY <4>1
      <4>2. CASE holder(b) = p
        <5>1. b \in hold[p] /\ sector[b] \in Indirect
          BY <2>3, <3>1, <4>2, Zenon
        <5>2. kind(b) = 1
          BY <5>1
        <5>. QED
          BY <5>2
      <4>. QED
        BY <4>1, <4>2
    <3>3. \A b \in Buf : <<holder(b), kind(b)>> \in U \X (0 .. 1)
      BY <2>3
    <3>. QED
      BY <3>2, <3>3
  <2>6. \A b, c \in Buf : f[b] = f[c] => b = c
    <3>1. ASSUME NEW b \in Buf, NEW c \in Buf, f[b] = f[c] PROVE b = c
      <4>1. holder(b) = holder(c) /\ kind(b) = kind(c)
        BY <3>1
      <4>2. holder(b) \in Proc
        BY <2>3, <2>4, Zenon
      <4>3. sector[b] \in Indirect <=> sector[c] \in Indirect
        BY <4>1
      <4>. QED
        BY <2>3, <4>1, <4>2, <4>3, Zenon DEF IInv, OrderInv
    <3>. QED
      BY <3>1
  <2>7. f \in Injection(Buf, T)
    <3>1. f \in [Buf -> T]
      BY <2>5
    <3>2. DOMAIN f = Buf
      OBVIOUS
    <3>. HIDE DEF f, T
    <3>. QED
      BY <2>6, <3>1, <3>2 DEF Injection, IsInjective
  <2>8. IsFiniteSet(0 .. 1) /\ Cardinality(0 .. 1) = 2
    <3>1. 0 \in Int /\ 1 \in Int
      OBVIOUS
    <3>2. /\ IsFiniteSet(0 .. 1)
          /\ Cardinality(0 .. 1) = IF 0 > 1 THEN 0 ELSE 1 - 0 + 1
      BY <3>1, FS_Interval, Zenon
    <3>. QED
      BY <3>2
  <2>9. IsFiniteSet(U)
    BY <2>4, BcacheAssumption, FS_Subset, Zenon
  <2>10. /\ IsFiniteSet(U \X (0 .. 1))
         /\ Cardinality(U \X (0 .. 1)) = Cardinality(U) * Cardinality(0 .. 1)
    BY <2>8, <2>9, FS_Product
  <2>11. slot \in U \X (0 .. 1)
    BY <2>4
  <2>12. IsFiniteSet(T) /\ Cardinality(T) = Cardinality(U \X (0 .. 1)) - 1
    BY <2>10, <2>11, FS_RemoveElement
  <2>13. IsFiniteSet(Buf) /\ Cardinality(Buf) <= Cardinality(T)
    BY <2>7, <2>12, FS_Injection
  <2>14. Cardinality(Buf) = NBUF
    <3>1. 0 \in Int /\ NBUF - 1 \in Int /\ NBUF \in Nat /\ NBUF > 0
      BY BcacheAssumption
    <3>2. Cardinality(0 .. NBUF - 1) = IF 0 > NBUF - 1 THEN 0 ELSE NBUF - 1 - 0 + 1
      BY <3>1, FS_Interval
    <3>. QED
      BY <3>1, <3>2 DEF Buf
  <2>15. Cardinality(U) \in Nat /\ NBUF \in Nat
    BY <2>9, FS_CardinalityType, BcacheAssumption
  <2>16. NBUF < 2 * Cardinality(U)
    BY <2>8, <2>10, <2>12, <2>13, <2>14, <2>15
  <2>. QED
    BY <2>1, <2>16, Zenon DEF U
<1>. QED
  BY <1>1, Invariant, PTL
=============================================================================
