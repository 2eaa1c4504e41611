------------------------------- MODULE Bcache -------------------------------
(***************************************************************************)
(* The buffer cache (bio.c) on top of the IDE driver (ide.c) and a drive.  *)
(*                                                                         *)
(* A critical section under buf_table_lock or under ide_lock is one step.  *)
(* The sector of a buffer stands for its device and sector.  Processes     *)
(* use the cache the way fs.c does: bread, any number of changes each      *)
(* followed by bwrite, brelse.  While a process has an Indirect block, in  *)
(* bmap and itrunc, it may use one other block, never a second indirect    *)
(* one: balloc and bfree take the super block, a block of the bitmap and,  *)
(* in bzero, the data block that is freed.                                 *)
(***************************************************************************)
EXTENDS Naturals, Sequences, FiniteSets

CONSTANTS Proc, NBUF, Sector, Value, Nobody,
          Indirect,    \* the indirect blocks among the sectors
          Bad,         \* the sectors for which commands of the drive may fail
          Lost         \* stands for contents that a failure of the drive has taken

Buf == 0 .. NBUF - 1

ASSUME BcacheAssumption ==
    /\ NBUF \in Nat \ {0} /\ Sector \subseteq Nat /\ 0 \in Sector
    /\ Indirect \subseteq Sector /\ Bad \subseteq Sector /\ 0 \in Value
    /\ Nobody \notin Proc /\ Lost \notin Value /\ IsFiniteSet(Proc)

VARIABLES
    busy, valid, dirty,   \* flags of struct buf
    sector, data,
    lru,        \* the list from bufhead.next: most recently used first
    ide_queue,
    drive,      \* the drive's registers: what it does, for which request
    disk,       \* what is on the disk
    lost,       \* history: blocks not written again since a command for them failed
    pc, want,   \* where each process is, and the sector it asks bget() for
    cur,        \* the buffer it has passed to ide_rw()
    hold,       \* the buffers bget() has returned to it
    panicked

bufVars == <<busy, valid, dirty, sector, data>>
vars == <<bufVars, lru, ide_queue, drive, disk, lost, pc, want, cur, hold, panicked>>

Idle(s) == [state |-> s, write |-> FALSE, sector |-> 0, count |-> 0, val |-> 0]

\* After binit() and ide_init(), whose probe for disk 1 may leave an interrupt.
Init ==
    /\ busy = [b \in Buf |-> FALSE] /\ valid = busy /\ dirty = busy
    /\ sector = [b \in Buf |-> 0] /\ data = [b \in Buf |-> 0]
    /\ lru = [i \in 1 .. NBUF |-> NBUF - i]
    /\ ide_queue = <<>>
    /\ drive \in {Idle("idle"), Idle("done")}
    /\ disk \in [Sector -> Value] /\ lost = {}
    /\ pc = [p \in Proc |-> "fs"]
    /\ want = [p \in Proc |-> 0] /\ cur = [p \in Proc |-> 0]
    /\ hold = [p \in Proc |-> {}]
    /\ panicked = FALSE

\* pc after wakeup(&buf[ch]): bget() sleeps on buf, which is &buf[0], ide_rw()
\* on the buffer it waits for.
Woken(ch) ==
    [q \in Proc |-> CASE pc[q] = "on_buf" /\ ch = 0     -> "bget"
                      [] pc[q] = "on_b" /\ cur[q] = ch  -> "ide_check"
                      [] OTHER                          -> pc[q]]
-----------------------------------------------------------------------------
\* bread(): the call; fs.c keeps to the order of the blocks.
bread(p, s) ==
    /\ pc[p] = "fs"
    /\ \/ hold[p] = {}
       \/ s \notin Indirect /\ \A b \in hold[p] : sector[b] \in Indirect
    /\ want' = [want EXCEPT ![p] = s]
    /\ pc' = [pc EXCEPT ![p] = "bget"]
    /\ UNCHANGED <<bufVars, lru, ide_queue, drive, disk, lost, cur, hold, panicked>>

Caches(b, s) == (busy[b] \/ valid[b]) /\ sector[b] = s

\* The first buffer from the head of the list that caches s is the k-th ...
Cached(s, k) == Caches(lru[k], s) /\ \A j \in 1 .. k - 1 : ~Caches(lru[j], s)

\* ... and the first from its end, the least recently used one, that is not busy.
Spare(k) == ~busy[lru[k]] /\ \A j \in k + 1 .. Len(lru) : busy[lru[j]]

\* b->flags = B_BUSY.
Recycled(b) == [valid EXCEPT ![b] = FALSE]

\* Mutant: bread() reads every time.
NeedsRead_always(b) == TRUE

\* The test of bread(), once bget() has returned b.
NeedsRead(b) == ~valid'[b]

\* bget() returns b to p, and bread() goes on.
Got(p, b) ==
    /\ busy' = [busy EXCEPT ![b] = TRUE]
    /\ hold' = [hold EXCEPT ![p] = @ \cup {b}]
    /\ want' = [want EXCEPT ![p] = 0]
    /\ IF NeedsRead(b)
       THEN /\ pc' = [pc EXCEPT ![p] = "ide_rw"]
            /\ cur' = [cur EXCEPT ![p] = b]
       ELSE /\ pc' = [pc EXCEPT ![p] = "fs"]
            /\ UNCHANGED cur
    /\ UNCHANGED <<dirty, data, lru, ide_queue, drive, disk, lost, panicked>>

\* bget(): the block is cached and in use; sleep(buf, &buf_table_lock).
bget_sleep(p) ==
    /\ pc[p] = "bget"
    /\ \E k \in 1 .. Len(lru) : Cached(want[p], k) /\ busy[lru[k]]
    /\ pc' = [pc EXCEPT ![p] = "on_buf"]
    /\ UNCHANGED <<bufVars, lru, ide_queue, drive, disk, lost, want, cur, hold, panicked>>

\* bget(): the block is cached and free.
bget_cached(p) ==
    /\ pc[p] = "bget"
    /\ UNCHANGED <<valid, sector>>
    /\ \E k \in 1 .. Len(lru) : Cached(want[p], k) /\ ~busy[lru[k]] /\ Got(p, lru[k])

NotCached(s) == \A k \in 1 .. Len(lru) : ~Caches(lru[k], s)

\* bget(): a fresh buffer ...
bget_fresh(p) ==
    /\ pc[p] = "bget" /\ NotCached(want[p])
    /\ \E k \in 1 .. Len(lru) :
          /\ Spare(k)
          /\ valid' = Recycled(lru[k])
          /\ sector' = [sector EXCEPT ![lru[k]] = want[p]]
          /\ Got(p, lru[k])

\* Mutant: the loop stops before the first buffer of the list.
bget_panic_short(p) ==
    /\ pc[p] = "bget" /\ NotCached(want[p])
    /\ \A k \in 2 .. Len(lru) : busy[lru[k]]
    /\ panicked' = TRUE
    /\ UNCHANGED <<bufVars, lru, ide_queue, drive, disk, lost, pc, want, cur, hold>>

\* ... or panic("bget: no buffers").
bget_panic(p) ==
    /\ pc[p] = "bget" /\ NotCached(want[p])
    /\ \A k \in 1 .. Len(lru) : busy[lru[k]]
    /\ panicked' = TRUE
    /\ UNCHANGED <<bufVars, lru, ide_queue, drive, disk, lost, pc, want, cur, hold>>

bget(p) == bget_sleep(p) \/ bget_cached(p) \/ bget_fresh(p) \/ bget_panic(p)

\* The holder changes the data and calls bwrite().
bwrite(p, b, v) ==
    /\ pc[p] = "fs" /\ b \in hold[p]
    /\ data' = [data EXCEPT ![b] = v]
    /\ dirty' = [dirty EXCEPT ![b] = TRUE]
    /\ lost' = lost \ {sector[b]}
    /\ panicked' = ~busy[b]
    /\ pc' = [pc EXCEPT ![p] = "ide_rw"]
    /\ cur' = [cur EXCEPT ![p] = b]
    /\ UNCHANGED <<busy, valid, sector, lru, ide_queue, drive, disk, want, hold>>

\* Mutant: nobody is woken.
AfterRelease_silent == pc

AfterRelease == Woken(0)

\* The list with b at the head, and those that were before it one place on.
ToFront(b) ==
    LET place == CHOOSE k \in 1 .. Len(lru) : lru[k] = b
    IN  [k \in 1 .. Len(lru) |-> CASE k = 1                -> b
                                   [] 1 < k /\ k <= place  -> lru[k - 1]
                                   [] OTHER                -> lru[k]]

brelse(p, b) ==
    /\ pc[p] = "fs" /\ b \in hold[p]
    /\ panicked' = ~busy[b]
    /\ lru' = ToFront(b)
    /\ busy' = [busy EXCEPT ![b] = FALSE]
    /\ pc' = AfterRelease
    /\ hold' = [hold EXCEPT ![p] = @ \ {b}]
    /\ UNCHANGED <<valid, dirty, sector, data, ide_queue, drive, disk, lost, want, cur>>
-----------------------------------------------------------------------------
Command(b, count) ==
    [state |-> "busy", write |-> dirty[b], sector |-> sector[b], count |-> count,
     val |-> IF dirty[b] THEN data[b] ELSE 0]

\* Mutant: a write is for one sector more.
ide_start_request_long(b) == Command(b, IF dirty[b] THEN 2 ELSE 1)

\* What ide_start_request(b) writes to the registers of the drive.
ide_start_request(b) == Command(b, 1)

\* ide_rw() up to its first sleep(b, &ide_lock).
ide_rw(p) == LET b == cur[p] IN
    /\ pc[p] = "ide_rw"
    /\ panicked' = (~busy[b] \/ (valid[b] /\ ~dirty[b]))
    /\ ide_queue' = Append(ide_queue, b)
    /\ drive' = IF ide_queue = <<>> THEN ide_start_request(b) ELSE drive
    /\ pc' = [pc EXCEPT ![p] = "on_b"]
    /\ UNCHANGED <<bufVars, lru, disk, lost, want, cur, hold>>

\* The process has been woken: back in the loop of ide_rw().
ide_rw_test(p) == LET b == cur[p] IN
    /\ pc[p] = "ide_check"
    /\ IF valid[b] /\ ~dirty[b]
       THEN pc' = [pc EXCEPT ![p] = "fs"] /\ cur' = [cur EXCEPT ![p] = 0]
       ELSE pc' = [pc EXCEPT ![p] = "on_b"] /\ UNCHANGED cur
    /\ UNCHANGED <<bufVars, lru, ide_queue, drive, disk, lost, want, hold, panicked>>

\* The drive carries out its command, or fails to.
drive_done(ok) ==
    /\ drive.state = "busy" /\ (ok \/ drive.sector \in Bad)
    /\ drive' = [drive EXCEPT !.state = IF ok THEN "done" ELSE "error"]
    /\ disk' = [s \in Sector |->
                   IF ok /\ drive.write /\ s \in drive.sector .. drive.sector + drive.count - 1
                   THEN drive.val ELSE disk[s]]
    /\ lost' = IF ok THEN lost ELSE lost \cup {drive.sector}
    /\ UNCHANGED <<bufVars, lru, ide_queue, pc, want, cur, hold, panicked>>

\* Mutant: the drive is left idle while there are requests in the queue.
StartNext_forgotten == Idle("idle")

StartNext == IF Len(ide_queue) = 1 THEN Idle("idle")
                                   ELSE ide_start_request(ide_queue[2])

\* ide_intr() with nothing in the queue.
ide_intr_stray ==
    /\ drive.state \in {"done", "error"} /\ ide_queue = <<>>
    /\ drive' = Idle("idle")
    /\ UNCHANGED <<bufVars, lru, ide_queue, disk, lost, pc, want, cur, hold, panicked>>

ide_intr ==
    /\ drive.state \in {"done", "error"} /\ ide_queue # <<>>
    /\ LET b == Head(ide_queue) IN
       /\ data' = IF ~dirty[b] /\ drive.state = "done"
                  THEN [data EXCEPT ![b] = disk[drive.sector]] ELSE data
       /\ valid' = [valid EXCEPT ![b] = TRUE]
       /\ dirty' = [dirty EXCEPT ![b] = FALSE]
       /\ pc' = Woken(b)
    /\ ide_queue' = Tail(ide_queue)
    /\ drive' = StartNext
    /\ UNCHANGED <<busy, sector, lru, disk, lost, want, cur, hold, panicked>>
-----------------------------------------------------------------------------
KernelStep(p) == bget(p) \/ ide_rw(p) \/ ide_rw_test(p)

DiskStep == \E ok \in BOOLEAN : drive_done(ok)

Release(p) == \E b \in Buf : brelse(p, b)

\* After a panic the kernel does nothing any more.
halted == panicked /\ UNCHANGED vars

Next ==
    \/ /\ ~panicked
       /\ \/ \E p \in Proc :
               \/ KernelStep(p) \/ Release(p)
               \/ \E s \in Sector : bread(p, s)
               \/ \E b \in Buf, v \in Value : bwrite(p, b, v)
          \/ DiskStep \/ ide_intr_stray \/ ide_intr
    \/ halted

Spec == Init /\ [][Next]_vars

\* The drive finishes its commands, its interrupts are taken, and every
\* process gets the CPU again and again.
Fairness ==
    /\ WF_vars(DiskStep) /\ WF_vars(ide_intr)
    /\ \A p \in Proc : WF_vars(KernelStep(p))

FairSpec == Spec /\ Fairness
-----------------------------------------------------------------------------
InIde(p) == pc[p] \in {"ide_rw", "on_b", "ide_check"}

\* The cache and the driver implement the block store: a block keeps its last
\* contents through write, release, eviction and re-reading, unless a command
\* of the drive for this very block fails, and then until it is written again.
Contents(s) == IF \E b \in Buf : valid[b] /\ sector[b] = s
               THEN data[CHOOSE b \in Buf : valid[b] /\ sector[b] = s]
               ELSE disk[s]
UserOf(s) == IF \E p \in Proc : \E b \in hold[p] : sector[b] = s
             THEN CHOOSE p \in Proc : \E b \in hold[p] : sector[b] = s
             ELSE Nobody
Stored(s) == IF s \in lost THEN Lost ELSE Contents(s)
Promise == INSTANCE BlockStore WITH
    User <- Proc, Block <- Sector,
    store <- [s \in Sector |-> Stored(s)], user <- [s \in Sector |-> UserOf(s)]
StoreSpec == Promise!StoreSpec

Holds(q, s) == \E b \in hold[q] : busy[b] /\ sector[b] = s

\* No wake-up is lost in bget(), and processes that hold one block while they
\* ask for another do not wait for each other: who sleeps there waits for a
\* buffer of another process, and that one either is not asleep there, or
\* waits in turn for one that is not.
SleeperHasHolder ==
    \A p \in Proc : pc[p] = "on_buf" =>
        \E q \in Proc \ {p} :
            /\ Holds(q, want[p])
            /\ pc[q] = "on_buf" => \E r \in Proc : Holds(r, want[q]) /\ pc[r] # "on_buf"

\* The only panic of bio.c and ide.c that can be reached is that of bget(), and
\* it takes more processes at work in the file system than half the buffers,
\* since none has more than two buffers: no buffer stays busy without a user.
OnlyBgetPanics ==
    panicked =>
        /\ \E p \in Proc : pc[p] = "bget" /\ NotCached(want[p])
        /\ \A b \in Buf : busy[b]
        /\ NBUF < 2 * Cardinality({p \in Proc : pc[p] = "bget" \/ hold[p] # {}})

\* Every disk request is finished and its process goes on, also when the drive
\* reports errors, unless the kernel has panicked meanwhile.
RequestsFinish == \A p \in Proc : InIde(p) ~> (pc[p] = "fs" \/ panicked)
=============================================================================
