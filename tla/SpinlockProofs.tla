--------------------------- MODULE SpinlockProofs ---------------------------
(***************************************************************************)
(* Proofs about the spin locks, for any set of CPUs, any locks and any     *)
(* order Rank in which they are nested: an inductive invariant, how each   *)
(* step of the code preserves it, and what follows from it.                *)
(***************************************************************************)
EXTENDS Spinlock, FiniteSetTheorems, TLAPS

Thread(c) == <<c, "thread">>
Intr(c)   == <<c, "intr">>

\* What a context contributes to ncli.
Depth(x) == Cardinality(held[x]) + nest[x]
            + (IF pc[x] \in {"xchg", "popcli"} THEN 1 ELSE 0)

\* A call of pushcli() or acquire() under way is one its guard allowed.
CallInv ==
    \A x \in Context :
        /\ IsFiniteSet(held[x])
        /\ pc[x] = "cli" /\ arg[x] = NoLock => nest[x] < MaxNest
        /\ pc[x] = "xchg" => arg[x] \in Lock
        /\ pc[x] \in {"cli", "xchg"} /\ arg[x] \in Lock =>
               \A m \in held[x] : Rank[m] < Rank[arg[x]]

\* The lock words agree with what the contexts hold.
LockInv ==
    /\ \A x \in Context : \A l \in held[x] : locked[l] /\ owner[l] = x[1]
    /\ \A l \in Lock : locked[l] =>
          \E x \in Context : l \in held[x]
    /\ MutualExclusion

\* ncli counts what the running context has to undo; the other one has nothing.
CliInv(c) ==
    /\ ncli[c] = Depth(Cur(c))
    /\ FL_IF[c] => ncli[c] = 0
    /\ level[c] = "thread" => Quiet(Intr(c))
    /\ level[c] = "intr" => /\ pc[Thread(c)] \in {"idle", "cli"}
                            /\ held[Thread(c)] = {} /\ nest[Thread(c)] = 0

\* intena, and the flag pushcli() has read, are the flag to come back to: the
\* thread's own one, or in a handler the one clear since the interrupt.
FlagInv(c) ==
    /\ level[c] = "thread" =>
          /\ ncli[c] = 0 => FL_IF[c] = base[c]
          /\ ncli[c] > 0 => intena[c] = base[c]
          /\ ncli[c] = 0 /\ pc[Thread(c)] = "cli" => eflags[Thread(c)] = base[c]
    /\ level[c] = "intr" =>
          /\ base[c] = TRUE
          /\ FL_IF[c] = FALSE
          /\ ncli[c] > 0 => intena[c] = FALSE
          /\ ncli[c] = 0 /\ pc[Intr(c)] = "cli" => eflags[Intr(c)] = FALSE
          /\ pc[Thread(c)] = "cli" => eflags[Thread(c)] = TRUE

IInv ==
    /\ TypeOK /\ CallInv /\ LockInv /\ NoPanic
    /\ \A c \in CPU : CliInv(c) /\ FlagInv(c)
-----------------------------------------------------------------------------
\* A context with nothing to undo holds nothing, and the other way round.
LEMMA DepthZero ==
    ASSUME TypeOK, CallInv, NEW x \in Context
    PROVE  /\ Depth(x) \in Nat
           /\ Depth(x) = 0 <=> /\ held[x] = {} /\ nest[x] = 0
                               /\ pc[x] \notin {"xchg", "popcli"}
<1>1. IsFiniteSet(held[x])
  BY Zenon DEF CallInv
<1>2. Cardinality(held[x]) \in Nat /\ (Cardinality(held[x]) = 0 <=> held[x] = {})
  BY <1>1, FS_CardinalityType, FS_EmptySet, Zenon
<1>3. nest[x] \in Nat
  BY SpinlockAssumption DEF TypeOK
<1>. QED
  BY <1>2, <1>3 DEF Depth

\* The contexts of a CPU, and the one it runs.
LEMMA Contexts ==
    ASSUME TypeOK, NEW c \in CPU
    PROVE  /\ Thread(c) \in Context /\ Intr(c) \in Context
           /\ Cur(c) \in Context
           /\ level[c] = "thread" => Cur(c) = Thread(c)
           /\ level[c] = "intr" => Cur(c) = Intr(c)
           /\ level[c] \in {"thread", "intr"}
           /\ \A d \in CPU : d # c => /\ Thread(d) # Cur(c)
                                      /\ Intr(d) # Cur(c)
                                      /\ Cur(d) # Cur(c)
           /\ Thread(c) # Intr(c)
BY Zenon DEF TypeOK, Context, Level, Thread, Intr, Cur

\* The step leaves the CPU d alone.
Untouched(d) ==
    /\ ncli'[d] = ncli[d] /\ intena'[d] = intena[d] /\ FL_IF'[d] = FL_IF[d]
    /\ level'[d] = level[d] /\ base'[d] = base[d]
    /\ \A x \in {Thread(d), Intr(d)} :
          /\ pc'[x] = pc[x] /\ held'[x] = held[x] /\ nest'[x] = nest[x]
          /\ eflags'[x] = eflags[x]

\* A CPU the step leaves alone keeps its invariants.
LEMMA OtherCPU ==
    ASSUME TypeOK, NEW d \in CPU, CliInv(d), FlagInv(d), Untouched(d)
    PROVE  CliInv(d)' /\ FlagInv(d)'
<1>1. Cur(d) \in {Thread(d), Intr(d)} /\ Cur(d)' = Cur(d)
  BY Contexts, ZenonT(30) DEF Untouched, Cur
<1>2. Depth(Cur(d))' = Depth(Cur(d))
  BY <1>1, Zenon DEF Untouched, Depth
<1>3. CliInv(d)'
  BY <1>1, <1>2, Zenon DEF CliInv, Untouched, Quiet, Thread, Intr
<1>4. FlagInv(d)'
  BY Zenon DEF FlagInv, Untouched, Thread, Intr
<1>. QED
  BY <1>3, <1>4, Zenon

\* The state after initlock(), with all CPUs in their boot code, satisfies the
\* invariant.
LEMMA InitInv == Init => IInv
<1>. SUFFICES ASSUME Init PROVE IInv
  BY Zenon
<1>1. TypeOK
  <2>1. locked \in [Lock -> BOOLEAN] /\ owner \in [Lock -> CPU \cup {NoCPU}]
    BY Zenon DEF Init, initlock
  <2>2. /\ ncli \in [CPU -> Nat] /\ intena \in [CPU -> BOOLEAN]
        /\ FL_IF \in [CPU -> BOOLEAN] /\ level \in [CPU -> Level]
        /\ base \in [CPU -> BOOLEAN] /\ panicked \in BOOLEAN
    BY ZenonT(30) DEF Init, Level
  <2>3. /\ pc \in [Context -> {"idle", "cli", "xchg", "popcli"}]
        /\ arg \in [Context -> Lock \cup {NoLock}]
        /\ eflags \in [Context -> BOOLEAN]
        /\ held \in [Context -> SUBSET Lock]
    BY Zenon DEF Init
  <2>4. nest \in [Context -> 0 .. MaxNest]
    BY SpinlockAssumption DEF Init
  <2>. QED
    BY <2>1, <2>2, <2>3, <2>4, Zenon DEF TypeOK
<1>2. CallInv
  BY FS_EmptySet, Zenon DEF Init, CallInv
<1>3. LockInv
  BY Zenon DEF Init, initlock, LockInv, MutualExclusion
<1>4. ASSUME NEW c \in CPU PROVE CliInv(c)
  BY <1>1, Contexts, FS_EmptySet DEF Init, CliInv, Depth, Quiet
<1>5. ASSUME NEW c \in CPU PROVE FlagInv(c)
  BY <1>1, Contexts, ZenonT(30) DEF Init, FlagInv
<1>6. NoPanic
  BY Zenon DEF Init, NoPanic
<1>. QED
  BY <1>1, <1>2, <1>3, <1>4, <1>5, <1>6, Zenon DEF IInv
-----------------------------------------------------------------------------
\* The call of acquire() or pushcli(), up to read_eflags, preserves it.
LEMMA AcquireStep ==
    ASSUME IInv, NEW c \in CPU, NEW l \in Lock \cup {NoLock},
           acquire(c, l), UNCHANGED <<level, base>>
    PROVE  IInv'
<1>. USE DEF acquire, Goto, lockVars, cpuVars, ctxVars
<1>0. TypeOK /\ CallInv /\ LockInv /\ NoPanic /\ CliInv(c) /\ FlagInv(c)
  BY Zenon DEF IInv
<1>1. Cur(c) \in Context /\ Cur(c)' = Cur(c)
  BY <1>0, Contexts, Zenon DEF Cur
<1>2. TypeOK'
  BY <1>0, <1>1, SpinlockAssumption, Zenon DEF TypeOK
<1>3. CallInv'
  BY <1>0, <1>1, SpinlockAssumption, Zenon DEF CallInv, TypeOK
<1>4. LockInv'
  BY <1>0, Zenon DEF LockInv, MutualExclusion
<1>5. CliInv(c)'
  <2>1. Depth(Cur(c))' = Depth(Cur(c))
    BY <1>0, <1>1, Zenon DEF Depth, TypeOK
  <2>. QED
    BY <1>0, <1>1, <2>1, Contexts, Zenon DEF CliInv, Quiet, TypeOK
<1>6. FlagInv(c)'
  BY <1>0, <1>1, Contexts, Zenon DEF FlagInv, TypeOK
<1>7. ASSUME NEW d \in CPU, d # c PROVE Untouched(d)
  BY <1>0, <1>1, <1>7, Contexts DEF Untouched, TypeOK
<1>. QED
  BY <1>0, <1>2, <1>3, <1>4, <1>5, <1>6, <1>7, OtherCPU, Zenon DEF IInv, NoPanic

\* pushcli() counts one more and clears the flag: the context owes one popcli().
LEMMA PushcliStep ==
    ASSUME IInv, NEW c \in CPU, pushcli(c), UNCHANGED <<level, base>>
    PROVE  IInv'
<1>0. TypeOK /\ CallInv /\ LockInv /\ NoPanic /\ CliInv(c) /\ FlagInv(c)
  BY Zenon DEF IInv
<1>1. Cur(c) \in Context /\ Cur(c)' = Cur(c)
  BY <1>0, Contexts, Zenon DEF Cur
<1>e. /\ pc[Cur(c)] = "cli"
      /\ FL_IF' = [FL_IF EXCEPT ![c] = FALSE]
      /\ intena' = IF ncli[c] = 0 THEN [intena EXCEPT ![c] = eflags[Cur(c)]] ELSE intena
      /\ ncli' = [ncli EXCEPT ![c] = @ + 1]
      /\ eflags' = [eflags EXCEPT ![Cur(c)] = FALSE]
      /\ \/ /\ arg[Cur(c)] = NoLock
            /\ nest' = [nest EXCEPT ![Cur(c)] = @ + 1]
            /\ pc' = [pc EXCEPT ![Cur(c)] = "idle"]
         \/ /\ arg[Cur(c)] # NoLock
            /\ nest' = nest
            /\ pc' = [pc EXCEPT ![Cur(c)] = "xchg"]
      /\ locked' = locked /\ owner' = owner /\ level' = level /\ arg' = arg
      /\ held' = held /\ base' = base /\ panicked' = panicked
  BY Zenon DEF pushcli, CountCli, Goto, lockVars
<1>2. TypeOK'
  BY <1>0, <1>1, <1>e, SpinlockAssumption DEF TypeOK, CallInv
<1>3. CallInv'
  BY <1>0, <1>1, <1>e, SpinlockAssumption DEF CallInv, TypeOK
<1>4. LockInv'
  BY <1>0, <1>e, Zenon DEF LockInv, MutualExclusion
<1>5. CliInv(c)'
  <2>1. Cardinality(held[Cur(c)]) \in Nat /\ nest[Cur(c)] \in Nat
    BY <1>0, <1>1, FS_CardinalityType, SpinlockAssumption DEF CallInv, TypeOK
  <2>2. Depth(Cur(c))' = Depth(Cur(c)) + 1
    BY <1>0, <1>1, <1>e, <2>1 DEF Depth, TypeOK
  <2>. QED
    BY <1>0, <1>1, <1>e, <2>2, Contexts DEF CliInv, Quiet, TypeOK
<1>6. FlagInv(c)'
  <2>1. /\ ncli'[c] = ncli[c] + 1 /\ ncli[c] \in Nat
        /\ FL_IF'[c] = FALSE /\ level'[c] = level[c] /\ base'[c] = base[c]
        /\ intena'[c] = IF ncli[c] = 0 THEN eflags[Cur(c)] ELSE intena[c]
    BY <1>0, <1>e, Zenon DEF TypeOK
  <2>2. CASE level[c] = "thread"
    <3>1. Cur(c) = Thread(c) /\ pc[Thread(c)] = "cli"
      BY <1>0, <1>e, <2>2, Contexts, Zenon
    <3>2. ncli[c] = 0 => eflags[Cur(c)] = base[c]
      BY <1>0, <2>2, <3>1, Zenon DEF FlagInv
    <3>3. ncli[c] # 0 => intena[c] = base[c]
      BY <1>0, <2>1, <2>2 DEF FlagInv
    <3>4. intena'[c] = base[c] /\ ncli'[c] # 0
      BY <2>1, <3>2, <3>3
    <3>. QED
      BY <2>1, <2>2, <3>4, Zenon DEF FlagInv
  <2>3. CASE level[c] = "intr"
    <3>1. pc'[Thread(c)] = pc[Thread(c)] /\ eflags'[Thread(c)] = eflags[Thread(c)]
      BY <1>0, <1>e, <2>3, Contexts, ZenonT(30) DEF TypeOK
    <3>. QED
      BY <1>0, <1>e, <2>1, <2>3, <3>1, Contexts DEF FlagInv
  <2>. QED
    BY <1>0, <2>2, <2>3, Contexts, Zenon
<1>7. ASSUME NEW d \in CPU, d # c PROVE Untouched(d)
  <2>1. \A x \in Context : x # Cur(c) =>
           /\ pc'[x] = pc[x] /\ nest'[x] = nest[x] /\ eflags'[x] = eflags[x]
    BY <1>0, <1>1, <1>e, Zenon DEF TypeOK
  <2>2. /\ ncli'[d] = ncli[d] /\ intena'[d] = intena[d] /\ FL_IF'[d] = FL_IF[d]
    BY <1>0, <1>e, <1>7, Zenon DEF TypeOK
  <2>3. {Thread(d), Intr(d)} \subseteq Context \ {Cur(c)}
    BY <1>0, <1>7, Contexts, Zenon
  <2>. QED
    BY <1>e, <2>1, <2>2, <2>3, ZenonT(30) DEF Untouched
<1>. QED
  BY <1>0, <1>e, <1>2, <1>3, <1>4, <1>5, <1>6, <1>7, OtherCPU, Zenon DEF IInv, NoPanic

\* A CPU holds a lock in the context it runs, or not at all.
LEMMA HoldingHere ==
    ASSUME TypeOK, LockInv, NEW c \in CPU, CliInv(c), NEW l \in Lock
    PROVE  holding(c, l) <=> l \in held[Cur(c)]
<1>1. ASSUME l \in held[Cur(c)] PROVE holding(c, l)
  BY <1>1, Contexts, Zenon DEF LockInv, holding, Cur
<1>2. ASSUME holding(c, l) PROVE l \in held[Cur(c)]
  <2>1. PICK x \in Context : l \in held[x]
    BY <1>2, Zenon DEF LockInv, holding
  <2>2. x[1] = c
    BY <1>2, <2>1, Zenon DEF LockInv, holding
  <2>3. x \in {Thread(c), Intr(c)}
    BY <2>2 DEF Context, Level, Thread, Intr
  <2>. QED
    BY <2>1, <2>3, Contexts, Zenon DEF CliInv, Quiet
<1>. QED
  BY <1>1, <1>2, Zenon

\* The successful xchg of acquire(): the lock was free, so its CPU is the only
\* holder, and what pushcli() counted is now the lock.
LEMMA XchgStep ==
    ASSUME IInv, NEW c \in CPU, acquire_xchg(c), UNCHANGED <<level, base>>
    PROVE  IInv'
<1>0. TypeOK /\ CallInv /\ LockInv /\ NoPanic /\ CliInv(c) /\ FlagInv(c)
  BY Zenon DEF IInv
<1>1. Cur(c) \in Context /\ Cur(c)' = Cur(c)
  BY <1>0, Contexts, Zenon DEF Cur
<1>a. PICK l \in Lock : l = arg[Cur(c)]
  BY <1>0, <1>1, Zenon DEF CallInv, acquire_xchg
<1>b. l \notin held[Cur(c)]
  BY <1>0, <1>1, <1>a, SpinlockAssumption DEF CallInv, TypeOK, acquire_xchg
<1>c. ~holding(c, l) /\ ~locked[l]
  BY <1>0, <1>a, <1>b, HoldingHere, Zenon DEF acquire_xchg
<1>d. \A x \in Context : l \notin held[x]
  BY <1>0, <1>c, Zenon DEF LockInv
<1>e. /\ pc[Cur(c)] = "xchg"
      /\ pc' = [pc EXCEPT ![Cur(c)] = "idle"]
      /\ arg' = [arg EXCEPT ![Cur(c)] = NoLock]
      /\ held' = [held EXCEPT ![Cur(c)] = @ \cup {l}]
      /\ locked' = [locked EXCEPT ![l] = TRUE]
      /\ owner' = [owner EXCEPT ![l] = c]
      /\ panicked' = FALSE
      /\ ncli' = ncli /\ intena' = intena /\ FL_IF' = FL_IF /\ level' = level
      /\ eflags' = eflags /\ nest' = nest /\ base' = base
  BY <1>a, <1>c, ZenonT(30) DEF acquire_xchg, TakeLock, RecordCPU, Goto, cpuVars, holding
<1>2. TypeOK'
  BY <1>0, <1>1, <1>e, ZenonT(30) DEF TypeOK
<1>3. CallInv'
  <2>1. IsFiniteSet(held[Cur(c)] \cup {l})
    BY <1>0, <1>1, FS_AddElement, ZenonT(30) DEF CallInv
  <2>. QED
    BY <1>0, <1>1, <1>e, <2>1, SpinlockAssumption, Zenon DEF CallInv, TypeOK
<1>4. LockInv'
  <2>1. Cur(c)[1] = c
    BY Zenon DEF Cur
  <2>2. /\ held'[Cur(c)] = held[Cur(c)] \cup {l}
        /\ \A x \in Context : x # Cur(c) => held'[x] = held[x]
    BY <1>0, <1>1, <1>e, Zenon DEF TypeOK
  <2>3. \A m \in Lock : m # l => locked'[m] = locked[m] /\ owner'[m] = owner[m]
    BY <1>0, <1>e, Zenon DEF TypeOK
  <2>4. locked'[l] = TRUE /\ owner'[l] = c
    BY <1>0, <1>e, Zenon DEF TypeOK
  <2>5. \A x \in Context : held[x] \subseteq Lock
    BY <1>0, Zenon DEF TypeOK
  <2>6. (\A x \in Context : \A m \in held[x] : locked[m] /\ owner[m] = x[1])'
    BY <1>0, <1>d, <2>1, <2>2, <2>3, <2>4, <2>5 DEF LockInv
  <2>7. (\A m \in Lock : locked[m] => \E x \in Context : m \in held[x])'
    BY <1>0, <1>1, <2>2, <2>3, Zenon DEF LockInv
  <2>8. MutualExclusion'
    <3>1. SUFFICES ASSUME NEW x \in Context, NEW y \in Context, x # y,
                          NEW m, m \in held'[x], m \in held'[y]
                   PROVE  FALSE
      BY Zenon DEF MutualExclusion
    <3>2. ~(m \in held[x] /\ m \in held[y])
      BY <1>0, <3>1, Zenon DEF LockInv, MutualExclusion
    <3>3. x = Cur(c) \/ y = Cur(c)
      BY <2>2, <3>1, <3>2, Zenon
    <3>. QED
      BY <1>d, <2>2, <3>1, <3>2, <3>3, Zenon
  <2>. QED
    BY <2>6, <2>7, <2>8, Zenon DEF LockInv
<1>5. CliInv(c)'
  <2>1. Cardinality(held[Cur(c)] \cup {l}) = Cardinality(held[Cur(c)]) + 1
    BY <1>0, <1>1, <1>b, FS_AddElement, ZenonT(30) DEF CallInv
  <2>2. Cardinality(held[Cur(c)]) \in Nat /\ nest[Cur(c)] \in Nat
    BY <1>0, <1>1, FS_CardinalityType, SpinlockAssumption DEF CallInv, TypeOK
  <2>3. Depth(Cur(c))' = Depth(Cur(c))
    BY <1>0, <1>1, <1>e, <2>1, <2>2 DEF Depth, TypeOK
  <2>. QED
    BY <1>0, <1>1, <1>e, <2>3, Contexts, Zenon DEF CliInv, Quiet, TypeOK
<1>6. FlagInv(c)'
  BY <1>0, <1>1, <1>e, Contexts, Zenon DEF FlagInv, TypeOK
<1>7. ASSUME NEW d \in CPU, d # c PROVE Untouched(d)
  BY <1>0, <1>1, <1>e, <1>7, Contexts DEF Untouched, TypeOK
<1>8. NoPanic'
  BY <1>e, Zenon DEF NoPanic
<1>. QED
  BY <1>0, <1>2, <1>3, <1>4, <1>5, <1>6, <1>7, <1>8, OtherCPU, Zenon DEF IInv

\* release() gives the lock up; what it counted is now the popcli() to come.
LEMMA ReleaseStep ==
    ASSUME IInv, NEW c \in CPU, NEW l \in Lock, release(c, l), UNCHANGED <<level, base>>
    PROVE  IInv'
<1>0. TypeOK /\ CallInv /\ LockInv /\ NoPanic /\ CliInv(c) /\ FlagInv(c)
  BY Zenon DEF IInv
<1>1. Cur(c) \in Context /\ Cur(c)' = Cur(c)
  BY <1>0, Contexts, Zenon DEF Cur
<1>a. holding(c, l)
  BY <1>0, HoldingHere, Zenon DEF release
<1>e. /\ pc[Cur(c)] = "idle" /\ l \in held[Cur(c)]
      /\ pc' = [pc EXCEPT ![Cur(c)] = "popcli"]
      /\ held' = [held EXCEPT ![Cur(c)] = @ \ {l}]
      /\ locked' = [locked EXCEPT ![l] = FALSE]
      /\ owner' = [owner EXCEPT ![l] = NoCPU]
      /\ panicked' = FALSE
      /\ ncli' = ncli /\ intena' = intena /\ FL_IF' = FL_IF /\ level' = level
      /\ arg' = arg /\ eflags' = eflags /\ nest' = nest /\ base' = base
  BY <1>a, ZenonT(30) DEF release, Goto, cpuVars, holding
<1>2. TypeOK'
  BY <1>0, <1>1, <1>e, ZenonT(30) DEF TypeOK
<1>3. CallInv'
  <2>1. IsFiniteSet(held[Cur(c)] \ {l})
    BY <1>0, <1>1, FS_RemoveElement, Zenon DEF CallInv
  <2>. QED
    BY <1>0, <1>1, <1>e, <2>1, Zenon DEF CallInv, TypeOK
<1>4. LockInv'
  <2>1. /\ held'[Cur(c)] = held[Cur(c)] \ {l}
        /\ \A x \in Context : x # Cur(c) => held'[x] = held[x]
    BY <1>0, <1>1, <1>e, Zenon DEF TypeOK
  <2>2. \A x \in Context : x # Cur(c) => l \notin held[x]
    BY <1>0, <1>1, <1>e, Zenon DEF LockInv, MutualExclusion
  <2>3. \A m \in Lock : m # l => locked'[m] = locked[m] /\ owner'[m] = owner[m]
    BY <1>0, <1>e, Zenon DEF TypeOK
  <2>4. locked'[l] = FALSE
    BY <1>0, <1>e, Zenon DEF TypeOK
  <2>5. \A x \in Context : held[x] \subseteq Lock /\ l \notin held'[x] /\ held'[x] \subseteq held[x]
    BY <1>0, <2>1, <2>2, Zenon DEF TypeOK
  <2>6. (\A x \in Context : \A m \in held[x] : locked[m] /\ owner[m] = x[1])'
    BY <1>0, <2>3, <2>5 DEF LockInv
  <2>7. (\A m \in Lock : locked[m] => \E x \in Context : m \in held[x])'
    BY <1>0, <1>1, <2>1, <2>3, <2>4, Zenon DEF LockInv
  <2>8. MutualExclusion'
    BY <1>0, <2>5, Zenon DEF LockInv, MutualExclusion
  <2>. QED
    BY <2>6, <2>7, <2>8, Zenon DEF LockInv
<1>5. CliInv(c)'
  <2>1. Cardinality(held[Cur(c)] \ {l}) = Cardinality(held[Cur(c)]) - 1
    BY <1>0, <1>1, <1>e, FS_RemoveElement, ZenonT(30) DEF CallInv
  <2>2. Cardinality(held[Cur(c)]) \in Nat /\ nest[Cur(c)] \in Nat
    BY <1>0, <1>1, FS_CardinalityType, SpinlockAssumption DEF CallInv, TypeOK
  <2>3. Depth(Cur(c))' = Depth(Cur(c))
    BY <1>0, <1>1, <1>e, <2>1, <2>2 DEF Depth, TypeOK
  <2>. QED
    BY <1>0, <1>1, <1>e, <2>3, Contexts, Zenon DEF CliInv, Quiet, TypeOK
<1>6. FlagInv(c)'
  BY <1>0, <1>1, <1>e, Contexts, Zenon DEF FlagInv, TypeOK
<1>7. ASSUME NEW d \in CPU, d # c PROVE Untouched(d)
  <2>1. {Thread(d), Intr(d)} \subseteq Context \ {Cur(c)}
    BY <1>0, <1>7, Contexts, Zenon
  <2>. QED
    BY <1>0, <1>e, <1>7, <2>1, Zenon DEF Untouched, TypeOK
<1>. QED
  BY <1>0, <1>e, <1>2, <1>3, <1>4, <1>5, <1>6, <1>7, OtherCPU, Zenon DEF IInv, NoPanic
-----------------------------------------------------------------------------
\* The call of a bare popcli().
LEMMA PopcliCallStep ==
    ASSUME IInv, NEW c \in CPU, popcli_call(c), UNCHANGED <<level, base>>
    PROVE  IInv'
<1>0. TypeOK /\ CallInv /\ LockInv /\ NoPanic /\ CliInv(c) /\ FlagInv(c)
  BY Zenon DEF IInv
<1>1. Cur(c) \in Context /\ Cur(c)' = Cur(c)
  BY <1>0, Contexts, Zenon DEF Cur
<1>e. /\ pc[Cur(c)] = "idle" /\ nest[Cur(c)] > 0
      /\ pc' = [pc EXCEPT ![Cur(c)] = "popcli"]
      /\ nest' = [nest EXCEPT ![Cur(c)] = @ - 1]
      /\ locked' = locked /\ owner' = owner /\ ncli' = ncli /\ intena' = intena
      /\ FL_IF' = FL_IF /\ level' = level /\ arg' = arg /\ eflags' = eflags
      /\ held' = held /\ base' = base /\ panicked' = panicked
  BY Zenon DEF popcli_call, UndoPushcli, Goto, lockVars, cpuVars
<1>2. TypeOK'
  BY <1>0, <1>1, <1>e, SpinlockAssumption DEF TypeOK
<1>3. CallInv'
  BY <1>0, <1>1, <1>e, SpinlockAssumption, Zenon DEF CallInv, TypeOK
<1>4. LockInv'
  BY <1>0, <1>e, Zenon DEF LockInv, MutualExclusion
<1>5. CliInv(c)'
  <2>1. Cardinality(held[Cur(c)]) \in Nat /\ nest[Cur(c)] \in Nat
    BY <1>0, <1>1, FS_CardinalityType, SpinlockAssumption DEF CallInv, TypeOK
  <2>2. Depth(Cur(c))' = Depth(Cur(c))
    BY <1>0, <1>1, <1>e, <2>1 DEF Depth, TypeOK
  <2>. QED
    BY <1>0, <1>1, <1>e, <2>2, Contexts, Zenon DEF CliInv, Quiet, TypeOK
<1>6. FlagInv(c)'
  BY <1>0, <1>1, <1>e, Contexts, Zenon DEF FlagInv, TypeOK
<1>7. ASSUME NEW d \in CPU, d # c PROVE Untouched(d)
  <2>1. {Thread(d), Intr(d)} \subseteq Context \ {Cur(c)}
    BY <1>0, <1>7, Contexts, Zenon
  <2>. QED
    BY <1>0, <1>e, <1>7, <2>1, Zenon DEF Untouched, TypeOK
<1>. QED
  BY <1>0, <1>e, <1>2, <1>3, <1>4, <1>5, <1>6, <1>7, OtherCPU, Zenon DEF IInv, NoPanic

\* popcli() counts one less; the last one brings back the flag.
LEMMA PopcliStep ==
    ASSUME IInv, NEW c \in CPU, popcli(c), UNCHANGED <<level, base>>
    PROVE  IInv'
<1>0. TypeOK /\ CallInv /\ LockInv /\ NoPanic /\ CliInv(c) /\ FlagInv(c)
  BY Zenon DEF IInv
<1>1. Cur(c) \in Context /\ Cur(c)' = Cur(c)
  BY <1>0, Contexts, Zenon DEF Cur
<1>a. Depth(Cur(c)) \in Nat /\ Depth(Cur(c)) # 0
  BY <1>0, <1>1, DepthZero, Zenon DEF popcli, UncountCli
<1>b. ncli[c] \in Nat /\ ncli[c] # 0 /\ FL_IF[c] = FALSE
  BY <1>0, <1>a, Zenon DEF CliInv, TypeOK
<1>e. /\ pc[Cur(c)] = "popcli"
      /\ pc' = [pc EXCEPT ![Cur(c)] = "idle"]
      /\ ncli' = [ncli EXCEPT ![c] = ncli[c] - 1]
      /\ FL_IF' = [FL_IF EXCEPT ![c] = (ncli[c] = 1 /\ intena[c])]
      /\ panicked' = FALSE
      /\ locked' = locked /\ owner' = owner /\ intena' = intena /\ level' = level
      /\ arg' = arg /\ eflags' = eflags /\ held' = held /\ nest' = nest /\ base' = base
  BY <1>0, <1>b, ZenonT(30) DEF popcli, UncountCli, Goto, lockVars, ctxVars, TypeOK
<1>2. TypeOK'
  <2>1. FL_IF' \in [CPU -> BOOLEAN]
    BY <1>0, <1>e, Zenon DEF TypeOK
  <2>2. ncli' \in [CPU -> Nat]
    BY <1>0, <1>b, <1>e DEF TypeOK
  <2>3. pc' \in [Context -> {"idle", "cli", "xchg", "popcli"}] /\ panicked' \in BOOLEAN
    BY <1>0, <1>1, <1>e, ZenonT(30) DEF TypeOK
  <2>. QED
    BY <1>0, <1>e, <2>1, <2>2, <2>3, Zenon DEF TypeOK
<1>3. CallInv'
  BY <1>0, <1>1, <1>e, Zenon DEF CallInv, TypeOK
<1>4. LockInv'
  BY <1>0, <1>e, Zenon DEF LockInv, MutualExclusion
<1>5. CliInv(c)'
  <2>1. Cardinality(held[Cur(c)]) \in Nat /\ nest[Cur(c)] \in Nat
    BY <1>0, <1>1, FS_CardinalityType, SpinlockAssumption DEF CallInv, TypeOK
  <2>2. Depth(Cur(c))' = Depth(Cur(c)) - 1
    BY <1>0, <1>1, <1>e, <2>1 DEF Depth, TypeOK
  <2>. QED
    BY <1>0, <1>1, <1>b, <1>e, <2>2, Contexts DEF CliInv, Quiet, TypeOK
<1>6. FlagInv(c)'
  <2>1. /\ ncli'[c] = ncli[c] - 1 /\ level'[c] = level[c] /\ base'[c] = base[c]
        /\ FL_IF'[c] = (ncli[c] = 1 /\ intena[c]) /\ intena'[c] = intena[c]
        /\ pc'[Cur(c)] = "idle"
    BY <1>0, <1>1, <1>e, Zenon DEF TypeOK
  <2>2. CASE level[c] = "thread"
    BY <1>0, <1>b, <2>1, <2>2, Contexts DEF FlagInv, TypeOK
  <2>3. CASE level[c] = "intr"
    <3>1. pc'[Thread(c)] = pc[Thread(c)] /\ eflags'[Thread(c)] = eflags[Thread(c)]
      BY <1>0, <1>e, <2>3, Contexts, Zenon DEF TypeOK
    <3>2. intena[c] = FALSE /\ base[c] = TRUE
      BY <1>0, <1>b, <2>3 DEF FlagInv
    <3>3. FL_IF'[c] = FALSE
      BY <2>1, <3>2, ZenonT(30)
    <3>4. pc'[Intr(c)] # "cli"
      BY <1>0, <2>1, <2>3, Contexts, Zenon
    <3>. QED
      BY <1>0, <2>1, <2>3, <3>1, <3>2, <3>3, <3>4, Zenon DEF FlagInv
  <2>. QED
    BY <1>0, <2>2, <2>3, Contexts, Zenon
<1>7. ASSUME NEW d \in CPU, d # c PROVE Untouched(d)
  <2>1. {Thread(d), Intr(d)} \subseteq Context \ {Cur(c)}
    BY <1>0, <1>7, Contexts, Zenon
  <2>. QED
    BY <1>0, <1>e, <1>7, <2>1, Zenon DEF Untouched, TypeOK
<1>. QED
  BY <1>0, <1>e, <1>2, <1>3, <1>4, <1>5, <1>6, <1>7, OtherCPU, Zenon DEF IInv, NoPanic

\* sti() in scheduler(), where nothing is held.
LEMMA StiStep ==
    ASSUME IInv, NEW c \in CPU, sti(c)
    PROVE  IInv'
<1>0. TypeOK /\ CallInv /\ LockInv /\ NoPanic /\ CliInv(c) /\ FlagInv(c)
  BY Zenon DEF IInv
<1>1. Cur(c) \in Context /\ Thread(c) \in Context /\ Intr(c) \in Context
  BY <1>0, Contexts, Zenon
<1>e. /\ level[c] = "thread" /\ Quiet(Thread(c))
      /\ FL_IF' = [FL_IF EXCEPT ![c] = TRUE]
      /\ base' = [base EXCEPT ![c] = TRUE]
      /\ locked' = locked /\ owner' = owner /\ ncli' = ncli /\ intena' = intena
      /\ level' = level /\ pc' = pc /\ arg' = arg /\ eflags' = eflags /\ held' = held
      /\ nest' = nest /\ panicked' = panicked
  BY <1>0, Contexts, Zenon DEF sti, lockVars, cpuVars, ctxVars
<1>2. TypeOK'
  BY <1>0, <1>e, Zenon DEF TypeOK
<1>3. CallInv'
  BY <1>0, <1>e, ZenonT(30) DEF CallInv
<1>4. LockInv'
  BY <1>0, <1>e, Zenon DEF LockInv, MutualExclusion
<1>a. ncli[c] = 0 /\ ncli'[c] = 0 /\ Cur(c) = Thread(c) /\ Cur(c)' = Cur(c)
  BY <1>0, <1>1, <1>e, DepthZero, Contexts, Zenon DEF CliInv, Quiet, Cur
<1>5. CliInv(c)'
  BY <1>0, <1>a, <1>e, Zenon DEF CliInv, Depth, Quiet
<1>6. FlagInv(c)'
  <2>1. FL_IF'[c] = TRUE /\ base'[c] = TRUE /\ pc'[Thread(c)] = "idle"
    BY <1>0, <1>e, Zenon DEF TypeOK, Quiet
  <2>2. ncli'[c] = 0 /\ ~(ncli'[c] > 0)
    BY <1>a, <1>e
  <2>3. level'[c] # "intr"
    BY <1>e, Zenon
  <2>4. pc'[Thread(c)] # "cli" /\ FL_IF'[c] = base'[c]
    BY <2>1, ZenonT(30)
  <2>. QED
    BY <2>2, <2>3, <2>4, Zenon DEF FlagInv
<1>7. ASSUME NEW d \in CPU, d # c PROVE Untouched(d)
  BY <1>0, <1>e, <1>7, Zenon DEF Untouched, TypeOK
<1>. QED
  BY <1>0, <1>e, <1>2, <1>3, <1>4, <1>5, <1>6, <1>7, OtherCPU, Zenon DEF IInv, NoPanic

\* An interrupt finds the thread with nothing to undo.
LEMMA InterruptStep ==
    ASSUME IInv, NEW c \in CPU, interrupt(c)
    PROVE  IInv'
<1>0. TypeOK /\ CallInv /\ LockInv /\ NoPanic /\ CliInv(c) /\ FlagInv(c)
  BY Zenon DEF IInv
<1>1. Cur(c) \in Context /\ Thread(c) \in Context /\ Intr(c) \in Context
  BY <1>0, Contexts, Zenon
<1>e. /\ level[c] = "thread" /\ FL_IF[c] = TRUE
      /\ level' = [level EXCEPT ![c] = "intr"]
      /\ FL_IF' = [FL_IF EXCEPT ![c] = FALSE]
      /\ locked' = locked /\ owner' = owner /\ ncli' = ncli /\ intena' = intena
      /\ pc' = pc /\ arg' = arg /\ eflags' = eflags /\ held' = held /\ nest' = nest
      /\ base' = base /\ panicked' = panicked
  BY <1>0, Zenon DEF interrupt, lockVars, cpuVars, ctxVars, TypeOK
<1>2. TypeOK'
  BY <1>0, <1>e, Zenon DEF TypeOK, Level
<1>3. CallInv'
  BY <1>0, <1>e, ZenonT(30) DEF CallInv
<1>4. LockInv'
  BY <1>0, <1>e, Zenon DEF LockInv, MutualExclusion
<1>a. ncli[c] = 0 /\ Cur(c) = Thread(c) /\ Cur(c)' = Intr(c)
  BY <1>0, <1>e, Contexts, Zenon DEF CliInv, Cur, Intr, TypeOK
<1>b. /\ held[Thread(c)] = {} /\ nest[Thread(c)] = 0
      /\ pc[Thread(c)] \in {"idle", "cli"}
  BY <1>0, <1>1, <1>a, DepthZero, ZenonT(30) DEF CliInv, TypeOK
<1>c. Quiet(Intr(c)) /\ Depth(Intr(c)) = 0
  BY <1>0, <1>1, <1>e, DepthZero, Zenon DEF CliInv, Quiet
<1>d. level'[c] = "intr" /\ FL_IF'[c] = FALSE /\ base[c] = TRUE
  BY <1>0, <1>a, <1>e, Zenon DEF TypeOK, FlagInv
<1>5. CliInv(c)'
  <2>1. Depth(Intr(c))' = 0
    BY <1>c, <1>e, ZenonT(30) DEF Depth
  <2>. QED
    BY <1>a, <1>b, <1>d, <1>e, <2>1, Zenon DEF CliInv
<1>6. FlagInv(c)'
  <2>1. pc[Thread(c)] = "cli" => eflags[Thread(c)] = TRUE
    BY <1>0, <1>a, <1>d, <1>e, ZenonT(30) DEF FlagInv
  <2>. QED
    BY <1>a, <1>c, <1>d, <1>e, <2>1 DEF FlagInv, Quiet
<1>7. ASSUME NEW d \in CPU, d # c PROVE Untouched(d)
  BY <1>0, <1>e, <1>7, Zenon DEF Untouched, TypeOK
<1>. QED
  BY <1>0, <1>e, <1>2, <1>3, <1>4, <1>5, <1>6, <1>7, OtherCPU, Zenon DEF IInv, NoPanic

\* The return from a handler, which has undone all it did.
LEMMA IretStep ==
    ASSUME IInv, NEW c \in CPU, iret(c)
    PROVE  IInv'
<1>0. TypeOK /\ CallInv /\ LockInv /\ NoPanic /\ CliInv(c) /\ FlagInv(c)
  BY Zenon DEF IInv
<1>1. Cur(c) \in Context /\ Thread(c) \in Context /\ Intr(c) \in Context
  BY <1>0, Contexts, Zenon
<1>e. /\ level[c] = "intr" /\ Quiet(Intr(c))
      /\ level' = [level EXCEPT ![c] = "thread"]
      /\ FL_IF' = [FL_IF EXCEPT ![c] = TRUE]
      /\ locked' = locked /\ owner' = owner /\ ncli' = ncli /\ intena' = intena
      /\ pc' = pc /\ arg' = arg /\ eflags' = eflags /\ held' = held /\ nest' = nest
      /\ base' = base /\ panicked' = panicked
  BY <1>0, Contexts, Zenon DEF iret, lockVars, cpuVars, ctxVars
<1>2. TypeOK'
  BY <1>0, <1>e, Zenon DEF TypeOK, Level
<1>3. CallInv'
  BY <1>0, <1>e, ZenonT(30) DEF CallInv
<1>4. LockInv'
  BY <1>0, <1>e, Zenon DEF LockInv, MutualExclusion
<1>a. ncli[c] = 0 /\ Cur(c) = Intr(c) /\ Cur(c)' = Thread(c)
  BY <1>0, <1>1, <1>e, DepthZero, Contexts, Zenon DEF CliInv, Quiet, Cur, Thread, TypeOK
<1>b. Depth(Thread(c)) = 0
  BY <1>0, <1>1, <1>e, DepthZero, Zenon DEF CliInv
<1>c. level'[c] = "thread" /\ FL_IF'[c] = TRUE /\ base[c] = TRUE
  BY <1>0, <1>e, Zenon DEF TypeOK, FlagInv
<1>5. CliInv(c)'
  <2>1. Depth(Thread(c))' = 0
    BY <1>b, <1>e, ZenonT(30) DEF Depth
  <2>. QED
    BY <1>a, <1>c, <1>e, <2>1, Zenon DEF CliInv, Quiet
<1>6. FlagInv(c)'
  <2>1. pc[Thread(c)] = "cli" => eflags[Thread(c)] = TRUE
    BY <1>0, <1>e, Zenon DEF FlagInv
  <2>2. ncli'[c] = 0 /\ ~(ncli'[c] > 0)
    BY <1>a, <1>e
  <2>3. pc'[Thread(c)] = "cli" => eflags'[Thread(c)] = base'[c]
    BY <1>c, <1>e, <2>1, ZenonT(30)
  <2>4. FL_IF'[c] = base'[c] /\ level'[c] # "intr"
    BY <1>c, <1>e, ZenonT(30)
  <2>. QED
    BY <2>2, <2>3, <2>4, Zenon DEF FlagInv
<1>7. ASSUME NEW d \in CPU, d # c PROVE Untouched(d)
  BY <1>0, <1>e, <1>7, Zenon DEF Untouched, TypeOK
<1>. QED
  BY <1>0, <1>e, <1>2, <1>3, <1>4, <1>5, <1>6, <1>7, OtherCPU, Zenon DEF IInv, NoPanic

-----------------------------------------------------------------------------
\* The invariant is inductive: one case for each action.
LEMMA NextInv == IInv /\ [Next]_vars => IInv'
<1>. SUFFICES ASSUME IInv, [Next]_vars PROVE IInv'
  BY Zenon
<1>1. CASE UNCHANGED vars
  <2>1. TypeOK' /\ CallInv' /\ LockInv' /\ NoPanic'
    BY <1>1, Zenon DEF IInv, vars, lockVars, cpuVars, ctxVars, TypeOK, CallInv, LockInv,
                MutualExclusion, NoPanic
  <2>2. ASSUME NEW d \in CPU PROVE Untouched(d)
    BY <1>1, ZenonT(30) DEF vars, lockVars, cpuVars, ctxVars, Untouched
  <2>. QED
    BY <2>1, <2>2, OtherCPU, Zenon DEF IInv
<1>2. ASSUME NEW c \in CPU, ContextStep(c) PROVE IInv'
  BY <1>2, AcquireStep, PushcliStep, XchgStep, ReleaseStep, PopcliCallStep,
     PopcliStep, Zenon DEF ContextStep
<1>3. ASSUME NEW c \in CPU, sti(c) \/ interrupt(c) \/ iret(c) PROVE IInv'
  BY <1>3, StiStep, InterruptStep, IretStep, Zenon
<1>. QED
  BY <1>1, <1>2, <1>3, Zenon DEF Next

\* The inductive invariant holds in every reachable state.
THEOREM Invariance == Spec => []IInv
BY InitInv, NextInv, PTL DEF Spec

\* Every variable of the lock code keeps its type; ncli never drops below zero.
THEOREM TypeCorrect == Spec => []TypeOK
<1>1. IInv => TypeOK
  BY Zenon DEF IInv
<1>. QED
  BY <1>1, Invariance, PTL

\* acquire() and release() exclude each other on every lock, for any number of
\* CPUs and locks, with interrupt handlers that take the same locks.
THEOREM MutualExclusionHolds == Spec => []MutualExclusion
<1>1. IInv => MutualExclusion
  BY Zenon DEF IInv, LockInv
<1>. QED
  BY <1>1, Invariance, PTL

\* pushcli() in acquire() keeps the interrupts of a CPU off as long as the code
\* on it holds a lock.
THEOREM NoInterruptWhileHoldingHolds == Spec => []NoInterruptWhileHolding
<1>1. IInv => NoInterruptWhileHolding
  <2>1. SUFFICES ASSUME IInv, NEW c \in CPU, NEW v \in Level, held[<<c, v>>] # {}, FL_IF[c]
                 PROVE  FALSE
    BY ZenonT(30) DEF NoInterruptWhileHolding
  <2>2. TypeOK /\ CallInv /\ CliInv(c)
    BY <2>1, Zenon DEF IInv
  <2>3. <<c, v>> \in {Thread(c), Intr(c)} /\ <<c, v>> \in Context
    BY Zenon DEF Level, Thread, Intr, Context
  <2>4. <<c, v>> = Cur(c)
    BY <2>1, <2>2, <2>3, Contexts, Zenon DEF CliInv, Quiet
  <2>5. Depth(Cur(c)) = 0
    BY <2>1, <2>2, Zenon DEF CliInv
  <2>. QED
    BY <2>1, <2>2, <2>3, <2>4, <2>5, DepthZero, ZenonT(30)
<1>. QED
  BY <1>1, Invariance, PTL

\* No run of the lock code reaches the panics of acquire(), release() or
\* popcli(), as long as its callers nest the locks in one order.
THEOREM NoPanicHolds == Spec => []NoPanic
<1>1. IInv => NoPanic
  BY Zenon DEF IInv
<1>. QED
  BY <1>1, Invariance, PTL

\* Once a thread has undone all its pushcli() calls it has the interrupt flag
\* it had before the first, however interrupts and nested locks came in between.
THEOREM CliMatchedHolds == Spec => []CliMatched
<1>1. IInv => CliMatched
  <2>1. SUFFICES ASSUME IInv, NEW c \in CPU, level[c] = "thread", Quiet(Cur(c))
                 PROVE  FL_IF[c] = base[c]
    BY Zenon DEF CliMatched
  <2>2. TypeOK /\ CallInv /\ CliInv(c) /\ FlagInv(c) /\ Cur(c) \in Context
    BY <2>1, Contexts, Zenon DEF IInv
  <2>3. ncli[c] = 0
    BY <2>1, <2>2, DepthZero, Zenon DEF CliInv, Quiet
  <2>. QED
    BY <2>1, <2>2, <2>3, Zenon DEF FlagInv
<1>. QED
  BY <1>1, Invariance, PTL
=============================================================================
