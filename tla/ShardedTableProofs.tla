------------------------- MODULE ShardedTableProofs -------------------------
(***************************************************************************)
(* Proofs about ShardedTable for every set of keys, number of shards,      *)
(* readers, slots and thresholds.                                          *)
(*                                                                         *)
(* The argument: Locks says which task holds which shard, by where each    *)
(* task is.  It is inductive together with TypeOK and Bookkeeping, and it  *)
(* is what the three invariants about a task's view of a shard need: while *)
(* a reader or the sweep is inside a shard, nobody else writes there.      *)
(***************************************************************************)
EXTENDS ShardedTable, FiniteSetTheorems, TLAPS

Locks ==
  /\ \A s \in Shards : wlock[s] = "insert" <=> insPc = "write" /\ ShardOf[insKey] = s
  /\ \A s \in Shards : wlock[s] = "gc" <=> gcPc = "sweep" /\ gcShard = s
  /\ \A s \in Shards, r \in Readers :
       r \in rlock[s] <=> scPc[r] = "read" /\ scShard[r] = s
  /\ \A s \in Shards : wlock[s] # "none" => rlock[s] = {}

Bookkeeping ==
  /\ insPc = "try" => insTries < SpinTries
  /\ gcSeen \subseteq KeysOf(gcShard)
  /\ gcPc # "sweep" => gcSeen = {} /\ gcRemoved = 0
  /\ \A r \in Readers : scSeen[r] \subseteq KeysOf(scShard[r])
  /\ \A r \in Readers : scPc[r] # "read" => scSeen[r] = {}
  /\ currentSlot <= tip
  /\ gcSlot <= tip

LInv == TypeOK /\ Locks /\ Bookkeeping

-----------------------------------------------------------------------------
(* Lemmas about the shards of a map.                                       *)

\* HashMap::len is a natural number: a shard holds finitely many entries.
LEMMA ShardLenType ==
  ASSUME NEW t, NEW s
  PROVE  IsFiniteSet(Present(t, s)) /\ ShardLen(t, s) \in Nat
<1>1. Present(t, s) \subseteq Keys
  BY DEF Present, KeysOf
<1>2. IsFiniteSet(Present(t, s))
  BY <1>1, ShardedAssumption, FS_Subset
<1> QED
  BY <1>2, FS_CardinalityType DEF ShardLen

\* The shard after the one just left is a shard.
LEMMA NextShardType ==
  ASSUME NEW s \in Shards
  PROVE  NextShard(s) \in Shards
BY ShardedAssumption DEF NextShard, LastShard, Shards

\* A write to a key of another shard does not change how many entries shard s
\* has.
LEMMA OtherShardLen ==
  ASSUME NEW t \in [Keys -> Entry], NEW s, NEW k \in Keys, NEW e,
         ShardOf[k] # s
  PROVE  ShardLen([t EXCEPT ![k] = e], s) = ShardLen(t, s)
<1>1. Present([t EXCEPT ![k] = e], s) = Present(t, s)
  BY DEF Present, KeysOf
<1> QED
  BY <1>1 DEF ShardLen

\* Removing one entry of shard s lowers its length by one.
LEMMA RemovalLen ==
  ASSUME NEW t \in [Keys -> Entry], NEW s, NEW k \in KeysOf(s),
         t[k] # NoEntry
  PROVE  ShardLen(t, s) = ShardLen([t EXCEPT ![k] = NoEntry], s) + 1
<1> DEFINE u == [t EXCEPT ![k] = NoEntry]
<1>1. Present(u, s) = Present(t, s) \ {k}
  BY DEF Present, KeysOf
<1>2. k \in Present(t, s)
  BY DEF Present
<1>3. Cardinality(Present(t, s) \ {k}) = Cardinality(Present(t, s)) - 1
  BY <1>2, ShardLenType, FS_RemoveElement
<1>4. ShardLen(t, s) \in Nat
  BY ShardLenType
<1>5. ShardLen(u, s) = ShardLen(t, s) - 1
  BY <1>1, <1>3 DEF ShardLen
<1> HIDE DEF u
<1>6. ShardLen(t, s) = ShardLen(u, s) + 1
  BY <1>4, <1>5
<1> QED
  BY <1>6 DEF u
-----------------------------------------------------------------------------
(* Type correctness and who holds what.                                    *)

\* At the start no lock is held.
LEMMA LInvInit == Init => LInv
BY ShardedAssumption
   DEF Init, LInv, TypeOK, Locks, Bookkeeping, Shards, Entry, KeysOf

\* The steps of the monitor task.
LEMMA LInvMonitor ==
  ASSUME LInv, Monitor
  PROVE  LInv'
<1> USE ShardedAssumption
<1> USE DEF LInv, vars, sharedVars, lockVars, insVars, gcVars, scVars
<1>1. ASSUME NEW s \in Slots, SlotStore(s) PROVE LInv'
  BY <1>1 DEF SlotStore, TypeOK, Locks, Bookkeeping, KeysOf, Entry
<1>2. ASSUME NEW k \in Keys, NEW s \in Slots, InsertBegin(k, s) PROVE LInv'
  BY <1>2 DEF InsertBegin, TypeOK, Locks, Bookkeeping, KeysOf, Entry
<1>3. CASE InsertSpin
  BY <1>3 DEF InsertSpin, TypeOK, Locks, Bookkeeping, KeysOf
<1>4. CASE InsertAcquire
  BY <1>4 DEF InsertAcquire, Free, TypeOK, Locks, Bookkeeping, KeysOf
<1>5. CASE InsertWrite
  BY <1>5 DEF InsertWrite, TypeOK, Locks, Bookkeeping, KeysOf, Entry
<1> QED
  BY <1>1, <1>2, <1>3, <1>4, <1>5 DEF Monitor

\* The steps of the GC task.
LEMMA LInvGc ==
  ASSUME LInv, Gc
  PROVE  LInv'
<1> USE ShardedAssumption
<1> USE DEF LInv, vars, sharedVars, lockVars, insVars, gcVars, scVars
<1>1. CASE GcStart
  BY <1>1 DEF GcStart, TypeOK, Locks, Bookkeeping, KeysOf, Shards
<1>2. CASE GcLock
  BY <1>2, ShardLenType DEF GcLock, Free, TypeOK, Locks, Bookkeeping, KeysOf
<1>3. ASSUME NEW k \in Keys, GcVisit(k) PROVE LInv'
  BY <1>3 DEF GcVisit, TypeOK, Locks, Bookkeeping, KeysOf, Entry
<1>4. CASE GcUnlock
  BY <1>4, NextShardType DEF GcUnlock, TypeOK, Locks, Bookkeeping, KeysOf
<1> QED
  BY <1>1, <1>2, <1>3, <1>4 DEF Gc

\* The steps of a reader.
LEMMA LInvScan ==
  ASSUME LInv, NEW r \in Readers, Scan(r)
  PROVE  LInv'
<1> USE ShardedAssumption
<1> USE DEF LInv, vars, sharedVars, lockVars, insVars, gcVars, scVars
<1>1. CASE ScanStart(r)
  BY <1>1 DEF ScanStart, TypeOK, Locks, Bookkeeping, KeysOf, Shards
<1>2. CASE ScanLock(r)
  BY <1>2 DEF ScanLock, TypeOK, Locks, Bookkeeping, KeysOf
<1>3. ASSUME NEW k \in Keys, ScanVisit(r, k) PROVE LInv'
  BY <1>3 DEF ScanVisit, TypeOK, Locks, Bookkeeping, KeysOf
<1>4. CASE ScanUnlock(r)
  BY <1>4, NextShardType DEF ScanUnlock, TypeOK, Locks, Bookkeeping, KeysOf, Entry
<1> QED
  BY <1>1, <1>2, <1>3, <1>4 DEF Scan

\* Every variable keeps its type, and the locks are held by exactly the tasks
\* that are inside a shard: one writer, or any number of readers.
THEOREM LocksHeld == Safety => []LInv
<1>1. Init => LInv
  BY LInvInit
<1>2. LInv /\ [Next]_vars => LInv'
  <2> SUFFICES ASSUME LInv, [Next]_vars PROVE LInv'
    OBVIOUS
  <2>1. CASE UNCHANGED vars
    BY <2>1 DEF vars, sharedVars, lockVars, insVars, gcVars, scVars, LInv,
                TypeOK, Locks, Bookkeeping
  <2> QED
    BY <2>1, LInvMonitor, LInvGc, LInvScan DEF Next
<1> QED
  BY <1>1, <1>2, PTL DEF Safety

\* TypeOK for every instance.
THEOREM TypeCorrect == Safety => []TypeOK
BY LocksHeld, PTL DEF LInv
-----------------------------------------------------------------------------
(* What a task sees of the shard it is in.                                 *)

\* Whoever writes to the table holds the key's shard, so no reader is there
\* and nothing a reader has seen changes; nor does what the sweep has seen,
\* unless it is the sweep itself that writes.
LEMMA InsertExcludes ==
  ASSUME LInv, InsertWrite
  PROVE  /\ insKey \in Keys
         /\ table' = [table EXCEPT ![insKey] = insSlot]
         /\ \A r \in Readers : scPc[r] = "read" => insKey \notin scSeen[r]
         /\ gcPc = "sweep" => ShardOf[insKey] # gcShard
<1>1. insKey \in Keys /\ ShardOf[insKey] \in Shards
  BY ShardedAssumption DEF LInv, TypeOK, InsertWrite
<1>2. wlock[ShardOf[insKey]] = "insert" /\ rlock[ShardOf[insKey]] = {}
  BY <1>1 DEF LInv, Locks, InsertWrite
<1>3. \A r \in Readers : scPc[r] = "read" => scShard[r] # ShardOf[insKey]
  BY <1>1, <1>2 DEF LInv, Locks
<1>4. \A r \in Readers : scPc[r] = "read" => insKey \notin scSeen[r]
  BY <1>3 DEF LInv, Bookkeeping, KeysOf
<1>5. gcPc = "sweep" => ShardOf[insKey] # gcShard
  BY <1>1, <1>2 DEF LInv, Locks
<1> QED
  BY <1>1, <1>4, <1>5 DEF InsertWrite

\* While the sweep removes an entry no reader is in the same shard.
LEMMA SweepExcludes ==
  ASSUME LInv, NEW k \in Keys, GcVisit(k)
  PROVE  \A r \in Readers : scPc[r] = "read" => k \notin scSeen[r]
<1>1. gcShard \in Shards /\ ShardOf[k] = gcShard
  BY DEF LInv, TypeOK, GcVisit, KeysOf
<1>2. wlock[gcShard] = "gc" /\ rlock[gcShard] = {}
  BY <1>1 DEF LInv, Locks, GcVisit
<1>3. \A r \in Readers : scPc[r] = "read" => scShard[r] # gcShard
  BY <1>1, <1>2 DEF LInv, Locks
<1> QED
  BY <1>1, <1>3 DEF LInv, Bookkeeping, KeysOf

\* A reader sees one state of the shard it is in (ShardSnapshot), whatever
\* the monitor and the GC task are doing.
THEOREM SnapshotsHold == Safety => []ShardSnapshot
<1>1. Init => ShardSnapshot
  BY DEF Init, ShardSnapshot
<1>2. LInv /\ ShardSnapshot /\ [Next]_vars => ShardSnapshot'
  <2> SUFFICES ASSUME LInv, ShardSnapshot, [Next]_vars PROVE ShardSnapshot'
    OBVIOUS
  <2> USE DEF ShardSnapshot, sharedVars, lockVars, insVars, gcVars, scVars
  <2>1. CASE UNCHANGED vars
    BY <2>1 DEF vars
  <2>2. ASSUME Monitor, ~InsertWrite PROVE ShardSnapshot'
    BY <2>2 DEF Monitor, SlotStore, InsertBegin, InsertSpin, InsertAcquire
  <2>3. CASE InsertWrite
    <3>1. UNCHANGED scVars
      BY <2>3 DEF InsertWrite
    <3>2. \A r \in Readers : scPc[r] = "read" =>
            \A k \in scSeen[r] : table'[k] = table[k]
      BY <2>3, InsertExcludes DEF LInv, TypeOK
    <3> QED
      BY <3>1, <3>2
  <2>4. ASSUME NEW k \in Keys, GcVisit(k) PROVE ShardSnapshot'
    <3>1. UNCHANGED scVars
      BY <2>4 DEF GcVisit
    <3>2. \A r \in Readers : scPc[r] = "read" =>
            \A x \in scSeen[r] : table'[x] = table[x]
      BY <2>4, SweepExcludes DEF GcVisit, LInv, TypeOK
    <3> QED
      BY <3>1, <3>2
  <2>5. ASSUME Gc, ~(\E k \in Keys : GcVisit(k)) PROVE ShardSnapshot'
    BY <2>5 DEF Gc, GcStart, GcLock, GcUnlock
  <2>6. ASSUME NEW r \in Readers, Scan(r) PROVE ShardSnapshot'
    BY <2>6 DEF Scan, ScanStart, ScanLock, ScanVisit, ScanUnlock,
                LInv, TypeOK, Bookkeeping
  <2> QED
    BY <2>1, <2>2, <2>3, <2>4, <2>5, <2>6 DEF Next
<1> QED
  BY <1>1, <1>2, LocksHeld, PTL DEF Safety
-----------------------------------------------------------------------------
(* What the sweep does to the shard it is in.                              *)

\* Nothing the sweep has passed is aged, though inserts go on elsewhere.
THEOREM SweptHolds == Safety => []SweptShardIsFresh
<1>1. Init => SweptShardIsFresh
  BY DEF Init, SweptShardIsFresh
<1>2. LInv /\ SweptShardIsFresh /\ [Next]_vars => SweptShardIsFresh'
  <2> SUFFICES ASSUME LInv, SweptShardIsFresh, [Next]_vars
               PROVE  SweptShardIsFresh'
    OBVIOUS
  <2> USE DEF SweptShardIsFresh, Aged, sharedVars, lockVars, insVars, gcVars,
              scVars
  <2>1. CASE UNCHANGED vars
    BY <2>1 DEF vars
  <2>2. ASSUME Monitor, ~InsertWrite PROVE SweptShardIsFresh'
    BY <2>2 DEF Monitor, SlotStore, InsertBegin, InsertSpin, InsertAcquire
  <2>3. CASE InsertWrite
    <3>1. UNCHANGED gcVars
      BY <2>3 DEF InsertWrite
    <3>2. gcPc = "sweep" => \A k \in gcSeen : table'[k] = table[k]
      BY <2>3, InsertExcludes DEF LInv, TypeOK, Bookkeeping, KeysOf
    <3> QED
      BY <3>1, <3>2
  <2>4. ASSUME NEW k \in Keys, GcVisit(k) PROVE SweptShardIsFresh'
    <3>1. UNCHANGED <<gcSlot, gcPc>> /\ gcSeen' = gcSeen \cup {k}
      BY <2>4 DEF GcVisit
    <3>2. \A x \in gcSeen : table'[x] = table[x]
      BY <2>4 DEF GcVisit, LInv, TypeOK
    <3>3. table'[k] = NoEntry \/ Age(gcSlot, table'[k]) <= GcAge
      BY <2>4 DEF GcVisit, GcKeeps, LInv, TypeOK
    <3>4. table'[k] = NoEntry \/ ~(Age(gcSlot, table'[k]) > GcAge)
      <4> SUFFICES ASSUME table'[k] # NoEntry
                   PROVE  ~(Age(gcSlot, table'[k]) > GcAge)
        OBVIOUS
      <4>1. table'[k] \in Nat /\ gcSlot \in Nat /\ GcAge \in Nat
        BY <2>4, ShardedAssumption DEF GcVisit, LInv, TypeOK, Entry
      <4> QED
        BY <4>1, <3>3 DEF Age
    <3> QED
      BY <2>4, <3>1, <3>2, <3>4 DEF GcVisit
  <2>5. ASSUME Gc, ~(\E k \in Keys : GcVisit(k)) PROVE SweptShardIsFresh'
    BY <2>5 DEF Gc, GcStart, GcLock, GcUnlock, LInv, Bookkeeping
  <2>6. ASSUME NEW r \in Readers, Scan(r) PROVE SweptShardIsFresh'
    BY <2>6 DEF Scan, ScanStart, ScanLock, ScanVisit, ScanUnlock
  <2> QED
    BY <2>1, <2>2, <2>3, <2>4, <2>5, <2>6 DEF Next
<1> QED
  BY <1>1, <1>2, LocksHeld, PTL DEF Safety

\* The count gc_stale takes from two calls of len() is that of the entries it
\* removed: nobody else changes the shard between the two.
THEOREM EvictedCountHolds == Safety => []EvictedCountExact
<1>1. Init => EvictedCountExact
  BY DEF Init, EvictedCountExact
<1>2. LInv /\ EvictedCountExact /\ [Next]_vars => EvictedCountExact'
  <2> SUFFICES ASSUME LInv, EvictedCountExact, [Next]_vars
               PROVE  EvictedCountExact'
    OBVIOUS
  <2> USE DEF EvictedCountExact, sharedVars, lockVars, insVars, gcVars, scVars
  <2>1. CASE UNCHANGED vars
    BY <2>1 DEF vars
  <2>2. ASSUME Monitor, ~InsertWrite PROVE EvictedCountExact'
    BY <2>2 DEF Monitor, SlotStore, InsertBegin, InsertSpin, InsertAcquire
  <2>3. CASE InsertWrite
    <3>1. UNCHANGED gcVars
      BY <2>3 DEF InsertWrite
    <3>2. gcPc = "sweep" => ShardLen(table', gcShard) = ShardLen(table, gcShard)
      <4> SUFFICES ASSUME gcPc = "sweep"
                   PROVE  ShardLen(table', gcShard) = ShardLen(table, gcShard)
        OBVIOUS
      <4>1. /\ table \in [Keys -> Entry] /\ insKey \in Keys
            /\ ShardOf[insKey] # gcShard
            /\ table' = [table EXCEPT ![insKey] = insSlot]
        BY <2>3, InsertExcludes DEF LInv, TypeOK
      <4>2. ShardLen([table EXCEPT ![insKey] = insSlot], gcShard)
              = ShardLen(table, gcShard)
        BY <4>1, OtherShardLen
      <4> QED
        BY <4>1, <4>2
    <3> QED
      BY <3>1, <3>2
  <2>4. ASSUME NEW k \in Keys, GcVisit(k) PROVE EvictedCountExact'
    <3>1. UNCHANGED <<gcPc, gcShard, gcBefore>>
      BY <2>4 DEF GcVisit
    <3>2. CASE UNCHANGED <<table, gcRemoved>>
      BY <3>1, <3>2
    <3>3. ASSUME table[k] # NoEntry, gcRemoved' = gcRemoved + 1,
                 table' = [table EXCEPT ![k] = NoEntry]
          PROVE  EvictedCountExact'
      <4>1. ShardLen(table, gcShard) = ShardLen(table', gcShard) + 1
        BY <2>4, <3>3, RemovalLen DEF GcVisit, LInv, TypeOK
      <4>2. /\ ShardLen(table, gcShard) \in Nat
            /\ ShardLen(table', gcShard) \in Nat
            /\ gcRemoved \in Nat
        BY ShardLenType DEF LInv, TypeOK
      <4> QED
        BY <2>4, <3>1, <3>3, <4>1, <4>2 DEF GcVisit
    <3> QED
      BY <2>4, <3>2, <3>3 DEF GcVisit
  <2>5. CASE GcLock
    <3>1. gcRemoved = 0 /\ ShardLen(table, gcShard) \in Nat
      BY <2>5, ShardLenType DEF GcLock, LInv, Bookkeeping
    <3> QED
      BY <2>5, <3>1 DEF GcLock
  <2>6. CASE GcStart \/ GcUnlock
    BY <2>6 DEF GcStart, GcUnlock
  <2>7. ASSUME NEW r \in Readers, Scan(r) PROVE EvictedCountExact'
    BY <2>7 DEF Scan, ScanStart, ScanLock, ScanVisit, ScanUnlock
  <2> QED
    BY <2>1, <2>2, <2>3, <2>4, <2>5, <2>6, <2>7 DEF Next, Gc
<1> QED
  BY <1>1, <1>2, LocksHeld, PTL DEF Safety
-----------------------------------------------------------------------------
(* ShardedTable implements AccountTable.                                   *)

\* Every step of every task is an insert, an advance or an eviction of the
\* abstract table, or changes nothing there.
THEOREM Refinement == Safety => RefinesAccountTable
<1>1. Init => Abstract!TableInit
  BY DEF Init, Abstract!TableInit
<1>2. LInv /\ [Next]_vars => [Abstract!TableNext]_(Abstract!tableVars)
  <2> SUFFICES ASSUME LInv, [Next]_vars
               PROVE  [Abstract!TableNext]_(Abstract!tableVars)
    OBVIOUS
  <2> USE DEF Abstract!tableVars, Abstract!TableNext
  <2>1. ASSUME NEW s \in Slots, SlotStore(s) PROVE Abstract!TableNext
    BY <2>1 DEF SlotStore, Abstract!Advance
  <2>2. CASE InsertWrite
    <3>1. insKey \in Keys /\ insSlot \in Slots
      BY <2>2 DEF InsertWrite, LInv, TypeOK
    <3> QED
      BY <2>2, <3>1 DEF InsertWrite, Abstract!Insert
  <2>3. ASSUME NEW k \in Keys, GcVisit(k), table' # table
        PROVE  Abstract!TableNext
    <3>1. /\ table[k] # NoEntry
          /\ ~GcKeeps(table[k])
          /\ table' = [table EXCEPT ![k] = NoEntry]
          /\ tip' = tip
      BY <2>3 DEF GcVisit
    <3>2. /\ table[k] \in Nat /\ gcSlot \in Nat /\ tip \in Nat /\ GcAge \in Nat
          /\ gcSlot <= tip
      BY <3>1, ShardedAssumption DEF LInv, TypeOK, Entry, Bookkeeping
    <3>3. Abstract!Age(tip, table[k]) > GcAge
      BY <3>1, <3>2 DEF GcKeeps, Age, Abstract!Age
    <3> QED
      BY <3>1, <3>3 DEF Abstract!Evict
  <2>4. ASSUME Monitor, ~InsertWrite, ~(\E s \in Slots : SlotStore(s))
        PROVE  UNCHANGED Abstract!tableVars
    BY <2>4 DEF Monitor, InsertBegin, InsertSpin, InsertAcquire, sharedVars
  <2>5. ASSUME NEW k \in Keys, GcVisit(k), table' = table
        PROVE  UNCHANGED Abstract!tableVars
    BY <2>5 DEF GcVisit
  <2>6. CASE GcStart \/ GcLock \/ GcUnlock
    BY <2>6 DEF GcStart, GcLock, GcUnlock, sharedVars
  <2>7. ASSUME NEW r \in Readers, Scan(r) PROVE UNCHANGED Abstract!tableVars
    BY <2>7 DEF Scan, ScanStart, ScanLock, ScanVisit, ScanUnlock, sharedVars
  <2>8. CASE UNCHANGED vars
    BY <2>8 DEF vars, sharedVars
  <2> QED
    BY <2>1, <2>2, <2>3, <2>4, <2>5, <2>6, <2>7, <2>8 DEF Next, Monitor, Gc
<1> QED
  BY <1>1, <1>2, LocksHeld, PTL DEF Safety, RefinesAccountTable, Abstract!TableSpec
=============================================================================
