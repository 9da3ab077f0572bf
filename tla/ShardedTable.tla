---------------------------- MODULE ShardedTable ----------------------------
(***************************************************************************)
(* ShardedTable<V> (src/src/state.rs) as the bot runs it.  POOLS and       *)
(* OBLIGATIONS are each one such table: NumShards maps, each behind its    *)
(* own RwLock, shared by                                                   *)
(*   - the monitor task, the only caller of insert, which also stores      *)
(*     CURRENT_SLOT when a slot update arrives (monitor.rs, dispatch),     *)
(*   - the GC task, which loads CURRENT_SLOT once per tick and then sweeps *)
(*     the shards one lock at a time (main.rs, gc_stale),                  *)
(*   - Readers, the tasks that walk the whole table with for_each or       *)
(*     collect_all (the strategy engine, the executor's exit-pool search). *)
(*                                                                         *)
(* An entry is its slot.  Every lock operation, every entry visited and    *)
(* every write is a step of its own, so the tasks interleave wherever the  *)
(* locks let them.                                                         *)
(***************************************************************************)
EXTENDS Naturals, FiniteSets

CONSTANTS
  Keys,       \* account addresses
  NumShards,  \* NUM_SHARDS, 64 in the code
  ShardOf,    \* ShardOf[k]: the shard of key k
  Readers,    \* tasks that scan the table
  Slots,      \* slot numbers that occur
  GcAge,      \* GC_SLOT_THRESHOLD
  SpinTries,  \* try_write attempts before insert blocks, 3 in the code
  NoEntry     \* the key is absent; also an unset local variable

Shards == 0 .. NumShards - 1

ASSUME ShardedAssumption ==
  /\ IsFiniteSet(Keys)
  /\ NumShards \in Nat \ {0}
  /\ ShardOf \in [Keys -> Shards]
  /\ Slots \subseteq Nat
  /\ 0 \in Slots
  /\ GcAge \in Nat
  /\ SpinTries \in Nat \ {0}
  /\ NoEntry \notin Nat \cup Keys

VARIABLES
  table,        \* the union of the shards' maps
  currentSlot,  \* CURRENT_SLOT
  tip,          \* history: the highest value CURRENT_SLOT has held
  wlock,        \* wlock[s]: the task holding shard s for writing, or "none"
  rlock,        \* rlock[s]: the readers holding shard s
  insPc, insKey, insSlot, insTries,             \* monitor, inside insert
  gcPc, gcSlot, gcShard, gcSeen, gcBefore,      \* GC task, inside gc_stale
  gcRemoved,    \* history: entries really removed from gcShard so far
  scPc, scShard,                                \* each reader, inside for_each
  scSeen, scGot \* keys visited in this shard, and the entries read there

sharedVars == <<table, currentSlot, tip>>
lockVars   == <<wlock, rlock>>
insVars    == <<insPc, insKey, insSlot, insTries>>
gcVars     == <<gcPc, gcSlot, gcShard, gcSeen, gcBefore, gcRemoved>>
scVars     == <<scPc, scShard, scSeen, scGot>>
vars       == <<sharedVars, lockVars, insVars, gcVars, scVars>>

Entry == Slots \cup {NoEntry}

KeysOf(s) == {k \in Keys : ShardOf[k] = s}

\* The entries present in shard s of a map, and HashMap::len of that shard.
Present(t, s) == {k \in KeysOf(s) : t[k] # NoEntry}
ShardLen(t, s) == Cardinality(Present(t, s))

\* u64::saturating_sub, the age of an entry in slots.
Age(now, slot) == IF now > slot THEN now - slot ELSE 0

Aged(now, k) == table[k] # NoEntry /\ Age(now, table[k]) > GcAge

\* MUTANTS of Free: a lock that lets a writer in beside readers, or beside
\* another writer.
FreeOfWriters(s) == wlock[s] = "none"
FreeOfReaders(s) == rlock[s] = {}

\* Nobody holds shard s: what write() waits for and try_write() tests.
Free(s) == wlock[s] = "none" /\ rlock[s] = {}

\* std's RwLock makes a reader wait behind a writer that is already waiting.
WriterWaits(s) ==
  \/ insPc = "block" /\ ShardOf[insKey] = s
  \/ gcPc = "lock" /\ gcShard = s

\* MUTANT of LastShard: the walk stops one shard short (0 .. NUM_SHARDS - 1).
LastButOneShard(s) == s = NumShards - 2

\* A scan or a sweep that is done with shard s goes on to the next one.
LastShard(s) == s = NumShards - 1
NextShard(s) == IF LastShard(s) THEN 0 ELSE s + 1

Init ==
  /\ table = [k \in Keys |-> NoEntry]
  /\ currentSlot = 0
  /\ tip = 0
  /\ wlock = [s \in Shards |-> "none"]
  /\ rlock = [s \in Shards |-> {}]
  /\ insPc = "idle" /\ insKey = NoEntry /\ insSlot = NoEntry /\ insTries = 0
  /\ gcPc = "idle" /\ gcSlot = 0 /\ gcShard = 0 /\ gcSeen = {}
  /\ gcBefore = 0 /\ gcRemoved = 0
  /\ scPc = [r \in Readers |-> "idle"]
  /\ scShard = [r \in Readers |-> 0]
  /\ scSeen = [r \in Readers |-> {}]
  /\ scGot = [r \in Readers |-> [k \in Keys |-> NoEntry]]
-----------------------------------------------------------------------------
(* The monitor task: slot updates, and insert on an account update.        *)

\* CURRENT_SLOT.store: the update's slot, whether or not it is newer.
SlotStore(s) ==
  /\ insPc = "idle"
  /\ currentSlot' = s
  /\ tip' = IF s > tip THEN s ELSE tip
  /\ UNCHANGED <<table, lockVars, insVars, gcVars, scVars>>

InsertBegin(k, s) ==
  /\ insPc = "idle"
  /\ insPc' = "try"
  /\ insKey' = k
  /\ insSlot' = s
  /\ insTries' = 0
  /\ UNCHANGED <<sharedVars, lockVars, gcVars, scVars>>

\* MUTANTS of InsertSpin: the loop runs once more than it should (0..=3); it
\* starts over instead of falling through to write().
InsertSpinOnceMore ==
  /\ insPc = "try"
  /\ ~Free(ShardOf[insKey])
  /\ insTries' = insTries + 1
  /\ insPc' = IF insTries = SpinTries THEN "block" ELSE "try"
  /\ UNCHANGED <<sharedVars, lockVars, insKey, insSlot, gcVars, scVars>>

InsertSpinForever ==
  /\ insPc = "try"
  /\ ~Free(ShardOf[insKey])
  /\ insTries' = IF insTries < SpinTries THEN insTries + 1 ELSE 0
  /\ UNCHANGED <<sharedVars, lockVars, insPc, insKey, insSlot, gcVars, scVars>>

\* try_write fails; after SpinTries failures insert blocks in write().
InsertSpin ==
  /\ insPc = "try"
  /\ ~Free(ShardOf[insKey])
  /\ insTries' = insTries + 1
  /\ insPc' = IF insTries + 1 = SpinTries THEN "block" ELSE "try"
  /\ UNCHANGED <<sharedVars, lockVars, insKey, insSlot, gcVars, scVars>>

\* try_write or write returns the guard.
InsertAcquire ==
  /\ insPc \in {"try", "block"}
  /\ Free(ShardOf[insKey])
  /\ wlock' = [wlock EXCEPT ![ShardOf[insKey]] = "insert"]
  /\ insPc' = "write"
  /\ UNCHANGED <<sharedVars, rlock, insKey, insSlot, insTries, gcVars, scVars>>

\* HashMap::insert, whatever slot the old entry had; the guard is dropped.
InsertWrite ==
  /\ insPc = "write"
  /\ table' = [table EXCEPT ![insKey] = insSlot]
  /\ wlock' = [wlock EXCEPT ![ShardOf[insKey]] = "none"]
  /\ insPc' = "idle"
  /\ insKey' = NoEntry
  /\ insSlot' = NoEntry
  /\ insTries' = 0
  /\ UNCHANGED <<currentSlot, tip, rlock, gcVars, scVars>>
-----------------------------------------------------------------------------
(* The GC task: a tick loads the slot counter, gc_stale visits the shards. *)

GcStart ==
  /\ gcPc = "idle"
  /\ gcPc' = "lock"
  /\ gcSlot' = currentSlot
  /\ gcShard' = 0
  /\ UNCHANGED <<sharedVars, lockVars, insVars, gcSeen, gcBefore, gcRemoved,
                 scVars>>

GcLock ==
  /\ gcPc = "lock"
  /\ Free(gcShard)
  /\ wlock' = [wlock EXCEPT ![gcShard] = "gc"]
  /\ gcPc' = "sweep"
  /\ gcBefore' = ShardLen(table, gcShard)
  /\ UNCHANGED <<sharedVars, rlock, insVars, gcSlot, gcShard, gcSeen,
                 gcRemoved, scVars>>

\* MUTANTS of GcKeeps: off by one slot in either direction.
GcKeepsOneMore(slot) == Age(gcSlot, slot) <= GcAge + 1
GcKeepsOneLess(slot) == Age(gcSlot, slot) < GcAge

\* retain's predicate on one entry.
GcKeeps(slot) == Age(gcSlot, slot) <= GcAge

\* retain visits one key of the shard, in whatever order the map has them.
GcVisit(k) ==
  /\ gcPc = "sweep"
  /\ k \in KeysOf(gcShard) \ gcSeen
  /\ gcSeen' = gcSeen \cup {k}
  /\ IF table[k] = NoEntry \/ GcKeeps(table[k])
       THEN UNCHANGED <<table, gcRemoved>>
       ELSE /\ table' = [table EXCEPT ![k] = NoEntry]
            /\ gcRemoved' = gcRemoved + 1
  /\ UNCHANGED <<currentSlot, tip, lockVars, insVars, gcPc, gcSlot, gcShard,
                 gcBefore, scVars>>

\* evicted += before - g.len() is only reported; the guard is dropped.
GcUnlock ==
  /\ gcPc = "sweep"
  /\ gcSeen = KeysOf(gcShard)
  /\ wlock' = [wlock EXCEPT ![gcShard] = "none"]
  /\ gcPc' = IF LastShard(gcShard) THEN "idle" ELSE "lock"
  /\ gcSlot' = IF LastShard(gcShard) THEN 0 ELSE gcSlot
  /\ gcShard' = NextShard(gcShard)
  /\ gcSeen' = {}
  /\ gcBefore' = 0
  /\ gcRemoved' = 0
  /\ UNCHANGED <<sharedVars, rlock, insVars, scVars>>
-----------------------------------------------------------------------------
(* A reader: for_each (and collect_all) reads the shards in turn.          *)

ScanStart(r) ==
  /\ scPc[r] = "idle"
  /\ scPc' = [scPc EXCEPT ![r] = "lock"]
  /\ scShard' = [scShard EXCEPT ![r] = 0]
  /\ UNCHANGED <<sharedVars, lockVars, insVars, gcVars, scSeen, scGot>>

ScanLock(r) ==
  /\ scPc[r] = "lock"
  /\ wlock[scShard[r]] = "none"
  /\ ~WriterWaits(scShard[r])
  /\ rlock' = [rlock EXCEPT ![scShard[r]] = @ \cup {r}]
  /\ scPc' = [scPc EXCEPT ![r] = "read"]
  /\ UNCHANGED <<sharedVars, wlock, insVars, gcVars, scShard, scSeen, scGot>>

ScanVisit(r, k) ==
  /\ scPc[r] = "read"
  /\ k \in KeysOf(scShard[r]) \ scSeen[r]
  /\ scSeen' = [scSeen EXCEPT ![r] = @ \cup {k}]
  /\ scGot' = [scGot EXCEPT ![r][k] = table[k]]
  /\ UNCHANGED <<sharedVars, lockVars, insVars, gcVars, scPc, scShard>>

ScanUnlock(r) ==
  /\ scPc[r] = "read"
  /\ scSeen[r] = KeysOf(scShard[r])
  /\ rlock' = [rlock EXCEPT ![scShard[r]] = @ \ {r}]
  /\ scPc' = [scPc EXCEPT ![r] = IF LastShard(scShard[r]) THEN "idle" ELSE "lock"]
  /\ scShard' = [scShard EXCEPT ![r] = NextShard(@)]
  /\ scSeen' = [scSeen EXCEPT ![r] = {}]
  /\ scGot' = [scGot EXCEPT ![r] = [k \in Keys |-> NoEntry]]
  /\ UNCHANGED <<sharedVars, wlock, insVars, gcVars>>
-----------------------------------------------------------------------------
Monitor ==
  \/ \E s \in Slots : SlotStore(s)
  \/ \E k \in Keys, s \in Slots : InsertBegin(k, s)
  \/ InsertSpin
  \/ InsertAcquire
  \/ InsertWrite

Gc ==
  \/ GcStart
  \/ GcLock
  \/ \E k \in Keys : GcVisit(k)
  \/ GcUnlock

Scan(r) ==
  \/ ScanStart(r)
  \/ ScanLock(r)
  \/ \E k \in Keys : ScanVisit(r, k)
  \/ ScanUnlock(r)

Next == Monitor \/ Gc \/ \E r \in Readers : Scan(r)

\* A started operation goes on and the GC ticker ticks.  A blocked write() on a
\* lock that keeps becoming free gets it sooner or later: it is queued, and
\* sweeps are 30 s apart.  try_write has no such luck: it may find the lock taken
\* every time.  Nobody has to begin an insert or a scan.
Fairness ==
  /\ WF_vars(InsertSpin \/ InsertAcquire)
  /\ SF_vars(insPc = "block" /\ InsertAcquire)
  /\ WF_vars(InsertWrite)
  /\ WF_vars(GcStart)
  /\ SF_vars(GcLock)
  /\ WF_vars(\E k \in Keys : GcVisit(k))
  /\ WF_vars(GcUnlock)
  /\ \A r \in Readers :
       /\ WF_vars(\E k \in Keys : ScanVisit(r, k))
       /\ WF_vars(ScanUnlock(r))

Safety == Init /\ [][Next]_vars
Spec == Safety /\ Fairness
-----------------------------------------------------------------------------
(* Properties.                                                             *)

TypeOK ==
  /\ table \in [Keys -> Entry]
  /\ currentSlot \in Slots
  /\ tip \in Slots
  /\ wlock \in [Shards -> {"none", "insert", "gc"}]
  /\ rlock \in [Shards -> SUBSET Readers]
  /\ insPc \in {"idle", "try", "block", "write"}
  /\ insKey \in Keys \cup {NoEntry}
  /\ insSlot \in Entry
  /\ insPc # "idle" => insKey \in Keys /\ insSlot \in Slots
  /\ insTries \in 0 .. SpinTries
  /\ gcPc \in {"idle", "lock", "sweep"}
  /\ gcSlot \in Slots
  /\ gcShard \in Shards
  /\ gcSeen \in SUBSET Keys
  /\ gcBefore \in Nat
  /\ gcRemoved \in Nat
  /\ scPc \in [Readers -> {"idle", "lock", "read"}]
  /\ scShard \in [Readers -> Shards]
  /\ scSeen \in [Readers -> SUBSET Keys]
  /\ scGot \in [Readers -> [Keys -> Entry]]

\* A reader inside a shard sees one state of that shard: whatever it has
\* already read there is still what the table holds, though the monitor and the
\* GC task are both trying to write.  (for_each, state.rs: the guard g lives
\* for the whole inner loop.)
ShardSnapshot ==
  \A r \in Readers : scPc[r] = "read" =>
    \A k \in scSeen[r] : scGot[r][k] = table[k]

\* The number gc_stale reports is the number of entries it removed: between
\* `before` and the second len() nobody else changes the shard, so the
\* subtraction neither miscounts nor underflows (usize, state.rs:104-106).
EvictedCountExact ==
  gcPc = "sweep" => gcBefore = ShardLen(table, gcShard) + gcRemoved

\* When the sweep leaves a shard, nothing in it is older than the threshold
\* by the slot the sweep loaded, whatever was inserted before the lock.
SweptShardIsFresh ==
  gcPc = "sweep" => \A k \in gcSeen : ~Aged(gcSlot, k)

\* The table is the abstract one: inserts are atomic, and an entry disappears
\* only when the slot counter once stood more than GcAge past it -- although
\* the sweep works with a slot loaded before its locks and the counter may
\* have moved back since.
Abstract == INSTANCE AccountTable WITH Keys <- Keys, Slots <- Slots, GcAge <- GcAge,
                                       NoEntry <- NoEntry, table <- table, tip <- tip
RefinesAccountTable == Abstract!TableSpec

\* insert returns: readers that scan without pause and the GC sweep do not
\* keep the monitor task (and with it the whole feed) waiting forever.
InsertCompletes == (insPc # "idle") ~> (insPc = "idle")

\* GC keeps the table bounded: no entry stays more than GcAge slots behind the
\* slot counter for good, wherever in the shards it is.
AgedSwept == \A k \in Keys : []<>~Aged(currentSlot, k)
=============================================================================
