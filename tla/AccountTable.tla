---------------------------- MODULE AccountTable ----------------------------
(***************************************************************************)
(* What the rest of the bot relies on when it uses POOLS or OBLIGATIONS    *)
(* (src/src/state.rs): a map from account keys to slot-stamped entries in  *)
(* which an insert publishes one entry at once, and garbage collection     *)
(* removes an entry only when the chain is known to be more than GcAge     *)
(* slots past it.  ShardedTable implements this with 64 locked shards.     *)
(*                                                                         *)
(* An entry is represented by its slot, the only field the table's own     *)
(* code reads (trait HasSlot).                                             *)
(***************************************************************************)
EXTENDS Naturals

CONSTANTS
  Keys,     \* account addresses
  Slots,    \* slot numbers an update may carry
  GcAge,    \* GC_SLOT_THRESHOLD, 1500 in the code
  NoEntry   \* the key is absent from the map

VARIABLES
  table,    \* the map itself
  tip       \* the highest slot number CURRENT_SLOT has ever held

tableVars == <<table, tip>>

\* u64::saturating_sub of an entry's slot from a slot counter.
Age(now, slot) == IF now > slot THEN now - slot ELSE 0

TableInit ==
  /\ table = [k \in Keys |-> NoEntry]
  /\ tip = 0

\* ShardedTable::insert: last write wins, whatever slot it carries.
Insert(k, s) ==
  /\ table' = [table EXCEPT ![k] = s]
  /\ UNCHANGED tip

\* A slot update reaches the counter.  The counter may move backwards, the
\* highest value it has held does not.
Advance(s) ==
  /\ tip' = IF s > tip THEN s ELSE tip
  /\ UNCHANGED table

\* gc_stale: one entry leaves the map, and it is genuinely old.
Evict(k) ==
  /\ table[k] # NoEntry
  /\ Age(tip, table[k]) > GcAge
  /\ table' = [table EXCEPT ![k] = NoEntry]
  /\ UNCHANGED tip

TableNext ==
  \/ \E k \in Keys, s \in Slots : Insert(k, s)
  \/ \E s \in Slots : Advance(s)
  \/ \E k \in Keys : Evict(k)

TableSpec == TableInit /\ [][TableNext]_tableVars
=============================================================================
