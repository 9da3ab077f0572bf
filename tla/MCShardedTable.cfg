SPECIFICATION Spec
CONSTANTS
  k1 = k1
  k2 = k2
  Keys <- MCKeys
  NumShards = 2
  ShardOf <- MCShardOf
  Readers = {"engine", "executor"}
  Slots <- MCSlots
  GcAge = 0
  SpinTries = 2
  NoEntry = NoEntry
INVARIANTS
  TypeOK
  ShardSnapshot
  EvictedCountExact
  SweptShardIsFresh
PROPERTIES
  RefinesAccountTable
  InsertCompletes
  AgedSwept
