--------------------------- MODULE MCShardedTable ---------------------------
(* ShardedTable on two keys of the last of two shards, with ages 0 and 1.   *)
EXTENDS ShardedTable

CONSTANTS k1, k2

MCKeys == {k1, k2}
MCShardOf == [k \in MCKeys |-> 1]
MCSlots == 0 .. 1
=============================================================================
