------------------------------ MODULE Pipeline ------------------------------
(***************************************************************************)
(* The path from the Geyser stream to the executor (main.rs): four tasks,  *)
(* two bounded channels and the shared tables.                             *)
(*                                                                         *)
(*   stream --> Monitor --try_send--> oppQ --> StrategyEngine              *)
(*                 |                              | ^ 20 s sweep tick      *)
(*                 v                              v |                      *)
(*               table  <--- GC task          sigQ --> Executor            *)
(*                                                                         *)
(* A task that reads or writes the table does so one entry per step: the   *)
(* locking inside ShardedTable gives no more than that (see there).  An    *)
(* account's data is abstracted to what the tasks decide by: an obligation *)
(* is "ok" or "under" (underwater and worth min_profit), a pool is "live", *)
(* and "gone" is any data the decoders reject (a closed account).  What    *)
(* the scanners compute from live pools is left open.                      *)
(***************************************************************************)
EXTENDS Naturals, Sequences, FiniteSets

CONSTANTS
  Obligations, Pools, \* account addresses, by the program that owns them
  NoEntry,            \* absent from the table
  OppCap,             \* OPP_CHAN, 512 in the code
  SigCap,             \* SIGNAL_CHAN, 128 in the code
  StaleAge,           \* STALE_SLOT_THRESHOLD, 8
  GcAge,              \* GC_SLOT_THRESHOLD, 1500
  SlotFeeds,          \* may the stream carry slot updates?  {FALSE} for the
                      \* subscription of stream_loop, which asks for none
  MaxSlot,            \* bound: slots the chain produces
  StreamCap           \* bound: updates in transit

ASSUME PipelineAssumption ==
  /\ Obligations \cap Pools = {}
  /\ NoEntry \notin Obligations \cup Pools \cup (0 .. MaxSlot)
  /\ NoEntry \notin [data : {"live", "ok", "under"}, slot : 0 .. MaxSlot]
  /\ {OppCap, SigCap} \subseteq Nat \ {0}
  /\ {StaleAge, GcAge, MaxSlot, StreamCap} \subseteq Nat
  /\ StaleAge <= GcAge
  /\ SlotFeeds \subseteq BOOLEAN

Keys == Obligations \cup Pools

Slots == 0 .. MaxSlot

\* What the decoders make of account data, and a table entry.
DecodedPool == {"live"}
DecodedObligation == {"ok", "under"}
Decoded(k) == IF k \in Pools THEN DecodedPool ELSE DecodedObligation
EntryOf(k) == [data : Decoded(k), slot : Slots]

\* Updates of the stream, opportunities and signals.
Account(k, d, s)  == [kind |-> "account", key |-> k, data |-> d, slot |-> s]
SlotUpdate(s)     == [kind |-> "slot", slot |-> s]
Transaction(p, s) == [kind |-> "tx", key |-> p, slot |-> s]

\* The slot of an opportunity is history: that of the update that raised it.
Opportunity == [kind : {"pool", "swap"}, key : Pools, slot : Slots]
                 \cup [kind : {"obligation"}, key : Obligations, slot : Slots]

Signal == [kind : {"arb", "sandwich"}, key : Pools]
            \cup [kind : {"liq"}, key : Obligations]

VARIABLES
  slotFeed,   \* does this subscription deliver slot updates?
  chainSlot,  \* the chain's slot
  connected,  \* the gRPC stream is up
  stream,     \* updates in transit
  sent,       \* history: last decodable update of each key on this connection
  currentSlot,\* CURRENT_SLOT
  newest,     \* history: highest slot among all updates received
  table,      \* POOLS and OBLIGATIONS
  monPc, monMsg,             \* monitor: inside on_account
  oppQ,                      \* opportunity channel
  engPc, engLeft, engHits,   \* engine: walking a table
  engNow, engNewest,         \* CURRENT_SLOT and newest when the walk began
  engOpp,                    \* history: the opportunity that a scan answers
  engOut,                    \* signals the engine still has to send
  sigQ,                      \* signal channel
  exec,                      \* what the executor runs: {} or {signal}
  hung                       \* the executor waits for Jupiter forever

chainVars == <<slotFeed, chainSlot, connected, stream, sent>>
monVars   == <<currentSlot, newest, monPc, monMsg>>
engVars   == <<engPc, engLeft, engHits, engNow, engNewest, engOpp, engOut>>
execVars  == <<exec, hung>>
vars == <<chainVars, monVars, table, oppQ, engVars, sigQ, execVars>>

Age(now, slot) == IF now > slot THEN now - slot ELSE 0

Later(a, b) == IF a > b THEN a ELSE b

Underwater(k) == table[k] # NoEntry /\ table[k].data = "under"

Init ==
  /\ slotFeed \in SlotFeeds
  /\ chainSlot = 0 /\ connected = TRUE /\ stream = <<>>
  /\ sent = [k \in Keys |-> NoEntry]
  /\ currentSlot = 0 /\ newest = 0
  /\ table = [k \in Keys |-> NoEntry]
  /\ monPc = "recv" /\ monMsg = NoEntry
  /\ oppQ = <<>>
  /\ engPc = "select" /\ engLeft = {} /\ engHits = {}
  /\ engNow = 0 /\ engNewest = 0 /\ engOpp = NoEntry /\ engOut = {}
  /\ sigQ = <<>>
  /\ exec = {} /\ hung = FALSE
-----------------------------------------------------------------------------
(* The chain and Geyser (external): updates arrive in order while the      *)
(* stream is up, and nothing makes up for those of a gap.                  *)

Push(m) ==
  /\ connected
  /\ Len(stream) < StreamCap
  /\ stream' = Append(stream, m)

ChainWrite(k, d) ==
  /\ Push(Account(k, d, chainSlot))
  /\ sent' = IF d = "gone" THEN sent
             ELSE [sent EXCEPT ![k] = [data |-> d, slot |-> chainSlot]]
  /\ UNCHANGED <<slotFeed, chainSlot, connected, monVars, table, oppQ,
                 engVars, sigQ, execVars>>

ChainSwap(p) ==
  /\ Push(Transaction(p, chainSlot))
  /\ UNCHANGED <<slotFeed, chainSlot, connected, sent, monVars, table, oppQ,
                 engVars, sigQ, execVars>>

ChainTick ==
  /\ chainSlot < MaxSlot
  /\ chainSlot' = chainSlot + 1
  /\ IF slotFeed /\ connected THEN Push(SlotUpdate(chainSlot + 1))
                              ELSE UNCHANGED stream
  /\ UNCHANGED <<slotFeed, connected, sent, monVars, table, oppQ, engVars,
                 sigQ, execVars>>

\* stream_loop returns, with or without an error; run waits and subscribes
\* again.  The handler of the update in hand has returned by then.
Disconnect ==
  /\ connected
  /\ monPc = "recv"
  /\ connected' = FALSE
  /\ stream' = <<>>
  /\ sent' = [k \in Keys |-> NoEntry]
  /\ UNCHANGED <<slotFeed, chainSlot, monVars, table, oppQ, engVars, sigQ,
                 execVars>>

Reconnect ==
  /\ ~connected
  /\ connected' = TRUE
  /\ UNCHANGED <<slotFeed, chainSlot, stream, sent, monVars, table, oppQ,
                 engVars, sigQ, execVars>>
-----------------------------------------------------------------------------
(* The monitor task: dispatch, on_account, on_transaction.                 *)

\* MUTANTS of TrySend: an unbounded channel; send().await instead of try_send.
SendUnbounded(opp) == oppQ' = Append(oppQ, opp)
SendBlocking(opp) == Len(oppQ) < OppCap /\ oppQ' = Append(oppQ, opp)

\* mpsc::Sender::try_send with its error dropped: a full channel loses the
\* opportunity.
TrySend(opp) ==
  oppQ' = IF Len(oppQ) < OppCap THEN Append(oppQ, opp) ELSE oppQ

Receive(m) ==
  /\ monPc = "recv"
  /\ stream # <<>>
  /\ m = Head(stream)
  /\ stream' = Tail(stream)
  /\ UNCHANGED <<slotFeed, chainSlot, connected, sent, table, engVars, sigQ,
                 execVars>>

OnSlot(m) ==
  /\ Receive(m)
  /\ m.kind = "slot"
  /\ currentSlot' = m.slot
  /\ newest' = Later(m.slot, newest)
  /\ UNCHANGED <<monPc, monMsg, oppQ>>

\* extract_pending_swap may find no swap of a registered pool.
OnTransaction(m) ==
  /\ Receive(m)
  /\ m.kind = "tx"
  /\ newest' = Later(m.slot, newest)
  /\ \/ TrySend([kind |-> "swap", key |-> m.key, slot |-> m.slot])
     \/ UNCHANGED oppQ
  /\ UNCHANGED <<currentSlot, monPc, monMsg>>

\* MUTANT of Accepts: a second write in the same slot is taken for a repeat.
AcceptsNewerSlot(m) ==
  /\ m.data \in Decoded(m.key)
  /\ table[m.key] # NoEntry => m.slot > table[m.key].slot

\* decode_pool or decode_obligation returns Some.
Accepts(m) == m.data \in Decoded(m.key)

\* Data the decoders reject leaves any old entry as it was.
OnAccount(m) ==
  /\ Receive(m)
  /\ m.kind = "account"
  /\ newest' = Later(m.slot, newest)
  /\ IF Accepts(m)
       THEN monPc' = "insert" /\ monMsg' = m
       ELSE UNCHANGED <<monPc, monMsg>>
  /\ UNCHANGED <<currentSlot, oppQ>>

\* MUTANT of Updated: entry().or_insert, which keeps an entry that is there.
UpdatedIfAbsent(m) ==
  IF table[m.key] # NoEntry THEN table
  ELSE [table EXCEPT ![m.key] = [data |-> m.data, slot |-> m.slot]]

\* ShardedTable::insert of the decoded state.
Updated(m) == [table EXCEPT ![m.key] = [data |-> m.data, slot |-> m.slot]]

MonInsert ==
  /\ monPc = "insert"
  /\ table' = Updated(monMsg)
  /\ monPc' = "notify"
  /\ UNCHANGED <<chainVars, currentSlot, newest, monMsg, oppQ, engVars, sigQ,
                 execVars>>

MonNotify ==
  /\ monPc = "notify"
  /\ TrySend([kind |-> IF monMsg.key \in Pools THEN "pool" ELSE "obligation",
              key  |-> monMsg.key, slot |-> monMsg.slot])
  /\ monPc' = "recv"
  /\ monMsg' = NoEntry
  /\ UNCHANGED <<chainVars, currentSlot, newest, table, engVars, sigQ,
                 execVars>>

\* gc_stale, on entry k: a slot loaded now evicts what an earlier one would.
GcEvict(k) ==
  /\ table[k] # NoEntry
  /\ Age(currentSlot, table[k].slot) > GcAge
  /\ table' = [table EXCEPT ![k] = NoEntry]
  /\ UNCHANGED <<chainVars, monVars, oppQ, engVars, sigQ, execVars>>
-----------------------------------------------------------------------------
(* The strategy task: select! between an opportunity and the sweep tick.   *)

\* The engine found nothing more to read: it sends S, or selects again.
Emit(S) ==
  /\ engOut' = S
  /\ engPc' = IF S = {} THEN "select" ELSE "send"
  /\ engLeft' = {} /\ engHits' = {} /\ engNow' = 0 /\ engNewest' = 0
  /\ engOpp' = NoEntry

Walk(kind, keys, opp) ==
  /\ engPc' = kind
  /\ engLeft' = keys
  /\ engNow' = currentSlot
  /\ engNewest' = newest
  /\ engOpp' = opp
  /\ UNCHANGED <<engHits, engOut>>

RecvOpp ==
  /\ engPc = "select"
  /\ oppQ # <<>>
  /\ oppQ' = Tail(oppQ)
  /\ UNCHANGED <<chainVars, monVars, table, sigQ, execVars>>

\* LiquidationScanner::evaluate: a single get_cloned.
Evaluate ==
  /\ RecvOpp
  /\ Head(oppQ).kind = "obligation"
  /\ LET k == Head(oppQ).key
     IN  Emit(IF Underwater(k) THEN {[kind |-> "liq", key |-> k]} ELSE {})

\* SandwichDetector::evaluate: get_cloned, whatever the entry's age.
EvaluateSwap ==
  /\ RecvOpp
  /\ Head(oppQ).kind = "swap"
  /\ LET p == Head(oppQ).key
     IN  \/ Emit({})
         \/ table[p] # NoEntry /\ Emit({[kind |-> "sandwich", key |-> p]})

\* ArbitrageScanner::scan: build_edges loads CURRENT_SLOT, then walks POOLS.
StartScan ==
  /\ RecvOpp
  /\ Head(oppQ).kind = "pool"
  /\ Walk("scan", Pools, Head(oppQ))

\* MUTANT of Stale: `>=` for `>`.
StaleAtLimit(p) == Age(engNow, table[p].slot) >= StaleAge

\* PoolState::is_stale against the slot loaded at the start of the walk.
Stale(p) == Age(engNow, table[p].slot) > StaleAge

ScanRead(p) ==
  /\ engPc = "scan"
  /\ p \in engLeft
  /\ engLeft' = engLeft \ {p}
  /\ engHits' = IF table[p] # NoEntry /\ ~Stale(p)
                  THEN engHits \cup {[key |-> p, slot |-> table[p].slot]}
                  ELSE engHits
  /\ UNCHANGED <<chainVars, monVars, table, oppQ, engPc, engNow, engNewest,
                 engOpp, engOut, sigQ, execVars>>

\* bellman_ford may or may not find a profitable cycle among the edges.
ScanDone ==
  /\ engPc = "scan"
  /\ engLeft = {}
  /\ \/ Emit({})
     \/ \E h \in engHits : Emit({[kind |-> "arb", key |-> h.key]})
  /\ UNCHANGED <<chainVars, monVars, table, oppQ, sigQ, execVars>>

\* liq_sweep.tick(): scan_all collects OBLIGATIONS.
SweepTick ==
  /\ engPc = "select"
  /\ Walk("sweep", Obligations, NoEntry)
  /\ UNCHANGED <<chainVars, monVars, table, oppQ, sigQ, execVars>>

SweepRead(k) ==
  /\ engPc = "sweep"
  /\ k \in engLeft
  /\ engLeft' = engLeft \ {k}
  /\ engHits' = IF Underwater(k)
                  THEN engHits \cup {[key |-> k, slot |-> table[k].slot]}
                  ELSE engHits
  /\ UNCHANGED <<chainVars, monVars, table, oppQ, engPc, engNow, engNewest,
                 engOpp, engOut, sigQ, execVars>>

SweepDone ==
  /\ engPc = "sweep"
  /\ engLeft = {}
  /\ Emit({[kind |-> "liq", key |-> h.key] : h \in engHits})
  /\ UNCHANGED <<chainVars, monVars, table, oppQ, sigQ, execVars>>

\* MUTANT of EngineSend: try_send, which drops the signal at a full channel.
EngineTrySend(sig) ==
  /\ engPc = "send"
  /\ sig \in engOut
  /\ sigQ' = IF Len(sigQ) < SigCap THEN Append(sigQ, sig) ELSE sigQ
  /\ Emit(engOut \ {sig})
  /\ UNCHANGED <<chainVars, monVars, table, oppQ, execVars>>

\* sig_tx.send(sig).await: waits for room.  The order of a sweep's signals is
\* that of their profits, which the model leaves open.
EngineSend(sig) ==
  /\ engPc = "send"
  /\ sig \in engOut
  /\ Len(sigQ) < SigCap
  /\ sigQ' = Append(sigQ, sig)
  /\ Emit(engOut \ {sig})
  /\ UNCHANGED <<chainVars, monVars, table, oppQ, execVars>>
-----------------------------------------------------------------------------
(* The executor task runs one signal at a time.                            *)

ExecTake ==
  /\ exec = {}
  /\ sigQ # <<>>
  /\ exec' = {Head(sigQ)}
  /\ sigQ' = Tail(sigQ)
  /\ UNCHANGED <<chainVars, monVars, table, oppQ, engVars, hung>>

\* execute returns, with Ok or an error that is only logged.
ExecDone ==
  /\ exec # {}
  /\ ~hung
  /\ exec' = {}
  /\ UNCHANGED <<chainVars, monVars, table, oppQ, engVars, sigQ, hung>>

\* A liquidation whose seized mint has no exit pool with reserves in the table
\* asks Jupiter through a client without a timeout: the answer may never come.
JupiterHangs ==
  /\ \E sig \in exec : sig.kind = "liq"
  /\ ~hung
  /\ hung' = TRUE
  /\ UNCHANGED <<chainVars, monVars, table, oppQ, engVars, sigQ, exec>>
-----------------------------------------------------------------------------
Chain ==
  \/ \E k \in Keys : \E d \in Decoded(k) \cup {"gone"} : ChainWrite(k, d)
  \/ \E p \in Pools : ChainSwap(p)
  \/ ChainTick
  \/ Disconnect
  \/ Reconnect

OnUpdate ==
  stream # <<>> /\ LET m == Head(stream)
                   IN  OnSlot(m) \/ OnTransaction(m) \/ OnAccount(m)

MonitorTask == OnUpdate \/ MonInsert \/ MonNotify

EngineWork ==
  \/ \E p \in Pools : ScanRead(p)
  \/ ScanDone
  \/ \E k \in Obligations : SweepRead(k)
  \/ SweepDone
  \/ \E sig \in engOut : EngineSend(sig)

EngineRecv == Evaluate \/ EvaluateSwap \/ StartScan

ExecTask == ExecTake \/ ExecDone

Next ==
  \/ Chain
  \/ MonitorTask
  \/ \E k \in Keys : GcEvict(k)
  \/ EngineRecv \/ SweepTick \/ EngineWork
  \/ ExecTask \/ JupiterHangs

\* The runtime polls every task that can go on.  select! polls its branches in
\* random order, so neither a busy channel nor a late tick starves the other:
\* strong fairness for both.  Nothing is promised about Jupiter, the stream or
\* the chain.
Fairness ==
  /\ WF_vars(MonitorTask)
  /\ SF_vars(EngineRecv)
  /\ SF_vars(SweepTick)
  /\ WF_vars(EngineWork)
  /\ WF_vars(ExecTask)

Safety == Init /\ [][Next]_vars
Spec == Safety /\ Fairness
-----------------------------------------------------------------------------
(* Properties.                                                             *)

TypeOK ==
  /\ slotFeed \in BOOLEAN /\ connected \in BOOLEAN /\ hung \in BOOLEAN
  /\ {chainSlot, currentSlot, newest, engNow, engNewest} \subseteq Slots
  /\ Len(stream) <= StreamCap
  /\ \A k \in Keys : {table[k], sent[k]} \subseteq EntryOf(k) \cup {NoEntry}
  /\ monPc \in {"recv", "insert", "notify"}
  /\ monPc # "recv" => monMsg.data \in Decoded(monMsg.key)
  /\ \A i \in DOMAIN oppQ : oppQ[i] \in Opportunity
  /\ Len(oppQ) <= OppCap /\ Len(sigQ) <= SigCap
  /\ engPc \in {"select", "scan", "sweep", "send"}
  /\ engOut \subseteq Signal
  /\ (engOut # {}) = (engPc = "send")
  /\ \A i \in DOMAIN sigQ : sigQ[i] \in Signal
  /\ exec \subseteq Signal /\ Cardinality(exec) <= 1
  /\ hung => exec # {}

\* The table never falls behind the feed: for every key updated on the present
\* connection, the last decodable update that Geyser sent is still in transit,
\* is in the monitor's hands, or is what the table holds (or has been garbage
\* collected from it).  No interleaving of reconnects, undecodable data, GC and
\* channel overflow loses or reorders an update.  (monitor.rs, on_account.)
Carries(m, k) == m.kind = "account" /\ m.key = k /\ m.data \in Decoded(k)

InTransit(k) == {i \in DOMAIN stream : Carries(stream[i], k)}

IsLastSent(m) == sent[m.key] = [data |-> m.data, slot |-> m.slot]

FeedTracked ==
  \A k \in Keys : sent[k] # NoEntry =>
    IF InTransit(k) # {}
      THEN \E i \in InTransit(k) :
             IsLastSent(stream[i]) /\ \A j \in InTransit(k) : j <= i
      ELSE IF monPc = "insert" /\ monMsg.key = k
             THEN IsLastSent(monMsg)
             ELSE table[k] \in {sent[k], NoEntry}

\* Insert comes before notify: when the engine takes an opportunity out of the
\* channel, however late, the table holds the update that raised it or a later
\* one -- or GC has evicted the entry, and then the opportunity is as old.
NotifiedIsVisible ==
  \A i \in DOMAIN oppQ :
    LET opp == oppQ[i]
    IN  opp.kind # "swap" =>
          IF table[opp.key] = NoEntry THEN Age(currentSlot, opp.slot) > GcAge
                                      ELSE table[opp.key].slot >= opp.slot

\* A scan sees the update it was started for, or a later one of that pool: the
\* opportunity waited in the channel for as long as the engine was busy, the
\* slot to compare with was loaded before the walk, and while the walk goes from
\* shard to shard the monitor replaces entries and GC evicts them.  The pool is
\* missing from the edges only once CURRENT_SLOT has left that update more than
\* StaleAge behind.  (monitor.rs:229-230, arbitrage.rs:76-78.)
ScanSeesUpdate ==
  engPc = "scan" /\ engOpp.key \notin engLeft =>
    \/ \E h \in engHits : h.key = engOpp.key /\ h.slot >= engOpp.slot
    \/ Age(currentSlot, engOpp.slot) > StaleAge

\* The monitor never waits for another task: handling an update ends even when
\* the executor is stuck, the signal channel and the opportunity channel are
\* full and the engine is blocked in send.  (try_send, monitor.rs:230, 238.)
MonitorReturns == (monPc # "recv") ~> (monPc = "recv")

\* The sweep's promise (strategies/mod.rs:53-55): an obligation that stays
\* underwater in the table is attempted again and again, though the reactive
\* opportunity may have been dropped at a full channel and no update comes
\* any more -- unless the executor waits for Jupiter forever.
Attempting(k) == [kind |-> "liq", key |-> k] \in exec

Rescue ==
  \A k \in Obligations :
    <>[]Underwater(k) => ([]<>Attempting(k) \/ <>hung)

\* The exit leg asks Jupiter over HTTP, which is "not the hot arb/sandwich
\* detection path, the latency doesn't matter here" (executor.rs:263-265):
\* whatever it has in hand, the strategy task comes back to its select! loop and
\* looks at the next opportunity.
DetectionGoesOn == (engPc # "select") ~> (engPc = "select")

\* "Stale pool snapshots are filtered before scoring" (README): no edge handed
\* to bellman_ford is older than StaleAge by the newest slot that the stream
\* had shown the bot when the scan began.
StaleFiltered ==
  engPc = "scan" => \A h \in engHits : Age(engNewest, h.slot) <= StaleAge
=============================================================================
