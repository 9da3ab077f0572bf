--------------------------- MODULE PipelineProofs ---------------------------
(***************************************************************************)
(* Proofs about Pipeline for any accounts, channel capacities, ages and    *)
(* slots.                                                                  *)
(*                                                                         *)
(* The argument: slots only grow along the path of an update.  What waits  *)
(* in the stream is at least as new as all that was received, and what was *)
(* received is at least as new as every opportunity and as CURRENT_SLOT.   *)
(* So an insert never takes the table back behind an opportunity in the    *)
(* channel, and an eviction only makes it as old as the entry it removes.  *)
(* The same holds of the opportunity that a scan answers until the scan    *)
(* has read its pool; from then on its edge, or its age, stays.            *)
(***************************************************************************)
EXTENDS Pipeline, SequenceTheorems, FiniteSetTheorems, TLAPS

AccountUpdate == [kind : {"account"}, key : Keys,
                  data : {"live", "ok", "under", "gone"}, slot : Slots]
OtherUpdate == [kind : {"slot"}, slot : Slots]
                 \cup [kind : {"tx"}, key : Pools, slot : Slots]
Update == AccountUpdate \cup OtherUpdate

EntryMap == {t \in [Keys -> [data : {"live", "ok", "under"}, slot : Slots] \cup {NoEntry}] :
               \A k \in Keys : t[k] \in EntryOf(k) \cup {NoEntry}}

ChainTyped ==
  /\ slotFeed \in BOOLEAN /\ connected \in BOOLEAN
  /\ chainSlot \in Slots
  /\ stream \in Seq(Update) /\ Len(stream) <= StreamCap
  /\ sent \in EntryMap

TableTyped == table \in EntryMap

MonTyped ==
  /\ {currentSlot, newest} \subseteq Slots
  /\ monPc \in {"recv", "insert", "notify"}
  /\ monPc # "recv" => monMsg \in AccountUpdate /\ monMsg.data \in Decoded(monMsg.key)

OppTyped == oppQ \in Seq(Opportunity) /\ Len(oppQ) <= OppCap

\* A walk has hits of the table it walks; between walks there is none.
EngTyped ==
  /\ engPc \in {"select", "scan", "sweep", "send"}
  /\ {engNow, engNewest} \subseteq Slots
  /\ engPc \in {"select", "send"} => engHits = {}
  /\ engPc = "scan"  => \A h \in engHits : h.key \in Pools
  /\ engPc = "sweep" => \A h \in engHits : h.key \in Obligations
  /\ engOut \subseteq Signal
  /\ engOut # {} <=> engPc = "send"

ExecTyped ==
  /\ sigQ \in Seq(Signal) /\ Len(sigQ) <= SigCap
  /\ exec = {} \/ \E sig \in Signal : exec = {sig}
  /\ hung \in BOOLEAN
  /\ hung => exec # {}

Typed == ChainTyped /\ TableTyped /\ MonTyped /\ OppTyped /\ EngTyped /\ ExecTyped

\* Slots grow along the path of an update.
Ordered ==
  /\ currentSlot <= newest
  /\ newest <= chainSlot
  /\ \A i \in 1 .. Len(stream) :
       /\ newest <= stream[i].slot
       /\ stream[i].slot <= chainSlot
       /\ \A j \in 1 .. Len(stream) : i <= j => stream[i].slot <= stream[j].slot
  /\ monPc # "recv" => monMsg.slot = newest
  /\ \A i \in 1 .. Len(oppQ) : oppQ[i].slot <= newest

\* What NotifiedIsVisible says of an opportunity, said of a key and a slot.
Visible(k, s) ==
  IF table[k] = NoEntry THEN Age(currentSlot, s) > GcAge ELSE table[k].slot >= s

AllVisible ==
  /\ monPc = "notify" => Visible(monMsg.key, monMsg.slot)
  /\ \A i \in 1 .. Len(oppQ) : oppQ[i].kind # "swap" => Visible(oppQ[i].key, oppQ[i].slot)

\* What a scan has to show for an update of pool k in slot s once it has read k.
Seen(k, s) ==
  \/ \E h \in engHits : h.key = k /\ h.slot >= s
  \/ Age(currentSlot, s) > StaleAge

\* A scan answers an opportunity that was received, with a slot that CURRENT_SLOT
\* has had; until it reads the pool the update is visible, from then on it is seen.
ScanSees ==
  engPc = "scan" =>
    /\ engOpp.key \in Keys /\ engOpp.slot \in Nat
    /\ engOpp.slot <= newest
    /\ engNow <= currentSlot
    /\ IF engOpp.key \in engLeft THEN Visible(engOpp.key, engOpp.slot)
                                ELSE Seen(engOpp.key, engOpp.slot)

PInv == Typed /\ Ordered /\ AllVisible /\ ScanSees /\ FeedTracked

-----------------------------------------------------------------------------
(* Lemmas about the data and the channels.                                 *)

\* A decoded entry is not the absence of one.
LEMMA EntryIsSome ==
  ASSUME NEW k \in Keys, NEW d \in Decoded(k), NEW s \in Slots
  PROVE  /\ [data |-> d, slot |-> s] \in EntryOf(k)
         /\ [data |-> d, slot |-> s] \in [data : {"live", "ok", "under"}, slot : Slots]
         /\ [data |-> d, slot |-> s] # NoEntry
BY PipelineAssumption DEF Decoded, DecodedPool, DecodedObligation, EntryOf, Slots

\* The map without an entry.
LEMMA NoEntries == [k \in Keys |-> NoEntry] \in EntryMap
BY DEF EntryMap

\* Writing one decoded entry to a map of entries.
LEMMA EntryWritten ==
  ASSUME NEW t \in EntryMap, NEW k \in Keys, NEW d \in Decoded(k), NEW s \in Slots
  PROVE  [t EXCEPT ![k] = [data |-> d, slot |-> s]] \in EntryMap
BY EntryIsSome DEF EntryMap

\* A push appends to what is in transit.
LEMMA PushAppends ==
  ASSUME Typed, NEW m \in Update, Push(m)
  PROVE  /\ stream' \in Seq(Update)
         /\ Len(stream') = Len(stream) + 1
         /\ Len(stream') <= StreamCap
         /\ \A i \in 1 .. Len(stream) : stream'[i] = stream[i]
         /\ stream'[Len(stream) + 1] = m
BY AppendProperties, LenProperties, PipelineAssumption DEF Push, Typed, ChainTyped

\* The monitor takes the first update and moves the others one place up.
LEMMA ReceiveShifts ==
  ASSUME Typed, NEW m, Receive(m)
  PROVE  /\ m \in Update
         /\ m = stream[1]
         /\ Len(stream) \in Nat \ {0}
         /\ stream' \in Seq(Update)
         /\ Len(stream') = Len(stream) - 1
         /\ \A i \in 1 .. Len(stream') : stream'[i] = stream[i + 1]
<1>1. stream \in Seq(Update) /\ stream # <<>>
  BY DEF Receive, Typed, ChainTyped
<1> QED
  BY <1>1, HeadTailProperties, EmptySeq DEF Receive

\* try_send appends the opportunity or drops it.
LEMMA TrySendAppends ==
  ASSUME OppTyped, NEW opp \in Opportunity, TrySend(opp)
  PROVE  /\ OppTyped'
         /\ \/ oppQ' = oppQ
            \/ /\ Len(oppQ') = Len(oppQ) + 1
               /\ \A i \in 1 .. Len(oppQ) : oppQ'[i] = oppQ[i]
               /\ oppQ'[Len(oppQ) + 1] = opp
<1>1. Append(oppQ, opp) \in Seq(Opportunity)
      /\ Len(Append(oppQ, opp)) = Len(oppQ) + 1 /\ Len(oppQ) \in Nat
      /\ \A i \in 1 .. Len(oppQ) : Append(oppQ, opp)[i] = oppQ[i]
      /\ Append(oppQ, opp)[Len(oppQ) + 1] = opp
  BY AppendProperties, LenProperties DEF OppTyped
<1> QED
  BY <1>1, PipelineAssumption DEF TrySend, OppTyped

\* The engine takes the first opportunity.
LEMMA RecvOppShifts ==
  ASSUME OppTyped, RecvOpp
  PROVE  /\ Head(oppQ) \in Opportunity
         /\ OppTyped'
         /\ Len(oppQ') = Len(oppQ) - 1 /\ Len(oppQ) \in Nat
         /\ \A i \in 1 .. Len(oppQ') : oppQ'[i] = oppQ[i + 1]
<1>1. oppQ \in Seq(Opportunity) /\ oppQ # <<>>
  BY DEF RecvOpp, OppTyped
<1>2. Len(oppQ) \in Nat \ {0}
  BY <1>1, EmptySeq
<1> QED
  BY <1>1, <1>2, HeadTailProperties, PipelineAssumption DEF RecvOpp, OppTyped
-----------------------------------------------------------------------------
(* Types.                                                                  *)

\* The initial state is well typed.
LEMMA InitTyped ==
  ASSUME Init
  PROVE  Typed
<1>1. /\ {chainSlot, currentSlot, newest, engNow, engNewest} \subseteq Slots
      /\ {StreamCap, OppCap, SigCap} \subseteq Nat
  BY PipelineAssumption DEF Init, Slots
<1>2. /\ stream \in Seq(Update) /\ Len(stream) = 0
      /\ oppQ \in Seq(Opportunity) /\ Len(oppQ) = 0
      /\ sigQ \in Seq(Signal) /\ Len(sigQ) = 0
  BY EmptySeq DEF Init
<1>3. table \in EntryMap /\ sent \in EntryMap
  BY NoEntries DEF Init
<1>4. slotFeed \in BOOLEAN
  BY PipelineAssumption DEF Init
<1>5. ChainTyped /\ TableTyped
  BY <1>1, <1>2, <1>3, <1>4 DEF Init, ChainTyped, TableTyped
<1>6. MonTyped /\ OppTyped
  BY <1>1, <1>2 DEF Init, MonTyped, OppTyped
<1>7. EngTyped /\ ExecTyped
  <2>1. engPc = "select" /\ engHits = {} /\ engOut = {} /\ exec = {} /\ hung = FALSE
    BY DEF Init
  <2>2. EngTyped
    <3>1. engNow \in Slots /\ engNewest \in Slots
      BY <1>1
    <3>2. engOut \subseteq Signal
      BY <2>1
    <3> QED
      BY <2>1, <3>1, <3>2 DEF EngTyped
  <2>3. sigQ \in Seq(Signal) /\ Len(sigQ) <= SigCap
    BY <1>1, <1>2
  <2>4. ExecTyped
    BY <2>1, <2>3 DEF ExecTyped
  <2> QED
    BY <2>2, <2>4
<1> QED
  BY <1>5, <1>6, <1>7 DEF Typed

\* The steps of the chain and of the stream keep the types.
LEMMA ChainKeepsTypes ==
  ASSUME Typed, Chain
  PROVE  Typed'
<1> USE DEF Typed
<1>1. ASSUME NEW k \in Keys, NEW d \in Decoded(k) \cup {"gone"}, ChainWrite(k, d)
      PROVE  Typed'
  <2>1. Account(k, d, chainSlot) \in Update
    BY DEF Account, Update, AccountUpdate, ChainTyped, Decoded, DecodedPool, DecodedObligation
  <2>2. sent' \in EntryMap
    BY <1>1, EntryWritten DEF ChainWrite, ChainTyped
  <2>3. ChainTyped'
    BY <1>1, <2>1, <2>2, PushAppends DEF ChainWrite, ChainTyped, Push
  <2> QED
    BY <1>1, <2>3 DEF ChainWrite, monVars, engVars, execVars, TableTyped, MonTyped,
                      OppTyped, EngTyped, ExecTyped
<1>2. ASSUME NEW p \in Pools, ChainSwap(p) PROVE Typed'
  <2>1. Transaction(p, chainSlot) \in Update
    BY DEF Transaction, Update, OtherUpdate, ChainTyped
  <2>2. ChainTyped'
    BY <1>2, <2>1, PushAppends DEF ChainSwap, ChainTyped, Push
  <2> QED
    BY <1>2, <2>2 DEF ChainSwap, monVars, engVars, execVars, TableTyped, MonTyped,
                      OppTyped, EngTyped, ExecTyped
<1>3. CASE ChainTick
  <2>1. chainSlot + 1 \in Slots
    BY <1>3, PipelineAssumption DEF ChainTick, ChainTyped, Slots
  <2>2. SlotUpdate(chainSlot + 1) \in Update
    BY <2>1 DEF SlotUpdate, Update, OtherUpdate
  <2>3. ChainTyped'
    BY <1>3, <2>1, <2>2, PushAppends DEF ChainTick, ChainTyped, Push
  <2> QED
    BY <1>3, <2>3 DEF ChainTick, monVars, engVars, execVars, TableTyped, MonTyped,
                      OppTyped, EngTyped, ExecTyped
<1>4. CASE Disconnect
  <2>1. stream' \in Seq(Update) /\ Len(stream') = 0 /\ sent' \in EntryMap
    BY <1>4, EmptySeq, NoEntries DEF Disconnect
  <2>2. Len(stream') <= StreamCap
    BY <2>1, PipelineAssumption
  <2>3. ChainTyped'
    BY <1>4, <2>1, <2>2 DEF Disconnect, ChainTyped
  <2> QED
    BY <1>4, <2>3 DEF Disconnect, monVars, engVars, execVars, TableTyped, MonTyped,
                      OppTyped, EngTyped, ExecTyped
<1>5. CASE Reconnect
  BY <1>5 DEF Reconnect, monVars, engVars, execVars, ChainTyped, TableTyped, MonTyped,
              OppTyped, EngTyped, ExecTyped
<1> QED
  BY <1>1, <1>2, <1>3, <1>4, <1>5 DEF Chain

\* Where the largest slot received goes.
LEMMA NewestTyped ==
  ASSUME Typed, NEW m, Receive(m)
  PROVE  m.slot \in Slots /\ Later(m.slot, newest) \in Slots
BY ReceiveShifts DEF Typed, MonTyped, Later, Slots, Update, AccountUpdate, OtherUpdate

\* So do the monitor's,
LEMMA MonitorKeepsTypes ==
  ASSUME Typed, MonitorTask
  PROVE  Typed'
<1> USE DEF Typed
<1>1. ASSUME NEW m, Receive(m)
      PROVE  ChainTyped' /\ TableTyped' /\ EngTyped' /\ ExecTyped'
  <2>1. stream' \in Seq(Update) /\ Len(stream') <= StreamCap
    BY <1>1, ReceiveShifts, PipelineAssumption DEF ChainTyped
  <2>2. ChainTyped' /\ TableTyped'
    BY <1>1, <2>1 DEF Receive, ChainTyped, TableTyped
  <2> QED
    BY <1>1, <2>2 DEF Receive, engVars, execVars, EngTyped, ExecTyped
<1>2. ASSUME NEW m, OnSlot(m) PROVE Typed'
  <2>1. Receive(m)
    BY <1>2 DEF OnSlot
  <2>2. MonTyped' /\ OppTyped'
    BY <1>2, <2>1, NewestTyped DEF OnSlot, MonTyped, OppTyped
  <2> QED
    BY <1>1, <2>1, <2>2
<1>3. ASSUME NEW m, OnTransaction(m) PROVE Typed'
  <2>1. Receive(m) /\ m.kind = "tx"
    BY <1>3 DEF OnTransaction
  <2>2. MonTyped'
    BY <1>3, <2>1, NewestTyped DEF OnTransaction, MonTyped
  <2>3. [kind |-> "swap", key |-> m.key, slot |-> m.slot] \in Opportunity
    BY <2>1, ReceiveShifts DEF Update, AccountUpdate, OtherUpdate, Opportunity
  <2>4. OppTyped'
    BY <1>3, <2>3, TrySendAppends DEF OnTransaction, OppTyped
  <2> QED
    BY <1>1, <2>1, <2>2, <2>4
<1>4. ASSUME NEW m, OnAccount(m) PROVE Typed'
  <2>1. Receive(m) /\ m.kind = "account"
    BY <1>4 DEF OnAccount
  <2>2. m \in AccountUpdate
    BY <2>1, ReceiveShifts DEF Update, OtherUpdate
  <2>3. MonTyped' /\ OppTyped'
    BY <1>4, <2>1, <2>2, NewestTyped DEF OnAccount, Accepts, MonTyped, OppTyped
  <2> QED
    BY <1>1, <2>1, <2>3
<1>5. CASE MonInsert
  <2>1. TableTyped' /\ MonTyped'
    BY <1>5, EntryWritten DEF MonInsert, Updated, TableTyped, MonTyped, AccountUpdate
  <2> QED
    BY <1>5, <2>1 DEF MonInsert, chainVars, engVars, execVars, ChainTyped, OppTyped,
                      EngTyped, ExecTyped
<1>6. CASE MonNotify
  <2>1. [kind |-> IF monMsg.key \in Pools THEN "pool" ELSE "obligation",
         key  |-> monMsg.key, slot |-> monMsg.slot] \in Opportunity
    BY <1>6 DEF MonNotify, MonTyped, AccountUpdate, Opportunity, Keys
  <2>2. OppTyped' /\ MonTyped'
    BY <1>6, <2>1, TrySendAppends DEF MonNotify, MonTyped
  <2> QED
    BY <1>6, <2>2 DEF MonNotify, chainVars, engVars, execVars, ChainTyped, TableTyped,
                      EngTyped, ExecTyped
<1> QED
  BY <1>2, <1>3, <1>4, <1>5, <1>6 DEF MonitorTask, OnUpdate

\* the GC task's,
LEMMA GcKeepsTypes ==
  ASSUME Typed, NEW k \in Keys, GcEvict(k)
  PROVE  Typed'
BY DEF GcEvict, chainVars, monVars, engVars, execVars, Typed, ChainTyped, TableTyped,
       MonTyped, OppTyped, EngTyped, ExecTyped, EntryMap

\* Emitting signals ends a walk.
LEMMA EmitTyped ==
  ASSUME NEW S \in SUBSET Signal, Emit(S)
  PROVE  EngTyped'
BY PipelineAssumption DEF Emit, EngTyped, Slots

\* the strategy task's,
LEMMA EngineKeepsTypes ==
  ASSUME Typed, EngineRecv \/ SweepTick \/ EngineWork
  PROVE  Typed'
<1> USE DEF Typed
<1>1. ASSUME UNCHANGED <<chainVars, monVars, table>>
      PROVE  ChainTyped' /\ TableTyped' /\ MonTyped'
  BY <1>1 DEF chainVars, monVars, ChainTyped, TableTyped, MonTyped
<1>2. ASSUME UNCHANGED <<sigQ, execVars>> PROVE ExecTyped'
  BY <1>2 DEF execVars, ExecTyped
<1>3. CASE Evaluate
  <2>1. Head(oppQ) \in Opportunity /\ Head(oppQ).kind = "obligation" /\ OppTyped'
    BY <1>3, RecvOppShifts DEF Evaluate
  <2>2. Head(oppQ).key \in Obligations
    BY <2>1 DEF Opportunity
  <2>3. EngTyped'
    BY <1>3, <2>2, EmitTyped DEF Evaluate, Signal
  <2> QED
    BY <1>1, <1>2, <1>3, <2>1, <2>3 DEF Evaluate, RecvOpp
<1>4. CASE EvaluateSwap
  <2>1. Head(oppQ) \in Opportunity /\ Head(oppQ).kind = "swap" /\ OppTyped'
    BY <1>4, RecvOppShifts DEF EvaluateSwap
  <2>2. Head(oppQ).key \in Pools
    BY <2>1 DEF Opportunity
  <2>3. EngTyped'
    BY <1>4, <2>2, EmitTyped DEF EvaluateSwap, Signal
  <2> QED
    BY <1>1, <1>2, <1>4, <2>1, <2>3 DEF EvaluateSwap, RecvOpp
<1>5. CASE StartScan
  <2>1. EngTyped' /\ OppTyped'
    BY <1>5, RecvOppShifts DEF StartScan, RecvOpp, Walk, EngTyped, MonTyped
  <2> QED
    BY <1>1, <1>2, <1>5, <2>1 DEF StartScan, RecvOpp
<1>6. CASE SweepTick
  BY <1>1, <1>2, <1>6 DEF SweepTick, Walk, EngTyped, MonTyped, OppTyped
<1>7. ASSUME NEW p \in Pools, ScanRead(p) PROVE Typed'
  <2>1. EngTyped'
    BY <1>7 DEF ScanRead, EngTyped
  <2> QED
    BY <1>1, <1>2, <1>7, <2>1 DEF ScanRead, OppTyped
<1>8. CASE ScanDone
  <2>1. \E S \in SUBSET Signal : Emit(S)
    <3>1. ASSUME NEW h \in engHits PROVE {[kind |-> "arb", key |-> h.key]} \in SUBSET Signal
      BY <1>8 DEF ScanDone, EngTyped, Signal
    <3>2. {} \in SUBSET Signal
      OBVIOUS
    <3> QED
      BY <1>8, <3>1, <3>2 DEF ScanDone
  <2> QED
    BY <1>1, <1>2, <1>8, <2>1, EmitTyped DEF ScanDone, OppTyped
<1>9. ASSUME NEW k \in Obligations, SweepRead(k) PROVE Typed'
  <2>1. EngTyped'
    BY <1>9 DEF SweepRead, EngTyped
  <2> QED
    BY <1>1, <1>2, <1>9, <2>1 DEF SweepRead, OppTyped
<1>10. CASE SweepDone
  <2>1. {[kind |-> "liq", key |-> h.key] : h \in engHits} \in SUBSET Signal
    BY <1>10 DEF SweepDone, EngTyped, Signal
  <2> QED
    BY <1>1, <1>2, <1>10, <2>1, EmitTyped DEF SweepDone, OppTyped
<1>11. ASSUME NEW sig \in engOut, EngineSend(sig) PROVE Typed'
  <2>1. sig \in Signal /\ engOut \ {sig} \in SUBSET Signal
    BY <1>11 DEF EngTyped
  <2>2. EngTyped'
    BY <1>11, <2>1, EmitTyped DEF EngineSend
  <2>3. sigQ' \in Seq(Signal) /\ Len(sigQ') <= SigCap
    BY <1>11, <2>1, AppendProperties, LenProperties, PipelineAssumption
       DEF EngineSend, ExecTyped
  <2>4. ExecTyped'
    BY <1>11, <2>3 DEF EngineSend, ExecTyped, execVars
  <2> QED
    BY <1>1, <1>11, <2>2, <2>4 DEF EngineSend, OppTyped
<1> QED
  BY <1>3, <1>4, <1>5, <1>6, <1>7, <1>8, <1>9, <1>10, <1>11 DEF EngineRecv, EngineWork

\* and the executor's.
LEMMA ExecKeepsTypes ==
  ASSUME Typed, ExecTask \/ JupiterHangs
  PROVE  Typed'
<1> USE DEF Typed
<1>1. CASE ExecTake
  <2>1. sigQ \in Seq(Signal) /\ sigQ # <<>> /\ Len(sigQ) \in Nat \ {0}
    BY <1>1, EmptySeq DEF ExecTake, ExecTyped
  <2>2. Head(sigQ) \in Signal /\ sigQ' \in Seq(Signal) /\ Len(sigQ') = Len(sigQ) - 1
    BY <1>1, <2>1, HeadTailProperties DEF ExecTake
  <2>3. ExecTyped'
    BY <1>1, <2>1, <2>2, PipelineAssumption DEF ExecTake, ExecTyped
  <2> QED
    BY <1>1, <2>3 DEF ExecTake, chainVars, monVars, engVars, ChainTyped, TableTyped,
                      MonTyped, OppTyped, EngTyped
<1>2. CASE ExecDone
  BY <1>2 DEF ExecDone, chainVars, monVars, engVars, ChainTyped, TableTyped, MonTyped,
              OppTyped, EngTyped, ExecTyped
<1>3. CASE JupiterHangs
  BY <1>3 DEF JupiterHangs, chainVars, monVars, engVars, ChainTyped, TableTyped,
              MonTyped, OppTyped, EngTyped, ExecTyped
<1> QED
  BY <1>1, <1>2, <1>3 DEF ExecTask
-----------------------------------------------------------------------------
(* Slots grow along the path of an update.                                 *)

\* Pushing an update of the present slot keeps the stream in order.
LEMMA PushKeepsOrder ==
  ASSUME Typed, Ordered, NEW m \in Update, Push(m), m.slot = chainSlot',
         chainSlot' \in Nat, chainSlot <= chainSlot', UNCHANGED <<monVars, oppQ>>
  PROVE  Ordered'
<1>1. /\ Len(stream) \in Nat
      /\ \A i \in 1 .. Len(stream) : stream[i].slot \in Nat
      /\ {chainSlot, newest, currentSlot} \subseteq Nat
  BY LenProperties, ElementOfSeq
     DEF Typed, ChainTyped, MonTyped, Slots, Update, AccountUpdate, OtherUpdate
<1>2. ASSUME NEW i \in 1 .. Len(stream')
      PROVE  newest <= stream'[i].slot /\ stream'[i].slot <= chainSlot'
  BY <1>1, PushAppends DEF Ordered
<1>3. ASSUME NEW i \in 1 .. Len(stream'), NEW j \in 1 .. Len(stream'), i <= j
      PROVE  stream'[i].slot <= stream'[j].slot
  BY <1>1, <1>3, PushAppends DEF Ordered
<1> QED
  BY <1>1, <1>2, <1>3 DEF Ordered, monVars

\* What the chain writes is newer than all that is on its way.
LEMMA ChainKeepsOrder ==
  ASSUME Typed, Ordered, Chain
  PROVE  Ordered'
<1>0. /\ chainSlot \in Nat /\ chainSlot <= chainSlot /\ chainSlot <= chainSlot + 1
      /\ {newest, currentSlot} \subseteq Nat
  BY DEF Typed, ChainTyped, MonTyped, Slots
<1>1. ASSUME NEW k \in Keys, NEW d \in Decoded(k) \cup {"gone"}, ChainWrite(k, d)
      PROVE  Ordered'
  <2>1. Account(k, d, chainSlot) \in Update /\ Account(k, d, chainSlot).slot = chainSlot
    BY DEF Account, Update, AccountUpdate, Typed, ChainTyped, Decoded, DecodedPool,
           DecodedObligation
  <2> QED
    BY <1>0, <1>1, <2>1, PushKeepsOrder DEF ChainWrite
<1>2. ASSUME NEW p \in Pools, ChainSwap(p) PROVE Ordered'
  <2>1. Transaction(p, chainSlot) \in Update /\ Transaction(p, chainSlot).slot = chainSlot
    BY DEF Transaction, Update, OtherUpdate, Typed, ChainTyped
  <2> QED
    BY <1>0, <1>2, <2>1, PushKeepsOrder DEF ChainSwap
<1>3. CASE ChainTick
  <2>1. SlotUpdate(chainSlot + 1) \in Update /\ SlotUpdate(chainSlot + 1).slot = chainSlot + 1
    BY <1>3, PipelineAssumption
       DEF ChainTick, SlotUpdate, Update, OtherUpdate, Typed, ChainTyped, Slots
  <2>2. CASE Push(SlotUpdate(chainSlot + 1))
    BY <1>0, <1>3, <2>1, <2>2, PushKeepsOrder DEF ChainTick
  <2>3. CASE UNCHANGED stream
    <3>1. \A i \in 1 .. Len(stream) : stream[i].slot \in Nat
      BY ElementOfSeq DEF Typed, ChainTyped, Slots, Update, AccountUpdate, OtherUpdate
    <3> QED
      BY <1>0, <1>3, <2>3, <3>1 DEF ChainTick, Ordered, monVars
  <2> QED
    BY <1>3, <2>2, <2>3 DEF ChainTick
<1>4. CASE Disconnect
  BY <1>4, EmptySeq DEF Disconnect, Ordered, monVars
<1>5. CASE Reconnect
  BY <1>5 DEF Reconnect, Ordered, monVars
<1> QED
  BY <1>1, <1>2, <1>3, <1>4, <1>5 DEF Chain

\* The first update becomes the newest: nothing received so far is newer, and
\* what is left in the stream is not older.
LEMMA ReceiveKeepsOrder ==
  ASSUME Typed, Ordered, NEW m, Receive(m)
  PROVE  /\ m.slot \in Nat /\ newest \in Nat /\ currentSlot \in Nat
         /\ newest <= m.slot /\ Later(m.slot, newest) = m.slot
         /\ m.slot <= chainSlot /\ chainSlot' = chainSlot
         /\ \A i \in 1 .. Len(stream') :
              /\ m.slot <= stream'[i].slot
              /\ stream'[i].slot <= chainSlot
              /\ \A j \in 1 .. Len(stream') : i <= j => stream'[i].slot <= stream'[j].slot
         /\ \A i \in 1 .. Len(oppQ) : oppQ[i].slot <= m.slot
<1>1. /\ {newest, currentSlot} \subseteq Nat
      /\ \A i \in 1 .. Len(stream) : stream[i].slot \in Nat
      /\ \A i \in 1 .. Len(oppQ) : oppQ[i].slot \in Nat
  BY ElementOfSeq DEF Typed, ChainTyped, MonTyped, OppTyped, Opportunity, Slots, Update,
                      AccountUpdate, OtherUpdate
<1>2. /\ m = stream[1] /\ Len(stream) \in Nat \ {0} /\ Len(stream') = Len(stream) - 1
      /\ \A i \in 1 .. Len(stream') : stream'[i] = stream[i + 1]
  BY ReceiveShifts
<1>3. m.slot \in Nat /\ newest <= m.slot /\ m.slot <= chainSlot
  BY <1>1, <1>2 DEF Ordered
<1>4. ASSUME NEW i \in 1 .. Len(stream')
      PROVE  /\ m.slot <= stream'[i].slot
             /\ stream'[i].slot <= chainSlot
             /\ \A j \in 1 .. Len(stream') : i <= j => stream'[i].slot <= stream'[j].slot
  <2>1. /\ 1 \in 1 .. Len(stream) /\ i + 1 \in 1 .. Len(stream) /\ 1 <= i + 1
        /\ \A j \in 1 .. Len(stream') :
             j + 1 \in 1 .. Len(stream) /\ (i <= j => i + 1 <= j + 1)
    BY <1>2
  <2> QED
    BY <1>2, <2>1 DEF Ordered
<1>5. \A i \in 1 .. Len(oppQ) : oppQ[i].slot <= m.slot
  BY <1>1, <1>3 DEF Ordered
<1> QED
  BY <1>1, <1>3, <1>4, <1>5 DEF Later, Receive

\* Whatever the monitor does, updates stay in the order of their slots.
LEMMA MonitorKeepsOrder ==
  ASSUME Typed, Ordered, MonitorTask
  PROVE  Ordered'
<1>1. ASSUME NEW m, OnSlot(m) PROVE Ordered'
  <2>1. Receive(m) /\ monPc = "recv"
    BY <1>1 DEF OnSlot, Receive
  <2> QED
    BY <1>1, <2>1, ReceiveKeepsOrder DEF OnSlot, Ordered
<1>2. ASSUME NEW m, OnTransaction(m) PROVE Ordered'
  <2> DEFINE opp == [kind |-> "swap", key |-> m.key, slot |-> m.slot]
  <2>1. Receive(m) /\ monPc = "recv" /\ m.kind = "tx"
    BY <1>2 DEF OnTransaction, Receive
  <2>2. opp \in Opportunity /\ Len(oppQ) \in Nat
    BY <2>1, ReceiveShifts, LenProperties
       DEF Update, AccountUpdate, OtherUpdate, Opportunity, Typed, OppTyped
  <2>3. \A i \in 1 .. Len(oppQ') : oppQ'[i].slot <= m.slot
    <3>1. CASE UNCHANGED oppQ
      BY <2>1, <3>1, ReceiveKeepsOrder
    <3>2. CASE TrySend(opp)
      BY <2>1, <2>2, <3>2, ReceiveKeepsOrder, TrySendAppends DEF Typed
    <3> QED
      BY <1>2, <3>1, <3>2 DEF OnTransaction
  <2>4. currentSlot <= m.slot
    BY <2>1, ReceiveKeepsOrder DEF Ordered
  <2> QED
    BY <1>2, <2>1, <2>3, <2>4, ReceiveKeepsOrder DEF OnTransaction, Ordered
<1>3. ASSUME NEW m, OnAccount(m) PROVE Ordered'
  <2>1. Receive(m) /\ monPc = "recv"
    BY <1>3 DEF OnAccount, Receive
  <2>2. currentSlot <= m.slot
    BY <2>1, ReceiveKeepsOrder DEF Ordered
  <2> QED
    BY <1>3, <2>1, <2>2, ReceiveKeepsOrder DEF OnAccount, Ordered
<1>4. CASE MonInsert
  BY <1>4 DEF MonInsert, Ordered, chainVars
<1>5. CASE MonNotify
  <2> DEFINE opp == [kind |-> IF monMsg.key \in Pools THEN "pool" ELSE "obligation",
                     key  |-> monMsg.key, slot |-> monMsg.slot]
  <2>1. opp \in Opportunity /\ Len(oppQ) \in Nat /\ newest \in Nat
    BY <1>5, LenProperties
       DEF MonNotify, Typed, MonTyped, OppTyped, AccountUpdate, Opportunity, Keys, Slots
  <2>2. opp.slot = newest
    BY <1>5 DEF MonNotify, Ordered
  <2>3. TrySend(opp) /\ UNCHANGED <<chainVars, currentSlot, newest>> /\ monPc' = "recv"
    BY <1>5 DEF MonNotify
  <2> HIDE DEF opp
  <2>4. \A i \in 1 .. Len(oppQ') : oppQ'[i].slot <= newest
    <3>1. \A i \in 1 .. Len(oppQ) : oppQ[i].slot <= newest
      BY DEF Ordered
    <3>2. \/ oppQ' = oppQ
          \/ /\ Len(oppQ') = Len(oppQ) + 1
             /\ \A i \in 1 .. Len(oppQ) : oppQ'[i] = oppQ[i]
             /\ oppQ'[Len(oppQ) + 1] = opp
      BY <2>1, <2>3, TrySendAppends DEF Typed
    <3> HIDE DEF Typed, Ordered
    <3> QED
      BY <2>1, <2>2, <3>1, <3>2
  <2> QED
    BY <2>3, <2>4 DEF Ordered, chainVars
<1> QED
  BY <1>1, <1>2, <1>3, <1>4, <1>5 DEF MonitorTask, OnUpdate

\* The engine only takes opportunities out; the others leave all this alone.
LEMMA OthersKeepOrder ==
  ASSUME Typed, Ordered, UNCHANGED <<chainVars, monVars>>, RecvOpp \/ UNCHANGED oppQ
  PROVE  Ordered'
<1>1. \A i \in 1 .. Len(oppQ') : oppQ'[i].slot <= newest
  <2>1. CASE RecvOpp
    BY <2>1, RecvOppShifts DEF Ordered, Typed
  <2>2. CASE UNCHANGED oppQ
    BY <2>2 DEF Ordered
  <2> QED
    BY <2>1, <2>2
<1>2. UNCHANGED <<currentSlot, newest, chainSlot, stream, monPc, monMsg>>
  BY DEF chainVars, monVars
<1> QED
  BY <1>1, <1>2 DEF Ordered
-----------------------------------------------------------------------------
(* NotifiedIsVisible.                                                      *)

\* What is visible stays so when CURRENT_SLOT grows, when the monitor writes an
\* entry that is not older, and when GC evicts.
LEMMA GrowingSlotKeepsVisible ==
  ASSUME NEW k, NEW s \in Nat, Visible(k, s), table' = table,
         currentSlot \in Nat, currentSlot' \in Nat, currentSlot <= currentSlot', GcAge \in Nat
  PROVE  Visible(k, s)'
BY DEF Visible, Age

\* An insert of a newer entry hides no announced update.
LEMMA InsertKeepsVisible ==
  ASSUME Typed, NEW k \in Keys, NEW s \in Nat, Visible(k, s), MonInsert,
         s <= monMsg.slot
  PROVE  Visible(k, s)'
<1>1. /\ monMsg.key \in Keys /\ monMsg.data \in Decoded(monMsg.key) /\ monMsg.slot \in Slots
      /\ table \in EntryMap
  BY DEF MonInsert, Typed, MonTyped, TableTyped, AccountUpdate
<1>2. table'[k] = IF k = monMsg.key THEN [data |-> monMsg.data, slot |-> monMsg.slot]
                                    ELSE table[k]
  BY <1>1 DEF MonInsert, Updated, EntryMap
<1>3. CASE k = monMsg.key
  BY <1>1, <1>2, <1>3, EntryIsSome DEF Visible, Slots
<1>4. CASE k # monMsg.key
  BY <1>2, <1>4 DEF Visible, MonInsert
<1> QED
  BY <1>3, <1>4

\* An evicted entry was too old to be missed.
LEMMA EvictKeepsVisible ==
  ASSUME Typed, NEW k \in Keys, NEW s \in Nat, Visible(k, s), NEW e \in Keys, GcEvict(e)
  PROVE  Visible(k, s)'
<1>1. table \in EntryMap /\ currentSlot \in Nat /\ currentSlot' = currentSlot
  BY DEF Typed, TableTyped, MonTyped, Slots, GcEvict, monVars
<1>2. CASE k = e
  <2>1. table[k] # NoEntry /\ table[k].slot \in Nat /\ Age(currentSlot, table[k].slot) > GcAge
    BY <1>1, <1>2 DEF GcEvict, EntryMap, EntryOf, Slots
  <2>2. Age(currentSlot, s) > GcAge
    BY <1>1, <2>1, PipelineAssumption DEF Visible, Age
  <2>3. table'[k] = NoEntry
    BY <1>1, <1>2 DEF GcEvict, EntryMap
  <2> QED
    BY <1>1, <2>2, <2>3 DEF Visible
<1>3. CASE k # e
  BY <1>1, <1>3 DEF Visible, GcEvict, EntryMap
<1> QED
  BY <1>2, <1>3

\* Keys and slots of what AllVisible is about.
LEMMA VisibleArguments ==
  ASSUME Typed
  PROVE  /\ Len(oppQ) \in Nat
         /\ \A i \in 1 .. Len(oppQ) : oppQ[i].key \in Keys /\ oppQ[i].slot \in Nat
         /\ monPc # "recv" => monMsg.key \in Keys /\ monMsg.slot \in Nat
         /\ {currentSlot, newest, GcAge} \subseteq Nat
BY LenProperties, ElementOfSeq, PipelineAssumption
   DEF Typed, OppTyped, MonTyped, AccountUpdate, Opportunity, Keys, Slots

\* An opportunity that enters the channel is visible or about a swap.
LEMMA NotifyKeepsVisible ==
  ASSUME Typed, AllVisible, NEW opp \in Opportunity, TrySend(opp),
         opp.kind # "swap" => Visible(opp.key, opp.slot),
         UNCHANGED <<table, currentSlot>>, monPc' = "recv"
  PROVE  AllVisible'
<1>1. Len(oppQ) \in Nat
  BY VisibleArguments
<1>2. ASSUME NEW i \in 1 .. Len(oppQ')
      PROVE  oppQ'[i] = opp \/ (i \in 1 .. Len(oppQ) /\ oppQ'[i] = oppQ[i])
  BY <1>1, TrySendAppends DEF Typed
<1> QED
  BY <1>2 DEF AllVisible, Visible

\* The monitor announces what is in the table, and later writes only newer entries.
LEMMA MonitorKeepsVisible ==
  ASSUME Typed, Ordered, AllVisible, MonitorTask
  PROVE  AllVisible'
<1>1. ASSUME NEW m, OnSlot(m) PROVE AllVisible'
  <2>1. Receive(m) /\ currentSlot' = m.slot /\ UNCHANGED <<oppQ, table, monPc, monMsg>>
    BY <1>1 DEF OnSlot, Receive
  <2>2. currentSlot' \in Nat /\ currentSlot <= currentSlot'
    BY <2>1, ReceiveKeepsOrder DEF Ordered
  <2>3. monPc = "recv"
    BY <2>1 DEF Receive
  <2> QED
    BY <2>1, <2>2, <2>3, VisibleArguments, GrowingSlotKeepsVisible DEF AllVisible
<1>2. ASSUME NEW m, OnTransaction(m) PROVE AllVisible'
  <2> DEFINE opp == [kind |-> "swap", key |-> m.key, slot |-> m.slot]
  <2>1. Receive(m) /\ m.kind = "tx" /\ UNCHANGED <<table, currentSlot>>
        /\ monPc = "recv" /\ monPc' = "recv"
    BY <1>2 DEF OnTransaction, Receive
  <2>2. opp \in Opportunity /\ opp.kind = "swap"
    BY <2>1, ReceiveShifts DEF Update, AccountUpdate, OtherUpdate, Opportunity
  <2>3. CASE UNCHANGED oppQ
    BY <2>1, <2>3 DEF AllVisible, Visible
  <2>4. CASE TrySend(opp)
    BY <2>1, <2>2, <2>4, NotifyKeepsVisible
  <2> QED
    BY <1>2, <2>3, <2>4 DEF OnTransaction
<1>3. ASSUME NEW m, OnAccount(m) PROVE AllVisible'
  BY <1>3 DEF OnAccount, Receive, AllVisible, Visible
<1>4. CASE MonInsert
  <2>1. /\ monPc = "insert" /\ monPc' = "notify"
        /\ UNCHANGED <<monMsg, oppQ, currentSlot, newest>>
    BY <1>4 DEF MonInsert
  <2>2. monMsg.slot = newest /\ \A i \in 1 .. Len(oppQ) : oppQ[i].slot <= monMsg.slot
    BY <2>1 DEF Ordered
  <2>3. \A i \in 1 .. Len(oppQ) :
          oppQ[i].kind # "swap" => Visible(oppQ[i].key, oppQ[i].slot)'
    BY <1>4, <2>1, <2>2, VisibleArguments, InsertKeepsVisible DEF AllVisible
  <2>4. Visible(monMsg.key, monMsg.slot)'
    <3>1. /\ monMsg.key \in Keys /\ monMsg.data \in Decoded(monMsg.key)
          /\ monMsg.slot \in Slots /\ table \in EntryMap
      BY <2>1 DEF Typed, MonTyped, TableTyped, AccountUpdate
    <3>2. table'[monMsg.key] = [data |-> monMsg.data, slot |-> monMsg.slot]
      BY <1>4, <3>1 DEF MonInsert, Updated, EntryMap
    <3> QED
      BY <2>1, <3>1, <3>2, EntryIsSome DEF Visible, Slots
  <2> QED
    BY <2>1, <2>3, <2>4 DEF AllVisible, Visible
<1>5. CASE MonNotify
  <2> DEFINE opp == [kind |-> IF monMsg.key \in Pools THEN "pool" ELSE "obligation",
                     key  |-> monMsg.key, slot |-> monMsg.slot]
  <2>1. opp \in Opportunity
    BY <1>5 DEF MonNotify, Typed, MonTyped, AccountUpdate, Opportunity, Keys
  <2>2. Visible(opp.key, opp.slot)
    BY <1>5 DEF MonNotify, AllVisible
  <2>3. TrySend(opp) /\ UNCHANGED <<table, currentSlot>> /\ monPc' = "recv"
    BY <1>5 DEF MonNotify
  <2> HIDE DEF opp
  <2> QED
    BY <2>1, <2>2, <2>3, NotifyKeepsVisible
<1> QED
  BY <1>1, <1>2, <1>3, <1>4, <1>5 DEF MonitorTask, OnUpdate

\* The GC task does not touch the opportunities.
LEMMA GcKeepsVisible ==
  ASSUME Typed, AllVisible, NEW k \in Keys, GcEvict(k)
  PROVE  AllVisible'
<1>1. UNCHANGED <<oppQ, monPc, monMsg>>
  BY DEF GcEvict, monVars
<1> QED
  BY <1>1, VisibleArguments, EvictKeepsVisible DEF AllVisible

\* Taking an opportunity from the channel leaves the others announced truly.
LEMMA OthersKeepVisible ==
  ASSUME Typed, AllVisible, UNCHANGED <<monVars, table>>, RecvOpp \/ UNCHANGED oppQ
  PROVE  AllVisible'
<1>1. UNCHANGED <<currentSlot, monPc, monMsg, table>>
  BY DEF monVars
<1>2. CASE RecvOpp
  BY <1>1, <1>2, RecvOppShifts DEF AllVisible, Visible, Typed
<1>3. CASE UNCHANGED oppQ
  BY <1>1, <1>3 DEF AllVisible, Visible
<1> QED
  BY <1>2, <1>3
-----------------------------------------------------------------------------
(* ScanSeesUpdate.                                                         *)

\* A scan in progress: its opportunity, and the slots it is compared with.
LEMMA ScanFacts ==
  ASSUME Typed, ScanSees, engPc = "scan"
  PROVE  /\ engOpp.key \in Keys /\ engOpp.slot \in Nat /\ engOpp.slot <= newest
         /\ {currentSlot, engNow, newest, StaleAge, GcAge} \subseteq Nat
         /\ engNow <= currentSlot /\ StaleAge <= GcAge
BY PipelineAssumption DEF ScanSees, Typed, MonTyped, EngTyped, Slots

\* Chain and executor do not touch a scan.
LEMMA OthersKeepScan ==
  ASSUME ScanSees, UNCHANGED <<monVars, table, engVars>>
  PROVE  ScanSees'
BY DEF ScanSees, Visible, Seen, monVars, engVars

\* A walk goes on while CURRENT_SLOT and newest grow.
LEMMA GrowingSlotKeepsScan ==
  ASSUME Typed, ScanSees, UNCHANGED <<table, engVars>>,
         currentSlot' \in Nat, currentSlot <= currentSlot',
         newest' \in Nat, newest <= newest'
  PROVE  ScanSees'
<1> SUFFICES ASSUME engPc = "scan" PROVE ScanSees'
  BY DEF ScanSees, engVars
<1>1. UNCHANGED <<engPc, engLeft, engHits, engNow, engOpp>>
  BY DEF engVars
<1>2. /\ engOpp.slot <= newest'
      /\ engNow <= currentSlot'
  BY ScanFacts
<1>3. CASE engOpp.key \in engLeft
  <2>1. Visible(engOpp.key, engOpp.slot)
    BY <1>3 DEF ScanSees
  <2>2. IF table[engOpp.key] = NoEntry THEN Age(currentSlot', engOpp.slot) > GcAge
                                       ELSE table[engOpp.key].slot >= engOpp.slot
    BY <2>1, ScanFacts DEF Visible, Age
  <2> QED
    BY <1>1, <1>2, <1>3, <2>2, ScanFacts DEF ScanSees, Visible
<1>4. CASE engOpp.key \notin engLeft
  <2>1. Seen(engOpp.key, engOpp.slot)
    BY <1>4 DEF ScanSees
  <2>2. \/ \E h \in engHits : h.key = engOpp.key /\ h.slot >= engOpp.slot
        \/ Age(currentSlot', engOpp.slot) > StaleAge
    BY <2>1, ScanFacts DEF Seen, Age
  <2> QED
    BY <1>1, <1>2, <1>4, <2>2, ScanFacts DEF ScanSees, Seen
<1> QED
  BY <1>3, <1>4

\* The monitor's slot and its inserts only move forward.
LEMMA MonitorKeepsScan ==
  ASSUME Typed, Ordered, ScanSees, MonitorTask
  PROVE  ScanSees'
<1>1. ASSUME NEW m, Receive(m), currentSlot' \in {currentSlot, m.slot},
             newest' = Later(m.slot, newest)
      PROVE  ScanSees'
  <2>1. UNCHANGED <<table, engVars>>
    BY <1>1 DEF Receive
  <2>2. /\ currentSlot' \in Nat /\ currentSlot <= currentSlot'
        /\ newest' \in Nat /\ newest <= newest'
    BY <1>1, ReceiveKeepsOrder DEF Ordered
  <2> QED
    BY <2>1, <2>2, GrowingSlotKeepsScan
<1>2. ASSUME NEW m, OnSlot(m) \/ OnTransaction(m) \/ OnAccount(m) PROVE ScanSees'
  BY <1>1, <1>2 DEF OnSlot, OnTransaction, OnAccount
<1>3. CASE MonInsert
  <2>1. UNCHANGED <<engVars, currentSlot, newest>> /\ monMsg.slot = newest
    BY <1>3 DEF MonInsert, Ordered
  <2>2. UNCHANGED <<engPc, engLeft, engHits, engNow, engOpp>>
    BY <2>1 DEF engVars
  <2> SUFFICES ASSUME engPc = "scan" PROVE ScanSees'
    BY <2>2 DEF ScanSees
  <2>3. ASSUME engOpp.key \in engLeft PROVE Visible(engOpp.key, engOpp.slot)'
    <3>1. Visible(engOpp.key, engOpp.slot) /\ engOpp.slot <= monMsg.slot
      BY <2>1, <2>3, ScanFacts DEF ScanSees
    <3>2. PICK k \in Keys, s \in Nat : k = engOpp.key /\ s = engOpp.slot
      BY ScanFacts
    <3>3. Visible(k, s)'
      BY <1>3, <3>1, <3>2, InsertKeepsVisible
    <3> QED
      BY <2>2, <3>2, <3>3 DEF Visible
  <2> QED
    BY <2>1, <2>2, <2>3, ScanFacts DEF ScanSees, Seen
<1>4. CASE MonNotify
  BY <1>4 DEF MonNotify, engVars, ScanSees, Visible, Seen
<1> QED
  BY <1>2, <1>3, <1>4 DEF MonitorTask, OnUpdate

\* GC makes the update too old before the scan gets to it, or comes too late.
LEMMA GcKeepsScan ==
  ASSUME Typed, ScanSees, NEW e \in Keys, GcEvict(e)
  PROVE  ScanSees'
<1>1. UNCHANGED <<engPc, engLeft, engHits, engNow, engOpp, currentSlot, newest>>
  BY DEF GcEvict, monVars, engVars
<1> SUFFICES ASSUME engPc = "scan" PROVE ScanSees'
  BY <1>1 DEF ScanSees
<1>2. ASSUME engOpp.key \in engLeft PROVE Visible(engOpp.key, engOpp.slot)'
  <2>1. PICK k \in Keys, s \in Nat : k = engOpp.key /\ s = engOpp.slot
    BY ScanFacts
  <2>2. Visible(k, s)'
    BY <1>2, <2>1, EvictKeepsVisible DEF ScanSees
  <2> QED
    BY <1>1, <2>1, <2>2 DEF Visible
<1> QED
  BY <1>1, <1>2, ScanFacts DEF ScanSees, Seen

\* A scan starts with an opportunity whose update is visible.
LEMMA StartScanSees ==
  ASSUME Typed, Ordered, AllVisible, StartScan
  PROVE  ScanSees'
<1> DEFINE opp == Head(oppQ)
<1>1. /\ engLeft' = Pools /\ engNow' = currentSlot /\ engOpp' = opp
      /\ UNCHANGED <<table, currentSlot, newest>>
      /\ opp.kind = "pool"
  BY DEF StartScan, Walk, RecvOpp, monVars
<1>2. oppQ \in Seq(Opportunity) /\ oppQ # <<>> /\ Len(oppQ) \in Nat \ {0} /\ opp = oppQ[1]
  BY EmptySeq, HeadTailProperties DEF StartScan, RecvOpp, Typed, OppTyped
<1>3. opp \in Opportunity /\ opp.slot <= newest /\ Visible(opp.key, opp.slot)
  BY <1>1, <1>2, RecvOppShifts DEF Ordered, AllVisible, StartScan, Typed
<1>4. opp.key \in Pools /\ opp.slot \in Nat /\ currentSlot \in Nat
  BY <1>1, <1>3 DEF Opportunity, Slots, Typed, MonTyped
<1> HIDE DEF opp
<1>5. engNow' <= currentSlot'
  BY <1>1, <1>4
<1> QED
  BY <1>1, <1>3, <1>4, <1>5 DEF ScanSees, Visible, Keys

\* Reading a visible update gives an edge, or finds it too old.
LEMMA ScanReadSees ==
  ASSUME Typed, ScanSees, NEW p \in Pools, ScanRead(p)
  PROVE  ScanSees'
<1>1. /\ engPc = "scan" /\ p \in engLeft /\ engLeft' = engLeft \ {p}
      /\ UNCHANGED <<engPc, engNow, engOpp, table, currentSlot, newest>>
      /\ engHits' = IF table[p] # NoEntry /\ ~Stale(p)
                      THEN engHits \cup {[key |-> p, slot |-> table[p].slot]}
                      ELSE engHits
  BY DEF ScanRead, monVars
<1>2. ASSUME engOpp.key \in engLeft' PROVE Visible(engOpp.key, engOpp.slot)
  BY <1>1, <1>2 DEF ScanSees
<1>3. ASSUME engOpp.key \notin engLeft'
      PROVE  \/ \E h \in engHits' : h.key = engOpp.key /\ h.slot >= engOpp.slot
             \/ Age(currentSlot, engOpp.slot) > StaleAge
  <2>1. CASE engOpp.key \notin engLeft
    BY <1>1, <2>1 DEF ScanSees, Seen
  <2>2. CASE engOpp.key \in engLeft
    <3>1. engOpp.key = p /\ Visible(p, engOpp.slot)
      BY <1>1, <1>3, <2>2 DEF ScanSees
    <3>2. CASE table[p] = NoEntry
      BY <1>1, <3>1, <3>2, ScanFacts DEF Visible, Age
    <3>3. CASE table[p] # NoEntry /\ ~Stale(p)
      <4> DEFINE hit == [key |-> p, slot |-> table[p].slot]
      <4>1. hit \in engHits' /\ hit.key = p /\ hit.slot = table[p].slot
        BY <1>1, <3>3
      <4>2. table[p].slot >= engOpp.slot
        BY <3>1, <3>3 DEF Visible
      <4>3. hit.key = engOpp.key /\ hit.slot >= engOpp.slot
        BY <3>1, <4>1, <4>2
      <4> QED
        BY <4>1, <4>3
    <3>4. CASE table[p] # NoEntry /\ Stale(p)
      <4>1. table[p].slot \in Nat
        BY <3>4 DEF Typed, TableTyped, EntryMap, EntryOf, Slots, Keys
      <4>2. table[p].slot >= engOpp.slot /\ Age(engNow, table[p].slot) > StaleAge
        BY <3>1, <3>4 DEF Visible, Stale
      <4> QED
        BY <1>1, <4>1, <4>2, ScanFacts DEF Age
    <3> QED
      BY <3>2, <3>3, <3>4
  <2> QED
    BY <2>1, <2>2
<1> QED
  BY <1>1, <1>2, <1>3, ScanFacts DEF ScanSees, Visible, Seen

\* What else the engine does, it does between scans.
LEMMA EngineKeepsScan ==
  ASSUME Typed, Ordered, AllVisible, ScanSees, EngineRecv \/ SweepTick \/ EngineWork
  PROVE  ScanSees'
<1>1. ASSUME NEW S, Emit(S) PROVE ScanSees'
  BY <1>1 DEF Emit, ScanSees
<1>2. CASE Evaluate \/ EvaluateSwap \/ ScanDone \/ SweepDone
           \/ \E sig \in engOut : EngineSend(sig)
  BY <1>1, <1>2 DEF Evaluate, EvaluateSwap, ScanDone, SweepDone, EngineSend
<1>3. CASE SweepTick \/ \E k \in Obligations : SweepRead(k)
  BY <1>3 DEF SweepTick, Walk, SweepRead, ScanSees
<1> QED
  BY <1>2, <1>3, StartScanSees, ScanReadSees DEF EngineRecv, EngineWork
-----------------------------------------------------------------------------
(* The table follows the feed.                                             *)

\* What FeedTracked says of one key.
Tracked(k) ==
  sent[k] # NoEntry =>
    IF InTransit(k) # {}
      THEN \E i \in InTransit(k) :
             IsLastSent(stream[i]) /\ \A j \in InTransit(k) : j <= i
      ELSE IF monPc = "insert" /\ monMsg.key = k
             THEN IsLastSent(monMsg)
             ELSE table[k] \in {sent[k], NoEntry}

\* FeedTracked, key by key.
LEMMA TrackedEach == FeedTracked <=> \A k \in Keys : Tracked(k)
BY DEF FeedTracked, Tracked

\* The positions of the stream.
LEMMA TransitPositions ==
  ASSUME Typed, NEW k
  PROVE  InTransit(k) = {i \in 1 .. Len(stream) : Carries(stream[i], k)}
BY LenProperties DEF InTransit, Typed, ChainTyped

\* A push is tracked: the pushed update is the last of its key if it can be
\* decoded, and otherwise the last one is where it was.
LEMMA PushTracks ==
  ASSUME Typed, Typed', NEW k \in Keys, Tracked(k), NEW m \in Update, Push(m),
         sent'[k] = IF Carries(m, k) THEN [data |-> m.data, slot |-> m.slot] ELSE sent[k],
         UNCHANGED <<monVars, table>>
  PROVE  Tracked(k)'
<1> DEFINE n == Len(stream)
<1>1. /\ n \in Nat /\ Len(stream') = n + 1 /\ stream'[n + 1] = m
      /\ \A i \in 1 .. n : stream'[i] = stream[i]
  BY PushAppends, LenProperties DEF Typed, ChainTyped
<1>2. InTransit(k) = {i \in 1 .. n : Carries(stream[i], k)}
  BY TransitPositions
<1>3. InTransit(k)' = {i \in 1 .. n + 1 : Carries(stream'[i], k)}
  BY <1>1, TransitPositions, LenProperties DEF InTransit, Typed, ChainTyped, Carries
<1>4. UNCHANGED <<table, monPc, monMsg>>
  BY DEF monVars
<1>5. CASE Carries(m, k)
  <2>1. n + 1 \in InTransit(k)' /\ \A j \in InTransit(k)' : j <= n + 1
    BY <1>1, <1>3, <1>5
  <2>2. sent'[m.key] = [data |-> m.data, slot |-> m.slot] /\ stream'[n + 1] = m
    BY <1>1, <1>5 DEF Carries
  <2> QED
    BY <2>1, <2>2 DEF Tracked, IsLastSent
<1>6. CASE ~Carries(m, k)
  <2>1. InTransit(k)' = InTransit(k)
    BY <1>1, <1>2, <1>3, <1>6
  <2>2. sent'[k] = sent[k] /\ \A i \in InTransit(k) : stream'[i] = stream[i] /\ stream[i].key = k
    BY <1>1, <1>2, <1>6 DEF Carries
  <2> QED
    BY <1>4, <2>1, <2>2 DEF Tracked, IsLastSent
<1> QED
  BY <1>5, <1>6

\* Taking the first update is tracked, if the monitor keeps it in hand when it
\* is one of k that can be decoded.
LEMMA ReceiveTracks ==
  ASSUME Typed, Typed', NEW k \in Keys, Tracked(k), NEW m, Receive(m),
         Carries(m, k) => monPc' = "insert" /\ monMsg' = m,
         ~Carries(m, k) => ~(monPc' = "insert" /\ monMsg'.key = k)
  PROVE  Tracked(k)'
<1> DEFINE n == Len(stream)
<1>1. /\ n \in Nat \ {0} /\ Len(stream') = n - 1 /\ m = stream[1]
      /\ \A i \in 1 .. n - 1 : stream'[i] = stream[i + 1]
  BY ReceiveShifts
<1>2. InTransit(k) = {i \in 1 .. n : Carries(stream[i], k)}
  BY TransitPositions
<1>3. InTransit(k)' = {i \in 1 .. n - 1 : Carries(stream[i + 1], k)}
  BY <1>1, LenProperties DEF InTransit, Typed, ChainTyped, Carries
<1>4. sent' = sent /\ table' = table /\ monPc = "recv"
  BY DEF Receive
<1>5. ASSUME sent[k] # NoEntry, InTransit(k)' # {}
      PROVE  \E i \in InTransit(k)' :
               /\ sent'[stream'[i].key] = [data |-> stream'[i].data, slot |-> stream'[i].slot]
               /\ \A j \in InTransit(k)' : j <= i
  <2>1. \A i \in InTransit(k)' : i + 1 \in InTransit(k)
    BY <1>1, <1>2, <1>3
  <2>2. PICK l \in InTransit(k) : IsLastSent(stream[l]) /\ \A j \in InTransit(k) : j <= l
    BY <1>5, <2>1 DEF Tracked
  <2>3. PICK p \in InTransit(k)' : TRUE
    BY <1>5
  <2>4. p + 1 <= l /\ p \in 1 .. n - 1 /\ l \in 1 .. n
    BY <1>2, <1>3, <2>1, <2>2, <2>3
  <2>5. l - 1 \in 1 .. n - 1 /\ (l - 1) + 1 = l
    BY <1>1, <2>4
  <2>6. l - 1 \in InTransit(k)' /\ stream'[l - 1] = stream[l]
    BY <1>1, <1>2, <1>3, <2>2, <2>5
  <2>7. \A j \in InTransit(k)' : j <= l - 1
    BY <1>3, <2>1, <2>2, <2>4
  <2> QED
    BY <1>4, <2>2, <2>6, <2>7 DEF IsLastSent
<1>6. ASSUME sent[k] # NoEntry, InTransit(k)' = {}
      PROVE  IF monPc' = "insert" /\ monMsg'.key = k
               THEN sent'[monMsg'.key] = [data |-> monMsg'.data, slot |-> monMsg'.slot]
               ELSE table'[k] \in {sent'[k], NoEntry}
  <2>1. ASSUME NEW i \in InTransit(k), i # 1 PROVE FALSE
    <3>1. i \in 1 .. n /\ i - 1 \in 1 .. n - 1 /\ (i - 1) + 1 = i
      BY <1>1, <1>2, <2>1
    <3>2. i - 1 \in InTransit(k)'
      BY <1>2, <1>3, <3>1
    <3> QED
      BY <1>6, <3>2
  <2>2. CASE Carries(m, k)
    <3>1. 1 \in InTransit(k)
      BY <1>1, <1>2, <2>2
    <3>2. IsLastSent(m)
      BY <1>1, <1>6, <2>1, <3>1 DEF Tracked
    <3> QED
      BY <1>4, <2>2, <3>2 DEF IsLastSent, Carries
  <2>3. CASE ~Carries(m, k)
    <3>1. InTransit(k) = {}
      BY <1>1, <1>2, <2>1, <2>3
    <3>2. table[k] \in {sent[k], NoEntry}
      BY <1>4, <1>6, <3>1 DEF Tracked
    <3> QED
      BY <1>4, <2>3, <3>2
  <2> QED
    BY <2>2, <2>3
<1> QED
  BY <1>4, <1>5, <1>6 DEF Tracked, IsLastSent

\* The chain's last write is the last in transit, and a cut forgets what was sent.
LEMMA ChainKeepsTracked ==
  ASSUME Typed, Typed', FeedTracked, Chain
  PROVE  FeedTracked'
<1> SUFFICES ASSUME NEW k \in Keys, Tracked(k) PROVE Tracked(k)'
  BY TrackedEach DEF FeedTracked, Tracked
<1>1. ASSUME NEW w \in Keys, NEW d \in Decoded(w) \cup {"gone"}, ChainWrite(w, d)
      PROVE  Tracked(k)'
  <2> DEFINE m == Account(w, d, chainSlot)
  <2>1. m \in Update /\ m.key = w /\ m.kind = "account" /\ m.data = d /\ m.slot = chainSlot
    BY DEF Account, Update, AccountUpdate, Typed, ChainTyped, Decoded, DecodedPool,
           DecodedObligation
  <2>2. d \in Decoded(w) <=> d # "gone"
    BY DEF Decoded, DecodedPool, DecodedObligation
  <2>3. sent'[k] = IF Carries(m, k) THEN [data |-> m.data, slot |-> m.slot] ELSE sent[k]
    BY <1>1, <2>1, <2>2 DEF ChainWrite, Carries, Typed, ChainTyped, EntryMap
  <2> QED
    BY <1>1, <2>1, <2>3, PushTracks DEF ChainWrite
<1>2. ASSUME NEW p \in Pools, ChainSwap(p) PROVE Tracked(k)'
  <2> DEFINE m == Transaction(p, chainSlot)
  <2>1. m \in Update /\ ~Carries(m, k)
    BY DEF Transaction, Update, OtherUpdate, Typed, ChainTyped, Carries
  <2> QED
    BY <1>2, <2>1, PushTracks DEF ChainSwap
<1>3. CASE ChainTick
  <2> DEFINE m == SlotUpdate(chainSlot + 1)
  <2>1. m \in Update /\ ~Carries(m, k)
    BY <1>3, PipelineAssumption
       DEF ChainTick, SlotUpdate, Update, OtherUpdate, Typed, ChainTyped, Slots, Carries
  <2>2. CASE Push(m)
    BY <1>3, <2>1, <2>2, PushTracks DEF ChainTick
  <2>3. CASE UNCHANGED stream
    BY <1>3, <2>3 DEF ChainTick, monVars, Tracked, InTransit, IsLastSent
  <2> QED
    BY <1>3, <2>2, <2>3 DEF ChainTick
<1>4. CASE Disconnect
  BY <1>4 DEF Disconnect, Tracked
<1>5. CASE Reconnect
  BY <1>5 DEF Reconnect, monVars, Tracked, InTransit, IsLastSent
<1> QED
  BY <1>1, <1>2, <1>3, <1>4, <1>5 DEF Chain

\* An update goes from the stream to the monitor's hands and from there to the table.
LEMMA MonitorKeepsTracked ==
  ASSUME Typed, Typed', FeedTracked, MonitorTask
  PROVE  FeedTracked'
<1> SUFFICES ASSUME NEW k \in Keys, Tracked(k) PROVE Tracked(k)'
  BY TrackedEach DEF FeedTracked, Tracked
<1>1. ASSUME NEW m, OnSlot(m) PROVE Tracked(k)'
  BY <1>1, ReceiveTracks DEF OnSlot, Receive, Carries
<1>2. ASSUME NEW m, OnTransaction(m) PROVE Tracked(k)'
  BY <1>2, ReceiveTracks DEF OnTransaction, Receive, Carries
<1>3. ASSUME NEW m, OnAccount(m) PROVE Tracked(k)'
  <2>1. Receive(m) /\ m.kind = "account" /\ monPc = "recv"
    BY <1>3 DEF OnAccount, Receive
  <2>2. Carries(m, k) => monPc' = "insert" /\ monMsg' = m
    BY <1>3 DEF OnAccount, Carries, Accepts
  <2>3. ~Carries(m, k) => ~(monPc' = "insert" /\ monMsg'.key = k)
    BY <1>3, <2>1 DEF OnAccount, Carries, Accepts
  <2> QED
    BY <2>1, <2>2, <2>3, ReceiveTracks
<1>4. CASE MonInsert
  <2>1. /\ monPc = "insert" /\ monPc' = "notify"
        /\ UNCHANGED <<sent, stream, monMsg>>
    BY <1>4 DEF MonInsert, chainVars
  <2>2. InTransit(k)' = InTransit(k)
    BY <2>1 DEF InTransit
  <2>3. table'[k] = IF k = monMsg.key THEN [data |-> monMsg.data, slot |-> monMsg.slot]
                                      ELSE table[k]
    BY <1>4 DEF MonInsert, Updated, Typed, TableTyped, EntryMap
  <2> QED
    BY <2>1, <2>2, <2>3 DEF Tracked, IsLastSent
<1>5. CASE MonNotify
  BY <1>5 DEF MonNotify, chainVars, Tracked, InTransit, IsLastSent
<1> QED
  BY <1>1, <1>2, <1>3, <1>4, <1>5 DEF MonitorTask, OnUpdate

\* An evicted key may be absent.
LEMMA GcKeepsTracked ==
  ASSUME Typed, FeedTracked, NEW e \in Keys, GcEvict(e)
  PROVE  FeedTracked'
<1> SUFFICES ASSUME NEW k \in Keys, Tracked(k) PROVE Tracked(k)'
  BY TrackedEach DEF FeedTracked, Tracked
<1>1. UNCHANGED <<sent, stream, monPc, monMsg>>
  BY DEF GcEvict, chainVars, monVars
<1>2. table'[k] \in {table[k], NoEntry}
  BY DEF GcEvict, Typed, TableTyped, EntryMap
<1>3. InTransit(k)' = InTransit(k)
  BY <1>1 DEF InTransit
<1> QED
  BY <1>1, <1>2, <1>3 DEF Tracked, IsLastSent

\* Engine and executor write nothing that FeedTracked speaks of.
LEMMA OthersKeepTracked ==
  ASSUME FeedTracked, UNCHANGED <<chainVars, monVars, table>>
  PROVE  FeedTracked'
BY DEF chainVars, monVars, FeedTracked, InTransit, IsLastSent
-----------------------------------------------------------------------------
(* The inductive invariant, and what it gives.                             *)

\* At the start nothing is on its way and the table is empty.
LEMMA InitPInv == Init => PInv
<1> SUFFICES ASSUME Init PROVE PInv
  OBVIOUS
<1>1. Len(stream) = 0 /\ Len(oppQ) = 0 /\ DOMAIN stream = {}
  BY EmptySeq DEF Init
<1>2. Ordered /\ AllVisible /\ ScanSees
  BY <1>1 DEF Init, Ordered, AllVisible, ScanSees
<1>3. FeedTracked
  BY DEF Init, FeedTracked
<1> QED
  BY <1>2, <1>3, InitTyped DEF PInv

\* Every step keeps the invariant, by the lemmas above.
LEMMA StepPInv == PInv /\ [Next]_vars => PInv'
<1> SUFFICES ASSUME PInv, [Next]_vars PROVE PInv'
  OBVIOUS
<1> USE DEF PInv
<1>1. CASE Chain
  <2>1. Typed' /\ Ordered' /\ FeedTracked'
    BY <1>1, ChainKeepsTypes, ChainKeepsOrder, ChainKeepsTracked
  <2>2. UNCHANGED <<monVars, table, oppQ, engVars>>
    BY <1>1 DEF Chain, ChainWrite, ChainSwap, ChainTick, Disconnect, Reconnect
  <2> QED
    BY <2>1, <2>2, OthersKeepVisible, OthersKeepScan
<1>2. CASE MonitorTask
  BY <1>2, MonitorKeepsTypes, MonitorKeepsOrder, MonitorKeepsVisible, MonitorKeepsScan,
     MonitorKeepsTracked
<1>3. ASSUME NEW k \in Keys, GcEvict(k) PROVE PInv'
  <2>1. UNCHANGED <<chainVars, monVars, oppQ>>
    BY <1>3 DEF GcEvict
  <2> QED
    BY <1>3, <2>1, GcKeepsTypes, OthersKeepOrder, GcKeepsVisible, GcKeepsScan, GcKeepsTracked
<1>4. CASE EngineRecv \/ SweepTick \/ EngineWork
  <2>1. UNCHANGED <<chainVars, monVars, table>> /\ (RecvOpp \/ UNCHANGED oppQ)
    BY <1>4 DEF EngineRecv, Evaluate, EvaluateSwap, StartScan, RecvOpp, SweepTick,
                EngineWork, ScanRead, ScanDone, SweepRead, SweepDone, EngineSend
  <2> QED
    BY <1>4, <2>1, EngineKeepsTypes, OthersKeepOrder, OthersKeepVisible, EngineKeepsScan,
       OthersKeepTracked
<1>5. CASE ExecTask \/ JupiterHangs
  <2>1. UNCHANGED <<chainVars, monVars, table, oppQ, engVars>>
    BY <1>5 DEF ExecTask, ExecTake, ExecDone, JupiterHangs
  <2> QED
    BY <1>5, <2>1, ExecKeepsTypes, OthersKeepOrder, OthersKeepVisible, OthersKeepScan,
       OthersKeepTracked
<1>6. CASE UNCHANGED vars
  <2>1. UNCHANGED <<chainVars, monVars, table, oppQ, engVars, sigQ, execVars>>
    BY <1>6 DEF vars
  <2>2. Typed'
    BY <2>1 DEF chainVars, monVars, engVars, execVars, Typed, ChainTyped, TableTyped,
                MonTyped, OppTyped, EngTyped, ExecTyped
  <2> QED
    BY <2>1, <2>2, OthersKeepOrder, OthersKeepVisible, OthersKeepScan, OthersKeepTracked
<1> QED
  BY <1>1, <1>2, <1>3, <1>4, <1>5, <1>6 DEF Next

\* The inductive invariant: types, the order of slots, visibility, what a scan has
\* seen, and tracking.
THEOREM PipelineInvariant == Safety => []PInv
<1> QED
  BY InitPInv, StepPInv, PTL DEF Safety

\* Type correctness of the four tasks and two channels, for every instance.
THEOREM TypeCorrect == Safety => []TypeOK
<1>1. PInv => TypeOK
  <2> SUFFICES ASSUME Typed PROVE TypeOK
    BY DEF PInv
  <2> USE DEF Typed
  <2>1. /\ slotFeed \in BOOLEAN /\ connected \in BOOLEAN /\ hung \in BOOLEAN
        /\ {chainSlot, currentSlot, newest, engNow, engNewest} \subseteq Slots
        /\ Len(stream) <= StreamCap
    BY DEF ChainTyped, MonTyped, EngTyped, ExecTyped
  <2>2. \A k \in Keys : {table[k], sent[k]} \subseteq EntryOf(k) \cup {NoEntry}
    BY DEF ChainTyped, TableTyped, EntryMap
  <2>3. /\ monPc \in {"recv", "insert", "notify"}
        /\ monPc # "recv" => monMsg.data \in Decoded(monMsg.key)
    BY DEF MonTyped
  <2>4. /\ \A i \in DOMAIN oppQ : oppQ[i] \in Opportunity
        /\ Len(oppQ) <= OppCap
        /\ \A i \in DOMAIN sigQ : sigQ[i] \in Signal
        /\ Len(sigQ) <= SigCap
    BY LenProperties, ElementOfSeq DEF OppTyped, ExecTyped
  <2>5. /\ engPc \in {"select", "scan", "sweep", "send"}
        /\ engOut \subseteq Signal
        /\ (engOut # {}) = (engPc = "send")
    BY DEF EngTyped
  <2>6. /\ exec \subseteq Signal /\ Cardinality(exec) <= 1
        /\ hung => exec # {}
    <3>1. CASE exec = {}
      BY <3>1, FS_EmptySet DEF ExecTyped
    <3>2. ASSUME NEW sig \in Signal, exec = {sig}
          PROVE  exec \subseteq Signal /\ Cardinality(exec) <= 1
      BY <3>2, FS_Singleton
    <3> QED
      BY <3>1, <3>2 DEF ExecTyped
  <2> QED
    BY <2>1, <2>2, <2>3, <2>4, <2>5, <2>6 DEF TypeOK
<1> QED
  BY <1>1, PipelineInvariant, PTL

\* Whatever the interleaving, an opportunity in the channel is about an entry
\* that the table has, or that GC evicted for its age (NotifiedIsVisible).
THEOREM OpportunitiesVisible == Safety => []NotifiedIsVisible
<1>1. PInv => NotifiedIsVisible
  <2> SUFFICES ASSUME PInv PROVE NotifiedIsVisible
    OBVIOUS
  <2>1. DOMAIN oppQ = 1 .. Len(oppQ)
    BY LenProperties DEF PInv, Typed, OppTyped
  <2> QED
    BY <2>1 DEF PInv, AllVisible, Visible, NotifiedIsVisible
<1> QED
  BY <1>1, PipelineInvariant, PTL

\* No update of a connection is lost or overtaken between the stream and the
\* table (FeedTracked).
THEOREM TableFollowsFeed == Safety => []FeedTracked
<1>1. PInv => FeedTracked
  BY DEF PInv
<1> QED
  BY <1>1, PipelineInvariant, PTL

\* A scan sees the update that started it, however long that waited and whatever
\* monitor and GC do during the walk, until the slot counter says that it is
\* stale (ScanSeesUpdate).
THEOREM ScansSeeTheirUpdate == Safety => []ScanSeesUpdate
<1>1. PInv => ScanSeesUpdate
  BY DEF PInv, ScanSees, Seen, ScanSeesUpdate
<1> QED
  BY <1>1, PipelineInvariant, PTL
=============================================================================
