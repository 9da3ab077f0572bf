----------------------------- MODULE Submission -----------------------------
(***************************************************************************)
(* How the executor turns one signal into transactions and what becomes of *)
(* them: Executor::execute (executor.rs), the preflight simulation and fee *)
(* query (simulator.rs), JitoClient::send_bundle (jito.rs), and the chain. *)
(*                                                                         *)
(* Every await is a step of its own, with its failures; slots pass and     *)
(* transactions land in between.  The executor runs signals one after the  *)
(* other (main.rs), but what it has sent lives on after execute returns.   *)
(*                                                                         *)
(* A transaction is the set of things it does, named below, with the slot  *)
(* of its blockhash and its compute unit price.  The tip does not say which*)
(* signal it pays for: two tips to one account with one blockhash are the  *)
(* same transaction, and the chain takes it once.                          *)
(***************************************************************************)
EXTENDS Naturals, Sequences, FiniteSets

CONSTANTS
  Kinds,         \* kinds of signal that occur, out of "arb", "liq", "sandwich"
  Simulates,     \* values of simulate_before_send that occur
  SpamEndpoints, \* RPC endpoints that get a raw copy of the transaction
  TipAccounts,   \* names of Jito's tip accounts, 8 in the code
  Fees,          \* priority fees suggest_priority_fee may return
  FeeCap,        \* max_cu_price_microlamports
  FeeInit,       \* the value fee_p95_lamports starts with
  BlockhashLife, \* slots after which a transaction can land no more, 150
  MaxSignals,    \* bound: signals executed
  MaxSlot        \* bound: slots that pass

\* What a transaction can do.  A liquidation seizes wrapped SOL or a token that
\* has to be sold; "exit" sells it.
Actions == {"budget", "swaps", "seize-sol", "seize-token", "exit",
            "front", "back"}

ASSUME SubmissionAssumption ==
  /\ Kinds \subseteq {"arb", "liq", "sandwich"}
  /\ Simulates \subseteq BOOLEAN
  /\ IsFiniteSet(TipAccounts) /\ TipAccounts \cap Actions = {}
  /\ Fees \subseteq Nat
  /\ {FeeCap, FeeInit, BlockhashLife, MaxSignals, MaxSlot} \subseteq Nat

\* MUTANT of Min2: the cap is not applied.
FirstOf(a, b) == a

Min2(a, b) == IF a < b THEN a ELSE b

VARIABLES
  simulate,  \* config.simulate_before_send
  pc, kind,  \* the executor: where it is, and with which kind of signal
  id,        \* signals executed so far, the present one included
  ixs, price, hash, \* execute's locals: instructions, fee, blockhash
  feeP95,    \* RiskEngine::fee_p95_lamports
  checked,   \* history: signals whose preflight succeeded
  vetoed,    \* history: signals the risk engine vetoed
  slot,      \* the chain's slot
  bundles,   \* bundles that reached the block engine
  copies,    \* raw copies that reached an RPC endpoint
  landed     \* transactions on the chain

localVars == <<ixs, price, hash>>
histVars  == <<checked, vetoed>>
netVars   == <<slot, bundles, copies, landed>>
vars == <<simulate, pc, kind, id, localVars, feeP95, histVars, netVars>>

Tx(acts) == [id |-> id, does |-> acts, price |-> price, hash |-> hash]

Init ==
  /\ simulate \in Simulates
  /\ pc = "idle" /\ kind = "none" /\ id = 0
  /\ ixs = {} /\ price = 0 /\ hash = 0
  /\ feeP95 = FeeInit
  /\ checked = {} /\ vetoed = {}
  /\ slot = 0 /\ bundles = {} /\ copies = {} /\ landed = {}
-----------------------------------------------------------------------------
(* execute: one signal from the channel.                                   *)

\* execute returns; an error is logged and the next signal is taken.
Return ==
  /\ pc' = "idle"
  /\ kind' = "none"
  /\ ixs' = {} /\ price' = 0 /\ hash' = 0

Goto(l) == pc' = l /\ UNCHANGED kind

Start(k) ==
  /\ pc = "idle"
  /\ id < MaxSignals
  /\ id' = id + 1
  /\ kind' = k
  /\ pc' = IF k = "liq" THEN "fetch" ELSE "build"
  /\ UNCHANGED <<simulate, localVars, feeP95, histVars, netVars>>

\* Any of the awaits and conversions that `?` guards fails.
Fail ==
  /\ pc \in {"build", "fetch", "jupiter", "liquidate", "simulate", "hash",
             "sign"}
  /\ Return
  /\ UNCHANGED <<simulate, id, feeP95, histVars, netVars>>

\* MUTANT of SimOrBundle: the preflight is skipped.
BundleAtOnce == Goto("hash")

\* The instructions are ready: sim_and_send_with_luts.
SimOrBundle == Goto(IF simulate THEN "simulate" ELSE "hash")

BuildArb ==
  /\ pc = "build" /\ kind = "arb"
  /\ ixs' = {"swaps"}
  /\ SimOrBundle
  /\ UNCHANGED <<simulate, id, price, hash, feeP95, histVars, netVars>>

\* execute_sandwich builds both legs and goes straight to the blockhash.
BuildSandwich ==
  /\ pc = "build" /\ kind = "sandwich"
  /\ ixs' = {"front", "back"}
  /\ Goto("hash")
  /\ UNCHANGED <<simulate, id, price, hash, feeP95, histVars, netVars>>

\* Obligation and reserves are fetched and parsed; the seized mint is known.
FetchObligation(seized) ==
  /\ pc = "fetch"
  /\ ixs' = {seized}
  /\ Goto("exit")
  /\ UNCHANGED <<simulate, id, price, hash, feeP95, histVars, netVars>>

\* A pool with reserves for the seized mint is tracked: adjusted_profit decides.
ExitPool ==
  /\ pc = "exit"
  /\ \/ Goto("liquidate") /\ UNCHANGED <<localVars, vetoed>>
     \/ Return /\ vetoed' = vetoed \cup {id}
  /\ UNCHANGED <<simulate, id, feeP95, checked, netVars>>

\* No tracked pool: nothing to sell, or Jupiter is asked.
NoExitPool ==
  /\ pc = "exit"
  /\ Goto(IF "seize-sol" \in ixs THEN "liquidate" ELSE "jupiter")
  /\ UNCHANGED <<simulate, id, localVars, feeP95, histVars, netVars>>

JupiterRoutes ==
  /\ pc = "jupiter"
  /\ ixs' = ixs \cup {"exit"}
  /\ Goto("liquidate")
  /\ UNCHANGED <<simulate, id, price, hash, feeP95, histVars, netVars>>

\* ctx.liquidate, with the exit leg (if any) after it.
BuildLiquidation ==
  /\ pc = "liquidate"
  /\ SimOrBundle
  /\ UNCHANGED <<simulate, id, localVars, feeP95, histVars, netVars>>

\* simulateTransaction succeeds; a failed one is among Fail.
Simulate ==
  /\ pc = "simulate"
  /\ checked' = checked \cup {id}
  /\ Goto("fee")
  /\ UNCHANGED <<simulate, id, localVars, feeP95, vetoed, netVars>>

\* suggest_priority_fee cannot fail; the capped fee goes to the transaction
\* and to the risk engine.
SetFee(f) ==
  /\ pc = "fee"
  /\ price' = Min2(f, FeeCap)
  /\ feeP95' = Min2(f, FeeCap)
  /\ ixs' = ixs \cup {"budget"}
  /\ Goto("hash")
  /\ UNCHANGED <<simulate, id, hash, histVars, netVars>>

GetBlockhash ==
  /\ pc = "hash"
  /\ hash' = slot
  /\ Goto("sign")
  /\ UNCHANGED <<simulate, id, ixs, price, feeP95, histVars, netVars>>

\* sign_tx, once per transaction of the bundle (lookup tables are fetched).
Sign ==
  /\ pc = "sign"
  /\ Goto("send")
  /\ UNCHANGED <<simulate, id, localVars, feeP95, histVars, netVars>>

\* The transactions of the bundle; attach_tip puts the tip last.
Payload == IF kind = "sandwich" THEN <<Tx({"front"}), Tx({"back"})>>
                                ELSE <<Tx(ixs)>>

Tip(a) == [id |-> 0, does |-> {a}, price |-> 0, hash |-> hash]

Bundle(a) == Append(Payload, Tip(a))

\* MUTANTS of SpamCopy: the copy is signed again with a blockhash of its own;
\* the last transaction is taken instead of the first.
SpamSignedAgain(b) == [Head(b) EXCEPT !.hash = slot]
SpamLast(b) == b[Len(b)]

\* encode_primary: the very transaction of bundle b, signature included.
SpamCopy(b) == Head(b)

\* MUTANT of SendBundle: retry until the block engine takes the bundle.
SendUntilAccepted(a) ==
  /\ pc = "send"
  /\ UNCHANGED copies
  /\ \/ UNCHANGED bundles /\ Goto("hash") /\ UNCHANGED localVars
     \/ bundles' = bundles \cup {Bundle(a)} /\ Return
  /\ UNCHANGED <<simulate, id, feeP95, histVars, slot, landed>>

\* The spam tasks are spawned, then the bundle is posted once, and execute
\* returns whatever the answer.  Each copy and the bundle may get lost; a
\* bundle whose answer timed out may have arrived.
SendBundle(a) ==
  /\ pc = "send"
  /\ \E reached \in SUBSET SpamEndpoints :
       copies' = copies \cup {[to |-> e, tx |-> SpamCopy(Bundle(a))] : e \in reached}
  /\ bundles' \in {bundles, bundles \cup {Bundle(a)}}
  /\ Return
  /\ UNCHANGED <<simulate, id, feeP95, histVars, slot, landed>>
-----------------------------------------------------------------------------
(* The chain and the block engine (external).                              *)

\* The chain takes a transaction while its blockhash is recent, and never the
\* same one twice.
Acceptable(tx) == slot - tx.hash <= BlockhashLife /\ tx \notin landed

TxsOf(b) == {b[i] : i \in DOMAIN b}

SlotPasses ==
  /\ slot < MaxSlot
  /\ slot' = slot + 1
  /\ UNCHANGED <<simulate, pc, kind, id, localVars, feeP95, histVars, bundles,
                 copies, landed>>

\* A bundle lands as a whole.
BundleLands(b) ==
  /\ \A tx \in TxsOf(b) : Acceptable(tx)
  /\ landed' = landed \cup TxsOf(b)
  /\ bundles' = bundles \ {b}
  /\ UNCHANGED <<simulate, pc, kind, id, localVars, feeP95, histVars, slot,
                 copies>>

CopyLands(c) ==
  /\ Acceptable(c.tx)
  /\ landed' = landed \cup {c.tx}
  /\ copies' = copies \ {c}
  /\ UNCHANGED <<simulate, pc, kind, id, localVars, feeP95, histVars, slot,
                 bundles>>

\* What can land no more, or loses its auction, is dropped.
Drop ==
  /\ \/ \E b \in bundles : bundles' = bundles \ {b} /\ UNCHANGED copies
     \/ \E c \in copies : copies' = copies \ {c} /\ UNCHANGED bundles
  /\ UNCHANGED <<simulate, pc, kind, id, localVars, feeP95, histVars, slot,
                 landed>>
-----------------------------------------------------------------------------
Build == BuildArb \/ BuildSandwich \/ BuildLiquidation

ExecStep ==
  \/ Fail
  \/ Build
  \/ \E seized \in {"seize-sol", "seize-token"} : FetchObligation(seized)
  \/ ExitPool \/ NoExitPool
  \/ Simulate
  \/ \E f \in Fees : SetFee(f)
  \/ GetBlockhash \/ Sign
  \/ \E a \in TipAccounts : SendBundle(a)

Network ==
  \/ SlotPasses
  \/ \E b \in bundles : BundleLands(b)
  \/ \E c \in copies : CopyLands(c)
  \/ Drop

Next == (\E k \in Kinds : Start(k)) \/ ExecStep \/ JupiterRoutes \/ Network

\* The RPC and Jito clients time out, so each of these steps ends; the client
\* for Jupiter has no timeout.
Fairness == WF_vars(pc # "jupiter" /\ ExecStep)

Safety == Init /\ [][Next]_vars
Spec == Safety /\ Fairness
-----------------------------------------------------------------------------
(* Properties.                                                             *)

TxType == [id : 0 .. MaxSignals, does : SUBSET (Actions \cup TipAccounts),
           price : 0 .. FeeCap, hash : 0 .. MaxSlot]

TypeOK ==
  /\ simulate \in BOOLEAN
  /\ pc \in {"idle", "build", "fetch", "exit", "jupiter", "liquidate",
             "simulate", "fee", "hash", "sign", "send"}
  /\ kind \in Kinds \cup {"none"}
  /\ id \in 0 .. MaxSignals
  /\ ixs \subseteq Actions
  /\ price \in 0 .. FeeCap
  /\ hash \in 0 .. MaxSlot
  /\ feeP95 \in 0 .. FeeCap \cup {FeeInit}
  /\ checked \subseteq 1 .. MaxSignals /\ vetoed \subseteq 1 .. MaxSignals
  /\ slot \in 0 .. MaxSlot
  /\ \A b \in bundles : TxsOf(b) \subseteq TxType
  /\ copies \subseteq [to : SpamEndpoints, tx : TxType]
  /\ landed \subseteq TxType

\* The transactions that carry out a signal of one transaction.
Trades(t) == t.does \cap {"swaps", "seize-sol", "seize-token"} # {}

IsTip(t) == t.id = 0

\* Everything the executor has let out of its hands.
Sent == (UNION {TxsOf(b) : b \in bundles}) \cup {c.tx : c \in copies} \cup landed

\* A signal is carried out at most once, although its transaction travels by
\* several roads, a timed-out submission may still land, and execute reports
\* an error for it: the copies are the bundle's own transaction, and nothing
\* is signed again.  (jito.rs, encode_primary and "no retries".)
AtMostOnce ==
  \A t, u \in landed :
    ~IsTip(t) /\ t.id = u.id /\ t.does = u.does => t = u

\* No tip is paid for a submission that did not land through its bundle: the
\* chain never holds more tips than signals carried out, blockhash by blockhash,
\* however many copies and bundles are under way.  "The tip ix is jito-only"
\* (jito.rs:79-85).
TipBuysTheBundle ==
  \A h \in 0 .. MaxSlot :
    LET ofHash == {t \in landed : t.hash = h}
    IN  Cardinality({t \in ofHash : IsTip(t)})
          <= Cardinality({t.id : t \in {u \in ofHash : ~IsTip(u)}})

\* Whatever happens in between, nothing of a vetoed signal is ever sent, and
\* when simulate_before_send is on, nothing that trades without the preflight
\* of that very signal -- except sandwiches, which have none.
SentIsVetted ==
  \A t \in Sent :
    /\ t.id \notin vetoed
    /\ simulate /\ Trades(t) => t.id \in checked

\* execute returns: only an unanswered Jupiter request can keep the executor
\* from its next signal.
ExecuteReturns == (pc # "idle") ~> (pc \in {"idle", "jupiter"})

\* "Bundles land atomically or not at all" (README:10): a front leg is on the
\* chain only together with its back leg.
SandwichAtomic ==
  \A t \in landed : "front" \in t.does =>
    \E u \in landed : u.id = t.id /\ "back" \in u.does

\* "exit leg tacked onto the same transaction ... no window where we're holding
\* an asset we didn't mean to hold" (executor.rs:294-296): a liquidation that
\* seizes a token sells it in the same transaction.
ExitLegIncluded ==
  \A t \in landed : "seize-token" \in t.does => "exit" \in t.does
=============================================================================
