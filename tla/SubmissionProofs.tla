-------------------------- MODULE SubmissionProofs --------------------------
(***************************************************************************)
(* Proofs about Submission for any kinds of signal, endpoints, tip         *)
(* accounts, fees, blockhash life and numbers of signals and slots.        *)
(*                                                                         *)
(* The argument: the executor sends what it built once, on its way out of  *)
(* execute, and everything it lets go of then is in one bundle with one    *)
(* blockhash.  So no other transaction of that signal ever exists, and a   *)
(* bundle that lands brings one tip and the first transaction of its       *)
(* signal.                                                                 *)
(***************************************************************************)
EXTENDS Submission, FiniteSetTheorems, SequenceTheorems, TLAPS

ExecTyped ==
  /\ simulate \in BOOLEAN
  /\ pc \in {"idle", "build", "fetch", "exit", "jupiter", "liquidate",
             "simulate", "fee", "hash", "sign", "send"}
  /\ kind \in Kinds \cup {"none"}
  /\ id \in 0 .. MaxSignals
  /\ pc # "idle" => id # 0
  /\ ixs \in SUBSET Actions
  /\ price \in 0 .. FeeCap
  /\ hash \in 0 .. MaxSlot
  /\ feeP95 \in 0 .. FeeCap \cup {FeeInit}
  /\ slot \in 0 .. MaxSlot
  /\ checked \in SUBSET (1 .. id)
  /\ vetoed \in SUBSET (1 .. id)

\* A signal in work is not vetoed, and past the preflight it was checked.
Vetted ==
  /\ pc # "idle" => id \notin vetoed
  /\ pc = "fee" => id \in checked
  /\ pc \in {"hash", "sign", "send"} /\ simulate => kind = "sandwich" \/ id \in checked

NetTyped ==
  /\ landed \in SUBSET TxType /\ IsFiniteSet(landed)
  /\ copies \in SUBSET [to : SpamEndpoints, tx : TxType]
  /\ \A b \in bundles : TxsOf(b) \in SUBSET TxType /\ IsFiniteSet(TxsOf(b))

\* Nothing of the signal in work has left the executor.
SentBefore ==
  \A t \in Sent : t.id <= id /\ (pc # "idle" /\ t.id # 0 => t.id # id)

\* Two transactions of a signal that do the same are the same.
SentOnce ==
  \A t, u \in Sent : t.id # 0 /\ t.id = u.id /\ t.does = u.does => t = u

\* A bundle is one tip and all that was ever sent of one signal, with one
\* blockhash.
Whole(b) ==
  \E h \in 0 .. MaxSlot, i \in 1 .. MaxSignals, tip \in TxsOf(b) :
    /\ tip.id = 0
    /\ \A t \in TxsOf(b) : t.hash = h /\ (t = tip \/ t.id = i)
    /\ \E t \in TxsOf(b) : t.id = i
    /\ \A t \in Sent : t.id = i => t \in TxsOf(b)

NetWhole ==
  /\ \A b \in bundles : Whole(b)
  /\ \A c \in copies : c.tx.id # 0

SInv ==
  /\ ExecTyped /\ Vetted
  /\ NetTyped /\ SentBefore /\ SentOnce /\ NetWhole
  /\ SentIsVetted /\ TipBuysTheBundle

\* Everything that is under way or landed is a transaction.
LEMMA SentTyped ==
  ASSUME NetTyped
  PROVE  Sent \in SUBSET TxType /\ \A t \in Sent : t.id \in Nat /\ t.hash \in 0 .. MaxSlot
<1>1. \A b \in bundles : TxsOf(b) \in SUBSET TxType
  BY DEF NetTyped
<1>2. \A c \in copies : c.tx \in TxType
  BY DEF NetTyped
<1>3. landed \in SUBSET TxType
  BY DEF NetTyped
<1>4. Sent \in SUBSET TxType
  BY <1>1, <1>2, <1>3 DEF Sent
<1> QED
  BY <1>4, SubmissionAssumption DEF TxType
-----------------------------------------------------------------------------
(* Local steps: nothing leaves the executor, nothing lands.                *)

\* What is under way stays as it was when the executor goes on with its signal,
\* gives it up, vetoes it or takes the next one.
LEMMA LocalKeepsSent ==
  ASSUME SInv, UNCHANGED <<bundles, copies, landed, simulate>>,
         \/ id' = id /\ (pc' # "idle" => pc # "idle")
         \/ id' = id + 1,
         checked \subseteq checked',
         vetoed' = vetoed \/ (pc # "idle" /\ vetoed' = vetoed \cup {id})
  PROVE  /\ NetTyped' /\ SentBefore' /\ SentOnce' /\ NetWhole'
         /\ SentIsVetted' /\ TipBuysTheBundle'
<1>1. Sent' = Sent
  BY DEF Sent, TxsOf
<1>2. NetTyped' /\ SentOnce' /\ NetWhole' /\ TipBuysTheBundle'
  <2>1. NetTyped'
    BY DEF SInv, NetTyped, TxsOf
  <2>2. SentOnce'
    BY <1>1 DEF SInv, SentOnce
  <2>3. ASSUME NEW b \in bundles PROVE Whole(b)'
    BY <1>1 DEF SInv, NetWhole, Whole, TxsOf
  <2>4. TipBuysTheBundle'
    BY DEF SInv, TipBuysTheBundle, IsTip
  <2> QED
    BY <2>1, <2>2, <2>3, <2>4 DEF SInv, NetWhole
<1>3. id \in Nat /\ \A t \in Sent : t.id \in Nat
  BY SentTyped, SubmissionAssumption DEF SInv, ExecTyped
<1>4. SentBefore'
  BY <1>1, <1>3 DEF SInv, SentBefore
<1>5. SentIsVetted'
  <2> SUFFICES ASSUME NEW t \in Sent
               PROVE  t.id \notin vetoed' /\ (simulate /\ Trades(t) => t.id \in checked')
    BY <1>1 DEF SentIsVetted, Trades
  <2>1. t.id \notin vetoed /\ (simulate /\ Trades(t) => t.id \in checked)
    BY DEF SInv, SentIsVetted
  <2>2. pc # "idle" => t.id # id
    BY <1>3 DEF SInv, SentBefore, ExecTyped
  <2> QED
    BY <2>1, <2>2
<1> QED
  BY <1>2, <1>4, <1>5

\* The steps of the executor up to the send.
LEMMA LocalStep ==
  ASSUME SInv,
         \/ \E k \in Kinds : Start(k)
         \/ Fail \/ Build \/ ExitPool \/ NoExitPool \/ JupiterRoutes
         \/ \E seized \in {"seize-sol", "seize-token"} : FetchObligation(seized)
         \/ Simulate \/ (\E f \in Fees : SetFee(f)) \/ GetBlockhash \/ Sign
  PROVE  SInv'
<1> USE DEF SInv
<1>1. ASSUME NEW k \in Kinds, Start(k) PROVE SInv'
  <2>1. id' = id + 1 /\ pc' \in {"fetch", "build"} /\ kind' = k
        /\ UNCHANGED <<simulate, ixs, price, hash, feeP95, checked, vetoed, slot,
                       bundles, copies, landed>>
    BY <1>1 DEF Start, localVars, histVars, netVars
  <2>2. ExecTyped'
    BY <1>1, <2>1, SubmissionAssumption DEF ExecTyped, Start
  <2>3. Vetted'
    BY <2>1 DEF ExecTyped, Vetted
  <2> QED
    BY <2>1, <2>2, <2>3, LocalKeepsSent
<1>2. CASE Fail
  <2>1. pc # "idle" /\ pc' = "idle" /\ kind' = "none" /\ ixs' = {} /\ price' = 0 /\ hash' = 0
        /\ UNCHANGED <<simulate, id, feeP95, checked, vetoed, slot, bundles, copies, landed>>
    BY <1>2 DEF Fail, Return, histVars, netVars
  <2>2. ExecTyped' /\ Vetted'
    BY <2>1, SubmissionAssumption DEF ExecTyped, Vetted
  <2> QED
    BY <2>1, <2>2, LocalKeepsSent
<1>3. CASE Build
  <2>1. pc # "idle" /\ pc' \in {"simulate", "hash"} /\ ixs' \in SUBSET Actions
        /\ (pc' = "hash" /\ simulate => kind = "sandwich")
        /\ UNCHANGED <<simulate, kind, id, price, hash, feeP95, checked, vetoed, slot,
                       bundles, copies, landed>>
    BY <1>3 DEF Build, BuildArb, BuildSandwich, BuildLiquidation, SimOrBundle, Goto,
                localVars, histVars, netVars, ExecTyped, Actions
  <2>2. ExecTyped' /\ Vetted'
    BY <2>1 DEF ExecTyped, Vetted
  <2> QED
    BY <2>1, <2>2, LocalKeepsSent
<1>4. CASE ExitPool
  <2>1. pc # "idle" /\ UNCHANGED <<simulate, id, feeP95, checked, slot, bundles, copies, landed>>
    BY <1>4 DEF ExitPool, netVars
  <2>2. CASE pc' = "liquidate" /\ UNCHANGED <<kind, ixs, price, hash, vetoed>>
    <3>1. ExecTyped' /\ Vetted'
      BY <2>1, <2>2 DEF ExecTyped, Vetted
    <3> QED
      BY <2>1, <2>2, <3>1, LocalKeepsSent
  <2>3. CASE Return /\ vetoed' = vetoed \cup {id}
    <3>1. pc' = "idle" /\ kind' = "none" /\ ixs' = {} /\ price' = 0 /\ hash' = 0
      BY <2>3 DEF Return
    <3>2. ExecTyped' /\ Vetted'
      BY <2>1, <2>3, <3>1, SubmissionAssumption DEF ExecTyped, Vetted
    <3> QED
      BY <2>1, <2>3, <3>1, <3>2, LocalKeepsSent
  <2> QED
    BY <1>4, <2>2, <2>3 DEF ExitPool, Goto, localVars
<1>5. CASE NoExitPool \/ JupiterRoutes \/ Sign
           \/ (\E seized \in {"seize-sol", "seize-token"} : FetchObligation(seized))
  <2>1. /\ pc # "idle" /\ pc' # "idle"
        /\ pc' \in {"exit", "jupiter", "liquidate", "send"} /\ (pc' = "send" => pc = "sign")
        /\ ixs' \in SUBSET Actions
        /\ UNCHANGED <<simulate, kind, id, price, hash, feeP95, checked, vetoed, slot,
                       bundles, copies, landed>>
    BY <1>5 DEF NoExitPool, JupiterRoutes, Sign, FetchObligation, Goto, localVars,
                histVars, netVars, ExecTyped, Actions
  <2>2. ExecTyped' /\ Vetted'
    BY <2>1 DEF ExecTyped, Vetted
  <2> QED
    BY <2>1, <2>2, LocalKeepsSent
<1>6. CASE Simulate
  <2>1. pc # "idle" /\ pc' = "fee" /\ checked' = checked \cup {id}
        /\ UNCHANGED <<simulate, kind, id, ixs, price, hash, feeP95, vetoed, slot,
                       bundles, copies, landed>>
    BY <1>6 DEF Simulate, Goto, localVars, netVars
  <2>2. ExecTyped' /\ Vetted'
    BY <2>1 DEF ExecTyped, Vetted
  <2> QED
    BY <2>1, <2>2, LocalKeepsSent
<1>7. ASSUME NEW f \in Fees, SetFee(f) PROVE SInv'
  <2>1. pc = "fee" /\ pc' = "hash" /\ ixs' = ixs \cup {"budget"}
        /\ price' = Min2(f, FeeCap) /\ feeP95' = Min2(f, FeeCap)
        /\ UNCHANGED <<simulate, kind, id, hash, checked, vetoed, slot,
                       bundles, copies, landed>>
    BY <1>7 DEF SetFee, Goto, histVars, netVars
  <2>2. Min2(f, FeeCap) \in 0 .. FeeCap
    BY SubmissionAssumption DEF Min2
  <2>3. ExecTyped' /\ Vetted'
    BY <2>1, <2>2 DEF ExecTyped, Vetted, Actions
  <2> QED
    BY <2>1, <2>3, LocalKeepsSent
<1>8. CASE GetBlockhash
  <2>1. pc = "hash" /\ pc' = "sign" /\ hash' = slot
        /\ UNCHANGED <<simulate, kind, id, ixs, price, feeP95, checked, vetoed, slot,
                       bundles, copies, landed>>
    BY <1>8 DEF GetBlockhash, Goto, histVars, netVars
  <2>2. ExecTyped' /\ Vetted'
    BY <2>1 DEF ExecTyped, Vetted
  <2> QED
    BY <2>1, <2>2, LocalKeepsSent
<1> QED
  BY <1>1, <1>2, <1>3, <1>4, <1>5, <1>6, <1>7, <1>8
-----------------------------------------------------------------------------
(* The send.                                                               *)

\* The transactions of a bundle to which one is appended.
LEMMA TxsOfAppend ==
  ASSUME NEW S, NEW s \in Seq(S), s # <<>>, NEW e \in S
  PROVE  TxsOf(Append(s, e)) = TxsOf(s) \cup {e} /\ Head(Append(s, e)) = Head(s)
<1> DEFINE b == Append(s, e)
           n == Len(s)
<1>1. /\ b \in Seq(S) /\ Len(b) = n + 1 /\ n \in Nat
      /\ \A i \in 1 .. n : b[i] = s[i]
      /\ b[n + 1] = e
  BY AppendProperties, LenProperties
<1>2. Head(b) = Head(s)
  BY HeadTailAppend
<1> HIDE DEF b
<1>3. DOMAIN b = (1 .. n) \cup {n + 1} /\ DOMAIN s = 1 .. n
  BY <1>1, LenProperties
<1>4. TxsOf(b) = {b[i] : i \in 1 .. n} \cup {b[n + 1]}
  BY <1>3 DEF TxsOf
<1>5. {b[i] : i \in 1 .. n} = TxsOf(s)
  BY <1>1, <1>3 DEF TxsOf
<1> QED
  BY <1>1, <1>2, <1>4, <1>5 DEF b

\* The transactions of payloads of one and of two.
LEMMA TxsOfTuples ==
  ASSUME NEW x, NEW y
  PROVE  /\ TxsOf(<<x>>) = {x} /\ Head(<<x>>) = x
         /\ TxsOf(<<x, y>>) = {x, y} /\ Head(<<x, y>>) = x
<1>1. DOMAIN <<x>> = {1} /\ <<x>>[1] = x
  OBVIOUS
<1>2. DOMAIN <<x, y>> = {1, 2} /\ <<x, y>>[1] = x /\ <<x, y>>[2] = y
  OBVIOUS
<1>3. TxsOf(<<x>>) = {x}
  BY <1>1 DEF TxsOf
<1>4. TxsOf(<<x, y>>) = {x, y}
  BY <1>2 DEF TxsOf
<1> QED
  BY <1>1, <1>2, <1>3, <1>4

\* What a bundle consists of.
LEMMA BundleTxs ==
  ASSUME NEW a
  PROVE  /\ TxsOf(Bundle(a)) = IF kind = "sandwich"
                                 THEN {Tx({"front"}), Tx({"back"}), Tip(a)}
                                 ELSE {Tx(ixs), Tip(a)}
         /\ SpamCopy(Bundle(a)) = IF kind = "sandwich" THEN Tx({"front"}) ELSE Tx(ixs)
<1>1. PICK tip : tip = Tip(a)
  OBVIOUS
<1>2. CASE kind = "sandwich"
  <2>1. PICK f, g : f = Tx({"front"}) /\ g = Tx({"back"})
    OBVIOUS
  <2>2. Payload = <<f, g>>
    BY <1>2, <2>1 DEF Payload
  <2>3. <<f, g>> \in Seq({f, g, tip}) /\ <<f, g>> # <<>> /\ tip \in {f, g, tip}
    OBVIOUS
  <2>4. TxsOf(<<f, g>>) = {f, g} /\ Head(<<f, g>>) = f
    BY TxsOfTuples
  <2>5. Bundle(a) = Append(<<f, g>>, tip)
    BY <1>1, <2>2 DEF Bundle
  <2>6. /\ TxsOf(Append(<<f, g>>, tip)) = TxsOf(<<f, g>>) \cup {tip}
        /\ Head(Append(<<f, g>>, tip)) = Head(<<f, g>>)
    BY <2>3, TxsOfAppend
  <2>7. TxsOf(Bundle(a)) = {f, g} \cup {tip} /\ Head(Bundle(a)) = f
    BY <2>4, <2>5, <2>6
  <2> QED
    BY <1>1, <1>2, <2>1, <2>7 DEF SpamCopy
<1>3. CASE kind # "sandwich"
  <2>1. PICK f : f = Tx(ixs)
    OBVIOUS
  <2>2. Payload = <<f>>
    BY <1>3, <2>1 DEF Payload
  <2>3. <<f>> \in Seq({f, tip}) /\ <<f>> # <<>> /\ tip \in {f, tip}
    OBVIOUS
  <2>4. TxsOf(<<f>>) = {f} /\ Head(<<f>>) = f
    BY TxsOfTuples
  <2>5. Bundle(a) = Append(<<f>>, tip)
    BY <1>1, <2>2 DEF Bundle
  <2>6. /\ TxsOf(Append(<<f>>, tip)) = TxsOf(<<f>>) \cup {tip}
        /\ Head(Append(<<f>>, tip)) = Head(<<f>>)
    BY <2>3, TxsOfAppend
  <2>7. TxsOf(Bundle(a)) = {f} \cup {tip} /\ Head(Bundle(a)) = f
    BY <2>4, <2>5, <2>6
  <2> QED
    BY <1>1, <1>3, <2>1, <2>7 DEF SpamCopy
<1> QED
  BY <1>2, <1>3

\* A new bundle: its tip, and one transaction at least of the signal in work.
LEMMA BundleParts ==
  ASSUME SInv, NEW a \in TipAccounts, pc = "send"
  PROVE  /\ TxsOf(Bundle(a)) \in SUBSET TxType /\ IsFiniteSet(TxsOf(Bundle(a)))
         /\ Tip(a) \in TxsOf(Bundle(a)) /\ Tip(a).id = 0
         /\ \A t \in TxsOf(Bundle(a)) : t.hash = hash /\ (t = Tip(a) \/ t.id = id)
         /\ \A t, u \in TxsOf(Bundle(a)) : t.id # 0 /\ t.id = u.id /\ t.does = u.does => t = u
         /\ \A t \in TxsOf(Bundle(a)) : simulate /\ Trades(t) => t.id \in checked
         /\ SpamCopy(Bundle(a)) \in TxsOf(Bundle(a)) /\ SpamCopy(Bundle(a)).id = id
         /\ id \in 1 .. MaxSignals
<1>1. id \in 1 .. MaxSignals /\ ixs \in SUBSET Actions /\ price \in 0 .. FeeCap
      /\ hash \in 0 .. MaxSlot
  BY SubmissionAssumption DEF SInv, ExecTyped
<1>2. Tip(a) = [id |-> 0, does |-> {a}, price |-> 0, hash |-> hash] /\ Tip(a) \in TxType
  BY <1>1, SubmissionAssumption DEF Tip, TxType
<1>3. ASSUME NEW acts \in SUBSET Actions
      PROVE  Tx(acts) = [id |-> id, does |-> acts, price |-> price, hash |-> hash]
             /\ Tx(acts) \in TxType
  BY <1>1 DEF Tx, TxType
<1>4. ~Trades(Tip(a))
  BY <1>2, SubmissionAssumption DEF Trades, Actions
<1>5. CASE kind = "sandwich"
  <2>1. {"front"} \in SUBSET Actions /\ {"back"} \in SUBSET Actions
    BY DEF Actions
  <2> DEFINE f == Tx({"front"})
             g == Tx({"back"})
  <2>2. /\ f = [id |-> id, does |-> {"front"}, price |-> price, hash |-> hash] /\ f \in TxType
        /\ g = [id |-> id, does |-> {"back"}, price |-> price, hash |-> hash] /\ g \in TxType
    BY <1>3, <2>1
  <2>3. TxsOf(Bundle(a)) = {f, g, Tip(a)} /\ SpamCopy(Bundle(a)) = f
    BY <1>5, BundleTxs
  <2> HIDE DEF f, g
  <2>4. IsFiniteSet({f, g, Tip(a)})
    <3>1. IsFiniteSet(({f} \cup {g}) \cup {Tip(a)})
      BY FS_Singleton, FS_AddElement
    <3>2. {f, g, Tip(a)} = ({f} \cup {g}) \cup {Tip(a)}
      OBVIOUS
    <3> QED
      BY <3>1, <3>2
  <2>5. ~Trades(f) /\ ~Trades(g)
    BY <2>2 DEF Trades
  <2> QED
    BY <1>1, <1>2, <1>4, <2>2, <2>3, <2>4, <2>5
<1>6. CASE kind # "sandwich"
  <2> DEFINE f == Tx(ixs)
  <2>1. f = [id |-> id, does |-> ixs, price |-> price, hash |-> hash] /\ f \in TxType
    BY <1>1, <1>3
  <2>2. TxsOf(Bundle(a)) = {f, Tip(a)} /\ SpamCopy(Bundle(a)) = f
    BY <1>6, BundleTxs
  <2> HIDE DEF f
  <2>3. IsFiniteSet({f, Tip(a)})
    <3>1. IsFiniteSet({f} \cup {Tip(a)})
      BY FS_Singleton, FS_AddElement
    <3>2. {f, Tip(a)} = {f} \cup {Tip(a)}
      OBVIOUS
    <3> QED
      BY <3>1, <3>2
  <2>4. simulate => id \in checked
    BY <1>6 DEF SInv, Vetted
  <2> QED
    BY <1>1, <1>2, <1>4, <2>1, <2>2, <2>3, <2>4
<1> QED
  BY <1>5, <1>6

\* What is sent is new: the bundle and its raw copies carry a signal not sent before.
LEMMA SendStep ==
  ASSUME SInv, NEW a \in TipAccounts, SendBundle(a)
  PROVE  SInv'
<1>0. PICK new : new = Bundle(a)
  OBVIOUS
<1> DEFINE B == TxsOf(new)
<1>1. /\ pc = "send" /\ pc' = "idle" /\ kind' = "none" /\ ixs' = {} /\ price' = 0 /\ hash' = 0
      /\ UNCHANGED <<simulate, id, feeP95, checked, vetoed, slot, landed>>
      /\ \A c \in copies' : c \in copies \/ (c.tx = SpamCopy(new) /\ c.to \in SpamEndpoints
                                             /\ c = [to |-> c.to, tx |-> c.tx])
      /\ \A b \in bundles' : b \in bundles \/ b = new
  BY <1>0 DEF SendBundle, Return, histVars
<1>2. /\ B \in SUBSET TxType /\ IsFiniteSet(B)
      /\ Tip(a) \in B /\ Tip(a).id = 0
      /\ \A t \in B : t.hash = hash /\ (t = Tip(a) \/ t.id = id)
      /\ \A t, u \in B : t.id # 0 /\ t.id = u.id /\ t.does = u.does => t = u
      /\ \A t \in B : simulate /\ Trades(t) => t.id \in checked
      /\ SpamCopy(new) \in B /\ SpamCopy(new).id = id
      /\ id \in 1 .. MaxSignals
  BY <1>0, <1>1, BundleParts
<1>3. ExecTyped' /\ Vetted'
  BY <1>1, SubmissionAssumption DEF SInv, ExecTyped, Vetted
<1>4. Sent' \subseteq Sent \cup B
  <2>1. \A b \in bundles' : TxsOf(b) \subseteq Sent \cup B
    BY <1>1 DEF Sent
  <2>2. \A c \in copies' : c.tx \in Sent \cup B
    BY <1>1, <1>2 DEF Sent
  <2>3. landed' \subseteq Sent
    BY <1>1 DEF Sent
  <2> QED
    BY <2>1, <2>2, <2>3 DEF Sent, TxsOf
<1>5. \A t \in Sent : t.id # id /\ t.id <= id /\ t.id \in Nat
  BY <1>1, <1>2, SentTyped DEF SInv, SentBefore
<1>6. NetTyped'
  <2>1. \A c \in copies' : c \in [to : SpamEndpoints, tx : TxType]
    BY <1>1, <1>2 DEF SInv, NetTyped
  <2>2. \A b \in bundles' : TxsOf(b) \in SUBSET TxType /\ IsFiniteSet(TxsOf(b))
    BY <1>1, <1>2 DEF SInv, NetTyped
  <2> QED
    BY <1>1, <2>1, <2>2 DEF SInv, NetTyped, TxsOf
<1>7. SentBefore'
  BY <1>1, <1>2, <1>4, <1>5 DEF SentBefore
<1>8. SentOnce'
  BY <1>2, <1>4, <1>5 DEF SInv, SentOnce
<1>9. SentIsVetted'
  <2>1. id \notin vetoed /\ 0 \notin vetoed
    BY <1>1 DEF SInv, Vetted, ExecTyped
  <2> QED
    BY <1>1, <1>2, <1>4, <2>1 DEF SInv, SentIsVetted, Trades
<1>10. NetWhole'
  <2>1. \A c \in copies' : c.tx.id # 0
    BY <1>1, <1>2 DEF SInv, NetWhole
  <2>2. ASSUME NEW b \in bundles PROVE Whole(b)'
    <3>1. PICK h \in 0 .. MaxSlot, i \in 1 .. MaxSignals, tip \in TxsOf(b) :
            /\ tip.id = 0
            /\ \A t \in TxsOf(b) : t.hash = h /\ (t = tip \/ t.id = i)
            /\ \E t \in TxsOf(b) : t.id = i
            /\ \A t \in Sent : t.id = i => t \in TxsOf(b)
      BY DEF SInv, NetWhole, Whole
    <3>2. i # id
      BY <1>5, <3>1 DEF Sent
    <3>3. \A t \in Sent' : t.id = i => t \in TxsOf(b)
      BY <1>2, <1>4, <3>1, <3>2
    <3> QED
      BY <3>1, <3>3 DEF Whole, TxsOf
  <2>3. Whole(new)'
    <3>1. PICK h \in 0 .. MaxSlot, i \in 1 .. MaxSignals, tip \in B :
            h = hash /\ i = id /\ tip = Tip(a)
      BY <1>2 DEF SInv, ExecTyped
    <3>2. /\ tip.id = 0
          /\ \A t \in B : t.hash = h /\ (t = tip \/ t.id = i)
          /\ \E t \in B : t.id = i
          /\ \A t \in Sent' : t.id = i => t \in B
      BY <1>2, <1>4, <1>5, <3>1
    <3> QED
      BY <3>1, <3>2 DEF Whole, TxsOf
  <2> QED
    BY <1>1, <2>1, <2>2, <2>3 DEF NetWhole
<1>11. TipBuysTheBundle'
  BY <1>1 DEF SInv, TipBuysTheBundle, IsTip
<1> QED
  BY <1>3, <1>6, <1>7, <1>8, <1>9, <1>10, <1>11 DEF SInv
-----------------------------------------------------------------------------
(* The network.                                                            *)

\* Steps of the network bring nothing new: what holds of all that was sent, or
\* of each bundle, goes on holding.
LEMMA NetworkKeepsSent ==
  ASSUME SInv, UNCHANGED <<simulate, pc, kind, id, localVars, feeP95, histVars>>,
         slot' \in 0 .. MaxSlot, Sent' \subseteq Sent,
         bundles' \subseteq bundles, copies' \subseteq copies,
         landed' \in SUBSET TxType, IsFiniteSet(landed')
  PROVE  /\ ExecTyped' /\ Vetted' /\ NetTyped' /\ SentBefore' /\ SentOnce' /\ NetWhole'
         /\ SentIsVetted'
<1>1. UNCHANGED <<simulate, pc, kind, id, ixs, price, hash, feeP95, checked, vetoed>>
  BY DEF localVars, histVars
<1>2. ExecTyped' /\ Vetted'
  BY <1>1 DEF SInv, ExecTyped, Vetted
<1>3. NetTyped'
  BY DEF SInv, NetTyped, TxsOf
<1>4. SentBefore' /\ SentOnce'
  BY <1>1 DEF SInv, SentBefore, SentOnce
<1>5. SentIsVetted'
  BY <1>1 DEF SInv, SentIsVetted, Trades
<1>6. NetWhole'
  <2>1. ASSUME NEW b \in bundles' PROVE Whole(b)'
    <3>1. Whole(b)
      BY <2>1 DEF SInv, NetWhole
    <3> QED
      BY <3>1 DEF Whole, TxsOf
  <2> QED
    BY <2>1 DEF SInv, NetWhole
<1> QED
  BY <1>2, <1>3, <1>4, <1>5, <1>6

\* The tips, and the signals, of one blockhash that have landed.
TipsOf(h)    == {t \in {u \in landed : u.hash = h} : IsTip(t)}
SignalsOf(h) == {t.id : t \in {u \in {v \in landed : v.hash = h} : ~IsTip(u)}}

\* Tips and signals on the chain can be counted.
LEMMA LandedFinite ==
  ASSUME NetTyped, NEW h
  PROVE  /\ IsFiniteSet(TipsOf(h)) /\ Cardinality(TipsOf(h)) \in Nat
         /\ IsFiniteSet(SignalsOf(h)) /\ Cardinality(SignalsOf(h)) \in Nat
<1>1. IsFiniteSet(TipsOf(h))
  <2>1. TipsOf(h) \in SUBSET landed /\ IsFiniteSet(landed)
    BY DEF NetTyped, TipsOf
  <2> QED
    BY <2>1, FS_Subset
<1>2. SignalsOf(h) \in SUBSET (0 .. MaxSignals)
  <2>1. \A t \in landed : t.id \in 0 .. MaxSignals
    BY DEF NetTyped, TxType
  <2> QED
    BY <2>1 DEF SignalsOf
<1>3. IsFiniteSet(0 .. MaxSignals)
  <2>1. 0 \in Int /\ MaxSignals \in Int
    BY SubmissionAssumption
  <2> QED
    BY <2>1, FS_Interval
<1>4. IsFiniteSet(SignalsOf(h))
  BY <1>2, <1>3, FS_Subset
<1> QED
  BY <1>1, <1>4, FS_CardinalityType

\* TipBuysTheBundle, blockhash by blockhash.
LEMMA TipsByHash ==
  TipBuysTheBundle <=>
    \A h \in 0 .. MaxSlot : Cardinality(TipsOf(h)) <= Cardinality(SignalsOf(h))
BY DEF TipBuysTheBundle, TipsOf, SignalsOf

\* A bundle lands: its tip is the first new one, and so is its signal.
LEMMA BundleStep ==
  ASSUME SInv, NEW b \in bundles, BundleLands(b)
  PROVE  SInv'
<1>1. /\ UNCHANGED <<simulate, pc, kind, id, localVars, feeP95, histVars, slot, copies>>
      /\ landed' = landed \cup TxsOf(b) /\ bundles' = bundles \ {b}
      /\ \A t \in TxsOf(b) : t \notin landed
  BY DEF BundleLands, Acceptable
<1>2. TxsOf(b) \in SUBSET TxType /\ IsFiniteSet(TxsOf(b)) /\ TxsOf(b) \subseteq Sent
  BY DEF SInv, NetTyped, Sent
<1>3. landed' \in SUBSET TxType /\ IsFiniteSet(landed')
  BY <1>1, <1>2, FS_Union DEF SInv, NetTyped
<1>4. Sent' \subseteq Sent
  <2>1. landed' \subseteq Sent
    BY <1>1, <1>2 DEF Sent
  <2> QED
    BY <1>1, <2>1 DEF Sent, TxsOf
<1>5. PICK h \in 0 .. MaxSlot, i \in 1 .. MaxSignals, tip \in TxsOf(b) :
        /\ tip.id = 0
        /\ \A t \in TxsOf(b) : t.hash = h /\ (t = tip \/ t.id = i)
        /\ \E t \in TxsOf(b) : t.id = i
        /\ \A t \in Sent : t.id = i => t \in TxsOf(b)
  BY DEF SInv, NetWhole, Whole
<1>6. \A t \in landed : t.id # i
  BY <1>1, <1>5 DEF Sent
<1>7. TipsOf(h)' = TipsOf(h) \cup {tip} /\ SignalsOf(h)' = SignalsOf(h) \cup {i}
  <2>1. TipsOf(h)' = TipsOf(h) \cup {tip}
    BY <1>1, <1>5 DEF TipsOf, IsTip
  <2>2. SignalsOf(h)' = SignalsOf(h) \cup {i}
    BY <1>1, <1>5 DEF SignalsOf, IsTip
  <2> QED
    BY <2>1, <2>2
<1>8. i \notin SignalsOf(h)
  BY <1>6 DEF SignalsOf
<1>9. Cardinality(TipsOf(h)') <= Cardinality(SignalsOf(h)')
  <2>1. Cardinality(TipsOf(h)) <= Cardinality(SignalsOf(h))
    BY TipsByHash DEF SInv
  <2>2. /\ IsFiniteSet(TipsOf(h)) /\ Cardinality(TipsOf(h)) \in Nat
        /\ IsFiniteSet(SignalsOf(h)) /\ Cardinality(SignalsOf(h)) \in Nat
    BY LandedFinite DEF SInv
  <2>3. Cardinality(TipsOf(h) \cup {tip}) \in {Cardinality(TipsOf(h)), Cardinality(TipsOf(h)) + 1}
    BY <2>2, FS_AddElement
  <2>4. Cardinality(SignalsOf(h) \cup {i}) = Cardinality(SignalsOf(h)) + 1
    BY <1>8, <2>2, FS_AddElement
  <2> QED
    BY <1>7, <2>1, <2>2, <2>3, <2>4
<1>10. ASSUME NEW g \in 0 .. MaxSlot, g # h
       PROVE  TipsOf(g)' = TipsOf(g) /\ SignalsOf(g)' = SignalsOf(g)
  BY <1>1, <1>5, <1>10 DEF TipsOf, SignalsOf
<1>11. TipBuysTheBundle'
  <2>1. \A g \in 0 .. MaxSlot : Cardinality(TipsOf(g)') <= Cardinality(SignalsOf(g)')
    BY <1>9, <1>10, TipsByHash DEF SInv
  <2> QED
    BY <2>1 DEF TipBuysTheBundle, TipsOf, SignalsOf, IsTip
<1> QED
  BY <1>1, <1>3, <1>4, <1>11, NetworkKeepsSent DEF SInv, ExecTyped

\* A raw copy lands: it carries no tip.
LEMMA CopyStep ==
  ASSUME SInv, NEW c \in copies, CopyLands(c)
  PROVE  SInv'
<1>1. /\ UNCHANGED <<simulate, pc, kind, id, localVars, feeP95, histVars, slot, bundles>>
      /\ landed' = landed \cup {c.tx} /\ copies' = copies \ {c}
  BY DEF CopyLands
<1>2. c.tx \in TxType /\ c.tx.id # 0 /\ c.tx \in Sent
  BY DEF SInv, NetTyped, NetWhole, Sent
<1>3. landed' \in SUBSET TxType /\ IsFiniteSet(landed')
  BY <1>1, <1>2, FS_AddElement DEF SInv, NetTyped
<1>4. Sent' \subseteq Sent
  <2>1. landed' \subseteq Sent
    BY <1>1, <1>2 DEF Sent
  <2> QED
    BY <1>1, <2>1 DEF Sent, TxsOf
<1>5. ASSUME NEW h \in 0 .. MaxSlot
      PROVE  Cardinality(TipsOf(h)') <= Cardinality(SignalsOf(h)')
  <2>1. TipsOf(h)' = TipsOf(h)
    BY <1>1, <1>2 DEF TipsOf, IsTip
  <2>2. SignalsOf(h)' = SignalsOf(h) \cup (IF c.tx.hash = h THEN {c.tx.id} ELSE {})
    BY <1>1, <1>2 DEF SignalsOf, IsTip
  <2>3. IsFiniteSet(SignalsOf(h)) /\ Cardinality(SignalsOf(h)) \in Nat
    BY LandedFinite DEF SInv
  <2>4. Cardinality(SignalsOf(h)') \in {Cardinality(SignalsOf(h)), Cardinality(SignalsOf(h)) + 1}
    <3>1. CASE c.tx.hash = h
      <4>1. SignalsOf(h)' = SignalsOf(h) \cup {c.tx.id}
        BY <2>2, <3>1
      <4> QED
        BY <2>3, <4>1, FS_AddElement
    <3>2. CASE c.tx.hash # h
      BY <2>2, <3>2
    <3> QED
      BY <3>1, <3>2
  <2>5. Cardinality(TipsOf(h)) <= Cardinality(SignalsOf(h))
    BY TipsByHash DEF SInv
  <2> QED
    BY <2>1, <2>3, <2>4, <2>5, LandedFinite DEF SInv
<1>6. TipBuysTheBundle'
  BY <1>5 DEF TipBuysTheBundle, TipsOf, SignalsOf, IsTip
<1> QED
  BY <1>1, <1>3, <1>4, <1>6, NetworkKeepsSent DEF SInv, ExecTyped

\* Time passes, or something under way is dropped.
LEMMA LossStep ==
  ASSUME SInv, SlotPasses \/ Drop
  PROVE  SInv'
<1>1. /\ UNCHANGED <<simulate, pc, kind, id, localVars, feeP95, histVars, landed>>
      /\ bundles' \subseteq bundles /\ copies' \subseteq copies
  BY DEF SlotPasses, Drop
<1>2. slot' \in 0 .. MaxSlot
  BY SubmissionAssumption DEF SInv, ExecTyped, SlotPasses, Drop
<1>3. Sent' \subseteq Sent
  BY <1>1 DEF Sent, TxsOf
<1>4. TipBuysTheBundle'
  BY <1>1 DEF SInv, TipBuysTheBundle, IsTip
<1> QED
  BY <1>1, <1>2, <1>3, <1>4, NetworkKeepsSent DEF SInv, NetTyped
-----------------------------------------------------------------------------
(* The inductive invariant, and what it gives.                             *)

\* At the start nothing is sent and nothing has landed.
LEMMA InitSInv ==
  ASSUME Init
  PROVE  SInv
<1>1. Sent = {}
  BY DEF Init, Sent
<1>2. ExecTyped /\ Vetted
  BY SubmissionAssumption DEF Init, ExecTyped, Vetted
<1>3. NetTyped /\ NetWhole
  BY FS_EmptySet DEF Init, NetTyped, NetWhole
<1>4. SentBefore /\ SentOnce /\ SentIsVetted
  BY <1>1 DEF SentBefore, SentOnce, SentIsVetted
<1>5. ASSUME NEW h \in 0 .. MaxSlot PROVE TipsOf(h) = {} /\ SignalsOf(h) = {}
  BY DEF Init, TipsOf, SignalsOf
<1>6. TipBuysTheBundle
  BY <1>5, FS_EmptySet, TipsByHash
<1> QED
  BY <1>2, <1>3, <1>4, <1>6 DEF SInv

\* Every step keeps the invariant.
LEMMA StepSInv ==
  ASSUME SInv, [Next]_vars
  PROVE  SInv'
<1>1. CASE UNCHANGED vars
  <2>1. UNCHANGED <<simulate, pc, kind, id, localVars, feeP95, histVars, netVars>>
    BY <1>1 DEF vars
  <2>2. Sent' = Sent
    BY <2>1 DEF netVars, Sent, TxsOf
  <2>3. TipBuysTheBundle'
    BY <2>1 DEF netVars, SInv, TipBuysTheBundle, IsTip
  <2> QED
    BY <2>1, <2>2, <2>3, NetworkKeepsSent DEF netVars, SInv, NetTyped, ExecTyped
<1>2. CASE Next
  BY <1>2, LocalStep, SendStep, BundleStep, CopyStep, LossStep DEF Next, ExecStep, Network
<1> QED
  BY <1>1, <1>2

\* The inductive invariant.
THEOREM SubmissionInvariant == Safety => []SInv
<1> QED
  BY InitSInv, StepSInv, PTL DEF Safety

\* Type correctness of the executor and of all that is under way.
THEOREM TypeCorrect == Safety => []TypeOK
<1>1. SInv => TypeOK
  <2> SUFFICES ASSUME SInv PROVE TypeOK
    OBVIOUS
  <2>1. checked \subseteq 1 .. MaxSignals /\ vetoed \subseteq 1 .. MaxSignals
    BY SubmissionAssumption DEF SInv, ExecTyped
  <2> QED
    BY <2>1 DEF SInv, ExecTyped, NetTyped, TypeOK
<1> QED
  BY <1>1, SubmissionInvariant, PTL

\* However the copies, bundles and timeouts interleave, a signal is carried out
\* at most once (AtMostOnce).
THEOREM CarriedOutOnce == Safety => []AtMostOnce
<1>1. SInv => AtMostOnce
  BY DEF SInv, SentOnce, Sent, AtMostOnce, IsTip
<1> QED
  BY <1>1, SubmissionInvariant, PTL

\* The chain never holds more tips than signals of one blockhash
\* (TipBuysTheBundle).
THEOREM TipsPayForBundles == Safety => []TipBuysTheBundle
<1>1. SInv => TipBuysTheBundle
  BY DEF SInv
<1> QED
  BY <1>1, SubmissionInvariant, PTL

\* Nothing of a vetoed signal is sent, and nothing that trades without its
\* preflight when that is on (SentIsVetted).
THEOREM OnlyVettedSent == Safety => []SentIsVetted
<1>1. SInv => SentIsVetted
  BY DEF SInv
<1> QED
  BY <1>1, SubmissionInvariant, PTL

\* How far execute still has to go, by the place where it is.
StepsLeft(l) ==
  CASE l = "idle"      -> 0
    [] l = "send"      -> 1
    [] l = "sign"      -> 2
    [] l = "hash"      -> 3
    [] l = "fee"       -> 4
    [] l = "simulate"  -> 5
    [] l = "liquidate" -> 6
    [] l = "build"     -> 6
    [] l = "jupiter"   -> 7
    [] l = "exit"      -> 8
    [] l = "fetch"     -> 9

\* execute never goes back: whatever fails, times out or is refused, each of its
\* steps is followed by a later one or by the return, and no other step moves it
\* (executor.rs, no retries).
THEOREM ExecuteGoesForward ==
  Safety => [][pc # "idle" /\ pc' # pc => StepsLeft(pc') < StepsLeft(pc)]_vars
<1> DEFINE Forward == pc # "idle" /\ pc' # pc => StepsLeft(pc') < StepsLeft(pc)
<1>1. ASSUME [Next]_vars PROVE [Forward]_vars
  <2> SUFFICES ASSUME Next, pc # "idle", pc' # pc
               PROVE  StepsLeft(pc') < StepsLeft(pc)
    BY <1>1
  <2>1. CASE Fail
    BY <2>1 DEF Fail, Return, StepsLeft
  <2>2. CASE Build
    BY <2>2 DEF Build, BuildArb, BuildSandwich, BuildLiquidation, SimOrBundle, Goto, StepsLeft
  <2>3. CASE \E seized \in {"seize-sol", "seize-token"} : FetchObligation(seized)
    BY <2>3 DEF FetchObligation, Goto, StepsLeft
  <2>4. CASE ExitPool \/ NoExitPool \/ JupiterRoutes
    BY <2>4 DEF ExitPool, NoExitPool, JupiterRoutes, Goto, Return, StepsLeft
  <2>5. CASE Simulate \/ (\E f \in Fees : SetFee(f)) \/ GetBlockhash \/ Sign
    BY <2>5 DEF Simulate, SetFee, GetBlockhash, Sign, Goto, StepsLeft
  <2>6. CASE \E a \in TipAccounts : SendBundle(a)
    BY <2>6 DEF SendBundle, Return, StepsLeft
  <2>7. CASE \/ Network \/ \E k \in Kinds : Start(k)
    BY <2>7 DEF Network, SlotPasses, BundleLands, CopyLands, Drop, Start
  <2> QED BY <2>1, <2>2, <2>3, <2>4, <2>5, <2>6, <2>7 DEF Next, ExecStep
<1> QED
  BY <1>1, PTL DEF Safety
=============================================================================
