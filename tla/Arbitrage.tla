----------------------------- MODULE Arbitrage ------------------------------
(***************************************************************************)
(* ArbitrageScanner::bellman_ford (src/src/strategies/arbitrage.rs): the   *)
(* search for a negative cycle in the graph of the live pools, and the     *)
(* reconstruction of the route from the predecessor array.                 *)
(*                                                                         *)
(* A weight is an integer standing for -ln(rate); a pool has one for each  *)
(* direction.  The edges sit in a HashMap, so every pass may relax them in *)
(* any order.  The model visits one edge per step and lets each pass pick  *)
(* its own order, which allows every run of the code and more.             *)
(***************************************************************************)
EXTENDS Integers, Sequences, FiniteSets, SequencesExt, FiniteSetsExt

CONSTANTS
  Mints,    \* token mints
  Sol,      \* wrapped SOL, the mint the bot holds
  PoolIds,  \* live pools
  Weights,  \* values of -ln(rate) that occur
  Inf,      \* f64::INFINITY, above every sum of weights
  NoMint    \* None

\* Infinity is above the weight of every route without repeated mints.
ASSUME ArbitrageAssumption ==
  /\ IsFiniteSet(Mints) /\ Sol \in Mints /\ NoMint \notin Mints
  /\ IsFiniteSet(PoolIds)
  /\ Weights \subseteq Int
  /\ Inf \in Int
  /\ \E top \in 0 .. Inf :
       (\A w \in Weights : w <= top) /\ Cardinality(Mints) * top < Inf

\* A pool trades mint a against mint b; fees make a round trip lose.
Pool == {p \in [a : Mints, b : Mints, ab : Weights, ba : Weights] :
           p.a # p.b /\ p.ab + p.ba >= 0}

VARIABLES
  offers,   \* for each pair of mints with an edge, the weights of its edges
  start,    \* the mint whose distance starts at 0
  pc,
  pass,     \* relaxation passes begun
  todo,     \* edges this pass has still to visit
  dist, pred,
  node,     \* the walk back through pred
  steps,    \* steps of the walk or the trace made
  nodes,    \* the cycle, traced backwards
  route     \* the mints of the route returned, <<>> for none

vars == <<offers, start, pc, pass, todo, dist, pred, node, steps, nodes, route>>

Edges == DOMAIN offers

\* The mints that occur in the edges (a pool gives an edge each way).
Used == {e[1] : e \in Edges}

N == Cardinality(Used)

\* MUTANT of Weight: the worst of parallel pools is kept (`>` for `<`).
WorstWeight(e) == Max(offers[e])

\* best_edge: among parallel pools the lowest weight stays.
Weight(e) == Min(offers[e])

\* build_edges: the pools in ps give an edge in each direction.
EdgesOf(ps) ==
  LET W(e) == {ps[i].ab : i \in {j \in DOMAIN ps : <<ps[j].a, ps[j].b>> = e}}
                \cup
              {ps[i].ba : i \in {j \in DOMAIN ps : <<ps[j].b, ps[j].a>> = e}}
  IN  [e \in {x \in Mints \X Mints : W(x) # {}} |-> W(e)]

Init ==
  /\ \E ps \in [PoolIds -> Pool] : offers = EdgesOf(ps)
  /\ start \in IF Sol \in Used THEN {Sol} ELSE Used
  /\ pc = "relax" /\ pass = 1 /\ todo = Edges
  /\ dist = [m \in Used |-> IF m = start THEN 0 ELSE Inf]
  /\ pred = [m \in Used |-> NoMint]
  /\ node = NoMint /\ steps = 0 /\ nodes = <<>> /\ route = <<>>
-----------------------------------------------------------------------------
\* Does edge e offer a shorter way to its target?
Shortens(e) == dist[e[1]] # Inf /\ dist[e[1]] + Weight(e) < dist[e[2]]

\* MUTANT of Passes: one pass too few (0..n - 2).
OnePassLess == N - 2

\* for _ in 0..n.saturating_sub(1)
Passes == N - 1

Relax(e) ==
  /\ pc = "relax"
  /\ e \in todo
  /\ todo' = todo \ {e}
  /\ IF Shortens(e)
       THEN /\ dist' = [dist EXCEPT ![e[2]] = dist[e[1]] + Weight(e)]
            /\ pred' = [pred EXCEPT ![e[2]] = e[1]]
       ELSE UNCHANGED <<dist, pred>>
  /\ UNCHANGED <<offers, start, pc, pass, node, steps, nodes, route>>

EndPass ==
  /\ pc = "relax"
  /\ todo = {}
  /\ IF pass < Passes THEN /\ pass' = pass + 1
                           /\ todo' = Edges
                           /\ UNCHANGED pc
                      ELSE pc' = "nth" /\ UNCHANGED <<pass, todo>>
  /\ UNCHANGED <<offers, start, dist, pred, node, steps, nodes, route>>

\* The nth pass: the first edge found that still relaxes.
NthPass(e) ==
  /\ pc = "nth"
  /\ Shortens(e)
  /\ pred' = [pred EXCEPT ![e[2]] = e[1]]
  /\ node' = e[2]
  /\ pc' = "walk"
  /\ UNCHANGED <<offers, start, pass, todo, dist, steps, nodes, route>>

NothingRelaxes ==
  /\ pc = "nth"
  /\ \A e \in Edges : ~Shortens(e)
  /\ pc' = "none"
  /\ UNCHANGED <<offers, start, pass, todo, dist, pred, node, steps, nodes,
                 route>>

\* A predecessor is missing: vec![] is returned.
GiveUp ==
  /\ pc' = "gaveup"
  /\ UNCHANGED <<node, steps, nodes>>

\* MUTANT of WalkLength: the walk back is left out.
NoWalk == 0

WalkLength == N

\* Walk back n steps, to be inside the cycle.
Walk ==
  /\ pc = "walk"
  /\ IF steps = WalkLength
       THEN pc' = "trace" /\ nodes' = <<node>> /\ steps' = 0 /\ UNCHANGED node
       ELSE IF pred[node] = NoMint THEN GiveUp
       ELSE node' = pred[node] /\ steps' = steps + 1 /\ UNCHANGED <<pc, nodes>>
  /\ UNCHANGED <<offers, start, pass, todo, dist, pred, route>>

\* Follow pred from the head of the cycle until it comes back.
Trace ==
  /\ pc = "trace"
  /\ LET cur == pred[nodes[Len(nodes)]]
     IN  IF cur = NoMint \/ steps > N THEN GiveUp
         ELSE IF cur = nodes[1]
           THEN pc' = "stitch" /\ UNCHANGED <<node, steps, nodes>>
           ELSE /\ nodes' = Append(nodes, cur)
                /\ steps' = steps + 1
                /\ UNCHANGED <<pc, node>>
  /\ UNCHANGED <<offers, start, pass, todo, dist, pred, route>>

\* MUTANT of SwapOrder: the backward order of pred is not reversed.
PredOrder == nodes

\* nodes.reverse()
SwapOrder == Reverse(nodes)

\* The hops of a closed route, back to its first mint included.
Hops(r) == {<<r[i], r[1 + (i % Len(r))]>> : i \in DOMAIN r}

\* cycle_edges.rotate_left(rotate_at)
RotateTo(r, i) == SubSeq(r, i, Len(r)) \o SubSeq(r, 1, i - 1)

\* Put the edges together and rotate the route to start at Sol.
Stitch ==
  /\ pc = "stitch"
  /\ IF ~(Hops(SwapOrder) \subseteq Edges)
       THEN pc' = "gaveup" /\ UNCHANGED route
       ELSE IF Sol \notin Range(SwapOrder)
         THEN pc' = "nosol" /\ UNCHANGED route
         ELSE /\ pc' = "found"
              /\ route' = RotateTo(SwapOrder,
                            CHOOSE i \in DOMAIN nodes : SwapOrder[i] = Sol)
  /\ UNCHANGED <<offers, start, pass, todo, dist, pred, node, steps, nodes>>

Next ==
  \/ \E e \in Edges : Relax(e)
  \/ EndPass
  \/ \E e \in Edges : NthPass(e)
  \/ NothingRelaxes
  \/ Walk
  \/ Trace
  \/ Stitch

Spec == Init /\ [][Next]_vars
-----------------------------------------------------------------------------
(* Reference: the closed routes without repeated mints and their weights.  *)

Cycles ==
  UNION {{c \in [1 .. n -> Used] : IsInjective(c) /\ Hops(c) \subseteq Edges} :
           n \in 2 .. N}

Cost(c) == MapThenSumSet(Weight, Hops(c))

\* The cost of a cycle through the cheapest pool at every hop.
LeastCost(c) == MapThenSumSet(LAMBDA h : Min(offers[h]), Hops(c))

\* Mints that start can be traded into: those in every set of mints that holds
\* start and that no edge leaves.
Reachable ==
  {m \in Used : \A S \in SUBSET Used :
     (start \in S /\ \A e \in Edges : e[1] \in S => e[2] \in S) => m \in S}
-----------------------------------------------------------------------------
(* Properties.                                                             *)

TypeOK ==
  /\ start \in Used
  /\ pc \in {"relax", "nth", "walk", "trace", "stitch",
             "none", "nosol", "gaveup", "found"}
  /\ pass \in 1 .. N
  /\ todo \subseteq Edges
  /\ \A m \in Used : dist[m] \in Int /\ pred[m] \in Used \cup {NoMint}
  /\ node \in Used \cup {NoMint}
  /\ Range(nodes) \subseteq Used /\ Len(nodes) <= N
  /\ pc # "found" => route = <<>>

\* A route that is returned can be traded and is worth it: it is a cycle of
\* live edges that visits no mint twice, starts with the mint the bot holds, and
\* its rates multiply to more than 1 (arbitrage.rs:94-95, 188-193).
RouteIsArbitrage ==
  pc = "found" =>
    /\ route[1] = Sol
    /\ IsInjective(route)
    /\ Hops(route) \subseteq Edges
    /\ Cost(route) < 0

\* "defensive, shouldn't happen" (arbitrage.rs:169): whatever order the edges
\* are relaxed in, the walk through pred ends inside a cycle and the cycle can
\* be stitched; the early returns of the reconstruction are never taken.
NeverGivesUp == pc # "gaveup"

\* No arbitrage is overlooked as a whole: if the scan says there is none, no
\* cycle of any length that start can reach gains anything, through whichever
\* of the parallel pools.
NothingMissed ==
  pc = "none" =>
    \A c \in Cycles : Range(c) \cap Reachable # {} => LeastCost(c) >= 0
=============================================================================
