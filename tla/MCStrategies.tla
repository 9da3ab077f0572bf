---------------------------- MODULE MCStrategies ----------------------------
EXTENDS Strategies

Cp(a, b, fee) == [kind |-> "cp", a |-> a, b |-> b, fee |-> fee]
Clmm(sp, liq, fee) == [kind |-> "clmm", sp |-> sp, liq |-> liq, fee |-> fee]

\* Even and lopsided reserves, fees of 0 and 1%; the last pool's reserve times
\* MAX_POOL_IMPACT wraps.
MCTradedPools ==
  {Cp(100, 100, 1), Cp(400, 400, 0), Cp(800, 800, 0), Cp(800, 640, 1), Cp(400, 800, 0),
   Cp(400, 60, 1), Cp(1400, 40, 0)}

\* Victims on both sides of the size filter; 78 is past the 16 bits of the impact
\* on a reserve of 60, and 90 past the 64 of the product.
MCVictims ==
  [aToB : BOOLEAN, in : {2, 4, 12, 20, 40, 70, 78, 90},
   min : {0, 1, 2, 3, 10, 11, 15, 18, 28, 31, 33, 35, 37}]

MCSigmas == {0, 2, 8}

Hop(p, aToB) == [pool |-> p, aToB |-> aToB]

MCHops ==
  {Hop(p, d) : p \in {Cp(300, 300, 0), Cp(300, 320, 1), Cp(90, 400, 1), Cp(400, 90, 0)},
               d \in BOOLEAN}
  \cup {Hop(p, d) : p \in {Clmm(8192, 4000, 0), Clmm(8192, 900, 1), Clmm(9000, 4000, 1),
                           Clmm(90, 4000, 0)},
                    d \in BOOLEAN}

\* Two hops over different pools, and some of three.  The last two end at a
\* concentrated pool that one coin moves from b to a by just the cap, and by
\* almost twice as much.
MCRoutes ==
  {r \in MCHops \X MCHops : r[1].pool # r[2].pool}
  \cup {<<Hop(Cp(300, 300, 0), TRUE), Hop(p, d), Hop(Cp(90, 400, 1), TRUE)>> :
          p \in {Cp(300, 320, 1), Clmm(9000, 4000, 1)}, d \in BOOLEAN}
  \cup {<<Hop(Cp(17, 2, 0), TRUE), Hop(Clmm(1520, 90, 0), FALSE)>>,
        <<Hop(Cp(62, 2, 0), TRUE), Hop(Clmm(900, 90, 0), FALSE)>>}

MCAccounts ==
  {acc \in [protocol : {"solend", "kamino"}, coll : {0, 40, 93, 1000},
            borrow : {0, 39, 40, 79, 800, 1000}, unhealthy : {0, 37, 79, 850},
            reserves : {TRUE}] :
     /\ acc.unhealthy <= acc.coll
     /\ acc.protocol = "kamino" => acc.unhealthy = 0}
  \cup [protocol : {"solend"}, coll : {7000}, borrow : {3200, 6000}, unhealthy : {3100},
        reserves : {TRUE}]
  \cup {[protocol |-> "solend", coll |-> 40, borrow |-> 40, unhealthy |-> 37,
         reserves |-> FALSE]}
=============================================================================
