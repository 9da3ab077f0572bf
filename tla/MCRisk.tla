------------------------------- MODULE MCRisk -------------------------------
EXTENDS Risk, TLC

CONSTANTS p1, p2, A, B, C

MCTokenA == p1 :> A @@ p2 :> A
MCTokenB == p1 :> B @@ p2 :> C

\* A trades against two quote tokens.  Neither pool ever moves by more than 5%,
\* but what the one says of A is 7 to 12% from what the other says.
MCPrices == p1 :> {0, 5} @@ p2 :> {12}
=============================================================================
