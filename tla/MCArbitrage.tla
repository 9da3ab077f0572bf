---------------------------- MODULE MCArbitrage -----------------------------
(* Arbitrage on every graph of three pools over three mints.               *)
EXTENDS Arbitrage

CONSTANTS sol, usdc, bonk

MCMints == {sol, usdc, bonk}
MCWeights == -1 .. 1
=============================================================================
