----------------------------- MODULE MCTrading -----------------------------
(* An instance of the trading bot's managers for TLC.                      *)
EXTENDS TradingProperties, TLC

CONSTANTS f1, f2, j1, j2

\* Followers are alike, and so are jobs.
Symmetric == Permutations(Followers) \union Permutations(Jobs)

MCSpreads == {2}
MCMidpoints == {-100, 5, 300, 350}
MCStrikes == {300}
MCClients == 1..6
=============================================================================
