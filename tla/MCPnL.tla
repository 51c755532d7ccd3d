-------------------------------- MODULE MCPnL --------------------------------
(* Instances of the P&L service and the commission mailer for TLC.          *)
EXTENDS PnLProperties, TLC

CONSTANTS f1, f2, cron, manual

\* The followers are alike, and so are the runs of the mailer.
Symmetric == Permutations(Followers) \union Permutations(Runs)

\* A loss that takes the gain of a day back, and a gain.
MCValues == {-1, 1}
=============================================================================
