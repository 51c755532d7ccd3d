--------------------------- MODULE MCSpreadLadders ---------------------------
(* Small instances of the two ladders for TLC: a behaviour is one execution by *)
(* the executor of the trading bot or by the IBKR client.                      *)
EXTENDS LimitLadder, SpreadChaser

VARIABLE ladder   \* "executor" or "client"

\* Prices, in cents, around the floor: below it, at it and an increment above (a ladder
\* that starts negative climbs towards zero), and a credit that climbs away.
Quotes == {-71, -70, -69, 70}

Step ==
  /\ \/ ladder = "executor" /\ Execute
     \/ ladder = "client" /\ PlaceVerticalSpread
  /\ UNCHANGED ladder

MCInit == Init /\ ladder \in {"executor", "client"}
MCNext == Step \/ (Broker /\ UNCHANGED ladder)
MCSpec == MCInit /\ [][MCNext]_<<vars, ladder>> /\ WF_<<vars, ladder>>(Step)
==============================================================================
