---------------------------- MODULE MCPaperGateway ---------------------------
(* PaperGateway for TLC. *)
EXTENDS PaperGateway

\* A fill whose commission decides whether one more can be paid for.
MCQuotes == {[price |-> 1, commission |-> 1]}
\* Which handler serves a request makes no difference.
Symmetry == Permutations(Handlers)
==============================================================================
