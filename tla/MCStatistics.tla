------------------------------ MODULE MCStatistics ------------------------------
(***************************************************************************)
(* Instances of Statistics for TLC.                                        *)
(***************************************************************************)
EXTENDS Statistics, TLC

CONSTANTS d1, d2, p1, p2

\* d2 is restaked to both providers.
OneAndBoth == d1 :> {p1} @@ d2 :> {p1, p2}

================================================================================
