------------------------------ MODULE MCLogger ------------------------------
(***************************************************************************)
(* LoggerAdapter with its bounds: the asynchronous regime has one          *)
(* dispatcher and so fewer interleavings, which leaves room for the longer *)
(* waits that the fairness of the scan is about.                           *)
(***************************************************************************)
EXTENDS LoggerAdapter

Totals == [r \in Regimes |-> IF r = "async" THEN 5 ELSE 3]
=============================================================================
