-------------------------- MODULE MCHintedHandoff --------------------------
(* Two hints for one key, one for another, for TLC.                          *)
EXTENDS HintedHandoff, TLC

CONSTANTS h1, h2, h3, k1, k2

Keys == (h1 :> k1) @@ (h2 :> k1) @@ (h3 :> k2)
=============================================================================
