------------------------------ MODULE MCGossip ------------------------------
(* Three small clusters for TLC.                                             *)
EXTENDS Gossip, TLC

CONSTANTS a, b, c

\* Two nodes that follow each other.
Pair == [members |-> {a, c}, followed |-> {a, c},
         links |-> <<a, c>> :> 1 @@ <<c, a>> :> 1]

\* One that follows another, and sends before its last send has ended.
Duo == [members |-> {a, c}, followed |-> {c},
        links |-> <<a, c>> :> 2 @@ <<c, a>> :> 1]

\* Two that tell each other of a third; only one of them hears it itself.
Trio == [members |-> {a, b, c}, followed |-> {c},
         links |-> <<c, a>> :> 1 @@ <<a, b>> :> 1 @@ <<b, a>> :> 1]

Instances == {Pair, Duo, Trio}
=============================================================================
