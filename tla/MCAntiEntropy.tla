--------------------------- MODULE MCAntiEntropy ---------------------------
(* Two replicas for TLC: one key, in the first of two buckets.               *)
EXTENDS AntiEntropy

CONSTANTS a, b, k1, p1, p2, r1, r2

Order == <<k1>>
Keys == [p \in Put |-> k1]
Buckets == [k \in Key |-> 0]
Homes == [r \in Round |-> IF r = r1 THEN a ELSE b]

\* The nodes are alike, so let the first write be sent to a.
Sent == [p \in Put |-> IF p = p1 THEN {a} ELSE {a, b}]

Hinted == {<<p2, b>>}

\* Two replicas of four keys, each key missing or with one of two payloads.
FourKeys == <<1, 2, 3, 4>>
=============================================================================
