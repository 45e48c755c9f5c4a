----------------------------- MODULE QuorumStore -----------------------------
(* What a client is promised of one replicated key, without replicas,        *)
(* clocks or messages: a write ends acknowledged or failed, unless its       *)
(* coordinator crashes; a read that got its quorum misses no write that was  *)
(* acknowledged before it began, as long as no stale repair has struck; a    *)
(* read that did not may return what its coordinator has, which may miss     *)
(* anything.  Put, Get and their callers (node.go) are to implement it.      *)

CONSTANTS Put, Get     \* the client's writes and reads

VARIABLES
  write,     \* where each Put stands
  read,      \* where each Get stands
  before,    \* the writes acknowledged when it began
  missing,   \* those of them its answer does not know
  struck     \* a stale repair has overwritten a replica

promised == <<write, read, before, missing, struck>>

Acknowledged == {p \in Put : write[p] = "acked"}

Init ==
  /\ write = [p \in Put |-> "idle"]
  /\ read = [g \in Get |-> "idle"]
  /\ before = [g \in Get |-> {}]
  /\ missing = [g \in Get |-> {}]
  /\ struck = FALSE

WriteGoes(p, from, to) ==
  /\ write[p] = from
  /\ write' = [write EXCEPT ![p] = to]
  /\ UNCHANGED <<read, before, missing, struck>>

BeginWrite(p) == WriteGoes(p, "idle", "running")
EndWrite(p) == WriteGoes(p, "running", "acked") \/ WriteGoes(p, "running", "failed")

BeginRead(g) ==
  /\ read[g] = "idle"
  /\ read' = [read EXCEPT ![g] = "running"]
  /\ before' = [before EXCEPT ![g] = Acknowledged]
  /\ UNCHANGED <<write, missing, struck>>

\* With a quorum, or without; nothing is promised of the latter.
Answer(g) ==
  /\ read[g] = "running"
  /\ \E kind \in {"done", "local"}, m \in SUBSET before[g] :
       /\ kind = "done" /\ ~struck => m = {}
       /\ read' = [read EXCEPT ![g] = kind]
       /\ missing' = [missing EXCEPT ![g] = m]
  /\ UNCHANGED <<write, before, struck>>

FailRead(g) ==
  /\ read[g] = "running"
  /\ read' = [read EXCEPT ![g] = "failed"]
  /\ UNCHANGED <<write, before, missing, struck>>

Strike ==
  /\ struck' = TRUE
  /\ UNCHANGED <<write, read, before, missing>>

\* A coordinator crashes with the requests under way there.
Crash ==
  /\ \E ps \in SUBSET {p \in Put : write[p] = "running"} :
       write' = [p \in Put |-> IF p \in ps THEN "crashed" ELSE write[p]]
  /\ \E gs \in SUBSET {g \in Get : read[g] = "running"} :
       read' = [g \in Get |-> IF g \in gs THEN "crashed" ELSE read[g]]
  /\ UNCHANGED <<before, missing, struck>>

Next ==
  \/ \E p \in Put : BeginWrite(p) \/ EndWrite(p)
  \/ \E g \in Get : BeginRead(g) \/ Answer(g) \/ FailRead(g)
  \/ Strike
  \/ Crash

Spec == Init /\ [][Next]_promised
=============================================================================
