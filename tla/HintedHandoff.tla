--------------------------- MODULE HintedHandoff ---------------------------
(* The hints one node keeps for one unavailable target (Hints[target]) and   *)
(* the goroutines that deliver them: the ticker that runs processHints, one  *)
(* round at a time, and the forceReconnectHints that gossip starts whenever  *)
(* the target comes back (node.go).  Every delivery is a copy of the list,   *)
(* worked through without the lock; the list is edited afterwards, by key.   *)
(*                                                                           *)
(* Deliveries are forced writes: the target stores what arrives.  The plain  *)
(* writes with which forceReconnectHints ends touch no hint and are left     *)
(* out.  The hints are in memory only: a restart of the node loses them.     *)
EXTENDS Lists, SequencesExt

CONSTANTS
  Key,
  Hint,               \* the hinted writes
  KeyOf,              \* the key each is for
  Reconnect,          \* bound: the runs of forceReconnectHints
  hintStorageLimit,
  MaxAttempts         \* attempts to deliver one hint

ASSUME KeyOfType == KeyOf \in [Hint -> Key]
ASSUME LimitIsPositive == hintStorageLimit \in Nat \ {0}
ASSUME AttemptsArePositive == MaxAttempts \in Nat \ {0}

Ticker == "ticker"
Worker == {Ticker} \cup Reconnect

ASSUME TickerIsNoReconnect == Ticker \notin Reconnect

VARIABLES
  hints,      \* Hints[target]
  available,  \* isNodeAvailable(target)
  reachable,  \* requests reach the target and are answered in time
  pc,         \* "idle", "deliver", "remove" or "over", for each goroutine
  batch,      \* what is left of its copy of the list
  tries,      \* attempts made for the first hint of the batch
  done,       \* the ticker's successfulHints: keys
  late,       \* requests given up by their sender that may still be executed
  stored,     \* history: hints that were stored
  rotated,    \* history: hints the full buffer pushed out
  lost,       \* history: hints in the buffer when the node restarted
  executed    \* history: hints the target has stored

vars == <<hints, available, reachable, pc, batch, tries, done, late,
          stored, rotated, lost, executed>>
workers == <<pc, batch, tries, done>>
network == <<available, reachable>>

TypeOK ==
  /\ hints \in Seq(Hint) /\ Len(hints) <= hintStorageLimit
  /\ available \in BOOLEAN /\ reachable \in BOOLEAN
  /\ pc \in [Worker -> {"idle", "deliver", "remove", "over"}]
  /\ batch \in [Worker -> Seq(Hint)]
  /\ tries \in [Worker -> 0..(MaxAttempts - 1)]
  /\ done \subseteq Key
  /\ late \subseteq Hint
  /\ stored \subseteq Hint /\ rotated \cup lost \subseteq stored
  /\ executed \subseteq stored

Init ==
  /\ hints = << >>
  /\ available = TRUE /\ reachable = TRUE
  /\ pc = [w \in Worker |-> "idle"]
  /\ batch = [w \in Worker |-> << >>]
  /\ tries = [w \in Worker |-> 0]
  /\ done = {} /\ late = {}
  /\ stored = {} /\ rotated = {} /\ lost = {} /\ executed = {}

\* The target comes and goes, and gossip notices or not.
NetworkChanges ==
  /\ \/ available' = ~available /\ UNCHANGED reachable
     \/ reachable' = ~reachable /\ UNCHANGED available
  /\ UNCHANGED <<hints, workers, late, stored, rotated, lost, executed>>

\* Mutant: the buffer has no limit.
storeHintUnbounded(h) ==
  /\ h \notin stored
  /\ stored' = stored \cup {h}
  /\ hints' = Append(hints, h)
  /\ UNCHANGED <<network, workers, late, rotated, lost, executed>>

\* A full buffer loses its oldest entry.
storeHint(h) ==
  /\ h \notin stored
  /\ stored' = stored \cup {h}
  /\ \/ /\ Len(hints) < hintStorageLimit
        /\ hints' = Append(hints, h)
        /\ UNCHANGED rotated
     \/ /\ Len(hints) >= hintStorageLimit
        /\ hints' = Append(Tail(hints), h)
        /\ rotated' = rotated \cup {Head(hints)}
  /\ UNCHANGED <<network, workers, late, lost, executed>>

\* The copy, taken under the lock; the ticker takes it only of a target that
\* is available, gossip's goroutine of any.
CopyHints(w) ==
  /\ pc[w] = "idle" /\ hints # << >>
  /\ w = Ticker => available
  /\ pc' = [pc EXCEPT ![w] = "deliver"]
  /\ batch' = [batch EXCEPT ![w] = hints]
  /\ UNCHANGED <<hints, network, tries, done, late, stored, rotated, lost,
                 executed>>

\* The target stores the hint.
Execute(h) == executed' = executed \cup {h}

NextOfBatch(w) ==
  /\ batch' = [batch EXCEPT ![w] = Tail(@)]
  /\ tries' = [tries EXCEPT ![w] = 0]

\* deliverHint succeeds.  The ticker notes the key and goes on;
\* forceReconnectHints goes to remove the hint.
HintDelivered(w) ==
  LET h == Head(batch[w]) IN
  /\ pc[w] = "deliver" /\ batch[w] # << >>
  /\ reachable
  /\ Execute(h)
  /\ \/ /\ w = Ticker
        /\ done' = done \cup {KeyOf[h]}
        /\ NextOfBatch(w)
        /\ UNCHANGED pc
     \/ /\ w # Ticker
        /\ pc' = [pc EXCEPT ![w] = "remove"]
        /\ UNCHANGED <<batch, tries, done>>
  /\ UNCHANGED <<hints, network, late, stored, rotated, lost>>

\* An attempt fails, though its request may still arrive; after the last one
\* the hint stays for another round.
AttemptFails(w) ==
  /\ pc[w] = "deliver" /\ batch[w] # << >>
  /\ ~reachable
  /\ late' = late \cup {Head(batch[w])}
  /\ \/ /\ tries[w] + 1 < MaxAttempts
        /\ tries' = [tries EXCEPT ![w] = @ + 1]
        /\ UNCHANGED batch
     \/ /\ tries[w] + 1 = MaxAttempts
        /\ NextOfBatch(w)
  /\ UNCHANGED <<hints, network, pc, done, stored, rotated, lost, executed>>

LateRequest(h) ==
  /\ h \in late
  /\ late' = late \ {h}
  /\ Execute(h)
  /\ UNCHANGED <<hints, network, workers, stored, rotated, lost>>

\* Mutant: the ticker clears the list once anything was delivered.
ClearedBuffer(keys) == << >>

\* The end of a round of processHints: every hint of a delivered key goes.
WithoutKeys(keys) ==
  EntriesAt(hints, {i \in DOMAIN hints : KeyOf[hints[i]] \notin keys})

\* Mutant: a round that delivered nothing ends the worker.
TickerGivesUp ==
  /\ pc[Ticker] = "deliver" /\ batch[Ticker] = << >>
  /\ pc' = [pc EXCEPT ![Ticker] = IF done = {} THEN "over" ELSE "idle"]
  /\ hints' = WithoutKeys(done)
  /\ done' = {}
  /\ UNCHANGED <<network, batch, tries, late, stored, rotated, lost, executed>>

TickerEndsRound ==
  /\ pc[Ticker] = "deliver" /\ batch[Ticker] = << >>
  /\ pc' = [pc EXCEPT ![Ticker] = "idle"]
  /\ hints' = WithoutKeys(done)
  /\ done' = {}
  /\ UNCHANGED <<network, batch, tries, late, stored, rotated, lost, executed>>

\* Mutant: the last hint is copied into the gap and not taken off the end.
WithoutFirstUncut(k) ==
  LET at == {i \in DOMAIN hints : KeyOf[hints[i]] = k}
      i  == CHOOSE i \in at : \A j \in at : i <= j
  IN  IF at = {} THEN hints ELSE [hints EXCEPT ![i] = Last(hints)]

\* The first hint of the key is overwritten with the last of the list.
WithoutFirst(k) ==
  LET at == {i \in DOMAIN hints : KeyOf[hints[i]] = k}
      i  == CHOOSE i \in at : \A j \in at : i <= j
  IN  IF at = {} THEN hints
      ELSE Front([hints EXCEPT ![i] = Last(hints)])

ReconnectRemoves(w) ==
  /\ pc[w] = "remove"
  /\ hints' = WithoutFirst(KeyOf[Head(batch[w])])
  /\ NextOfBatch(w)
  /\ pc' = [pc EXCEPT ![w] = "deliver"]
  /\ UNCHANGED <<network, done, late, stored, rotated, lost, executed>>

ReconnectEnds(w) ==
  /\ w # Ticker
  /\ pc[w] = "deliver" /\ batch[w] = << >>
  /\ pc' = [pc EXCEPT ![w] = "over"]
  /\ UNCHANGED <<hints, network, batch, tries, done, late, stored,
                 rotated, lost, executed>>

Delivering == {w \in Worker : pc[w] = "deliver" /\ batch[w] # << >>}

\* The node stops and starts again: NewNode makes an empty buffer, loadData
\* brings the data back and no hints.  Requests that were out may arrive.
Restart ==
  /\ lost' = lost \cup Range(hints)
  /\ hints' = << >>
  /\ \E out \in SUBSET {Head(batch[w]) : w \in Delivering} : late' = late \cup out
  /\ pc' = [w \in Worker |-> IF w = Ticker \/ pc[w] = "idle" THEN "idle" ELSE "over"]
  /\ batch' = [w \in Worker |-> << >>]
  /\ tries' = [w \in Worker |-> 0]
  /\ done' = {}
  /\ UNCHANGED <<network, stored, rotated, executed>>

WorkerStep(w) ==
  \/ CopyHints(w) \/ HintDelivered(w) \/ AttemptFails(w)
  \/ ReconnectRemoves(w) \/ ReconnectEnds(w)
  \/ w = Ticker /\ TickerEndsRound

Next ==
  \/ NetworkChanges
  \/ \E h \in Hint : storeHint(h) \/ LateRequest(h)
  \/ \E w \in Worker : WorkerStep(w)
  \/ Restart

Spec == Init /\ [][Next]_vars

\* The ticker fires every second for ever, and a goroutine that delivers goes
\* on until its list is done.  Nothing is promised about the network.
FairSpec == Spec /\ WF_vars(WorkerStep(Ticker))
                 /\ \A w \in Reconnect : WF_vars(pc[w] # "idle" /\ WorkerStep(w))

-----------------------------------------------------------------------------
InBuffer == Range(hints)

\* A hint leaves the buffer only pushed out by newer ones, in a restart, or
\* after the target has stored some hint for its key.  About the removals by key in
\* processHints and forceReconnectHints, which run on stale copies and beside
\* each other.
RemovedOnlyAfterDelivery ==
  \A h \in stored \ (InBuffer \cup rotated \cup lost) :
    \E e \in executed : KeyOf[e] = KeyOf[h]

\* If the target becomes reachable and gossip says so, for good, the buffer
\* is emptied whatever has been stored in it: hintHandoffWorker comes back to
\* every hint, also to one that reconnecting goroutines have moved.
HintsDrain ==
  <>[](reachable /\ available) => []<>(hints = << >>)

\* No hint stands twice in the buffer, though forceReconnectHints moves the
\* last one into the gap it makes, at a place found by key in a list that the
\* ticker and storeHint have edited meanwhile.
NoHintTwice == \A i, j \in DOMAIN hints : hints[i] = hints[j] => i = j

\* node.go:1077 creates "a new list without the delivered hints": every hint
\* that is gone was delivered.  Fails: a hint stored while the round was under
\* way, for a key that the round delivered an older hint of, goes with it.
RemovedHintWasDelivered ==
  stored \ (InBuffer \cup rotated \cup lost) \subseteq executed
=============================================================================
