----------------------------- MODULE HintProofs -----------------------------
(* The hints for one target, for any hints, keys, buffer size, number of     *)
(* attempts and of goroutines that reconnect, through restarts.              *)
EXTENDS HintedHandoff, DataTheorems

\* What a goroutine is about to remove, by key, has been delivered.
RemovesDelivered ==
  \A w \in Worker : pc[w] = "remove" =>
    /\ w # Ticker /\ batch[w] # << >>
    /\ \E e \in executed : KeyOf[e] = KeyOf[Head(batch[w])]

\* Only hints that were stored are anywhere, and no more is about to go than
\* was delivered.
HInv ==
  /\ TypeOK
  /\ InBuffer \subseteq stored
  /\ \A w \in Worker : Range(batch[w]) \subseteq stored
  /\ late \subseteq stored
  /\ \A k \in done : \E e \in executed : KeyOf[e] = k
  /\ RemovesDelivered
  /\ RemovedOnlyAfterDelivery
  /\ NoHintTwice

-----------------------------------------------------------------------------
(* Lists *)

LEMMA RangeFacts ==
  ASSUME NEW s \in Seq(Hint)
  PROVE  /\ Range(s) = {s[i] : i \in 1..Len(s)}
         /\ Range(s) \subseteq Hint /\ Len(s) \in Nat /\ DOMAIN s = 1..Len(s)
  BY DEF Range

LEMMA TailFacts ==
  ASSUME NEW s \in Seq(Hint), s # << >>
  PROVE  /\ Tail(s) \in Seq(Hint) /\ Len(Tail(s)) = Len(s) - 1 /\ Len(s) \in Nat \ {0}
         /\ \A i \in 1..(Len(s) - 1) : Tail(s)[i] = s[i + 1]
         /\ Head(s) = s[1] /\ Head(s) \in Range(s)
         /\ Range(s) = Range(Tail(s)) \cup {Head(s)}
<1>1. /\ Tail(s) \in Seq(Hint) /\ Len(Tail(s)) = Len(s) - 1 /\ Len(s) \in Nat \ {0}
      /\ \A i \in 1..(Len(s) - 1) : Tail(s)[i] = s[i + 1]
      /\ Head(s) = s[1]
  OBVIOUS
<1>2. /\ Range(s) = {s[i] : i \in 1..Len(s)}
      /\ Range(Tail(s)) = {Tail(s)[i] : i \in 1..(Len(s) - 1)}
  BY <1>1, RangeFacts
<1>3. ASSUME NEW i \in 1..Len(s)
      PROVE  s[i] \in Range(Tail(s)) \cup {s[1]}
  <2>1. CASE i = 1
    BY <2>1
  <2>2. CASE i # 1
    <3>1. i - 1 \in 1..(Len(s) - 1) /\ i - 1 + 1 = i
      BY <1>1, <2>2
    <3>2. Tail(s)[i - 1] = s[i]
      BY <1>1, <3>1
    <3> QED BY <1>2, <3>1, <3>2
  <2> QED BY <2>1, <2>2
<1>4. 1 \in 1..Len(s) /\ \A i \in 1..(Len(s) - 1) : i + 1 \in 1..Len(s)
  BY <1>1
<1> QED BY <1>1, <1>2, <1>3, <1>4

LEMMA AppendFacts ==
  ASSUME NEW s \in Seq(Hint), NEW h \in Hint
  PROVE  /\ Append(s, h) \in Seq(Hint) /\ Len(Append(s, h)) = Len(s) + 1
         /\ \A i \in 1..Len(s) : Append(s, h)[i] = s[i]
         /\ Append(s, h)[Len(s) + 1] = h
         /\ Range(Append(s, h)) = Range(s) \cup {h}
<1>1. /\ Append(s, h) \in Seq(Hint) /\ Len(Append(s, h)) = Len(s) + 1
      /\ \A i \in 1..Len(s) : Append(s, h)[i] = s[i]
      /\ Append(s, h)[Len(s) + 1] = h /\ Len(s) \in Nat
  OBVIOUS
<1>2. 1..(Len(s) + 1) = 1..Len(s) \cup {Len(s) + 1}
  BY <1>1
<1>3. /\ Range(s) = {s[i] : i \in 1..Len(s)}
      /\ Range(Append(s, h)) = {Append(s, h)[i] : i \in 1..(Len(s) + 1)}
  BY <1>1, RangeFacts
<1> QED BY <1>1, <1>2, <1>3

\* A list without repetitions, and one more entry.
LEMMA StillOnce ==
  ASSUME NEW s \in Seq(Hint), NEW h \in Hint, h \notin Range(s),
         \A i, j \in DOMAIN s : s[i] = s[j] => i = j
  PROVE  \A i, j \in DOMAIN Append(s, h) : Append(s, h)[i] = Append(s, h)[j] => i = j
<1>1. /\ DOMAIN Append(s, h) = 1..(Len(s) + 1) /\ Len(s) \in Nat
      /\ DOMAIN s = 1..Len(s)
  OBVIOUS
<1>2. \A i \in 1..(Len(s) + 1) : i \in 1..Len(s) \/ i = Len(s) + 1
  BY <1>1
<1>3. \A i \in 1..Len(s) : s[i] # h
  BY RangeFacts
<1> QED BY <1>1, <1>2, <1>3, AppendFacts

-----------------------------------------------------------------------------
(* The two ways hints are removed *)

\* The ticker's: what is left, and that nothing else went.
LEMMA WithoutKeysFacts ==
  ASSUME HInv, NEW keys
  PROVE  /\ WithoutKeys(keys) \in Seq(Hint)
         /\ Len(WithoutKeys(keys)) <= Len(hints)
         /\ Range(WithoutKeys(keys)) = {h \in InBuffer : KeyOf[h] \notin keys}
         /\ \A i, j \in DOMAIN WithoutKeys(keys) :
              WithoutKeys(keys)[i] = WithoutKeys(keys)[j] => i = j
<1> DEFINE places == {i \in DOMAIN hints : KeyOf[hints[i]] \notin keys}
           left == EntriesAt(hints, places)
           c == Cardinality(places)
<1>1. hints \in Seq(Hint) /\ DOMAIN hints = 1..Len(hints) /\ Len(hints) \in Nat
  BY DEF HInv, TypeOK
<1>2. places \in SUBSET (1..Len(hints))
  BY <1>1
<1>3. WithoutKeys(keys) = left
  BY DEF WithoutKeys
<1>4. InBuffer = {hints[i] : i \in 1..Len(hints)}
  BY <1>1, RangeFacts DEF InBuffer
<1>5. \A p, q \in places : hints[p] = hints[q] => p = q
  BY DEF HInv, NoHintTwice
<1>6. {h \in InBuffer : KeyOf[h] \notin keys} = {hints[i] : i \in places}
  BY <1>1, <1>4
<1> HIDE DEF places
<1>7. /\ left \in Seq(Hint) /\ Len(left) = c /\ c \in Nat /\ c <= Len(hints)
      /\ \A k \in 1..c : \E p \in places :
           PlaceAmong(p, places) = k /\ left[k] = hints[p]
      /\ \A p \in places : /\ PlaceAmong(p, places) \in 1..c
                           /\ left[PlaceAmong(p, places)] = hints[p]
  BY <1>1, <1>2, EntriesAtFacts
<1> HIDE DEF left, c
<1>8. Range(left) = {left[k] : k \in 1..c} /\ DOMAIN left = 1..c
  BY <1>7, RangeFacts
<1>9. Range(left) = {hints[i] : i \in places}
  BY <1>7, <1>8
<1>10. ASSUME NEW k \in 1..c, NEW l \in 1..c, left[k] = left[l]
       PROVE  k = l
  <2>1. PICK p \in places : PlaceAmong(p, places) = k /\ left[k] = hints[p]
    BY <1>7
  <2>2. PICK q \in places : PlaceAmong(q, places) = l /\ left[l] = hints[q]
    BY <1>7
  <2> QED BY <1>5, <1>10, <2>1, <2>2
<1> QED BY <1>3, <1>6, <1>7, <1>8, <1>9, <1>10

\* Reconnecting's: one hint of the key at most is gone, and the order changed.
LEMMA WithoutFirstFacts ==
  ASSUME HInv, NEW k
  PROVE  /\ WithoutFirst(k) \in Seq(Hint)
         /\ Len(WithoutFirst(k)) <= Len(hints)
         /\ Range(WithoutFirst(k)) \subseteq InBuffer
         /\ \A h \in InBuffer \ Range(WithoutFirst(k)) : KeyOf[h] = k
         /\ \A i, j \in DOMAIN WithoutFirst(k) :
              WithoutFirst(k)[i] = WithoutFirst(k)[j] => i = j
<1> DEFINE at == {i \in DOMAIN hints : KeyOf[hints[i]] = k}
           g == CHOOSE i \in at : \A j \in at : i <= j
           n == Len(hints)
           moved == [hints EXCEPT ![g] = Last(hints)]
<1>1. /\ hints \in Seq(Hint) /\ DOMAIN hints = 1..n /\ n \in Nat
      /\ InBuffer = {hints[i] : i \in 1..n}
      /\ \A i, j \in 1..n : hints[i] = hints[j] => i = j
  BY RangeFacts DEF HInv, TypeOK, InBuffer, NoHintTwice
<1>2. CASE at = {}
  BY <1>1, <1>2, RangeFacts DEF WithoutFirst, InBuffer
<1>3. CASE at # {}
  <2>1. WithoutFirst(k) = Front(moved)
    BY <1>3 DEF WithoutFirst
  <2>2. at \subseteq Nat
    BY <1>1
  <2>3. \E i \in at : \A j \in at : i <= j
    <3> HIDE DEF at
    <3> QED BY <1>3, <2>2, LeastNatural
  <2>4. g \in at
    <3> HIDE DEF at
    <3> QED BY <2>3
  <2>5. g \in 1..n /\ KeyOf[hints[g]] = k
    BY <1>1, <2>4
  <2> HIDE DEF at, g
  <2>6. n >= 1 /\ Last(hints) = hints[n] /\ hints[n] \in Hint
    BY <1>1, <2>5 DEF Last
  <2>7. /\ moved \in Seq(Hint) /\ Len(moved) = n /\ moved # << >>
        /\ moved[g] = hints[n] /\ \A i \in 1..n : i # g => moved[i] = hints[i]
    BY <1>1, <2>5, <2>6
  <2> HIDE DEF moved, n
  <2> DEFINE left == Front(moved)
  <2>8. /\ left \in Seq(Hint) /\ Len(left) = n - 1
        /\ \A i \in 1..(n - 1) : left[i] = moved[i]
    <3>1. left = SubSeq(moved, 1, n - 1)
      BY <2>7 DEF Front
    <3> HIDE DEF left
    <3>2. \A i \in 1..(n - 1) : moved[i] \in Hint
      BY <1>1, <2>7
    <3> QED BY <1>1, <2>6, <2>7, <3>1, <3>2
  <2> HIDE DEF left
  <2>9. \A i \in 1..(n - 1) : left[i] = IF i = g THEN hints[n] ELSE hints[i]
    BY <1>1, <2>5, <2>7, <2>8
  <2>10. Range(left) = {left[i] : i \in 1..(n - 1)} /\ DOMAIN left = 1..(n - 1)
    BY <2>8, RangeFacts
  <2>11. Range(left) \subseteq InBuffer
    BY <1>1, <2>6, <2>9, <2>10
  <2>12. n \in Nat \ {0} /\ \A i \in 1..(n - 1) : i \in 1..n /\ i # n
    BY <1>1, <2>6
  <2>13. ASSUME NEW i \in 1..n, i # g
         PROVE  hints[i] \in Range(left)
    <3>1. CASE i # n
      <4>1. i \in 1..(n - 1)
        BY <2>12, <3>1
      <4> QED BY <2>9, <2>10, <2>13, <4>1
    <3>2. CASE i = n
      <4>1. g \in 1..(n - 1)
        BY <2>5, <2>13, <2>12, <3>2
      <4> QED BY <2>9, <2>10, <3>2, <4>1
    <3> QED BY <3>1, <3>2
  <2>14. \A h \in InBuffer \ Range(left) : KeyOf[h] = k
    BY <1>1, <2>5, <2>13
  <2>15. ASSUME NEW i \in 1..(n - 1), NEW j \in 1..(n - 1), left[i] = left[j]
         PROVE  i = j
    <3>1. i \in 1..n /\ j \in 1..n /\ n \in 1..n /\ i # n /\ j # n
      BY <2>12
    <3> QED BY <1>1, <2>9, <2>15, <3>1
  <2>16. n - 1 <= n
    BY <2>12
  <2> QED BY <2>1, <2>8, <2>10, <2>11, <2>14, <2>15, <2>16 DEF left, n
<1> QED BY <1>2, <1>3

-----------------------------------------------------------------------------
(* Every step *)

\* A goroutine goes on to the next hint of its copy.
LEMMA NextOfBatchFacts ==
  ASSUME HInv, NEW w \in Worker, batch[w] # << >>, NextOfBatch(w)
  PROVE  /\ batch' \in [Worker -> Seq(Hint)]
         /\ tries' \in [Worker -> 0..(MaxAttempts - 1)]
         /\ \A v \in Worker : Range(batch'[v]) \subseteq stored
         /\ \A v \in Worker \ {w} : batch'[v] = batch[v]
<1>1. /\ batch' = [batch EXCEPT ![w] = Tail(batch[w])] /\ tries' = [tries EXCEPT ![w] = 0]
      /\ batch \in [Worker -> Seq(Hint)] /\ tries \in [Worker -> 0..(MaxAttempts - 1)]
  BY DEF NextOfBatch, HInv, TypeOK
<1>2. Tail(batch[w]) \in Seq(Hint) /\ Range(Tail(batch[w])) \subseteq Range(batch[w])
  BY <1>1, TailFacts
<1>3. 0 \in 0..(MaxAttempts - 1)
  BY AttemptsArePositive
<1> QED BY <1>1, <1>2, <1>3 DEF HInv

\* Where nothing is taken from the buffer, what is gone stays as it is, and
\* more may have been delivered.
LEMMA GoneStays ==
  ASSUME HInv, InBuffer' = InBuffer, stored' = stored, rotated' = rotated, lost' = lost,
         executed \subseteq executed'
  PROVE  RemovedOnlyAfterDelivery'
  BY DEF HInv, RemovedOnlyAfterDelivery

LEMMA NetworkChangesKeeps ==
  ASSUME HInv, NetworkChanges
  PROVE  HInv'
<1>1. /\ available' \in BOOLEAN /\ reachable' \in BOOLEAN
      /\ UNCHANGED <<hints, pc, batch, tries, done, late, stored, rotated, lost, executed>>
  BY DEF NetworkChanges, workers, HInv, TypeOK
<1> QED
  BY <1>1 DEF HInv, TypeOK, InBuffer, RemovesDelivered, RemovedOnlyAfterDelivery, NoHintTwice

LEMMA storeHintKeeps ==
  ASSUME HInv, NEW h \in Hint, storeHint(h)
  PROVE  HInv'
<1>1. /\ h \notin stored /\ stored' = stored \cup {h}
      /\ UNCHANGED <<available, reachable, pc, batch, tries, done, late, lost, executed>>
  BY DEF storeHint, network, workers
<1>2. hints \in Seq(Hint) /\ h \notin InBuffer /\ hintStorageLimit \in Nat \ {0}
  BY <1>1, LimitIsPositive DEF HInv, TypeOK
<1>3. /\ hints' \in Seq(Hint) /\ Len(hints') <= hintStorageLimit
      /\ InBuffer' \subseteq InBuffer \cup {h} /\ h \in InBuffer'
      /\ rotated \subseteq rotated' /\ rotated' \subseteq rotated \cup InBuffer
      /\ InBuffer \subseteq InBuffer' \cup rotated'
      /\ NoHintTwice'
  <2>1. CASE Len(hints) < hintStorageLimit /\ hints' = Append(hints, h) /\ UNCHANGED rotated
    <3>1. Range(hints') = Range(hints) \cup {h} /\ hints' \in Seq(Hint)
          /\ Len(hints') = Len(hints) + 1 /\ Len(hints) \in Nat
      BY <1>2, <2>1, AppendFacts
    <3>2. NoHintTwice'
      BY <1>2, <2>1, StillOnce DEF HInv, NoHintTwice, InBuffer
    <3> QED BY <1>2, <2>1, <3>1, <3>2 DEF InBuffer
  <2>2. CASE /\ Len(hints) >= hintStorageLimit /\ hints' = Append(Tail(hints), h)
             /\ rotated' = rotated \cup {Head(hints)}
    <3>1. hints # << >>
      BY <1>2, <2>2
    <3>2. /\ Tail(hints) \in Seq(Hint) /\ Len(Tail(hints)) = Len(hints) - 1
          /\ Len(hints) \in Nat \ {0}
          /\ \A i \in 1..(Len(hints) - 1) : Tail(hints)[i] = hints[i + 1]
          /\ Head(hints) \in Range(hints)
          /\ Range(hints) = Range(Tail(hints)) \cup {Head(hints)}
      BY <1>2, <3>1, TailFacts
    <3>3. /\ Range(hints') = Range(Tail(hints)) \cup {h} /\ hints' \in Seq(Hint)
          /\ Len(hints') = Len(hints)
      <4>1. /\ Range(hints') = Range(Tail(hints)) \cup {h} /\ hints' \in Seq(Hint)
            /\ Len(hints') = Len(Tail(hints)) + 1
        BY <2>2, <3>2, AppendFacts
      <4> QED BY <3>2, <4>1
    <3>4. Len(hints) <= hintStorageLimit
      BY DEF HInv, TypeOK
    <3>5. \A i, j \in DOMAIN Tail(hints) : Tail(hints)[i] = Tail(hints)[j] => i = j
      <4>1. DOMAIN Tail(hints) = 1..(Len(hints) - 1) /\ DOMAIN hints = 1..Len(hints)
        BY <1>2, <3>2
      <4>2. \A i \in 1..(Len(hints) - 1) : i + 1 \in 1..Len(hints) /\ i \in Nat
        BY <3>2
      <4> QED BY <3>2, <4>1, <4>2 DEF HInv, NoHintTwice
    <3>6. h \notin Range(Tail(hints))
      BY <1>2, <3>2 DEF InBuffer
    <3>7. NoHintTwice'
      BY <2>2, <3>2, <3>5, <3>6, StillOnce DEF NoHintTwice
    <3> QED BY <2>2, <3>2, <3>3, <3>4, <3>7 DEF InBuffer
  <2> QED BY <2>1, <2>2 DEF storeHint
<1>4. TypeOK'
  BY <1>1, <1>3 DEF HInv, TypeOK
<1>5. RemovedOnlyAfterDelivery'
  BY <1>1, <1>3 DEF HInv, RemovedOnlyAfterDelivery
<1> QED BY <1>1, <1>3, <1>4, <1>5 DEF HInv, RemovesDelivered

LEMMA CopyHintsKeeps ==
  ASSUME HInv, NEW w \in Worker, CopyHints(w)
  PROVE  HInv'
<1>1. /\ pc[w] = "idle" /\ pc' = [pc EXCEPT ![w] = "deliver"]
      /\ batch' = [batch EXCEPT ![w] = hints]
      /\ UNCHANGED <<hints, available, reachable, tries, done, late, stored, rotated,
                     lost, executed>>
  BY DEF CopyHints, network
<1>2. TypeOK'
  BY <1>1 DEF HInv, TypeOK
<1>3. \A v \in Worker : Range(batch'[v]) \subseteq stored'
  BY <1>1 DEF HInv, TypeOK, InBuffer
<1>4. RemovesDelivered'
  BY <1>1 DEF HInv, TypeOK, RemovesDelivered
<1> QED
  BY <1>1, <1>2, <1>3, <1>4 DEF HInv, InBuffer, RemovedOnlyAfterDelivery, NoHintTwice

LEMMA HintDeliveredKeeps ==
  ASSUME HInv, NEW w \in Worker, HintDelivered(w)
  PROVE  HInv'
<1> DEFINE h == Head(batch[w])
<1>1. /\ pc[w] = "deliver" /\ batch[w] # << >> /\ executed' = executed \cup {h}
      /\ UNCHANGED <<hints, available, reachable, late, stored, rotated, lost>>
  BY DEF HintDelivered, Execute, network
<1>2. h \in stored /\ h \in Hint /\ KeyOf[h] \in Key
  <2>1. batch[w] \in Seq(Hint) /\ Range(batch[w]) \subseteq stored /\ stored \subseteq Hint
    BY DEF HInv, TypeOK
  <2> QED BY <1>1, <2>1, TailFacts, KeyOfType
<1> HIDE DEF h
<1>3. RemovedOnlyAfterDelivery'
  BY <1>1, GoneStays DEF InBuffer
<1>4. CASE w = Ticker /\ done' = done \cup {KeyOf[h]} /\ NextOfBatch(w) /\ UNCHANGED pc
  <2>1. /\ batch' \in [Worker -> Seq(Hint)] /\ tries' \in [Worker -> 0..(MaxAttempts - 1)]
        /\ \A v \in Worker : Range(batch'[v]) \subseteq stored
        /\ \A v \in Worker \ {w} : batch'[v] = batch[v]
    BY <1>1, <1>4, NextOfBatchFacts
  <2>2. TypeOK'
    BY <1>1, <1>2, <1>4, <2>1 DEF HInv, TypeOK
  <2>3. \A k \in done' : \E e \in executed' : KeyOf[e] = k
    BY <1>1, <1>4 DEF HInv
  <2>4. RemovesDelivered'
    BY <1>1, <1>4, <2>1 DEF HInv, RemovesDelivered
  <2> QED BY <1>1, <1>3, <2>1, <2>2, <2>3, <2>4 DEF HInv, InBuffer, NoHintTwice
<1>5. CASE w # Ticker /\ pc' = [pc EXCEPT ![w] = "remove"] /\ UNCHANGED <<batch, tries, done>>
  <2>1. TypeOK'
    BY <1>1, <1>2, <1>5 DEF HInv, TypeOK
  <2>2. \A v \in Worker \ {w} : pc'[v] = pc[v]
    BY <1>5 DEF HInv, TypeOK
  <2>3. RemovesDelivered'
    BY <1>1, <1>5, <2>2 DEF HInv, RemovesDelivered, h
  <2> QED BY <1>1, <1>3, <1>5, <2>1, <2>3 DEF HInv, InBuffer, NoHintTwice
<1> QED BY <1>4, <1>5 DEF HintDelivered, h

LEMMA AttemptFailsKeeps ==
  ASSUME HInv, NEW w \in Worker, AttemptFails(w)
  PROVE  HInv'
<1> DEFINE h == Head(batch[w])
<1>1. /\ pc[w] = "deliver" /\ batch[w] # << >> /\ late' = late \cup {h}
      /\ UNCHANGED <<hints, available, reachable, pc, done, stored, rotated, lost, executed>>
  BY DEF AttemptFails, network
<1>2. h \in stored
  <2>1. batch[w] \in Seq(Hint) /\ Range(batch[w]) \subseteq stored
    BY DEF HInv, TypeOK
  <2> QED BY <1>1, <2>1, TailFacts
<1> HIDE DEF h
<1>3. /\ batch' \in [Worker -> Seq(Hint)] /\ tries' \in [Worker -> 0..(MaxAttempts - 1)]
      /\ \A v \in Worker : Range(batch'[v]) \subseteq stored
      /\ \A v \in Worker \ {w} : batch'[v] = batch[v]
  <2>1. CASE tries[w] + 1 < MaxAttempts /\ tries' = [tries EXCEPT ![w] = @ + 1] /\ UNCHANGED batch
    <3>1. tries \in [Worker -> 0..(MaxAttempts - 1)]
      BY DEF HInv, TypeOK
    <3>2. tries[w] + 1 \in 0..(MaxAttempts - 1)
      BY <2>1, <3>1, AttemptsArePositive
    <3> QED BY <2>1, <3>1, <3>2 DEF HInv, TypeOK
  <2>2. CASE NextOfBatch(w)
    BY <1>1, <2>2, NextOfBatchFacts
  <2> QED BY <2>1, <2>2 DEF AttemptFails
<1>4. TypeOK'
  BY <1>1, <1>2, <1>3 DEF HInv, TypeOK
<1>5. RemovesDelivered'
  BY <1>1, <1>3 DEF HInv, RemovesDelivered
<1> QED
  BY <1>1, <1>2, <1>3, <1>4, <1>5 DEF HInv, InBuffer, RemovedOnlyAfterDelivery, NoHintTwice

LEMMA LateRequestKeeps ==
  ASSUME HInv, NEW h \in Hint, LateRequest(h)
  PROVE  HInv'
<1>1. /\ h \in late /\ late' = late \ {h} /\ executed' = executed \cup {h}
      /\ UNCHANGED <<hints, available, reachable, pc, batch, tries, done, stored, rotated, lost>>
  BY DEF LateRequest, Execute, network, workers
<1>2. TypeOK'
  BY <1>1 DEF HInv, TypeOK
<1>3. RemovedOnlyAfterDelivery'
  BY <1>1, GoneStays DEF InBuffer
<1> QED BY <1>1, <1>2, <1>3 DEF HInv, InBuffer, NoHintTwice, RemovesDelivered

LEMMA TickerEndsRoundKeeps ==
  ASSUME HInv, TickerEndsRound
  PROVE  HInv'
<1>1. /\ pc[Ticker] = "deliver" /\ pc' = [pc EXCEPT ![Ticker] = "idle"]
      /\ hints' = WithoutKeys(done) /\ done' = {}
      /\ UNCHANGED <<available, reachable, batch, tries, late, stored, rotated, lost, executed>>
  BY DEF TickerEndsRound, network
<1>2. /\ hints' \in Seq(Hint) /\ Len(hints') <= Len(hints)
      /\ InBuffer' = {h \in InBuffer : KeyOf[h] \notin done}
      /\ NoHintTwice'
  BY <1>1, WithoutKeysFacts DEF InBuffer, NoHintTwice
<1>3. TypeOK'
  <2>1. Len(hints') <= hintStorageLimit
    <3>1. /\ Len(hints) <= hintStorageLimit /\ Len(hints) \in Nat /\ Len(hints') \in Nat
          /\ hintStorageLimit \in Nat
      BY <1>2, LimitIsPositive DEF HInv, TypeOK
    <3> QED BY <1>2, <3>1
  <2> QED BY <1>1, <1>2, <2>1 DEF HInv, TypeOK
<1>4. RemovedOnlyAfterDelivery'
  <2> SUFFICES ASSUME NEW h \in stored \ (InBuffer' \cup rotated \cup lost)
               PROVE  \E e \in executed : KeyOf[e] = KeyOf[h]
    BY <1>1 DEF RemovedOnlyAfterDelivery
  <2>1. CASE h \in InBuffer
    BY <1>2, <2>1 DEF HInv
  <2>2. CASE h \notin InBuffer
    BY <2>2 DEF HInv, RemovedOnlyAfterDelivery
  <2> QED BY <2>1, <2>2
<1>5. RemovesDelivered'
  BY <1>1 DEF HInv, TypeOK, RemovesDelivered
<1> QED BY <1>1, <1>2, <1>3, <1>4, <1>5 DEF HInv

LEMMA ReconnectRemovesKeeps ==
  ASSUME HInv, NEW w \in Worker, ReconnectRemoves(w)
  PROVE  HInv'
<1> DEFINE k == KeyOf[Head(batch[w])]
<1>1. /\ pc[w] = "remove" /\ pc' = [pc EXCEPT ![w] = "deliver"]
      /\ hints' = WithoutFirst(k) /\ NextOfBatch(w)
      /\ UNCHANGED <<available, reachable, done, late, stored, rotated, lost, executed>>
  BY DEF ReconnectRemoves, network
<1>2. batch[w] # << >> /\ \E e \in executed : KeyOf[e] = k
  BY <1>1 DEF HInv, RemovesDelivered
<1> HIDE DEF k
<1>3. /\ hints' \in Seq(Hint) /\ Len(hints') <= Len(hints)
      /\ InBuffer' \subseteq InBuffer
      /\ \A h \in InBuffer \ InBuffer' : KeyOf[h] = k
      /\ NoHintTwice'
  BY <1>1, WithoutFirstFacts DEF InBuffer, NoHintTwice
<1>4. /\ batch' \in [Worker -> Seq(Hint)] /\ tries' \in [Worker -> 0..(MaxAttempts - 1)]
      /\ \A v \in Worker : Range(batch'[v]) \subseteq stored
      /\ \A v \in Worker \ {w} : batch'[v] = batch[v]
  BY <1>1, <1>2, NextOfBatchFacts
<1>5. TypeOK'
  <2>1. Len(hints') <= hintStorageLimit
    <3>1. /\ Len(hints) <= hintStorageLimit /\ Len(hints) \in Nat /\ Len(hints') \in Nat
          /\ hintStorageLimit \in Nat
      BY <1>3, LimitIsPositive DEF HInv, TypeOK
    <3> QED BY <1>3, <3>1
  <2> QED BY <1>1, <1>3, <1>4, <2>1 DEF HInv, TypeOK
<1>6. RemovedOnlyAfterDelivery'
  <2> SUFFICES ASSUME NEW h \in stored \ (InBuffer' \cup rotated \cup lost)
               PROVE  \E e \in executed : KeyOf[e] = KeyOf[h]
    BY <1>1 DEF RemovedOnlyAfterDelivery
  <2>1. CASE h \in InBuffer
    BY <1>2, <1>3, <2>1
  <2>2. CASE h \notin InBuffer
    BY <2>2 DEF HInv, RemovedOnlyAfterDelivery
  <2> QED BY <2>1, <2>2
<1>7. RemovesDelivered'
  <2>1. \A v \in Worker : pc'[v] = "remove" => v # w /\ pc[v] = "remove"
    BY <1>1 DEF HInv, TypeOK
  <2> QED BY <1>1, <1>4, <2>1 DEF HInv, RemovesDelivered
<1> QED BY <1>1, <1>3, <1>4, <1>5, <1>6, <1>7 DEF HInv

LEMMA ReconnectEndsKeeps ==
  ASSUME HInv, NEW w \in Worker, ReconnectEnds(w)
  PROVE  HInv'
<1>1. /\ pc' = [pc EXCEPT ![w] = "over"]
      /\ UNCHANGED <<hints, available, reachable, batch, tries, done, late, stored, rotated,
                     lost, executed>>
  BY DEF ReconnectEnds, network
<1>2. TypeOK'
  BY <1>1 DEF HInv, TypeOK
<1>3. RemovesDelivered'
  BY <1>1 DEF HInv, TypeOK, RemovesDelivered
<1> QED BY <1>1, <1>2, <1>3 DEF HInv, InBuffer, RemovedOnlyAfterDelivery, NoHintTwice

LEMMA RestartKeeps ==
  ASSUME HInv, Restart
  PROVE  HInv'
<1>1. /\ lost' = lost \cup InBuffer /\ hints' = << >> /\ done' = {}
      /\ pc' = [w \in Worker |-> IF w = Ticker \/ pc[w] = "idle" THEN "idle" ELSE "over"]
      /\ batch' = [w \in Worker |-> << >>] /\ tries' = [w \in Worker |-> 0]
      /\ UNCHANGED <<available, reachable, stored, rotated, executed>>
  BY DEF Restart, network, InBuffer
<1>2. late' \subseteq stored
  <2>1. ASSUME NEW w \in Delivering
        PROVE  Head(batch[w]) \in stored
    <3>1. /\ w \in Worker /\ batch[w] \in Seq(Hint) /\ batch[w] # << >>
          /\ Range(batch[w]) \subseteq stored
      BY DEF Delivering, HInv, TypeOK
    <3> QED BY <3>1, TailFacts
  <2>2. PICK out \in SUBSET {Head(batch[w]) : w \in Delivering} : late' = late \cup out
    BY DEF Restart
  <2> QED BY <2>1, <2>2 DEF HInv
<1>3. /\ << >> \in Seq(Hint) /\ Len(<< >>) = 0 /\ Range(<< >>) = {}
      /\ 0 \in 0..(MaxAttempts - 1) /\ 0 <= hintStorageLimit
  BY AttemptsArePositive, LimitIsPositive DEF Range
<1>4. TypeOK'
  BY <1>1, <1>2, <1>3 DEF HInv, TypeOK
<1>5. InBuffer' = {} /\ \A w \in Worker : Range(batch'[w]) = {} /\ pc'[w] # "remove"
  BY <1>1, <1>3 DEF InBuffer
<1>6. NoHintTwice'
  BY <1>1 DEF NoHintTwice
<1>7. RemovedOnlyAfterDelivery'
  BY <1>1 DEF HInv, RemovedOnlyAfterDelivery
<1> QED BY <1>1, <1>2, <1>4, <1>5, <1>6, <1>7 DEF HInv, RemovesDelivered

-----------------------------------------------------------------------------
(* The specification *)

LEMMA HintInit == Init => HInv
<1> SUFFICES ASSUME Init PROVE HInv
  OBVIOUS
<1>1. /\ << >> \in Seq(Hint) /\ Len(<< >>) = 0 /\ Range(<< >>) = {}
      /\ 0 \in 0..(MaxAttempts - 1) /\ 0 <= hintStorageLimit
  BY AttemptsArePositive, LimitIsPositive DEF Range
<1>2. TypeOK
  BY <1>1 DEF Init, TypeOK
<1> QED
  BY <1>1, <1>2 DEF Init, HInv, InBuffer, RemovedOnlyAfterDelivery, NoHintTwice, RemovesDelivered

LEMMA HintStep == HInv /\ [Next]_vars => HInv'
<1> SUFFICES ASSUME HInv, [Next]_vars PROVE HInv'
  OBVIOUS
<1>1. ASSUME NEW w \in Worker, WorkerStep(w)
      PROVE  HInv'
  BY <1>1, CopyHintsKeeps, HintDeliveredKeeps, AttemptFailsKeeps, ReconnectRemovesKeeps,
     ReconnectEndsKeeps, TickerEndsRoundKeeps DEF WorkerStep
<1>2. CASE UNCHANGED vars
  BY <1>2 DEF vars, HInv, TypeOK, InBuffer, RemovesDelivered, RemovedOnlyAfterDelivery, NoHintTwice
<1> QED
  BY <1>1, <1>2, NetworkChangesKeeps, storeHintKeeps, LateRequestKeeps, RestartKeeps DEF Next

LEMMA HintInvariance == Spec => []HInv
  BY HintInit, HintStep, PTL DEF Spec

\* The buffer never holds more than hintStorageLimit hints, and all that is
\* pushed out, lost or delivered was stored before: about storeHint, and the
\* goroutines that edit the list it appends to.
THEOREM HintsTypeCorrect == Spec => []TypeOK
<1>1. HInv => TypeOK
  BY DEF HInv
<1> QED BY <1>1, HintInvariance, PTL

\* However the rounds of processHints and any number of forceReconnectHints
\* overlap, a hint goes only after a hint for its key was delivered, or is
\* pushed out or lost.
THEOREM RemovalFollowsDelivery == Spec => []RemovedOnlyAfterDelivery
<1>1. HInv => RemovedOnlyAfterDelivery
  BY DEF HInv
<1> QED BY <1>1, HintInvariance, PTL

\* Moving the last hint into a gap, in a list that changes meanwhile, never
\* doubles one: about the removal loop of forceReconnectHints.
THEOREM HintsStandOnce == Spec => []NoHintTwice
<1>1. HInv => NoHintTwice
  BY DEF HInv
<1> QED BY <1>1, HintInvariance, PTL
=============================================================================
