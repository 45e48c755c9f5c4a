---------------------------- MODULE SyncProofs ----------------------------
(* Anti-entropy, for any nodes, keys, writes, hints, rounds that overlap and *)
(* requests that are late: what rounds that lock nothing cannot break.       *)
EXTENDS AntiEntropy, VersionTheorems, DataTheorems

\* The writes of k that have begun.
Of(k, req) == {p \in Put : req[p] # None /\ KeyOf[p] = k}

\* A version of k whose clock says what it holds.
Sound(sv, k, req) ==
  /\ sv \in Version
  /\ sv.val = None => sv.vc = NewVectorClock
  /\ Reflects(sv, req, Of(k, req))

RoundField == {"pc", "peer", "bucket", "tree", "keys", "key", "mine", "theirs", "sent"}

\* What a round has in hand, and what it sends follows what it has read.
SoundRound(rd, req) ==
  /\ DOMAIN rd = RoundField
  /\ rd.peer \in Node /\ rd.key \in Key
  /\ Sound(rd.mine, rd.key, req)
  /\ Sound(rd.theirs, rd.key, req)
  /\ Sound(rd.sent, rd.key, req)
  /\ rd.pc \notin {"compare", "wait"} => rd.theirs = Absent
  /\ rd.pc # "wait" => rd.sent = Absent
  /\ rd.pc = "wait" => Leq(rd.mine.vc, rd.sent.vc) /\ Leq(rd.theirs.vc, rd.sent.vc)

\* The writes, their requests and their hints.
PutsOK ==
  /\ putReq \in [Put -> [at : Node, vc : Clock] \cup {None}]
  /\ \A p \in Put : putReq[p] # None =>
       /\ PutClock(p)[putReq[p].at] # 0
       /\ Reflects(Written(p, PutClock(p)), putReq, Of(KeyOf[p], putReq))
  /\ writes \subseteq Put \X Node /\ hints \subseteq Put \X Node
  /\ \A w \in writes \cup hints : putReq[w[1]] # None

StoresOK ==
  /\ store \in [Node -> [Key -> Version]]
  /\ \A n \in Node, k \in Key : Sound(store[n][k], k, putReq)

LateOK ==
  \A m \in late : m.to \in Node /\ m.key \in Key /\ Sound(m.sv, m.key, putReq)

RoundsOK ==
  /\ DOMAIN round = Round
  /\ \A r \in Round : SoundRound(round[r], putReq)

SInv == PutsOK /\ StoresOK /\ LateOK /\ RoundsOK

-----------------------------------------------------------------------------
(* Versions and rounds *)

LEMMA OfRequests ==
  ASSUME PutsOK, NEW k
  PROVE  Requests(putReq, Of(k, putReq))
  BY DEF PutsOK, Requests, Of

LEMMA AbsentIsSound ==
  ASSUME PutsOK, NEW k
  PROVE  Sound(Absent, k, putReq)
<1>1. Absent.val = None => Absent.vc = NewVectorClock
  BY DEF Absent
<1> QED BY <1>1, OfRequests, AbsentType, AbsentReflects DEF Sound

\* Where every sound version stays sound, so does what a round has in hand.
LEMMA RoundStays ==
  ASSUME NEW req, NEW req2, NEW rd, SoundRound(rd, req),
         \A k \in Key : \A sv : Sound(sv, k, req) => Sound(sv, k, req2)
  PROVE  SoundRound(rd, req2)
  BY DEF SoundRound

LEMMA BegunClock ==
  ASSUME PutsOK, NEW p \in Put, putReq[p] # None
  PROVE  PutClock(p) \in Clock /\ ~IsEmpty(PutClock(p))
<1>1. putReq[p].at \in Node /\ putReq[p].vc \in Clock
  BY DEF PutsOK
<1> QED BY <1>1 DEF PutsOK, PutClock, IsEmpty

LEMMA IdleIsSound ==
  ASSUME PutsOK, NEW r \in Round
  PROVE  /\ SoundRound(Idle(r), putReq)
         /\ Idle(r).pc = "idle" /\ Idle(r).mine = Absent
         /\ Idle(r).theirs = Absent /\ Idle(r).sent = Absent
<1>1. HomeOf[r] \in Node /\ KeyOrder[1] \in Key
  BY HomeOfType, SomeKey DEF Key, Range
<1>2. Sound(Absent, KeyOrder[1], putReq)
  BY AbsentIsSound
<1> QED BY <1>1, <1>2 DEF Idle, SoundRound, RoundField

\* Entering a bucket forgets what the round had in hand.
LEMMA EnterIsSound ==
  ASSUME PutsOK, NEW r \in Round, NEW m \in Node, NEW b
  PROVE  SoundRound(EnterBucket(r, m, b), putReq) /\ EnterBucket(r, m, b).pc = "fetch"
<1>1. HomeOf[r] \in Node /\ KeyOrder[1] \in Key
  BY HomeOfType, SomeKey DEF Key, Range
<1>2. Sound(Absent, KeyOrder[1], putReq)
  BY AbsentIsSound
<1> DEFINE t == buildMerkleTreeForBucket(HomeOf[r], b)
           i == Idle(r)
           e == [i EXCEPT !.pc = "fetch", !.peer = m, !.bucket = b, !.tree = t]
<1>3. /\ DOMAIN i = RoundField /\ i.key = KeyOrder[1]
      /\ i.mine = Absent /\ i.theirs = Absent /\ i.sent = Absent
  BY DEF Idle, RoundField
<1>4. EnterBucket(r, m, b) = e
  BY DEF EnterBucket
<1> HIDE DEF t, i
<1>5. /\ DOMAIN e = RoundField /\ e.key = KeyOrder[1] /\ e.pc = "fetch" /\ e.peer = m
      /\ e.mine = Absent /\ e.theirs = Absent /\ e.sent = Absent
  BY <1>3 DEF RoundField
<1> HIDE DEF e
<1> QED BY <1>1, <1>2, <1>4, <1>5 DEF SoundRound

LEMMA NextBucketIsSound ==
  ASSUME PutsOK, NEW r \in Round, round[r].peer \in Node
  PROVE  SoundRound(NextBucket(r), putReq) /\ NextBucket(r).pc \in {"fetch", "idle"}
  BY EnterIsSound, IdleIsSound DEF NextBucket

\* Set writes the fields it is given, of one round.
LEMMA SetFacts ==
  ASSUME NEW r \in Round, NEW fields, DOMAIN round = Round, Set(r, fields)
  PROVE  /\ DOMAIN round' = Round
         /\ \A q \in Round \ {r} : round'[q] = round[q]
         /\ DOMAIN round'[r] = DOMAIN round[r]
         /\ \A f \in DOMAIN round[r] :
              round'[r][f] = IF f \in DOMAIN fields THEN fields[f] ELSE round[r][f]
  BY DEF Set

\* When a whole round is put in place.
LEMMA SetWhole ==
  ASSUME NEW r \in Round, NEW rd, RoundsOK, SoundRound(rd, putReq), Set(r, rd),
         putReq' = putReq
  PROVE  RoundsOK' /\ round'[r].pc = rd.pc
<1> USE DEF RoundsOK
<1>1. DOMAIN round[r] = RoundField /\ DOMAIN rd = RoundField
  BY DEF SoundRound
<1>2. DOMAIN round'[r] = RoundField /\ \A f \in RoundField : round'[r][f] = rd[f]
  BY <1>1, SetFacts
<1>3. SoundRound(round'[r], putReq)
  BY <1>2 DEF SoundRound, RoundField
<1>4. round'[r].pc = rd.pc
  BY <1>2 DEF RoundField
<1> QED BY <1>3, <1>4, SetFacts


LEMMA NextKeyKeepsRounds ==
  ASSUME PutsOK, NEW r \in Round, RoundsOK, NextKey(r), putReq' = putReq
  PROVE  RoundsOK' /\ round'[r].pc \in {"fetch", "idle", "keys"}
<1>1. CASE round[r].keys = {}
  <2>1. Set(r, NextBucket(r))
    BY <1>1 DEF NextKey
  <2>2. round[r].peer \in Node
    BY DEF RoundsOK, SoundRound
  <2> QED BY <2>1, <2>2, NextBucketIsSound, SetWhole
<1>2. CASE round[r].keys # {}
  <2> DEFINE fields == [pc |-> "keys", key |-> KeyOrder[1],
                        mine |-> Absent, theirs |-> Absent, sent |-> Absent]
  <2>1. Set(r, fields)
    BY <1>2 DEF NextKey
  <2>2. /\ DOMAIN round' = Round /\ \A q \in Round \ {r} : round'[q] = round[q]
        /\ DOMAIN round'[r] = RoundField
        /\ \A f \in RoundField :
             round'[r][f] = IF f \in DOMAIN fields THEN fields[f] ELSE round[r][f]
    BY <2>1, SetFacts DEF RoundsOK, SoundRound
  <2>3. /\ round'[r].pc = "keys" /\ round'[r].key = KeyOrder[1]
        /\ round'[r].peer = round[r].peer
        /\ round'[r].mine = Absent /\ round'[r].theirs = Absent
        /\ round'[r].sent = Absent
    BY <2>2 DEF RoundField
  <2>4. KeyOrder[1] \in Key
    BY SomeKey DEF Key, Range
  <2>5. SoundRound(round'[r], putReq)
    BY <2>2, <2>3, <2>4, AbsentIsSound DEF RoundsOK, SoundRound
  <2> QED BY <2>2, <2>3, <2>5 DEF RoundsOK
<1> QED BY <1>1, <1>2

\* What StoreAt changes, and that a sound version may be stored.
LEMMA StoreAtFacts ==
  ASSUME NEW n \in Node, NEW k \in Key, NEW sv, StoresOK, Sound(sv, k, putReq),
         StoreAt(n, k, sv), putReq' = putReq
  PROVE  /\ StoresOK'
         /\ store'[n][k] = sv
         /\ \A m \in Node, j \in Key : m # n \/ j # k => store'[m][j] = store[m][j]
<1>1. store' = [store EXCEPT ![n][k] = sv] /\ sv \in Version
  BY DEF StoreAt, Sound
<1>2. store \in [Node -> [Key -> Version]]
  BY DEF StoresOK
<1>3. store' \in [Node -> [Key -> Version]]
  BY <1>1, <1>2
<1>4. /\ store'[n][k] = sv
      /\ \A m \in Node, j \in Key : m # n \/ j # k => store'[m][j] = store[m][j]
  BY <1>1, <1>2
<1> QED BY <1>3, <1>4 DEF StoresOK

\* Clocks only go forward where nothing is stored.
LEMMA ClockOfStore ==
  ASSUME StoresOK, NEW n \in Node, NEW k \in Key
  PROVE  store[n][k].vc \in Clock /\ Leq(store[n][k].vc, store[n][k].vc)
  BY LeqIsPartialOrder DEF StoresOK, Version

-----------------------------------------------------------------------------
(* What one step may do to a version *)

Kept == SInv' /\ \A n \in Node, k \in Key : KeepsWhatIsRead(n, k)

\* A step that stores nothing.
LEMMA SameStore ==
  ASSUME SInv, SInv', store' = store
  PROVE  Kept
  BY ClockOfStore DEF Kept, KeepsWhatIsRead, SInv

\* A step that stores one version.
LEMMA OneStored ==
  ASSUME SInv, NEW n \in Node, NEW k \in Key, NEW sv, Sound(sv, k, putReq),
         StoreAt(n, k, sv), putReq' = putReq, PutsOK', LateOK', RoundsOK', KeepsWhatIsRead(n, k)
  PROVE  Kept
<1>1. /\ StoresOK'
      /\ \A m \in Node, j \in Key : m # n \/ j # k => store'[m][j] = store[m][j]
  BY StoreAtFacts DEF SInv
<1>2. \A m \in Node, j \in Key : m # n \/ j # k => KeepsWhatIsRead(m, j)
  BY <1>1, ClockOfStore DEF KeepsWhatIsRead, SInv
<1> QED BY <1>1, <1>2 DEF Kept, SInv

LEMMA WriteKeeps ==
  ASSUME SInv, NEW p \in Put, NEW n \in Node, NEW replaced \in SUBSET (Node \ {n}),
         Write(p, n, replaced)
  PROVE  Kept
<1> DEFINE vc == Increment(store[n][KeyOf[p]].vc, n)
<1> USE DEF SInv
<1>1. KeyOf[p] \in Key /\ store[n][KeyOf[p]].vc \in Clock
  BY KeyOfType, ClockOfStore
<1>2. vc \in Clock /\ ~IsEmpty(vc)
  <2>1. vc \in Clock
    BY <1>1, ClockOperationsType
  <2>2. vc[n] # 0
    BY <1>1 DEF Increment, Clock
  <2> QED BY <2>1, <2>2 DEF IsEmpty
<1> HIDE DEF vc
<1>3. /\ putReq' = [putReq EXCEPT ![p] = [at |-> n, vc |-> vc]]
      /\ putReq[p] = None
      /\ writes' = writes \cup ({p} \X (Node \ replaced))
      /\ hints' = hints \cup ({p} \X replaced)
      /\ UNCHANGED <<store, round, late>>
  BY DEF Write, vc
<1>4. [at |-> n, vc |-> vc] \in [at : Node, vc : Clock]
  BY <1>2
<1>5. [at |-> n, vc |-> vc] # None
  BY <1>4, NoneIsNoRequest
<1>6. /\ putReq' \in [Put -> [at : Node, vc : Clock] \cup {None}]
      /\ putReq'[p] = [at |-> n, vc |-> vc]
      /\ \A q \in Put \ {p} : putReq'[q] = putReq[q]
  BY <1>3, <1>4 DEF PutsOK
<1>7. /\ Requests(putReq', Of(KeyOf[p], putReq'))
      /\ \A x \in Version : Reflects(x, putReq, Of(KeyOf[p], putReq)) =>
                            Reflects(x, putReq', Of(KeyOf[p], putReq'))
      /\ \A w \in Of(KeyOf[p], putReq') :
           Reflects(Written(w, putReq'[w].vc), putReq', Of(KeyOf[p], putReq'))
  <2>1. /\ p \notin Of(KeyOf[p], putReq)
        /\ Of(KeyOf[p], putReq') = Of(KeyOf[p], putReq) \cup {p}
        /\ \A w \in Of(KeyOf[p], putReq) : w # p /\ w \in Put /\ putReq'[w] = putReq[w]
    BY <1>3, <1>5, <1>6 DEF Of
  <2>2. /\ putReq'[p].at = n
        /\ putReq'[p].vc = Increment(store[n][KeyOf[p]].vc, n)
    BY <1>6 DEF vc
  <2>3. /\ Requests(putReq, Of(KeyOf[p], putReq))
        /\ store[n][KeyOf[p]] \in Version
        /\ Reflects(store[n][KeyOf[p]], putReq, Of(KeyOf[p], putReq))
        /\ \A w \in Of(KeyOf[p], putReq) :
             Reflects(Written(w, putReq[w].vc), putReq, Of(KeyOf[p], putReq))
    BY <1>1, OfRequests DEF StoresOK, Sound, PutsOK, Of, PutClock
  <2> HIDE DEF SInv
  <2> DEFINE begun == Of(KeyOf[p], putReq)
             sv == store[n][KeyOf[p]]
             req == putReq
             req2 == putReq'
  <2>4. /\ Requests(req2, begun \cup {p})
        /\ \A x \in Version :
             Reflects(x, req, begun) => Reflects(x, req2, begun \cup {p})
        /\ \A w \in begun \cup {p} :
             Reflects(Written(w, req2[w].vc), req2, begun \cup {p})
    <3> HIDE DEF begun, sv, req, req2
    <3>1. /\ p \in Put \ begun /\ sv \in Version /\ Requests(req, begun)
          /\ Reflects(sv, req, begun)
          /\ \A w \in begun : Reflects(Written(w, req[w].vc), req, begun)
          /\ \A w \in begun : req2[w] = req[w]
          /\ req2[p].at = n /\ req2[p].vc = Increment(sv.vc, n)
      BY <2>1, <2>2, <2>3 DEF begun, sv, req, req2
    <3> QED BY <3>1, NewWriteReflects
  <2> QED BY <2>1, <2>4
<1>8. ASSUME NEW k, k # KeyOf[p]
      PROVE  /\ Of(k, putReq') = Of(k, putReq)
             /\ \A sv : Reflects(sv, putReq, Of(k, putReq)) =>
                        Reflects(sv, putReq', Of(k, putReq'))
  <2>1. Of(k, putReq') = Of(k, putReq)
    BY <1>6, <1>8 DEF Of
  <2>2. \A w \in Of(k, putReq) : putReq'[w] = putReq[w]
    BY <1>6, <1>8 DEF Of
  <2> QED BY <2>1, <2>2 DEF Reflects, JoinOf, Counts, Fresh, Follows
<1>9. \A k \in Key : \A sv : Sound(sv, k, putReq) => Sound(sv, k, putReq')
  BY <1>7, <1>8 DEF Sound
<1>10. PutsOK'
  <2>1. \A q \in Put : putReq'[q] # None => putReq'[q].vc[putReq'[q].at] # 0
    <3>1. vc[n] # 0
      BY <1>1 DEF Increment, Clock, vc
    <3> QED BY <1>6, <3>1 DEF PutsOK, PutClock
  <2>2. writes' \subseteq Put \X Node /\ hints' \subseteq Put \X Node
    BY <1>3 DEF PutsOK
  <2>3. \A w \in writes' \cup hints' : w[1] = p \/ w \in writes \cup hints
    BY <1>3
  <2>4. \A w \in writes' \cup hints' : putReq'[w[1]] # None
    BY <1>5, <1>6, <2>2, <2>3 DEF PutsOK
  <2>5. ASSUME NEW q \in Put, putReq'[q] # None
        PROVE  Reflects(Written(q, putReq'[q].vc), putReq', Of(KeyOf[q], putReq'))
    <3>1. CASE KeyOf[q] = KeyOf[p]
      BY <1>7, <2>5, <3>1 DEF Of
    <3>2. CASE KeyOf[q] # KeyOf[p]
      <4>1. putReq'[q] = putReq[q]
        BY <1>6, <3>2
      <4>2. Reflects(Written(q, putReq[q].vc), putReq, Of(KeyOf[q], putReq))
        BY <2>5, <4>1 DEF PutsOK, PutClock
      <4> QED BY <1>8, <3>2, <4>1, <4>2
    <3> QED BY <3>1, <3>2
  <2> QED BY <1>6, <2>1, <2>2, <2>4, <2>5 DEF PutsOK, PutClock
<1>11. StoresOK'
  BY <1>3, <1>9 DEF StoresOK
<1>12. LateOK'
  BY <1>3, <1>9 DEF LateOK
<1>13. RoundsOK'
  <2>1. ASSUME NEW r \in Round
        PROVE  SoundRound(round[r], putReq')
    BY <1>9, RoundStays DEF RoundsOK
  <2> QED BY <1>3, <2>1 DEF RoundsOK
<1> QED BY <1>3, <1>10, <1>11, <1>12, <1>13, SameStore

\* A write that has begun, as a version of its key.
LEMMA WriteIsSound ==
  ASSUME SInv, NEW p \in Put, putReq[p] # None
  PROVE  /\ p \in Of(KeyOf[p], putReq)
         /\ Sound(Written(p, PutClock(p)), KeyOf[p], putReq)
<1>1. PutClock(p) \in Clock
  BY BegunClock DEF SInv
<1>2. Reflects(Written(p, PutClock(p)), putReq, Of(KeyOf[p], putReq))
  BY DEF SInv, PutsOK
<1>3. Written(p, PutClock(p)) \in Version /\ Written(p, PutClock(p)).val # None
  BY <1>1, WrittenType, NoneIsNoPut DEF Written
<1> QED BY <1>2, <1>3 DEF Sound, Of

LEMMA DeliverWriteKeeps ==
  ASSUME SInv, NEW p \in Put, NEW n \in Node, DeliverWrite(p, n)
  PROVE  Kept
<1> DEFINE k == KeyOf[p]
           sv == store[n][k]
           new == localPut(sv, p, PutClock(p))
<1>1. /\ k \in Key /\ putReq[p] # None
      /\ PutsOK' /\ LateOK' /\ RoundsOK' /\ putReq' = putReq
  BY KeyOfType DEF DeliverWrite, SInv, PutsOK, LateOK, RoundsOK, PutClock
<1>2. PutClock(p) \in Clock /\ ~IsEmpty(PutClock(p))
  BY <1>1, BegunClock DEF SInv
<1>3. Sound(sv, k, putReq)
  BY <1>1 DEF SInv, StoresOK
<1>4. Applied(p, n, FALSE) = new
  BY <1>2 DEF Applied, applyReplicaWrite, Written, PutClock
<1>5. StoreAt(n, k, new)
  BY <1>4 DEF DeliverWrite
<1> HIDE DEF sv
<1>6. new \in Version /\ new.val # None
  <2>1. new \in Version
    BY <1>2, <1>3, LocalPutType DEF Sound
  <2>2. new.val # None
    BY NoneIsNoPut DEF localPut, Written
  <2> QED BY <2>1, <2>2
<1>7. Sound(new, k, putReq)
  <2>1. /\ p \in Of(k, putReq) /\ Requests(putReq, Of(k, putReq))
        /\ Reflects(Written(p, PutClock(p)), putReq, Of(k, putReq))
    BY <1>1, WriteIsSound, OfRequests DEF SInv, Sound
  <2>2. Reflects(new, putReq, Of(k, putReq))
    BY <1>3, <2>1, LocalPutReflects DEF Sound, PutClock
  <2> QED BY <1>6, <2>2 DEF Sound
<1>8. Leq(sv.vc, new.vc)
  BY <1>2, <1>3, LocalPutDominates DEF Sound
<1> HIDE DEF new
<1>9. KeepsWhatIsRead(n, k)
  BY <1>1, <1>5, <1>7, <1>8, StoreAtFacts DEF KeepsWhatIsRead, SInv, sv
<1> QED BY <1>1, <1>5, <1>7, <1>9, OneStored

LEMMA DeliverHintKeeps ==
  ASSUME SInv, NEW p \in Put, NEW n \in Node, DeliverHint(p, n)
  PROVE  Kept
<1> DEFINE k == KeyOf[p]
           new == Written(p, PutClock(p))
<1>1. /\ k \in Key /\ putReq[p] # None /\ <<p, n>> \in hints
      /\ PutsOK' /\ LateOK' /\ RoundsOK' /\ putReq' = putReq
  BY KeyOfType DEF DeliverHint, SInv, PutsOK, LateOK, RoundsOK, PutClock
<1>2. PutClock(p) \in Clock /\ ~IsEmpty(PutClock(p))
  BY <1>1, BegunClock DEF SInv
<1>3. Applied(p, n, TRUE) = new
  BY <1>2 DEF Applied, applyReplicaWrite, storeReplicaValue, Written, PutClock
<1>4. StoreAt(n, k, new)
  BY <1>3 DEF DeliverHint
<1>5. Sound(new, k, putReq)
  BY <1>1, WriteIsSound
<1> HIDE DEF new
<1>6. store'[n][k] = new
  BY <1>1, <1>4, <1>5, StoreAtFacts DEF SInv
<1>7. KeepsWhatIsRead(n, k)
  <2>1. <<p, n>>[1] = p /\ <<p, n>>[2] = n
    OBVIOUS
  <2> QED BY <1>1, <1>6, <2>1 DEF KeepsWhatIsRead, new
<1> QED BY <1>1, <1>4, <1>5, <1>7, OneStored

LEMMA CalmKeeps ==
  ASSUME SInv, Calm
  PROVE  Kept
  BY SameStore DEF Calm, SInv, PutsOK, StoresOK, LateOK, RoundsOK, PutClock

-----------------------------------------------------------------------------
(* The steps of a round *)

\* A step of a round that stores nothing.
LEMMA RoundOnly ==
  ASSUME SInv, UNCHANGED <<store, requests>>, LateOK', RoundsOK'
  PROVE  Kept
<1>1. PutsOK' /\ StoresOK'
  BY DEF SInv, requests, PutsOK, StoresOK, PutClock
<1> QED BY <1>1, SameStore DEF SInv

LEMMA LateStays ==
  ASSUME LateOK, UNCHANGED <<putReq, late>>
  PROVE  LateOK'
  BY DEF LateOK

LEMMA BeginSyncKeeps ==
  ASSUME SInv, NEW r \in Round, NEW m \in Node, BeginSync(r, m)
  PROVE  Kept
  BY EnterIsSound, SetWhole, RoundOnly, LateStays DEF BeginSync, requests, SInv

LEMMA FetchMerkleTreeKeeps ==
  ASSUME SInv, NEW r \in Round, FetchMerkleTree(r)
  PROVE  Kept
<1> USE DEF SInv
<1>1. PICK keys : Set(r, IF keys = {} THEN NextBucket(r)
                         ELSE [pc |-> "keys", tree |-> NoData, keys |-> keys])
  BY DEF FetchMerkleTree
<1>2. /\ round[r].pc = "fetch"
      /\ putReq' = putReq /\ UNCHANGED <<store, requests, late>>
  BY DEF FetchMerkleTree, requests
<1>3. CASE keys = {}
  <2>1. Set(r, NextBucket(r)) /\ round[r].peer \in Node
    BY <1>1, <1>3 DEF RoundsOK, SoundRound
  <2>2. RoundsOK'
    BY <1>2, <2>1, NextBucketIsSound, SetWhole
  <2> QED BY <1>2, <2>2, RoundOnly, LateStays
<1>4. CASE keys # {}
  <2> DEFINE fields == [pc |-> "keys", tree |-> NoData, keys |-> keys]
  <2>1. Set(r, fields)
    BY <1>1, <1>4
  <2>2. /\ DOMAIN round' = Round /\ \A q \in Round \ {r} : round'[q] = round[q]
        /\ DOMAIN round'[r] = RoundField
        /\ \A f \in RoundField :
             round'[r][f] = IF f \in DOMAIN fields THEN fields[f] ELSE round[r][f]
    BY <2>1, SetFacts DEF RoundsOK, SoundRound
  <2>3. /\ round'[r].pc = "keys" /\ round'[r].key = round[r].key
        /\ round'[r].peer = round[r].peer /\ round'[r].mine = round[r].mine
        /\ round'[r].theirs = round[r].theirs /\ round'[r].sent = round[r].sent
    BY <2>2 DEF RoundField
  <2>4. SoundRound(round'[r], putReq)
    BY <1>2, <2>2, <2>3 DEF RoundsOK, SoundRound
  <2>5. RoundsOK'
    BY <1>2, <2>2, <2>4 DEF RoundsOK
  <2> QED BY <1>2, <2>5, RoundOnly, LateStays
<1> QED BY <1>3, <1>4

LEMMA FetchFailsKeeps ==
  ASSUME SInv, NEW r \in Round, FetchFails(r)
  PROVE  Kept
<1>1. Set(r, NextBucket(r)) /\ round[r].peer \in Node
  BY DEF FetchFails, RoundsOK, SoundRound, SInv
<1>2. putReq' = putReq /\ UNCHANGED <<store, requests, late>>
  BY DEF FetchFails, requests
<1>3. RoundsOK'
  BY <1>1, <1>2, NextBucketIsSound, SetWhole DEF SInv
<1> QED BY <1>2, <1>3, RoundOnly, LateStays DEF SInv

\* The round's key changes here: what it read of the last one is forgotten.
LEMMA ReadMineKeeps ==
  ASSUME SInv, NEW r \in Round, NEW k \in Key, ReadMine(r, k)
  PROVE  Kept
<1> DEFINE sv == store[HomeOf[r]][k]
           fields == [pc |-> "remote", keys |-> round[r].keys \ {k}, key |-> k,
                      mine |-> sv]
<1> USE DEF SInv
<1>1. HomeOf[r] \in Node
  BY HomeOfType
<1>2. Sound(sv, k, putReq)
  BY <1>1 DEF StoresOK
<1>3. Set(r, fields) /\ round[r].pc = "keys" /\ UNCHANGED <<store, requests, late>>
  BY DEF ReadMine
<1> HIDE DEF sv
<1>4. /\ DOMAIN round' = Round /\ \A q \in Round \ {r} : round'[q] = round[q]
      /\ DOMAIN round'[r] = RoundField
      /\ \A f \in RoundField :
           round'[r][f] = IF f \in DOMAIN fields THEN fields[f] ELSE round[r][f]
  BY <1>3, SetFacts DEF RoundsOK, SoundRound
<1>5. /\ round'[r].pc = "remote" /\ round'[r].key = k
      /\ round'[r].peer = round[r].peer /\ round'[r].mine = sv
      /\ round'[r].theirs = round[r].theirs /\ round'[r].sent = round[r].sent
  BY <1>4 DEF RoundField
<1>6. round[r].theirs = Absent /\ round[r].sent = Absent
  BY <1>3 DEF RoundsOK, SoundRound
<1>7. SoundRound(round'[r], putReq)
  BY <1>2, <1>4, <1>5, <1>6, AbsentIsSound DEF RoundsOK, SoundRound
<1>8. RoundsOK'
  BY <1>3, <1>4, <1>7 DEF RoundsOK, requests
<1> QED BY <1>3, <1>8, RoundOnly, LateStays DEF requests

LEMMA ReadTheirsKeeps ==
  ASSUME SInv, NEW r \in Round, ReadTheirs(r)
  PROVE  Kept
<1> USE DEF SInv
<1>1. PICK sv : /\ Sound(sv, round[r].key, putReq)
                /\ \/ Set(r, [pc |-> "compare", theirs |-> sv])
                   \/ Set(r, [pc |-> "compare"]) /\ sv = round[r].theirs
  <2> DEFINE m == round[r].peer  k == round[r].key
  <2>1. m \in Node /\ k \in Key /\ Sound(round[r].theirs, k, putReq)
    BY DEF RoundsOK, SoundRound
  <2>2. Sound(store[m][k], k, putReq)
    BY <2>1 DEF StoresOK
  <2>3. \/ Set(r, [pc |-> "compare", theirs |-> store[m][k]])
        \/ Set(r, [pc |-> "compare"])
    BY DEF ReadTheirs
  <2>4. CASE Set(r, [pc |-> "compare", theirs |-> store[m][k]])
    BY <2>2, <2>4
  <2>5. CASE Set(r, [pc |-> "compare"])
    BY <2>1, <2>5
  <2> QED BY <2>3, <2>4, <2>5
<1>2. round[r].pc = "remote" /\ UNCHANGED <<store, requests, late>>
  BY DEF ReadTheirs
<1>3. /\ DOMAIN round' = Round /\ \A q \in Round \ {r} : round'[q] = round[q]
      /\ DOMAIN round'[r] = RoundField
      /\ round'[r].pc = "compare" /\ round'[r].key = round[r].key
      /\ round'[r].peer = round[r].peer /\ round'[r].mine = round[r].mine
      /\ round'[r].theirs = sv /\ round'[r].sent = round[r].sent
  <2>1. CASE Set(r, [pc |-> "compare", theirs |-> sv])
    BY <2>1, SetFacts DEF RoundsOK, SoundRound, RoundField
  <2>2. CASE Set(r, [pc |-> "compare"]) /\ sv = round[r].theirs
    BY <2>2, SetFacts DEF RoundsOK, SoundRound, RoundField
  <2> QED BY <1>1, <2>1, <2>2
<1>4. SoundRound(round'[r], putReq)
  BY <1>1, <1>2, <1>3 DEF RoundsOK, SoundRound
<1>5. RoundsOK'
  BY <1>2, <1>3, <1>4 DEF RoundsOK, requests
<1> QED BY <1>2, <1>5, RoundOnly, LateStays DEF requests

LEMMA NothingToReconcileKeeps ==
  ASSUME SInv, NEW r \in Round, NothingToReconcile(r)
  PROVE  Kept
  BY NextKeyKeepsRounds, RoundOnly, LateStays DEF NothingToReconcile, requests, SInv

\* A round puts what follows all it has read in place of what it has read,
\* or of what it has not.
LEMMA RoundStores ==
  ASSUME SInv, NEW r \in Round, NEW n \in Node, NEW sv,
         Sound(sv, round[r].key, putReq), StoreAt(n, round[r].key, sv),
         Leq(ReadAt(r, n).vc, sv.vc),
         round'[r] # round[r], UNCHANGED <<requests, late>>, RoundsOK'
  PROVE  Kept
<1> DEFINE k == round[r].key
<1> USE DEF SInv
<1>1. k \in Key
  BY DEF RoundsOK, SoundRound
<1>2. PutsOK' /\ LateOK' /\ putReq' = putReq
  BY LateStays DEF requests, PutsOK, PutClock
<1>3. store'[n][k] = sv
  BY <1>1, <1>2, StoreAtFacts
<1>4. KeepsWhatIsRead(n, k)
  BY <1>3 DEF KeepsWhatIsRead
<1> QED BY <1>1, <1>2, <1>4, OneStored

LEMMA TakeTheirsKeeps ==
  ASSUME SInv, NEW r \in Round, TakeTheirs(r)
  PROVE  Kept
<1> DEFINE mine == round[r].mine  theirs == round[r].theirs
<1>1. /\ round[r].pc = "compare" /\ NextKey(r) /\ UNCHANGED <<requests, late>>
      /\ StoreAt(HomeOf[r], round[r].key, theirs)
      /\ mine.val = None \/ compareVectorClocks(mine.vc, theirs.vc) = "newer"
  BY DEF TakeTheirs, storeReplicaValue, Comparison
<1>2. /\ Sound(mine, round[r].key, putReq) /\ mine.vc \in Clock
      /\ Sound(theirs, round[r].key, putReq) /\ theirs.vc \in Clock
  BY DEF SInv, RoundsOK, SoundRound, Sound, Version
<1>3. Leq(mine.vc, theirs.vc)
  <2>1. CASE mine.val = None
    BY <1>2, <2>1 DEF Sound, Leq, NewVectorClock, Clock
  <2>2. CASE compareVectorClocks(mine.vc, theirs.vc) = "newer"
    BY <1>2, <2>2, CompareIsCausalOrder
  <2> QED BY <1>1, <2>1, <2>2
<1>4. RoundsOK' /\ round'[r] # round[r]
  BY <1>1, NextKeyKeepsRounds DEF requests, SInv
<1> QED BY <1>1, <1>2, <1>3, <1>4, HomeOfType, RoundStores DEF ReadAt

LEMMA SendMineKeeps ==
  ASSUME SInv, NEW r \in Round, SendMine(r)
  PROVE  Kept
<1> DEFINE mine == round[r].mine  theirs == round[r].theirs
           fields == [pc |-> "wait", sent |-> mine]
<1> USE DEF SInv
<1>1. /\ round[r].pc = "compare" /\ UNCHANGED <<store, requests, late>>
      /\ Set(r, fields)
      /\ theirs.val = None \/ compareVectorClocks(mine.vc, theirs.vc) = "older"
  BY DEF SendMine, Comparison
<1>2. /\ Sound(mine, round[r].key, putReq) /\ mine.vc \in Clock
      /\ Sound(theirs, round[r].key, putReq) /\ theirs.vc \in Clock
  BY DEF RoundsOK, SoundRound, Sound, Version
<1>3. Leq(theirs.vc, mine.vc) /\ Leq(mine.vc, mine.vc)
  <2>1. CASE theirs.val = None
    BY <1>2, <2>1, LeqIsPartialOrder DEF Sound, Leq, NewVectorClock, Clock
  <2>2. CASE compareVectorClocks(mine.vc, theirs.vc) = "older"
    BY <1>2, <2>2, CompareIsCausalOrder, LeqIsPartialOrder
  <2> QED BY <1>1, <2>1, <2>2
<1>4. /\ DOMAIN round' = Round /\ \A q \in Round \ {r} : round'[q] = round[q]
      /\ DOMAIN round'[r] = RoundField
      /\ round'[r].pc = "wait" /\ round'[r].key = round[r].key
      /\ round'[r].peer = round[r].peer /\ round'[r].mine = mine
      /\ round'[r].theirs = theirs /\ round'[r].sent = mine
  BY <1>1, SetFacts DEF RoundsOK, SoundRound, RoundField
<1>5. SoundRound(round'[r], putReq)
  BY <1>2, <1>3, <1>4 DEF RoundsOK, SoundRound
<1>6. RoundsOK'
  BY <1>1, <1>4, <1>5 DEF RoundsOK, requests
<1> QED BY <1>1, <1>6, RoundOnly, LateStays DEF requests

\* Either way of merging two versions gives a sound one that follows both.
LEMMA MergedIsSound ==
  ASSUME SInv, NEW k, NEW x, NEW y, Sound(x, k, putReq), Sound(y, k, putReq),
         x.val # None, y.val # None,
         compareVectorClocks(x.vc, y.vc) = "concurrent",
         NEW merged \in {mergeConflicts(x, y), mergeConflicts(y, x)}
  PROVE  Sound(merged, k, putReq) /\ Leq(x.vc, merged.vc) /\ Leq(y.vc, merged.vc)
<1>1. x \in Version /\ y \in Version
  BY DEF Sound
<1>2. merged \in Resolved(x, y)
  BY DEF Resolved
<1>3. Requests(putReq, Of(k, putReq))
  BY OfRequests DEF SInv
<1>4. Reflects(merged, putReq, Of(k, putReq))
  BY <1>1, <1>2, <1>3, ResolvedReflects DEF Sound
<1>5. /\ merged \in Version /\ merged.val # None
      /\ Leq(x.vc, merged.vc) /\ Leq(y.vc, merged.vc)
  BY <1>1, <1>2, ResolvedDominates
<1> QED BY <1>4, <1>5 DEF Sound

LEMMA MergeBothKeeps ==
  ASSUME SInv, NEW r \in Round, MergeBoth(r)
  PROVE  Kept
<1> DEFINE mine == round[r].mine  theirs == round[r].theirs
<1> USE DEF SInv
<1>1. PICK merged \in {mergeConflicts(mine, theirs), mergeConflicts(theirs, mine)} :
        /\ StoreAt(HomeOf[r], round[r].key, merged)
        /\ Set(r, [pc |-> "wait", sent |-> merged])
  BY DEF MergeBoth, storeReplicaValue
<1>2. /\ round[r].pc = "compare" /\ UNCHANGED <<requests, late>>
      /\ mine.val # None /\ theirs.val # None
      /\ compareVectorClocks(mine.vc, theirs.vc) = "concurrent"
  BY DEF MergeBoth, BothThere, Comparison
<1>3. Sound(mine, round[r].key, putReq) /\ Sound(theirs, round[r].key, putReq)
  BY DEF RoundsOK, SoundRound
<1>4. /\ Sound(merged, round[r].key, putReq)
      /\ Leq(mine.vc, merged.vc) /\ Leq(theirs.vc, merged.vc)
  BY <1>2, <1>3, MergedIsSound
<1>5. /\ DOMAIN round' = Round /\ \A q \in Round \ {r} : round'[q] = round[q]
      /\ DOMAIN round'[r] = RoundField
      /\ round'[r].pc = "wait" /\ round'[r].key = round[r].key
      /\ round'[r].peer = round[r].peer /\ round'[r].mine = mine
      /\ round'[r].theirs = theirs /\ round'[r].sent = merged
  BY <1>1, SetFacts DEF RoundsOK, SoundRound, RoundField
<1>6. SoundRound(round'[r], putReq)
  BY <1>3, <1>4, <1>5 DEF RoundsOK, SoundRound
<1>7. RoundsOK' /\ round'[r] # round[r]
  BY <1>2, <1>5, <1>6 DEF RoundsOK, requests
<1> QED BY <1>1, <1>2, <1>4, <1>7, HomeOfType, RoundStores DEF ReadAt

LEMMA RepairArrivesKeeps ==
  ASSUME SInv, NEW r \in Round, RepairArrives(r)
  PROVE  Kept
<1>1. /\ round[r].pc = "wait" /\ NextKey(r) /\ UNCHANGED <<requests, late>>
      /\ StoreAt(round[r].peer, round[r].key, round[r].sent)
  BY DEF RepairArrives, storeReplicaValue
<1>2. /\ round[r].peer \in Node /\ Sound(round[r].sent, round[r].key, putReq)
      /\ Leq(round[r].mine.vc, round[r].sent.vc)
      /\ Leq(round[r].theirs.vc, round[r].sent.vc)
  BY <1>1 DEF SInv, RoundsOK, SoundRound
<1>3. RoundsOK' /\ round'[r] # round[r]
  BY <1>1, NextKeyKeepsRounds DEF requests, SInv
<1> QED BY <1>1, <1>2, <1>3, RoundStores DEF ReadAt

LEMMA RepairTimesOutKeeps ==
  ASSUME SInv, NEW r \in Round, RepairTimesOut(r)
  PROVE  Kept
<1> DEFINE request == [to |-> round[r].peer, key |-> round[r].key, sv |-> round[r].sent]
<1>1. /\ NextKey(r) /\ UNCHANGED <<store, requests>>
      /\ late' \subseteq late \cup {request}
  BY DEF RepairTimesOut
<1>2. /\ request.to \in Node /\ request.key \in Key
      /\ Sound(request.sv, request.key, putReq)
  BY DEF SInv, RoundsOK, SoundRound
<1>3. LateOK'
  BY <1>1, <1>2 DEF SInv, LateOK, requests
<1>4. RoundsOK'
  BY <1>1, NextKeyKeepsRounds DEF requests, SInv
<1> QED BY <1>1, <1>3, <1>4, RoundOnly

LEMMA RepairArrivesLateKeeps ==
  ASSUME SInv, NEW m \in late, RepairArrivesLate(m)
  PROVE  Kept
<1>1. /\ StoreAt(m.to, m.key, m.sv) /\ late' = late \ {m}
      /\ UNCHANGED <<requests, round>>
  BY DEF RepairArrivesLate, storeReplicaValue
<1>2. m.to \in Node /\ m.key \in Key /\ Sound(m.sv, m.key, putReq)
  BY DEF SInv, LateOK
<1>3. PutsOK' /\ LateOK' /\ RoundsOK' /\ putReq' = putReq
  BY <1>1 DEF SInv, requests, PutsOK, LateOK, RoundsOK, PutClock
<1>4. KeepsWhatIsRead(m.to, m.key)
  BY <1>1 DEF KeepsWhatIsRead
<1> QED BY <1>1, <1>2, <1>3, <1>4, OneStored

-----------------------------------------------------------------------------
(* The specification *)

LEMMA SInvInit == Init => SInv
<1> SUFFICES ASSUME Init PROVE SInv
  OBVIOUS
<1>1. PutsOK
  BY DEF Init, PutsOK
<1>2. StoresOK
  BY <1>1, AbsentType, AbsentIsSound DEF Init, StoresOK
<1>3. LateOK
  BY DEF Init, LateOK
<1>4. RoundsOK
  BY <1>1, IdleIsSound DEF Init, RoundsOK
<1> QED BY <1>1, <1>2, <1>3, <1>4 DEF SInv

\* Every step keeps the invariant and loses only what OnlyTheUnreadIsLost allows.
LEMMA StepKeeps == SInv /\ [Next]_vars => Kept
<1> SUFFICES ASSUME SInv, [Next]_vars PROVE Kept
  OBVIOUS
<1>1. CASE UNCHANGED vars
  BY <1>1, SameStore DEF vars, SInv, PutsOK, StoresOK, LateOK, RoundsOK, PutClock
<1>2. ASSUME NEW p \in Put, NEW n \in Node,
             \/ \E replaced \in SUBSET (Node \ {n}) : Write(p, n, replaced)
             \/ DeliverWrite(p, n) \/ DeliverHint(p, n)
      PROVE  Kept
  BY <1>2, WriteKeeps, DeliverWriteKeeps, DeliverHintKeeps
<1>3. ASSUME NEW r \in Round, SyncStep(r) \/ \E m \in Node : BeginSync(r, m)
      PROVE  Kept
  <2>1. CASE \E m \in Node : BeginSync(r, m)
    BY <2>1, BeginSyncKeeps
  <2>2. CASE FetchMerkleTree(r) \/ FetchFails(r)
    BY <2>2, FetchMerkleTreeKeeps, FetchFailsKeeps
  <2>3. CASE (\E k \in Key : ReadMine(r, k)) \/ ReadTheirs(r)
    BY <2>3, ReadMineKeeps, ReadTheirsKeeps
  <2>4. CASE NothingToReconcile(r) \/ TakeTheirs(r) \/ SendMine(r) \/ MergeBoth(r)
    BY <2>4, NothingToReconcileKeeps, TakeTheirsKeeps, SendMineKeeps, MergeBothKeeps
  <2>5. CASE RepairArrives(r) \/ RepairTimesOut(r)
    BY <2>5, RepairArrivesKeeps, RepairTimesOutKeeps
  <2> QED BY <1>3, <2>1, <2>2, <2>3, <2>4, <2>5 DEF SyncStep
<1>4. ASSUME NEW m \in late, RepairArrivesLate(m)
      PROVE  Kept
  BY <1>4, RepairArrivesLateKeeps
<1>5. CASE Calm
  BY <1>5, CalmKeeps
<1> QED BY <1>1, <1>2, <1>3, <1>4, <1>5 DEF Next

LEMMA SInvAlways == Spec => []SInv
<1>1. SInv /\ [Next]_vars => SInv'
  BY StepKeeps DEF Kept
<1> QED BY <1>1, SInvInit, PTL DEF Spec

-----------------------------------------------------------------------------
(* Types *)

\* What SoundRound leaves out of the types of a round.
RoundTyped(rd) ==
  /\ rd.pc \in RoundPc /\ rd.bucket \in Bucket
  /\ DOMAIN rd.tree \subseteq Key /\ Range(rd.tree) \subseteq Version
  /\ rd.keys \subseteq Key

TInv ==
  /\ SInv
  /\ \A r \in Round : RoundTyped(round[r])
  /\ late \subseteq LateRepair
  /\ calm \in BOOLEAN

\* The fields a step sets in a round have their types.
FieldsTyped(fields) ==
  /\ "pc" \in DOMAIN fields => fields["pc"] \in RoundPc
  /\ "bucket" \in DOMAIN fields => fields["bucket"] \in Bucket
  /\ "tree" \in DOMAIN fields => /\ DOMAIN fields["tree"] \subseteq Key
                                 /\ Range(fields["tree"]) \subseteq Version
  /\ "keys" \in DOMAIN fields => fields["keys"] \subseteq Key

LEMMA SetTyped ==
  ASSUME TInv, SInv', NEW r \in Round, NEW fields, Set(r, fields), FieldsTyped(fields),
         late' \subseteq LateRepair, calm' = calm
  PROVE  TInv'
<1>1. DOMAIN round = Round /\ DOMAIN round[r] = RoundField
  BY DEF TInv, SInv, RoundsOK, SoundRound
<1>2. /\ \A q \in Round \ {r} : round'[q] = round[q]
      /\ \A f \in RoundField :
           round'[r][f] = IF f \in DOMAIN fields THEN fields[f] ELSE round[r][f]
  BY <1>1, SetFacts
<1>3. {"pc", "bucket", "tree", "keys"} \subseteq RoundField
  BY DEF RoundField
<1>4. RoundTyped(round[r])
  BY DEF TInv
<1>5. RoundTyped(round'[r])
  BY <1>2, <1>3, <1>4 DEF FieldsTyped, RoundTyped
<1>6. \A q \in Round : RoundTyped(round'[q])
  BY <1>2, <1>5 DEF TInv
<1> QED BY <1>6 DEF TInv

LEMMA NoDataTyped == DOMAIN NoData = {} /\ Range(NoData) = {}
  BY DEF NoData, Range

LEMMA IdleTyped ==
  ASSUME NEW r \in Round
  PROVE  FieldsTyped(Idle(r)) /\ RoundTyped(Idle(r))
  BY NoDataTyped, SomeBucket DEF Idle, FieldsTyped, RoundTyped, RoundPc, Bucket

LEMMA BucketDataTyped ==
  ASSUME TInv, NEW n \in Node, NEW b
  PROVE  LET data == buildMerkleTreeForBucket(n, b) IN
         DOMAIN data \subseteq Key /\ Range(data) \subseteq Version
<1> DEFINE data == buildMerkleTreeForBucket(n, b)
<1>1. \A k \in Key : store[n][k] \in Version
  BY DEF TInv, SInv, StoresOK
<1>2. DOMAIN data \subseteq Key /\ \A k \in DOMAIN data : data[k] = store[n][k]
  BY DEF buildMerkleTreeForBucket, InBucket
<1> HIDE DEF data
<1>3. Range(data) \subseteq Version
  BY <1>1, <1>2 DEF Range
<1> QED BY <1>2, <1>3 DEF data

LEMMA EnterTyped ==
  ASSUME TInv, NEW r \in Round, NEW m \in Node, NEW b \in Bucket
  PROVE  FieldsTyped(EnterBucket(r, m, b))
<1> DEFINE t == buildMerkleTreeForBucket(HomeOf[r], b)
           i == Idle(r)
           e == [i EXCEPT !.pc = "fetch", !.peer = m, !.bucket = b, !.tree = t]
<1>1. DOMAIN i = RoundField /\ i.keys = {}
  BY DEF Idle, RoundField
<1>2. DOMAIN t \subseteq Key /\ Range(t) \subseteq Version
  BY HomeOfType, BucketDataTyped
<1>3. EnterBucket(r, m, b) = e
  BY DEF EnterBucket
<1> HIDE DEF t, i
<1>4. /\ e["pc"] = "fetch" /\ e["bucket"] = b /\ e["tree"] = t /\ e["keys"] = {}
  BY <1>1 DEF RoundField
<1> HIDE DEF e
<1> QED BY <1>2, <1>3, <1>4 DEF FieldsTyped, RoundPc

LEMMA NextBucketTyped ==
  ASSUME TInv, NEW r \in Round
  PROVE  FieldsTyped(NextBucket(r))
<1>1. round[r].peer \in Node /\ round[r].bucket \in Bucket
  BY DEF TInv, SInv, RoundsOK, SoundRound, RoundTyped
<1>2. round[r].bucket < lastBucket => round[r].bucket + 1 \in Bucket
  BY <1>1, SomeBucket DEF Bucket
<1> QED BY <1>1, <1>2, EnterTyped, IdleTyped DEF NextBucket

LEMMA NextKeyTyped ==
  ASSUME TInv, SInv', NEW r \in Round, NextKey(r), late' \subseteq LateRepair, calm' = calm
  PROVE  TInv'
<1>1. CASE round[r].keys = {}
  BY <1>1, NextBucketTyped, SetTyped DEF NextKey
<1>2. CASE round[r].keys # {}
  <2> DEFINE fields == [pc |-> "keys", key |-> KeyOrder[1],
                        mine |-> Absent, theirs |-> Absent, sent |-> Absent]
  <2>1. FieldsTyped(fields)
    BY DEF FieldsTyped, RoundPc
  <2>2. Set(r, fields)
    BY <1>2 DEF NextKey
  <2> QED BY <2>1, <2>2, SetTyped
<1> QED BY <1>1, <1>2

\* The keys to reconcile are keys of the two trees.
LEMMA DifferingKeysTyped ==
  ASSUME NEW d, NEW e, DOMAIN d \subseteq Key, DOMAIN e \subseteq Key
  PROVE  CompareTrees(TreeOf(d), TreeOf(e)) \subseteq Key
<1> DEFINE pd == [k \in DOMAIN d |-> merklePayloadForStoredValue(d[k])]
           pe == [k \in DOMAIN e |-> merklePayloadForStoredValue(e[k])]
<1>1. TreeOf(d) = NewMerkleTree(pd, KeyOrder) /\ TreeOf(e) = NewMerkleTree(pe, KeyOrder)
  BY DEF TreeOf
<1>2. DOMAIN pd = DOMAIN d /\ DOMAIN pe = DOMAIN e
  OBVIOUS
<1> HIDE DEF pd, pe
<1>3. Distinct(KeyOrder) /\ KeyOrder \in Seq(Key)
  BY KeysAreInOrder DEF Distinct
<1>4. CompareTrees(TreeOf(d), TreeOf(e)) \subseteq DOMAIN pd \cup DOMAIN pe
  BY <1>1, <1>2, <1>3, TreesCompared DEF Key
<1> QED BY <1>2, <1>4

LEMMA SyncStepTyped ==
  ASSUME TInv, SInv', NEW r \in Round, SyncStep(r) \/ \E m \in Node : BeginSync(r, m)
  PROVE  TInv'
<1> USE DEF RoundPc
<1>1. ASSUME NEW m \in Node, BeginSync(r, m)
      PROVE  TInv'
  <2>1. 0 \in Bucket
    BY SomeBucket DEF Bucket
  <2> QED BY <1>1, <2>1, EnterTyped, SetTyped DEF BeginSync, TInv
<1>2. CASE FetchMerkleTree(r)
  <2> DEFINE data == buildMerkleTreeForBucket(round[r].peer, round[r].bucket)
             differ == CompareTrees(TreeOf(round[r].tree), TreeOf(data))
             alike == {k \in DOMAIN data \cap DOMAIN round[r].tree :
                         data[k] = round[r].tree[k] /\ data[k].conflicts # {}}
  <2>1. PICK nested \in SUBSET alike :
          Set(r, IF differ \cup nested = {} THEN NextBucket(r)
                 ELSE [pc |-> "keys", tree |-> NoData, keys |-> differ \cup nested])
    BY <1>2 DEF FetchMerkleTree
  <2>2. late' = late /\ calm' = calm
    BY <1>2 DEF FetchMerkleTree
  <2>3. DOMAIN round[r].tree \subseteq Key /\ round[r].peer \in Node
    BY DEF TInv, SInv, RoundsOK, SoundRound, RoundTyped
  <2>4. DOMAIN data \subseteq Key
    BY <2>3, BucketDataTyped
  <2> HIDE DEF data
  <2>5. nested \subseteq Key
    BY <2>3
  <2>6. differ \subseteq Key
    BY <2>3, <2>4, DifferingKeysTyped
  <2> HIDE DEF differ, alike
  <2>7. FieldsTyped([pc |-> "keys", tree |-> NoData, keys |-> differ \cup nested])
    BY <2>5, <2>6, NoDataTyped DEF FieldsTyped
  <2> QED BY <2>1, <2>2, <2>7, NextBucketTyped, SetTyped DEF TInv
<1>3. CASE FetchFails(r)
  BY <1>3, NextBucketTyped, SetTyped DEF FetchFails, TInv
<1>4. ASSUME NEW k \in Key, ReadMine(r, k)
      PROVE  TInv'
  <2> DEFINE fields == [pc |-> "remote", keys |-> round[r].keys \ {k}, key |-> k,
                        mine |-> store[HomeOf[r]][k]]
  <2>1. FieldsTyped(fields)
    BY DEF FieldsTyped, TInv, RoundTyped
  <2>2. Set(r, fields) /\ late' = late /\ calm' = calm
    BY <1>4 DEF ReadMine
  <2> QED BY <2>1, <2>2, SetTyped DEF TInv
<1>5. CASE ReadTheirs(r)
  <2>1. /\ FieldsTyped([pc |-> "compare", theirs |-> store[round[r].peer][round[r].key]])
        /\ FieldsTyped([pc |-> "compare"])
    BY DEF FieldsTyped
  <2> QED BY <1>5, <2>1, SetTyped DEF ReadTheirs, TInv
<1>6. CASE NothingToReconcile(r) \/ TakeTheirs(r) \/ RepairArrives(r)
  <2>1. NextKey(r) /\ late' = late /\ calm' = calm
    BY <1>6 DEF NothingToReconcile, TakeTheirs, RepairArrives
  <2> QED BY <2>1, NextKeyTyped DEF TInv
<1>7. CASE SendMine(r) \/ MergeBoth(r)
  <2>1. PICK sent : Set(r, [pc |-> "wait", sent |-> sent])
    BY <1>7 DEF SendMine, MergeBoth
  <2>2. FieldsTyped([pc |-> "wait", sent |-> sent])
    BY DEF FieldsTyped
  <2>3. late' = late /\ calm' = calm
    BY <1>7 DEF SendMine, MergeBoth
  <2> QED BY <2>1, <2>2, <2>3, SetTyped DEF TInv
<1>8. CASE RepairTimesOut(r)
  <2> DEFINE request == [to |-> round[r].peer, key |-> round[r].key, sv |-> round[r].sent]
  <2>1. request \in LateRepair
    BY DEF LateRepair, TInv, SInv, RoundsOK, SoundRound, Sound
  <2>2. NextKey(r) /\ late' \subseteq late \cup {request} /\ calm' = calm
    BY <1>8 DEF RepairTimesOut
  <2> QED BY <2>1, <2>2, NextKeyTyped DEF TInv
<1> QED BY <1>1, <1>2, <1>3, <1>4, <1>5, <1>6, <1>7, <1>8 DEF SyncStep

\* A step of none of the rounds.
LEMMA OthersTyped ==
  ASSUME TInv, SInv', round' = round, late' \subseteq late, calm' \in BOOLEAN
  PROVE  TInv'
  BY DEF TInv

LEMMA TypedStep == TInv /\ SInv' /\ [Next]_vars => TInv'
<1> SUFFICES ASSUME TInv, SInv', [Next]_vars PROVE TInv'
  OBVIOUS
<1>1. ASSUME NEW p \in Put, NEW n \in Node,
             \/ \E replaced \in SUBSET (Node \ {n}) : Write(p, n, replaced)
             \/ DeliverWrite(p, n) \/ DeliverHint(p, n)
      PROVE  TInv'
  BY <1>1, OthersTyped DEF Write, DeliverWrite, DeliverHint, TInv
<1>2. CASE Calm \/ (\E m \in late : RepairArrivesLate(m)) \/ UNCHANGED vars
  BY <1>2, OthersTyped DEF Calm, RepairArrivesLate, vars, TInv
<1> QED BY <1>1, <1>2, SyncStepTyped DEF Next

\* Every round keeps to its types whatever the other rounds store meanwhile:
\* the keys left to reconcile are keys, and no bucket past the last is
\* entered.  About performMerkleSyncWithNode and the trees it compares.
THEOREM SyncTypeCorrect == Spec => []TypeOK
<1>1. Init => TInv
  BY SInvInit, IdleTyped DEF Init, TInv
<1>2. SInv /\ [Next]_vars => SInv'
  BY StepKeeps DEF Kept
<1>3. TInv /\ [Next]_vars => TInv'
  BY <1>2, TypedStep DEF TInv
<1>4. TInv => TypeOK
  BY DEF TInv, TypeOK, SInv, PutsOK, StoresOK, RoundsOK, SoundRound, RoundTyped, IsRound, Sound
<1> QED BY <1>1, <1>3, <1>4, PTL DEF Spec

-----------------------------------------------------------------------------
(* What the versions hold *)

LEMMA LiveIsSound ==
  ASSUME SInv, NEW k \in Key, NEW sv \in LiveVersions(k)
  PROVE  Sound(sv, k, putReq)
<1>1. CASE sv \in {store[n][k] : n \in Node}
  BY <1>1 DEF SInv, StoresOK
<1>2. CASE sv \in {m.sv : m \in {l \in late : l.key = k}}
  BY <1>2 DEF SInv, LateOK
<1>3. ASSUME NEW r \in Round, round[r].key = k,
             sv \in {round[r].mine, round[r].theirs, round[r].sent}
      PROVE  Sound(sv, k, putReq)
  BY <1>3 DEF SInv, RoundsOK, SoundRound
<1>4. CASE sv \in UNION {{round[r].mine, round[r].theirs, round[r].sent} :
                           r \in {q \in Round : round[q].key = k}}
  BY <1>3, <1>4
<1> QED BY <1>1, <1>2, <1>4 DEF LiveVersions

\* The clock of every version, stored, in a round's hands or in a late request,
\* is the join of the clocks of the writes it holds, all writes of its key:
\* about mergeConflicts as reconcileKeyWithNode uses it, beside writes and
\* hints and other rounds.
THEOREM MergesAreJoins == Spec => []MergedClockIsJoin
<1>1. SInv => MergedClockIsJoin
  <2> SUFFICES ASSUME SInv, NEW k \in Key, NEW sv \in LiveVersions(k)
               PROVE  /\ \A p \in Holds(sv) : KeyOf[p] = k /\ Leq(PutClock(p), sv.vc)
                      /\ \A n \in Node : sv.vc[n] # 0 =>
                           \E p \in Holds(sv) : PutClock(p)[n] = sv.vc[n]
    BY DEF MergedClockIsJoin
  <2>1. JoinOf(sv, putReq, Of(k, putReq))
    BY LiveIsSound DEF Sound, Reflects
  <2> QED BY <2>1 DEF JoinOf, Of, PutClock
<1> QED BY <1>1, SInvAlways, PTL

\* While coordinators give no count twice for a key, no version drops a
\* sibling, in whatever order rounds, writes and hints exchange and overwrite
\* versions.  About reconcileKeyWithNode, which stores only what was written,
\* read or merged.
THEOREM SyncDropsNoSibling == Spec => []SyncKeepsSiblings
<1>1. SInv => SyncKeepsSiblings
  <2> SUFFICES ASSUME SInv, FreshCounters, NEW k \in Key, NEW sv \in LiveVersions(k),
                      NEW p \in Of(k, putReq), Leq(PutClock(p), sv.vc)
               PROVE  \E q \in Holds(sv) : Leq(PutClock(p), PutClock(q))
    BY DEF SyncKeepsSiblings, Of
  <2>1. Fresh(putReq, Of(k, putReq))
    BY DEF FreshCounters, Fresh, Of, PutClock
  <2>2. Reflects(sv, putReq, Of(k, putReq))
    BY LiveIsSound DEF Sound
  <2>3. putReq[p].at \in Node /\ putReq[p].vc[putReq[p].at] # 0
    BY DEF SInv, PutsOK, Of, PutClock
  <2> QED BY <2>1, <2>2, <2>3 DEF Reflects, Follows, Leq, PutClock
<1> QED BY <1>1, SInvAlways, PTL

\* Anti-entropy takes a replica back only where a round stores over what it
\* has not read; beside it hints and late repairs do.  About the four cases
\* of reconcileKeyWithNode, with any number of overlapping rounds.
THEOREM WhatIsReadIsKept == Spec => OnlyTheUnreadIsLost
<1>1. SInv /\ [Next]_vars => [\A n \in Node, k \in Key : KeepsWhatIsRead(n, k)]_vars
  BY StepKeeps DEF Kept
<1> QED BY <1>1, SInvAlways, PTL DEF Spec, OnlyTheUnreadIsLost

\* What a round learns from a peer's tree is exactly what the two sides disagree
\* about, however many keys there are and whatever odd levels the trees have:
\* about buildTree, which repeats the last hash of an odd level, Root, and
\* findDifferingKeys.
THEOREM TreesFindTheDifference == Spec => []TreesTellTheDifference
<1>1. TreesTellTheDifference
  BY NothingIsToldWrongly DEF TreesTellTheDifference
<1> QED BY <1>1, PTL
=============================================================================
