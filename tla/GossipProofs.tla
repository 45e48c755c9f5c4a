---------------------------- MODULE GossipProofs ----------------------------
(* What gossip says of when a node was last heard is never too good, and is  *)
(* not forgotten: for any clusters, timeouts and numbers of sends.           *)
EXTENDS Gossip, TLAPS

\* Records age no slower than the news they are about.
LEMMA OlderFacts ==
  /\ MaxAge \in Nat /\ 0 \in Age
  /\ \A a \in Age : Older(a) \in Age
  /\ \A a, b \in Age : a >= b => Older(a) >= Older(b)
  BY TimeoutsInOrder DEF MaxAge, Age, Older, Least

LEMMA AgedType ==
  ASSUME NEW r \in Member
  PROVE  Aged(r) \in Member /\ Aged(r).age = Older(r.age)
  BY OlderFacts DEF Member, Aged

\* Hearing something of a node takes over what is later of it.
LEMMA UpdateMemberFacts ==
  ASSUME NEW r \in Member, NEW new \in Member
  PROVE  /\ updateMember(r, new) \in Member
         /\ updateMember(r, new).age = Least(new.age, r.age)
         /\ updateMember(r, new).age \in {new.age, r.age}
         /\ updateMember(r, new).age <= r.age
         /\ updateMember(r, new).hb >= r.hb
  BY HeartbeatsAreBounded, TimeoutsInOrder
     DEF updateMember, Member, Least, Age, MaxAge

LEMMA NewMemberType == NewMember \in Member
  BY OlderFacts, HeartbeatsAreBounded DEF NewMember, Member

\* The copies that goroutines hold are no fresher than their node's news, a
\* goroutine runs where its node runs, and of a node that runs there is news.
CopiesAreReal ==
  /\ \A s \in sends :
       /\ s.from \in up
       /\ s.target # Current /\ s.to \in cluster.followed =>
            s.target.age >= news[s.to]
  /\ \A m \in up \cap cluster.followed : news[m] = 0

GInv == TypeOK /\ AgesAreReal /\ CopiesAreReal

LEMMA GossipInit == Init => GInv
<1> SUFFICES ASSUME Init PROVE GInv
  OBVIOUS
<1> USE DEF Init
<1>1. \A n \in cluster.members : view[n] = [m \in Others(n) |-> NewMember]
  BY DEF NewGossipService
<1>2. TypeOK
  <2>1. \A n \in cluster.members : view[n] \in [Others(n) -> Member]
    BY <1>1, NewMemberType
  <2>2. /\ beat \in [cluster.followed -> 0..MaxHeartbeat]
        /\ news \in [cluster.followed -> Age]
    BY OlderFacts, HeartbeatsAreBounded
  <2> QED BY <2>1, <2>2 DEF TypeOK
<1>3. AgesAreReal /\ CopiesAreReal
  <2>1. ASSUME NEW n \in up, NEW m \in Others(n)
        PROVE  view[n][m].age >= news[m]
    <3>1. view[n][m] = NewMember
      BY <1>1
    <3>2. news[m] = 0
      BY DEF Others
    <3> QED BY <3>1, <3>2 DEF NewMember
  <2> QED BY <2>1 DEF AgesAreReal, CopiesAreReal
<1> QED BY <1>2, <1>3 DEF GInv

\* What a send is about.
LEMMA SendFacts ==
  ASSUME GInv, NEW s \in sends
  PROVE  /\ s.from \in up /\ s.from \in cluster.members
         /\ s.to \in cluster.members /\ s.from # s.to
         /\ s.to \in cluster.followed =>
              /\ s.to \in Others(s.from)
              /\ view[s.from][s.to] \in Member
              /\ TargetOf(s) \in Member
              /\ TargetOf(s).age >= news[s.to]
<1>1. IsSend(s) /\ cluster \in Clusters /\ up \subseteq cluster.members
  BY DEF GInv, TypeOK
<1>2. s.from \in up /\ s.from \in cluster.members
  BY <1>1 DEF GInv, CopiesAreReal
<1>3. s.to \in cluster.members /\ s.from # s.to
  <2>1. <<s.from, s.to>> \in cluster.members \X cluster.members
        /\ <<s.from, s.to>>[1] # <<s.from, s.to>>[2]
    BY <1>1, ClustersAreSound DEF IsSend
  <2> QED BY <2>1
<1>4. ASSUME s.to \in cluster.followed
      PROVE  /\ s.to \in Others(s.from)
             /\ view[s.from][s.to] \in Member
             /\ TargetOf(s) \in Member
             /\ TargetOf(s).age >= news[s.to]
  <2>1. s.to \in Others(s.from)
    BY <1>3, <1>4 DEF Others
  <2>2. view[s.from][s.to] \in Member
    BY <1>2, <2>1 DEF GInv, TypeOK
  <2>3. view[s.from][s.to].age >= news[s.to]
    BY <1>2, <2>1 DEF GInv, AgesAreReal
  <2>4. s.target # Current => s.target \in Member /\ s.target.age >= news[s.to]
    BY <1>1, <1>4 DEF GInv, CopiesAreReal, IsSend
  <2> QED BY <2>1, <2>2, <2>3, <2>4 DEF TargetOf
<1> QED BY <1>2, <1>3, <1>4

\* What is stored when a send ends, and what becomes of the other sends.
LEMMA SendsWithoutFacts ==
  ASSUME GInv, NEW s \in sends, NEW stored \in BOOLEAN,
         stored => s.to \in cluster.followed,
         NEW t \in SendsWithout(s, stored)
  PROVE  /\ IsSend(t) /\ t.from \in up
         /\ \A m \in DOMAIN t.members : t.members[m].age >= news[m]
         /\ t.target # Current /\ t.to \in cluster.followed =>
              t.target.age >= news[t.to]
<1>1. PICK u \in sends \ {s} :
        t = IF stored /\ u.from = s.from /\ u.to = s.to /\ u.target = Current
            THEN [u EXCEPT !.target = view[s.from][s.to]] ELSE u
  BY DEF SendsWithout
<1>2. /\ IsSend(u) /\ u.from \in up
      /\ \A m \in DOMAIN u.members : u.members[m].age >= news[m]
      /\ u.target # Current /\ u.to \in cluster.followed =>
           u.target.age >= news[u.to]
  BY DEF GInv, TypeOK, AgesAreReal, CopiesAreReal
<1>3. CASE t = u
  BY <1>2, <1>3
<1>4. CASE /\ stored /\ u.to = s.to
           /\ t = [u EXCEPT !.target = view[s.from][s.to]]
  <2>1. /\ view[s.from][s.to] \in Member
        /\ view[s.from][s.to].age >= news[s.to]
    BY <1>4, SendFacts DEF GInv, AgesAreReal
  <2>2. /\ DOMAIN t = DOMAIN u /\ t.from = u.from /\ t.to = u.to /\ t.hb = u.hb
        /\ t.members = u.members /\ t.target = view[s.from][s.to]
    BY <1>2, <1>4 DEF IsSend
  <2> QED BY <1>2, <1>4, <2>1, <2>2 DEF IsSend
<1> QED BY <1>1, <1>3, <1>4

-----------------------------------------------------------------------------
\* GInv, in the parts an action may change.
ViewIsReal(v) ==
  /\ DOMAIN v = cluster.members
  /\ \A n \in cluster.members : v[n] \in [Others(n) -> Member]
  /\ \A n \in up : \A m \in Others(n) : v[n][m].age >= news[m]

SendIsReal(s) ==
  /\ IsSend(s) /\ s.from \in up
  /\ \A m \in DOMAIN s.members : s.members[m].age >= news[m]
  /\ s.target # Current /\ s.to \in cluster.followed => s.target.age >= news[s.to]

Settled ==
  /\ cluster \in Clusters /\ up \subseteq cluster.members
  /\ news \in [cluster.followed -> Age]
  /\ \A m \in up \cap cluster.followed : news[m] = 0

LEMMA GInvInParts ==
  GInv <=> /\ Settled /\ ViewIsReal(view) /\ \A s \in sends : SendIsReal(s)
           /\ beat \in [cluster.followed -> 0..MaxHeartbeat] /\ calm \in BOOLEAN
  BY DEF GInv, TypeOK, AgesAreReal, CopiesAreReal, Settled, ViewIsReal, SendIsReal

\* What an action that changes records and sends has to keep.
LEMMA KeptByParts ==
  ASSUME GInv, ViewIsReal(view'), \A s \in sends' : SendIsReal(s),
         UNCHANGED <<cluster, up, news, calm>>,
         beat' \in [cluster.followed -> 0..MaxHeartbeat]
  PROVE  GInv'
<1>1. ViewIsReal(view)'
  BY DEF ViewIsReal, Others
<1>2. (\A s \in sends : SendIsReal(s))'
  BY DEF SendIsReal, IsSend, Others
<1> QED
  BY <1>1, <1>2, GInvInParts DEF GInv, TypeOK, AgesAreReal, CopiesAreReal, ViewIsReal,
     SendIsReal, IsSend, Others

\* A node's list, or one record, is replaced by one as good.
LEMMA ListReplaced ==
  ASSUME GInv, NEW n \in cluster.members, NEW rs \in [Others(n) -> Member],
         n \in up => \A m \in Others(n) : rs[m].age >= news[m]
  PROVE  ViewIsReal([view EXCEPT ![n] = rs])
  BY GInvInParts DEF ViewIsReal, Settled

LEMMA RecordReplaced ==
  ASSUME NEW v, ViewIsReal(v), NEW n \in cluster.members, NEW m \in Others(n),
         NEW r \in Member, n \in up => r.age >= news[m]
  PROVE  ViewIsReal([v EXCEPT ![n][m] = r])
<1> DEFINE w == [v EXCEPT ![n][m] = r]
<1>1. DOMAIN w = cluster.members /\ w[n] = [v[n] EXCEPT ![m] = r]
  BY DEF ViewIsReal
<1>2. \A k \in cluster.members : k # n => w[k] = v[k]
  BY DEF ViewIsReal
<1>3. v[n] \in [Others(n) -> Member]
  BY DEF ViewIsReal
<1>4. w[n] \in [Others(n) -> Member]
  BY <1>1, <1>3
<1>5. \A k \in Others(n) : w[n][k] = IF k = m THEN r ELSE v[n][k]
  BY <1>1, <1>3
<1>6. n \in up => \A k \in Others(n) : w[n][k].age >= news[k]
  BY <1>5 DEF ViewIsReal
<1>7. \A k \in cluster.members : w[k] \in [Others(k) -> Member]
  BY <1>2, <1>4 DEF ViewIsReal
<1>8. \A k \in up : \A l \in Others(k) : w[k][l].age >= news[l]
  <2> SUFFICES ASSUME NEW k \in up PROVE \A l \in Others(k) : w[k][l].age >= news[l]
    OBVIOUS
  <2>1. CASE k = n
    BY <1>6, <2>1
  <2>2. CASE k # n
    <3>1. w[k] = v[k]
      BY <2>2 DEF ViewIsReal
    <3> QED BY <3>1 DEF ViewIsReal
  <2> QED BY <2>1, <2>2
<1> QED BY <1>1, <1>7, <1>8 DEF ViewIsReal

\* What a message makes of the receiver's records.
LEMMA PayloadFacts ==
  ASSUME GInv, NEW s \in sends
  PROVE  /\ processGossipPayload(s) \in [Others(s.to) -> Member]
         /\ s.to \in up => \A m \in Others(s.to) :
              /\ processGossipPayload(s)[m].age >= news[m]
              /\ processGossipPayload(s)[m].age <= view[s.to][m].age
              /\ processGossipPayload(s)[m].hb >= view[s.to][m].hb
<1> DEFINE fresh == [hb |-> s.hb, status |-> "alive", age |-> 0]
<1>1. IsSend(s) /\ s.from \in up /\ s.to \in cluster.members
  BY SendFacts, GInvInParts DEF SendIsReal
<1>2. fresh \in Member /\ fresh.age = 0
  BY <1>1, OlderFacts DEF Member, IsSend
<1>3. DOMAIN s.members = Others(s.from)
  BY <1>1 DEF IsSend
<1>4. view[s.to] \in [Others(s.to) -> Member]
  BY <1>1 DEF GInv, TypeOK
<1>5. ASSUME NEW m \in Others(s.to)
      PROVE  /\ processGossipPayload(s)[m] \in Member
             /\ s.to \in up =>
                  /\ processGossipPayload(s)[m].age >= news[m]
                  /\ processGossipPayload(s)[m].age <= view[s.to][m].age
                  /\ processGossipPayload(s)[m].hb >= view[s.to][m].hb
  <2> DEFINE r == view[s.to][m]
             got == processGossipPayload(s)[m]
  <2>1. r \in Member /\ (s.to \in up => r.age >= news[m])
    BY <1>4 DEF GInv, AgesAreReal
  <2>2. news[m] \in Age /\ (m \in up => news[m] = 0)
    BY DEF GInv, TypeOK, CopiesAreReal, Others
  <2>3. CASE m = s.from
    <3>1. got = updateMember(r, fresh)
      BY <2>3 DEF processGossipPayload
    <3>2. news[m] = 0
      BY <1>1, <2>2, <2>3
    <3>3. got \in Member /\ got.age \in Nat /\ got.age <= r.age /\ got.hb >= r.hb
      BY <1>2, <2>1, <3>1, UpdateMemberFacts DEF Member, Age
    <3> QED BY <3>2, <3>3
  <2>4. CASE m # s.from /\ m \in DOMAIN s.members
    <3>1. s.members[m] \in Member /\ s.members[m].age >= news[m]
      BY <1>1, <1>3, <2>4 DEF IsSend, GInv, AgesAreReal
    <3>2. got = updateMember(r, s.members[m])
      BY <2>4 DEF processGossipPayload
    <3> HIDE DEF r, got
    <3>3. /\ got \in Member /\ got.age \in {s.members[m].age, r.age}
          /\ got.age <= r.age /\ got.hb >= r.hb
      BY <2>1, <3>1, <3>2, UpdateMemberFacts
    <3>4. s.to \in up => got.age >= news[m]
      BY <2>1, <3>1, <3>3
    <3> QED BY <3>3, <3>4 DEF r, got
  <2>5. CASE m # s.from /\ m \notin DOMAIN s.members
    <3>1. got = r
      BY <2>5 DEF processGossipPayload
    <3> QED BY <2>1, <3>1 DEF Member, Age
  <2> QED BY <2>3, <2>4, <2>5
<1>6. processGossipPayload(s) = [m \in Others(s.to) |-> processGossipPayload(s)[m]]
  BY DEF processGossipPayload
<1> QED BY <1>5, <1>6

-----------------------------------------------------------------------------
\* Every action keeps the invariant.

LEMMA SendKeeps ==
  ASSUME GInv, NEW n \in cluster.members, NEW m \in cluster.members, Send(n, m)
  PROVE  GInv'
<1> DEFINE s == [from |-> n, to |-> m,
                 hb |-> IF n \in cluster.followed THEN beat[n] ELSE 0,
                 members |-> view[n], target |-> Current]
<1>1. SendIsReal(s)
  <2>1. n \in up /\ <<n, m>> \in DOMAIN cluster.links
    BY DEF Send
  <2>2. s.hb \in 0..MaxHeartbeat
    BY HeartbeatsAreBounded DEF GInv, TypeOK
  <2>3. view[n] \in [Others(n) -> Member] /\ \A k \in Others(n) : view[n][k].age >= news[k]
    BY <2>1 DEF GInv, TypeOK, AgesAreReal
  <2> QED BY <2>1, <2>2, <2>3 DEF SendIsReal, IsSend
<1>2. \A t \in sends' : SendIsReal(t)
  BY <1>1, GInvInParts DEF Send
<1>3. ViewIsReal(view') /\ beat' \in [cluster.followed -> 0..MaxHeartbeat]
  BY GInvInParts DEF Send
<1> QED BY <1>2, <1>3, KeptByParts DEF Send

LEMMA IncrementKeeps ==
  ASSUME GInv, NEW n, incrementHeartbeat(n)
  PROVE  GInv'
<1>1. beat' \in [cluster.followed -> 0..MaxHeartbeat]
  BY HeartbeatsAreBounded DEF incrementHeartbeat, GInv, TypeOK
<1>2. ViewIsReal(view') /\ \A t \in sends' : SendIsReal(t)
  BY GInvInParts DEF incrementHeartbeat
<1> QED BY <1>1, <1>2, KeptByParts DEF incrementHeartbeat

LEMMA SendsWithoutReal ==
  ASSUME GInv, NEW s \in sends, NEW stored \in BOOLEAN,
         stored => s.to \in cluster.followed
  PROVE  \A t \in SendsWithout(s, stored) : SendIsReal(t)
  BY SendsWithoutFacts DEF SendIsReal

LEMMA SendArrivesKeeps ==
  ASSUME GInv, NEW s \in sends, SendArrives(s)
  PROVE  GInv'
<1> DEFINE received == [view EXCEPT ![s.to] = processGossipPayload(s)]
           revive == s.to \in cluster.followed /\ TargetOf(s).status # "alive"
           again == [TargetOf(s) EXCEPT !.status = "alive", !.age = 0]
<1>1. s.to \in up /\ UNCHANGED <<cluster, up, beat, news, calm>>
  BY DEF SendArrives
<1>2. s.from \in cluster.members /\ s.to \in cluster.members
  BY SendFacts
<1>3. ViewIsReal(received)
  BY <1>2, PayloadFacts, ListReplaced
<1>4. beat' \in [cluster.followed -> 0..MaxHeartbeat]
  BY <1>1 DEF GInv, TypeOK
<1>5. CASE sends' = SendsWithout(s, revive)
           /\ view' = IF revive THEN [received EXCEPT ![s.from][s.to] = again]
                      ELSE received
  <2>1. \A t \in sends' : SendIsReal(t)
    BY <1>5, SendsWithoutReal
  <2>2. CASE revive
    <3>1. s.to \in Others(s.from) /\ TargetOf(s) \in Member
      BY <2>2, SendFacts
    <3>2. again \in Member /\ again.age = 0
      BY <3>1, OlderFacts DEF Member
    <3>3. news[s.to] = 0
      BY <1>1, <2>2 DEF GInv, CopiesAreReal
    <3> HIDE DEF received, again
    <3>4. ViewIsReal([received EXCEPT ![s.from][s.to] = again])
      BY <1>2, <1>3, <3>1, <3>2, <3>3, RecordReplaced
    <3> QED BY <1>1, <1>4, <1>5, <2>1, <2>2, <3>4, KeptByParts
  <2>3. CASE ~revive
    BY <1>1, <1>3, <1>4, <1>5, <2>1, <2>3, KeptByParts
  <2> QED BY <2>2, <2>3
<1>6. CASE view' = received /\ UNCHANGED sends
  <2>1. \A t \in sends' : SendIsReal(t)
    BY <1>6, GInvInParts
  <2> QED BY <1>1, <1>3, <1>4, <1>6, <2>1, KeptByParts
<1> QED BY <1>5, <1>6 DEF SendArrives

LEMMA SendFailsKeeps ==
  ASSUME GInv, NEW s \in sends, SendFails(s)
  PROVE  GInv'
<1> DEFINE suspect == [TargetOf(s) EXCEPT !.status = "suspected"]
<1>1. UNCHANGED <<cluster, up, beat, news, calm>>
      /\ beat' \in [cluster.followed -> 0..MaxHeartbeat]
  BY DEF SendFails, GInv, TypeOK
<1>2. \A t \in sends' : SendIsReal(t)
  <2> DEFINE stored == s.to \in cluster.followed
  <2>1. stored \in BOOLEAN /\ sends' = SendsWithout(s, stored)
    BY DEF SendFails
  <2> QED BY <2>1, SendsWithoutReal
<1>3. ViewIsReal(view')
  <2>1. CASE s.to \in cluster.followed
    <3>1. /\ s.from \in cluster.members /\ s.to \in Others(s.from)
          /\ TargetOf(s) \in Member /\ TargetOf(s).age >= news[s.to]
      BY <2>1, SendFacts
    <3>2. suspect \in Member /\ suspect.age = TargetOf(s).age
      BY <3>1 DEF Member
    <3>3. view' = [view EXCEPT ![s.from][s.to] = suspect]
      BY <2>1 DEF SendFails
    <3> HIDE DEF suspect
    <3>4. ViewIsReal(view) /\ suspect \in Member /\ suspect.age >= news[s.to]
      BY <3>1, <3>2, GInvInParts
    <3>5. ViewIsReal([view EXCEPT ![s.from][s.to] = suspect])
      BY <3>1, <3>4, RecordReplaced
    <3> QED BY <3>3, <3>5
  <2>2. CASE s.to \notin cluster.followed
    BY <2>2, GInvInParts DEF SendFails
  <2> QED BY <2>1, <2>2
<1> QED BY <1>1, <1>2, <1>3, KeptByParts

LEMMA CheckKeeps ==
  ASSUME GInv, NEW n \in cluster.members, checkMemberStatuses(n)
  PROVE  GInv'
<1> DEFINE rs == [m \in Others(n) |->
                    [view[n][m] EXCEPT !.status = StatusByAge(view[n][m])]]
<1>1. ASSUME NEW m \in Others(n)
      PROVE  rs[m] \in Member /\ rs[m].age = view[n][m].age
  <2>1. view[n][m] \in Member
    BY DEF GInv, TypeOK
  <2>2. StatusByAge(view[n][m]) \in {"alive", "suspected", "down"}
    BY DEF StatusByAge
  <2> QED BY <2>1, <2>2 DEF Member
<1>2. rs \in [Others(n) -> Member]
  BY <1>1
<1>3. n \in up => \A m \in Others(n) : rs[m].age >= news[m]
  BY <1>1 DEF GInv, AgesAreReal
<1>4. view' = [view EXCEPT ![n] = rs]
  BY DEF checkMemberStatuses
<1> HIDE DEF rs
<1>5. ViewIsReal(view')
  BY <1>2, <1>3, <1>4, ListReplaced
<1>6. \A t \in sends' : SendIsReal(t)
  BY GInvInParts DEF checkMemberStatuses
<1> QED BY <1>5, <1>6, KeptByParts DEF checkMemberStatuses, GInv, TypeOK

LEMMA TickKeeps ==
  ASSUME GInv, Tick
  PROVE  GInv'
<1>1. UNCHANGED <<cluster, up, beat, calm>>
  BY DEF Tick
<1>2. /\ news' \in [cluster.followed -> Age]
      /\ \A m \in cluster.followed :
           /\ \A a \in Age : a >= news[m] => Older(a) >= news'[m]
           /\ m \in up => news'[m] = 0
  <2>1. news' = [m \in cluster.followed |-> IF m \in up THEN 0 ELSE Older(news[m])]
    BY DEF Tick, GInv, TypeOK
  <2>2. \A m \in cluster.followed : news[m] \in Age
    BY DEF GInv, TypeOK
  <2>3. \A a \in Age : Older(a) >= 0
    BY OlderFacts DEF Age
  <2> QED BY <2>1, <2>2, <2>3, OlderFacts
\* Lists of records, and copies, stay as real as they were.
<1>3. ASSUME NEW n, NEW rs \in [Others(n) -> Member]
      PROVE  /\ AgedAll(rs) \in [Others(n) -> Member]
             /\ \A m \in Others(n) :
                  rs[m].age >= news[m] => AgedAll(rs)[m].age >= news'[m]
  <2>1. AgedAll(rs) = [m \in Others(n) |-> Aged(rs[m])]
    BY DEF AgedAll
  <2>2. \A m \in Others(n) : /\ Aged(rs[m]) \in Member
                             /\ Aged(rs[m]).age = Older(rs[m].age)
                             /\ rs[m].age \in Age
    BY AgedType DEF Member
  <2>3. \A m \in Others(n) : m \in cluster.followed
    BY DEF Others
  <2> QED BY <1>2, <2>1, <2>2, <2>3
<1>4. ViewIsReal(view)'
  <2>1. view' = [n \in cluster.members |->
                   IF n \in up THEN AgedAll(view[n]) ELSE view[n]]
    BY DEF Tick, GInv, TypeOK
  <2>2. /\ \A n \in cluster.members : view[n] \in [Others(n) -> Member]
        /\ \A n \in up : n \in cluster.members
        /\ \A n \in up : \A m \in Others(n) : view[n][m].age >= news[m]
    BY DEF GInv, TypeOK, AgesAreReal
  <2>3. \A n \in cluster.members : view'[n] \in [Others(n) -> Member]
    BY <1>3, <2>1, <2>2
  <2>4. \A n \in up : \A m \in Others(n) : view'[n][m].age >= news'[m]
    <3> SUFFICES ASSUME NEW n \in up, NEW m \in Others(n)
                 PROVE  view'[n][m].age >= news'[m]
      OBVIOUS
    <3>1. view'[n] = AgedAll(view[n])
      BY <2>1, <2>2
    <3> QED BY <1>3, <2>2, <3>1
  <2> QED BY <1>1, <2>1, <2>3, <2>4 DEF ViewIsReal, Others
<1>5. (\A s \in sends : SendIsReal(s))'
  <2> SUFFICES ASSUME NEW t \in sends' PROVE SendIsReal(t)'
    OBVIOUS
  <2>1. PICK s \in sends :
          t = [s EXCEPT !.members = AgedAll(@),
                        !.target = IF @ = Current THEN @ ELSE Aged(@)]
    BY DEF Tick
  <2>2. SendIsReal(s)
    BY GInvInParts
  <2>3. /\ DOMAIN t = DOMAIN s /\ t.from = s.from /\ t.to = s.to /\ t.hb = s.hb
        /\ t.members = AgedAll(s.members)
        /\ t.target = IF s.target = Current THEN Current ELSE Aged(s.target)
    BY <2>1, <2>2 DEF SendIsReal, IsSend
  <2>4. s.members \in [Others(s.from) -> Member]
    BY <2>2 DEF SendIsReal, IsSend
  <2>5. /\ t.members \in [Others(t.from) -> Member]
        /\ \A m \in DOMAIN t.members : t.members[m].age >= news'[m]
    <3>1. DOMAIN t.members = Others(s.from) /\ DOMAIN s.members = Others(s.from)
      BY <1>3, <2>3, <2>4
    <3> QED BY <1>3, <2>2, <2>3, <2>4, <3>1 DEF SendIsReal
  <2>6. /\ t.target \in Member \cup {Current}
        /\ t.target # Current /\ t.to \in cluster.followed =>
             t.target.age >= news'[t.to]
    <3>1. CASE s.target = Current
      BY <2>3, <3>1
    <3>2. CASE s.target # Current
      <4>1. s.target \in Member
        BY <2>2, <3>2 DEF SendIsReal, IsSend
      <4>2. t.target = Aged(s.target)
        BY <2>3, <3>2
      <4>3. /\ t.target \in Member /\ t.target.age = Older(s.target.age)
            /\ s.target.age \in Age
        BY <4>1, <4>2, AgedType DEF Member
      <4>4. t.to \in cluster.followed => s.target.age >= news[t.to]
        BY <2>2, <2>3, <3>2 DEF SendIsReal
      <4> QED BY <1>2, <4>3, <4>4
    <3> QED BY <3>1, <3>2
  <2> QED BY <1>1, <2>2, <2>3, <2>5, <2>6 DEF SendIsReal, IsSend, Others
<1>6. Settled'
  BY <1>1, <1>2 DEF Settled, GInv, TypeOK
<1>7. /\ beat' \in [cluster'.followed -> 0..MaxHeartbeat] /\ calm' \in BOOLEAN
      /\ cluster' \in Clusters
  BY <1>1 DEF GInv, TypeOK
<1> QED
  BY <1>4, <1>5, <1>6, <1>7 DEF GInv, TypeOK, AgesAreReal, CopiesAreReal, Settled,
     ViewIsReal, SendIsReal

LEMMA StopKeeps ==
  ASSUME GInv, NEW n \in cluster.members, Stop(n)
  PROVE  GInv'
<1>1. UNCHANGED <<cluster, news, calm>> /\ up' = up \ {n}
  BY DEF Stop
<1>2. beat' \in [cluster.followed -> 0..MaxHeartbeat]
  BY HeartbeatsAreBounded DEF Stop, GInv, TypeOK
<1>3. ViewIsReal(view)'
  <2>1. NewGossipService(n) \in [Others(n) -> Member]
    BY NewMemberType DEF NewGossipService
  <2>2. /\ DOMAIN view' = cluster.members /\ view'[n] = NewGossipService(n)
        /\ \A k \in cluster.members : k # n => view'[k] = view[k]
    BY DEF Stop, GInv, TypeOK
  <2>3. \A k \in cluster.members : view'[k] \in [Others(k) -> Member]
    BY <2>1, <2>2 DEF GInv, TypeOK
  <2>4. \A k \in up' : \A m \in Others(k) : view'[k][m].age >= news[m]
    BY <1>1, <2>2 DEF GInv, TypeOK, AgesAreReal
  <2> QED BY <1>1, <2>2, <2>3, <2>4 DEF ViewIsReal, Others
<1>4. (\A s \in sends : SendIsReal(s))'
  <2>1. \A s \in sends' : SendIsReal(s) /\ s.from # n
    BY GInvInParts DEF Stop
  <2> QED BY <1>1, <2>1 DEF SendIsReal, IsSend, Others
<1>5. Settled'
  BY <1>1, GInvInParts DEF Settled
<1> QED
  BY <1>1, <1>2, <1>3, <1>4, <1>5 DEF GInv, TypeOK, AgesAreReal, CopiesAreReal,
     Settled, ViewIsReal, SendIsReal

LEMMA StartKeeps ==
  ASSUME GInv, NEW n \in cluster.members, Start(n)
  PROVE  GInv'
<1>1. /\ UNCHANGED <<cluster, beat, view, sends, calm>> /\ up' = up \cup {n}
      /\ news' = [m \in cluster.followed |-> 0]
  BY DEF Start, GInv, TypeOK
<1>2. \A k : Others(k) \subseteq cluster.followed
  BY DEF Others
<1>3. \A r \in Member : r.age \in Nat
  BY OlderFacts DEF Member, Age
<1>4. ViewIsReal(view)'
  <2>1. ASSUME NEW k \in up', NEW m \in Others(k)
        PROVE  view'[k][m].age >= news'[m]
    <3>1. view[k][m] \in Member
      BY <1>1 DEF GInv, TypeOK
    <3> QED BY <1>1, <1>2, <1>3, <3>1
  <2> QED BY <1>1, <2>1 DEF ViewIsReal, GInv, TypeOK, Others
<1>5. (\A s \in sends : SendIsReal(s))'
  <2> SUFFICES ASSUME NEW s \in sends PROVE SendIsReal(s)'
    BY <1>1
  <2>1. SendIsReal(s)
    BY GInvInParts
  <2>2. \A m \in DOMAIN s.members : s.members[m].age >= news'[m]
    <3>1. s.members \in [Others(s.from) -> Member]
      BY <2>1 DEF SendIsReal, IsSend
    <3> QED BY <1>1, <1>2, <1>3, <3>1
  <2>3. s.target # Current /\ s.to \in cluster.followed => s.target.age >= news'[s.to]
    BY <1>1, <1>3, <2>1 DEF SendIsReal, IsSend
  <2> QED BY <1>1, <2>1, <2>2, <2>3 DEF SendIsReal, IsSend, Others
<1>6. Settled'
  BY <1>1, OlderFacts DEF Settled, GInv, TypeOK
<1> QED
  BY <1>1, <1>4, <1>5, <1>6 DEF GInv, TypeOK, AgesAreReal, CopiesAreReal,
     Settled, ViewIsReal, SendIsReal

LEMMA GossipStep == GInv /\ [Next]_vars => GInv'
<1> SUFFICES ASSUME GInv, [Next]_vars PROVE GInv'
  OBVIOUS
<1>1. ASSUME NEW n \in cluster.members, NEW m \in cluster.members,
             Send(n, m) \/ SendEnds(n, m)
      PROVE  GInv'
  BY <1>1, SendKeeps, SendArrivesKeeps, SendFailsKeeps DEF SendEnds, SendsTo
<1>2. ASSUME NEW n \in cluster.members,
             incrementHeartbeat(n) \/ checkMemberStatuses(n) \/ Stop(n) \/ Start(n)
      PROVE  GInv'
  BY <1>2, IncrementKeeps, CheckKeeps, StopKeeps, StartKeeps
<1>3. CASE Tick
  BY <1>3, TickKeeps
<1>4. CASE Calm
  BY <1>4 DEF Calm, GInv, TypeOK, AgesAreReal, CopiesAreReal, IsSend, Others
<1>5. CASE UNCHANGED vars
  BY <1>5 DEF vars, GInv, TypeOK, AgesAreReal, CopiesAreReal, IsSend, Others
<1> QED BY <1>1, <1>2, <1>3, <1>4, <1>5 DEF Next

\* Records, messages and the copies goroutines hold have their types, for any
\* clusters, timeouts and numbers of sends.
THEOREM GossipTypeCorrect == Spec => []TypeOK
<1>1. GInv => TypeOK
  BY DEF GInv
<1> QED BY <1>1, GossipInit, GossipStep, PTL DEF Spec

\* Nothing any node says, repeats or stores late makes a node look fresher
\* than it last was up: about updateMember, the ends of sendGossipToNode, and
\* the messages of createGossipMessage.
THEOREM RecordsAreReal == Spec => []AgesAreReal
<1>1. GInv => AgesAreReal
  BY DEF GInv
<1> QED BY <1>1, GossipInit, GossipStep, PTL DEF Spec

-----------------------------------------------------------------------------
\* What is heard is not forgotten.

LEMMA RecordStays ==
  ASSUME GInv, NEW n \in up \cap up', NEW m \in Others(n),
         \/ view'[n][m] = view[n][m]
         \/ \E status : view'[n][m] = [view[n][m] EXCEPT !.status = status]
  PROVE  KeepsNews(n, m)
<1>1. view[n][m] \in Member
  BY DEF GInv, TypeOK
<1>2. view'[n][m].age = view[n][m].age /\ view'[n][m].hb = view[n][m].hb
  BY <1>1 DEF Member
<1>3. view[n][m].age \in Int /\ view[n][m].hb \in Int
  BY <1>1, OlderFacts DEF Member, Age
<1> QED BY <1>2, <1>3 DEF KeepsNews

\* A record is stored again only as it stands, but for a send that held a
\* copy; should that send stay, as another one, its copy is the record.
LEMMA StoredAsItStands ==
  ASSUME NEW s \in sends, IsSend(s), \A u \in sends : IsSend(u),
         sends' = SendsWithout(s, TRUE)
  PROVE  \/ TargetOf(s) = view[s.from][s.to]
         \/ s \in sends \ sends' /\ s.target # Current
<1>1. CASE s.target = Current
  BY <1>1 DEF TargetOf
<1>2. CASE s.target # Current /\ s \in sends'
  <2>1. PICK u \in sends \ {s} :
          s = IF u.from = s.from /\ u.to = s.to /\ u.target = Current
              THEN [u EXCEPT !.target = view[s.from][s.to]] ELSE u
    BY <1>2 DEF SendsWithout
  <2>2. s = [u EXCEPT !.target = view[s.from][s.to]]
    BY <2>1
  <2>3. s.target = view[s.from][s.to]
    BY <2>2 DEF IsSend
  <2> QED BY <1>2, <2>3 DEF TargetOf
<1> QED BY <1>1, <1>2

LEMMA SendArrivesKeepsNews ==
  ASSUME GInv, NEW s \in sends, SendArrives(s), NEW n \in up, NEW m \in Others(n),
         n \in up'
  PROVE  KeepsNews(n, m)
<1> DEFINE received == [view EXCEPT ![s.to] = processGossipPayload(s)]
           revive == s.to \in cluster.followed /\ TargetOf(s).status # "alive"
           again == [TargetOf(s) EXCEPT !.status = "alive", !.age = 0]
<1>1. /\ s.from \in cluster.members /\ s.to \in cluster.members /\ s.from # s.to
      /\ s.to \in up /\ n \in cluster.members
      /\ DOMAIN view = cluster.members /\ \A u \in sends : IsSend(u)
  BY SendFacts DEF SendArrives, GInv, TypeOK
<1>2. /\ received[s.to] = processGossipPayload(s)
      /\ n # s.to => received[n] = view[n]
      /\ DOMAIN received = cluster.members
  BY <1>1
<1>3. \/ view' = received
      \/ /\ revive /\ sends' = SendsWithout(s, TRUE)
         /\ view' = [received EXCEPT ![s.from][s.to] = again]
  BY DEF SendArrives
<1>4. CASE n = s.to
  <2>1. view'[n] = processGossipPayload(s)
    <3> HIDE DEF received, again, revive
    <3> QED BY <1>1, <1>2, <1>3, <1>4
  <2> QED BY <1>1, <1>4, <2>1, PayloadFacts DEF KeepsNews
<1>5. CASE n # s.to /\ (view' = received \/ n # s.from \/ m # s.to)
  <2>1. view'[n][m] = view[n][m]
    <3>1. view[n] \in [Others(n) -> Member]
      BY <1>1 DEF GInv, TypeOK
    <3>2. received[n] = view[n]
      BY <1>2, <1>5
    <3> HIDE DEF received, again, revive
    <3>3. CASE view' = received
      BY <3>2, <3>3
    <3>4. CASE /\ view' = [received EXCEPT ![s.from][s.to] = again]
               /\ n # s.from \/ m # s.to
      <4>1. CASE n # s.from
        BY <1>1, <1>2, <3>2, <3>4, <4>1
      <4>2. CASE n = s.from /\ m # s.to
        <5>1. view'[n] = [received[n] EXCEPT ![s.to] = again]
          BY <1>1, <1>2, <3>4, <4>2
        <5> QED BY <3>1, <3>2, <4>2, <5>1
      <4> QED BY <3>4, <4>1, <4>2
    <3> QED BY <1>3, <1>5, <3>3, <3>4
  <2> QED BY <2>1, RecordStays
<1>6. CASE n = s.from /\ m = s.to /\ view' # received
  <2>1. /\ s.to \in cluster.followed /\ sends' = SendsWithout(s, TRUE)
        /\ view' = [received EXCEPT ![s.from][s.to] = again]
    BY <1>3, <1>6
  <2>2. TargetOf(s) \in Member /\ view[n] \in [Others(n) -> Member]
    BY <1>1, <2>1, SendFacts DEF GInv, TypeOK
  <2>3. received[n] = view[n]
    BY <1>1, <1>2, <1>6
  <2>4. view'[n][m] = again
    <3> HIDE DEF received, again
    <3> QED BY <1>1, <1>2, <1>6, <2>1, <2>2, <2>3
  <2>5. again.age = 0 /\ again.hb = TargetOf(s).hb
    BY <2>2 DEF Member
  <2>6. view[n][m].age \in Nat /\ view[n][m].hb \in Int
    BY <2>2, OlderFacts DEF Member, Age
  <2>7. CASE TargetOf(s) = view[n][m]
    BY <2>4, <2>5, <2>6, <2>7 DEF KeepsNews
  <2>8. CASE s \in sends \ sends' /\ s.target # Current
    BY <1>6, <2>8 DEF KeepsNews
  <2> QED BY <1>1, <1>6, <2>1, <2>7, <2>8, StoredAsItStands
<1> QED BY <1>4, <1>5, <1>6

LEMMA SendFailsKeepsNews ==
  ASSUME GInv, NEW s \in sends, SendFails(s), NEW n \in up, NEW m \in Others(n),
         n \in up'
  PROVE  KeepsNews(n, m)
<1> DEFINE suspect == [TargetOf(s) EXCEPT !.status = "suspected"]
<1>1. /\ s.from \in cluster.members /\ n \in cluster.members
      /\ DOMAIN view = cluster.members /\ view[n] \in [Others(n) -> Member]
      /\ \A u \in sends : IsSend(u)
  BY SendFacts DEF GInv, TypeOK
<1>2. CASE s.to \in cluster.followed /\ n = s.from /\ m = s.to
  <2>1. sends' = SendsWithout(s, TRUE) /\ view' = [view EXCEPT ![n][m] = suspect]
    BY <1>2 DEF SendFails
  <2>2. view'[n][m] = suspect
    BY <1>1, <2>1
  <2>3. CASE TargetOf(s) = view[n][m]
    BY <2>2, <2>3, RecordStays
  <2>4. CASE s \in sends \ sends' /\ s.target # Current
    BY <1>2, <2>4 DEF KeepsNews
  <2> QED BY <1>1, <1>2, <2>1, <2>3, <2>4, StoredAsItStands
<1>3. CASE ~(s.to \in cluster.followed /\ n = s.from /\ m = s.to)
  <2>1. view'[n][m] = view[n][m]
    BY <1>1, <1>3 DEF SendFails
  <2> QED BY <2>1, RecordStays
<1> QED BY <1>2, <1>3

LEMMA StepKeepsNews ==
  ASSUME GInv, Next, NEW n \in up \cap up', NEW m \in Others(n)
  PROVE  KeepsNews(n, m)
<1>0. n \in cluster.members /\ DOMAIN view = cluster.members
  BY DEF GInv, TypeOK
<1>1. ASSUME NEW k, NEW l, Send(k, l) \/ incrementHeartbeat(k) \/ Start(k) \/ Calm
      PROVE  KeepsNews(n, m)
  BY <1>1, RecordStays DEF Send, incrementHeartbeat, Start, Calm
<1>2. ASSUME NEW k, NEW l, SendEnds(k, l)
      PROVE  KeepsNews(n, m)
  BY <1>2, SendArrivesKeepsNews, SendFailsKeepsNews DEF SendEnds, SendsTo
<1>3. ASSUME NEW k, checkMemberStatuses(k)
      PROVE  KeepsNews(n, m)
  <2>1. \/ view'[n][m] = view[n][m]
        \/ view'[n][m] = [view[n][m] EXCEPT !.status = StatusByAge(view[n][m])]
    BY <1>0, <1>3 DEF checkMemberStatuses
  <2> QED BY <2>1, RecordStays
<1>4. ASSUME NEW k, Stop(k)
      PROVE  KeepsNews(n, m)
  <2>1. n # k /\ view'[n] = view[n]
    BY <1>4 DEF Stop
  <2> QED BY <2>1, RecordStays
<1> QED BY <1>1, <1>2, <1>3, <1>4 DEF Next, KeepsNews

\* Hearing late or at third hand takes nothing back: about updateMember, and
\* why sendGossipToNode's pointers are the one exception.
THEOREM NewsStaysKept == Spec => NewsIsKept
<1>1. GInv /\ [Next]_vars =>
        [\A n \in up \cap up' : \A m \in Others(n) : KeepsNews(n, m)]_vars
  BY StepKeepsNews
<1> QED BY <1>1, GossipInit, GossipStep, PTL DEF Spec, NewsIsKept
=============================================================================
