------------------------------- MODULE Gossip -------------------------------
(* src/backend/gossip.go: heartbeats, hearsay and failure detection, with    *)
(* the ExchangeGossip handler of grpc_transport.go.                          *)
(*                                                                           *)
(* A member's LastSeen is an instant; here it is an age, counted in ticks of *)
(* three seconds and not further than a check can tell.  Every age grows by  *)
(* one at a tick, those in messages and in replaced records too.             *)
(*                                                                           *)
(* A goroutine that sends gossip keeps a pointer to the record it was given; *)
(* handlers and checks change that record in place, the end of a send puts a *)
(* new one in its place.  A target is therefore Current, or a copy that only *)
(* the goroutine still holds.                                                *)
(*                                                                           *)
(* Initial states choose one of Clusters.  Records of members that are not   *)
(* followed are left out, and anything they may say is possible.             *)
EXTENDS Integers, FiniteSets

CONSTANTS
  Clusters,          \* records: the members, those followed, and, a bound,
                     \* the sends that may be under way at once on each link
  SuspicionTimeout, FailureTimeout,   \* of checkMemberStatuses, in ticks
  MaxHeartbeat,      \* bound: a node's heartbeat stays there
  MayCrash,          \* bound: the nodes that may stop and start again
  Current

ASSUME TimeoutsInOrder ==
  SuspicionTimeout \in Nat /\ FailureTimeout \in Nat
    /\ SuspicionTimeout < FailureTimeout
ASSUME HeartbeatsAreBounded == MaxHeartbeat \in Nat
ASSUME ClustersAreSound ==
  \A cl \in Clusters :
    /\ cl.followed \subseteq cl.members
    /\ \A l \in DOMAIN cl.links :
         l \in cl.members \X cl.members /\ l[1] # l[2]

VARIABLES
  cluster,   \* the one that runs
  up,        \* the nodes that run
  beat,      \* Self.Heartbeat of every followed node
  view,      \* Members: each node's record of each followed one but itself
  sends,     \* sendGossipToNode goroutines
  news,      \* history: ticks since the node was last up, or any node started
  calm       \* no node stops or starts any more and the network is whole

vars == <<cluster, up, beat, view, sends, news, calm>>

MaxAge == FailureTimeout + 1     \* and more
Age == 0..MaxAge
Member == [hb : 0..MaxHeartbeat, status : {"alive", "suspected", "down"}, age : Age]

Others(n) == cluster.followed \ {n}

\* A message of from to to, in its attempts: the sender's heartbeat, what it
\* says of others, and the record of to that the goroutine points to.
IsSend(s) ==
  /\ DOMAIN s = {"from", "to", "hb", "members", "target"}
  /\ <<s.from, s.to>> \in DOMAIN cluster.links
  /\ s.hb \in 0..MaxHeartbeat
  /\ s.members \in [Others(s.from) -> Member]
  /\ s.target \in Member \cup {Current}

TypeOK ==
  /\ cluster \in Clusters
  /\ up \subseteq cluster.members
  /\ beat \in [cluster.followed -> 0..MaxHeartbeat]
  /\ DOMAIN view = cluster.members
  /\ \A n \in cluster.members : view[n] \in [Others(n) -> Member]
  /\ \A s \in sends : IsSend(s)
  /\ news \in [cluster.followed -> Age]
  /\ calm \in BOOLEAN

NewMember == [hb |-> 0, status |-> "alive", age |-> 0]

NewGossipService(n) == [m \in Others(n) |-> NewMember]

Init ==
  /\ cluster \in Clusters
  /\ up = cluster.members
  /\ beat = [m \in cluster.followed |-> 0]
  /\ view = [n \in cluster.members |-> NewGossipService(n)]
  /\ sends = {}
  /\ news = [m \in cluster.followed |-> 0]
  /\ calm = FALSE

-----------------------------------------------------------------------------
(* Sending *)

SendsTo(n, m) == {s \in sends : s.from = n /\ s.to = m}

\* A tick of gossipLoop gives each member that is not down, two at most, a
\* goroutine that makes its message; members that are not followed may have
\* any status, and two others are all there are.
Send(n, m) ==
  /\ n \in up /\ <<n, m>> \in DOMAIN cluster.links
  /\ m \in cluster.followed => view[n][m].status # "down"
  /\ Cardinality(SendsTo(n, m)) < cluster.links[<<n, m>>]
  /\ sends' = sends \cup
       {[from |-> n, to |-> m,
         hb |-> IF n \in cluster.followed THEN beat[n] ELSE 0,
         members |-> view[n], target |-> Current]}
  /\ UNCHANGED <<cluster, up, beat, view, news, calm>>

incrementHeartbeat(n) ==
  /\ n \in up \cap cluster.followed /\ beat[n] < MaxHeartbeat
  /\ beat' = [beat EXCEPT ![n] = @ + 1]
  /\ UNCHANGED <<cluster, up, view, sends, news, calm>>

Least(x, y) == IF x < y THEN x ELSE y

\* Mutant: hearing anything about a node is taken for hearing from it, as in
\* the version of updateMember that is commented out.
updateMemberRefreshing(current, new) ==
  [hb |-> IF new.hb > current.hb THEN new.hb ELSE current.hb,
   status |-> IF new.hb > current.hb /\ new.status = "alive" THEN "alive"
              ELSE current.status,
   age |-> 0]

\* Mutant: LastSeen is taken over without a look at which is later.
updateMemberUnordered(current, new) ==
  [hb |-> IF new.hb > current.hb THEN new.hb ELSE current.hb,
   status |-> IF new.hb > current.hb /\ new.status = "alive" THEN "alive"
              ELSE current.status,
   age |-> new.age]

\* What becomes of a record when something is heard of its node.
updateMember(current, new) ==
  LET status == IF new.hb > current.hb /\ new.status = "alive" THEN "alive"
                ELSE current.status
  IN  [hb |-> IF new.hb > current.hb THEN new.hb ELSE current.hb,
       status |-> IF new.status = "down" /\ status # "down" THEN "suspected"
                  ELSE status,
       age |-> Least(new.age, current.age)]

\* Mutant: what others say of the receiver itself is not skipped.
processGossipPayloadOfSelf(s) ==
  [m \in Others(s.to) \cup DOMAIN s.members |->
     IF m = s.from
     THEN updateMember(view[s.to][m],
                       [hb |-> s.hb, status |-> "alive", age |-> 0])
     ELSE IF m = s.to THEN s.members[m]
     ELSE IF m \in DOMAIN s.members
     THEN updateMember(view[s.to][m], s.members[m])
     ELSE view[s.to][m]]

\* The receiver's records after message s: first the sender's, then those of
\* the members the message speaks of.
processGossipPayload(s) ==
  [m \in Others(s.to) |->
     IF m = s.from
     THEN updateMember(view[s.to][m],
                       [hb |-> s.hb, status |-> "alive", age |-> 0])
     ELSE IF m \in DOMAIN s.members
     THEN updateMember(view[s.to][m], s.members[m])
     ELSE view[s.to][m]]

\* The sends after s has ended, and put a new record at its sender if stored:
\* the goroutines that pointed to the old one keep it as a copy.
SendsWithout(s, stored) ==
  {IF stored /\ t.from = s.from /\ t.to = s.to /\ t.target = Current
   THEN [t EXCEPT !.target = view[s.from][s.to]] ELSE t : t \in sends \ {s}}

TargetOf(s) == IF s.target = Current THEN view[s.from][s.to] ELSE s.target

\* ExchangeGossip is executed.  The sender learns of it and may take the
\* target for alive again, or it does not and will try again.
SendArrives(s) ==
  LET received == [view EXCEPT ![s.to] = processGossipPayload(s)]
      revive == s.to \in cluster.followed /\ TargetOf(s).status # "alive"
  IN
  /\ s.to \in up
  /\ \/ /\ sends' = SendsWithout(s, revive)
        /\ view' = IF revive
                   THEN [received EXCEPT ![s.from][s.to] =
                           [TargetOf(s) EXCEPT !.status = "alive", !.age = 0]]
                   ELSE received
     \/ /\ ~calm
        /\ view' = received
        /\ UNCHANGED sends
  /\ UNCHANGED <<cluster, up, beat, news, calm>>

\* Five attempts have failed: the record the goroutine was given is stored
\* again, as suspected.
SendFails(s) ==
  /\ calm => s.to \notin up
  /\ sends' = SendsWithout(s, s.to \in cluster.followed)
  /\ view' = IF s.to \in cluster.followed
             THEN [view EXCEPT ![s.from][s.to] =
                     [TargetOf(s) EXCEPT !.status = "suspected"]]
             ELSE view
  /\ UNCHANGED <<cluster, up, beat, news, calm>>

-----------------------------------------------------------------------------
(* Failure detection *)

\* Mutant: what was heard lately does not revive a member.
StatusWithoutRevival(r) ==
  IF r.age > FailureTimeout THEN "down"
  ELSE IF r.age > SuspicionTimeout THEN "suspected"
  ELSE r.status

StatusByAge(r) ==
  IF r.age > FailureTimeout THEN "down"
  ELSE IF r.age > SuspicionTimeout THEN "suspected"
  ELSE "alive"

checkMemberStatuses(n) ==
  /\ n \in up
  /\ view' = [view EXCEPT ![n] =
       [m \in Others(n) |->
          [view[n][m] EXCEPT !.status = StatusByAge(view[n][m])]]]
  /\ UNCHANGED <<cluster, up, beat, sends, news, calm>>

Older(a) == Least(a + 1, MaxAge)
Aged(r) == [r EXCEPT !.age = Older(@)]
AgedAll(rs) == [m \in DOMAIN rs |-> Aged(rs[m])]

\* Three seconds, in which every node checks: what was heard before the last
\* tick has by now lost the status down, unless its age deserves it.
Tick ==
  /\ \A n \in up : \A r \in {view[n][m] : m \in Others(n)} :
       r.status = "down" /\ r.age > 0 => r.age > FailureTimeout
  /\ view' = [n \in DOMAIN view |-> IF n \in up THEN AgedAll(view[n]) ELSE view[n]]
  /\ sends' = {[s EXCEPT !.members = AgedAll(@),
                         !.target = IF @ = Current THEN @ ELSE Aged(@)] : s \in sends}
  /\ news' = [m \in DOMAIN news |-> IF m \in up THEN 0 ELSE Older(news[m])]
  /\ UNCHANGED <<cluster, up, beat, calm>>

-----------------------------------------------------------------------------
(* A node stops, with its goroutines, and starts again with a fresh list and
   its heartbeat at 0. *)
Stop(n) ==
  /\ ~calm /\ n \in up \cap MayCrash
  /\ up' = up \ {n}
  /\ sends' = {s \in sends : s.from # n}
  /\ view' = [view EXCEPT ![n] = NewGossipService(n)]
  /\ beat' = [m \in DOMAIN beat |-> IF m = n THEN 0 ELSE beat[m]]
  /\ UNCHANGED <<cluster, news, calm>>

Start(n) ==
  /\ ~calm /\ n \in cluster.members \ up
  /\ up' = up \cup {n}
  /\ news' = [m \in DOMAIN news |-> 0]
  /\ UNCHANGED <<cluster, beat, view, sends, calm>>

Calm ==
  /\ ~calm /\ calm' = TRUE
  /\ UNCHANGED <<cluster, up, beat, view, sends, news>>

-----------------------------------------------------------------------------
SendEnds(n, m) == \E s \in SendsTo(n, m) : SendArrives(s) \/ SendFails(s)

Next ==
  \/ \E n \in cluster.members :
       \/ \E m \in cluster.members : Send(n, m) \/ SendEnds(n, m)
       \/ incrementHeartbeat(n)
       \/ checkMemberStatuses(n)
       \/ Stop(n) \/ Start(n)
  \/ Tick
  \/ Calm

Spec == Init /\ [][Next]_vars

Nodes == UNION {cl.members : cl \in Clusters}
\* Both ends are followed.
FollowedLinks ==
  UNION {{l \in DOMAIN cl.links : {l[1], l[2]} \subseteq cl.followed} : cl \in Clusters}

\* The tickers go on, time passes, and a send ends at the latest after its
\* attempts.  The gossip ticker is twice as fast as the one that checks, so
\* what a check leaves not down stays so until gossip is sent: the fairness
\* of Send is strong.  Nothing is promised where a record is left out: the
\* sender might hold the member for down.
FairSpec ==
  /\ Spec
  /\ WF_vars(Tick)
  /\ \A n \in Nodes : WF_vars(checkMemberStatuses(n))
  /\ \A l \in FollowedLinks : SF_vars(Send(l[1], l[2]))
  /\ \A l \in FollowedLinks : WF_vars(SendEnds(l[1], l[2]))

-----------------------------------------------------------------------------
\* No record, wherever it is, is fresher than its node was last up, or than
\* the last start of a node, whose list begins with everybody alive: what
\* nodes say of each other never makes a dead one look recent.  About the
\* comment "This prevents third-party gossip from continuously refreshing a
\* failed node's LastSeen timestamp" (gossip.go:363).
AgesAreReal ==
  /\ \A n \in up : \A m \in Others(n) : view[n][m].age >= news[m]
  /\ \A s \in sends : \A m \in DOMAIN s.members : s.members[m].age >= news[m]

KeepsNews(n, m) ==
  \/ Tick
  \/ /\ view'[n][m].age <= view[n][m].age
     /\ view'[n][m].hb >= view[n][m].hb
  \/ \E s \in sends \ sends' : s.from = n /\ s.to = m /\ s.target # Current

\* A record of a running node loses neither a later LastSeen nor a higher
\* heartbeat, unless a send ends that began before another one replaced the
\* record.  About updateMember and the two ways sendGossipToNode ends.
NewsIsKept ==
  [][\A n \in up \cap up' : \A m \in Others(n) : KeepsNews(n, m)]_vars

\* Once no node starts or stops any more, every running node comes to hold
\* those that are down for unavailable, and for good: neither hearsay, nor
\* late messages, nor sends that were still trying bring them back.
DeadStayUnavailable ==
  <>[]calm =>
    <>[](\A n \in up : \A m \in cluster.followed \ up : view[n][m].status # "alive")

Pairs(nodes) == {p \in nodes \X nodes : p[1] # p[2]}

HoldsFor(n, m, status) ==
  <<n, m>> \in Pairs(up \cap cluster.followed) /\ view[n][m].status = status

\* Once the network is whole, two running nodes take each other for available
\* again and again, whatever their heartbeats were before a restart, unless
\* both hold the other for down and no longer speak: that alone is for ever.
OnlyMutualDownIsForever ==
  <>[]calm =>
    \A p \in UNION {Pairs(cl.followed) : cl \in Clusters} :
      \/ []<>(p \in Pairs(up \cap cluster.followed) => HoldsFor(p[1], p[2], "alive"))
      \/ <>[](HoldsFor(p[1], p[2], "down") /\ HoldsFor(p[2], p[1], "down"))
=============================================================================
