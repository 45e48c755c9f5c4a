-------------------------- MODULE VersionTheorems --------------------------
(* Facts about clocks (VectorClock) and versions (StoredValue), for any set  *)
(* of nodes and of writes.                                                   *)
EXTENDS StoredValue, TLAPS

-----------------------------------------------------------------------------
(* Clocks *)

\* Merge and Increment give clocks, and so does the constructor.
LEMMA ClockOperationsType ==
  /\ NewVectorClock \in Clock
  /\ \A x, y \in Clock : Merge(x, y) \in Clock
  /\ \A x \in Clock : \A n \in Node : Increment(x, n) \in Clock
  BY DEF Clock, NewVectorClock, Merge, Increment

\* Leq is a partial order on clocks.
LEMMA LeqIsPartialOrder ==
  /\ \A x \in Clock : Leq(x, x)
  /\ \A x, y, z \in Clock : Leq(x, y) /\ Leq(y, z) => Leq(x, z)
  /\ \A x, y \in Clock : Leq(x, y) /\ Leq(y, x) => x = y
<1>1. \A x \in Clock : Leq(x, x)
  BY DEF Clock, Leq
<1>2. ASSUME NEW x \in Clock, NEW y \in Clock, NEW z \in Clock,
             Leq(x, y), Leq(y, z)
      PROVE  Leq(x, z)
  <2>1. ASSUME NEW m \in Node
        PROVE  x[m] <= z[m]
    <3>1. x[m] \in Nat /\ y[m] \in Nat /\ z[m] \in Nat
      BY DEF Clock
    <3>2. x[m] <= y[m] /\ y[m] <= z[m]
      BY <1>2 DEF Leq
    <3> QED BY <3>1, <3>2
  <2> QED BY <2>1 DEF Leq
<1>3. ASSUME NEW x \in Clock, NEW y \in Clock, Leq(x, y), Leq(y, x)
      PROVE  x = y
  <2>1. ASSUME NEW m \in Node
        PROVE  x[m] = y[m]
    <3>1. x[m] \in Nat /\ y[m] \in Nat
      BY DEF Clock
    <3>2. x[m] <= y[m] /\ y[m] <= x[m]
      BY <1>3 DEF Leq
    <3> QED BY <3>1, <3>2
  <2> QED BY <2>1 DEF Clock
<1> QED BY <1>1, <1>2, <1>3

\* Merge is the least upper bound (VectorClock.Merge loses no entry and
\* invents none).
THEOREM MergeIsJoin ==
  \A x, y \in Clock :
    /\ Leq(x, Merge(x, y))
    /\ Leq(y, Merge(x, y))
    /\ \A z \in Clock : Leq(x, z) /\ Leq(y, z) => Leq(Merge(x, y), z)
  BY DEF Clock, Leq, Merge

\* A write's clock is strictly above the clock its coordinator read.
LEMMA IncrementIsAbove ==
  \A x \in Clock : \A n \in Node :
    Leq(x, Increment(x, n)) /\ ~Leq(Increment(x, n), x)
  BY DEF Clock, Leq, Increment

\* The three answers of compareVectorClocks are exactly the cases of the
\* causal order, identical clocks being "older".
THEOREM CompareIsCausalOrder ==
  \A x, y \in Clock :
    /\ compareVectorClocks(x, y) = "older" <=> Leq(y, x)
    /\ compareVectorClocks(x, y) = "newer" <=> Leq(x, y) /\ ~Leq(y, x)
    /\ compareVectorClocks(x, y) = "concurrent" <=> ~Leq(x, y) /\ ~Leq(y, x)
<1> SUFFICES ASSUME NEW x \in Clock, NEW y \in Clock
             PROVE  /\ compareVectorClocks(x, y) = "older" <=> Leq(y, x)
                    /\ compareVectorClocks(x, y) = "newer"
                         <=> Leq(x, y) /\ ~Leq(y, x)
                    /\ compareVectorClocks(x, y) = "concurrent"
                         <=> ~Leq(x, y) /\ ~Leq(y, x)
  OBVIOUS
<1>1. Exceeds(x, y) <=> ~Leq(x, y)
  BY DEF Exceeds, Leq, Clock
<1>2. Exceeds(y, x) <=> ~Leq(y, x)
  BY DEF Exceeds, Leq, Clock
<1> QED BY <1>1, <1>2 DEF compareVectorClocks

\* The method Compare and the function compareVectorClocks agree; Compare
\* alone cannot tell identical clocks from concurrent ones.
THEOREM CompareAgrees ==
  \A x, y \in Clock :
    /\ Compare(x, y) = 1 <=> compareVectorClocks(x, y) = "older" /\ x # y
    /\ Compare(x, y) = -1 <=> compareVectorClocks(x, y) = "newer"
    /\ Compare(x, y) = 0 <=>
         compareVectorClocks(x, y) = "concurrent" \/ x = y
<1> SUFFICES ASSUME NEW x \in Clock, NEW y \in Clock
             PROVE  /\ Compare(x, y) = 1 <=>
                         compareVectorClocks(x, y) = "older" /\ x # y
                    /\ Compare(x, y) = -1 <=>
                         compareVectorClocks(x, y) = "newer"
                    /\ Compare(x, y) = 0 <=>
                         compareVectorClocks(x, y) = "concurrent" \/ x = y
  OBVIOUS
<1>1. Exceeds(x, y) <=> ~Leq(x, y)
  BY DEF Exceeds, Leq, Clock
<1>2. Exceeds(y, x) <=> ~Leq(y, x)
  BY DEF Exceeds, Leq, Clock
<1>3. x = y <=> Leq(x, y) /\ Leq(y, x)
  BY LeqIsPartialOrder
<1> HIDE DEF Exceeds, Leq
<1> QED BY <1>1, <1>2, <1>3 DEF compareVectorClocks, Compare

-----------------------------------------------------------------------------
(* Versions *)

\* What the operations on versions return is a version.
LEMMA AbsentType == Absent \in Version
  BY ClockOperationsType DEF Absent, Version

LEMMA ConflictEntriesType ==
  \A sv \in Version : sv.val # None => conflictEntriesForMerge(sv) \subseteq Sibling
  BY DEF conflictEntriesForMerge, Version, Sibling

LEMMA WrittenType ==
  \A p \in Put : \A vc \in Clock : Written(p, vc) \in Version
  BY DEF Written, Version

LEMMA LocalPutType ==
  \A sv \in Version : \A p \in Put : \A vc \in Clock :
    localPut(sv, p, vc) \in Version
<1> SUFFICES ASSUME NEW sv \in Version, NEW p \in Put, NEW vc \in Clock
             PROVE  localPut(sv, p, vc) \in Version
  OBVIOUS
<1>1. Written(p, vc) \in Version
  BY WrittenType
<1>2. ASSUME sv.val # None
      PROVE  [val |-> p, vc |-> Merge(vc, sv.vc),
              conflicts |-> conflictEntriesForMerge(sv)] \in Version
  <2>1. conflictEntriesForMerge(sv) \subseteq Sibling
    BY <1>2, ConflictEntriesType
  <2>2. Merge(vc, sv.vc) \in Clock
    BY ClockOperationsType DEF Version
  <2> QED BY <2>1, <2>2 DEF Version
<1> QED BY <1>1, <1>2 DEF localPut

\* After localPut the replica knows both what it knew and the write: the
\* guard against older writes and the merge of concurrent ones lose nothing.
THEOREM LocalPutDominates ==
  \A sv \in Version : \A p \in Put : \A vc \in Clock :
    (sv.val = None => sv.vc = NewVectorClock)
    => /\ Leq(sv.vc, localPut(sv, p, vc).vc)
       /\ Leq(vc, localPut(sv, p, vc).vc)
<1> SUFFICES ASSUME NEW sv \in Version, NEW p \in Put, NEW vc \in Clock,
                    sv.val = None => sv.vc = NewVectorClock
             PROVE  /\ Leq(sv.vc, localPut(sv, p, vc).vc)
                    /\ Leq(vc, localPut(sv, p, vc).vc)
  OBVIOUS
<1>1. sv.vc \in Clock
  BY DEF Version
<1>2. CASE sv.val = None
  <2>1. localPut(sv, p, vc).vc = vc
    BY <1>2 DEF localPut, Written
  <2>2. Leq(sv.vc, vc)
    BY <1>2 DEF Leq, NewVectorClock, Clock
  <2> QED BY <2>1, <2>2, LeqIsPartialOrder
<1>3. CASE sv.val # None /\ compareVectorClocks(sv.vc, vc) = "older"
  <2>1. localPut(sv, p, vc).vc = sv.vc
    BY <1>3 DEF localPut
  <2>2. Leq(vc, sv.vc)
    BY <1>1, <1>3, CompareIsCausalOrder
  <2> QED BY <1>1, <2>1, <2>2, LeqIsPartialOrder
<1>4. CASE sv.val # None /\ compareVectorClocks(sv.vc, vc) = "newer"
  <2>1. localPut(sv, p, vc).vc = vc
    BY <1>4 DEF localPut, Written
  <2>2. Leq(sv.vc, vc)
    BY <1>1, <1>4, CompareIsCausalOrder
  <2> QED BY <2>1, <2>2, LeqIsPartialOrder
<1>5. CASE /\ sv.val # None
           /\ compareVectorClocks(sv.vc, vc) \notin {"older", "newer"}
  <2>1. localPut(sv, p, vc).vc = Merge(vc, sv.vc)
    BY <1>5 DEF localPut
  <2> QED BY <1>1, <2>1, MergeIsJoin
<1> QED BY <1>2, <1>3, <1>4, <1>5

\* One turn of resolveConflicts gives a version that covers both the one it
\* had and the response it met.
THEOREM ResolvedDominates ==
  \A sv, rs \in Version : \A new \in Resolved(sv, rs) :
    (sv.val = None => sv.vc = NewVectorClock) /\ rs.val # None
    => /\ new \in Version /\ new.val # None
       /\ Leq(sv.vc, new.vc)
       /\ Leq(rs.vc, new.vc)
<1> SUFFICES ASSUME NEW sv \in Version, NEW rs \in Version,
                    NEW new \in Resolved(sv, rs),
                    sv.val = None => sv.vc = NewVectorClock,
                    rs.val # None
             PROVE  /\ new \in Version /\ new.val # None
                    /\ Leq(sv.vc, new.vc)
                    /\ Leq(rs.vc, new.vc)
  OBVIOUS
<1>1. sv.vc \in Clock /\ rs.vc \in Clock
  BY DEF Version
<1>2. CASE sv.val = None
  <2>1. new = rs
    BY <1>2 DEF Resolved
  <2>2. Leq(sv.vc, rs.vc)
    BY <1>1, <1>2 DEF Leq, NewVectorClock, Clock
  <2> QED BY <1>1, <2>1, <2>2, LeqIsPartialOrder
<1>3. CASE sv.val # None /\ compareVectorClocks(sv.vc, rs.vc) = "concurrent"
  <2>1. new \in {mergeConflicts(sv, rs), mergeConflicts(rs, sv)}
    BY <1>3 DEF Resolved
  <2>2. ASSUME NEW x \in Version, NEW y \in Version,
               x.val # None, y.val # None
        PROVE  /\ mergeConflicts(x, y) \in Version
               /\ mergeConflicts(x, y).val # None
               /\ Leq(x.vc, mergeConflicts(x, y).vc)
               /\ Leq(y.vc, mergeConflicts(x, y).vc)
    <3>1. x.vc \in Clock /\ y.vc \in Clock /\ Merge(x.vc, y.vc) \in Clock
      BY ClockOperationsType DEF Version
    <3>2. conflictEntriesForMerge(y) \subseteq Sibling
      BY <2>2, ConflictEntriesType
    <3>3. mergeConflicts(x, y) \in Version
      BY <3>1, <3>2 DEF mergeConflicts, Version
    <3>4. /\ mergeConflicts(x, y).vc = Merge(x.vc, y.vc)
          /\ mergeConflicts(x, y).val = x.val
      BY DEF mergeConflicts
    <3> QED BY <2>2, <3>1, <3>3, <3>4, MergeIsJoin
  <2> QED BY <1>3, <2>1, <2>2
<1>4. CASE sv.val # None /\ compareVectorClocks(sv.vc, rs.vc) = "newer"
  <2>1. new = rs
    BY <1>4 DEF Resolved
  <2>2. Leq(sv.vc, rs.vc)
    BY <1>1, <1>4, CompareIsCausalOrder
  <2> QED BY <1>1, <2>1, <2>2, LeqIsPartialOrder
<1>5. CASE /\ sv.val # None
           /\ compareVectorClocks(sv.vc, rs.vc) \notin {"concurrent", "newer"}
  <2>1. new = sv
    BY <1>5 DEF Resolved
  <2>2. compareVectorClocks(sv.vc, rs.vc) = "older"
    BY <1>5 DEF compareVectorClocks
  <2>3. Leq(rs.vc, sv.vc)
    BY <1>1, <2>2, CompareIsCausalOrder
  <2> QED BY <1>1, <1>5, <2>1, <2>3, LeqIsPartialOrder
<1> QED BY <1>2, <1>3, <1>4, <1>5

-----------------------------------------------------------------------------
(* Versions and the writes they stand for.  req gives each write its        *)
(* coordinator and its clock; begun are the writes (of the key) under way.  *)

\* The clock of sv is the join of the clocks of the writes in it.
JoinOf(sv, req, begun) ==
  /\ Holds(sv) \subseteq begun
  /\ \A p \in Holds(sv) : Leq(req[p].vc, sv.vc)
  /\ \A n \in Node : sv.vc[n] # 0 => \E p \in Holds(sv) : req[p].vc[n] = sv.vc[n]

\* Every count up to those of vc was given to a write by its coordinator.
Counts(vc, req, begun) ==
  \A n \in Node : \A c \in 1..vc[n] : \E w \in begun : req[w].at = n /\ req[w].vc[n] = c

\* No coordinator has given a count twice.
Fresh(req, begun) ==
  \A p, q \in begun : p # q /\ req[p].at = req[q].at =>
    req[p].vc[req[p].at] # req[q].vc[req[q].at]

\* When sv has the count a write was given, it holds that write or one that
\* knew of it.
Follows(sv, req, begun) ==
  \A p \in begun :
    /\ req[p].vc[req[p].at] # 0
    /\ req[p].vc[req[p].at] <= sv.vc[req[p].at]
    => \E q \in Holds(sv) : Leq(req[p].vc, req[q].vc)

Reflects(sv, req, begun) ==
  /\ JoinOf(sv, req, begun)
  /\ Counts(sv.vc, req, begun)
  /\ Fresh(req, begun) => Follows(sv, req, begun)

Requests(req, begun) ==
  \A p \in begun : p \in Put /\ req[p].at \in Node /\ req[p].vc \in Clock

LEMMA AbsentReflects ==
  ASSUME NEW req, NEW begun, Requests(req, begun)
  PROVE  Reflects(Absent, req, begun)
<1>1. JoinOf(Absent, req, begun)
  BY NoneIsNoPut DEF JoinOf, Absent, Holds, NewVectorClock
<1>2. \A n \in Node : Absent.vc[n] = 0
  BY DEF Absent, NewVectorClock
<1>3. Counts(Absent.vc, req, begun)
  BY <1>2 DEF Counts
<1>4. Follows(Absent, req, begun)
  BY <1>2 DEF Follows, Requests, Clock
<1> QED BY <1>1, <1>3, <1>4 DEF Reflects

\* What a version that is there holds is what it becomes as a conflict.
LEMMA EntriesHeld ==
  ASSUME NEW sv, sv.val # None
  PROVE  {s.val : s \in conflictEntriesForMerge(sv)} = Holds(sv)
<1> DEFINE r == [val |-> sv.val, vc |-> sv.vc]
<1>1. conflictEntriesForMerge(sv) = sv.conflicts \cup {r} /\ r.val = sv.val
  BY DEF conflictEntriesForMerge
<1> HIDE DEF r
<1>2. {s.val : s \in sv.conflicts \cup {r}} = {s.val : s \in sv.conflicts} \cup {r.val}
  OBVIOUS
<1> QED BY <1>1, <1>2 DEF Holds

\* Merging clocks merges what they say, whichever version is primary.
LEMMA MergedReflects ==
  ASSUME NEW req, NEW begun, NEW x \in Version, NEW y \in Version, NEW z,
         Requests(req, begun), Reflects(x, req, begun), Reflects(y, req, begun),
         Holds(z) = Holds(x) \cup Holds(y),
         z.vc = Merge(x.vc, y.vc)
  PROVE  Reflects(z, req, begun)
<1>1. x.vc \in Clock /\ y.vc \in Clock /\ z.vc \in Clock
  BY ClockOperationsType DEF Version
<1>2. JoinOf(x, req, begun) /\ JoinOf(y, req, begun)
  BY DEF Reflects
<1>3. \A n \in Node : z.vc[n] = x.vc[n] \/ z.vc[n] = y.vc[n]
  BY DEF Merge
<1>4. JoinOf(z, req, begun)
  <2>1. \A p \in Holds(z) : req[p].vc \in Clock /\ p \in begun
    BY <1>2 DEF JoinOf, Requests
  <2>2. ASSUME NEW p \in Holds(z)
        PROVE  Leq(req[p].vc, z.vc)
    <3>1. Leq(x.vc, z.vc) /\ Leq(y.vc, z.vc)
      BY <1>1, MergeIsJoin
    <3>2. Leq(req[p].vc, x.vc) \/ Leq(req[p].vc, y.vc)
      BY <1>2 DEF JoinOf
    <3> QED BY <1>1, <2>1, <3>1, <3>2, LeqIsPartialOrder
  <2>3. ASSUME NEW n \in Node, z.vc[n] # 0
        PROVE  \E p \in Holds(z) : req[p].vc[n] = z.vc[n]
    BY <1>2, <1>3, <2>3 DEF JoinOf
  <2> QED BY <2>1, <2>2, <2>3 DEF JoinOf
<1>5. Counts(z.vc, req, begun)
  BY <1>3 DEF Reflects, Counts
<1>6. ASSUME Fresh(req, begun)
      PROVE  Follows(z, req, begun)
  <2>1. Follows(x, req, begun) /\ Follows(y, req, begun)
    BY <1>6 DEF Reflects
  <2> QED BY <1>3, <2>1 DEF Follows, Requests
<1> QED BY <1>4, <1>5, <1>6 DEF Reflects

\* The guarded write of one that has begun: what it leaves reflects the writes
\* again, and it takes up only the write it is given, and that only if the
\* version did not cover it.
LEMMA LocalPutReflects ==
  ASSUME NEW req, NEW begun, NEW sv \in Version, NEW p \in begun,
         Requests(req, begun), Reflects(sv, req, begun),
         Reflects(Written(p, req[p].vc), req, begun)
  PROVE  /\ Reflects(localPut(sv, p, req[p].vc), req, begun)
         /\ \A q \in Holds(localPut(sv, p, req[p].vc)) \ Holds(sv) :
              q = p /\ (sv.val = None \/ ~Leq(req[p].vc, sv.vc))
<1> DEFINE vc == req[p].vc
           new == localPut(sv, p, vc)
<1>1. vc \in Clock /\ sv.vc \in Clock /\ p \in Put
  BY DEF Version, Requests
<1>2. Holds(Written(p, vc)) = {p} /\ Reflects(Written(p, vc), req, begun)
  BY <1>1, NoneIsNoPut DEF Holds, Written
<1>3. Written(p, vc) \in Version /\ Written(p, vc).vc = vc
  BY <1>1, WrittenType DEF Written
<1> HIDE DEF vc
<1>4. CASE sv.val = None
  <2>1. new = Written(p, vc)
    BY <1>4 DEF localPut, vc
  <2> QED BY <1>2, <1>4, <2>1 DEF vc
<1>5. CASE sv.val # None /\ compareVectorClocks(sv.vc, vc) = "older"
  <2>1. new = sv
    BY <1>5 DEF localPut, vc
  <2> QED BY <2>1 DEF vc
<1>6. CASE sv.val # None /\ compareVectorClocks(sv.vc, vc) = "newer"
  <2>1. new = Written(p, vc)
    BY <1>6 DEF localPut, vc
  <2>2. ~Leq(vc, sv.vc)
    BY <1>1, <1>6, CompareIsCausalOrder
  <2> QED BY <1>2, <2>1, <2>2 DEF vc
<1>7. CASE sv.val # None /\ compareVectorClocks(sv.vc, vc) \notin {"older", "newer"}
  <2>1. new = [val |-> p, vc |-> Merge(vc, sv.vc),
               conflicts |-> conflictEntriesForMerge(sv)]
    BY <1>7 DEF localPut, vc
  <2>2. new.val = p /\ new.vc = Merge(vc, sv.vc)
        /\ new.conflicts = conflictEntriesForMerge(sv)
    BY <2>1
  <2> HIDE DEF new
  <2>3. {s.val : s \in conflictEntriesForMerge(sv)} = Holds(sv)
    BY <1>7, EntriesHeld
  <2>4. Holds(new) = Holds(Written(p, vc)) \cup Holds(sv)
    BY <1>1, <1>2, <2>2, <2>3, NoneIsNoPut DEF Holds
  <2>5. Reflects(new, req, begun)
    BY <1>2, <1>3, <2>2, <2>4, MergedReflects
  <2>6. ~Leq(vc, sv.vc)
    BY <1>1, <1>7, CompareIsCausalOrder DEF compareVectorClocks
  <2> QED BY <1>2, <2>4, <2>5, <2>6 DEF new, vc
<1> QED BY <1>4, <1>5, <1>6, <1>7

\* One turn of resolveConflicts.
LEMMA ResolvedReflects ==
  ASSUME NEW req, NEW begun, NEW sv \in Version, NEW rs \in Version,
         NEW new \in Resolved(sv, rs), rs.val # None,
         Requests(req, begun), Reflects(sv, req, begun), Reflects(rs, req, begun)
  PROVE  Reflects(new, req, begun)
<1>1. ASSUME NEW x \in Version, NEW y \in Version, y.val # None,
             Reflects(x, req, begun), Reflects(y, req, begun)
      PROVE  Reflects(mergeConflicts(x, y), req, begun)
  <2> DEFINE z == mergeConflicts(x, y)
  <2>1. /\ z.val = x.val /\ z.vc = Merge(x.vc, y.vc)
        /\ z.conflicts = x.conflicts \cup conflictEntriesForMerge(y)
    BY DEF mergeConflicts
  <2> HIDE DEF z
  <2>2. {s.val : s \in conflictEntriesForMerge(y)} = Holds(y)
    BY <1>1, EntriesHeld
  <2>3. Holds(z) = Holds(x) \cup Holds(y)
    BY <2>1, <2>2 DEF Holds
  <2> QED BY <1>1, <2>1, <2>3, MergedReflects DEF z
<1>2. \/ new \in {sv, rs}
      \/ sv.val # None /\ new \in {mergeConflicts(sv, rs), mergeConflicts(rs, sv)}
  BY DEF Resolved
<1> QED BY <1>1, <1>2

\* A new write, with the clock its coordinator n makes of the version sv it
\* stores.  Where counts are given once, no version has the new one yet; so
\* what reflected the writes reflects them with the new one, and so does the
\* new one itself.
LEMMA NewWriteReflects ==
  ASSUME NEW req, NEW req2, NEW begun, NEW p \in Put \ begun, NEW n \in Node,
         NEW sv \in Version, Requests(req, begun), Reflects(sv, req, begun),
         \A w \in begun : Reflects(Written(w, req[w].vc), req, begun),
         \A w \in begun : req2[w] = req[w],
         req2[p].at = n, req2[p].vc = Increment(sv.vc, n)
  PROVE  /\ Requests(req2, begun \cup {p})
         /\ \A x \in Version :
              Reflects(x, req, begun) => Reflects(x, req2, begun \cup {p})
         /\ \A w \in begun \cup {p} :
              Reflects(Written(w, req2[w].vc), req2, begun \cup {p})
<1> DEFINE vc == req2[p].vc
           begun2 == begun \cup {p}
<1>1. sv.vc \in Clock /\ vc \in Clock /\ Leq(sv.vc, vc)
  BY ClockOperationsType, IncrementIsAbove DEF Version
<1>2. vc[n] = sv.vc[n] + 1 /\ \A m \in Node \ {n} : vc[m] = sv.vc[m]
  BY <1>1 DEF Increment, Clock
<1> HIDE DEF vc
<1>3. Requests(req2, begun2)
  BY <1>1 DEF Requests, vc
<1>4. ASSUME NEW c, Counts(c, req, begun)
      PROVE  Counts(c, req2, begun2)
  BY <1>4 DEF Counts
<1>5. ASSUME Fresh(req2, begun2)
      PROVE  Fresh(req, begun)
  BY <1>5 DEF Fresh
<1>6. ASSUME NEW c \in Clock, Counts(c, req, begun), Fresh(req2, begun2)
      PROVE  ~(vc[n] <= c[n])
  <2> SUFFICES ASSUME vc[n] <= c[n] PROVE FALSE
    OBVIOUS
  <2>1. vc[n] \in 1..c[n]
    BY <1>1, <1>2, <1>6 DEF Clock
  <2>2. PICK w \in begun : req[w].at = n /\ req[w].vc[n] = vc[n]
    BY <1>6, <2>1 DEF Counts
  <2> QED BY <1>6, <2>2 DEF Fresh, vc
<1>7. ASSUME NEW x \in Version, Reflects(x, req, begun)
      PROVE  Reflects(x, req2, begun2)
  <2>1. JoinOf(x, req2, begun2) /\ Counts(x.vc, req2, begun2)
    BY <1>4, <1>7 DEF Reflects, JoinOf
  <2>2. ASSUME Fresh(req2, begun2)
        PROVE  Follows(x, req2, begun2)
    <3>1. Follows(x, req, begun) /\ Holds(x) \subseteq begun
      BY <1>5, <1>7, <2>2 DEF Reflects, JoinOf
    <3>2. ~(vc[n] <= x.vc[n])
      BY <1>6, <1>7, <2>2 DEF Reflects, Version
    <3> QED BY <3>1, <3>2 DEF Follows, vc
  <2> QED BY <2>1, <2>2 DEF Reflects
<1>8. ASSUME NEW w \in begun
      PROVE  Reflects(Written(w, req2[w].vc), req2, begun2)
  <2>1. Written(w, req[w].vc) \in Version
    BY WrittenType DEF Requests
  <2> QED BY <1>7, <2>1
<1>9. Reflects(Written(p, vc), req2, begun2)
  <2>1. Holds(Written(p, vc)) = {p} /\ Written(p, vc).vc = vc
    BY NoneIsNoPut DEF Holds, Written
  <2>2. JoinOf(Written(p, vc), req2, begun2)
    BY <1>1, <2>1, LeqIsPartialOrder DEF JoinOf, vc
  <2>3. Counts(vc, req2, begun2)
    <3> SUFFICES ASSUME NEW m \in Node, NEW c \in 1..vc[m]
                 PROVE  \E w \in begun2 : req2[w].at = m /\ req2[w].vc[m] = c
      BY DEF Counts
    <3>1. sv.vc[m] \in Nat /\ vc[m] \in Nat
      BY <1>1 DEF Clock
    <3>2. CASE c \in 1..sv.vc[m]
      BY <3>2 DEF Reflects, Counts
    <3>3. CASE c \notin 1..sv.vc[m]
      <4>1. m = n /\ c = vc[n]
        BY <1>2, <3>1, <3>3
      <4> QED BY <4>1 DEF vc
    <3> QED BY <3>2, <3>3
  <2>4. ASSUME Fresh(req2, begun2), NEW q \in begun2,
               req2[q].vc[req2[q].at] # 0, req2[q].vc[req2[q].at] <= vc[req2[q].at]
        PROVE  Leq(req2[q].vc, vc)
    <3>1. CASE q = p
      BY <1>1, <3>1, LeqIsPartialOrder DEF vc
    <3>2. CASE q # p
      <4> DEFINE m == req[q].at
      <4>1. q \in begun /\ req2[q] = req[q] /\ m \in Node /\ req[q].vc \in Clock
        BY <3>2 DEF Requests
      <4>2. m = n => req[q].vc[n] # vc[n]
        BY <2>4, <3>2, <4>1 DEF Fresh, vc
      <4>3. req[q].vc[m] <= sv.vc[m]
        BY <1>1, <1>2, <2>4, <4>1, <4>2 DEF Clock
      <4>4. Follows(sv, req, begun) /\ JoinOf(sv, req, begun)
        BY <1>5, <2>4 DEF Reflects
      <4>5. PICK r \in Holds(sv) : Leq(req[q].vc, req[r].vc)
        BY <2>4, <4>1, <4>3, <4>4 DEF Follows
      <4>6. req[r].vc \in Clock /\ Leq(req[r].vc, sv.vc)
        BY <4>4 DEF JoinOf, Requests
      <4> QED BY <1>1, <4>1, <4>5, <4>6, LeqIsPartialOrder
    <3> QED BY <3>1, <3>2
  <2>5. Fresh(req2, begun2) => Follows(Written(p, vc), req2, begun2)
    BY <2>1, <2>4 DEF Follows, vc
  <2> QED BY <2>1, <2>2, <2>3, <2>5 DEF Reflects
<1> QED BY <1>3, <1>7, <1>8, <1>9 DEF vc
=============================================================================
