---------------------------- MODULE StoredValue ----------------------------
(* The versions a replica keeps for one key (storedValue, node.go) and the   *)
(* pure part of what is done to them: the guarded write, the forced write,   *)
(* and the resolution of the versions a read has gathered.                   *)
(*                                                                           *)
(* A written value is identified with the write that carries it.  The Go     *)
(* field Conflicts is a list of versions with lists of their own inside;     *)
(* here it is the set of the values and clocks found at any depth.           *)
(* Timestamps are each replica's wall clock and order nothing reliably: the  *)
(* choice they make between concurrent versions is left open.                *)
EXTENDS VectorClock

CONSTANTS Put,      \* the client writes
          None      \* nil

ASSUME NoneIsNoPut == None \notin Put

Sibling == [val : Put, vc : Clock]

Version == [val : Put \cup {None}, vc : Clock, conflicts : SUBSET Sibling]

\* The zero storedValue: what a map lookup gives for a missing key.
Absent == [val |-> None, vc |-> NewVectorClock, conflicts |-> {}]

Written(v, vc) == [val |-> v, vc |-> vc, conflicts |-> {}]

\* Mutant: the version itself is not kept, only what it carried.
conflictEntriesOnly(sv) == sv.conflicts

\* A version and everything it carries, as flat siblings.
conflictEntriesForMerge(sv) ==
  sv.conflicts \cup {[val |-> sv.val, vc |-> sv.vc]}

\* Mutant: a write that is already covered is stored all the same.
localPutUnguarded(cur, v, vc) ==
  IF cur.val = None \/ compareVectorClocks(cur.vc, vc) # "concurrent"
  THEN Written(v, vc)
  ELSE [val       |-> v,
        vc        |-> Merge(vc, cur.vc),
        conflicts |-> conflictEntriesForMerge(cur)]

\* What localPut leaves in the map that held cur.
localPut(cur, v, vc) ==
  IF cur.val = None THEN Written(v, vc)
  ELSE IF compareVectorClocks(cur.vc, vc) = "older" THEN cur
  ELSE IF compareVectorClocks(cur.vc, vc) = "newer" THEN Written(v, vc)
  ELSE [val       |-> v,
        vc        |-> Merge(vc, cur.vc),
        conflicts |-> conflictEntriesForMerge(cur)]

\* storeReplicaValue looks at nothing that is there.
storeReplicaValue(cur, sv) == sv

\* The PutLocal handler at node n: forced writes (hints, syncs) store what
\* they carry, the others go through localPut, which drops the conflicts.
applyReplicaWrite(n, cur, sv, force) ==
  LET vc == IF IsEmpty(sv.vc) THEN Increment(NewVectorClock, n) ELSE sv.vc
  IN  IF force THEN storeReplicaValue(cur, [sv EXCEPT !.vc = vc])
      ELSE localPut(cur, sv.val, vc)

\* Mutant: the merged version keeps the clock of the primary one.
mergeConflictsOldClock(primary, secondary) ==
  [primary EXCEPT !.conflicts = @ \cup conflictEntriesForMerge(secondary)]

mergeConflicts(primary, secondary) ==
  [val       |-> primary.val,
   vc        |-> Merge(primary.vc, secondary.vc),
   conflicts |-> primary.conflicts \cup conflictEntriesForMerge(secondary)]

\* One turn of resolveConflicts' loop: what current may become when it meets
\* sv.  choosePrimaryStoredValue may prefer either of two concurrent versions.
Resolved(current, sv) ==
  IF current.val = None THEN {sv}
  ELSE IF compareVectorClocks(current.vc, sv.vc) = "concurrent"
       THEN {mergeConflicts(current, sv), mergeConflicts(sv, current)}
  ELSE IF compareVectorClocks(current.vc, sv.vc) = "newer" THEN {sv}
  ELSE {current}

CountsAsConflict(current, sv) ==
  /\ current.val # None
  /\ compareVectorClocks(current.vc, sv.vc) = "concurrent"

-----------------------------------------------------------------------------
\* The values a version holds, its own and those of its conflicts.
Holds(sv) == {s.val : s \in sv.conflicts} \cup ({sv.val} \ {None})
=============================================================================
