---------------------------- MODULE RuntimeProofs ----------------------------
(***************************************************************************)
(* Proofs about the user runtimes, for any constants: about RuntimeManager *)
(* (who runs, who stores, who leads) and then about RuntimeHistory (what a *)
(* runtime remembers, stores and answers).  The two modules have no name   *)
(* in common, and neither part uses the other.                             *)
(***************************************************************************)
EXTENDS RuntimeManager, RuntimeHistory, FiniteSetTheorems, SequenceTheorems, WellFoundedInduction, TLAPS


LEMMA TypeInit == Init => TypeOK
<1> USE ConstantsAssumption DEF TypeOK, Stages, Minutes
<1> SUFFICES ASSUME Init PROVE TypeOK
  OBVIOUS
<1>1. /\ leaderKey \in Keys \cup {NoKey}
      /\ runtimes \in [Keys -> Runtimes \cup {NoRuntime}]
      /\ owner \in [Runtimes -> Keys \cup {NoKey}]
      /\ statusRow \in [Keys -> {"none", "running", "degraded", "stopped"}]
  BY DEF Init
<1>2. /\ pc \in [Runtimes -> Stages]
      /\ cancelled \in [Runtimes -> BOOLEAN]
      /\ shared \in [Runtimes -> BOOLEAN]
  BY DEF Init
<1>3. /\ bucket \in [Runtimes -> 0..MaxMinute]
      /\ now \in [Runtimes -> 0..MaxMinute]
      /\ lastBucket \in [Runtimes -> 0..MaxMinute]
      /\ revision \in [Runtimes -> Nat]
  BY DEF Init
<1>4. /\ starting \in Runtimes \cup {NoRuntime}
      /\ stopping \subseteq Runtimes
      /\ baseDone \in BOOLEAN
      /\ clock = 1 /\ stored = {}
  BY DEF Init
<1>5. clock \in Minutes /\ stored \subseteq Runtimes \X (0..MaxMinute) \X Nat
  BY <1>4
<1> HIDE DEF Stages, Minutes
<1> QED BY <1>1, <1>2, <1>3, <1>4, <1>5

\* Every variable keeps its type, for any sets of keys and objects.
THEOREM TypeCorrect == Spec => []TypeOK
<1> USE ConstantsAssumption DEF TypeOK, Stages, Minutes, managerVars, sharedVars, locals
<1>2. TypeOK /\ [Next]_vars => TypeOK'
  <2> SUFFICES ASSUME TypeOK, [Next]_vars PROVE TypeOK'
    OBVIOUS
  <2>1. ASSUME NEW k \in Keys, EnsureExisting(k) PROVE TypeOK'
    BY <2>1 DEF EnsureExisting, SetSharedPersistence, managerVars
  <2>2. ASSUME NEW k \in Keys, NEW r \in Runtimes, EnsureStart(k, r) PROVE TypeOK'
    BY <2>2 DEF EnsureStart, sharedVars
  <2>3. CASE EnsureInsert
    <3>1. starting \in Runtimes
      BY <2>3 DEF EnsureInsert, Free
    <3>2. owner[starting] \in Keys \cup {NoKey}
      BY <3>1
    <3>3. runtimes' \in [Keys -> Runtimes \cup {NoRuntime}]
      BY <2>3, <3>1 DEF EnsureInsert
    <3>4. shared' \in [Runtimes -> BOOLEAN] /\ bucket' \in [Runtimes -> 0..MaxMinute]
      BY <2>3, <3>1 DEF EnsureInsert, SetSharedPersistence
    <3> QED BY <2>3, <3>2, <3>3, <3>4 DEF EnsureInsert
  <2>4. ASSUME NEW k \in StopKeys, StopRemove(k) PROVE TypeOK'
    <3>1. k \in Keys /\ runtimes[k] \in Runtimes
      BY <2>4 DEF StopRemove, HandOver
    <3>2. /\ shared' \in [Runtimes -> BOOLEAN]
          /\ bucket' \in [Runtimes -> 0..MaxMinute]
          /\ leaderKey' \in Keys \cup {NoKey}
      BY <2>4 DEF StopRemove, HandOver, SetSharedPersistence
    <3> QED BY <2>4, <3>1, <3>2 DEF StopRemove, HandOver
  <2>5. ASSUME NEW r \in Runtimes, StopCancel(r) PROVE TypeOK'
    BY <2>5 DEF StopCancel, sharedVars
  <2>6. ASSUME NEW r \in Runtimes, Step(r) PROVE TypeOK'
    <3> USE DEF Goto, UpsertStatus, quiet, managerVars, sharedVars, locals
    <3>1. CASE Boot(r)
      BY <3>1 DEF Boot
    <3>2. CASE FetchSucceeds(r)
      BY <3>2 DEF FetchSucceeds
    <3>3. CASE FetchFails(r)
      BY <3>3 DEF FetchFails
    <3>4. ASSUME NEW found \in BOOLEAN, Publish(r, found) PROVE TypeOK'
      BY <3>4 DEF Publish
    <3>5. CASE SaveShared(r)
      BY <3>5 DEF SaveShared
    <3>6. CASE SaveMinute(r)
      BY <3>6 DEF SaveMinute
    <3>7. CASE MarkBucket(r)
      BY <3>7 DEF MarkBucket
    <3>8. CASE WriteStatus(r)
      BY <3>8 DEF WriteStatus
    <3>9. CASE CycleFailed(r)
      BY <3>9 DEF CycleFailed
    <3>10. CASE Degrade(r)
      BY <3>10 DEF Degrade
    <3>11. CASE Wait(r)
      BY <3>11 DEF Wait
    <3>12. CASE WriteStopped(r)
      BY <3>12 DEF WriteStopped
    <3> QED BY <2>6, <3>1, <3>2, <3>3, <3>4, <3>5, <3>6, <3>7, <3>8, <3>9, <3>10, <3>11, <3>12 DEF Step
  <2>7. CASE Tick
    BY <2>7 DEF Tick, managerVars, sharedVars
  <2>8. CASE Shutdown
    BY <2>8 DEF Shutdown, sharedVars
  <2>9. CASE Restart
    <3>1. /\ runtimes' \in [Keys -> Runtimes \cup {NoRuntime}]
          /\ pc' \in [Runtimes -> Stages]
          /\ cancelled' \in [Runtimes -> BOOLEAN]
          /\ shared' \in [Runtimes -> BOOLEAN]
      BY <2>9 DEF Restart
    <3>2. /\ bucket' \in [Runtimes -> 0..MaxMinute]
          /\ now' \in [Runtimes -> 0..MaxMinute]
          /\ lastBucket' \in [Runtimes -> 0..MaxMinute]
      BY <2>9 DEF Restart
    <3> QED BY <2>9, <3>1, <3>2 DEF Restart
  <2>10. CASE UNCHANGED vars
    BY <2>10 DEF vars, managerVars, sharedVars
  <2> QED BY <2>1, <2>2, <2>3, <2>4, <2>5, <2>6, <2>7, <2>8, <2>9, <2>10 DEF Next
<1> QED BY <1>2, TypeInit, PTL DEF Spec
-----------------------------------------------------------------------------
(* The roles of the runtimes.  LeaderIsMapped and SharedIsLeader are not    *)
(* inductive alone: a step on one object must leave the objects of other    *)
(* keys alone (Owned), a fresh or half-started object must not persist yet  *)
(* (Fresh), and a live goroutine nobody refers to must be on its way out    *)
(* (Orphan).                                                                *)

Owned ==
    \A k \in Keys : runtimes[k] # NoRuntime =>
        /\ owner[runtimes[k]] = k
        /\ runtimes[k] # starting
        /\ runtimes[k] \notin stopping
        /\ pc[runtimes[k]] \notin {"unborn", "dead"}

Fresh ==
    /\ \A r \in Runtimes : pc[r] = "unborn" \/ r = starting =>
           ~shared[r] /\ ~cancelled[r] /\ r \notin stopping
    /\ starting # NoRuntime =>
           /\ pc[starting] \notin {"unborn", "dead"}
           /\ owner[starting] \in Keys
           /\ runtimes[owner[starting]] = NoRuntime

Orphan ==
    \A r \in Runtimes :
        pc[r] \notin Ended \cup {"unborn"} =>
            Mapped(r) \/ r = starting \/ r \in stopping \/ Cancelled(r)

RoleInv == TypeOK /\ LeaderIsMapped /\ SharedIsLeader /\ Owned /\ Fresh /\ Orphan

(* The minutes.  Only MarkBucket moves a bucket of a runtime that persists, *)
(* so what runCycle sampled is still true when it stores.                   *)

Sampled ==
    \A r \in Runtimes :
        /\ ~shared[r] => bucket[r] = 0
        /\ bucket[r] <= clock
        /\ pc[r] \in {"publish", "save", "minute", "mark"} =>
               now[r] \in Minutes /\ bucket[r] <= now[r] /\ now[r] <= clock
        /\ pc[r] \in {"save", "minute", "mark"} => shared[r] /\ lastBucket[r] = bucket[r]
        /\ pc[r] \in {"minute", "mark"} => now[r] # lastBucket[r]

StoredBefore ==
    \A x \in stored :
        /\ x[2] >= 1
        /\ \/ pc[x[1]] = "dead"
           \/ x[2] <= bucket[x[1]]
           \/ pc[x[1]] = "mark" /\ x[2] <= now[x[1]]

MinuteInv == RoleInv /\ Sampled /\ StoredBefore /\ OncePerMinute

LeavesWhenCancelled ==
    /\ \A r \in Runtimes : pc[r] = "exit" => Cancelled(r)
    /\ StoppedNeverStored

-----------------------------------------------------------------------------
LEMMA RoleStep == RoleInv /\ TypeOK' /\ [Next]_vars => RoleInv'
<1> SUFFICES ASSUME RoleInv, TypeOK', [Next]_vars PROVE RoleInv'
  OBVIOUS
<1> USE ConstantsAssumption DEF RoleInv, Free, Mapped, Cancelled, Ended
<1>1. ASSUME NEW k \in Keys, EnsureExisting(k) PROVE RoleInv'
  <2>1. runtimes[k] \in Runtimes /\ owner[runtimes[k]] = k
    BY <1>1 DEF EnsureExisting, Owned, TypeOK
  <2>2. shared' = shared
    BY <1>1, <2>1 DEF EnsureExisting, SetSharedPersistence, SharedIsLeader, TypeOK
  <2> QED BY <1>1, <2>2 DEF EnsureExisting, managerVars, LeaderIsMapped, SharedIsLeader, Owned, Fresh, Orphan
<1>2. ASSUME NEW k \in Keys, NEW r \in Runtimes, EnsureStart(k, r) PROVE RoleInv'
  <2> USE <1>2 DEF EnsureStart, sharedVars
  <2>1. LeaderIsMapped' /\ SharedIsLeader'
    BY DEF LeaderIsMapped, SharedIsLeader
  <2>2. \A j \in Keys : runtimes[j] # r
    BY DEF Owned, TypeOK
  <2>3. Owned'
    BY <2>2 DEF Owned, TypeOK
  <2>4. Fresh'
    BY DEF Fresh, TypeOK
  <2>5. Orphan'
    BY DEF Orphan, TypeOK
  <2> QED BY <2>1, <2>3, <2>4, <2>5
<1>3. CASE EnsureInsert
  <2> DEFINE r == starting
             k == owner[starting]
  <2> USE <1>3 DEF EnsureInsert, SetSharedPersistence
  <2>1. r \in Runtimes /\ k \in Keys /\ runtimes[k] = NoRuntime /\ pc[r] \notin {"unborn", "dead"}
    BY DEF Fresh, TypeOK
  <2>2. \A j \in Keys : runtimes[j] # r
    BY <2>1 DEF Owned
  <2>3. runtimes' = [runtimes EXCEPT ![k] = r] /\ shared' = [shared EXCEPT ![r] = (leaderKey' = k)]
    OBVIOUS
  <2>4. r \notin stopping /\ ~cancelled[r]
    BY <2>1 DEF Fresh
  <2>5. LeaderIsMapped'
    BY <2>1, <2>3 DEF LeaderIsMapped, TypeOK
  <2>6. SharedIsLeader'
    <3>1. CASE leaderKey = NoKey
      <4>1. leaderKey' = k
        BY <3>1
      <4>2. shared'[r] = TRUE
        BY <4>1, <2>1, <2>3 DEF TypeOK
      <4>3. \A j \in Keys : runtimes'[j] # NoRuntime => j = k /\ runtimes'[j] = r
        BY <3>1, <2>1, <2>3 DEF LeaderIsMapped, TypeOK
      <4> HIDE <1>3
      <4> QED BY <4>1, <4>2, <4>3 DEF SharedIsLeader
    <3>2. CASE leaderKey # NoKey
      <4>1. leaderKey' = leaderKey
        BY <3>2
      <4>2. ASSUME NEW j \in Keys, runtimes'[j] # NoRuntime
            PROVE  shared'[runtimes'[j]] <=> leaderKey = j
        <5>1. CASE j = k
          BY <5>1, <4>1, <2>1, <2>3 DEF TypeOK
        <5>2. CASE j # k
          BY <5>2, <4>2, <2>1, <2>2, <2>3 DEF SharedIsLeader, TypeOK
        <5> QED BY <5>1, <5>2
      <4> QED BY <4>1, <4>2 DEF SharedIsLeader
    <3> QED BY <3>1, <3>2
  <2>7. Owned'
    BY <2>1, <2>2, <2>3, <2>4 DEF Owned, TypeOK
  <2>8. Fresh'
    BY <2>1, <2>3 DEF Fresh, TypeOK
  <2>9. Orphan'
    BY <2>1, <2>3 DEF Orphan, TypeOK
  <2> QED BY <2>5, <2>6, <2>7, <2>8, <2>9
<1>4. ASSUME NEW k \in StopKeys, StopRemove(k) PROVE RoleInv'
  <2> DEFINE r == runtimes[k]
  <2> USE <1>4 DEF StopRemove, HandOver, SetSharedPersistence, sharedVars
  <2>1. k \in Keys /\ r \in Runtimes /\ owner[r] = k
    BY DEF Owned, TypeOK
  <2>2. \A j \in Keys \ {k} : runtimes[j] # r
    BY <2>1 DEF Owned
  <2>3. runtimes' = [runtimes EXCEPT ![k] = NoRuntime] /\ stopping' = stopping \cup {r}
    OBVIOUS
  <2>4. LeaderIsMapped'
    BY <2>1, <2>3 DEF LeaderIsMapped, TypeOK
  <2>5. SharedIsLeader'
    <3>1. CASE leaderKey # k
      BY <3>1, <2>1, <2>3 DEF SharedIsLeader, TypeOK
    <3>2. CASE leaderKey = k /\ leaderKey' = NoKey
      BY <3>2, <2>1, <2>3, <2>4 DEF SharedIsLeader, LeaderIsMapped, TypeOK
    <3>3. CASE leaderKey = k /\ leaderKey' # NoKey
      <4>1. PICK next \in Keys \ {k} : /\ runtimes[next] # NoRuntime
                                     /\ leaderKey' = next
                                     /\ shared' = [shared EXCEPT ![runtimes[next]] = TRUE]
        BY <3>3
      <4>2. runtimes[next] \in Runtimes
        BY <4>1 DEF TypeOK
      <4>3. \A j \in Keys \ {k, next} : runtimes[j] # NoRuntime =>
               runtimes[j] # runtimes[next] /\ ~shared[runtimes[j]]
        BY <4>1, <3>3 DEF Owned, SharedIsLeader
      <4> QED BY <4>1, <4>2, <4>3, <2>1, <2>3 DEF SharedIsLeader, TypeOK
    <3> QED BY <3>1, <3>2, <3>3
  <2>6. Owned'
    BY <2>1, <2>2, <2>3 DEF Owned, TypeOK
  <2>7. Fresh'
    <3>1. \A s \in Runtimes : shared'[s] # shared[s] => \E j \in Keys : runtimes[j] = s
      BY DEF TypeOK
    <3> QED BY <3>1, <2>1, <2>3 DEF Fresh, Owned, TypeOK
  <2>8. Orphan'
    BY <2>1, <2>3 DEF Orphan, TypeOK
  <2> QED BY <2>4, <2>5, <2>6, <2>7, <2>8
<1>5. ASSUME NEW r \in Runtimes, StopCancel(r) PROVE RoleInv'
  <2> USE <1>5 DEF StopCancel, sharedVars
  <2>1. LeaderIsMapped' /\ SharedIsLeader' /\ Owned'
    BY DEF LeaderIsMapped, SharedIsLeader, Owned
  <2>2. Fresh'
    BY DEF Fresh, TypeOK
  <2>3. Orphan'
    BY DEF Orphan, TypeOK
  <2> QED BY <2>1, <2>2, <2>3
<1>6. ASSUME NEW r \in Runtimes, Step(r) PROVE RoleInv'
  <2>1. /\ UNCHANGED <<managerVars, shared, cancelled>>
        /\ \E stage \in Stages \ {"unborn", "dead"} : Goto(r, stage)
        /\ pc[r] \notin Ended \cup {"unborn"}
    BY <1>6 DEF Step, Boot, FetchSucceeds, FetchFails, Publish, SaveShared, SaveMinute, MarkBucket,
                WriteStatus, CycleFailed, Degrade, Wait, WriteStopped, quiet, sharedVars, Goto, Stages
  <2> QED BY <2>1 DEF managerVars, Goto, LeaderIsMapped, SharedIsLeader, Owned, Fresh, Orphan, TypeOK
<1>7. CASE Tick
  BY <1>7 DEF Tick, managerVars, sharedVars, LeaderIsMapped, SharedIsLeader, Owned, Fresh, Orphan
<1>8. CASE Shutdown
  BY <1>8 DEF Shutdown, sharedVars, LeaderIsMapped, SharedIsLeader, Owned, Fresh, Orphan
<1>9. CASE Restart
  BY <1>9 DEF Restart, LeaderIsMapped, SharedIsLeader, Owned, Fresh, Orphan, TypeOK
<1>10. CASE UNCHANGED vars
  BY <1>10 DEF vars, managerVars, sharedVars, LeaderIsMapped, SharedIsLeader, Owned, Fresh, Orphan
<1> QED BY <1>1, <1>2, <1>3, <1>4, <1>5, <1>6, <1>7, <1>8, <1>9, <1>10 DEF Next

LEMMA RoleInvariant == Spec => []RoleInv
<1>1. Init => RoleInv
  <2> SUFFICES ASSUME Init, TypeOK PROVE RoleInv
    BY TypeInit DEF RoleInv
  <2>1. LeaderIsMapped /\ SharedIsLeader /\ Owned
    BY DEF Init, LeaderIsMapped, SharedIsLeader, Owned
  <2>2. Fresh /\ Orphan
    BY ConstantsAssumption DEF Init, Fresh, Orphan, Ended
  <2> QED BY <2>1, <2>2 DEF RoleInv
<1> QED BY <1>1, TypeCorrect, RoleStep, PTL DEF Spec

\* For every set of keys and objects: leaderKey is a key of the map, and empty
\* only when the map is.
THEOREM LeaderAlwaysMapped == Spec => []LeaderIsMapped
BY RoleInvariant, PTL DEF RoleInv

\* For every set of keys and objects: in the map, the runtime of the leader key
\* and no other persists shared rows.
THEOREM SharedFollowsLeader == Spec => []SharedIsLeader
BY RoleInvariant, PTL DEF RoleInv

\* For every set of keys and objects: at most one goroutine that is not on its
\* way out persists shared rows.
THEOREM AtMostOnePersister == Spec => []OnePersister
<1>1. RoleInv => OnePersister
  <2> SUFFICES ASSUME RoleInv, NEW r \in Runtimes, NEW s \in Runtimes, Persists(r), Persists(s)
               PROVE  r = s
    BY DEF OnePersister
  <2>1. ASSUME NEW t \in Runtimes, Persists(t)
        PROVE  leaderKey \in Keys /\ t = runtimes[leaderKey]
    <3>1. Mapped(t)
      BY <2>1 DEF RoleInv, Persists, Fresh, Orphan, Ended
    <3>2. PICK k \in Keys : runtimes[k] = t
      BY <3>1 DEF Mapped
    <3> QED BY <2>1, <3>2, ConstantsAssumption DEF Persists, RoleInv, SharedIsLeader
  <2> QED BY <2>1
<1> QED BY <1>1, RoleInvariant, PTL

(* The lease.  By RoleInv the flags single out the leader key, so a step of *)
(* the manager can be read off leaderKey and the keys of the map.           *)

LEMMA HolderIsLeader == RoleInv => Holder = leaderKey
<1> SUFFICES ASSUME RoleInv PROVE Holder = leaderKey
  OBVIOUS
<1> USE ConstantsAssumption DEF RoleInv
<1>1. CASE leaderKey = NoKey
  <2>1. Sharing = {}
    BY <1>1 DEF LeaderIsMapped, Sharing, Members
  <2> QED BY <1>1, <2>1 DEF Holder
<1>2. CASE leaderKey # NoKey
  <2>1. Sharing = {leaderKey}
    BY <1>2 DEF LeaderIsMapped, SharedIsLeader, Sharing, Members, TypeOK
  <2> QED BY <2>1 DEF Holder
<1> QED BY <1>1, <1>2

LEMMA LeaseInit == Init /\ RoleInv => L!Init
<1>1. Init => Members = {} /\ leaderKey = NoKey
  BY DEF Init, Members
<1> QED BY <1>1, HolderIsLeader DEF L!Init

LEMMA LeaseStep ==
    /\ RoleInv /\ Holder = leaderKey
    /\ RoleInv' /\ (Holder = leaderKey)'
    /\ [Next]_vars
    => [L!Next]_<<Members, Holder>>
<1> SUFFICES ASSUME RoleInv, Holder = leaderKey, RoleInv', (Holder = leaderKey)', [Next]_vars
             PROVE  L!Next \/ UNCHANGED <<Members, Holder>>
  OBVIOUS
<1>1. Holder = leaderKey /\ Holder' = leaderKey'
  OBVIOUS
<1> USE ConstantsAssumption DEF RoleInv
<1>2. ASSUME UNCHANGED <<runtimes, leaderKey>> PROVE UNCHANGED <<Members, Holder>>
  BY <1>1, <1>2 DEF Members
<1>3. CASE EnsureInsert
  <2> DEFINE k == owner[starting]
  <2>1. k \in Keys /\ k \notin Members /\ starting # NoRuntime
    BY <1>3 DEF EnsureInsert, Free, Fresh, Members
  <2>2. Members' = Members \cup {k}
    BY <1>3, <2>1 DEF EnsureInsert, Members, TypeOK
  <2>3. leaderKey' = IF leaderKey = NoKey THEN k ELSE leaderKey
    BY <1>3 DEF EnsureInsert
  <2>4. L!Join(k)
    BY <1>1, <2>1, <2>2, <2>3 DEF L!Join
  <2> QED BY <2>1, <2>4 DEF L!Next
<1>4. ASSUME NEW k \in StopKeys, StopRemove(k) PROVE L!Next
  <2>1. k \in Keys /\ k \in Members
    BY <1>4 DEF StopRemove, Members
  <2>2. Members' = Members \ {k}
    BY <1>4, <2>1 DEF StopRemove, Members, TypeOK
  <2>3. \/ leaderKey # k /\ leaderKey' = leaderKey
        \/ leaderKey = k /\ Members' = {} /\ leaderKey' = NoKey
        \/ leaderKey = k /\ Members' # {} /\ leaderKey' \in Members'
    BY <1>4, <2>2 DEF StopRemove, HandOver, Members
  <2>4. L!Leave(k)
    BY <1>1, <2>1, <2>2, <2>3 DEF L!Leave
  <2> QED BY <2>1, <2>4 DEF L!Next
<1>5. CASE Restart
  <2>1. leaderKey' = NoKey /\ Members' = {}
    BY <1>5 DEF Restart, Members
  <2> QED BY <1>1, <2>1 DEF L!Lapse, L!Next
<1>6. ASSUME NEW r \in Runtimes, Step(r) PROVE UNCHANGED <<runtimes, leaderKey>>
  BY <1>6 DEF Step, Boot, FetchSucceeds, FetchFails, Publish, SaveShared, SaveMinute, MarkBucket,
              WriteStatus, CycleFailed, Degrade, Wait, WriteStopped, quiet, managerVars
<1>7. CASE \/ \E k \in Keys : EnsureExisting(k)
           \/ \E k \in Keys, r \in Runtimes : EnsureStart(k, r)
           \/ \E r \in Runtimes : StopCancel(r)
           \/ Tick \/ Shutdown \/ UNCHANGED vars
  <2>1. UNCHANGED <<runtimes, leaderKey>>
    BY <1>7 DEF EnsureExisting, EnsureStart, StopCancel, Tick, Shutdown, vars, managerVars
  <2> QED BY <2>1, <1>2
<1> QED BY <1>2, <1>3, <1>4, <1>5, <1>6, <1>7 DEF Next

\* For every set of keys and objects: the manager and its runtimes implement the
\* lease; the persistShared flags of the objects in the map are its holder.
THEOREM RolesAreALease == Spec => LeaseSpec
BY RoleInvariant, HolderIsLeader, LeaseInit, LeaseStep, PTL DEF Spec, LeaseSpec, L!Spec, L!leaseVars

LEMMA MinuteStep == MinuteInv /\ RoleInv' /\ [Next]_vars => MinuteInv'
<1> SUFFICES ASSUME MinuteInv, RoleInv', [Next]_vars
             PROVE  Sampled' /\ StoredBefore' /\ OncePerMinute'
  BY DEF MinuteInv
<1> TypeOK /\ TypeOK'
  BY DEF MinuteInv, RoleInv
<1> USE ConstantsAssumption DEF MinuteInv, Minutes
<1>1. CASE /\ UNCHANGED <<pc, bucket, shared, now, lastBucket, stored>>
           /\ clock' \in Nat /\ clock <= clock'
  <2>1. Sampled'
    BY <1>1 DEF Sampled, TypeOK
  <2> QED BY <1>1, <2>1 DEF StoredBefore, OncePerMinute
<1>2. ASSUME NEW k \in Keys, EnsureExisting(k) PROVE Sampled' /\ StoredBefore' /\ OncePerMinute'
  <2>1. runtimes[k] \in Runtimes
    BY <1>2 DEF EnsureExisting, RoleInv, TypeOK
  <2>2. shared' = shared /\ bucket' = bucket
    BY <1>2, <2>1 DEF EnsureExisting, SetSharedPersistence, RoleInv, SharedIsLeader, Sampled, TypeOK
  <2> QED BY <1>1, <1>2, <2>2 DEF EnsureExisting, locals, TypeOK
<1>3. ASSUME NEW k \in Keys, NEW r \in Runtimes, EnsureStart(k, r)
      PROVE  Sampled' /\ StoredBefore' /\ OncePerMinute'
  <2>1. Sampled'
    BY <1>3 DEF EnsureStart, sharedVars, locals, Sampled, TypeOK
  <2> QED BY <1>3, <2>1 DEF EnsureStart, sharedVars, locals, StoredBefore, OncePerMinute, TypeOK
<1>4. CASE EnsureInsert
  <2>1. starting \in Runtimes /\ ~shared[starting] /\ bucket[starting] = 0
    BY <1>4 DEF EnsureInsert, Free, RoleInv, Fresh, Sampled, TypeOK
  <2>2. bucket' = bucket /\ \E b \in BOOLEAN : shared' = [shared EXCEPT ![starting] = b]
    BY <1>4, <2>1 DEF EnsureInsert, SetSharedPersistence, TypeOK
  <2>3. UNCHANGED <<pc, clock, now, lastBucket, stored>>
    BY <1>4 DEF EnsureInsert, locals
  <2>4. Sampled'
    BY <2>1, <2>2, <2>3 DEF Sampled, TypeOK
  <2> QED BY <2>2, <2>3, <2>4 DEF StoredBefore, OncePerMinute
<1>5. ASSUME NEW k \in StopKeys, StopRemove(k) PROVE Sampled' /\ StoredBefore' /\ OncePerMinute'
  <2>1. bucket' = bucket /\ \A r \in Runtimes : shared[r] => shared'[r]
    BY <1>5 DEF StopRemove, HandOver, SetSharedPersistence, sharedVars, TypeOK
  <2>2. UNCHANGED <<pc, clock, now, lastBucket, stored>>
    BY <1>5 DEF StopRemove, HandOver, locals
  <2>3. Sampled'
    BY <2>1, <2>2 DEF Sampled, TypeOK
  <2> QED BY <2>1, <2>2, <2>3 DEF StoredBefore, OncePerMinute
<1>6. ASSUME NEW r \in Runtimes, Step(r) PROVE Sampled' /\ StoredBefore' /\ OncePerMinute'
  <2> USE DEF Goto, quiet, sharedVars, locals
  <2>1. CASE FetchSucceeds(r)
    <3>1. Sampled'
      BY <2>1 DEF FetchSucceeds, Sampled, TypeOK
    <3> QED BY <2>1, <3>1 DEF FetchSucceeds, StoredBefore, OncePerMinute, TypeOK
  <2>2. ASSUME NEW found \in BOOLEAN, Publish(r, found) PROVE Sampled' /\ StoredBefore' /\ OncePerMinute'
    <3>1. Sampled'
      BY <2>2 DEF Publish, Sampled, TypeOK
    <3> QED BY <2>2, <3>1 DEF Publish, StoredBefore, OncePerMinute, TypeOK
  <2>3. CASE SaveShared(r)
    <3>1. Sampled'
      BY <2>3 DEF SaveShared, Sampled, TypeOK
    <3> QED BY <2>3, <3>1 DEF SaveShared, StoredBefore, OncePerMinute, TypeOK
  <2>4. CASE SaveMinute(r)
    <3>1. Sampled'
      BY <2>4 DEF SaveMinute, Sampled, TypeOK
    <3>2. ASSUME NEW x \in stored, x[1] = r PROVE x[2] <= bucket[r] /\ x[2] < now[r]
      <4>1. pc[r] = "minute" /\ bucket[r] < now[r] /\ bucket[r] \in Nat /\ now[r] \in Nat
        BY <2>4 DEF SaveMinute, Sampled, TypeOK
      <4>2. x[2] <= bucket[r]
        BY <3>2, <4>1 DEF StoredBefore
      <4>3. x[2] \in Nat
        BY DEF TypeOK
      <4> QED BY <4>1, <4>2, <4>3
    <3> DEFINE row == <<r, now[r], revision[r]>>
    <3>3. \A x \in stored' : x \in stored \/ x = row
      BY <2>4 DEF SaveMinute
    <3>4. row[1] = r /\ row[2] = now[r] /\ now[r] >= 1 /\ now[r] \in Nat
      BY <2>4 DEF SaveMinute, Sampled, TypeOK
    <3>5. pc' = [pc EXCEPT ![r] = "mark"] /\ UNCHANGED <<bucket, now>>
      BY <2>4 DEF SaveMinute
    <3> HIDE DEF row
    <3>6. StoredBefore'
      <4> SUFFICES ASSUME NEW x \in stored'
                   PROVE  /\ x[2] >= 1
                          /\ pc'[x[1]] = "dead" \/ x[2] <= bucket[x[1]] \/ (pc'[x[1]] = "mark" /\ x[2] <= now[x[1]])
        BY <3>5 DEF StoredBefore
      <4>1. CASE x = row
        BY <4>1, <3>4, <3>5 DEF TypeOK
      <4>2. CASE x \in stored
        BY <4>2, <3>2, <3>5 DEF StoredBefore, TypeOK
      <4> QED BY <4>1, <4>2, <3>3
    <3>7. OncePerMinute'
      <4>1. \A x \in stored : ~(x[1] = row[1] /\ x[2] = row[2])
        BY <3>2, <3>4
      <4> QED BY <4>1, <3>3 DEF OncePerMinute
    <3> QED BY <3>1, <3>6, <3>7
  <2>5. CASE MarkBucket(r)
    <3>1. bucket' = [bucket EXCEPT ![r] = now[r]]
      BY <2>5 DEF MarkBucket, Sampled
    <3>2. Sampled'
      BY <2>5, <3>1 DEF MarkBucket, Sampled, TypeOK
    <3>3. StoredBefore'
      BY <2>5, <3>1 DEF MarkBucket, StoredBefore, Sampled, TypeOK
    <3> QED BY <2>5, <3>2, <3>3 DEF MarkBucket, OncePerMinute
  <2>6. CASE \/ Boot(r) \/ FetchFails(r) \/ WriteStatus(r) \/ CycleFailed(r)
             \/ Degrade(r) \/ Wait(r) \/ WriteStopped(r)
    <3>1. /\ UNCHANGED <<shared, bucket, clock, stored>>
          /\ \A s \in Runtimes \ {r} : now'[s] = now[s] /\ lastBucket'[s] = lastBucket[s]
          /\ pc[r] \notin {"mark", "dead"}
          /\ \E stage \in {"fetch", "wait", "failed", "degrade", "exit", "done"} : Goto(r, stage)
      BY <2>6 DEF Boot, FetchFails, WriteStatus, CycleFailed, Degrade, Wait, WriteStopped, TypeOK
    <3>2. Sampled'
      BY <3>1 DEF Sampled, TypeOK
    <3> QED BY <3>1, <3>2 DEF StoredBefore, OncePerMinute, TypeOK
  <2> QED BY <1>6, <2>1, <2>2, <2>3, <2>4, <2>5, <2>6 DEF Step
<1>7. CASE Restart
  <2>1. Sampled'
    BY <1>7 DEF Restart, Sampled, TypeOK
  <2>2. StoredBefore'
    <3>1. \A x \in stored : x[1] \in Runtimes /\ pc[x[1]] # "unborn"
      BY DEF StoredBefore, Sampled, RoleInv, Fresh, TypeOK
    <3> QED BY <1>7, <3>1 DEF Restart, StoredBefore, TypeOK
  <2> QED BY <1>7, <2>1, <2>2 DEF Restart, OncePerMinute
<1>8. CASE (\E r \in Runtimes : StopCancel(r)) \/ Tick \/ Shutdown \/ UNCHANGED vars
  BY <1>8, <1>1 DEF StopCancel, Tick, Shutdown, vars, managerVars, sharedVars, locals, TypeOK
<1> QED BY <1>2, <1>3, <1>4, <1>5, <1>6, <1>7, <1>8 DEF Next

LEMMA MinuteInvariant == Spec => []MinuteInv
<1>1. Init => Sampled /\ StoredBefore /\ OncePerMinute
  BY ConstantsAssumption DEF Init, Sampled, StoredBefore, OncePerMinute
<1>2. Init /\ RoleInv => MinuteInv
  BY <1>1 DEF MinuteInv
<1> QED BY <1>2, RoleInvariant, MinuteStep, PTL DEF Spec

\* For every set of keys and objects and any clock: one runtime never stores
\* the rows of a minute twice.
THEOREM MinuteOncePerRuntime == Spec => []OncePerMinute
BY MinuteInvariant, PTL DEF MinuteInv

LEMMA LeaveStep == LeavesWhenCancelled /\ TypeOK /\ [Next]_vars => LeavesWhenCancelled'
<1> SUFFICES ASSUME LeavesWhenCancelled, TypeOK, [Next]_vars PROVE LeavesWhenCancelled'
  OBVIOUS
<1> USE DEF LeavesWhenCancelled, StoppedNeverStored, Cancelled
<1>1. ASSUME NEW r \in Runtimes, Step(r) PROVE LeavesWhenCancelled'
  <2>1. UNCHANGED <<cancelled, baseDone>>
    BY <1>1 DEF Step, Boot, FetchSucceeds, FetchFails, Publish, SaveShared, SaveMinute, MarkBucket,
                WriteStatus, CycleFailed, Degrade, Wait, WriteStopped, quiet, managerVars
  <2>2. \E stage \in Stages : Goto(r, stage) /\ (stage = "exit" => Cancelled(r))
    BY <1>1 DEF Step, Boot, FetchSucceeds, FetchFails, Publish, SaveShared, SaveMinute, MarkBucket,
                WriteStatus, CycleFailed, Degrade, Wait, WriteStopped, Goto, Stages
  <2>3. statusRow' = statusRow \/ \E state \in {"running", "degraded"} : UpsertStatus(r, state)
    BY <1>1 DEF Step, Boot, FetchSucceeds, FetchFails, Publish, SaveShared, SaveMinute, MarkBucket,
                WriteStatus, CycleFailed, Degrade, Wait, WriteStopped, quiet, UpsertStatus
  <2> QED BY <2>1, <2>2, <2>3 DEF Goto, UpsertStatus, TypeOK
<1>2. CASE Restart
  BY <1>2 DEF Restart, TypeOK
<1>3. ASSUME NEW k \in Keys, NEW r \in Runtimes, EnsureStart(k, r) PROVE LeavesWhenCancelled'
  BY <1>3 DEF EnsureStart, TypeOK
<1>4. ASSUME NEW r \in Runtimes, StopCancel(r) PROVE LeavesWhenCancelled'
  BY <1>4 DEF StopCancel, TypeOK
<1>5. ASSUME UNCHANGED <<pc, cancelled, statusRow>>, baseDone => baseDone' PROVE LeavesWhenCancelled'
  BY <1>5
<1>6. CASE \/ \E k \in Keys : EnsureExisting(k) \/ StopRemove(k)
           \/ EnsureInsert \/ Tick \/ Shutdown \/ UNCHANGED vars
  <2>1. UNCHANGED <<pc, cancelled, statusRow>>
    BY <1>6 DEF EnsureExisting, StopRemove, HandOver, EnsureInsert, Tick, Shutdown, vars, managerVars
  <2>2. baseDone => baseDone'
    BY <1>6 DEF EnsureExisting, StopRemove, HandOver, EnsureInsert, Tick, Shutdown, vars, managerVars
  <2> QED BY <2>1, <2>2, <1>5
<1> QED BY <1>1, <1>2, <1>3, <1>4, <1>6, ConstantsAssumption DEF Next

\* For every set of keys and objects: no status row ever says "stopped".
THEOREM StoppedIsNeverStored == Spec => []StoppedNeverStored
<1>1. Init => LeavesWhenCancelled
  BY DEF Init, LeavesWhenCancelled, StoppedNeverStored
<1> QED BY <1>1, TypeCorrect, LeaveStep, PTL DEF Spec, LeavesWhenCancelled

-----------------------------------------------------------------------------
(* The pairs a user is answered *)

Payloads == [time : Nat, pairs : BOOLEAN]

\* What /pairs answered last is not newer than x.
NotBefore(x) == x \in Payloads /\ answer.pairs <= x.time

\* The handler has found no pairs in the memory and asks the copies.
AtStore == handler.pc = "store" /\ handler.asks = "pairs"

PairsTypes ==
  /\ instant \in Nat /\ cycle.at \in Nat /\ cycle.at <= instant /\ cycle.pairs \in BOOLEAN
  /\ cycle = [pc |-> cycle.pc, at |-> cycle.at, event |-> cycle.event, pairs |-> cycle.pairs]
  /\ handler = [pc |-> handler.pc, asks |-> handler.asks]
  /\ payload \in Payloads \cup {None} /\ snapshot \in Payloads \cup {None}
  /\ answer.pairs \in Nat \cup {None}
  /\ answer = [source |-> answer.source, list |-> answer.list, pairs |-> answer.pairs]
  /\ handler.pc # "idle" => answer.source = "none"
  /\ handler.pc = "reading" => handler.asks = "events"

\* Unless a payload has not been stored, the copy lags behind the memory only while the
\* cycle is between the two, and what was answered is in both of them, except that the
\* copy need not have it while a payload with pairs is on its way and the handler does
\* not ask the copies.
PairsInv ==
  /\ PairsTypes
  /\ payload \in Payloads => payload.time <= cycle.at
  /\ snapshot \in Payloads => snapshot.time <= cycle.at
  /\ cycle.pc = "snapshot" => payload = [time |-> cycle.at, pairs |-> cycle.pairs]
  /\ ~unsaved =>
       /\ cycle.pc # "snapshot" => snapshot = payload
       /\ answer.pairs # None =>
            /\ NotBefore(payload)
            /\ cycle.pc # "snapshot" \/ ~payload.pairs \/ AtStore => NotBefore(snapshot)

LEMMA PairsInit == HistoryInit => PairsInv
BY HistoryAssumption DEF HistoryInit, PairsInv, PairsTypes, Idle, Payloads

LEMMA PairsOfCycle ==
  ASSUME PairsInv,
         \/ \E change \in Changes \cup {0}, pairs \in BOOLEAN : Record(change, pairs)
         \/ PublishPayload \/ SaveSnapshot \/ SaveEvents
  PROVE  PairsInv'
<1>1. CASE \E change \in Changes \cup {0}, pairs \in BOOLEAN : Record(change, pairs)
  <2> PICK change \in Changes \cup {0}, pairs \in BOOLEAN : Record(change, pairs)
    BY <1>1
  <2>1. /\ cycle.pc = "idle" /\ cycle.at < instant
        /\ UNCHANGED <<instant, payload, snapshot, handler, answer, unsaved>>
    BY DEF Record
  <2>2. cycle'.pc = "publish" /\ cycle'.at = instant /\ cycle'.pairs \in BOOLEAN
    <3>1. CASE change = 0
      BY <3>1 DEF Record
    <3>2. CASE change # 0
      <4>1. \E x : cycle' = [pc |-> "publish", at |-> instant, pairs |-> TRUE, event |-> x]
        BY <3>2 DEF Record
      <4> QED BY <4>1
    <3> QED BY <3>1, <3>2
  <2>3. cycle' = [pc |-> cycle'.pc, at |-> cycle'.at, event |-> cycle'.event, pairs |-> cycle'.pairs]
    BY DEF Record
  <2>4. PairsTypes'
    BY <2>1, <2>2, <2>3 DEF PairsInv, PairsTypes
  <2> QED BY <2>1, <2>2, <2>4 DEF PairsInv, PairsTypes, NotBefore, AtStore, Payloads
<1>2. CASE PublishPayload
  BY <1>2 DEF PublishPayload, PairsInv, PairsTypes, NotBefore, AtStore, Payloads, historyVars
<1>3. CASE SaveSnapshot
  <2>1. /\ cycle.pc = "snapshot" /\ cycle'.pc # "snapshot" /\ UNCHANGED <<instant, handler, answer, payload>>
        /\ cycle'.at = cycle.at /\ cycle'.pairs \in BOOLEAN
        /\ cycle' = [pc |-> cycle'.pc, at |-> cycle'.at, event |-> cycle'.event, pairs |-> cycle'.pairs]
    BY <1>3 DEF SaveSnapshot, AfterSnapshot, Idle, PairsInv, PairsTypes
  <2>2. payload = [time |-> cycle.at, pairs |-> cycle.pairs] /\ payload \in Payloads
    BY <2>1 DEF PairsInv, PairsTypes, Payloads
  <2>3. (snapshot' = payload /\ unsaved' = unsaved) \/ (unsaved' /\ snapshot' = snapshot)
    BY <1>3, <2>2 DEF SaveSnapshot
  <2>4. PairsTypes'
    BY <2>1, <2>2, <2>3 DEF PairsInv, PairsTypes
  <2> QED BY <2>1, <2>2, <2>3, <2>4 DEF PairsInv, NotBefore, AtStore
<1>4. CASE SaveEvents
  BY <1>4 DEF SaveEvents, Idle, PairsInv, PairsTypes, NotBefore, AtStore, historyVars
<1> QED BY <1>1, <1>2, <1>3, <1>4

LEMMA PairsOfHandlers ==
  ASSUME PairsInv,
         \/ Ask
         \/ \E r \in Readers : ReadEntry(r) \/ WriteEntry(r) \/ ReadOther(r)
         \/ AskMemory \/ EventsFromMemory \/ PairsFromMemory \/ RuntimeUnavailable
         \/ EventsFromStore \/ PairsFromStore \/ FromShared
  PROVE  PairsInv'
<1> USE DEF Reply, GoOn, AtCopies, PairsInv, PairsTypes, NotBefore, AtStore, cycleVars, historyVars
<1>1. CASE Ask
  <2>1. /\ answer'.source = "none" /\ answer'.pairs = answer.pairs
        /\ answer' = [source |-> answer'.source, list |-> answer'.list, pairs |-> answer'.pairs]
    BY <1>1 DEF Ask
  <2>2. /\ handler' = [pc |-> "memory", asks |-> handler.asks]
        /\ UNCHANGED <<instant, cycle, payload, snapshot, unsaved>>
    BY <1>1 DEF Ask
  <2> QED BY <2>1, <2>2
<1>2. CASE \E r \in Readers : ReadEntry(r) \/ WriteEntry(r) \/ ReadOther(r)
  <2>1. UNCHANGED <<instant, cycle, payload, snapshot, handler, answer, unsaved>>
    BY <1>2 DEF ReadEntry, WriteEntry, ReadOther
  <2> QED BY <2>1
<1>3. CASE AskMemory
  BY <1>3 DEF AskMemory
<1>4. CASE EventsFromMemory
  BY <1>4 DEF EventsFromMemory
<1>5. CASE PairsFromMemory
  BY <1>5, HistoryAssumption DEF PairsFromMemory, Payloads
<1>6. CASE RuntimeUnavailable
  BY <1>6 DEF RuntimeUnavailable
<1>7. CASE EventsFromStore
  BY <1>7 DEF EventsFromStore
<1>8. CASE PairsFromStore
  BY <1>8 DEF PairsFromStore, Payloads
<1>9. CASE FromShared
  BY <1>9 DEF FromShared
<1> QED BY <1>1, <1>2, <1>3, <1>4, <1>5, <1>6, <1>7, <1>8, <1>9

LEMMA PairsNext == PairsInv /\ [HistoryNext]_allVars => PairsInv'
<1> SUFFICES ASSUME PairsInv, [HistoryNext]_allVars PROVE PairsInv'
  OBVIOUS
<1>1. CASE UNCHANGED allVars
  BY <1>1 DEF allVars, cycleVars, historyVars, PairsInv, PairsTypes, NotBefore, AtStore
<1>2. CASE TimePasses
  BY <1>2 DEF TimePasses, cycleVars, historyVars, PairsInv, PairsTypes, NotBefore, AtStore
<1>3. CASE ProcessEnds
  BY <1>3, HistoryAssumption DEF ProcessEnds, Idle, PairsInv, PairsTypes, NotBefore, AtStore, Payloads
<1> QED BY <1>1, <1>2, <1>3, PairsOfCycle, PairsOfHandlers DEF HistoryNext

LEMMA PairsAlways == HistorySpec => []PairsInv
BY PairsInit, PairsNext, PTL DEF HistorySpec

\* Only a handler that replies gives an answer.
LEMMA Replies ==
  ASSUME PairsInv, HistoryNext, handler.pc # "idle", answer'.source # "none"
  PROVE  EventsFromMemory \/ PairsFromMemory \/ EventsFromStore \/ PairsFromStore \/ FromShared
<1>1. answer' # answer /\ ~Ask
  BY DEF PairsInv, PairsTypes, Ask
<1>2. ~(\E r \in Readers : ReadEntry(r) \/ WriteEntry(r) \/ ReadOther(r))
  BY <1>1 DEF ReadEntry, WriteEntry, ReadOther
<1>3. ~(\E change \in Changes \cup {0}, pairs \in BOOLEAN : Record(change, pairs))
  BY <1>1 DEF Record
<1>4. ~(PublishPayload \/ SaveSnapshot \/ SaveEvents \/ AskMemory \/ RuntimeUnavailable \/ TimePasses \/ ProcessEnds)
  BY <1>1 DEF PublishPayload, SaveSnapshot, SaveEvents, AskMemory, RuntimeUnavailable, TimePasses, ProcessEnds
<1> QED BY <1>1, <1>2, <1>3, <1>4 DEF HistoryNext

\* While every payload is stored and the process lives, /pairs never answers with older
\* pairs than before, whichever of memory and copy it asks, unless the runtime cannot be
\* asked between its publishing and its storing.
THEOREM PairsOnlyAdvance == HistorySpec => PairsNeverGoBack
<1> DEFINE Advances == Answered("pairs") /\ ~MayGoBack /\ answer.pairs # None /\ answer'.pairs # None =>
                         answer'.pairs >= answer.pairs
<1>1. PairsInv /\ [HistoryNext]_allVars => [Advances]_allVars
  <2> SUFFICES ASSUME PairsInv, HistoryNext, Answered("pairs"), ~MayGoBack,
                      answer.pairs # None, answer'.pairs # None
               PROVE  answer'.pairs >= answer.pairs
    OBVIOUS
  <2>1. ~unsaved /\ NotBefore(payload) /\ (handler.pc = "account" => cycle.pc # "snapshot")
    BY DEF MayGoBack, PairsInv
  <2>2. PairsFromMemory \/ PairsFromStore
    <3>1. handler.pc # "idle" /\ answer'.source # "none"
      BY DEF Answered
    <3>2. ~FromShared /\ ~EventsFromStore
      BY DEF FromShared, EventsFromStore, Reply, Answered
    <3>3. ~EventsFromMemory
      BY <3>1 DEF EventsFromMemory, Reply, PairsInv, PairsTypes
    <3> QED BY <3>1, <3>2, <3>3, Replies
  <2>3. CASE PairsFromMemory
    BY <2>1, <2>3 DEF PairsFromMemory, Reply, NotBefore, PairsInv, PairsTypes, Answered, Payloads
  <2>4. CASE PairsFromStore
    <3>1. NotBefore(snapshot)
      BY <2>1, <2>4 DEF PairsFromStore, AtCopies, AtStore, PairsInv
    <3>2. answer'.pairs = snapshot.time
      BY <2>4 DEF PairsFromStore, Reply
    <3> QED BY <3>1, <3>2 DEF NotBefore, PairsInv, PairsTypes, Payloads
  <2> QED BY <2>2, <2>3, <2>4
<1> QED BY <1>1, PairsAlways, PTL DEF PairsNeverGoBack, HistorySpec

-----------------------------------------------------------------------------
(* Sequences of events *)

Events == [time : Nat, change : Changes]

Increasing(s) == \A i, j \in 1..Len(s) : i < j => s[i].time < s[j].time

\* Of natural numbers there is a least.
LEMMA LeastNumber ==
  ASSUME NEW T \in SUBSET Nat, T # {}
  PROVE  \E m \in T : \A k \in T : m <= k
<1> DEFINE F == {0..k : k \in T}
<1>1. F # {} /\ F \subseteq FiniteSubsetsOf(Nat)
  <2>1. \A k \in T : IsFiniteSet(0..k) /\ 0..k \in SUBSET Nat
    BY FS_Interval
  <2> QED BY <2>1 DEF FiniteSubsetsOf
<1>2. \E x \in F : \A y \in F : <<y, x>> \notin StrictSubsetOrdering(Nat)
  <2> HIDE DEF F
  <2> QED BY <1>1, FS_StrictSubsetOrderingWellFounded, WFMin
<1>3. PICK m \in T : \A k \in T : <<0..k, 0..m>> \notin StrictSubsetOrdering(Nat)
  BY <1>2
<1>4. ASSUME NEW k \in T, k < m PROVE FALSE
  <2>1. 0..k \subseteq 0..m /\ 0..k # 0..m /\ 0..k \in SUBSET Nat /\ 0..m \in SUBSET Nat
    BY <1>4
  <2> QED BY <1>3, <2>1 DEF StrictSubsetOrdering
<1> QED BY <1>4

\* Induction, about sets of natural numbers.
LEMMA Inductive ==
  ASSUME NEW T \in SUBSET Nat, 0 \in T, \A n \in T : n + 1 \in T
  PROVE  T = Nat
<1> SUFFICES ASSUME Nat \ T # {} PROVE FALSE
  OBVIOUS
<1>1. PICK m \in Nat \ T : \A k \in Nat \ T : m <= k
  BY LeastNumber
<1>2. m - 1 \in Nat /\ m - 1 \notin Nat \ T
  BY <1>1
<1> QED BY <1>1, <1>2

\* The newest c of a sequence.
NewestOf(s, c) == SubSeq(s, IF Len(s) > c THEN Len(s) - c + 1 ELSE 1, Len(s))

LEMMA NewestProperties ==
  ASSUME NEW s \in Seq(Events), s # <<>>, NEW c \in Nat \ {0}
  PROVE  LET r == NewestOf(s, c)
         IN  /\ r \in Seq(Events) /\ Len(r) \in Nat \ {0}
             /\ r[Len(r)] = s[Len(s)]
             /\ \A j \in 1..Len(r) : \E m \in 1..Len(s) : r[j] = s[m]
             /\ Increasing(s) => Increasing(r)
<1> DEFINE n == Len(s)
           f == IF n > c THEN n - c + 1 ELSE 1
           r == SubSeq(s, f, n)
<1>1. n \in Nat \ {0} /\ f \in 1..n
  OBVIOUS
<1>2. \A i \in f..n : s[i] \in Events
  BY <1>1
<1> HIDE DEF f, n
<1>3. /\ r \in Seq(Events) /\ Len(r) = n - f + 1
      /\ \A i \in 1..(n - f + 1) : r[i] = s[f + i - 1]
  <2>1. /\ SubSeq(s, f, n) \in Seq(Events)
        /\ Len(SubSeq(s, f, n)) = IF f <= n THEN n - f + 1 ELSE 0
        /\ \A i \in 1..(n - f + 1) : SubSeq(s, f, n)[i] = s[f + i - 1]
    BY <1>1, <1>2, SubSeqProperties
  <2> QED BY <1>1, <2>1
<1> HIDE DEF r
<1>4. r[Len(r)] = s[n]
  <2>1. n - f + 1 \in 1..(n - f + 1) /\ f + (n - f + 1) - 1 = n
    BY <1>1
  <2> QED BY <1>3, <2>1
<1>5. \A j \in 1..Len(r) : f + j - 1 \in 1..n /\ r[j] = s[f + j - 1]
  BY <1>1, <1>3
<1>6. ASSUME Increasing(s) PROVE Increasing(r)
  <2> SUFFICES ASSUME NEW i \in 1..Len(r), NEW j \in 1..Len(r), i < j PROVE r[i].time < r[j].time
    BY DEF Increasing
  <2>1. f + i - 1 \in 1..n /\ f + j - 1 \in 1..n /\ f + i - 1 < f + j - 1
    BY <1>1, <1>3, <1>5
  <2>2. s[f + i - 1].time < s[f + j - 1].time
    BY <1>6, <2>1 DEF Increasing, n
  <2> QED BY <1>5, <2>2
<1>7. Len(r) \in Nat \ {0}
  BY <1>1, <1>3
<1> QED BY <1>3, <1>4, <1>5, <1>6, <1>7 DEF NewestOf, r, f, n

\* The newest Limit events, in reverse order.
LEMMA RecentProperties ==
  ASSUME NEW s \in Seq(Events), s # <<>>
  PROVE  /\ Recent(s) \in Seq(Events) /\ Recent(s) # <<>> /\ Recent(s)[1] = s[Len(s)]
         /\ \A i \in 1..Len(Recent(s)) : \E m \in 1..Len(s) : Recent(s)[i] = s[m]
         /\ Increasing(s) => \A i, j \in 1..Len(Recent(s)) : i < j => Recent(s)[j].time < Recent(s)[i].time
<1> DEFINE r == NewestOf(s, Limit)
           n == Len(r)
<1>1. Limit \in Nat \ {0}
  BY HistoryAssumption
<1>2. /\ r \in Seq(Events) /\ n \in Nat \ {0} /\ r[n] = s[Len(s)]
      /\ \A j \in 1..n : \E m \in 1..Len(s) : r[j] = s[m]
      /\ Increasing(s) => Increasing(r)
  BY <1>1, NewestProperties
<1>3. Recent(s) = [i \in 1..n |-> r[n - i + 1]]
  BY DEF Recent, Reverse, NewestOf
<1> HIDE DEF r
<1>4. Recent(s) \in Seq(Events) /\ Len(Recent(s)) = n /\ \A i \in 1..n : Recent(s)[i] = r[n - i + 1]
  <2>1. DOMAIN Recent(s) = 1..n
    BY <1>3
  <2>2. Recent(s) \in Seq(Events)
    <3>1. \A i \in 1..n : r[n - i + 1] \in Events
      BY <1>2
    <3> QED BY <1>2, <1>3, <3>1, IsASeq
  <2> QED BY <1>2, <1>3, <2>1, <2>2
<1> HIDE DEF n
<1>5. Recent(s) # <<>> /\ Recent(s)[1] = s[Len(s)]
  BY <1>2, <1>4
<1>6. \A i \in 1..n : \E m \in 1..Len(s) : Recent(s)[i] = s[m]
  <2> TAKE i \in 1..n
  <2>1. n - i + 1 \in 1..n
    BY <1>2
  <2> QED BY <1>2, <1>4, <2>1
<1>7. ASSUME Increasing(s), NEW i \in 1..n, NEW j \in 1..n, i < j
      PROVE  Recent(s)[j].time < Recent(s)[i].time
  <2>1. n - i + 1 \in 1..n /\ n - j + 1 \in 1..n /\ n - j + 1 < n - i + 1
    BY <1>2, <1>7
  <2>2. r[n - j + 1].time < r[n - i + 1].time
    BY <1>2, <1>7, <2>1 DEF Increasing, n
  <2> QED BY <1>4, <2>2
<1> QED BY <1>4, <1>5, <1>6, <1>7

LEMMA SessionStartType == ASSUME instant \in Nat PROVE SessionStart \in Int
<1>1. DayLength \in Nat \ {0} /\ Opening \in Int
  BY HistoryAssumption
<1>2. instant \div DayLength \in Int
  BY <1>1
<1> DEFINE q == instant \div DayLength
<1> HIDE DEF q
<1>3. q * DayLength + Opening \in Int
  BY <1>1, <1>2 DEF q
<1> QED BY <1>3 DEF SessionStart, q

-----------------------------------------------------------------------------
(* The events of the process and their copies *)

ReaderStates == [pc : {"idle", "read", "write"}, array : Nat, from : Nat, n : Nat, i : Nat, k : Nat,
                 entry : Events \cup {None}, cutoff : Int, quiet : BOOLEAN]

\* The event recorded last is not older than any stored one; the times of the stored
\* ones differ; and the event a cycle has yet to store is the one recorded last.
RowsInv ==
  /\ PairsTypes
  /\ rows \subseteq Events /\ IsFiniteSet(rows)
  /\ \A e \in rows : e.time <= cycle.at
  /\ \A e, f \in rows : e.time = f.time => e = f
  /\ recorded \in Events \cup {None}
  /\ recorded # None => recorded.time <= cycle.at /\ \A e \in rows : e.time <= recorded.time
  /\ cycle.event # None =>
       /\ cycle.event = recorded /\ recorded.time = cycle.at
       /\ cycle.pc = "events" \/ cycle.pc = "publish" \/ cycle.pc = "snapshot"
       /\ \A e \in rows : e.time < cycle.at
  /\ cycle.pc = "events" => cycle.event # None

\* An event of this process: none is later than the last one recorded.
Known(x) == x \in Events /\ recorded # None /\ x.time <= recorded.time

\* What a reader has is part of an array, and it never writes past what it has read.
ReaderInv(r) ==
  /\ reading[r].array \in 1..Len(arrays)
  /\ reading[r].from >= 1
  /\ reading[r].from + reading[r].n - 1 <= Len(arrays[reading[r].array])
  /\ reading[r].k <= reading[r].i /\ reading[r].i <= reading[r].n
  /\ reading[r].pc = "idle" => reading[r].array = 1 /\ reading[r].from = 1 /\ reading[r].n = 0
  /\ reading[r].pc = "write" => reading[r].k < reading[r].i /\ Known(reading[r].entry)
  /\ reading[r].pc = "write" \/ reading[r].k > 0 =>
       recorded # None /\ recorded.time >= reading[r].cutoff

MemoryTypes ==
  /\ arrays \in Seq(Seq(Events)) /\ Len(arrays) >= 1
  /\ first \in Nat /\ first >= 1 /\ first <= Len(memory) + 1
  /\ reading \in [Readers -> ReaderStates]
  /\ recorded \in Events \cup {None}
  /\ \A a \in 1..Len(arrays) : \A p \in 1..Len(arrays[a]) : Known(arrays[a][p])
  /\ \A r \in Readers : ReaderInv(r)

\* The reader has the array of the map up to its end.
AtEnd(r) == reading[r].array = Len(arrays) /\ reading[r].from + reading[r].n - 1 = Len(memory)

\* The memory ends with the event recorded last, and so does what a reader puts there.
LastIsNewest ==
  ~crossed =>
    /\ Len(memory) > 0 => memory[Len(memory)] = recorded
    /\ \A r \in Readers : AtEnd(r) /\ reading[r].pc = "write" /\ reading[r].i = reading[r].n =>
                            reading[r].entry = recorded

\* No write has crossed the read of a quiet reader: what it has kept ends, in the end,
\* with the event recorded last.
QuietReads ==
  \A r \in Readers : reading[r].quiet =>
    /\ AtEnd(r)
    /\ ~crossed /\ Filtered(r) /\ reading[r].k > 0 =>
         arrays[reading[r].array][reading[r].from + reading[r].k - 1] = recorded

\* An event is at a place of an array, or a reader has copied it from there and is about
\* to write it.
Pending(a, p, x) ==
  \E r \in Readers : /\ reading[r].pc = "write" /\ reading[r].entry = x
                     /\ reading[r].array = a /\ reading[r].from + reading[r].i - 1 = p
Holds(a, p, x) ==
  \/ a \in 1..Len(arrays) /\ p \in 1..Len(arrays[a]) /\ x = arrays[a][p]
  \/ Pending(a, p, x)

\* Until a read moves an event to an earlier place, later places hold later events.
Ordered ==
  ~shifted => \A a, p, q \in Nat, x, y \in Events :
                Holds(a, p, x) /\ Holds(a, q, y) /\ p < q => x.time < y.time

MemoryInv == MemoryTypes /\ LastIsNewest /\ QuietReads /\ Ordered

LEMMA EventTimes == \A x \in Events : x.time \in Nat
BY DEF Events

\* Events held before and held after: nothing new but what was there.
LEMMA StaysOrdered ==
  ASSUME Ordered, ~shifted' => ~shifted,
         ~shifted' => \A a, p \in Nat, x \in Events : Holds(a, p, x)' => Holds(a, p, x)
  PROVE  Ordered'
BY DEF Ordered

\* Nothing is recorded and nobody reads.
EmptyMemory == arrays = NoArrays /\ first = 1 /\ reading = NobodyReads /\ recorded = None

LEMMA MemoryStart == EmptyMemory => MemoryInv
<1> SUFFICES ASSUME EmptyMemory PROVE MemoryInv
  OBVIOUS
<1>1. /\ arrays = << <<>> >> /\ first = 1 /\ recorded = None
      /\ reading = [r \in Readers |-> NotReading]
  BY DEF EmptyMemory, NoArrays, NobodyReads
<1>2. arrays \in Seq(Seq(Events)) /\ Len(arrays) = 1 /\ arrays[1] = <<>> /\ Len(arrays[1]) = 0
  BY <1>1
<1>3. /\ NotReading \in ReaderStates /\ NotReading.pc = "idle" /\ NotReading.array = 1 /\ NotReading.from = 1
      /\ NotReading.n = 0 /\ NotReading.i = 0 /\ NotReading.k = 0 /\ NotReading.quiet = FALSE
  BY DEF NotReading, ReaderStates
<1>4. \A r \in Readers : reading[r] = NotReading
  BY <1>1
<1>5. \A r \in Readers : ReaderInv(r)
  BY <1>2, <1>3, <1>4 DEF ReaderInv
<1>6. MemoryTypes
  BY <1>1, <1>2, <1>3, <1>5 DEF MemoryTypes, memory
<1>7. LastIsNewest /\ QuietReads
  BY <1>1, <1>2, <1>3, <1>4 DEF LastIsNewest, QuietReads, memory
<1>8. Ordered
  <2>1. \A a, p, x : ~Holds(a, p, x)
    BY <1>2, <1>3, <1>4 DEF Holds, Pending
  <2> QED BY <2>1 DEF Ordered
<1> QED BY <1>6, <1>7, <1>8 DEF MemoryInv

LEMMA MemoryRestarts == EmptyMemory' => MemoryInv'
BY MemoryStart, PTL

\* A reader begins.
LEMMA BeginKeeps ==
  ASSUME MemoryInv, instant \in Nat, NEW r \in Readers, Begin(r),
         UNCHANGED <<arrays, first, recorded, shifted, crossed>>
  PROVE  MemoryInv'
<1> USE DEF MemoryInv
<1>1. PICK d : /\ d = [pc |-> "read", array |-> Len(arrays), from |-> first, n |-> Held, i |-> 0, k |-> 0,
                       entry |-> None, cutoff |-> SessionStart, quiet |-> TRUE]
               /\ reading' = [reading EXCEPT ![r] = d]
  BY DEF Begin
<1>2. /\ Len(arrays) \in Nat /\ Len(arrays) >= 1 /\ memory \in Seq(Events) /\ Len(memory) \in Nat
      /\ Held \in Nat /\ first + Held - 1 = Len(memory) /\ first \in Nat /\ first >= 1
  BY DEF MemoryTypes, memory, Held
<1>3. d \in ReaderStates
  BY <1>1, <1>2, SessionStartType DEF ReaderStates
<1>4. /\ d.pc = "read" /\ d.array = Len(arrays) /\ d.from = first /\ d.n = Held /\ d.i = 0 /\ d.k = 0
  BY <1>1
<1>5. /\ reading' \in [Readers -> ReaderStates] /\ reading'[r] = d
      /\ \A q \in Readers : q # r => reading'[q] = reading[q]
  BY <1>1, <1>3 DEF MemoryTypes
<1>6. memory' = memory
  BY DEF memory
<1>7. ReaderInv(r)'
  BY <1>2, <1>4, <1>5 DEF ReaderInv, memory
<1>8. \A q \in Readers : ReaderInv(q)'
  <2> TAKE q \in Readers
  <2>1. CASE q # r
    BY <1>5, <2>1 DEF MemoryTypes, ReaderInv, Known
  <2> QED BY <1>7, <2>1
<1>9. MemoryTypes'
  BY <1>5, <1>6, <1>8 DEF MemoryTypes, Known
<1>10. LastIsNewest'
  BY <1>4, <1>5, <1>6 DEF LastIsNewest, AtEnd
<1>11. QuietReads'
  BY <1>2, <1>4, <1>5, <1>6 DEF QuietReads, AtEnd, Filtered
<1>12. Ordered'
  <2>1. \A a, p \in Nat, x \in Events : Holds(a, p, x)' => Holds(a, p, x)
    BY <1>4, <1>5 DEF Holds, Pending
  <2> QED BY <2>1, StaysOrdered
<1> QED BY <1>9, <1>10, <1>11, <1>12

\* A reader ends.
LEMMA EndKeeps ==
  ASSUME MemoryInv, NEW r \in Readers, End(r), UNCHANGED <<arrays, first, recorded, shifted, crossed>>
  PROVE  MemoryInv'
<1> USE DEF MemoryInv
<1>1. /\ NotReading \in ReaderStates /\ NotReading.pc = "idle" /\ NotReading.array = 1 /\ NotReading.from = 1
      /\ NotReading.n = 0 /\ NotReading.i = 0 /\ NotReading.k = 0 /\ NotReading.quiet = FALSE
  BY DEF NotReading, ReaderStates
<1>2. /\ reading' \in [Readers -> ReaderStates] /\ reading'[r] = NotReading
      /\ \A q \in Readers : q # r => reading'[q] = reading[q]
  BY <1>1 DEF MemoryTypes, End
<1>3. memory' = memory
  BY DEF memory
<1>4. \A q \in Readers : ReaderInv(q)'
  <2> TAKE q \in Readers
  <2>1. CASE q # r
    BY <1>2, <2>1 DEF MemoryTypes, ReaderInv, Known
  <2>2. CASE q = r
    <3>1. arrays \in Seq(Seq(Events)) /\ Len(arrays) \in Nat /\ Len(arrays) >= 1 /\ Len(arrays[1]) \in Nat
      BY DEF MemoryTypes
    <3> QED BY <1>1, <1>2, <2>2, <3>1 DEF ReaderInv
  <2> QED BY <2>1, <2>2
<1>5. MemoryTypes'
  BY <1>2, <1>3, <1>4 DEF MemoryTypes, Known
<1>6. LastIsNewest'
  BY <1>1, <1>2, <1>3 DEF LastIsNewest, AtEnd
<1>7. QuietReads'
  BY <1>1, <1>2, <1>3 DEF QuietReads, AtEnd, Filtered
<1>8. Ordered'
  <2>1. \A a, p \in Nat, x \in Events : Holds(a, p, x)' => Holds(a, p, x)
    BY <1>1, <1>2 DEF Holds, Pending
  <2> QED BY <2>1, StaysOrdered
<1> QED BY <1>5, <1>6, <1>7, <1>8

\* A reader copies an entry.
LEMMA ReadKeeps ==
  ASSUME MemoryInv, NEW r \in Readers, ReadEntry(r)
  PROVE  MemoryInv'
<1> USE DEF MemoryInv
<1> DEFINE d == reading[r]
           x == arrays[d.array][d.from + d.i]
<1>1. /\ d.pc = "read" /\ d.i < d.n /\ d \in ReaderStates /\ ReaderInv(r)
      /\ UNCHANGED <<arrays, first, recorded, shifted, crossed>>
  BY DEF ReadEntry, MemoryTypes, historyVars
<1>2. /\ d.array \in 1..Len(arrays) /\ d.from + d.i \in 1..Len(arrays[d.array])
      /\ d.from \in Nat /\ d.n \in Nat /\ d.i \in Nat /\ d.k \in Nat /\ d.cutoff \in Int
  <2>1. Len(arrays[d.array]) \in Nat
    BY <1>1 DEF ReaderInv, MemoryTypes
  <2> QED BY <1>1, <2>1 DEF ReaderInv, ReaderStates
<1>3. Known(x) /\ x \in Events /\ x.time \in Nat /\ recorded \in Events /\ recorded.time \in Nat
  BY <1>2, EventTimes DEF MemoryTypes, Known
<1>4. PICK c : /\ c = IF x.time >= d.cutoff THEN [d EXCEPT !.pc = "write", !.i = d.i + 1, !.entry = x]
                                             ELSE [d EXCEPT !.i = d.i + 1]
               /\ reading' = [reading EXCEPT ![r] = c]
  BY DEF ReadEntry
<1> HIDE DEF x
<1>5. /\ c.array = d.array /\ c.from = d.from /\ c.n = d.n /\ c.i = d.i + 1 /\ c.k = d.k
      /\ c.cutoff = d.cutoff /\ c.quiet = d.quiet
      /\ \/ c.pc = "write" /\ c.entry = x /\ x.time >= d.cutoff
         \/ c.pc = "read" /\ c.entry = d.entry /\ ~(x.time >= d.cutoff)
  BY <1>1, <1>4 DEF ReaderStates
<1>6. c \in ReaderStates
  <2>1. d.i + 1 \in Nat
    BY <1>2
  <2>2. CASE x.time >= d.cutoff
    <3>1. c = [d EXCEPT !.pc = "write", !.i = d.i + 1, !.entry = x]
      BY <1>4, <2>2
    <3> QED BY <1>1, <1>3, <2>1, <3>1 DEF ReaderStates
  <2>3. CASE ~(x.time >= d.cutoff)
    <3>1. c = [d EXCEPT !.i = d.i + 1]
      BY <1>4, <2>3
    <3> QED BY <1>1, <2>1, <3>1 DEF ReaderStates
  <2> QED BY <2>2, <2>3
<1> HIDE DEF d
<1>7. /\ reading' \in [Readers -> ReaderStates] /\ reading'[r] = c
      /\ \A q \in Readers : q # r => reading'[q] = reading[q]
  BY <1>4, <1>6 DEF MemoryTypes
<1>8. memory' = memory
  BY <1>1 DEF memory
<1>9. ReaderInv(r)'
  <2>1. /\ d.from >= 1 /\ d.from + d.n - 1 <= Len(arrays[d.array]) /\ d.k <= d.i
        /\ d.k > 0 => recorded # None /\ recorded.time >= d.cutoff
    BY <1>1 DEF ReaderInv, d
  <2>2. c.pc = "write" => recorded.time >= d.cutoff /\ recorded # None /\ c.entry = x
    BY <1>2, <1>3, <1>5 DEF Known
  <2>3. c.pc # "idle" /\ (c.pc = "write" => c.k < c.i /\ Known(c.entry))
    BY <1>2, <1>3, <1>5, <2>1, <2>2
  <2> HIDE DEF d
  <2>4. /\ c.array \in 1..Len(arrays) /\ c.from >= 1 /\ c.from + c.n - 1 <= Len(arrays[c.array])
        /\ c.k <= c.i /\ c.i <= c.n
        /\ c.pc = "write" \/ c.k > 0 => recorded # None /\ recorded.time >= c.cutoff
    BY <1>1, <1>2, <1>5, <2>1, <2>2
  <2> QED BY <1>1, <1>7, <2>3, <2>4 DEF ReaderInv, Known
<1>10. \A q \in Readers : ReaderInv(q)'
  <2> TAKE q \in Readers
  <2>1. CASE q # r
    BY <1>1, <1>7, <2>1 DEF MemoryTypes, ReaderInv, Known
  <2> QED BY <1>9, <2>1
<1>11. MemoryTypes'
  BY <1>1, <1>7, <1>8, <1>10 DEF MemoryTypes, Known
<1>12. ~crossed /\ AtEnd(r) /\ c.i = c.n => x = recorded
  <2> SUFFICES ASSUME ~crossed, AtEnd(r), c.i = c.n PROVE x = recorded
    OBVIOUS
  <2>1. d.array = Len(arrays) /\ d.from + d.i = Len(memory)
    BY <1>2, <1>5 DEF AtEnd, d
  <2>2. Len(memory) > 0 /\ x = memory[Len(memory)]
    BY <1>2, <2>1 DEF x, memory
  <2> QED BY <2>2 DEF LastIsNewest
<1>13. AtEnd(r)' <=> AtEnd(r)
  BY <1>1, <1>5, <1>7, <1>8 DEF AtEnd, d
<1>14. \A q \in Readers : q # r => (AtEnd(q)' <=> AtEnd(q))
  BY <1>1, <1>7, <1>8 DEF AtEnd
<1>15. LastIsNewest'
  BY <1>1, <1>5, <1>7, <1>8, <1>12, <1>13, <1>14 DEF LastIsNewest
<1>16. QuietReads'
  <2> SUFFICES ASSUME NEW q \in Readers, reading'[q].quiet
               PROVE  /\ AtEnd(q)'
                      /\ ~crossed /\ Filtered(q)' /\ reading'[q].k > 0 =>
                           arrays[reading'[q].array][reading'[q].from + reading'[q].k - 1] = recorded
    BY <1>1 DEF QuietReads
  <2>1. CASE q # r
    BY <1>7, <1>14, <2>1 DEF QuietReads, Filtered
  <2>2. CASE q = r
    <3>1. d.quiet /\ AtEnd(r)
      BY <1>5, <1>7, <2>2 DEF QuietReads, d
    <3>2. ASSUME ~crossed, Filtered(r)', c.k > 0 PROVE FALSE
      <4>1. c.pc = "read" /\ c.i = c.n
        BY <1>7, <3>2 DEF Filtered
      <4>2. x = recorded /\ ~(x.time >= d.cutoff)
        BY <1>5, <1>12, <3>1, <3>2, <4>1
      <4>3. recorded.time >= d.cutoff
        BY <1>1, <1>5, <3>2 DEF ReaderInv, d
      <4> QED BY <4>2, <4>3
    <3> QED BY <1>7, <1>13, <2>2, <3>1, <3>2
  <2> QED BY <2>1, <2>2
<1>17. Ordered'
  <2>1. \A a, p \in Nat, y \in Events : Pending(a, p, y)' =>
           Pending(a, p, y) \/ (a = d.array /\ p = d.from + d.i /\ y = x)
    BY <1>2, <1>5, <1>7 DEF Pending
  <2>2. \A a, p \in Nat, y \in Events : Holds(a, p, y)' => Holds(a, p, y)
    BY <1>1, <1>2, <2>1 DEF Holds, x
  <2> QED BY <1>1, <2>2, StaysOrdered
<1> QED BY <1>11, <1>15, <1>16, <1>17

\* What is held is known, and is somewhere in an array.
LEMMA HeldIsKnown ==
  ASSUME MemoryTypes, NEW a, NEW p, NEW x, Holds(a, p, x)
  PROVE  Known(x) /\ a \in 1..Len(arrays) /\ p \in 1..Len(arrays[a])
<1>1. CASE a \in 1..Len(arrays) /\ p \in 1..Len(arrays[a]) /\ x = arrays[a][p]
  BY <1>1 DEF MemoryTypes
<1>2. CASE Pending(a, p, x)
  <2>1. PICK r \in Readers : /\ reading[r].pc = "write" /\ reading[r].entry = x
                             /\ reading[r].array = a /\ reading[r].from + reading[r].i - 1 = p
    BY <1>2 DEF Pending
  <2>2. ReaderInv(r) /\ reading[r] \in ReaderStates /\ Len(arrays[a]) \in Nat
    BY <2>1 DEF MemoryTypes, ReaderInv
  <2> QED BY <2>1, <2>2 DEF ReaderInv, ReaderStates
<1> QED BY <1>1, <1>2 DEF Holds

\* One entry of one array is replaced.
LEMMA EntryReplaced ==
  ASSUME MemoryTypes, NEW a \in 1..Len(arrays), NEW w \in 1..Len(arrays[a]), NEW e \in Events,
         arrays' = [arrays EXCEPT ![a] = [@ EXCEPT ![w] = e]]
  PROVE  /\ arrays' \in Seq(Seq(Events)) /\ Len(arrays') = Len(arrays)
         /\ \A b \in 1..Len(arrays) : /\ Len(arrays'[b]) = Len(arrays[b])
                                      /\ \A p \in 1..Len(arrays[b]) :
                                           arrays'[b][p] = IF b = a /\ p = w THEN e ELSE arrays[b][p]
         /\ Len(memory') = Len(memory)
<1> DEFINE s == arrays[a]
           t == [s EXCEPT ![w] = e]
<1>1. arrays \in Seq(Seq(Events)) /\ s \in Seq(Events) /\ Len(arrays) \in Nat /\ Len(arrays) >= 1
  BY DEF MemoryTypes
<1>2. t \in Seq(Events) /\ Len(t) = Len(s) /\ \A p \in 1..Len(s) : t[p] = IF p = w THEN e ELSE s[p]
  BY <1>1, ExceptSeq
<1>3. arrays' = [arrays EXCEPT ![a] = t]
  OBVIOUS
<1> HIDE DEF t
<1>4. /\ arrays' \in Seq(Seq(Events)) /\ Len(arrays') = Len(arrays)
      /\ \A b \in 1..Len(arrays) : arrays'[b] = IF b = a THEN t ELSE arrays[b]
  <2> DEFINE S == Seq(Events)
  <2>1. arrays \in Seq(S) /\ t \in S
    BY <1>1, <1>2
  <2> HIDE DEF S
  <2>2. /\ [arrays EXCEPT ![a] = t] \in Seq(S) /\ Len([arrays EXCEPT ![a] = t]) = Len(arrays)
        /\ \A b \in 1..Len(arrays) : [arrays EXCEPT ![a] = t][b] = IF b = a THEN t ELSE arrays[b]
    BY <2>1, ExceptSeq
  <2> QED BY <1>3, <2>2 DEF S
<1>5. Len(memory') = Len(memory)
  <2>1. memory' = arrays'[Len(arrays)] /\ Len(arrays) \in 1..Len(arrays)
    BY <1>1, <1>4 DEF memory
  <2> QED BY <1>2, <1>4, <2>1 DEF memory
<1> QED BY <1>2, <1>4, <1>5

\* A reader puts an entry behind those it has kept.
LEMMA WriteKeeps ==
  ASSUME MemoryInv, NEW r \in Readers, WriteEntry(r)
  PROVE  MemoryInv'
<1> USE DEF MemoryInv
<1> DEFINE d == reading[r]
           w == d.from + d.k
<1>1. /\ d.pc = "write" /\ d \in ReaderStates /\ ReaderInv(r) /\ MemoryTypes
      /\ UNCHANGED <<first, recorded, crossed>> /\ shifted' = (shifted \/ d.k + 1 # d.i)
      /\ arrays' = [arrays EXCEPT ![d.array] = [@ EXCEPT ![w] = d.entry]]
  BY DEF WriteEntry, MemoryTypes
<1>2. /\ d.array \in 1..Len(arrays) /\ w \in 1..Len(arrays[d.array]) /\ d.entry \in Events /\ Known(d.entry)
      /\ d.from \in Nat /\ d.n \in Nat /\ d.i \in Nat /\ d.k \in Nat /\ d.cutoff \in Int
      /\ d.k < d.i /\ d.i <= d.n /\ d.from >= 1 /\ d.from + d.n - 1 <= Len(arrays[d.array])
      /\ recorded # None /\ recorded.time >= d.cutoff
  <2>1. Len(arrays[d.array]) \in Nat
    BY <1>1 DEF ReaderInv, MemoryTypes
  <2>2. d.k < d.i /\ d.i <= d.n /\ d.from + d.n - 1 <= Len(arrays[d.array]) /\ d.from >= 1
    BY <1>1 DEF ReaderInv
  <2>3. d.from \in Nat /\ d.n \in Nat /\ d.i \in Nat /\ d.k \in Nat /\ d.cutoff \in Int
    BY <1>1 DEF ReaderStates
  <2>4. d.k <= d.n - 1
    <3> HIDE DEF d
    <3> QED BY <2>2, <2>3
  <2>5. w \in 1..Len(arrays[d.array])
    <3> HIDE DEF d
    <3> QED BY <2>1, <2>2, <2>3, <2>4
  <2> QED BY <1>1, <2>2, <2>3, <2>5 DEF ReaderInv, Known
<1>3. PICK c : /\ c = [d EXCEPT !.pc = "read", !.k = d.k + 1, !.entry = None]
               /\ reading' = [q \in Readers |->
                    IF q = r THEN c
                    ELSE [reading[q] EXCEPT !.quiet = @ /\ ~(reading[q].array = d.array
                                                            /\ arrays[d.array][d.from + d.k] # d.entry)]]
  BY DEF WriteEntry
<1>4. /\ c.pc = "read" /\ c.array = d.array /\ c.from = d.from /\ c.n = d.n /\ c.i = d.i /\ c.k = d.k + 1
      /\ c.cutoff = d.cutoff /\ c.quiet = d.quiet /\ c \in ReaderStates
  <2>1. d.k + 1 \in Nat
    BY <1>2
  <2> HIDE DEF w
  <2> QED BY <1>1, <1>3, <2>1 DEF ReaderStates
<1>5. reading'[r] = c
  BY <1>3
<1>6. \A q \in Readers : q # r =>
        /\ reading'[q] \in ReaderStates
        /\ reading'[q].pc = reading[q].pc /\ reading'[q].array = reading[q].array
        /\ reading'[q].from = reading[q].from /\ reading'[q].n = reading[q].n
        /\ reading'[q].i = reading[q].i /\ reading'[q].k = reading[q].k
        /\ reading'[q].entry = reading[q].entry /\ reading'[q].cutoff = reading[q].cutoff
        /\ reading'[q].quiet => reading[q].quiet /\ (reading[q].array = d.array => arrays[d.array][w] = d.entry)
  <2> SUFFICES ASSUME NEW q \in Readers, q # r
               PROVE  /\ reading'[q] \in ReaderStates
                      /\ reading'[q].pc = reading[q].pc /\ reading'[q].array = reading[q].array
                      /\ reading'[q].from = reading[q].from /\ reading'[q].n = reading[q].n
                      /\ reading'[q].i = reading[q].i /\ reading'[q].k = reading[q].k
                      /\ reading'[q].entry = reading[q].entry /\ reading'[q].cutoff = reading[q].cutoff
                      /\ reading'[q].quiet => reading[q].quiet /\ (reading[q].array = d.array => arrays[d.array][w] = d.entry)
                  OBVIOUS
  <2>1. PICK z \in BOOLEAN : /\ z = (reading[q].quiet /\ ~(reading[q].array = d.array
                                                            /\ arrays[d.array][d.from + d.k] # d.entry))
                             /\ reading'[q] = [reading[q] EXCEPT !.quiet = z]
    BY <1>3
  <2>2. reading[q] \in ReaderStates
    BY DEF MemoryTypes
  <2> QED BY <2>1, <2>2 DEF ReaderStates
<1>7. /\ arrays' \in Seq(Seq(Events)) /\ Len(arrays') = Len(arrays)
      /\ \A b \in 1..Len(arrays) : /\ Len(arrays'[b]) = Len(arrays[b])
                                   /\ \A p \in 1..Len(arrays[b]) :
                                        arrays'[b][p] = IF b = d.array /\ p = w THEN d.entry ELSE arrays[b][p]
      /\ Len(memory') = Len(memory)
  BY <1>1, <1>2, EntryReplaced
<1> HIDE DEF w
<1>8. reading' \in [Readers -> ReaderStates]
  <2>1. \A q \in Readers : reading'[q] \in ReaderStates
    BY <1>4, <1>5, <1>6
  <2>2. DOMAIN reading' = Readers /\ reading' = [q \in Readers |-> reading'[q]]
    BY <1>3
  <2> QED BY <2>1, <2>2
<1>9. ReaderInv(r)'
  <2>1. c.array \in 1..Len(arrays') /\ c.from + c.n - 1 <= Len(arrays'[c.array])
    BY <1>2, <1>4, <1>7
  <2> QED BY <1>1, <1>2, <1>4, <1>5, <2>1 DEF ReaderInv
<1>10. \A q \in Readers : ReaderInv(q)'
  <2> TAKE q \in Readers
  <2>1. CASE q # r
    <3>1. ReaderInv(q)
      BY DEF MemoryTypes
    <3>2. /\ reading[q].array \in 1..Len(arrays')
          /\ Len(arrays'[reading[q].array]) = Len(arrays[reading[q].array])
      BY <1>7, <3>1 DEF ReaderInv
    <3> QED BY <1>1, <1>6, <2>1, <3>1, <3>2 DEF ReaderInv, Known
  <2> QED BY <1>9, <2>1
<1>11. MemoryTypes'
  <2>1. \A a \in 1..Len(arrays') : \A p \in 1..Len(arrays'[a]) : Known(arrays'[a][p])
    BY <1>2, <1>7 DEF MemoryTypes
  <2> QED BY <1>1, <1>7, <1>8, <1>10, <2>1 DEF MemoryTypes, Known
<1>12. AtEnd(r)' <=> AtEnd(r)
  BY <1>4, <1>5, <1>7 DEF AtEnd
<1>13. \A q \in Readers : q # r => (AtEnd(q)' <=> AtEnd(q))
  BY <1>6, <1>7 DEF AtEnd
<1>14. Len(arrays) \in 1..Len(arrays) /\ memory = arrays[Len(arrays)] /\ memory' = arrays'[Len(arrays)] /\ Len(memory) \in Nat
  BY <1>7 DEF MemoryTypes, memory
<1>15. ~crossed /\ d.array = Len(arrays) /\ w = Len(memory) => d.entry = recorded
  <2> SUFFICES ASSUME ~crossed, d.array = Len(arrays), w = Len(memory) PROVE d.entry = recorded
    OBVIOUS
  <2>1. d.from + d.k = Len(memory) /\ d.from + d.n - 1 <= Len(memory)
    BY <1>2, <1>14 DEF w
  <2>2. d.i = d.n /\ d.from + d.n - 1 = Len(memory)
    <3> HIDE DEF d
    <3> QED BY <1>2, <1>14, <2>1
  <2>3. AtEnd(r)
    BY <2>2 DEF AtEnd
  <2> QED BY <1>1, <2>2, <2>3 DEF LastIsNewest
<1>16. LastIsNewest'
  <2> SUFFICES ASSUME ~crossed
               PROVE  /\ Len(memory') > 0 => memory'[Len(memory')] = recorded
                      /\ \A q \in Readers : AtEnd(q)' /\ reading'[q].pc = "write" /\ reading'[q].i = reading'[q].n =>
                                              reading'[q].entry = recorded
    BY <1>1 DEF LastIsNewest
  <2>1. ASSUME Len(memory') > 0 PROVE memory'[Len(memory')] = recorded
    <3>1. Len(memory) \in 1..Len(memory) /\ memory[Len(memory)] = recorded
      BY <1>7, <1>14, <2>1 DEF LastIsNewest
    <3> QED BY <1>7, <1>14, <1>15, <3>1
  <2>2. ASSUME NEW q \in Readers, AtEnd(q)', reading'[q].pc = "write", reading'[q].i = reading'[q].n
        PROVE  reading'[q].entry = recorded
    <3>1. q # r
      BY <1>4, <1>5, <2>2
    <3> QED BY <1>6, <1>13, <2>2, <3>1 DEF LastIsNewest
  <2> QED BY <2>1, <2>2
<1>17. QuietReads'
  <2> SUFFICES ASSUME NEW q \in Readers, reading'[q].quiet
               PROVE  /\ AtEnd(q)'
                      /\ ~crossed /\ Filtered(q)' /\ reading'[q].k > 0 =>
                           arrays'[reading'[q].array][reading'[q].from + reading'[q].k - 1] = recorded
    BY <1>1 DEF QuietReads
  <2>1. CASE q # r
    <3>1. reading[q].quiet /\ AtEnd(q) /\ (reading[q].array = d.array => arrays[d.array][w] = d.entry)
      BY <1>6, <2>1 DEF QuietReads
    <3>2. ASSUME ~crossed, Filtered(q)', reading'[q].k > 0
          PROVE  arrays'[reading'[q].array][reading'[q].from + reading'[q].k - 1] = recorded
      <4> DEFINE a == reading[q].array
                 p == reading[q].from + reading[q].k - 1
      <4>1. Filtered(q) /\ reading[q].k > 0
        BY <1>6, <2>1, <3>2 DEF Filtered
      <4>2. arrays[a][p] = recorded
        BY <3>1, <3>2, <4>1 DEF QuietReads
      <4>3. a \in 1..Len(arrays) /\ p \in 1..Len(arrays[a])
        <5>1. ReaderInv(q) /\ reading[q] \in ReaderStates
          BY DEF MemoryTypes
        <5>2. Len(arrays[a]) \in Nat
          BY <5>1 DEF ReaderInv, MemoryTypes
        <5> QED BY <4>1, <5>1, <5>2 DEF ReaderInv, ReaderStates
      <4>4. arrays'[a][p] = arrays[a][p]
        BY <1>7, <3>1, <4>3
      <4> QED BY <1>6, <2>1, <4>2, <4>4
    <3> QED BY <1>13, <2>1, <3>1, <3>2
  <2>2. CASE q = r
    <3>1. AtEnd(r)
      BY <1>4, <1>5, <2>2 DEF QuietReads
    <3>2. ASSUME ~crossed, Filtered(r)' PROVE arrays'[c.array][c.from + c.k - 1] = recorded
      <4>1. d.i = d.n
        BY <1>4, <1>5, <3>2 DEF Filtered
      <4>2. d.entry = recorded
        BY <1>1, <3>1, <3>2, <4>1 DEF LastIsNewest
      <4>3. c.from + c.k - 1 = w
        BY <1>2, <1>4 DEF w
      <4> QED BY <1>2, <1>4, <1>7, <4>2, <4>3
    <3> QED BY <1>5, <1>12, <2>2, <3>1, <3>2
  <2> QED BY <2>1, <2>2
<1>18. Ordered'
  <2> SUFFICES ASSUME ~shifted' PROVE \A a, p \in Nat, x \in Events : Holds(a, p, x)' => Holds(a, p, x)
    BY <1>1, StaysOrdered
  <2>1. w = d.from + d.i - 1
    <3>1. d.k + 1 = d.i
      BY <1>1
    <3> HIDE DEF d
    <3> QED BY <1>2, <3>1 DEF w
  <2>2. Pending(d.array, w, d.entry)
    BY <1>1, <2>1 DEF Pending
  <2>3. \A a, p \in Nat, x \in Events : Pending(a, p, x)' => Pending(a, p, x)
    BY <1>4, <1>5, <1>6 DEF Pending
  <2> QED BY <1>7, <2>2, <2>3 DEF Holds
<1> QED BY <1>11, <1>16, <1>17, <1>18

\* What recording an event e must do to the arrays.
Recorded(e) ==
  /\ arrays' \in Seq(Seq(Events)) /\ Len(arrays') >= 1
  /\ first' \in Nat /\ first' >= 1 /\ first' <= Len(memory') + 1
  /\ Len(memory') > 0 => memory'[Len(memory')] = e
  /\ \A a \in 1..Len(arrays') : \A p \in 1..Len(arrays'[a]) : arrays'[a][p] = e \/ Known(arrays'[a][p])
  /\ \A r \in Readers : /\ reading[r].array \in 1..Len(arrays')
                         /\ reading[r].from + reading[r].n - 1 <= Len(arrays'[reading[r].array])
  /\ ~crossed' => \A r \in Readers :
       ~(/\ reading[r].pc = "write" /\ reading[r].array = Len(arrays')
         /\ reading[r].from + reading[r].n - 1 = Len(memory'))
  /\ Ordered'

\* Recording leaves the readers where they are, but none is quiet.
ReadersStay ==
  /\ reading' \in [Readers -> ReaderStates]
  /\ \A q \in Readers :
       /\ reading'[q].pc = reading[q].pc /\ reading'[q].array = reading[q].array
       /\ reading'[q].from = reading[q].from /\ reading'[q].n = reading[q].n
       /\ reading'[q].i = reading[q].i /\ reading'[q].k = reading[q].k
       /\ reading'[q].entry = reading[q].entry /\ reading'[q].cutoff = reading[q].cutoff
       /\ reading'[q].quiet = FALSE

LEMMA ReadersStayThere ==
  ASSUME MemoryTypes, reading' = [r \in Readers |-> [reading[r] EXCEPT !.quiet = FALSE]]
  PROVE  ReadersStay
<1>1. \A q \in Readers : reading[q] \in ReaderStates
  BY DEF MemoryTypes
<1> QED BY <1>1 DEF ReadersStay, ReaderStates

LEMMA RecordedKeeps ==
  ASSUME MemoryInv, NEW e \in Events, Recorded(e), ReadersStay, recorded' = e,
         \A x : Known(x) => x.time < e.time
  PROVE  MemoryInv'
<1>1. e \in Events /\ e # None /\ e.time \in Nat
  BY HistoryAssumption, EventTimes DEF Events
<1>2. \A x : Known(x) \/ x = e => x \in Events /\ x.time \in Nat /\ x.time <= e.time
  BY <1>1, EventTimes DEF Known
<1>3. \A r \in Readers : ReaderInv(r)'
  <2> TAKE r \in Readers
  <2>1. ReaderInv(r) /\ reading[r] \in ReaderStates
    BY DEF MemoryInv, MemoryTypes
  <2>2. /\ reading'[r].array \in 1..Len(arrays') /\ reading'[r].from >= 1
        /\ reading'[r].from + reading'[r].n - 1 <= Len(arrays'[reading'[r].array])
        /\ reading'[r].k <= reading'[r].i /\ reading'[r].i <= reading'[r].n
        /\ reading'[r].pc = "idle" => reading'[r].array = 1 /\ reading'[r].from = 1 /\ reading'[r].n = 0
    BY <2>1 DEF ReaderInv, ReadersStay, Recorded
  <2>3. reading'[r].pc = "write" =>
           reading'[r].k < reading'[r].i /\ reading'[r].entry \in Events /\ reading'[r].entry.time <= recorded'.time
    BY <1>2, <2>1 DEF ReaderInv, ReadersStay
  <2>4. reading'[r].pc = "write" \/ reading'[r].k > 0 => recorded'.time >= reading'[r].cutoff
    <3> SUFFICES ASSUME reading[r].pc = "write" \/ reading[r].k > 0 PROVE e.time >= reading[r].cutoff
      BY DEF ReadersStay
    <3>1. recorded # None /\ recorded.time >= reading[r].cutoff /\ reading[r].cutoff \in Int
      BY <2>1 DEF ReaderInv, ReaderStates
    <3>2. recorded \in Events /\ recorded.time \in Nat
      BY <3>1, EventTimes DEF MemoryInv, MemoryTypes
    <3>3. Known(recorded)
      BY <3>1, <3>2 DEF Known
    <3> QED BY <1>1, <3>1, <3>2, <3>3
  <2> QED BY <1>1, <2>2, <2>3, <2>4 DEF ReaderInv, Known
<1>4. \A a \in 1..Len(arrays') : \A p \in 1..Len(arrays'[a]) : Known(arrays[a][p])'
  <2> SUFFICES ASSUME NEW a \in 1..Len(arrays'), NEW p \in 1..Len(arrays'[a])
               PROVE  /\ arrays'[a][p] \in Events /\ recorded' # None
                      /\ arrays'[a][p].time <= recorded'.time
    BY DEF Known
  <2>1. arrays'[a][p] = e \/ Known(arrays'[a][p])
    BY DEF Recorded
  <2> QED BY <1>1, <1>2, <2>1
<1>5. MemoryTypes'
  BY <1>1, <1>3, <1>4 DEF MemoryTypes, Recorded, ReadersStay
<1>6. LastIsNewest'
  BY DEF LastIsNewest, Recorded, ReadersStay, AtEnd
<1>7. QuietReads'
  BY DEF QuietReads, ReadersStay
<1> QED BY <1>5, <1>6, <1>7 DEF MemoryInv, Recorded

LEMMA PendingStays ==
  ASSUME ReadersStay, NEW a, NEW p, NEW x, Pending(a, p, x)'
  PROVE  Pending(a, p, x)
BY DEF Pending, ReadersStay

\* An event behind all others of its array.
LEMMA PlacedBehind ==
  ASSUME Ordered, MemoryTypes, shifted' = shifted, NEW e \in Events, \A x : Known(x) => x.time < e.time,
         NEW l \in Nat, NEW m \in Nat,
         \A a, p \in Nat, x \in Events : Holds(a, p, x)' => Holds(a, p, x) \/ (a = l /\ p = m /\ x = e),
         \A p \in Nat, x \in Events : Holds(l, p, x) => p <= m
  PROVE  Ordered'
<1> SUFFICES ASSUME ~shifted, NEW a \in Nat, NEW p \in Nat, NEW q \in Nat, NEW x \in Events, NEW y \in Events,
                    Holds(a, p, x)', Holds(a, q, y)', p < q
             PROVE  x.time < y.time
  BY DEF Ordered
<1>1. CASE Holds(a, p, x) /\ Holds(a, q, y)
  BY <1>1 DEF Ordered
<1>2. CASE Holds(a, p, x) /\ y = e
  BY <1>2, HeldIsKnown
<1>3. CASE a = l /\ p = m
  BY <1>3
<1> QED BY <1>1, <1>2, <1>3

LEMMA MergeRecords ==
  ASSUME MemoryInv, ReadersStay, NEW e \in Events, \A x : Known(x) => x.time < e.time, shifted' = shifted,
         Same(e), crossed' = (Same(e) /\ BeingRead),
         arrays' = [arrays EXCEPT ![Len(arrays)] = [@ EXCEPT ![Len(memory)] = e]], UNCHANGED first
  PROVE  Recorded(e)
<1> USE DEF MemoryInv
<1> DEFINE l == Len(arrays)
           m == Len(memory)
<1>1. /\ l \in Nat /\ l >= 1 /\ memory \in Seq(Events) /\ m \in Nat /\ m >= 1
      /\ first \in Nat /\ first >= 1 /\ first <= m + 1
  BY DEF MemoryTypes, memory, Same, Held
<1>2. l \in 1..Len(arrays) /\ m \in 1..Len(arrays[l])
  BY <1>1 DEF memory
<1>3. arrays' = [arrays EXCEPT ![l] = [@ EXCEPT ![m] = e]]
  OBVIOUS
<1> HIDE DEF l, m
<1>4. /\ arrays' \in Seq(Seq(Events)) /\ Len(arrays') = Len(arrays)
      /\ \A b \in 1..Len(arrays) : /\ Len(arrays'[b]) = Len(arrays[b])
                                   /\ \A p \in 1..Len(arrays[b]) :
                                        arrays'[b][p] = IF b = l /\ p = m THEN e ELSE arrays[b][p]
      /\ Len(memory') = Len(memory)
  BY <1>2, <1>3, EntryReplaced
<1>5. memory'[Len(memory')] = e
  BY <1>2, <1>4 DEF memory, l, m
<1>6. \A a \in 1..Len(arrays') : \A p \in 1..Len(arrays'[a]) : arrays'[a][p] = e \/ Known(arrays'[a][p])
  BY <1>4 DEF MemoryTypes
<1>7. \A r \in Readers : /\ reading[r].array \in 1..Len(arrays')
                         /\ reading[r].from + reading[r].n - 1 <= Len(arrays'[reading[r].array])
  BY <1>4 DEF MemoryTypes, ReaderInv
<1>8. ~crossed' => \A r \in Readers : reading[r].pc # "write"
  BY DEF BeingRead
<1>9. Ordered'
  <2>1. \A a, p \in Nat, x \in Events : Holds(a, p, x)' => Holds(a, p, x) \/ (a = l /\ p = m /\ x = e)
    BY <1>4, PendingStays DEF Holds
  <2>2. \A p \in Nat, x \in Events : Holds(l, p, x) => p <= m
    BY HeldIsKnown DEF memory, l, m
  <2> QED BY <1>1, <2>1, <2>2, PlacedBehind
<1>10. first' \in Nat /\ first' >= 1 /\ first' <= Len(memory') + 1
  BY <1>1, <1>4 DEF m
<1>11. Len(arrays') >= 1
  BY <1>1, <1>4 DEF l
<1> QED BY <1>4, <1>5, <1>6, <1>7, <1>8, <1>9, <1>10, <1>11 DEF Recorded

LEMMA KeptProperties ==
  ASSUME NEW from \in Nat, NEW to \in Nat, from >= 1, from <= to
  PROVE  Kept(from, to) \in Nat /\ Kept(from, to) >= 1 /\ Kept(from, to) <= to + 1
<1>1. MaxEvents \in Nat \ {0}
  BY HistoryAssumption
<1> QED BY <1>1 DEF Kept

LEMMA AppendRecords ==
  ASSUME MemoryInv, ReadersStay, NEW e \in Events, \A x : Known(x) => x.time < e.time, shifted' = shifted,
         arrays' = [arrays EXCEPT ![Len(arrays)] = Append(@, e)], first' = Kept(first, Len(memory) + 1)
  PROVE  Recorded(e)
<1> USE DEF MemoryInv
<1> DEFINE l == Len(arrays)
           m == Len(memory)
           t == Append(memory, e)
           S == Seq(Events)
<1>1. /\ l \in Nat /\ l >= 1 /\ l \in 1..Len(arrays) /\ memory \in S /\ m \in Nat /\ memory = arrays[l]
      /\ first \in Nat /\ first >= 1 /\ first <= m + 1 /\ arrays \in Seq(S)
  BY DEF MemoryTypes, memory
<1>2. t \in S /\ Len(t) = m + 1 /\ (\A p \in 1..m : t[p] = memory[p]) /\ t[m + 1] = e
  BY <1>1, AppendProperties
<1>3. arrays' = [arrays EXCEPT ![l] = t]
  BY DEF memory
<1> HIDE DEF l, m, t, S
<1>4. /\ arrays' \in Seq(S) /\ Len(arrays') = Len(arrays)
      /\ \A b \in 1..Len(arrays) : arrays'[b] = IF b = l THEN t ELSE arrays[b]
  <2>1. l \in 1..Len(arrays)
    BY <1>1 DEF l
  <2>2. /\ [arrays EXCEPT ![l] = t] \in Seq(S) /\ Len([arrays EXCEPT ![l] = t]) = Len(arrays)
        /\ \A b \in 1..Len(arrays) : [arrays EXCEPT ![l] = t][b] = IF b = l THEN t ELSE arrays[b]
    BY <1>1, <1>2, <2>1, ExceptSeq
  <2> QED BY <1>3, <2>2
<1>5. memory' = t /\ Len(memory') = m + 1 /\ memory'[Len(memory')] = e
  BY <1>1, <1>2, <1>4 DEF memory, l
<1>6. \A a \in 1..Len(arrays') : \A p \in 1..Len(arrays'[a]) :
         \/ p \in 1..Len(arrays[a]) /\ arrays'[a][p] = arrays[a][p]
         \/ a = l /\ p = m + 1 /\ arrays'[a][p] = e
  <2> TAKE a \in 1..Len(arrays')
  <2> TAKE p \in 1..Len(arrays'[a])
  <2>1. CASE a # l
    BY <1>4, <2>1
  <2>2. CASE a = l
    <3>1. arrays'[a] = t /\ p \in 1..(m + 1) /\ arrays[a] = memory
      BY <1>1, <1>2, <1>4, <2>2
    <3> QED BY <1>1, <1>2, <2>2, <3>1 DEF m
  <2> QED BY <2>1, <2>2
<1>7. \A a \in 1..Len(arrays') : \A p \in 1..Len(arrays'[a]) : arrays'[a][p] = e \/ Known(arrays'[a][p])
  BY <1>4, <1>6 DEF MemoryTypes
<1>8. ASSUME NEW r \in Readers
      PROVE  /\ reading[r].array \in 1..Len(arrays')
             /\ reading[r].from + reading[r].n - 1 <= Len(arrays'[reading[r].array])
             /\ ~(/\ reading[r].array = Len(arrays')
                  /\ reading[r].from + reading[r].n - 1 = Len(memory'))
  <2>1. /\ reading[r].array \in 1..Len(arrays) /\ reading[r].from + reading[r].n - 1 <= Len(arrays[reading[r].array])
        /\ reading[r].from \in Nat /\ reading[r].n \in Nat /\ Len(arrays[reading[r].array]) \in Nat
    <3>1. ReaderInv(r) /\ reading[r] \in ReaderStates
      BY DEF MemoryTypes
    <3> QED BY <3>1 DEF ReaderInv, ReaderStates, MemoryTypes
  <2>2. CASE reading[r].array = l
    <3>1. arrays[reading[r].array] = memory /\ arrays'[reading[r].array] = t
      BY <1>1, <1>4, <2>1, <2>2
    <3>2. reading[r].from + reading[r].n - 1 <= m
      BY <2>1, <3>1 DEF m
    <3> QED BY <1>1, <1>2, <1>4, <1>5, <2>1, <3>1, <3>2
  <2>3. CASE reading[r].array # l
    <3>1. arrays'[reading[r].array] = arrays[reading[r].array] /\ reading[r].array # Len(arrays')
      BY <1>4, <2>1, <2>3 DEF l
    <3> QED BY <1>4, <2>1, <3>1
  <2> QED BY <2>2, <2>3
<1>9. Ordered'
  <2>1. \A a, p \in Nat, x \in Events : Holds(a, p, x)' => Holds(a, p, x) \/ (a = l /\ p = m + 1 /\ x = e)
    BY <1>4, <1>6, PendingStays DEF Holds
  <2>2. \A p \in Nat, x \in Events : Holds(l, p, x) => p <= m + 1
    <3>1. \A p \in Nat, x \in Events : Holds(l, p, x) => p \in 1..Len(memory)
      BY <1>1, HeldIsKnown
    <3> QED BY <1>1, <3>1 DEF m
  <2>3. m + 1 \in Nat
    BY <1>1
  <2> QED BY <1>1, <2>1, <2>2, <2>3, PlacedBehind
<1>10. first' \in Nat /\ first' >= 1 /\ first' <= Len(memory') + 1
  <2>1. first' = Kept(first, m + 1)
    BY DEF m
  <2> QED BY <1>1, <1>5, <2>1, KeptProperties
<1>11. Len(arrays') >= 1
  BY <1>1, <1>4 DEF l
<1> QED BY <1>4, <1>5, <1>7, <1>8, <1>9, <1>10, <1>11 DEF Recorded, S

LEMMA NewArrayRecords ==
  ASSUME MemoryInv, ReadersStay, NEW e \in Events, \A x : Known(x) => x.time < e.time, shifted' = shifted,
         arrays' = (IF BeingRead THEN arrays ELSE <<>>) \o <<Append(SubSeq(memory, first, Len(memory)), e)>>,
         first' = Kept(1, Held + 1)
  PROVE  Recorded(e)
<1> USE DEF MemoryInv
<1> DEFINE l == Len(arrays)
           m == Len(memory)
           b == SubSeq(memory, first, m)
           t == Append(b, e)
           old == IF BeingRead THEN arrays ELSE <<>>
           S == Seq(Events)
<1>1. /\ l \in Nat /\ l >= 1 /\ l \in 1..Len(arrays) /\ memory \in Seq(Events) /\ m \in Nat /\ memory = arrays[l]
      /\ first \in Nat /\ first >= 1 /\ first <= m + 1 /\ arrays \in Seq(S)
      /\ Held \in Nat /\ Held = m - first + 1
  BY DEF MemoryTypes, memory, Held
<1>2. b \in Seq(Events) /\ Len(b) = Held /\ \A p \in 1..Held : b[p] = memory[first + p - 1] /\ first + p - 1 \in 1..m
  <2>1. \A i \in first..m : memory[i] \in Events
    BY <1>1
  <2> HIDE DEF m
  <2>2. /\ b \in Seq(Events) /\ Len(b) = IF first <= m THEN m - first + 1 ELSE 0
        /\ \A i \in 1..(m - first + 1) : b[i] = memory[first + i - 1]
    BY <1>1, <2>1, SubSeqProperties
  <2> HIDE DEF b
  <2> QED BY <1>1, <2>2
<1> HIDE DEF b
<1>3. t \in S /\ Len(t) = Held + 1 /\ (\A p \in 1..Held : t[p] = b[p]) /\ t[Held + 1] = e
  BY <1>2, AppendProperties
<1>4. old \in Seq(S) /\ (BeingRead => old = arrays) /\ (~BeingRead => old = <<>>)
  BY <1>1
<1>5. arrays' = old \o <<t>>
  BY DEF b
<1> HIDE DEF l, m, t, old, S
<1>6. /\ arrays' \in Seq(S) /\ Len(arrays') = Len(old) + 1
      /\ \A a \in 1..Len(old) : arrays'[a] = old[a]
      /\ arrays'[Len(old) + 1] = t
  <2> DEFINE u == <<t>>
  <2>1. u \in Seq(S) /\ Len(u) = 1 /\ u[1] = t
    BY <1>3
  <2>2. Len(old) \in Nat
    BY <1>4
  <2>3. arrays' = old \o u
    BY <1>5
  <2> HIDE DEF u
  <2>4. /\ old \o u \in Seq(S) /\ Len(old \o u) = Len(old) + Len(u)
        /\ \A a \in 1..(Len(old) + Len(u)) : (old \o u)[a] = IF a <= Len(old) THEN old[a] ELSE u[a - Len(old)]
    <3>1. old \in Seq(S) /\ u \in Seq(S)
      BY <1>4, <2>1
    <3> HIDE DEF MemoryInv
    <3> QED BY <3>1, ConcatProperties
  <2>5. \A a \in 1..Len(old) : a \in 1..(Len(old) + Len(u)) /\ a <= Len(old)
    BY <2>1, <2>2
  <2>6. Len(old) + 1 \in 1..(Len(old) + Len(u)) /\ ~(Len(old) + 1 <= Len(old)) /\ (Len(old) + 1) - Len(old) = 1
    BY <2>1, <2>2
  <2> QED BY <2>1, <2>2, <2>3, <2>4, <2>5, <2>6
<1>7. Len(old) \in Nat /\ memory' = t /\ Len(memory') = Held + 1 /\ memory'[Len(memory')] = e
  <2>1. Len(old) \in Nat
    BY <1>4
  <2>2. memory' = arrays'[Len(arrays')]
    BY DEF memory
  <2> QED BY <1>3, <1>6, <2>1, <2>2
<1>8. \A a \in 1..Len(arrays'), p \in Nat : p \in 1..Len(arrays'[a]) =>
         \/ BeingRead /\ a \in 1..Len(arrays) /\ p \in 1..Len(arrays[a]) /\ arrays'[a][p] = arrays[a][p]
         \/ a = Len(arrays') /\ p \in 1..Held /\ first + p - 1 \in 1..m /\ arrays'[a][p] = memory[first + p - 1]
         \/ a = Len(arrays') /\ p = Held + 1 /\ arrays'[a][p] = e
  <2> TAKE a \in 1..Len(arrays'), p \in Nat
  <2>1. CASE a = Len(old) + 1
    <3>1. arrays'[a] = t /\ a = Len(arrays')
      BY <1>6, <2>1
    <3>2. p \in 1..Len(arrays'[a]) => p \in 1..Held \/ p = Held + 1
      BY <1>1, <1>3, <3>1
    <3>3. p \in 1..Held => first + p - 1 \in 1..m /\ arrays'[a][p] = memory[first + p - 1]
      BY <1>2, <1>3, <3>1
    <3> QED BY <1>3, <3>1, <3>2, <3>3
  <2>2. CASE a # Len(old) + 1
    <3>1. a \in 1..Len(old) /\ arrays'[a] = old[a]
      BY <1>6, <1>7, <2>2
    <3>2. BeingRead
      <4> SUFFICES ASSUME ~BeingRead PROVE FALSE
        OBVIOUS
      <4>1. Len(old) = 0
        BY <1>4
      <4> QED BY <3>1, <4>1
    <3> QED BY <1>4, <3>1, <3>2
  <2> QED BY <2>1, <2>2
<1>9. \A a \in 1..Len(arrays') : \A p \in 1..Len(arrays'[a]) : arrays'[a][p] = e \/ Known(arrays'[a][p])
  <2>1. \A p \in 1..m : Known(memory[p])
    <3>1. \A p \in 1..Len(arrays[l]) : Known(arrays[l][p])
      BY <1>1 DEF MemoryTypes, l
    <3> QED BY <1>1, <3>1 DEF m
  <2>2. \A a \in 1..Len(arrays) : \A p \in 1..Len(arrays[a]) : Known(arrays[a][p])
    BY DEF MemoryTypes
  <2> SUFFICES ASSUME NEW a \in 1..Len(arrays'), NEW p \in 1..Len(arrays'[a])
               PROVE  arrays'[a][p] = e \/ Known(arrays'[a][p])
    OBVIOUS
  <2>3. p \in Nat
    <3>1. arrays'[a] \in S
      <4>1. arrays' \in Seq(S)
        BY <1>6
      <4> QED BY <4>1, ElementOfSeq
    <3>2. Len(arrays'[a]) \in Nat
      BY <3>1 DEF S
    <3> QED BY <3>2
  <2> QED BY <1>8, <2>1, <2>2, <2>3
<1>10. ASSUME NEW r \in Readers
       PROVE  /\ reading[r].array \in 1..Len(arrays')
              /\ reading[r].from + reading[r].n - 1 <= Len(arrays'[reading[r].array])
              /\ reading[r].pc = "write" => reading[r].array < Len(arrays')
  <2>1. /\ reading[r].array \in 1..Len(arrays) /\ reading[r].from + reading[r].n - 1 <= Len(arrays[reading[r].array])
        /\ reading[r].pc = "idle" => reading[r].array = 1 /\ reading[r].from = 1 /\ reading[r].n = 0
    BY DEF MemoryTypes, ReaderInv
  <2>2. CASE BeingRead
    <3>1. Len(arrays') = Len(arrays) + 1 /\ arrays'[reading[r].array] = arrays[reading[r].array]
      BY <1>4, <1>6, <2>1, <2>2
    <3> QED BY <1>1, <2>1, <3>1
  <2>3. CASE ~BeingRead
    <3>1. reading[r].pc = "idle"
      BY <2>3 DEF BeingRead
    <3>2. Len(old) = 0 /\ Len(arrays') = 1 /\ arrays'[1] = t
      <4>1. Len(old) = 0
        BY <1>4, <2>3
      <4> QED BY <1>6, <4>1
    <3> QED BY <1>1, <1>3, <2>1, <3>1, <3>2
  <2> QED BY <2>2, <2>3
<1>11. \A a, p \in Nat, x \in Events : Holds(a, p, x)' =>
         \/ Holds(a, p, x) /\ a < Len(arrays')
         \/ a = Len(arrays') /\ p \in 1..Held /\ Holds(l, first + p - 1, x)
         \/ a = Len(arrays') /\ p = Held + 1 /\ x = e
  <2> TAKE a, p \in Nat, x \in Events
  <2> HAVE Holds(a, p, x)'
  <2>1. CASE Pending(a, p, x)'
    <3>1. Pending(a, p, x)
      BY <2>1, PendingStays
    <3>2. a < Len(arrays')
      BY <1>10, <3>1 DEF Pending
    <3> QED BY <3>1, <3>2 DEF Holds
  <2>2. CASE a \in 1..Len(arrays') /\ p \in 1..Len(arrays'[a]) /\ x = arrays'[a][p]
    <3>1. CASE BeingRead /\ a \in 1..Len(arrays) /\ p \in 1..Len(arrays[a]) /\ arrays'[a][p] = arrays[a][p]
      <4>1. a < Len(arrays')
        BY <1>1, <1>4, <1>6, <3>1 DEF l
      <4> QED BY <2>2, <3>1, <4>1 DEF Holds
    <3>2. CASE a = Len(arrays') /\ p \in 1..Held /\ first + p - 1 \in 1..m /\ arrays'[a][p] = memory[first + p - 1]
      <4>1. Holds(l, first + p - 1, x)
        BY <1>1, <2>2, <3>2 DEF Holds, m, l
      <4> QED BY <3>2, <4>1
    <3> QED BY <1>8, <2>2, <3>1, <3>2
  <2> QED BY <2>1, <2>2 DEF Holds
<1>12. Ordered'
  <2> SUFFICES ASSUME ~shifted, NEW a \in Nat, NEW p \in Nat, NEW q \in Nat, NEW x \in Events, NEW y \in Events,
                      Holds(a, p, x)', Holds(a, q, y)', p < q
               PROVE  x.time < y.time
    BY DEF Ordered
  <2>1. CASE Holds(a, p, x) /\ Holds(a, q, y)
    BY <2>1 DEF Ordered
  <2>2. CASE a = Len(arrays')
    <3>1. p \in 1..Held /\ Holds(l, first + p - 1, x)
      BY <1>1, <1>11, <2>2
    <3>2. CASE q \in 1..Held /\ Holds(l, first + q - 1, y)
      <4>1. first + p - 1 \in Nat /\ first + q - 1 \in Nat /\ first + p - 1 < first + q - 1
        BY <1>1, <3>1, <3>2
      <4> QED BY <1>1, <3>1, <3>2, <4>1 DEF Ordered
    <3>3. CASE y = e
      BY <3>1, <3>3, HeldIsKnown
    <3> QED BY <1>1, <1>11, <2>2, <3>2, <3>3
  <2> QED BY <1>11, <2>1, <2>2
<1>13. first' \in Nat /\ first' >= 1 /\ first' <= Len(memory') + 1
  <2>1. Held + 1 \in Nat /\ 1 \in Nat /\ 1 <= Held + 1
    BY <1>1
  <2> QED BY <1>7, <2>1, KeptProperties
<1>14. Len(arrays') >= 1
  BY <1>6, <1>7
<1>15. \A r \in Readers : ~(/\ reading[r].pc = "write" /\ reading[r].array = Len(arrays')
                            /\ reading[r].from + reading[r].n - 1 = Len(memory'))
  <2>1. Len(arrays') \in Nat
    BY <1>6, <1>7
  <2> QED BY <1>10, <2>1
<1> QED BY <1>6, <1>7, <1>9, <1>10, <1>12, <1>13, <1>14, <1>15 DEF Recorded, S

\* The cycle has a new snapshot.
LEMMA RecordKeeps ==
  ASSUME MemoryInv, RowsInv, NEW change \in Changes \cup {0}, NEW pairs \in BOOLEAN, Record(change, pairs)
  PROVE  MemoryInv'
<1>1. CASE change = 0
  <2>1. UNCHANGED <<arrays, first, reading, recorded, crossed, shifted>>
    BY <1>1 DEF Record, memoryVars
  <2> QED BY <2>1 DEF MemoryInv, MemoryTypes, ReaderInv, Known, LastIsNewest, QuietReads, Filtered, AtEnd,
                      Ordered, Holds, Pending, memory
<1>2. CASE change # 0
  <2> DEFINE e == [time |-> instant, change |-> change]
  <2>1. /\ instant \in Nat /\ cycle.at \in Nat /\ cycle.at < instant
        /\ recorded # None => recorded.time <= cycle.at
    BY DEF RowsInv, PairsTypes, Record
  <2>2. e \in Events /\ e.time = instant
    BY <1>2, <2>1 DEF Events
  <2>3. /\ Remember(e) /\ recorded' = e /\ crossed' = (Same(e) /\ BeingRead) /\ shifted' = shifted
        /\ reading' = [r \in Readers |-> [reading[r] EXCEPT !.quiet = FALSE]]
    BY <1>2 DEF Record
  <2> HIDE DEF e
  <2>4. \A x : Known(x) => x.time < e.time
    <3> SUFFICES ASSUME NEW x, Known(x) PROVE x.time < e.time
      OBVIOUS
    <3>1. x \in Events /\ recorded # None /\ x.time <= recorded.time /\ recorded \in Events
      BY DEF Known, MemoryInv, MemoryTypes
    <3>2. x.time \in Nat /\ recorded.time \in Nat
      BY <3>1, EventTimes
    <3> QED BY <2>1, <2>2, <3>1, <3>2
  <2>5. ReadersStay
    BY <2>3, ReadersStayThere DEF MemoryInv
  <2>6. Recorded(e)
    <3>1. CASE Same(e)
      <4>1. /\ arrays' = [arrays EXCEPT ![Len(arrays)] = [@ EXCEPT ![Len(memory)] = e]]
            /\ UNCHANGED first
        BY <2>3, <3>1 DEF Remember
      <4> QED BY <2>2, <2>3, <2>4, <2>5, <3>1, <4>1, MergeRecords
    <3>2. CASE arrays' = [arrays EXCEPT ![Len(arrays)] = Append(@, e)] /\ first' = Kept(first, Len(memory) + 1)
      BY <2>2, <2>3, <2>4, <2>5, <3>2, AppendRecords
    <3>3. CASE /\ arrays' = (IF BeingRead THEN arrays ELSE <<>>) \o <<Append(SubSeq(memory, first, Len(memory)), e)>>
               /\ first' = Kept(1, Held + 1)
      BY <2>2, <2>3, <2>4, <2>5, <3>3, NewArrayRecords
    <3> QED BY <2>3, <3>1, <3>2, <3>3 DEF Remember
  <2> QED BY <2>2, <2>3, <2>4, <2>5, <2>6, RecordedKeeps
<1> QED BY <1>1, <1>2

LEMMA MemoryNext == MemoryInv /\ RowsInv /\ [HistoryNext]_allVars => MemoryInv'
<1> SUFFICES ASSUME MemoryInv, RowsInv, [HistoryNext]_allVars PROVE MemoryInv'
  OBVIOUS
<1>1. CASE UNCHANGED <<arrays, first, reading, recorded, crossed, shifted>>
  BY <1>1 DEF MemoryInv, MemoryTypes, ReaderInv, Known, LastIsNewest, QuietReads, Filtered, AtEnd,
              Ordered, Holds, Pending, memory
<1>2. CASE UNCHANGED allVars \/ PublishPayload \/ SaveSnapshot \/ SaveEvents \/ TimePasses
           \/ Ask \/ PairsFromMemory \/ RuntimeUnavailable
           \/ EventsFromStore \/ PairsFromStore \/ FromShared
  <2>1. UNCHANGED <<arrays, first, reading, recorded, crossed, shifted>>
    BY <1>2 DEF allVars, PublishPayload, SaveSnapshot, SaveEvents, TimePasses, Ask, PairsFromMemory,
                RuntimeUnavailable, EventsFromStore, PairsFromStore, FromShared, memoryVars, historyVars
  <2> QED BY <1>1, <2>1
<1>3. CASE \E change \in Changes \cup {0}, pairs \in BOOLEAN : Record(change, pairs)
  BY <1>3, RecordKeeps
<1>4. ASSUME NEW r \in Readers, ReadOther(r) PROVE MemoryInv'
  <2>1. UNCHANGED <<arrays, first, recorded, shifted, crossed>> /\ instant \in Nat
    BY <1>4 DEF ReadOther, historyVars, RowsInv, PairsTypes
  <2> QED BY <1>4, <2>1, BeginKeeps, EndKeeps DEF ReadOther
<1>5. CASE AskMemory
  <2>1. UNCHANGED <<arrays, first, recorded, shifted, crossed>> /\ instant \in Nat /\ Own \in Readers
    BY <1>5, HistoryAssumption DEF AskMemory, historyVars, RowsInv, PairsTypes
  <2> QED BY <1>5, <2>1, BeginKeeps DEF AskMemory
<1>6. CASE EventsFromMemory
  <2>1. UNCHANGED <<arrays, first, recorded, shifted, crossed>> /\ Own \in Readers
    BY <1>6, HistoryAssumption DEF EventsFromMemory, historyVars
  <2> QED BY <1>6, <2>1, EndKeeps DEF EventsFromMemory
<1>7. CASE ProcessEnds
  <2>1. EmptyMemory'
    BY <1>7 DEF ProcessEnds, EmptyMemory, NoArrays, NobodyReads
  <2> QED BY <2>1, MemoryRestarts
<1> QED BY <1>2, <1>3, <1>4, <1>5, <1>6, <1>7, ReadKeeps, WriteKeeps DEF HistoryNext

-----------------------------------------------------------------------------
(* What the copies answer *)

LaterIn(D, e) == {f \in D : f.time > e.time}

LEMMA LaterFinite ==
  ASSUME NEW D, IsFiniteSet(D), NEW e
  PROVE  IsFiniteSet(LaterIn(D, e)) /\ Cardinality(LaterIn(D, e)) \in Nat
<1>1. LaterIn(D, e) \in SUBSET D
  BY DEF LaterIn
<1> QED BY <1>1, FS_Subset, FS_CardinalityType

\* Of some events, one is not older than any.
LEMMA NewestExists ==
  ASSUME NEW D \in SUBSET Events, IsFiniteSet(D), D # {}
  PROVE  \E e \in D : \A f \in D : f.time <= e.time
<1> DEFINE T == {Cardinality(LaterIn(D, e)) : e \in D}
<1>1. T \in SUBSET Nat /\ T # {}
  BY LaterFinite
<1>2. PICK e \in D : \A f \in D : Cardinality(LaterIn(D, e)) <= Cardinality(LaterIn(D, f))
  <2>1. PICK m \in T : \A k \in T : m <= k
    <3> HIDE DEF T
    <3> QED BY <1>1, LeastNumber
  <2> QED BY <2>1
<1>3. ASSUME NEW f \in D, f.time > e.time PROVE FALSE
  <2>1. \A x \in D : x.time \in Nat
    BY DEF Events
  <2>2. LaterIn(D, f) \subseteq LaterIn(D, e) /\ f \in LaterIn(D, e) /\ f \notin LaterIn(D, f)
    BY <1>3, <2>1 DEF LaterIn
  <2>3. Cardinality(LaterIn(D, f)) < Cardinality(LaterIn(D, e))
    BY <2>2, LaterFinite, FS_Subset
  <2> QED BY <1>2, <2>3, LaterFinite
<1> QED BY <1>3 DEF Events

\* Every rank is taken.
LEMMA RankExists ==
  ASSUME NEW D \in SUBSET Events, IsFiniteSet(D), \A e, f \in D : e.time = f.time => e = f,
         NEW i \in Nat, i < Cardinality(D)
  PROVE  \E e \in D : Cardinality(LaterIn(D, e)) = i
<1>1. \A x \in D : x.time \in Nat
  BY DEF Events
<1>2. Cardinality(D) \in Nat
  BY FS_CardinalityType
<1> DEFINE T == {j \in Nat : j < Cardinality(D) => \E e \in D : Cardinality(LaterIn(D, e)) = j}
<1>3. 0 \in T
  <2> SUFFICES ASSUME 0 < Cardinality(D) PROVE \E e \in D : Cardinality(LaterIn(D, e)) = 0
    OBVIOUS
  <2>1. D # {}
    BY <1>2, FS_EmptySet
  <2>2. PICK e \in D : \A f \in D : f.time <= e.time
    BY <2>1, NewestExists
  <2>3. LaterIn(D, e) = {}
    BY <1>1, <2>2 DEF LaterIn
  <2> QED BY <2>3, FS_EmptySet
<1>4. ASSUME NEW j \in T PROVE j + 1 \in T
  <2> SUFFICES ASSUME j + 1 < Cardinality(D) PROVE \E g \in D : Cardinality(LaterIn(D, g)) = j + 1
    OBVIOUS
  <2>1. PICK e \in D : Cardinality(LaterIn(D, e)) = j
    BY <1>2
  <2>2. IsFiniteSet(LaterIn(D, e)) /\ e \notin LaterIn(D, e)
    BY <1>1, LaterFinite DEF LaterIn
  <2>3. Cardinality(LaterIn(D, e) \cup {e}) = j + 1
    BY <2>1, <2>2, FS_AddElement
  <2> DEFINE earlier == {f \in D : f.time < e.time}
  <2>4. D = LaterIn(D, e) \cup {e} \cup earlier
    BY <1>1 DEF LaterIn
  <2>5. earlier # {}
    BY <1>2, <2>3, <2>4
  <2>6. PICK g \in earlier : \A f \in earlier : f.time <= g.time
    <3>1. earlier \in SUBSET D
      OBVIOUS
    <3>2. IsFiniteSet(earlier) /\ earlier \in SUBSET Events
      BY <3>1, FS_Subset
    <3> HIDE DEF earlier
    <3> QED BY <2>5, <3>2, NewestExists
  <2>7. LaterIn(D, g) = LaterIn(D, e) \cup {e}
    BY <1>1, <2>4, <2>6 DEF LaterIn
  <2> QED BY <2>3, <2>6, <2>7
<1>5. T = Nat
  <2>1. T \in SUBSET Nat
    OBVIOUS
  <2> HIDE DEF T
  <2> QED BY <1>3, <1>4, <2>1, Inductive
<1> QED BY <1>5

\* The copies answer the newest stored event first, and go back in time.
LEMMA LoadedProperties ==
  ASSUME rows \subseteq Events, IsFiniteSet(rows), \A e, f \in rows : e.time = f.time => e = f, SessionStart \in Int
  PROVE  /\ Loaded # <<>> => \A e \in rows : e.time <= Head(Loaded).time
         /\ \A i \in 1..(Len(Loaded) - 1) : Loaded[i].time > Loaded[i + 1].time
<1> DEFINE session == {e \in rows : e.time >= SessionStart}
           D == {e \in session : \A f \in session :
                   f.change = e.change /\ Minute(f.time) = Minute(e.time) => f.time <= e.time}
           n == IF Cardinality(D) > Limit THEN Limit ELSE Cardinality(D)
<1>1. /\ D \in SUBSET Events /\ IsFiniteSet(D) /\ \A e, f \in D : e.time = f.time => e = f
      /\ session \in SUBSET Events /\ IsFiniteSet(session)
  <2>1. D \in SUBSET rows /\ session \in SUBSET rows
    OBVIOUS
  <2> HIDE DEF D, session
  <2> QED BY <2>1, FS_Subset
<1>2. \A x \in Events : x.time \in Nat
  BY DEF Events
<1>3. n \in Nat /\ n <= Cardinality(D) /\ Cardinality(D) \in Nat
  <2>1. Cardinality(D) \in Nat /\ Limit \in Nat
    BY <1>1, FS_CardinalityType, HistoryAssumption
  <2> HIDE DEF D
  <2> QED BY <2>1
<1>4. Loaded = [i \in 1..n |-> CHOOSE e \in D : Cardinality(LaterIn(D, e)) + 1 = i]
  BY DEF Loaded, LaterIn
<1>5. \A x \in session : \E m \in D : x.time <= m.time
  <2> SUFFICES ASSUME NEW x \in session PROVE \E m \in D : x.time <= m.time
    OBVIOUS
  <2>1. PICK m \in session : \A f \in session : f.time <= m.time
    <3> HIDE DEF session
    <3> QED BY <1>1, NewestExists
  <2>2. m \in D
    BY <2>1
  <2> QED BY <2>1, <2>2
<1>6. \A e \in D : e.time >= SessionStart
  OBVIOUS
<1>7. \A e \in rows : ~(e.time >= SessionStart) \/ e \in session
  OBVIOUS
<1> HIDE DEF D, n, session
<1>8. ASSUME NEW i \in 1..n PROVE Loaded[i] \in D /\ Cardinality(LaterIn(D, Loaded[i])) + 1 = i
  <2>1. i - 1 \in Nat /\ i - 1 < Cardinality(D)
    BY <1>3
  <2>2. PICK e \in D : Cardinality(LaterIn(D, e)) = i - 1
    BY <1>1, <2>1, RankExists
  <2>3. Cardinality(LaterIn(D, e)) + 1 = i
    BY <2>2
  <2> QED BY <1>4, <2>3
<1>9. Len(Loaded) = n /\ Loaded \in Seq(Events)
  <2>1. \A i \in 1..n : Loaded[i] \in Events
    BY <1>1, <1>8
  <2>2. Loaded = [i \in 1..n |-> Loaded[i]]
    BY <1>4
  <2>3. [i \in 1..n |-> Loaded[i]] \in Seq(Events)
    BY <1>3, <2>1, IsASeq
  <2> QED BY <1>3, <2>2, <2>3
<1>10. ASSUME Loaded # <<>>, NEW x \in rows PROVE x.time <= Head(Loaded).time
  <2>1. 1 \in 1..n /\ Head(Loaded) = Loaded[1]
    BY <1>3, <1>9, <1>10
  <2> DEFINE h == Head(Loaded)
  <2>2. h \in D /\ Cardinality(LaterIn(D, h)) = 0
    <3>1. h \in D /\ Cardinality(LaterIn(D, h)) + 1 = 1
      BY <1>8, <2>1
    <3> QED BY <1>1, <3>1, LaterFinite
  <2> HIDE DEF h
  <2>3. LaterIn(D, h) = {}
    BY <1>1, <2>2, LaterFinite, FS_EmptySet
  <2>4. \A m \in D : m.time <= h.time
    BY <1>1, <1>2, <2>2, <2>3 DEF LaterIn
  <2>5. h.time \in Nat /\ x.time \in Nat /\ h.time >= SessionStart
    BY <1>1, <1>2, <1>6, <2>2
  <2>6. ASSUME x \in session PROVE x.time <= h.time
    BY <1>1, <1>2, <1>5, <2>4, <2>5, <2>6
  <2>7. ASSUME ~(x.time >= SessionStart) PROVE x.time <= h.time
    BY <2>5, <2>7
  <2> QED BY <1>7, <2>6, <2>7 DEF h
<1>11. ASSUME NEW i \in 1..(n - 1) PROVE Loaded[i].time > Loaded[i + 1].time
  <2> DEFINE a == Loaded[i]
             b == Loaded[i + 1]
  <2>1. i \in 1..n /\ i + 1 \in 1..n
    BY <1>3
  <2>2. /\ a \in D /\ b \in D
        /\ Cardinality(LaterIn(D, a)) + 1 = i /\ Cardinality(LaterIn(D, b)) + 1 = i + 1
    BY <1>8, <2>1
  <2> HIDE DEF a, b
  <2>3. a.time \in Nat /\ b.time \in Nat
    BY <1>1, <1>2, <2>2
  <2>4. ASSUME a.time <= b.time PROVE FALSE
    <3>1. LaterIn(D, b) \in SUBSET LaterIn(D, a)
      BY <1>1, <1>2, <2>3, <2>4 DEF LaterIn
    <3>2. Cardinality(LaterIn(D, b)) <= Cardinality(LaterIn(D, a))
      BY <1>1, <3>1, LaterFinite, FS_Subset
    <3> QED BY <1>1, <2>2, <3>2, LaterFinite
  <2> QED BY <2>3, <2>4 DEF a, b
<1> QED BY <1>9, <1>10, <1>11

-----------------------------------------------------------------------------
(* What /oi-events answers *)

LEMMA RowsInit == HistoryInit => RowsInv
<1> SUFFICES ASSUME HistoryInit PROVE RowsInv
  OBVIOUS
<1>1. PairsTypes
  BY PairsInit DEF PairsInv
<1>2. rows = {} /\ recorded = None /\ cycle.event = None /\ cycle.pc = "idle"
  BY DEF HistoryInit, Idle
<1>3. IsFiniteSet(rows)
  BY <1>2, FS_EmptySet
<1> QED BY <1>1, <1>2, <1>3 DEF RowsInv

LEMMA RowsOfRecord ==
  ASSUME RowsInv, PairsInv', NEW change \in Changes \cup {0}, NEW pairs \in BOOLEAN, Record(change, pairs)
  PROVE  RowsInv'
<1> USE DEF RowsInv
<1>1. PairsTypes' /\ cycle.at < instant /\ cycle.at \in Nat /\ instant \in Nat /\ UNCHANGED rows
  BY DEF Record, PairsInv, PairsTypes
<1>2. \A x \in rows : x.time < instant
  BY <1>1, EventTimes
<1>3. CASE change = 0
  <2>1. /\ cycle' = [pc |-> "publish", at |-> instant, event |-> None, pairs |-> pairs]
        /\ UNCHANGED recorded
    BY <1>3 DEF Record
  <2>2. cycle'.pc = "publish" /\ cycle'.at = instant /\ cycle'.event = None
    BY <2>1
  <2>3. recorded # None => recorded.time <= instant
    <3> SUFFICES ASSUME recorded # None PROVE recorded.time <= instant
      OBVIOUS
    <3>1. recorded.time <= cycle.at /\ recorded.time \in Nat
      BY EventTimes
    <3> QED BY <1>1, <3>1
  <2> QED BY <1>1, <1>2, EventTimes, <2>1, <2>2, <2>3
<1>4. CASE change # 0
  <2> DEFINE e == [time |-> instant, change |-> change]
  <2>1. e \in Events /\ e.time = instant /\ e # None
    BY <1>1, <1>4, HistoryAssumption DEF Events
  <2>2. /\ cycle' = [pc |-> "publish", at |-> instant, pairs |-> TRUE, event |-> IF Same(e) THEN None ELSE e]
        /\ recorded' = e
    BY <1>4 DEF Record
  <2>3. cycle'.pc = "publish" /\ cycle'.at = instant /\ (cycle'.event # None => cycle'.event = e)
    BY <2>2
  <2> HIDE DEF e
  <2>4. \A x \in rows : x.time <= e.time /\ x.time <= instant
    BY <1>1, EventTimes, <1>2, <2>1
  <2> QED BY <1>1, <1>2, <2>1, <2>2, <2>3, <2>4
<1> QED BY <1>3, <1>4

LEMMA RowsOfCycle ==
  ASSUME RowsInv, PairsInv', PublishPayload \/ SaveSnapshot \/ SaveEvents
  PROVE  RowsInv'
<1>1. PairsTypes' /\ UNCHANGED recorded /\ cycle'.at = cycle.at
  BY DEF PairsInv, PairsTypes, RowsInv, PublishPayload, SaveSnapshot, AfterSnapshot, SaveEvents, Idle, historyVars
<1>2. CASE PublishPayload
  <2>1. cycle'.event = cycle.event /\ cycle'.pc = "snapshot" /\ rows' = rows
    BY <1>2 DEF PublishPayload, RowsInv, PairsTypes
  <2> QED BY <1>1, <2>1 DEF RowsInv
<1>3. CASE SaveSnapshot
  <2>1. /\ rows' = rows
        /\ \/ cycle'.event = cycle.event /\ cycle'.pc = "events" /\ cycle.event # None
           \/ cycle'.event = None /\ cycle'.pc = "idle"
    <3>1. cycle = [pc |-> cycle.pc, at |-> cycle.at, event |-> cycle.event, pairs |-> cycle.pairs]
      BY DEF RowsInv, PairsTypes
    <3> QED BY <1>3, <3>1 DEF SaveSnapshot, AfterSnapshot, Idle
  <2> QED BY <1>1, <2>1 DEF RowsInv
<1>4. CASE SaveEvents
  <2>1. cycle'.event = None /\ cycle'.pc = "idle" /\ rows' \in {rows \cup {cycle.event}, rows}
    BY <1>4 DEF SaveEvents, Idle
  <2>2. cycle.event = recorded /\ recorded # None /\ recorded \in Events /\ recorded.time = cycle.at /\ recorded.time \in Nat
    BY <1>4, EventTimes DEF SaveEvents, RowsInv
  <2>3. IsFiniteSet(rows')
    <3>1. IsFiniteSet(rows) /\ IsFiniteSet(rows \cup {cycle.event})
      BY FS_AddElement DEF RowsInv
    <3> QED BY <2>1, <3>1
  <2>4. /\ rows' \subseteq Events
        /\ \A e \in rows' : e.time <= cycle.at /\ e.time <= recorded.time
    BY <2>1, <2>2 DEF RowsInv
  <2>5. \A e, f \in rows' : e.time = f.time => e = f
    <3>1. \A e \in rows : e.time < cycle.at /\ e.time # cycle.at
      BY <1>4, <2>2, EventTimes DEF SaveEvents, RowsInv
    <3> QED BY <2>1, <2>2, <3>1 DEF RowsInv
  <2> QED BY <1>1, <2>1, <2>3, <2>4, <2>5 DEF RowsInv
<1> QED BY <1>2, <1>3, <1>4

LEMMA RowsNext == RowsInv /\ PairsInv' /\ [HistoryNext]_allVars => RowsInv'
<1> SUFFICES ASSUME RowsInv, PairsInv', [HistoryNext]_allVars PROVE RowsInv'
  OBVIOUS
<1>1. CASE UNCHANGED <<cycle, rows, recorded>>
  BY <1>1 DEF RowsInv, PairsInv
<1>2. CASE ProcessEnds
  <2>1. PairsTypes' /\ UNCHANGED rows /\ cycle'.at = cycle.at /\ cycle'.event = None /\ cycle'.pc = "idle" /\ recorded' = None
    BY <1>2 DEF ProcessEnds, PairsInv, Idle
  <2> QED BY <2>1 DEF RowsInv
<1>3. CASE UNCHANGED allVars \/ TimePasses \/ Ask
           \/ (\E r \in Readers : ReadEntry(r) \/ WriteEntry(r) \/ ReadOther(r))
           \/ AskMemory \/ EventsFromMemory \/ PairsFromMemory \/ RuntimeUnavailable
           \/ EventsFromStore \/ PairsFromStore \/ FromShared
  <2>1. UNCHANGED <<cycle, rows, recorded>>
    BY <1>3 DEF allVars, TimePasses, Ask, ReadEntry, WriteEntry, ReadOther, AskMemory, EventsFromMemory,
                PairsFromMemory, RuntimeUnavailable, EventsFromStore, PairsFromStore, FromShared, cycleVars, historyVars
  <2> QED BY <1>1, <2>1
<1> QED BY <1>2, <1>3, RowsOfRecord, RowsOfCycle DEF HistoryNext

LEMMA EventsAlways == HistorySpec => [](PairsInv /\ RowsInv /\ MemoryInv)
<1>1. HistoryInit => MemoryInv
  BY MemoryStart DEF HistoryInit, EmptyMemory
<1> QED BY <1>1, PairsAlways, RowsInit, RowsNext, MemoryNext, PTL DEF HistorySpec

\* Sorting puts an event first that is not older than the others, and leaves a list alone
\* that goes back in time.
LEMMA SortedProperties ==
  ASSUME NEW s \in Seq(Events), s # <<>>, \A i \in 1..Len(s) : s[i].time <= s[1].time
  PROVE  /\ Sorted(s) # <<>> /\ Head(Sorted(s)) = s[1]
         /\ (\A i, j \in 1..Len(s) : i < j => s[j].time < s[i].time) => Sorted(s) = s
<1> DEFINE n == Len(s)
           Ahead(i) == {j \in 1..n : s[j].time > s[i].time \/ (s[j].time = s[i].time /\ j < i)}
           Rank(i) == Cardinality(Ahead(i)) + 1
           At(p) == CHOOSE i \in 1..n : Rank(i) = p
<1>1. Sorted(s) = [p \in 1..n |-> s[At(p)]]
  BY DEF Sorted, Ranked
<1>2. n \in Nat \ {0} /\ 1 \in 1..n /\ \A i \in 1..n : s[i] \in Events /\ s[i].time \in Nat
  BY EventTimes
<1>3. \A i \in 1..n : IsFiniteSet(Ahead(i)) /\ Cardinality(Ahead(i)) \in Nat
  <2> SUFFICES ASSUME NEW i \in 1..n PROVE IsFiniteSet(Ahead(i)) /\ Cardinality(Ahead(i)) \in Nat
    OBVIOUS
  <2>1. Ahead(i) \in SUBSET (1..n)
    OBVIOUS
  <2>2. IsFiniteSet(1..n)
    BY <1>2, FS_Interval
  <2> QED BY <2>1, <2>2, FS_Subset, FS_CardinalityType
<1>4. Ahead(1) = {}
  BY <1>2
<1>5. \A i \in 1..n : i # 1 => 1 \in Ahead(i)
  BY <1>2
<1>6. \A i, j \in 1..n : j \in Ahead(i) <=> (s[j].time > s[i].time \/ (s[j].time = s[i].time /\ j < i))
  OBVIOUS
<1>7. \A i \in 1..n : Ahead(i) \subseteq 1..n
  OBVIOUS
<1> HIDE DEF n, Ahead
<1>8. Rank(1) = 1 /\ \A i \in 1..n : Rank(i) = 1 => i = 1
  <2>1. Rank(1) = 1
    <3>1. Cardinality(Ahead(1)) = 0
      BY <1>4, FS_EmptySet
    <3> QED BY <3>1
  <2>2. ASSUME NEW i \in 1..n, i # 1 PROVE Rank(i) # 1
    <3>1. Cardinality(Ahead(i)) # 0
      BY <1>3, <1>5, <2>2, FS_EmptySet
    <3> QED BY <1>3, <3>1
  <2> QED BY <2>1, <2>2
<1>9. At(1) = 1
  BY <1>2, <1>8
<1>10. Sorted(s) # <<>> /\ Head(Sorted(s)) = s[1]
  <2>1. \A p \in 1..n : s[At(p)] = Sorted(s)[p]
    BY <1>1
  <2>2. Sorted(s)[1] = s[1]
    BY <1>2, <1>9, <2>1
  <2>3. DOMAIN Sorted(s) = 1..n
    BY <1>1
  <2>4. Sorted(s) # <<>>
    BY <1>2, <2>3
  <2> QED BY <2>2, <2>4
<1>11. ASSUME \A i, j \in 1..n : i < j => s[j].time < s[i].time PROVE Sorted(s) = s
  <2>1. \A i \in 1..n : Ahead(i) = 1..(i - 1)
    <3> SUFFICES ASSUME NEW i \in 1..n PROVE Ahead(i) = 1..(i - 1)
      OBVIOUS
    <3>1. \A j \in 1..n : j \in Ahead(i) <=> j < i
      BY <1>2, <1>6, <1>11
    <3>2. \A j \in 1..(i - 1) : j \in 1..n /\ j < i
      BY <1>2
    <3>3. \A j \in 1..n : j < i => j \in 1..(i - 1)
      BY <1>2
    <3>4. Ahead(i) \subseteq 1..n
      BY <1>7
    <3> HIDE DEF Rank, At
    <3> QED BY <3>1, <3>2, <3>3, <3>4
  <2>2. \A i \in 1..n : Rank(i) = i
    <3> SUFFICES ASSUME NEW i \in 1..n PROVE Rank(i) = i
      OBVIOUS
    <3>1. 1 \in Int /\ i - 1 \in Int
      BY <1>2
    <3>2. Cardinality(1..(i - 1)) = IF 1 > i - 1 THEN 0 ELSE (i - 1) - 1 + 1
      BY <3>1, FS_Interval
    <3> QED BY <1>2, <2>1, <3>2
  <2>3. \A p \in 1..n : At(p) = p
    <3> HIDE DEF Rank
    <3> QED BY <2>2
  <2>4. Sorted(s) = [p \in 1..n |-> s[p]]
    BY <1>1, <2>3
  <2> QED BY <2>4 DEF n
<1> QED BY <1>10, <1>11 DEF n

\* What the filter has kept of the process's events.
LEMMA KeptByReader ==
  ASSUME MemoryInv, NEW r \in Readers, reading[r].k > 0
  PROVE  LET s == KeptBy(r)
         IN  /\ s \in Seq(Events) /\ s # <<>> /\ Len(s) = reading[r].k
             /\ s[Len(s)] = arrays[reading[r].array][reading[r].from + reading[r].k - 1]
             /\ \A i \in 1..Len(s) : Known(s[i])
             /\ ~shifted => Increasing(s)
<1> DEFINE a == reading[r].array
           from == reading[r].from
           k == reading[r].k
           arr == arrays[a]
           s == SubSeq(arr, from, from + k - 1)
<1>1. /\ a \in 1..Len(arrays) /\ from \in Nat /\ from >= 1 /\ k \in Nat /\ k >= 1 /\ Len(arr) \in Nat
      /\ from + k - 1 <= Len(arr) /\ arr \in Seq(Events)
  <2>1. ReaderInv(r) /\ reading[r] \in ReaderStates
    BY DEF MemoryInv, MemoryTypes
  <2>2. reading[r].array \in 1..Len(arrays) /\ from >= 1 /\ from \in Nat /\ k \in Nat /\ reading[r].n \in Nat /\ k <= reading[r].n
    BY <2>1 DEF ReaderInv, ReaderStates
  <2>3. arr \in Seq(Events)
    <3>1. arrays \in Seq(Seq(Events))
      BY DEF MemoryInv, MemoryTypes
    <3> QED BY <2>2, <3>1
  <2>4. from + reading[r].n - 1 <= Len(arr) /\ Len(arr) \in Nat
    BY <2>1, <2>3 DEF ReaderInv
  <2>5. k >= 1 /\ from + k - 1 <= Len(arr)
    <3> HIDE DEF a, arr, from
    <3> QED BY <2>2, <2>4
  <2> QED BY <2>2, <2>3, <2>4, <2>5
<1>2. \A p \in 1..Len(arr) : Known(arr[p])
  BY <1>1 DEF MemoryInv, MemoryTypes
<1> HIDE DEF a, from, k, arr
<1>3. \A i \in from..(from + k - 1) : i \in 1..Len(arr) /\ arr[i] \in Events
  BY <1>1, <1>2 DEF Known
<1>4. /\ s \in Seq(Events) /\ Len(s) = k
      /\ \A i \in 1..k : s[i] = arr[from + i - 1] /\ from + i - 1 \in 1..Len(arr)
  <2>1. /\ s \in Seq(Events) /\ Len(s) = IF from <= from + k - 1 THEN (from + k - 1) - from + 1 ELSE 0
        /\ \A i \in 1..((from + k - 1) - from + 1) : s[i] = arr[from + i - 1]
    BY <1>1, <1>3, SubSeqProperties
  <2> HIDE DEF s
  <2> QED BY <1>1, <2>1
<1> HIDE DEF s
<1>5. s # <<>> /\ s[Len(s)] = arr[from + k - 1] /\ \A i \in 1..Len(s) : Known(s[i])
  <2>1. k \in 1..k
    BY <1>1
  <2>2. \A i \in 1..k : Known(s[i])
    BY <1>2, <1>4
  <2>3. s # <<>>
    BY <1>1, <1>4
  <2> QED BY <1>4, <2>1, <2>2, <2>3
<1>6. ASSUME ~shifted PROVE Increasing(s)
  <2> SUFFICES ASSUME NEW i \in 1..Len(s), NEW j \in 1..Len(s), i < j PROVE s[i].time < s[j].time
    BY DEF Increasing
  <2>1. /\ from + i - 1 \in Nat /\ from + j - 1 \in Nat /\ from + i - 1 < from + j - 1 /\ a \in Nat
        /\ s[i] = arr[from + i - 1] /\ s[j] = arr[from + j - 1] /\ s[i] \in Events /\ s[j] \in Events
    BY <1>1, <1>4
  <2>2. Holds(a, from + i - 1, s[i]) /\ Holds(a, from + j - 1, s[j])
    BY <1>1, <1>4, <2>1 DEF Holds, arr
  <2> QED BY <1>6, <2>1, <2>2 DEF MemoryInv, Ordered
<1> QED BY <1>4, <1>5, <1>6 DEF KeptBy, s, a, from, k, arr

\* An answer from the memory.
LEMMA MemoryAnswer ==
  ASSUME MemoryInv, reading[Own].k > 0
  PROVE  LET s == Sorted(Recent(KeptBy(Own)))
         IN  /\ QuietReads /\ Filtered(Own) /\ ~WritesCrossed => Head(s) = recorded
             /\ ~shifted => \A i \in 1..(Len(s) - 1) : s[i].time > s[i + 1].time
<1> DEFINE k == KeptBy(Own)
           t == Recent(k)
           s == Sorted(t)
<1>1. /\ k \in Seq(Events) /\ k # <<>>
      /\ k[Len(k)] = arrays[reading[Own].array][reading[Own].from + reading[Own].k - 1]
      /\ \A i \in 1..Len(k) : Known(k[i])
      /\ ~shifted => Increasing(k)
  BY HistoryAssumption, KeptByReader
<1> HIDE DEF k
<1>2. /\ t \in Seq(Events) /\ t # <<>> /\ t[1] = k[Len(k)]
      /\ \A i \in 1..Len(t) : \E m \in 1..Len(k) : t[i] = k[m]
      /\ Increasing(k) => \A i, j \in 1..Len(t) : i < j => t[j].time < t[i].time
  BY <1>1, RecentProperties
<1> HIDE DEF t
<1>3. ASSUME Filtered(Own), ~WritesCrossed PROVE Head(s) = recorded
  <2>1. k[Len(k)] = recorded
    BY <1>1, <1>3, HistoryAssumption DEF WritesCrossed, QuietReads, MemoryInv
  <2>2. \A i \in 1..Len(t) : t[i].time <= t[1].time
    BY <1>1, <1>2, <2>1 DEF Known
  <2> QED BY <1>2, <2>1, <2>2, SortedProperties
<1>4. ASSUME ~shifted PROVE \A i \in 1..(Len(s) - 1) : s[i].time > s[i + 1].time
  <2>1. Len(t) \in Nat /\ \A i, j \in 1..Len(t) : i < j => t[j].time < t[i].time
    BY <1>1, <1>2, <1>4
  <2>2. \A i \in 1..Len(t) : t[i] \in Events /\ t[i].time \in Nat
    BY <1>2, EventTimes
  <2>3. \A i \in 1..Len(t) : t[i].time <= t[1].time
    <3> TAKE i \in 1..Len(t)
    <3>1. 1 \in 1..Len(t) /\ (i = 1 \/ 1 < i)
      BY <2>1
    <3> QED BY <2>1, <2>2, <3>1
  <2>4. s = t
    BY <1>2, <2>1, <2>3, SortedProperties
  <2>5. \A i \in 1..(Len(t) - 1) : t[i].time > t[i + 1].time
    <3> TAKE i \in 1..(Len(t) - 1)
    <3>1. i \in 1..Len(t) /\ i + 1 \in 1..Len(t) /\ i < i + 1
      BY <2>1
    <3>2. t[i + 1].time < t[i].time /\ t[i].time \in Nat /\ t[i + 1].time \in Nat
      BY <2>1, <2>2, <3>1
    <3> QED BY <3>2
  <2> HIDE DEF s
  <2> QED BY <2>4, <2>5
<1> QED BY <1>3, <1>4 DEF s, t, k

\* Events are answered from the memory or from the copies.
LEMMA EventsAnswer ==
  ASSUME PairsInv, HistoryNext, Answered("events"), answer'.list # <<>>
  PROVE  \/ /\ EventsFromMemory /\ Filtered(Own) /\ reading[Own].k > 0
            /\ answer'.source = "memory" /\ answer'.list = Sorted(Recent(KeptBy(Own)))
         \/ answer'.source = "store" /\ answer'.list = Loaded
<1>1. handler.pc # "idle" /\ answer'.source # "none" /\ handler.asks # "pairs"
  BY DEF Answered
<1>2. ~PairsFromMemory /\ ~PairsFromStore
  BY <1>1 DEF PairsFromMemory, PairsFromStore
<1>3. ~FromShared
  BY DEF FromShared, Reply
<1>4. CASE EventsFromMemory
  <2>1. answer' # answer
    BY <1>1 DEF PairsInv, PairsTypes
  <2> QED BY <1>4, <2>1 DEF EventsFromMemory, Reply
<1>5. CASE EventsFromStore
  BY <1>5 DEF EventsFromStore, Reply
<1> QED BY <1>1, <1>2, <1>3, <1>4, <1>5, Replies

\* Whichever source answers, the first event is the newest there is: of the process for
\* the memory, unless a write has crossed the read, and of the table for the copies.
THEOREM AnswersStartWithNewest == HistorySpec => NewestAnswered
<1> DEFINE Good == Answered("events") /\ answer'.list # <<>> /\ (answer'.source = "memory" => ~WritesCrossed) =>
                     /\ answer'.source = "memory" => Head(answer'.list) = recorded
                     /\ \A e \in rows : e.time <= Head(answer'.list).time
<1>1. PairsInv /\ RowsInv /\ MemoryInv /\ [HistoryNext]_allVars => [Good]_allVars
  <2> SUFFICES ASSUME PairsInv, RowsInv, MemoryInv, HistoryNext, Answered("events"), answer'.list # <<>>,
                      answer'.source = "memory" => ~WritesCrossed
               PROVE  /\ answer'.source = "memory" => Head(answer'.list) = recorded
                      /\ \A e \in rows : e.time <= Head(answer'.list).time
    OBVIOUS
  <2>1. CASE /\ Filtered(Own) /\ reading[Own].k > 0
             /\ answer'.source = "memory" /\ answer'.list = Sorted(Recent(KeptBy(Own)))
    <3>1. Head(answer'.list) = recorded
      BY <2>1, MemoryAnswer DEF MemoryInv
    <3>2. recorded # None
      BY <2>1, HistoryAssumption DEF MemoryInv, MemoryTypes, ReaderInv
    <3> QED BY <3>1, <3>2 DEF RowsInv
  <2>2. CASE answer'.source = "store" /\ answer'.list = Loaded
    <3>1. \A e \in rows : e.time <= Head(Loaded).time
      BY <2>2, LoadedProperties, SessionStartType DEF RowsInv, PairsTypes
    <3> QED BY <2>2, <3>1
  <2> QED BY <2>1, <2>2, EventsAnswer
<1> QED BY <1>1, EventsAlways, PTL DEF NewestAnswered, HistorySpec

\* An answer to /oi-events goes back in time and lists nothing twice, from either source,
\* as long as no read of the process has moved an event to an earlier place.
THEOREM AnswersGoBackInTime == HistorySpec => NewestFirst
<1> DEFINE Good == Answered("events") /\ ~shifted =>
          \A i \in 1..(Len(answer'.list) - 1) : answer'.list[i].time > answer'.list[i + 1].time
<1>1. PairsInv /\ RowsInv /\ MemoryInv /\ [HistoryNext]_allVars => [Good]_allVars
  <2> SUFFICES ASSUME PairsInv, RowsInv, MemoryInv, HistoryNext, Answered("events"), ~shifted
               PROVE  \A i \in 1..(Len(answer'.list) - 1) : answer'.list[i].time > answer'.list[i + 1].time
    OBVIOUS
  <2>1. CASE reading[Own].k > 0 /\ answer'.list = Sorted(Recent(KeptBy(Own)))
    BY <2>1, MemoryAnswer
  <2>2. CASE answer'.list = Loaded
    <3>1. \A i \in 1..(Len(Loaded) - 1) : Loaded[i].time > Loaded[i + 1].time
      BY LoadedProperties, SessionStartType DEF RowsInv, PairsTypes
    <3> QED BY <2>2, <3>1
  <2>3. CASE answer'.list = <<>>
    BY <2>3
  <2> QED BY <2>1, <2>2, <2>3, EventsAnswer
<1> QED BY <1>1, EventsAlways, PTL DEF NewestFirst, HistorySpec
=============================================================================
