--------------------------- MODULE RuntimeManager ---------------------------
(***************************************************************************)
(* The per-user runtimes of the live collector and the manager that owns   *)
(* them (internal/runtime).  Each "user:account" key has at most one       *)
(* runtime; the runtime of the leader key alone also writes the shared     *)
(* market tables.  A runtime is an object and a goroutine: the object may  *)
(* be dropped by the manager while its goroutine is still in a cycle.      *)
(*                                                                         *)
(* r.config, state, lastError and lastTickAt are data no action reads: an  *)
(* unsynchronised read of r.config can only make a fetch fail, which       *)
(* FetchFails allows at any time.                                          *)
(***************************************************************************)
EXTENDS Integers, FiniteSets

CONSTANTS Keys,        \* runtimeKey values that may be ensured or stopped
          StopKeys,    \* keys StopUserRuntime is called with; the applications
                       \* of this repository export the operation and call it with none
          Runtimes,    \* runtime objects that may be allocated
          NoKey,       \* leaderKey == ""
          NoRuntime,   \* a key with no entry in m.runtimes
          MaxMinute,   \* bound: the minutes the clock may show
          MaxRevision  \* bound: cycles each runtime may publish

ASSUME ConstantsAssumption ==
    /\ NoKey \notin Keys
    /\ StopKeys \subseteq Keys
    /\ NoRuntime \notin Runtimes
    /\ MaxMinute \in Nat \ {0}
    /\ MaxRevision \in [Runtimes -> Nat]

VARIABLES
    leaderKey,  \* Manager.leaderKey
    runtimes,   \* Manager.runtimes: key -> runtime object
    starting,   \* the object EnsureUserRuntime has started but not inserted; m.mu is held meanwhile
    stopping,   \* objects StopUserRuntime has removed but not yet cancelled
    baseDone,   \* baseCtx is cancelled
    owner,      \* object -> its key
    pc,         \* object -> where its goroutine is
    cancelled,  \* object -> its own context is cancelled
    shared,     \* object -> persistShared
    bucket,     \* object -> lastSharedSnapshotBucket; 0 is ""
    revision,   \* object -> revision
    now,        \* object -> the minute of runCycle's local now
    lastBucket, \* object -> runCycle's local copy of the bucket
    clock,      \* current minute
    statusRow,  \* user_runtime_status.runtime_state of a key
    stored      \* market_snapshots: which object stored which minute in which cycle

managerVars == <<leaderKey, runtimes, starting, stopping, baseDone, owner>>
sharedVars  == <<shared, bucket>>
locals == <<now, lastBucket>>
vars == <<managerVars, sharedVars, pc, cancelled, revision, locals, clock, statusRow, stored>>

Minutes == 1..MaxMinute
Stages == {"unborn", "boot", "fetch", "publish", "save", "minute", "mark",
           "status", "failed", "degrade", "wait", "exit", "done", "dead"}
Ended == {"done", "dead"}

Free == starting = NoRuntime
Mapped(r) == \E k \in Keys : runtimes[k] = r
Cancelled(r) == cancelled[r] \/ baseDone

TypeOK ==
    /\ leaderKey \in Keys \cup {NoKey}
    /\ runtimes \in [Keys -> Runtimes \cup {NoRuntime}]
    /\ starting \in Runtimes \cup {NoRuntime}
    /\ stopping \subseteq Runtimes
    /\ baseDone \in BOOLEAN
    /\ owner \in [Runtimes -> Keys \cup {NoKey}]
    /\ pc \in [Runtimes -> Stages]
    /\ cancelled \in [Runtimes -> BOOLEAN]
    /\ shared \in [Runtimes -> BOOLEAN]
    /\ bucket \in [Runtimes -> 0..MaxMinute]
    /\ revision \in [Runtimes -> Nat]
    /\ now \in [Runtimes -> 0..MaxMinute]
    /\ lastBucket \in [Runtimes -> 0..MaxMinute]
    /\ clock \in Minutes
    /\ statusRow \in [Keys -> {"none", "running", "degraded", "stopped"}]
    /\ stored \subseteq Runtimes \X (0..MaxMinute) \X Nat

Init ==
    /\ leaderKey = NoKey
    /\ runtimes = [k \in Keys |-> NoRuntime]
    /\ starting = NoRuntime
    /\ stopping = {}
    /\ baseDone = FALSE
    /\ owner = [r \in Runtimes |-> NoKey]
    /\ pc = [r \in Runtimes |-> "unborn"]
    /\ cancelled = [r \in Runtimes |-> FALSE]
    /\ shared = [r \in Runtimes |-> FALSE]
    /\ bucket = [r \in Runtimes |-> 0]
    /\ revision = [r \in Runtimes |-> 0]
    /\ now = [r \in Runtimes |-> 0]
    /\ lastBucket = [r \in Runtimes |-> 0]
    /\ clock = 1
    /\ statusRow = [k \in Keys |-> "none"]
    /\ stored = {}

-----------------------------------------------------------------------------
(* The manager *)

\* A mutant of SetSharedPersistence: the bucket is forgotten whatever the new role.
SetSharedForgets(r, enabled) ==
    /\ shared' = [shared EXCEPT ![r] = enabled]
    /\ bucket' = [bucket EXCEPT ![r] = 0]

\* SetSharedPersistence(enabled) under r.mu: switching it off forgets the bucket.
SetSharedPersistence(r, enabled) ==
    /\ shared' = [shared EXCEPT ![r] = enabled]
    /\ bucket' = IF enabled THEN bucket ELSE [bucket EXCEPT ![r] = 0]

\* A mutant of EnsureExisting: every runtime asked for again persists.
EnsureExistingShares(k) ==
    /\ Free
    /\ runtimes[k] # NoRuntime
    /\ SetSharedPersistence(runtimes[k], TRUE)
    /\ UNCHANGED <<managerVars, pc, cancelled, revision, locals, clock, statusRow, stored>>

\* EnsureUserRuntime of a key that has a runtime: its role is set again.
EnsureExisting(k) ==
    /\ Free
    /\ runtimes[k] # NoRuntime
    /\ SetSharedPersistence(runtimes[k], leaderKey = k)
    /\ UNCHANGED <<managerVars, pc, cancelled, revision, locals, clock, statusRow, stored>>

\* EnsureUserRuntime of a new key, up to Start: the goroutine runs from here on,
\* before the manager has decided whether it leads.
EnsureStart(k, r) ==
    /\ Free
    /\ runtimes[k] = NoRuntime
    /\ pc[r] = "unborn"
    /\ starting' = r
    /\ owner' = [owner EXCEPT ![r] = k]
    /\ pc' = [pc EXCEPT ![r] = "boot"]
    /\ UNCHANGED <<leaderKey, runtimes, stopping, baseDone, sharedVars,
                   cancelled, revision, locals, clock, statusRow, stored>>

\* The rest of EnsureUserRuntime: take the lead if nobody has it, then insert.
EnsureInsert ==
    /\ ~Free
    /\ LET r == starting
           k == owner[r]
       IN  /\ leaderKey' = IF leaderKey = NoKey THEN k ELSE leaderKey
           /\ SetSharedPersistence(r, leaderKey' = k)
           /\ runtimes' = [runtimes EXCEPT ![k] = r]
    /\ starting' = NoRuntime
    /\ UNCHANGED <<stopping, baseDone, owner, pc, cancelled, revision, locals, clock, statusRow, stored>>

\* Mutants of HandOver: the lead stays with k; the new leader is not told.
KeepLead(k) == UNCHANGED <<leaderKey, sharedVars>>
HandOverSilently(k) ==
    /\ leaderKey' \in (IF leaderKey = k THEN {j \in Keys \ {k} : runtimes[j] # NoRuntime} ELSE {leaderKey})
    /\ UNCHANGED sharedVars

\* If k leads, the lead goes to whichever other key the map iteration yields first.
HandOver(k) ==
    LET rest == {j \in Keys \ {k} : runtimes[j] # NoRuntime}
    IN  \/ leaderKey # k /\ UNCHANGED <<leaderKey, sharedVars>>
        \/ leaderKey = k /\ rest = {} /\ leaderKey' = NoKey /\ UNCHANGED sharedVars
        \/ /\ leaderKey = k
           /\ \E next \in rest : /\ leaderKey' = next
                                 /\ SetSharedPersistence(runtimes[next], TRUE)

\* The locked part of StopUserRuntime: remove the runtime, hand over its lead.
StopRemove(k) ==
    /\ Free
    /\ runtimes[k] # NoRuntime
    /\ stopping' = stopping \cup {runtimes[k]}
    /\ runtimes' = [runtimes EXCEPT ![k] = NoRuntime]
    /\ HandOver(k)
    /\ UNCHANGED <<starting, baseDone, owner, pc, cancelled, revision, locals, clock, statusRow, stored>>

\* runtime.Stop() after m.mu is released.
StopCancel(r) ==
    /\ r \in stopping
    /\ stopping' = stopping \ {r}
    /\ cancelled' = [cancelled EXCEPT ![r] = TRUE]
    /\ UNCHANGED <<leaderKey, runtimes, starting, baseDone, owner, sharedVars,
                   pc, revision, locals, clock, statusRow, stored>>

-----------------------------------------------------------------------------
(* The goroutine of a runtime *)

Goto(r, stage) == pc' = [pc EXCEPT ![r] = stage]

\* UpsertUserRuntimeStatus(ctx, ...): a cancelled context stores nothing.
UpsertStatus(r, state) ==
    /\ ~Cancelled(r)
    /\ statusRow' = [statusRow EXCEPT ![owner[r]] = state]

quiet == <<managerVars, sharedVars, cancelled, revision, locals, clock, statusRow, stored>>

\* run: the first status write; its error is only logged.
Boot(r) ==
    /\ pc[r] = "boot"
    /\ Goto(r, "fetch")
    /\ UpsertStatus(r, "running") \/ UNCHANGED statusRow
    /\ UNCHANGED <<managerVars, sharedVars, cancelled, revision, locals, clock, stored>>

\* runCycle up to `now`: only a request whose context is live can answer.
FetchSucceeds(r) ==
    /\ pc[r] = "fetch"
    /\ ~Cancelled(r)
    /\ revision[r] < MaxRevision[r]
    /\ Goto(r, "publish")
    /\ now' = [now EXCEPT ![r] = clock]
    /\ UNCHANGED <<managerVars, sharedVars, cancelled, revision, lastBucket, clock, statusRow, stored>>

\* A failed request, or an option chain with no rows.
FetchFails(r) ==
    /\ pc[r] = "fetch"
    /\ Goto(r, "failed")
    /\ UNCHANGED quiet

\* The locked section of runCycle: publish the payload, sample the role.
\* rows says whether the chain converted to any database row.
Publish(r, rows) ==
    /\ pc[r] = "publish"
    /\ revision' = [revision EXCEPT ![r] = @ + 1]
    /\ lastBucket' = [lastBucket EXCEPT ![r] = bucket[r]]
    /\ Goto(r, IF shared[r] /\ rows THEN "save" ELSE "status")
    /\ UNCHANGED <<managerVars, sharedVars, cancelled, now, clock, statusRow, stored>>

\* SaveOptionsBatch and SaveOptionsAndOIEvents (module OptionEvents), then the
\* comparison of the minute of `now` with the bucket sampled earlier.
SaveShared(r) ==
    /\ pc[r] = "save"
    /\ Goto(r, IF now[r] # lastBucket[r] THEN "minute" ELSE "status")
    /\ UNCHANGED quiet

\* SaveMinuteSnapshots: a failed batch stores nothing and is only logged.
SaveMinute(r) ==
    /\ pc[r] = "minute"
    /\ Goto(r, "mark")
    /\ stored' = stored \cup {<<r, now[r], revision[r]>>} \/ UNCHANGED stored
    /\ UNCHANGED <<managerVars, sharedVars, cancelled, revision, locals, clock, statusRow>>

\* Remember the minute, if the runtime still persists shared rows.
MarkBucket(r) ==
    /\ pc[r] = "mark"
    /\ Goto(r, "status")
    /\ bucket' = IF shared[r] THEN [bucket EXCEPT ![r] = now[r]] ELSE bucket
    /\ UNCHANGED <<managerVars, shared, cancelled, revision, locals, clock, statusRow, stored>>

\* The user's own rows and the status row; an error of the status write is the
\* error of the cycle.
WriteStatus(r) ==
    /\ pc[r] = "status"
    /\ \/ UpsertStatus(r, "running") /\ Goto(r, "wait")
       \/ UNCHANGED statusRow /\ Goto(r, "failed")
    /\ now' = [now EXCEPT ![r] = 0]
    /\ lastBucket' = [lastBucket EXCEPT ![r] = 0]
    /\ UNCHANGED <<managerVars, sharedVars, cancelled, revision, clock, stored>>

\* Mutants of CycleFailed: it always leaves; it never does.
LeaveOnFailure(r) == pc[r] = "failed" /\ Goto(r, "exit") /\ UNCHANGED quiet
StayOnFailure(r) == pc[r] = "failed" /\ Goto(r, "degrade") /\ UNCHANGED quiet

\* run after a failed cycle: leave if the context is done, else record it.
CycleFailed(r) ==
    /\ pc[r] = "failed"
    /\ Goto(r, IF Cancelled(r) THEN "exit" ELSE "degrade")
    /\ UNCHANGED quiet

\* A mutant of Degrade: a state no reader of the table knows.
DegradeToFailed(r) ==
    /\ pc[r] = "degrade"
    /\ Goto(r, "wait")
    /\ UpsertStatus(r, "failed") \/ UNCHANGED statusRow
    /\ UNCHANGED <<managerVars, sharedVars, cancelled, revision, locals, clock, stored>>

\* setError, and the state written down; the error of this write is ignored.
Degrade(r) ==
    /\ pc[r] = "degrade"
    /\ Goto(r, "wait")
    /\ UpsertStatus(r, "degraded") \/ UNCHANGED statusRow
    /\ UNCHANGED <<managerVars, sharedVars, cancelled, revision, locals, clock, stored>>

\* The select of run: a ready ticker may win against a done context.
Wait(r) ==
    /\ pc[r] = "wait"
    /\ Goto(r, "fetch") \/ (Cancelled(r) /\ Goto(r, "exit"))
    /\ UNCHANGED quiet

\* The deferred function: write "stopped" with the context run was given.
WriteStopped(r) ==
    /\ pc[r] = "exit"
    /\ Goto(r, "done")
    /\ UpsertStatus(r, "stopped") \/ UNCHANGED statusRow
    /\ UNCHANGED <<managerVars, sharedVars, cancelled, revision, locals, clock, stored>>

Step(r) ==
    \/ Boot(r) \/ FetchSucceeds(r) \/ FetchFails(r)
    \/ \E rows \in BOOLEAN : Publish(r, rows)
    \/ SaveShared(r) \/ SaveMinute(r) \/ MarkBucket(r) \/ WriteStatus(r)
    \/ CycleFailed(r) \/ Degrade(r) \/ Wait(r) \/ WriteStopped(r)

-----------------------------------------------------------------------------
(* The environment *)

Tick ==
    /\ clock < MaxMinute
    /\ clock' = clock + 1
    /\ UNCHANGED <<managerVars, sharedVars, pc, cancelled, revision, locals, statusRow, stored>>

\* main's deferred cancel(): every runtime context derives from baseCtx.
Shutdown ==
    /\ ~baseDone
    /\ baseDone' = TRUE
    /\ UNCHANGED <<leaderKey, runtimes, starting, stopping, owner, sharedVars,
                   pc, cancelled, revision, locals, clock, statusRow, stored>>

\* The process dies and is started again: only the database survives.
Restart ==
    /\ \E r \in Runtimes : pc[r] \notin Ended \cup {"unborn"}
    /\ leaderKey' = NoKey
    /\ runtimes' = [k \in Keys |-> NoRuntime]
    /\ starting' = NoRuntime
    /\ stopping' = {}
    /\ baseDone' = FALSE
    /\ pc' = [r \in Runtimes |-> IF pc[r] = "unborn" THEN "unborn" ELSE "dead"]
    /\ shared' = [r \in Runtimes |-> FALSE]
    /\ bucket' = [r \in Runtimes |-> 0]
    /\ now' = [r \in Runtimes |-> 0]
    /\ lastBucket' = [r \in Runtimes |-> 0]
    /\ cancelled' = [r \in Runtimes |-> FALSE]
    /\ UNCHANGED <<owner, revision, clock, statusRow, stored>>

Next ==
    \/ \E k \in Keys : EnsureExisting(k)
    \/ \E k \in Keys, r \in Runtimes : EnsureStart(k, r)
    \/ EnsureInsert
    \/ \E k \in StopKeys : StopRemove(k)
    \/ \E r \in Runtimes : StopCancel(r)
    \/ \E r \in Runtimes : Step(r)
    \/ Tick
    \/ Shutdown
    \/ Restart

Spec == Init /\ [][Next]_vars

\* A started call finishes and a goroutine keeps running; requests, the clock,
\* shutdown and crashes are the environment's.
Fairness ==
    /\ WF_vars(EnsureInsert)
    /\ \A r \in Runtimes : WF_vars(StopCancel(r)) /\ WF_vars(Step(r))

FairSpec == Spec /\ Fairness

-----------------------------------------------------------------------------
(* Properties *)

\* EnsureUserRuntime and StopUserRuntime keep leaderKey a key of the map, and
\* empty only when the map is: otherwise nobody would write the shared tables.
LeaderIsMapped ==
    /\ leaderKey # NoKey => runtimes[leaderKey] # NoRuntime
    /\ leaderKey = NoKey => \A k \in Keys : runtimes[k] = NoRuntime

\* A runtime in the map persists shared rows exactly when its key leads, in
\* whatever order ensures, stops and goroutine steps come.
SharedIsLeader ==
    \A k \in Keys : runtimes[k] # NoRuntime => (shared[runtimes[k]] <=> leaderKey = k)

Persists(r) == shared[r] /\ pc[r] \notin Ended /\ ~Cancelled(r) /\ r \notin stopping

\* Of the goroutines that are neither cancelled nor about to be, at most one has
\* persistShared set: a handover never leaves two of them writing shared rows,
\* although StopUserRuntime never clears persistShared of the runtime it drops.
OnePersister == \A r, s \in Runtimes : Persists(r) /\ Persists(s) => r = s

\* One runtime stores the rows of a minute at most once, however often its role
\* is set again between the moment it samples its bucket and marks it.
OncePerMinute == \A x, y \in stored : x[1] = y[1] /\ x[2] = y[2] => x = y

\* snapshot.go:13 says the rows are stored once per minute.
MinuteStoredOnce == \A x, y \in stored : x[2] = y[2] => x = y

\* A goroutine leaves run only once its context is done, and writes "stopped" with
\* that context: the state is never stored, and the row of a runtime that has
\* ended keeps saying what its last cycle wrote.
StoppedNeverStored == \A k \in Keys : statusRow[k] # "stopped"

\* A runtime that has been dropped or shut down ends its goroutine: neither the
\* random choice of select nor failing cycles keep it polling.
Lingers(r) == Cancelled(r) /\ pc[r] \notin Ended \cup {"unborn"}
StoppedEnds == (\E r \in Runtimes : Lingers(r)) ~> (\A r \in Runtimes : ~Lingers(r))

\* The keys with a runtime, and those of them whose runtime writes shared rows.
Members == {k \in Keys : runtimes[k] # NoRuntime}
Sharing == {k \in Members : shared[runtimes[k]]}
Holder == IF Sharing = {} THEN NoKey ELSE CHOOSE k \in Sharing : TRUE

L == INSTANCE Lease WITH Parties <- Keys, Nobody <- NoKey, members <- Members, holder <- Holder

\* The flags the runtimes carry, read without leaderKey, are one lease: starting,
\* ensuring again and every step of a goroutine move nothing; inserting a runtime
\* joins, stopping one leaves and hands over in the same locked section.
LeaseSpec == L!Spec
=============================================================================
