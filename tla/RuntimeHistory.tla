--------------------------- MODULE RuntimeHistory ---------------------------
(***************************************************************************)
(* What a user's runtime remembers, stores and answers: the pairs of its   *)
(* latest payload and the open-interest events of one option               *)
(* (internal/runtime/user_runtime.go), their copies in the database        *)
(* (user_runtime_repo.go), and the handlers of /pairs and /oi-events,      *)
(* which ask the memory, then the copies, then the shared tables.          *)
(*                                                                         *)
(* The cycle appends events without a lock, while a reader moves those of  *)
(* the session, entry by entry, to the front of the array it finds in the  *)
(* map; readers share a read lock.  So an array is a thing of its own:     *)
(* the memory is the last array from some place on, and a reader has a     *)
(* part of the array that was the last one when it began.  Go may also     *)
(* end the process for the unsynchronised map, as ProcessEnds does.        *)
(***************************************************************************)
EXTENDS Integers, Sequences, SequencesExt, FiniteSets

CONSTANTS Readers,      \* requests that may read the events at the same time
          Own,          \* the one among them that is followed
          Changes,      \* changes of open interest, none of them 0
          MaxEvents,    \* events kept in memory (24 in the code)
          Limit,        \* events answered (12 unless the request says)
          DayLength,    \* instants of a day
          Opening,      \* the instant of a day at which its session starts
          MinuteLength, \* instants of a minute
          MaxTime,      \* bound: the last instant
          None          \* no payload, no event, no row

ASSUME HistoryAssumption ==
    /\ Own \in Readers
    /\ 0 \notin Changes
    /\ {MaxEvents, Limit, DayLength, MinuteLength} \subseteq Nat \ {0}
    /\ Opening \in 0..(DayLength - 1)
    /\ MaxTime \in Nat
    /\ None \notin [time : Nat, pairs : BOOLEAN] \cup [time : Nat, change : Changes]

VARIABLES
    instant,  \* the clock
    cycle,    \* the cycle: where it is, when it started, the event to store, whether it has pairs
    arrays,   \* the arrays of r.oiEvents of the option: the last is the one in the map
    first,    \* where in it the slice in the map begins; it ends with the array
    reading,  \* reader -> what it has read and moved
    payload,  \* r.latestPayload: its time and whether it has pairs
    rows,     \* user_option_oi_change_events
    snapshot, \* the newest row of user_runtime_snapshots
    handler,  \* the requests that are followed: to which handler, and where the last one is
    answer,   \* what it was answered, and from where
    recorded, \* history: the last event recorded by this process
    shifted,  \* history: a read of this process has moved an event to the front
    crossed,  \* history: the last event was merged while an array was being read
    unsaved   \* history: a payload has not been stored, or the process has ended

cycleVars == <<cycle, payload, rows, snapshot>>
memoryVars == <<arrays, first, reading>>
historyVars == <<recorded, shifted, crossed, unsaved>>
allVars == <<instant, cycleVars, memoryVars, handler, answer, historyVars>>

Idle == [pc |-> "idle", at |-> 0, event |-> None, pairs |-> FALSE]

NotReading == [pc |-> "idle", array |-> 1, from |-> 1, n |-> 0, i |-> 0, k |-> 0,
               entry |-> None, cutoff |-> 0, quiet |-> FALSE]
NobodyReads == [r \in Readers |-> NotReading]
NoArrays == << <<>> >>

\* CurrentMarketSessionStartUTC: the opening of today, also before it.
SessionStart == (instant \div DayLength) * DayLength + Opening
Minute(t) == t \div MinuteLength

HistoryInit ==
    /\ instant = 0
    /\ cycle = Idle
    /\ arrays = NoArrays /\ first = 1 /\ reading = NobodyReads
    /\ payload = None
    /\ rows = {} /\ snapshot = None
    /\ handler \in [pc : {"idle"}, asks : {"pairs", "events"}]
    /\ answer = [source |-> "none", list |-> <<>>, pairs |-> None]
    /\ recorded = None /\ shifted = FALSE /\ crossed = FALSE /\ unsaved = FALSE

-----------------------------------------------------------------------------
(* The cycle *)

memory == arrays[Len(arrays)]
Held == Len(memory) - first + 1
Same(e) == Held > 0 /\ Last(memory).change = e.change
BeingRead == \E r \in Readers : reading[r].pc # "idle"

\* Where a slice begins that has at most the newest MaxEvents up to a place.
Kept(from, to) == IF to - from + 1 > MaxEvents THEN to - MaxEvents + 1 ELSE from

\* appendOIEvent: a change like the last one replaces it and is not a new event.  A
\* new one goes into the array, if that has room, or into a new array; an array that
\* neither map nor reader has is forgotten.
Remember(e) ==
    \/ /\ Same(e)
       /\ arrays' = [arrays EXCEPT ![Len(arrays)] = [@ EXCEPT ![Len(memory)] = e]]
       /\ UNCHANGED first
    \/ /\ ~Same(e)
       /\ arrays' = [arrays EXCEPT ![Len(arrays)] = Append(@, e)]
       /\ first' = Kept(first, Len(memory) + 1)
    \/ /\ ~Same(e)
       /\ arrays' = (IF BeingRead THEN arrays ELSE <<>>)
                       \o <<Append(SubSeq(memory, first, Len(memory)), e)>>
       /\ first' = Kept(1, Held + 1)

\* recordOIEvents of the pairs of a new snapshot, at most one per instant.
Record(change, pairs) ==
    /\ cycle.pc = "idle" /\ cycle.at < instant
    /\ IF change = 0
       THEN /\ cycle' = [pc |-> "publish", at |-> instant, event |-> None, pairs |-> pairs]
            /\ UNCHANGED <<memoryVars, recorded, crossed>>
       ELSE LET e == [time |-> instant, change |-> change]
            IN  /\ pairs
                /\ cycle' = [pc |-> "publish", at |-> instant, pairs |-> TRUE,
                             event |-> IF Same(e) THEN None ELSE e]
                /\ Remember(e)
                /\ recorded' = e
                /\ crossed' = (Same(e) /\ BeingRead)
                /\ reading' = [r \in Readers |-> [reading[r] EXCEPT !.quiet = FALSE]]
    /\ UNCHANGED <<instant, payload, rows, snapshot, handler, answer, shifted, unsaved>>

\* The locked section: the payload replaces the one before, pairs or not.
PublishPayload ==
    /\ cycle.pc = "publish"
    /\ cycle' = [cycle EXCEPT !.pc = "snapshot"]
    /\ payload' = [time |-> cycle.at, pairs |-> cycle.pairs]
    /\ UNCHANGED <<instant, rows, snapshot, memoryVars, handler, answer, historyVars>>

AfterSnapshot == cycle' = IF cycle.event = None THEN [Idle EXCEPT !.at = cycle.at]
                          ELSE [cycle EXCEPT !.pc = "events"]

\* A mutant of SaveSnapshot: the first row stays the one that is found.
SaveSnapshotOnce ==
    /\ cycle.pc = "snapshot"
    /\ AfterSnapshot
    /\ \/ snapshot' = (IF snapshot = None THEN [time |-> cycle.at, pairs |-> cycle.pairs] ELSE snapshot)
          /\ UNCHANGED unsaved
       \/ unsaved' = TRUE /\ UNCHANGED snapshot
    /\ UNCHANGED <<instant, payload, rows, memoryVars, handler, answer, recorded, shifted, crossed>>

\* SaveUserRuntimeSnapshot: a failed insert is only logged.
SaveSnapshot ==
    /\ cycle.pc = "snapshot"
    /\ AfterSnapshot
    /\ \/ snapshot' = [time |-> cycle.at, pairs |-> cycle.pairs] /\ UNCHANGED unsaved
       \/ unsaved' = TRUE /\ UNCHANGED snapshot
    /\ UNCHANGED <<instant, payload, rows, memoryVars, handler, answer, recorded, shifted, crossed>>

\* SaveUserRuntimeOIEvents, of the events that were appended.
SaveEvents ==
    /\ cycle.pc = "events"
    /\ cycle' = [Idle EXCEPT !.at = cycle.at]
    /\ rows' \in {rows \cup {cycle.event}, rows}
    /\ UNCHANGED <<instant, payload, snapshot, memoryVars, handler, answer, historyVars>>

-----------------------------------------------------------------------------
(* The handlers *)

\* GetOIEvents: filterOIEventsSince ranges over the slice it found in the map ...
Begin(r) ==
    /\ reading[r].pc = "idle"
    /\ reading' = [reading EXCEPT ![r] =
          [pc |-> "read", array |-> Len(arrays), from |-> first, n |-> Held, i |-> 0, k |-> 0,
           entry |-> None, cutoff |-> SessionStart, quiet |-> TRUE]]

\* ... copies the next entry ...
ReadEntry(r) ==
    LET d == reading[r]
        x == arrays[d.array][d.from + d.i]
    IN  /\ d.pc = "read" /\ d.i < d.n
        /\ reading' = [reading EXCEPT ![r] =
              IF x.time >= d.cutoff THEN [d EXCEPT !.pc = "write", !.i = d.i + 1, !.entry = x]
                                    ELSE [d EXCEPT !.i = d.i + 1]]
        /\ UNCHANGED <<instant, cycleVars, arrays, first, handler, answer, historyVars>>

\* ... and, if it is of the session, puts it behind those it has kept.
WriteEntry(r) ==
    LET d == reading[r]
        disturbed(q) == reading[q].array = d.array /\ arrays[d.array][d.from + d.k] # d.entry
    IN  /\ d.pc = "write"
        /\ arrays' = [arrays EXCEPT ![d.array] = [@ EXCEPT ![d.from + d.k] = d.entry]]
        /\ reading' = [q \in Readers |->
              IF q = r THEN [d EXCEPT !.pc = "read", !.k = d.k + 1, !.entry = None]
              ELSE [reading[q] EXCEPT !.quiet = @ /\ ~disturbed(q)]]
        /\ shifted' = (shifted \/ d.k + 1 # d.i)
        /\ UNCHANGED <<instant, cycleVars, first, handler, answer, recorded, crossed, unsaved>>

Filtered(r) == reading[r].pc = "read" /\ reading[r].i = reading[r].n
KeptBy(r) == SubSeq(arrays[reading[r].array], reading[r].from, reading[r].from + reading[r].k - 1)
End(r) == reading' = [reading EXCEPT ![r] = NotReading]

\* A request that is not followed.
ReadOther(r) ==
    /\ r # Own
    /\ Begin(r) \/ (Filtered(r) /\ End(r))
    /\ UNCHANGED <<instant, cycleVars, arrays, first, handler, answer, historyVars>>

\* A mutant of Recent: the oldest Limit.
RecentOldest(s) == Reverse(SubSeq(s, 1, IF Len(s) > Limit THEN Limit ELSE Len(s)))

\* recentOIEvents: the last Limit, newest first.
Recent(s) == Reverse(SubSeq(s, IF Len(s) > Limit THEN Len(s) - Limit + 1 ELSE 1, Len(s)))

Ranked(s, Before(_, _)) ==
    LET Rank(i) == Cardinality({j \in 1..Len(s) : Before(j, i)}) + 1
    IN  [p \in 1..Len(s) |-> s[CHOOSE i \in 1..Len(s) : Rank(i) = p]]

\* A mutant of Sorted: the comparison is the wrong way round.
SortedUp(s) == Ranked(s, LAMBDA j, i : s[j].time < s[i].time \/ (s[j].time = s[i].time /\ j < i))

\* The final sort.Slice, for one option: newest first.
Sorted(s) == Ranked(s, LAMBDA j, i : s[j].time > s[i].time \/ (s[j].time = s[i].time /\ j < i))

\* LoadUserRuntimeOIEvents: of the rows of the session, the last one of each minute
\* and change, the Limit newest of those, newest first.
Loaded ==
    LET session == {e \in rows : e.time >= SessionStart}
        deduped == {e \in session : \A f \in session :
                       f.change = e.change /\ Minute(f.time) = Minute(e.time) => f.time <= e.time}
        Rank(e) == Cardinality({f \in deduped : f.time > e.time}) + 1
        n == IF Cardinality(deduped) > Limit THEN Limit ELSE Cardinality(deduped)
    IN  [i \in 1..n |-> CHOOSE e \in deduped : Rank(e) = i]

Ask ==
    /\ handler.pc = "idle"
    /\ handler' = [handler EXCEPT !.pc = "memory"]
    /\ answer' = [answer EXCEPT !.source = "none", !.list = <<>>]
    /\ UNCHANGED <<instant, cycleVars, memoryVars, historyVars>>

AtCopies == handler.pc \in {"store", "account"}
GoOn(stage) == handler' = [handler EXCEPT !.pc = stage]
Reply(source, list, pairs) ==
    /\ GoOn("idle")
    /\ answer' = [source |-> source, list |-> list, pairs |-> pairs]

\* GetOIEvents of the user's runtime begins ...
AskMemory ==
    /\ handler.pc = "memory" /\ handler.asks = "events"
    /\ Begin(Own)
    /\ GoOn("reading")
    /\ UNCHANGED <<instant, cycleVars, arrays, first, answer, historyVars>>

\* ... and has filtered.  What is left is copied while others may write, but no write
\* changes it, unless it has crossed this read.
EventsFromMemory ==
    /\ handler.pc = "reading"
    /\ Filtered(Own)
    /\ End(Own)
    /\ IF reading[Own].k > 0 THEN Reply("memory", Sorted(Recent(KeptBy(Own))), None)
       ELSE GoOn("store") /\ UNCHANGED answer
    /\ UNCHANGED <<instant, cycleVars, arrays, first, historyVars>>

\* GetPairs: only a payload with pairs is an answer.
PairsFromMemory ==
    /\ handler.pc = "memory" /\ handler.asks = "pairs"
    /\ IF payload # None /\ payload.pairs THEN Reply("memory", <<>>, payload.time)
       ELSE GoOn("store") /\ UNCHANGED answer
    /\ UNCHANGED <<instant, cycleVars, memoryVars, historyVars>>

\* ensureFyersRuntimeForUser failed: the account's copies are asked.
RuntimeUnavailable ==
    /\ handler.pc = "memory"
    /\ GoOn("account")
    /\ UNCHANGED <<instant, cycleVars, memoryVars, answer, historyVars>>

EventsFromStore ==
    /\ AtCopies /\ handler.asks = "events"
    /\ IF Loaded # <<>> THEN Reply("store", Loaded, None) ELSE Reply("shared", <<>>, None)
    /\ UNCHANGED <<instant, cycleVars, memoryVars, historyVars>>

\* LoadLatestUserRuntimeSnapshot: the newest row, if it is of the session and has
\* pairs; an older row with pairs is not looked for.
PairsFromStore ==
    /\ AtCopies /\ handler.asks = "pairs"
    /\ IF snapshot # None /\ snapshot.time >= SessionStart /\ snapshot.pairs
       THEN Reply("store", <<>>, snapshot.time)
       ELSE Reply("shared", <<>>, None)
    /\ UNCHANGED <<instant, cycleVars, memoryVars, historyVars>>

\* No account, a failed query: the shared state and tables answer.
FromShared ==
    /\ AtCopies
    /\ Reply("shared", <<>>, None)
    /\ UNCHANGED <<instant, cycleVars, memoryVars, historyVars>>

-----------------------------------------------------------------------------

TimePasses ==
    /\ instant < MaxTime
    /\ instant' = instant + 1
    /\ UNCHANGED <<cycleVars, memoryVars, handler, answer, historyVars>>

\* The process ends, in a cycle or a request, and is started again.
ProcessEnds ==
    /\ cycle' = [Idle EXCEPT !.at = cycle.at]
    /\ arrays' = NoArrays /\ first' = 1 /\ reading' = NobodyReads
    /\ payload' = None
    /\ handler' = [handler EXCEPT !.pc = "idle"]
    /\ recorded' = None /\ shifted' = FALSE /\ crossed' = FALSE /\ unsaved' = TRUE
    /\ UNCHANGED <<instant, rows, snapshot, answer>>

HistoryNext ==
    \/ \E change \in Changes \cup {0}, pairs \in BOOLEAN : Record(change, pairs)
    \/ PublishPayload \/ SaveSnapshot \/ SaveEvents
    \/ Ask
    \/ \E r \in Readers : ReadEntry(r) \/ WriteEntry(r) \/ ReadOther(r)
    \/ AskMemory \/ EventsFromMemory \/ PairsFromMemory \/ RuntimeUnavailable
    \/ EventsFromStore \/ PairsFromStore \/ FromShared
    \/ TimePasses \/ ProcessEnds

HistorySpec == HistoryInit /\ [][HistoryNext]_allVars

-----------------------------------------------------------------------------
(* Properties *)

Answered(what) == handler.pc # "idle" /\ handler.asks = what /\ answer'.source # "none"

\* An answer to /oi-events lists events newest first and none twice, whichever
\* source it comes from, as long as no read of this process had older events of an
\* earlier session to drop: from then on filterOIEventsSince leaves copies behind.
NewestFirst ==
    [][Answered("events") /\ ~shifted =>
          \A i \in 1..(Len(answer'.list) - 1) : answer'.list[i].time > answer'.list[i + 1].time]_allVars

\* Another write, of the cycle or of another reader, crosses the filtering: the cycle
\* records an event or another reader changes the array meanwhile, or an equal change was
\* merged into the last event while somebody was reading, who may have put it back.
WritesCrossed == ~reading[Own].quiet \/ crossed

\* Whatever the cap, the filtering in place by earlier and other reads, the merging of
\* equal changes and restarts do, the first event of an answer is the last one recorded,
\* or, when the copies answer, the newest one stored, and never older than a stored one.
\* Only writes that cross the read, which nothing in the code prevents, may hide it.
NewestAnswered ==
    [][Answered("events") /\ answer'.list # <<>> /\ (answer'.source = "memory" => ~WritesCrossed) =>
          /\ answer'.source = "memory" => Head(answer'.list) = recorded
          /\ \A e \in rows : e.time <= Head(answer'.list).time]_allVars

MayGoBack == unsaved \/ (handler.pc = "account" /\ cycle.pc = "snapshot")

\* As long as every payload is stored and the process lives, /pairs never answers
\* with pairs older than those of an earlier answer, although a payload without
\* pairs sends the handler to the copies.  It may do so only when the runtime could
\* not be asked and has not stored its latest payload yet.
PairsNeverGoBack ==
    [][Answered("pairs") /\ ~MayGoBack /\ answer.pairs # None /\ answer'.pairs # None =>
          answer'.pairs >= answer.pairs]_allVars
=============================================================================
