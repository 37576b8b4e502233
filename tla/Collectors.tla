----------------------------- MODULE Collectors -----------------------------
(***************************************************************************)
(* The live collector's main: it starts a collector session when the       *)
(* market is open, leaves the next starts and stops to a scheduler, and    *)
(* stops everything on a signal.  A session is a context and the           *)
(* goroutines that run until it is done: the option poll, which fills      *)
(* liveSnapshotCache and hands pairs to the DBWorker, and the minute       *)
(* writer, which stores what the cache holds.  The cache and the worker    *)
(* outlive sessions, and a poll may outlive its own: nobody waits for it.  *)
(*                                                                         *)
(* The session's socket is TickFeed, what a poll stores is OptionEvents,   *)
(* what it publishes is Pipeline.                                          *)
(***************************************************************************)
EXTENDS Integers

CONSTANTS PairCap,     \* capacity of DBWorker.PairChan: 100
          MaxSession,  \* bound: sessions started
          MaxFlip      \* bound: times the market opens or closes

ASSUME CollectorsAssumption ==
    /\ PairCap \in Nat \ {0}
    /\ MaxSession \in Nat
    /\ MaxFlip \in Nat

VARIABLES
    open,       \* isIndianMarketOpen(time.Now())
    flips,      \* how often it has changed
    creds,      \* cfg has an app id and an access token
    at,         \* where main and the scheduler's goroutine are
    mu,         \* who holds sessionMu
    opened,     \* what main read to decide on the first start, until the scheduler has read too
    lastOpen,   \* lastOpenState
    missed,     \* history: the market changed between those two reads
    session,    \* the session variable; 0 is nil
    launched,   \* sessions are numbered in the order of their start
    cancelled,  \* sessions whose context is cancelled
    ctxDone,    \* main's context is cancelled
    poll,       \* session -> its option poll
    writer,     \* session -> its minute writer
    cache,      \* liveSnapshotCache: the session that set it; 0 is not ok
    pairs,      \* length of PairChan
    outlived,   \* history: what of a session s still ran as the cache was reset for t
    stored      \* history: <<s, t>> when the writer of s stored rows a poll of t fetched

marketVars == <<open, flips, creds>>
schedVars == <<opened, lastOpen, missed>>
sessionVars == <<session, launched, cancelled, ctxDone>>
history == <<outlived, stored>>
vars == <<marketVars, at, mu, schedVars, sessionVars, poll, writer, cache, pairs, history>>

Sessions == 1..MaxSession
Callers == {"main", "sched"}

Init ==
    /\ open \in BOOLEAN /\ flips = 0 /\ creds \in BOOLEAN
    /\ at = [p \in Callers |-> IF p = "main" THEN "check" ELSE "off"]
    /\ mu = "free"
    /\ opened = FALSE /\ lastOpen = FALSE /\ missed = FALSE
    /\ session = 0 /\ launched = 0 /\ cancelled = {} /\ ctxDone = FALSE
    /\ poll = [s \in Sessions |-> "off"] /\ writer = [s \in Sessions |-> "off"]
    /\ cache = 0 /\ pairs = 0
    /\ outlived = {} /\ stored = {}

Goto(p, place) == at' = [at EXCEPT ![p] = place]
Running == at["main"] # "exited"

\* The context of a session, a child of main's.
Done(s) == ctxDone \/ s \in cancelled

-----------------------------------------------------------------------------
(* Starting and stopping, by main or by the scheduler, under sessionMu *)

AfterStart(p) == IF p = "main" THEN "spawn" ELSE "tick"
AfterStop(p) == IF p = "main" THEN "cancel" ELSE "tick"

\* A mutant of CanStart: a session that runs is not looked at.
CredentialsOnly == creds

CanStart == session = 0 /\ creds

\* startCollectors returns when a session runs or there are no credentials.
StartSkipped(p) ==
    /\ Running /\ at[p] = "start" /\ mu = "free"
    /\ ~CanStart
    /\ Goto(p, AfterStart(p))
    /\ UNCHANGED <<marketVars, mu, schedVars, sessionVars, poll, writer, cache, pairs, history>>

Runs(stage) == stage \notin {"off", "end"}
Outlives ==
    outlived' = outlived
        \cup {<<"poll", s, launched + 1>> : s \in {t \in Sessions : Runs(poll[t])}}
        \cup {<<"writer", s, launched + 1>> : s \in {t \in Sessions : Runs(writer[t])}}

\* A mutant of StartReset: the cache keeps what it holds.
StartDirty(p) ==
    /\ Running /\ at[p] = "start" /\ mu = "free"
    /\ CanStart
    /\ Goto(p, "launch") /\ mu' = p
    /\ Outlives
    /\ UNCHANGED <<marketVars, schedVars, sessionVars, poll, writer, cache, pairs, stored>>

\* The caches are reset before anything of the new session runs ...
StartReset(p) ==
    /\ Running /\ at[p] = "start" /\ mu = "free"
    /\ CanStart
    /\ Goto(p, "launch") /\ mu' = p
    /\ cache' = 0
    /\ Outlives
    /\ UNCHANGED <<marketVars, schedVars, sessionVars, poll, writer, pairs, stored>>

\* ... then its goroutines are started.
StartLaunch(p) ==
    /\ Running /\ at[p] = "launch"
    /\ launched < MaxSession
    /\ launched' = launched + 1
    /\ session' = launched'
    /\ poll' = [poll EXCEPT ![launched'] = "wait"]
    /\ writer' = [writer EXCEPT ![launched'] = "wait"]
    /\ Goto(p, AfterStart(p)) /\ mu' = "free"
    /\ UNCHANGED <<marketVars, schedVars, cancelled, ctxDone, cache, pairs, history>>

\* stopCollectors cancels the session, and does not wait for its goroutines ...
StopCancel(p) ==
    /\ Running /\ at[p] = "stop" /\ mu = "free"
    /\ \/ /\ session = 0
          /\ Goto(p, AfterStop(p))
          /\ UNCHANGED <<mu, cancelled>>
       \/ /\ session # 0
          /\ Goto(p, "clear") /\ mu' = p
          /\ cancelled' = cancelled \cup {session}
    /\ UNCHANGED <<marketVars, schedVars, session, launched, ctxDone, poll, writer, cache, pairs, history>>

\* ... then forgets it and resets the caches.
StopClear(p) ==
    /\ Running /\ at[p] = "clear"
    /\ session' = 0 /\ cache' = 0
    /\ Goto(p, AfterStop(p)) /\ mu' = "free"
    /\ UNCHANGED <<marketVars, schedVars, launched, cancelled, ctxDone, poll, writer, pairs, history>>

SessionStep(p) ==
    StartSkipped(p) \/ StartReset(p) \/ StartLaunch(p) \/ StopCancel(p) \/ StopClear(p)

-----------------------------------------------------------------------------
(* main and the scheduler *)

\* main starts the first session itself if the market is open.
FirstCheck ==
    /\ at["main"] = "check"
    /\ opened' = open
    /\ Goto("main", IF open THEN "start" ELSE "spawn")
    /\ UNCHANGED <<marketVars, mu, lastOpen, missed, sessionVars, poll, writer, cache, pairs, history>>

Spawn ==
    /\ at["main"] = "spawn"
    /\ at' = [main |-> "serve", sched |-> "read"]
    /\ UNCHANGED <<marketVars, mu, schedVars, sessionVars, poll, writer, cache, pairs, history>>

\* The scheduler reads the market again as its last state.
ReadLastOpen ==
    /\ Running /\ at["sched"] = "read"
    /\ lastOpen' = open
    /\ missed' = (open # opened)
    /\ opened' = FALSE
    /\ Goto("sched", "tick")
    /\ UNCHANGED <<marketVars, mu, sessionVars, poll, writer, cache, pairs, history>>

\* A mutant of SchedTick: the last state is kept.
SchedForgets ==
    /\ Running /\ at["sched"] = "tick" /\ open # lastOpen
    /\ missed' = FALSE
    /\ Goto("sched", IF open THEN "start" ELSE "stop")
    /\ UNCHANGED <<marketVars, mu, opened, lastOpen, sessionVars, poll, writer, cache, pairs, history>>

\* A tick that sees the market changed acts on it; others do nothing.
SchedTick ==
    /\ Running /\ at["sched"] = "tick" /\ open # lastOpen
    /\ lastOpen' = open
    /\ missed' = FALSE
    /\ Goto("sched", IF open THEN "start" ELSE "stop")
    /\ UNCHANGED <<marketVars, mu, opened, sessionVars, poll, writer, cache, pairs, history>>

SchedLeaves ==
    /\ Running /\ at["sched"] = "tick" /\ ctxDone
    /\ Goto("sched", "end")
    /\ UNCHANGED <<marketVars, mu, schedVars, sessionVars, poll, writer, cache, pairs, history>>

Signal ==
    /\ at["main"] = "serve"
    /\ Goto("main", "stop")
    /\ UNCHANGED <<marketVars, mu, schedVars, sessionVars, poll, writer, cache, pairs, history>>

\* cancel() after stopCollectors: the scheduler may have started a session between.
Cancel ==
    /\ at["main"] = "cancel"
    /\ ctxDone' = TRUE
    /\ Goto("main", "return")
    /\ UNCHANGED <<marketVars, mu, schedVars, session, launched, cancelled, poll, writer, cache, pairs, history>>

\* main returns: the process is gone, whatever its goroutines were doing.
Exit ==
    /\ at["main"] = "return"
    /\ Goto("main", "exited")
    /\ UNCHANGED <<marketVars, mu, schedVars, sessionVars, poll, writer, cache, pairs, history>>

Flip ==
    /\ Running /\ flips < MaxFlip
    /\ open' = ~open /\ flips' = flips + 1
    /\ UNCHANGED <<creds, at, mu, schedVars, sessionVars, poll, writer, cache, pairs, history>>

-----------------------------------------------------------------------------
(* The goroutines of a session *)

PollAt(s, from, to) == Running /\ poll[s] = from /\ poll' = [poll EXCEPT ![s] = to]
rest == <<marketVars, at, mu, schedVars, sessionVars, outlived>>

\* A ready ticker may win against a done context.
PollTick(s) == PollAt(s, "wait", "fetch") /\ UNCHANGED <<rest, writer, cache, pairs, stored>>

\* runLivePipeline returns early: the request or its answer is no good.
PollFails(s) == PollAt(s, "fetch", "wait") /\ UNCHANGED <<rest, writer, cache, pairs, stored>>

\* The rows are cached; the rest of the cycle may still fail, or panic and be recovered.
PollCaches(s) ==
    /\ \E next \in {"send", "wait"} : PollAt(s, "fetch", next)
    /\ cache' = s
    /\ UNCHANGED <<rest, writer, pairs, stored>>

\* dbWorker.PairChan <- pairs: waits while the channel is full.
PollSends(s) ==
    /\ PollAt(s, "send", "wait")
    /\ pairs < PairCap
    /\ pairs' = pairs + 1
    /\ UNCHANGED <<rest, writer, cache, stored>>

PollLeaves(s) ==
    /\ PollAt(s, "wait", "end")
    /\ Done(s)
    /\ UNCHANGED <<rest, writer, cache, pairs, stored>>

\* The minute writer stores what the cache holds, whoever put it there.
MinuteTick(s) ==
    /\ Running /\ writer[s] = "wait" /\ cache # 0
    /\ stored' = stored \cup {<<s, cache>>}
    /\ UNCHANGED <<rest, poll, writer, cache, pairs>>

WriterLeaves(s) ==
    /\ Running /\ writer[s] = "wait" /\ Done(s)
    /\ writer' = [writer EXCEPT ![s] = "end"]
    /\ UNCHANGED <<rest, poll, cache, pairs, stored>>

\* A mutant of WorkerTakes: the worker takes nothing out.
WorkerPeeks ==
    /\ Running /\ pairs > 0
    /\ UNCHANGED <<rest, poll, writer, cache, pairs, stored>>

\* DBWorker: one receiver for all sessions.
WorkerTakes ==
    /\ Running /\ pairs > 0
    /\ pairs' = pairs - 1
    /\ UNCHANGED <<rest, poll, writer, cache, stored>>

PollStep(s) == PollFails(s) \/ PollCaches(s)

Next ==
    \/ \E p \in Callers : SessionStep(p)
    \/ FirstCheck \/ Spawn \/ ReadLastOpen \/ SchedTick \/ SchedLeaves
    \/ Signal \/ Cancel \/ Exit \/ Flip
    \/ \E s \in Sessions : \/ PollTick(s) \/ PollStep(s) \/ PollSends(s) \/ PollLeaves(s)
                           \/ MinuteTick(s) \/ WriterLeaves(s)
    \/ WorkerTakes

Spec == Init /\ [][Next]_vars

\* Code that can go on does, requests end, and a select does not overlook a done
\* context for ever; the market and the signal are the environment's.
Fairness ==
    /\ \A p \in Callers : WF_vars(SessionStep(p))
    /\ WF_vars(FirstCheck) /\ WF_vars(Spawn) /\ WF_vars(ReadLastOpen) /\ WF_vars(SchedTick)
    /\ WF_vars(Cancel) /\ WF_vars(Exit) /\ WF_vars(WorkerTakes)
    /\ \A s \in Sessions : /\ WF_vars(PollStep(s)) /\ SF_vars(PollSends(s)) /\ SF_vars(PollLeaves(s))
                           /\ WF_vars(WriterLeaves(s))

FairSpec == Spec /\ Fairness

-----------------------------------------------------------------------------
(* Properties *)

\* Outside startCollectors and stopCollectors the session variable names the one
\* session whose context is live, whoever of main and the scheduler came last: no
\* session is started over a running one, none is left running unnamed.
OneCollector ==
    mu = "free" =>
        /\ \A s \in 1..launched : s \notin cancelled => s = session
        /\ session # 0 => session \notin cancelled

\* The minute writer stores rows fetched in its own session, unless the poll of an
\* earlier session, or the writer itself, had not ended when the cache was reset
\* for the next: the reset at the start is needed although stopping resets as well.
RowsOfSession ==
    \A x \in stored :
        \/ x[1] = x[2]
        \/ x[2] < x[1] /\ <<"poll", x[2], x[1]>> \in outlived
        \/ x[1] < x[2] /\ <<"writer", x[1], x[2]>> \in outlived

Leaving == at["main"] \in {"stop", "clear", "cancel", "return", "exited"}

\* While the market stays open collectors run, and while it stays closed they do
\* not, with two exceptions: no credentials, and a market that changed between
\* main's read and the scheduler's, which is made good at its next change only.
FollowsMarket ==
    /\ (open /\ creds) ~> (session # 0 \/ ~open \/ missed \/ Leaving)
    /\ ~open ~> (session = 0 \/ open \/ missed \/ Leaving)

\* The goroutines of a session that is over end, or the process does: neither the
\* select nor the channel of pairs, full or shared with the next session, keeps one.
Lingers(s) == Running /\ Done(s) /\ (Runs(poll[s]) \/ Runs(writer[s]))
SessionEnds == (\E s \in Sessions : Lingers(s)) ~> (\A s \in Sessions : ~Lingers(s))
=============================================================================
