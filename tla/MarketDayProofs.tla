---------------------------- MODULE MarketDayProofs ----------------------------
(***************************************************************************)
(* Proofs about the day of the market: Collectors, which stores it, for    *)
(* any number of sessions, any capacity of the pair channel and any number *)
(* of changes of the market, and Backtest, which reads what is stored, for *)
(* any options, any quotes of them and any requests, on days of any length.*)
(*                                                                         *)
(* What the fold of Backtest computes is proved by induction over the      *)
(* quotes: Inductive derives it, as a fact about sets of natural numbers,  *)
(* from the library's theorem that the subsets of a finite set are well    *)
(* founded.                                                                *)
(***************************************************************************)
EXTENDS Collectors, Backtest, FiniteSetTheorems, SequenceTheorems, WellFoundedInduction, TLAPS

-----------------------------------------------------------------------------
(* The collector's sessions *)

Places == {"off", "check", "start", "launch", "spawn", "serve", "read", "tick", "stop", "clear",
           "cancel", "return", "exited", "end"}

Types ==
    /\ at \in [Callers -> Places]
    /\ mu \in {"free"} \cup Callers
    /\ launched \in 0..MaxSession /\ session \in 0..launched
    /\ poll \in [Sessions -> {"off", "wait", "fetch", "send", "end"}]
    /\ writer \in [Sessions -> {"off", "wait", "end"}]
    /\ cache \in 0..launched

\* Whoever is between the two halves of a start or a stop holds sessionMu.
Mutex == \A p \in Callers : at[p] \in {"launch", "clear"} => mu = p

\* The session variable names the live session; only in the middle of a stop is
\* it a cancelled one, and in the middle of a start there is none.
Named ==
    /\ \A s \in 1..launched : s \notin cancelled => s = session
    /\ session \in cancelled /\ session # 0 => \E p \in Callers : at[p] = "clear"
    /\ \A p \in Callers : at[p] = "clear" => session \in cancelled
    /\ \A p \in Callers : at[p] = "launch" => session = 0
    /\ \A s \in cancelled : s \in 1..launched

\* A goroutine runs only if its session was launched.
NotYet == \A s \in Sessions : s > launched => poll[s] = "off" /\ writer[s] = "off"

\* What runs still has been noted at every reset since its session's.
Noted(n) ==
    /\ \A s \in 1..launched : s < n /\ Runs(poll[s]) => <<"poll", s, n>> \in outlived
    /\ \A s \in 1..launched : s < n /\ Runs(writer[s]) => <<"writer", s, n>> \in outlived

AllNoted ==
    /\ \A n \in 1..launched : Noted(n)
    /\ \A p \in Callers : at[p] = "launch" =>
          /\ Noted(launched + 1)
          /\ cache # 0 => <<"poll", cache, launched + 1>> \in outlived

\* What a writer of s may store of what a poll of t has fetched.
Allowed(s, t) ==
    \/ s = t
    \/ t < s /\ <<"poll", t, s>> \in outlived
    \/ s < t /\ <<"writer", s, t>> \in outlived

\* What the cache holds may be stored by every writer that runs.
CacheAllowed == \A s \in Sessions : Runs(writer[s]) /\ cache # 0 => Allowed(s, cache)

StoredAllowed == \A x \in stored : Allowed(x[1], x[2])

Sessional == Types /\ Mutex /\ Named
IInv == Sessional /\ NotYet /\ AllNoted /\ CacheAllowed /\ StoredAllowed

-----------------------------------------------------------------------------
(* One collector *)

LEMMA InitInv == Init => IInv
BY CollectorsAssumption
   DEF Init, IInv, Sessional, Types, Callers, Places, Sessions, Mutex, Named, NotYet, AllNoted, Noted,
       CacheAllowed, StoredAllowed, Runs

\* Steps of main and the scheduler that leave session and mutex alone.
LEMMA OutsideSession ==
    ASSUME Sessional, NEW p \in Callers, NEW place \in Places,
           at[p] \notin {"launch", "clear"}, place \notin {"launch", "clear"},
           at' = [at EXCEPT ![p] = place], UNCHANGED <<mu, session, launched, cancelled>>
    PROVE  Mutex' /\ Named' /\ at' \in [Callers -> Places]
<1>1. at' \in [Callers -> Places] /\ at'[p] = place /\ \A q \in Callers : q # p => at'[q] = at[q]
  BY DEF Sessional, Types
<1>2. Mutex'
  BY <1>1 DEF Sessional, Mutex
<1>3. Named'
  BY <1>1 DEF Sessional, Named, Types
<1> QED BY <1>1, <1>2, <1>3

\* Steps that touch neither main nor the scheduler nor the session.
LEMMA GoroutineStep ==
    ASSUME Sessional, UNCHANGED <<at, mu, session, launched, cancelled>>
    PROVE  Mutex' /\ Named'
BY DEF Sessional, Mutex, Named

LEMMA StartResetNamed ==
    ASSUME Sessional, NEW p \in Callers, StartReset(p)
    PROVE  Mutex' /\ Named' /\ at' \in [Callers -> Places]
<1>1. /\ mu = "free" /\ mu' = p /\ session = 0
      /\ at' = [at EXCEPT ![p] = "launch"] /\ UNCHANGED <<session, launched, cancelled>>
  BY DEF StartReset, Goto, CanStart, sessionVars
<1>2. at' \in [Callers -> Places] /\ at'[p] = "launch" /\ \A q \in Callers : q # p => at'[q] = at[q]
  BY <1>1 DEF Sessional, Types, Places
<1>3. \A q \in Callers : at[q] \notin {"launch", "clear"}
  BY <1>1 DEF Sessional, Mutex, Callers
<1>4. Mutex'
  BY <1>1, <1>2, <1>3 DEF Mutex
<1>5. Named'
  BY <1>1, <1>2, <1>3 DEF Sessional, Named
<1> QED BY <1>2, <1>4, <1>5

LEMMA StartLaunchNamed ==
    ASSUME Sessional, NEW p \in Callers, StartLaunch(p)
    PROVE  Mutex' /\ Named' /\ at' \in [Callers -> Places]
<1>1. /\ at[p] = "launch" /\ mu' = "free" /\ launched' = launched + 1 /\ session' = launched + 1
      /\ cancelled' = cancelled
      /\ at' = [at EXCEPT ![p] = AfterStart(p)]
  BY DEF StartLaunch, Goto
<1>2. AfterStart(p) \in {"spawn", "tick"}
  BY DEF AfterStart
<1>3. at' \in [Callers -> Places] /\ at'[p] = AfterStart(p) /\ \A q \in Callers : q # p => at'[q] = at[q]
  BY <1>1, <1>2 DEF Sessional, Types, Places
<1>4. mu = p /\ \A q \in Callers : q # p => at[q] \notin {"launch", "clear"}
  BY <1>1 DEF Sessional, Mutex
<1>5. Mutex'
  BY <1>2, <1>3, <1>4 DEF Mutex
<1>6. session = 0 /\ launched \in Nat
  BY <1>1 DEF Sessional, Named, Types
<1>7. \A s \in 1..launched : s \in cancelled
  BY <1>6 DEF Sessional, Named
<1>8. launched + 1 \notin cancelled
  BY <1>6 DEF Sessional, Named
<1>9. Named'
  <2>1. \A s \in 1..(launched + 1) : s \notin cancelled => s = launched + 1
    BY <1>6, <1>7
  <2>2. \A q \in Callers : at'[q] \notin {"launch", "clear"}
    BY <1>2, <1>3, <1>4
  <2>3. \A s \in cancelled : s \in 1..(launched + 1)
    BY <1>6 DEF Sessional, Named
  <2> QED BY <1>1, <1>8, <2>1, <2>2, <2>3 DEF Named
<1> QED BY <1>3, <1>5, <1>9

LEMMA StopCancelNamed ==
    ASSUME Sessional, NEW p \in Callers, StopCancel(p)
    PROVE  Mutex' /\ Named' /\ at' \in [Callers -> Places]
<1>1. at[p] = "stop" /\ mu = "free" /\ UNCHANGED <<session, launched>>
  BY DEF StopCancel
<1>2. CASE session = 0
  <2>1. /\ at' = [at EXCEPT ![p] = AfterStop(p)] /\ UNCHANGED <<mu, cancelled>>
        /\ AfterStop(p) \in Places /\ AfterStop(p) \notin {"launch", "clear"}
    BY <1>2 DEF StopCancel, Goto, AfterStop, Places
  <2> QED BY <1>1, <2>1, OutsideSession
<1>3. CASE session # 0
  <2>1. at' = [at EXCEPT ![p] = "clear"] /\ mu' = p /\ cancelled' = cancelled \cup {session}
    BY <1>3 DEF StopCancel, Goto
  <2>2. at' \in [Callers -> Places] /\ at'[p] = "clear" /\ \A q \in Callers : q # p => at'[q] = at[q]
    BY <2>1 DEF Sessional, Types, Places
  <2>3. \A q \in Callers : at[q] \notin {"launch", "clear"}
    BY <1>1 DEF Sessional, Mutex, Callers
  <2>4. Mutex'
    BY <2>1, <2>2, <2>3 DEF Mutex
  <2>5. session \in 1..launched
    BY <1>3 DEF Sessional, Types
  <2>6. Named'
    BY <1>1, <2>1, <2>2, <2>3, <2>5 DEF Sessional, Named
  <2> QED BY <2>2, <2>4, <2>6
<1> QED BY <1>2, <1>3

LEMMA StopClearNamed ==
    ASSUME Sessional, NEW p \in Callers, StopClear(p)
    PROVE  Mutex' /\ Named' /\ at' \in [Callers -> Places]
<1>1. /\ at[p] = "clear" /\ mu' = "free" /\ session' = 0 /\ UNCHANGED <<launched, cancelled>>
      /\ at' = [at EXCEPT ![p] = AfterStop(p)]
  BY DEF StopClear, Goto
<1>2. AfterStop(p) \in {"cancel", "tick"}
  BY DEF AfterStop
<1>3. at' \in [Callers -> Places] /\ at'[p] = AfterStop(p) /\ \A q \in Callers : q # p => at'[q] = at[q]
  BY <1>1, <1>2 DEF Sessional, Types, Places
<1>4. mu = p /\ \A q \in Callers : q # p => at[q] \notin {"launch", "clear"}
  BY <1>1 DEF Sessional, Mutex
<1>5. Mutex'
  BY <1>2, <1>3, <1>4 DEF Mutex
<1>6. Named'
  <2>1. \A q \in Callers : at'[q] \notin {"launch", "clear"}
    BY <1>2, <1>3, <1>4
  <2>2. \A s \in 1..launched : s \in cancelled
    BY <1>1 DEF Sessional, Named, Types
  <2>3. \A s \in cancelled : s \in 1..launched
    BY DEF Sessional, Named
  <2> QED BY <1>1, <2>1, <2>2, <2>3 DEF Named
<1> QED BY <1>3, <1>5, <1>6
-----------------------------------------------------------------------------
(* What the writers store *)

\* The session after a step of main or the scheduler that only moves one of them.
LEMMA OutsideTypes ==
    ASSUME Types, at' \in [Callers -> Places],
           UNCHANGED <<mu, session, launched, poll, writer, cache>>
    PROVE  Types'
BY DEF Types

LEMMA OutsideRows ==
    ASSUME IInv, NEW p \in Callers, NEW place \in Places, place # "launch",
           at' = [at EXCEPT ![p] = place],
           UNCHANGED <<launched, poll, writer, cache, outlived, stored>>
    PROVE  NotYet' /\ AllNoted' /\ CacheAllowed' /\ StoredAllowed'
<1>1. \A q \in Callers : at'[q] = "launch" => at[q] = "launch"
  BY DEF IInv, Sessional, Types
<1>2. AllNoted'
  BY <1>1 DEF IInv, AllNoted, Noted
<1>3. NotYet' /\ CacheAllowed' /\ StoredAllowed'
  BY DEF IInv, NotYet, CacheAllowed, StoredAllowed, Allowed
<1> QED BY <1>2, <1>3

\* A step of main or the scheduler outside startCollectors and stopCollectors.
LEMMA OutsideStep ==
    ASSUME IInv, NEW p \in Callers, NEW place \in Places,
           at[p] \notin {"launch", "clear"}, place \notin {"launch", "clear"},
           at' = [at EXCEPT ![p] = place],
           UNCHANGED <<mu, session, launched, cancelled, poll, writer, cache, outlived, stored>>
    PROVE  IInv'
<1>1. Mutex' /\ Named' /\ at' \in [Callers -> Places]
  BY OutsideSession DEF IInv
<1>2. Types'
  BY <1>1, OutsideTypes DEF IInv, Sessional
<1>3. NotYet' /\ AllNoted' /\ CacheAllowed' /\ StoredAllowed'
  BY OutsideRows
<1> QED BY <1>1, <1>2, <1>3 DEF IInv, Sessional

LEMMA StartResetStep ==
    ASSUME IInv, NEW p \in Callers, StartReset(p)
    PROVE  IInv'
<1>1. Mutex' /\ Named' /\ at' \in [Callers -> Places]
  BY StartResetNamed DEF IInv
<1>2. /\ cache' = 0 /\ mu' = p /\ at' = [at EXCEPT ![p] = "launch"]
      /\ outlived' = outlived
           \cup {<<"poll", s, launched + 1>> : s \in {t \in Sessions : Runs(poll[t])}}
           \cup {<<"writer", s, launched + 1>> : s \in {t \in Sessions : Runs(writer[t])}}
      /\ UNCHANGED <<session, launched, poll, writer, stored>>
  BY DEF StartReset, Goto, Outlives, sessionVars
<1>3. Types'
  BY <1>1, <1>2 DEF IInv, Sessional, Types
<1>4. NotYet' /\ CacheAllowed'
  BY <1>2 DEF IInv, NotYet, CacheAllowed
<1>5. outlived \subseteq outlived'
  BY <1>2
<1>6. StoredAllowed'
  BY <1>2, <1>5 DEF IInv, StoredAllowed, Allowed
<1>7. launched \in Nat /\ 1..launched \subseteq Sessions
  BY CollectorsAssumption DEF IInv, Sessional, Types, Sessions
<1>8. \A n \in 1..launched : Noted(n)'
  BY <1>2, <1>5 DEF IInv, AllNoted, Noted
<1>9. Noted(launched + 1)'
  <2>1. ASSUME NEW s \in 1..launched, Runs(poll[s]) PROVE <<"poll", s, launched + 1>> \in outlived'
    BY <1>2, <1>7, <2>1
  <2>2. ASSUME NEW s \in 1..launched, Runs(writer[s]) PROVE <<"writer", s, launched + 1>> \in outlived'
    BY <1>2, <1>7, <2>2
  <2> QED BY <1>2, <2>1, <2>2 DEF Noted, Runs
<1>10. AllNoted'
  BY <1>2, <1>8, <1>9 DEF AllNoted
<1> QED BY <1>1, <1>3, <1>4, <1>6, <1>10 DEF IInv, Sessional

LEMMA StartLaunchStep ==
    ASSUME IInv, NEW p \in Callers, StartLaunch(p)
    PROVE  IInv'
<1>1. Mutex' /\ Named' /\ at' \in [Callers -> Places]
  BY StartLaunchNamed DEF IInv
<1>2. /\ at[p] = "launch" /\ launched < MaxSession /\ mu' = "free"
      /\ launched' = launched + 1 /\ session' = launched + 1
      /\ poll' = [poll EXCEPT ![launched + 1] = "wait"]
      /\ writer' = [writer EXCEPT ![launched + 1] = "wait"]
      /\ at' = [at EXCEPT ![p] = AfterStart(p)]
      /\ UNCHANGED <<cache, outlived, stored>>
  BY DEF StartLaunch, Goto, history
<1>3. launched \in Nat /\ launched + 1 \in Sessions /\ MaxSession \in Nat
  BY <1>2, CollectorsAssumption DEF IInv, Sessional, Types, Sessions
<1>4. Types'
  BY <1>1, <1>2, <1>3 DEF IInv, Sessional, Types
<1>5. /\ poll'[launched + 1] = "wait" /\ writer'[launched + 1] = "wait"
      /\ \A s \in Sessions : s # launched + 1 => poll'[s] = poll[s] /\ writer'[s] = writer[s]
  BY <1>2, <1>3 DEF IInv, Sessional, Types
<1>6. NotYet'
  BY <1>2, <1>3, <1>5 DEF IInv, NotYet, Sessions
<1>7. Noted(launched + 1) /\ (cache # 0 => <<"poll", cache, launched + 1>> \in outlived)
  BY <1>2 DEF IInv, AllNoted
<1>8. 1..launched \subseteq Sessions
  BY <1>3 DEF Sessions
<1>9. \A n \in 1..(launched + 1) : Noted(n)'
  <2> SUFFICES ASSUME NEW n \in 1..(launched + 1), NEW s \in 1..(launched + 1), s < n
               PROVE  /\ Runs(poll'[s]) => <<"poll", s, n>> \in outlived
                      /\ Runs(writer'[s]) => <<"writer", s, n>> \in outlived
    BY <1>2 DEF Noted, Runs
  <2>1. s \in 1..launched /\ poll'[s] = poll[s] /\ writer'[s] = writer[s]
    BY <1>3, <1>5, <1>8
  <2>2. Noted(n)
    BY <1>3, <1>7 DEF IInv, AllNoted
  <2> QED BY <2>1, <2>2 DEF Noted
<1>10. \A q \in Callers : at'[q] # "launch"
  BY <1>2 DEF IInv, Sessional, Types, Mutex, AfterStart
<1>11. AllNoted'
  BY <1>2, <1>9, <1>10 DEF AllNoted
<1>12. CacheAllowed'
  <2> SUFFICES ASSUME NEW s \in Sessions, Runs(writer'[s]), cache # 0 PROVE Allowed(s, cache)
    BY <1>2 DEF CacheAllowed, Allowed, Runs
  <2>1. CASE s = launched + 1
    BY <1>3, <1>7, <2>1 DEF Allowed, IInv, Sessional, Types
  <2>2. CASE s # launched + 1
    BY <1>5, <2>2 DEF IInv, CacheAllowed
  <2> QED BY <2>1, <2>2
<1>13. StoredAllowed'
  BY <1>2 DEF IInv, StoredAllowed, Allowed
<1> QED BY <1>1, <1>4, <1>6, <1>11, <1>12, <1>13 DEF IInv, Sessional

LEMMA StopCancelStep ==
    ASSUME IInv, NEW p \in Callers, StopCancel(p)
    PROVE  IInv'
<1>1. Mutex' /\ Named' /\ at' \in [Callers -> Places]
  BY StopCancelNamed DEF IInv
<1>2. PICK place \in {"clear", "cancel", "tick"} : at' = [at EXCEPT ![p] = place]
  BY DEF StopCancel, Goto, AfterStop
<1>3. UNCHANGED <<session, launched, poll, writer, cache, outlived, stored>>
  BY DEF StopCancel, history
<1>4. mu' \in {"free"} \cup Callers
  BY DEF StopCancel, IInv, Sessional, Types
<1>5. Types'
  BY <1>1, <1>3, <1>4 DEF IInv, Sessional, Types
<1>6. NotYet' /\ AllNoted' /\ CacheAllowed' /\ StoredAllowed'
  BY <1>2, <1>3, OutsideRows DEF Places
<1> QED BY <1>1, <1>5, <1>6 DEF IInv, Sessional

LEMMA StopClearStep ==
    ASSUME IInv, NEW p \in Callers, StopClear(p)
    PROVE  IInv'
<1>1. Mutex' /\ Named' /\ at' \in [Callers -> Places]
  BY StopClearNamed DEF IInv
<1>2. /\ session' = 0 /\ cache' = 0 /\ mu' = "free"
      /\ at' = [at EXCEPT ![p] = AfterStop(p)]
      /\ UNCHANGED <<launched, poll, writer, outlived, stored>>
  BY DEF StopClear, Goto, history
<1>3. Types'
  BY <1>1, <1>2 DEF IInv, Sessional, Types
<1>4. NotYet' /\ CacheAllowed' /\ StoredAllowed'
  BY <1>2 DEF IInv, NotYet, CacheAllowed, StoredAllowed, Allowed
<1>5. \A q \in Callers : at'[q] = "launch" => at[q] = "launch"
  BY <1>2 DEF IInv, Sessional, Types, AfterStop
<1>6. AllNoted'
  BY <1>2, <1>5 DEF IInv, AllNoted, Noted
<1> QED BY <1>1, <1>3, <1>4, <1>6 DEF IInv, Sessional

-----------------------------------------------------------------------------
(* The goroutines of a session *)

\* Polls and writers only ever end, and the cache is as it was.
LEMMA Winding ==
    ASSUME IInv, UNCHANGED <<at, mu, session, launched, cancelled, cache, outlived>>, Types', StoredAllowed',
           \A s \in Sessions : /\ Runs(poll'[s]) => Runs(poll[s])
                               /\ poll[s] = "off" => poll'[s] = "off"
                               /\ Runs(writer'[s]) => Runs(writer[s])
                               /\ writer[s] = "off" => writer'[s] = "off"
    PROVE  IInv'
<1>1. Mutex' /\ Named'
  BY GoroutineStep DEF IInv
<1>2. NotYet'
  BY DEF IInv, NotYet
<1>3. 1..launched \subseteq Sessions
  BY CollectorsAssumption DEF IInv, Sessional, Types, Sessions
<1>4. ASSUME NEW n \in Nat, Noted(n) PROVE Noted(n)'
  BY <1>3, <1>4 DEF Noted
<1>5. launched + 1 \in Nat /\ \A n \in 1..launched : n \in Nat
  BY DEF IInv, Sessional, Types
<1>6. AllNoted'
  BY <1>4, <1>5 DEF IInv, AllNoted
<1>7. CacheAllowed'
  BY DEF IInv, CacheAllowed, Allowed
<1> QED BY <1>1, <1>2, <1>6, <1>7 DEF IInv, Sessional

LEMMA PollMoves ==
    ASSUME IInv, NEW s \in Sessions, NEW from \in {"wait", "fetch", "send"},
           NEW to \in {"wait", "fetch", "send", "end"}, PollAt(s, from, to),
           UNCHANGED <<rest, writer, cache, stored>>
    PROVE  IInv'
<1>1. /\ poll[s] = from /\ poll' = [poll EXCEPT ![s] = to]
      /\ UNCHANGED <<at, mu, session, launched, cancelled, outlived>>
  BY DEF PollAt, rest, sessionVars
<1>2. Types'
  BY <1>1 DEF IInv, Sessional, Types
<1>3. StoredAllowed'
  BY <1>1 DEF IInv, StoredAllowed, Allowed
<1>4. \A t \in Sessions : /\ Runs(poll'[t]) => Runs(poll[t])
                          /\ poll[t] = "off" => poll'[t] = "off"
  BY <1>1 DEF IInv, Sessional, Types, Runs
<1> QED BY <1>1, <1>2, <1>3, <1>4, Winding

LEMMA PollCachesStep ==
    ASSUME IInv, NEW s \in Sessions, PollCaches(s)
    PROVE  IInv'
<1>1. PICK next \in {"send", "wait"} : PollAt(s, "fetch", next)
  BY DEF PollCaches
<1>2. /\ poll[s] = "fetch" /\ poll' = [poll EXCEPT ![s] = next] /\ cache' = s
      /\ UNCHANGED <<at, mu, session, launched, cancelled, outlived, writer, stored>>
  BY <1>1 DEF PollCaches, PollAt, rest, sessionVars
<1>3. s \in 1..launched /\ launched \in Nat /\ 1..launched \subseteq Sessions
  BY <1>2, CollectorsAssumption DEF IInv, NotYet, Sessional, Types, Sessions
<1>4. Types'
  BY <1>2, <1>3 DEF IInv, Sessional, Types
<1>5. Mutex' /\ Named'
  BY <1>2, GoroutineStep DEF IInv
<1>6. \A t \in Sessions : /\ Runs(poll'[t]) => Runs(poll[t])
                          /\ poll[t] = "off" => poll'[t] = "off"
  BY <1>2 DEF IInv, Sessional, Types, Runs
<1>7. NotYet'
  BY <1>2, <1>6 DEF IInv, NotYet
<1>8. Runs(poll[s])
  BY <1>2 DEF Runs
<1>9. ASSUME NEW n \in Nat, Noted(n) PROVE Noted(n)'
  BY <1>2, <1>3, <1>6, <1>9 DEF Noted, Runs
<1>10. AllNoted'
  <2>1. \A n \in 1..launched : Noted(n)'
    BY <1>3, <1>9 DEF IInv, AllNoted
  <2>2. ASSUME NEW p \in Callers, at[p] = "launch"
        PROVE  Noted(launched + 1)' /\ <<"poll", s, launched + 1>> \in outlived
    <3>1. Noted(launched + 1)
      BY <2>2 DEF IInv, AllNoted
    <3>2. Noted(launched + 1)'
      <4>1. PICK n \in Nat : n = launched + 1
        BY <1>3
      <4>2. Noted(n)'
        BY <1>9, <3>1, <4>1
      <4> QED BY <1>2, <4>1, <4>2
    <3> QED BY <1>3, <1>8, <3>1, <3>2 DEF Noted
  <2> QED BY <1>2, <2>1, <2>2 DEF AllNoted
<1>11. CacheAllowed'
  <2> SUFFICES ASSUME NEW t \in Sessions, Runs(writer[t]) PROVE Allowed(t, s)
    BY <1>2 DEF CacheAllowed, Allowed, Runs
  <2>1. t \in 1..launched
    BY CollectorsAssumption DEF IInv, NotYet, Sessional, Types, Sessions, Runs
  <2>2. CASE s < t
    BY <1>3, <1>8, <2>1, <2>2 DEF IInv, AllNoted, Noted, Allowed
  <2>3. CASE t < s
    BY <1>3, <2>1, <2>3 DEF IInv, AllNoted, Noted, Allowed
  <2> QED BY <1>3, <2>1, <2>2, <2>3 DEF Allowed
<1>12. StoredAllowed'
  BY <1>2 DEF IInv, StoredAllowed, Allowed
<1> QED BY <1>4, <1>5, <1>7, <1>10, <1>11, <1>12 DEF IInv, Sessional

LEMMA MinuteTickStep ==
    ASSUME IInv, NEW s \in Sessions, MinuteTick(s)
    PROVE  IInv'
<1>1. /\ writer[s] = "wait" /\ cache # 0 /\ stored' = stored \cup {<<s, cache>>}
      /\ UNCHANGED <<at, mu, session, launched, cancelled, outlived, poll, writer, cache>>
  BY DEF MinuteTick, rest, sessionVars
<1>2. Allowed(s, cache)
  BY <1>1 DEF IInv, CacheAllowed, Runs
<1>3. StoredAllowed'
  <2> SUFFICES ASSUME NEW x \in stored' PROVE Allowed(x[1], x[2])'
    BY DEF StoredAllowed
  <2>1. CASE x \in stored
    BY <1>1, <2>1 DEF IInv, StoredAllowed, Allowed
  <2>2. CASE x = <<s, cache>>
    BY <1>1, <1>2, <2>2 DEF Allowed
  <2> QED BY <1>1, <2>1, <2>2
<1>4. Types'
  BY <1>1 DEF IInv, Sessional, Types
<1> QED BY <1>1, <1>3, <1>4, Winding

LEMMA WriterLeavesStep ==
    ASSUME IInv, NEW s \in Sessions, WriterLeaves(s)
    PROVE  IInv'
<1>1. /\ writer[s] = "wait" /\ writer' = [writer EXCEPT ![s] = "end"]
      /\ UNCHANGED <<at, mu, session, launched, cancelled, outlived, poll, cache, stored>>
  BY DEF WriterLeaves, rest, sessionVars
<1>2. StoredAllowed'
  BY <1>1 DEF IInv, StoredAllowed, Allowed
<1>3. Types'
  BY <1>1 DEF IInv, Sessional, Types
<1>4. \A t \in Sessions : /\ Runs(writer'[t]) => Runs(writer[t])
                          /\ writer[t] = "off" => writer'[t] = "off"
  BY <1>1 DEF IInv, Sessional, Types, Runs
<1> QED BY <1>1, <1>2, <1>3, <1>4, Winding

\* Steps that change nothing the invariant speaks of.
LEMMA Elsewhere ==
    ASSUME IInv,
           UNCHANGED <<at, mu, session, launched, cancelled, poll, writer, cache, outlived, stored>>
    PROVE  IInv'
<1>1. Types'
  BY DEF IInv, Sessional, Types
<1>2. StoredAllowed'
  BY DEF IInv, StoredAllowed, Allowed
<1> QED BY <1>1, <1>2, Winding

-----------------------------------------------------------------------------

LEMMA CallerStep ==
    ASSUME IInv, NEW p \in Callers, SessionStep(p)
    PROVE  IInv'
<1>1. CASE StartSkipped(p)
  <2>1. /\ at[p] = "start" /\ at' = [at EXCEPT ![p] = AfterStart(p)]
        /\ AfterStart(p) \in Places /\ AfterStart(p) \notin {"launch", "clear"}
        /\ UNCHANGED <<mu, session, launched, cancelled, poll, writer, cache, outlived, stored>>
    BY <1>1 DEF StartSkipped, Goto, AfterStart, Places, sessionVars, history
  <2> QED BY <2>1, OutsideStep
<1>2. CASE StartReset(p)   BY <1>2, StartResetStep
<1>3. CASE StartLaunch(p)  BY <1>3, StartLaunchStep
<1>4. CASE StopCancel(p)   BY <1>4, StopCancelStep
<1>5. CASE StopClear(p)    BY <1>5, StopClearStep
<1> QED BY <1>1, <1>2, <1>3, <1>4, <1>5 DEF SessionStep

\* The scheduler has not been started as long as main has not.
Fresh == /\ at \in [Callers -> Places]
         /\ at["main"] \in {"check", "start", "launch", "spawn"} => at["sched"] = "off"

LEMMA FreshInv == Spec => []Fresh
<1>1. Init => Fresh
  BY DEF Init, Fresh, Callers, Places
<1>2. ASSUME Fresh, NEW p \in Callers, SessionStep(p) PROVE Fresh'
  <2>1. PICK place \in Places : at' = [at EXCEPT ![p] = place]
    BY <1>2 DEF SessionStep, StartSkipped, StartReset, StartLaunch, StopCancel, StopClear, Goto,
                AfterStart, AfterStop, Places
  <2>2. at[p] # "off" /\ (p = "main" => at[p] \in {"start", "launch"} \/ place \in {"clear", "cancel"})
    BY <1>2, <2>1 DEF SessionStep, StartSkipped, StartReset, StartLaunch, StopCancel, StopClear, Goto,
                      AfterStop, Fresh
  <2> QED BY <1>2, <2>1, <2>2 DEF Fresh, Callers
<1>3. ASSUME Fresh, Next, \A p \in Callers : ~SessionStep(p) PROVE Fresh'
  <2>1. CASE at' = at
    BY <1>3, <2>1 DEF Fresh
  <2>2. CASE at' # at
    <3>1. FirstCheck \/ Spawn \/ ReadLastOpen \/ SchedTick \/ SchedLeaves \/ Signal \/ Cancel \/ Exit
      BY <1>3, <2>2 DEF Next, Flip, WorkerTakes, PollTick, PollStep, PollFails, PollCaches, PollSends,
                        PollLeaves, MinuteTick, WriterLeaves, rest
    <3> QED BY <1>3, <3>1 DEF Fresh, FirstCheck, Spawn, ReadLastOpen, SchedTick, SchedLeaves, Signal,
                              Cancel, Exit, Goto, Callers, Places
  <2> QED BY <2>1, <2>2
<1>4. Fresh /\ UNCHANGED vars => Fresh'
  BY DEF Fresh, vars
<1>5. Fresh /\ [Next]_vars => Fresh'
  BY <1>2, <1>3, <1>4
<1> QED BY <1>1, <1>5, PTL DEF Spec

LEMMA MainStep ==
    ASSUME IInv, Fresh, FirstCheck \/ Spawn \/ Signal \/ Cancel \/ Exit
    PROVE  IInv'
<1>1. CASE FirstCheck
  <2>1. PICK place \in {"start", "spawn"} : at' = [at EXCEPT !["main"] = place]
    BY <1>1 DEF FirstCheck, Goto
  <2>2. /\ at["main"] = "check"
        /\ UNCHANGED <<mu, session, launched, cancelled, poll, writer, cache, outlived, stored>>
    BY <1>1 DEF FirstCheck, sessionVars, history
  <2> QED BY <2>1, <2>2, OutsideStep DEF Callers, Places
<1>2. CASE Spawn
  <2>1. /\ at["main"] = "spawn" /\ at' = [main |-> "serve", sched |-> "read"]
        /\ UNCHANGED <<mu, session, launched, cancelled, poll, writer, cache, outlived, stored>>
    BY <1>2 DEF Spawn, sessionVars, history
  <2>2. at' \in [Callers -> Places] /\ \A q \in Callers : at'[q] \notin {"launch", "clear"}
    BY <2>1 DEF Callers, Places
  <2>3. \A q \in Callers : at[q] \notin {"launch", "clear"}
    BY <2>1 DEF Fresh, Callers
  <2>4. Mutex' /\ Named'
    BY <2>1, <2>2, <2>3 DEF IInv, Sessional, Mutex, Named
  <2>5. Types'
    BY <2>1, <2>2, OutsideTypes DEF IInv, Sessional
  <2>6. AllNoted'
    BY <2>1, <2>2 DEF IInv, AllNoted, Noted
  <2>7. NotYet' /\ CacheAllowed' /\ StoredAllowed'
    BY <2>1 DEF IInv, NotYet, CacheAllowed, StoredAllowed, Allowed
  <2> QED BY <2>4, <2>5, <2>6, <2>7 DEF IInv, Sessional
<1>3. CASE Signal
  <2>1. /\ at["main"] = "serve" /\ at' = [at EXCEPT !["main"] = "stop"]
        /\ UNCHANGED <<mu, session, launched, cancelled, poll, writer, cache, outlived, stored>>
    BY <1>3 DEF Signal, Goto, sessionVars, history
  <2> QED BY <2>1, OutsideStep DEF Callers, Places
<1>4. CASE Cancel
  <2>1. /\ at["main"] = "cancel" /\ at' = [at EXCEPT !["main"] = "return"]
        /\ UNCHANGED <<mu, session, launched, cancelled, poll, writer, cache, outlived, stored>>
    BY <1>4 DEF Cancel, Goto, history
  <2> QED BY <2>1, OutsideStep DEF Callers, Places
<1>5. CASE Exit
  <2>1. /\ at["main"] = "return" /\ at' = [at EXCEPT !["main"] = "exited"]
        /\ UNCHANGED <<mu, session, launched, cancelled, poll, writer, cache, outlived, stored>>
    BY <1>5 DEF Exit, Goto, sessionVars, history
  <2> QED BY <2>1, OutsideStep DEF Callers, Places
<1> QED BY <1>1, <1>2, <1>3, <1>4, <1>5

LEMMA SchedStep ==
    ASSUME IInv, ReadLastOpen \/ SchedTick \/ SchedLeaves
    PROVE  IInv'
<1>1. PICK place \in {"tick", "start", "stop", "end"} : at' = [at EXCEPT !["sched"] = place]
  BY DEF ReadLastOpen, SchedTick, SchedLeaves, Goto
<1>2. /\ at["sched"] \in {"read", "tick"}
      /\ UNCHANGED <<mu, session, launched, cancelled, poll, writer, cache, outlived, stored>>
  BY DEF ReadLastOpen, SchedTick, SchedLeaves, sessionVars, history
<1> QED BY <1>1, <1>2, OutsideStep DEF Callers, Places

LEMMA SessionGoroutine ==
    ASSUME IInv, NEW s \in Sessions,
           \/ PollTick(s) \/ PollStep(s) \/ PollSends(s) \/ PollLeaves(s)
           \/ MinuteTick(s) \/ WriterLeaves(s)
    PROVE  IInv'
<1>1. CASE PollTick(s)
  BY <1>1, PollMoves DEF PollTick
<1>2. CASE PollFails(s)
  BY <1>2, PollMoves DEF PollFails
<1>3. CASE PollCaches(s)
  BY <1>3, PollCachesStep
<1>4. CASE PollSends(s)
  BY <1>4, PollMoves DEF PollSends
<1>5. CASE PollLeaves(s)
  BY <1>5, PollMoves DEF PollLeaves
<1>6. CASE MinuteTick(s)
  BY <1>6, MinuteTickStep
<1>7. CASE WriterLeaves(s)
  BY <1>7, WriterLeavesStep
<1> QED BY <1>1, <1>2, <1>3, <1>4, <1>5, <1>6, <1>7 DEF PollStep

LEMMA NextInv == IInv /\ Fresh /\ [Next]_vars => IInv'
<1> SUFFICES ASSUME IInv, Fresh, [Next]_vars PROVE IInv'
  OBVIOUS
<1>1. ASSUME NEW p \in Callers, SessionStep(p) PROVE IInv'
  BY <1>1, CallerStep
<1>2. CASE FirstCheck \/ Spawn \/ Signal \/ Cancel \/ Exit
  BY <1>2, MainStep
<1>3. CASE ReadLastOpen \/ SchedTick \/ SchedLeaves
  BY <1>3, SchedStep
<1>4. ASSUME NEW s \in Sessions,
             \/ PollTick(s) \/ PollStep(s) \/ PollSends(s) \/ PollLeaves(s)
             \/ MinuteTick(s) \/ WriterLeaves(s)
      PROVE  IInv'
  BY <1>4, SessionGoroutine
<1>5. CASE Flip \/ WorkerTakes
  <2>1. UNCHANGED <<at, mu, session, launched, cancelled, poll, writer, cache, outlived, stored>>
    BY <1>5 DEF Flip, WorkerTakes, rest, sessionVars, history
  <2> QED BY <2>1, Elsewhere
<1>6. CASE UNCHANGED vars
  <2>1. UNCHANGED <<at, mu, session, launched, cancelled, poll, writer, cache, outlived, stored>>
    BY <1>6 DEF vars, sessionVars, history
  <2> QED BY <2>1, Elsewhere
<1> QED BY <1>1, <1>2, <1>3, <1>4, <1>5, <1>6 DEF Next

LEMMA Invariance == Spec => []IInv
BY InitInv, NextInv, FreshInv, PTL DEF Spec

\* Outside startCollectors and stopCollectors the session variable names the one
\* session whose context is live, in every interleaving of main and the scheduler:
\* sessionMu, and the check of the variable under it, are enough.
THEOREM OneCollectorAlways == Spec => []OneCollector
<1>1. IInv => OneCollector
  <2> SUFFICES ASSUME IInv, mu = "free"
               PROVE  /\ \A s \in 1..launched : s \notin cancelled => s = session
                      /\ session # 0 => session \notin cancelled
    BY DEF OneCollector
  <2>1. \A p \in Callers : at[p] # "clear"
    BY DEF IInv, Sessional, Mutex, Callers
  <2> QED BY <2>1 DEF IInv, Sessional, Named
<1> QED BY <1>1, Invariance, PTL

\* The minute writer stores rows of its own session, unless a poll of an earlier one,
\* or the writer itself, had not ended when the cache was reset in between.
THEOREM RowsAlwaysOfSession == Spec => []RowsOfSession
<1>1. IInv => RowsOfSession
  BY DEF IInv, StoredAllowed, Allowed, RowsOfSession
<1> QED BY <1>1, Invariance, PTL

-----------------------------------------------------------------------------
(* Numbers and what is chosen of a sequence *)

\* Every nonempty set of natural numbers has a least one.
LEMMA LeastNumber ==
  ASSUME NEW T \in SUBSET Nat, T # {}
  PROVE  \E m \in T : \A k \in T : m <= k
<1> DEFINE F == {0..k : k \in T}
<1>1. F # {} /\ F \subseteq FiniteSubsetsOf(Nat)
  <2>1. \A k \in T : IsFiniteSet(0..k) /\ 0..k \in SUBSET Nat
    BY FS_Interval
  <2> QED BY <2>1 DEF FiniteSubsetsOf
<1>2. \E x \in F : \A y \in F : <<y, x>> \notin StrictSubsetOrdering(Nat)
  <2> HIDE DEF F
  <2> QED BY <1>1, FS_StrictSubsetOrderingWellFounded, WFMin
<1>3. PICK m \in T : \A k \in T : <<0..k, 0..m>> \notin StrictSubsetOrdering(Nat)
  BY <1>2
<1>4. ASSUME NEW k \in T, k < m PROVE FALSE
  <2>1. 0..k \subseteq 0..m /\ 0..k # 0..m /\ 0..k \in SUBSET Nat /\ 0..m \in SUBSET Nat
    BY <1>4
  <2> QED BY <1>3, <2>1 DEF StrictSubsetOrdering
<1> QED BY <1>4

\* Induction, about sets of natural numbers.
LEMMA Inductive ==
  ASSUME NEW T \in SUBSET Nat, 0 \in T, \A n \in T : n + 1 \in T
  PROVE  T = Nat
<1> SUFFICES ASSUME Nat \ T # {} PROVE FALSE
  OBVIOUS
<1>1. PICK m \in Nat \ T : \A k \in Nat \ T : m <= k
  BY LeastNumber
<1>2. m - 1 \in Nat /\ m - 1 \notin Nat \ T
  BY <1>1
<1> QED BY <1>1, <1>2

ChosenTo(c, s, indexes, n) ==
  c = [i \in 0..n |-> IF i = 0 THEN <<>>
                      ELSE IF i \in indexes THEN Append(c[i - 1], s[i]) ELSE c[i - 1]]

LEMMA ChosenToExists ==
  ASSUME NEW s, NEW indexes, NEW n \in Nat
  PROVE  \E c : ChosenTo(c, s, indexes, n)
<1> DEFINE T == {m \in Nat : \E c : ChosenTo(c, s, indexes, m)}
<1>1. 0 \in T
  <2>1. ChosenTo([i \in 0..0 |-> <<>>], s, indexes, 0)
    BY DEF ChosenTo
  <2> QED BY <2>1
<1>2. ASSUME NEW m \in T PROVE m + 1 \in T
  <2>1. PICK c : ChosenTo(c, s, indexes, m)
    BY <1>2
  <2> DEFINE next == IF m + 1 \in indexes THEN Append(c[m], s[m + 1]) ELSE c[m]
             d == [i \in 0..(m + 1) |-> IF i = m + 1 THEN next ELSE c[i]]
  <2>2. \A i \in 0..m : c[i] = IF i = 0 THEN <<>>
                               ELSE IF i \in indexes THEN Append(c[i - 1], s[i]) ELSE c[i - 1]
    BY <2>1 DEF ChosenTo
  <2>3. \A i \in 1..(m + 1) : d[i - 1] = c[i - 1]
    OBVIOUS
  <2>4. \A i \in 0..(m + 1) : d[i] = IF i = 0 THEN <<>>
                                     ELSE IF i \in indexes THEN Append(d[i - 1], s[i]) ELSE d[i - 1]
    <3> TAKE i \in 0..(m + 1)
    <3>1. CASE i = m + 1
      BY <2>3, <3>1
    <3>2. CASE i # m + 1
      <4>1. i \in 0..m /\ d[i] = c[i]
        BY <3>2
      <4> HIDE DEF d
      <4> QED BY <2>2, <2>3, <4>1
    <3> QED BY <3>1, <3>2
  <2>5. d = [i \in 0..(m + 1) |-> d[i]]
    OBVIOUS
  <2> HIDE DEF d
  <2>6. ChosenTo(d, s, indexes, m + 1)
    BY <2>4, <2>5 DEF ChosenTo
  <2> QED BY <2>6
<1> HIDE DEF T
<1>3. T = Nat
  BY <1>1, <1>2, Inductive DEF T
<1> QED BY <1>3 DEF T

\* The partial results of Chosen.
ChosenBy(c, s, indexes) ==
  /\ c[0] = <<>>
  /\ \A i \in 1..Len(s) : c[i] = IF i \in indexes THEN Append(c[i - 1], s[i]) ELSE c[i - 1]

LEMMA ChosenSteps ==
  ASSUME NEW S, NEW s \in Seq(S), NEW indexes
  PROVE  \E c : ChosenBy(c, s, indexes) /\ Chosen(s, indexes) = c[Len(s)]
<1> DEFINE n == Len(s)
           c == CHOOSE d : ChosenTo(d, s, indexes, n)
<1>1. n \in Nat
  OBVIOUS
<1>2. ChosenTo(c, s, indexes, n)
  BY <1>1, ChosenToExists
<1>3. Chosen(s, indexes) = c[n]
  BY DEF Chosen, ChosenTo
<1> HIDE DEF n, c
<1>4. \A i \in 0..n : c[i] = IF i = 0 THEN <<>>
                             ELSE IF i \in indexes THEN Append(c[i - 1], s[i]) ELSE c[i - 1]
  BY <1>2 DEF ChosenTo
<1>5. c[0] = <<>> /\ \A i \in 1..n : c[i] = IF i \in indexes THEN Append(c[i - 1], s[i]) ELSE c[i - 1]
  BY <1>1, <1>4
<1> QED BY <1>3, <1>5 DEF n, ChosenBy

\* The elements of r are those of s at some of the indexes up to n, in their order.
Picks(index, r, s, indexes, n) ==
  /\ \A j \in 1..Len(r) : index[j] \in 1..n /\ index[j] \in indexes /\ r[j] = s[index[j]]
  /\ \A j, k \in 1..Len(r) : j < k => index[j] < index[k]

LEMMA PicksNone ==
  ASSUME NEW s, NEW indexes
  PROVE  Picks([j \in {} |-> 0], <<>>, s, indexes, 0)
BY DEF Picks

LEMMA PicksSame ==
  ASSUME NEW s, NEW indexes, NEW index, NEW r, NEW n \in Nat, Picks(index, r, s, indexes, n)
  PROVE  Picks(index, r, s, indexes, n + 1)
<1>1. \A i \in 1..n : i \in 1..(n + 1)
  OBVIOUS
<1> QED BY <1>1 DEF Picks

LEMMA PicksNext ==
  ASSUME NEW S, NEW s, NEW indexes, NEW index, NEW r \in Seq(S), NEW n \in Nat,
         Picks(index, r, s, indexes, n), n + 1 \in indexes, s[n + 1] \in S
  PROVE  \E next : Picks(next, Append(r, s[n + 1]), s, indexes, n + 1)
<1> DEFINE m == Len(r)
           t == Append(r, s[n + 1])
           next == [j \in 1..(m + 1) |-> IF j = m + 1 THEN n + 1 ELSE index[j]]
<1>1. m \in Nat /\ Len(t) = m + 1 /\ t[m + 1] = s[n + 1] /\ \A j \in 1..m : t[j] = r[j]
  OBVIOUS
<1>2. next[m + 1] = n + 1 /\ \A j \in 1..m : next[j] = index[j]
  BY <1>1
<1> HIDE DEF t, next
<1>3. \A j \in 1..m : index[j] \in 1..n /\ index[j] \in indexes /\ r[j] = s[index[j]]
  BY DEF Picks
<1>4. \A j, k \in 1..m : j < k => index[j] < index[k]
  BY DEF Picks
<1> HIDE DEF m
<1>5. ASSUME NEW j \in 1..(m + 1)
      PROVE  next[j] \in 1..(n + 1) /\ next[j] \in indexes /\ t[j] = s[next[j]]
  <2>1. CASE j = m + 1
    BY <1>1, <1>2, <2>1
  <2>2. CASE j # m + 1
    <3>1. j \in 1..m
      BY <1>1, <2>2
    <3>2. index[j] \in 1..(n + 1)
      BY <1>3, <3>1
    <3> QED BY <1>1, <1>2, <1>3, <3>1, <3>2
  <2> QED BY <2>1, <2>2
<1>6. ASSUME NEW j \in 1..(m + 1), NEW k \in 1..(m + 1), j < k
      PROVE  next[j] < next[k]
  <2>1. j \in 1..m
    BY <1>1, <1>6
  <2>2. next[j] = index[j] /\ index[j] \in 1..n
    BY <1>2, <1>3, <2>1
  <2>3. CASE k = m + 1
    BY <1>2, <2>2, <2>3
  <2>4. CASE k # m + 1
    <3>1. k \in 1..m
      BY <1>1, <2>4
    <3> QED BY <1>2, <1>4, <1>6, <2>1, <2>2, <3>1
  <2> QED BY <2>3, <2>4
<1>7. Picks(next, t, s, indexes, n + 1)
  BY <1>1, <1>5, <1>6 DEF Picks
<1> QED BY <1>7 DEF t

\* What is chosen is a subsequence.
LEMMA ChosenAt ==
  ASSUME NEW S, NEW s \in Seq(S), NEW indexes
  PROVE  LET r == Chosen(s, indexes)
         IN  r \in Seq(S) /\ \E index : Picks(index, r, s, indexes, Len(s))
<1> DEFINE n == Len(s)
<1>0. PICK c : ChosenBy(c, s, indexes) /\ Chosen(s, indexes) = c[n]
  BY ChosenSteps
<1>1. /\ c[0] = <<>> /\ Chosen(s, indexes) = c[n]
      /\ \A i \in 1..n : c[i] = IF i \in indexes THEN Append(c[i - 1], s[i]) ELSE c[i - 1]
  BY <1>0 DEF ChosenBy
<1>2. n \in Nat /\ \A i \in 1..n : s[i] \in S
  OBVIOUS
<1> DEFINE Good(i) == c[i] \in Seq(S) /\ \E index : Picks(index, c[i], s, indexes, i)
           T == {i \in Nat : i <= n => Good(i)}
<1> HIDE DEF n
<1>3. 0 \in T
  <2>1. c[0] \in Seq(S)
    BY <1>1
  <2> QED BY <1>1, <2>1, PicksNone
<1>4. ASSUME NEW i \in T PROVE i + 1 \in T
  <2> SUFFICES ASSUME i + 1 <= n PROVE Good(i + 1)
    <3> HIDE DEF Good
    <3> QED BY <1>4
  <2>1. i \in Nat /\ i + 1 \in 1..n /\ i <= n
    BY <1>2, <1>4
  <2>2. Good(i)
    <3> HIDE DEF Good
    <3> QED BY <1>4, <2>1
  <2>3. c[i + 1] = IF i + 1 \in indexes THEN Append(c[i], s[i + 1]) ELSE c[i]
    BY <1>1, <2>1
  <2>4. PICK index : Picks(index, c[i], s, indexes, i)
    BY <2>2
  <2>5. CASE i + 1 \notin indexes
    BY <2>1, <2>2, <2>3, <2>4, <2>5, PicksSame
  <2>6. CASE i + 1 \in indexes
    <3>1. c[i] \in Seq(S) /\ s[i + 1] \in S /\ c[i + 1] = Append(c[i], s[i + 1])
      BY <1>2, <2>1, <2>2, <2>3, <2>6
    <3>2. \E next : Picks(next, Append(c[i], s[i + 1]), s, indexes, i + 1)
      BY <2>1, <2>4, <2>6, <3>1, PicksNext
    <3>3. c[i + 1] \in Seq(S)
      BY <3>1
    <3> QED BY <3>1, <3>2, <3>3
  <2> QED BY <2>5, <2>6
<1> HIDE DEF T
<1>5. T = Nat
  BY <1>3, <1>4, Inductive DEF T
<1>6. Good(n)
  <2> HIDE DEF Good
  <2> QED BY <1>2, <1>5 DEF T
<1> QED BY <1>1, <1>6 DEF n

\* A sequence that starts with another.
Begins(s, t) == Len(s) <= Len(t) /\ \A i \in 1..Len(s) : t[i] = s[i]

LEMMA BeginsTransitive ==
  ASSUME NEW s, NEW t, NEW u, Len(s) \in Nat, Len(t) \in Nat, Len(u) \in Nat, Begins(s, t), Begins(t, u)
  PROVE  Begins(s, u)
<1>1. Len(s) <= Len(u)
  BY DEF Begins
<1>2. ASSUME NEW i \in 1..Len(s) PROVE u[i] = s[i]
  <2>1. i \in 1..Len(t)
    BY DEF Begins
  <2> QED BY <2>1 DEF Begins
<1> QED BY <1>1, <1>2 DEF Begins

\* What is chosen of a longer sequence starts with what is chosen of its beginning; the
\* rest is chosen of what is longer.
LEMMA ChosenBegins ==
  ASSUME NEW S, NEW s \in Seq(S), NEW t \in Seq(S), NEW early, NEW late, Begins(s, t),
         \A i \in 1..Len(s) : i \in early <=> i \in late
  PROVE  LET a == Chosen(s, early)
             b == Chosen(t, late)
         IN  /\ Begins(a, b)
             /\ \A k \in 1..Len(b) : k > Len(a) => \E h \in 1..Len(t) : h > Len(s) /\ b[k] = t[h]
<1> DEFINE n == Len(s)
           m == Len(t)
<1>0. PICK c, d : /\ ChosenBy(c, s, early) /\ Chosen(s, early) = c[n]
                  /\ ChosenBy(d, t, late) /\ Chosen(t, late) = d[m]
  <2>1. \E c : ChosenBy(c, s, early) /\ Chosen(s, early) = c[n]
    BY ChosenSteps
  <2>2. \E d : ChosenBy(d, t, late) /\ Chosen(t, late) = d[m]
    BY ChosenSteps
  <2> QED BY <2>1, <2>2
<1>1. /\ c[0] = <<>> /\ Chosen(s, early) = c[n]
      /\ \A i \in 1..n : c[i] = IF i \in early THEN Append(c[i - 1], s[i]) ELSE c[i - 1]
  BY <1>0 DEF ChosenBy
<1>2. /\ d[0] = <<>> /\ Chosen(t, late) = d[m]
      /\ \A i \in 1..m : d[i] = IF i \in late THEN Append(d[i - 1], t[i]) ELSE d[i - 1]
  BY <1>0 DEF ChosenBy
<1>3. n \in Nat /\ m \in Nat /\ n <= m /\ \A i \in 1..n : t[i] = s[i] /\ s[i] \in S
  BY DEF Begins
<1>4. \A i \in 1..m : t[i] \in S
  OBVIOUS
<1> DEFINE Rest(i) == \A k \in 1..Len(d[i]) : k > Len(c[n]) => \E h \in 1..i : h > n /\ d[i][k] = t[h]
<1> DEFINE T == {i \in Nat : i <= m => /\ d[i] \in Seq(S)
                                       /\ i <= n => d[i] = c[i]
                                       /\ i >= n => Begins(c[n], d[i]) /\ Rest(i)}
<1> HIDE DEF n, m
<1>5. 0 \in T
  <2>1. d[0] = c[0] /\ d[0] \in Seq(S) /\ Begins(d[0], d[0])
    BY <1>1, <1>2 DEF Begins
  <2>2. n <= 0 => n = 0
    BY <1>3
  <2>3. Len(d[0]) = 0
    BY <1>2
  <2>4. Rest(0)
    BY <2>3
  <2> HIDE DEF Rest
  <2> QED BY <2>1, <2>2, <2>4
<1>6. ASSUME NEW i \in T PROVE i + 1 \in T
  <2> SUFFICES ASSUME i + 1 <= m
               PROVE  /\ d[i + 1] \in Seq(S)
                      /\ i + 1 <= n => d[i + 1] = c[i + 1]
                      /\ i + 1 >= n => Begins(c[n], d[i + 1]) /\ Rest(i + 1)
    BY <1>6
  <2>1. /\ i \in Nat /\ i + 1 \in 1..m /\ d[i] \in Seq(S)
        /\ i <= n => d[i] = c[i]
        /\ i >= n => Begins(c[n], d[i]) /\ Rest(i)
    <3> HIDE DEF Rest
    <3> QED BY <1>3, <1>6
  <2>2. d[i + 1] = IF i + 1 \in late THEN Append(d[i], t[i + 1]) ELSE d[i]
    BY <1>2, <2>1
  <2>3. d[i + 1] \in Seq(S) /\ Begins(d[i], d[i + 1])
    BY <1>4, <2>1, <2>2 DEF Begins
  <2>4. CASE i + 1 <= n
    <3>1. i + 1 \in 1..n /\ d[i] = c[i]
      BY <1>3, <2>1, <2>4
    <3>2. d[i + 1] = c[i + 1]
      BY <1>1, <1>3, <2>2, <3>1 DEF n
    <3>3. i + 1 >= n => n = i + 1
      BY <1>3, <2>1, <2>4
    <3>4. Begins(d[i + 1], d[i + 1])
      BY <2>3 DEF Begins
    <3>5. n = i + 1 => Rest(i + 1)
      BY <2>3, <3>2
    <3> HIDE DEF Rest
    <3> QED BY <2>3, <3>2, <3>3, <3>4, <3>5
  <2>5. CASE ~(i + 1 <= n)
    <3>1. Begins(c[n], d[i]) /\ i >= n /\ Rest(i)
      <4> HIDE DEF Rest
      <4> QED BY <1>3, <2>1, <2>5
    <3>2. Len(d[i]) \in Nat /\ Len(d[i + 1]) \in Nat
      BY <2>1, <2>3
    <3>3. c[n] \in Seq(S)
      BY <1>1, ChosenAt DEF n
    <3>4. Len(c[n]) \in Nat
      BY <3>3
    <3>5. Begins(c[n], d[i + 1])
      BY <2>3, <3>1, <3>2, <3>4 DEF Begins
    <3>6. ASSUME NEW k \in 1..Len(d[i + 1]), k > Len(c[n])
          PROVE  \E h \in 1..(i + 1) : h > n /\ d[i + 1][k] = t[h]
      <4>1. CASE k \in 1..Len(d[i])
        <5>1. PICK h \in 1..i : h > n /\ d[i][k] = t[h]
          BY <3>1, <3>6, <4>1
        <5>2. h \in 1..(i + 1) /\ d[i + 1][k] = d[i][k]
          BY <2>1, <2>3, <4>1 DEF Begins
        <5> QED BY <5>1, <5>2
      <4>2. CASE k \notin 1..Len(d[i])
        <5>1. d[i + 1] = Append(d[i], t[i + 1]) /\ k = Len(d[i]) + 1
          BY <2>1, <2>2, <3>2, <3>6, <4>2
        <5>2. d[i + 1][k] = t[i + 1]
          BY <2>1, <5>1
        <5>3. i + 1 \in 1..(i + 1) /\ i + 1 > n
          BY <1>3, <2>1, <3>1
        <5> QED BY <5>2, <5>3
      <4> QED BY <4>1, <4>2
    <3>7. Rest(i + 1)
      BY <3>6
    <3> HIDE DEF Rest
    <3> QED BY <2>3, <2>5, <3>5, <3>7
  <2> QED BY <2>4, <2>5
<1> HIDE DEF T
<1>7. T = Nat
  BY <1>5, <1>6, Inductive DEF T
<1>8. Begins(c[n], d[m]) /\ Rest(m)
  <2> HIDE DEF Rest
  <2> QED BY <1>3, <1>7 DEF T
<1> QED BY <1>1, <1>2, <1>8 DEF n, m

-----------------------------------------------------------------------------
(* The rows of a day *)

Stores == [ltp : Int, oi : Int, event : Int \cup {None}]
Days == Seq([DOMAIN Options -> Stores \cup {None}])
Rows == [time : Nat, strike : Int, type : {"CE", "PE"}, ltp : Int, oi : Int, oi_change : Int]

\* The order in which loadRows has the rows.
Before(a, b) ==
  \/ a.time < b.time
  \/ a.time = b.time /\ a.strike < b.strike
  \/ a.time = b.time /\ a.strike = b.strike /\ a.type = "CE" /\ b.type = "PE"

MinuteOf(i) == ((i - 1) \div Len(Options)) + 1
OptionOf(i) == ((i - 1) % Len(Options)) + 1

\* Of two numbers the larger has the larger quotient, or the same and the larger rest.
LEMMA DivisionOrder ==
  ASSUME NEW n \in Nat, n > 0, NEW a \in Nat, NEW b \in Nat, a < b
  PROVE  a \div n < b \div n \/ (a \div n = b \div n /\ a % n < b % n)
BY SMTT(60)

\* A quotient is bounded, and so is a rest.
LEMMA DivisionBound ==
  ASSUME NEW n \in Nat, n > 0, NEW a \in Nat, NEW m \in Nat, a < m * n
  PROVE  a \div n < m
BY SMTT(60)

LEMMA DivisionAbove ==
  ASSUME NEW n \in Nat, n > 0, NEW a \in Nat, NEW m \in Nat, a >= m * n
  PROVE  a \div n >= m
BY SMTT(60)

LEMMA DivisionType ==
  ASSUME NEW n \in Nat, n > 0, NEW a \in Nat
  PROVE  a \div n \in Nat /\ a % n \in 0..(n - 1)
<1>1. a \div n \in Int /\ a \div n >= 0
  BY SMTT(60)
<1>2. a % n \in 0..(n - 1)
  BY SMTT(60)
<1> QED BY <1>1, <1>2

LEMMA IndexOfRow ==
  ASSUME NEW m \in Nat, NEW i \in 1..(m * Len(Options))
  PROVE  MinuteOf(i) \in 1..m /\ OptionOf(i) \in 1..Len(Options) /\ Len(Options) \in Nat \ {0}
<1> DEFINE n == Len(Options)
           q == (i - 1) \div n
           r == (i - 1) % n
<1>1. n \in Nat
  BY BacktestAssumption
<1>2. n # 0
  <2> SUFFICES ASSUME n = 0 PROVE FALSE
    OBVIOUS
  <2>1. m * n = 0
    BY <1>1
  <2> QED BY <2>1
<1>3. i - 1 \in Nat /\ i - 1 < m * n
  <2>1. m * n \in Nat
    BY <1>1
  <2> HIDE DEF n
  <2> QED BY <2>1 DEF n
<1>4. q \in Nat /\ r \in 0..(n - 1)
  BY <1>1, <1>2, <1>3, DivisionType
<1>5. q < m
  BY <1>1, <1>2, <1>3, DivisionBound
<1>6. q + 1 \in 1..m /\ r + 1 \in 1..n
  <2> HIDE DEF q, r, n
  <2> QED BY <1>1, <1>4, <1>5
<1> QED BY <1>1, <1>2, <1>6 DEF MinuteOf, OptionOf

LEMMA IndexOrder ==
  ASSUME NEW m \in Nat, NEW i \in 1..(m * Len(Options)), NEW j \in 1..(m * Len(Options)), i < j
  PROVE  MinuteOf(i) < MinuteOf(j) \/ (MinuteOf(i) = MinuteOf(j) /\ OptionOf(i) < OptionOf(j))
<1> DEFINE n == Len(Options)
           q == (i - 1) \div n
           r == (i - 1) % n
           p == (j - 1) \div n
           s == (j - 1) % n
<1>1. n \in Nat \ {0}
  BY IndexOfRow
<1>2. m * n \in Nat
  BY <1>1
<1>3. i - 1 \in Nat /\ j - 1 \in Nat /\ i - 1 < j - 1
  <2> HIDE DEF n
  <2> QED BY <1>2 DEF n
<1>4. q \in Nat /\ r \in 0..(n - 1)
  BY <1>1, <1>3, DivisionType
<1>5. p \in Nat /\ s \in 0..(n - 1)
  BY <1>1, <1>3, DivisionType
<1>6. q < p \/ (q = p /\ r < s)
  BY <1>1, <1>3, DivisionOrder
<1>7. q + 1 < p + 1 \/ (q + 1 = p + 1 /\ r + 1 < s + 1)
  <2> HIDE DEF n, q, p, r, s
  <2> QED BY <1>1, <1>4, <1>5, <1>6
<1> QED BY <1>7 DEF MinuteOf, OptionOf

LEMMA RowType ==
  ASSUME NEW day \in Days, NEW t \in 1..Len(day), NEW o \in 1..Len(Options), Row(day, t, o) # None
  PROVE  /\ Row(day, t, o) \in Rows
         /\ Row(day, t, o).time = t /\ Row(day, t, o).strike = Options[o].strike
         /\ Row(day, t, o).type = Options[o].type
<1> DEFINE q == day[t][o]
<1>1. day[t] \in [DOMAIN Options -> Stores \cup {None}] /\ DOMAIN Options = 1..Len(Options)
  BY BacktestAssumption DEF Days
<1>2. q \in Stores /\ q # None
  BY <1>1 DEF Row
<1>3. q.ltp \in Int /\ q.oi \in Int /\ q.event \in Int \cup {None}
  BY <1>2 DEF Stores
<1>4. Change(q) \in Int
  BY <1>3 DEF Change
<1>5. Options[o] \in [strike : Int, type : {"CE", "PE"}]
  <2>1. Options \in Seq([strike : Int, type : {"CE", "PE"}])
    BY BacktestAssumption
  <2> QED BY <2>1, ElementOfSeq
<1>6. t \in Nat
  BY DEF Days
<1> QED BY <1>3, <1>4, <1>5, <1>6 DEF Row, Rows

LEMMA RowOrder ==
  ASSUME NEW day \in Days, NEW t \in 1..Len(day), NEW u \in 1..Len(day),
         NEW o \in 1..Len(Options), NEW v \in 1..Len(Options),
         Row(day, t, o) # None, Row(day, u, v) # None, t < u \/ (t = u /\ o < v)
  PROVE  Before(Row(day, t, o), Row(day, u, v))
<1>1. o < v => \/ Options[o].strike < Options[v].strike
               \/ Options[o].strike = Options[v].strike /\ Options[o].type = "CE" /\ Options[v].type = "PE"
  BY BacktestAssumption
<1>2. /\ Row(day, t, o).time = t /\ Row(day, t, o).strike = Options[o].strike
      /\ Row(day, t, o).type = Options[o].type
      /\ Row(day, u, v).time = u /\ Row(day, u, v).strike = Options[v].strike
      /\ Row(day, u, v).type = Options[v].type
  BY RowType
<1> HIDE DEF Row
<1> QED BY <1>1, <1>2 DEF Before

LEMMA StoredRows ==
  ASSUME NEW day \in Days
  PROVE  LET s == Stored(day)
         IN  /\ s \in Seq(Rows \cup {None}) /\ Len(s) = Len(day) * Len(Options)
             /\ \A i \in 1..Len(s) : s[i] # None => s[i] \in Rows /\ s[i].time = MinuteOf(i)
             /\ \A i, j \in 1..Len(s) : i < j /\ s[i] # None /\ s[j] # None => Before(s[i], s[j])
<1> DEFINE s == Stored(day)
           n == Len(day) * Len(Options)
<1>1. Len(day) \in Nat /\ Len(Options) \in Nat
  BY BacktestAssumption DEF Days
<1>2. n \in Nat
  BY <1>1
<1>3. s = [i \in 1..n |-> Row(day, MinuteOf(i), OptionOf(i))]
  BY DEF Stored, MinuteOf, OptionOf
<1> HIDE DEF s, n
<1>4. \A i \in 1..n : /\ s[i] = Row(day, MinuteOf(i), OptionOf(i))
                      /\ MinuteOf(i) \in 1..Len(day) /\ OptionOf(i) \in 1..Len(Options)
  BY <1>1, <1>3, IndexOfRow DEF n
<1>5. \A i \in 1..n : s[i] # None => s[i] \in Rows /\ s[i].time = MinuteOf(i)
  BY <1>4, RowType
<1>6. s \in Seq(Rows \cup {None}) /\ Len(s) = n
  BY <1>2, <1>3, <1>5
<1>7. \A i, j \in 1..n : i < j /\ s[i] # None /\ s[j] # None => Before(s[i], s[j])
  <2> SUFFICES ASSUME NEW i \in 1..n, NEW j \in 1..n, i < j, s[i] # None, s[j] # None
               PROVE  Before(s[i], s[j])
    OBVIOUS
  <2>1. MinuteOf(i) < MinuteOf(j) \/ (MinuteOf(i) = MinuteOf(j) /\ OptionOf(i) < OptionOf(j))
    BY <1>1, IndexOrder DEF n
  <2> QED BY <1>4, <2>1, RowOrder
<1> QED BY <1>5, <1>6, <1>7 DEF s, n

\* A day that goes on starts with the rows it had.
LEMMA StoredBegins ==
  ASSUME NEW day \in Days, NEW later \in Days, Begins(day, later)
  PROVE  Begins(Stored(day), Stored(later))
<1> DEFINE s == Stored(day)
           u == Stored(later)
           more == Len(later) - Len(day)
<1>1. /\ Len(day) \in Nat /\ Len(later) \in Nat /\ Len(Options) \in Nat /\ more \in Nat
      /\ Len(later) = Len(day) + more
      /\ \A t \in 1..Len(day) : later[t] = day[t]
  <2>1. Len(day) \in Nat /\ Len(later) \in Nat /\ Len(Options) \in Nat
    BY BacktestAssumption DEF Days
  <2> QED BY <2>1 DEF Begins
<1>2. Len(s) = Len(day) * Len(Options) /\ Len(u) = Len(later) * Len(Options)
  BY StoredRows
<1> HIDE DEF more
<1>3. /\ (Len(day) + more) * Len(Options) = Len(day) * Len(Options) + more * Len(Options)
      /\ Len(day) * Len(Options) \in Nat /\ more * Len(Options) \in Nat
  BY <1>1
<1>4. Len(s) <= Len(u) /\ Len(s) \in Nat /\ Len(u) \in Nat
  BY <1>1, <1>2, <1>3
<1>5. ASSUME NEW i \in 1..Len(s) PROVE u[i] = s[i]
  <2>1. MinuteOf(i) \in 1..Len(day) /\ OptionOf(i) \in 1..Len(Options)
    BY <1>1, <1>2, <1>5, IndexOfRow
  <2>2. i \in 1..Len(u)
    BY <1>4, <1>5
  <2>3. s[i] = Row(day, MinuteOf(i), OptionOf(i))
    BY <1>2 DEF Stored, MinuteOf, OptionOf
  <2>4. u[i] = Row(later, MinuteOf(i), OptionOf(i))
    BY <1>2, <2>2 DEF Stored, MinuteOf, OptionOf
  <2> HIDE DEF s, u
  <2> QED BY <1>1, <2>1, <2>3, <2>4 DEF Row
<1> QED BY <1>4, <1>5 DEF Begins


\* What loadRows returns.
LEMMA LoadedRows ==
  ASSUME NEW r, NEW day \in Days
  PROVE  LET rows == LoadRows(r, day)
         IN  /\ rows \in Seq(Rows)
             /\ \A i \in 1..Len(rows) : Selected(r, rows[i]) /\ rows[i].time \in 1..Len(day)
             /\ \A i, j \in 1..Len(rows) : i < j => Before(rows[i], rows[j])
<1> DEFINE s == Stored(day)
           chosen == {i \in DOMAIN s : Selected(r, s[i])}
           rows == LoadRows(r, day)
<1>1. rows = Chosen(s, chosen)
  BY DEF LoadRows
<1>2. /\ s \in Seq(Rows \cup {None}) /\ Len(s) = Len(day) * Len(Options)
      /\ \A i \in 1..Len(s) : s[i] # None => s[i] \in Rows /\ s[i].time = MinuteOf(i)
      /\ \A i, j \in 1..Len(s) : i < j /\ s[i] # None /\ s[j] # None => Before(s[i], s[j])
  BY StoredRows
<1>3. \A i \in chosen : s[i] # None /\ Selected(r, s[i])
  BY DEF Selected
<1> HIDE DEF s, rows, chosen
<1> DEFINE R == Rows \cup {None}
<1> HIDE DEF R
<1>3a. s \in Seq(R)
  BY <1>2 DEF R
<1>4. PICK index : /\ \A j \in 1..Len(rows) : index[j] \in 1..Len(s) /\ index[j] \in chosen /\ rows[j] = s[index[j]]
                   /\ \A j, k \in 1..Len(rows) : j < k => index[j] < index[k]
  <2>1. \E index : Picks(index, rows, s, chosen, Len(s))
    BY <1>1, <1>3a, ChosenAt
  <2> QED BY <2>1 DEF Picks
<1>5. rows \in Seq(Rows \cup {None})
  BY <1>1, <1>3a, ChosenAt DEF R
<1>6. \A i \in 1..Len(rows) : rows[i] \in Rows /\ Selected(r, rows[i])
  BY <1>2, <1>3, <1>4
<1>7. rows \in Seq(Rows)
  BY <1>5, <1>6
<1>8. ASSUME NEW i \in 1..Len(rows) PROVE rows[i].time \in 1..Len(day)
  <2>1. rows[i].time = MinuteOf(index[i]) /\ index[i] \in 1..Len(s)
    BY <1>2, <1>3, <1>4
  <2>2. Len(day) \in Nat
    BY DEF Days
  <2> QED BY <1>2, <2>1, <2>2, IndexOfRow
<1>9. \A i, j \in 1..Len(rows) : i < j => Before(rows[i], rows[j])
  BY <1>2, <1>3, <1>4
<1> QED BY <1>6, <1>7, <1>8, <1>9 DEF rows

\* Of a day that goes on, loadRows returns the rows it had, and then later ones.
LEMMA LoadedBegins ==
  ASSUME NEW r, NEW day \in Days, NEW later \in Days, Begins(day, later)
  PROVE  LET a == LoadRows(r, day)
             b == LoadRows(r, later)
         IN  /\ Begins(a, b)
             /\ \A k \in 1..Len(b) : k > Len(a) => b[k].time > Len(day)
<1> DEFINE s == Stored(day)
           u == Stored(later)
           early == {i \in DOMAIN s : Selected(r, s[i])}
           late == {i \in DOMAIN u : Selected(r, u[i])}
           a == LoadRows(r, day)
           b == LoadRows(r, later)
<1>1. a = Chosen(s, early) /\ b = Chosen(u, late)
  BY DEF LoadRows
<1>2. Begins(s, u) /\ Len(day) \in Nat /\ Len(Options) \in Nat
  <2>1. Len(Options) \in Nat
    BY BacktestAssumption
  <2>2. Len(day) \in Nat
    BY DEF Days
  <2> QED BY <2>1, <2>2, StoredBegins
<1>3. /\ s \in Seq(Rows \cup {None}) /\ Len(s) = Len(day) * Len(Options)
      /\ u \in Seq(Rows \cup {None}) /\ Len(u) = Len(later) * Len(Options)
      /\ \A i \in 1..Len(u) : u[i] # None => u[i].time = MinuteOf(i)
  BY <1>2, StoredRows
<1>4. \A k \in 1..Len(b) : b[k] \in Rows /\ Selected(r, b[k])
  BY <1>2, LoadedRows
<1> HIDE DEF s, u, a, b
<1>5. \A i \in 1..Len(s) : i \in early <=> i \in late
  BY <1>2, <1>3 DEF Begins
<1> HIDE DEF early, late
<1>6. /\ Begins(a, b)
      /\ \A k \in 1..Len(b) : k > Len(a) => \E h \in 1..Len(u) : h > Len(s) /\ b[k] = u[h]
  BY <1>1, <1>2, <1>3, <1>5, ChosenBegins
<1>7. ASSUME NEW k \in 1..Len(b), k > Len(a) PROVE b[k].time > Len(day)
  <2>1. PICK h \in 1..Len(u) : h > Len(s) /\ b[k] = u[h]
    BY <1>6, <1>7
  <2>2. b[k].time = MinuteOf(h)
    BY <1>3, <1>4, <2>1 DEF Selected
  <2>3. Len(later) \in Nat
    BY DEF Days
  <2>4. Len(Options) > 0
    BY <1>2, <1>3, <2>1, <2>3, IndexOfRow
  <2>5. h - 1 \in Nat /\ h - 1 >= Len(day) * Len(Options)
    <3>1. Len(s) \in Nat
      BY <1>3
    <3> QED BY <1>3, <2>1, <3>1
  <2>6. (h - 1) \div Len(Options) >= Len(day) /\ (h - 1) \div Len(Options) \in Nat
    BY <1>2, <2>4, <2>5, DivisionAbove, DivisionType
  <2> QED BY <1>2, <2>2, <2>6 DEF MinuteOf
<1> QED BY <1>6, <1>7 DEF a, b


-----------------------------------------------------------------------------
(* The quotes a request looks at *)

\* The quotes of a request: of its type and strike, and one at most of each time and strike,
\* in their order.
GoodQuotes(r, quotes) ==
  /\ \E S : quotes \in Seq(S)
  /\ \A i \in 1..Len(quotes) : quotes[i] # None =>
        /\ quotes[i].time \in Nat /\ quotes[i].strike \in Int /\ quotes[i].ltp \in Int
        /\ quotes[i].type = r.type
        /\ r.strike # None => quotes[i].strike = r.strike
  /\ \A i, j \in 1..Len(quotes) : i < j /\ quotes[i] # None /\ quotes[j] # None =>
        \/ quotes[i].time < quotes[j].time
        \/ quotes[i].time = quotes[j].time /\ quotes[i].strike < quotes[j].strike

LEMMA RowQuoteParts ==
  ASSUME NEW row
  PROVE  LET q == RowQuote(row)
         IN  q.time = row.time /\ q.strike = row.strike /\ q.type = row.type /\ q.ltp = row.ltp
BY DEF RowQuote

LEMMA TickQuoteParts ==
  ASSUME NEW ce, NEW pe, NEW type
  PROVE  LET traded == IF type = "PE" THEN pe ELSE ce
             q == TickQuote(ce, pe, type)
         IN  q.time = traded.time /\ q.strike = traded.strike /\ q.type = type /\ q.ltp = traded.ltp
<1> DEFINE traded == IF type = "PE" THEN pe ELSE ce
<1>1. PICK field : TickQuote(ce, pe, type) = [RowQuote(traded) EXCEPT !.type = type, !.field = field]
  BY DEF TickQuote
<1> HIDE DEF traded
<1> QED BY <1>1 DEF RowQuote, traded

\* A tick has the time and strike of the row it starts at.
LEMMA TickOfRow ==
  ASSUME NEW rows \in Seq(Rows), NEW type, NEW i \in 1..Len(rows), TickAt(rows, type, i) # None
  PROVE  LET q == TickAt(rows, type, i)
         IN  /\ q.time = rows[i].time /\ q.strike = rows[i].strike
             /\ q.type = type /\ q.ltp \in Int
             /\ \E k \in 1..Len(rows) : q.time = rows[k].time /\ q.strike = rows[k].strike
<1> DEFINE both == i < Len(rows) /\ ~Starts(rows, i + 1)
           ce == IF rows[i].type = "CE" THEN rows[i] ELSE None
           pe == IF rows[i].type = "PE" THEN rows[i] ELSE IF both THEN rows[i + 1] ELSE None
           traded == IF type = "PE" THEN pe ELSE ce
           q == TickAt(rows, type, i)
<1>1. traded # None /\ q = TickQuote(ce, pe, type)
  BY DEF TickAt
<1>2. q.time = traded.time /\ q.strike = traded.strike /\ q.type = type /\ q.ltp = traded.ltp
  <2> HIDE DEF ce, pe, q
  <2> QED BY <1>1, TickQuoteParts
<1>3. traded = rows[i] \/ (both /\ traded = rows[i + 1])
  BY <1>1
<1>4. both => i + 1 \in 1..Len(rows) /\ rows[i + 1].time = rows[i].time /\ rows[i + 1].strike = rows[i].strike
  BY DEF Starts
<1>5. traded \in Rows /\ traded.time = rows[i].time /\ traded.strike = rows[i].strike
  <2> HIDE DEF traded, both
  <2> QED BY <1>3, <1>4
<1> HIDE DEF traded, q
<1>6. q.ltp \in Int
  BY <1>2, <1>5 DEF Rows
<1> QED BY <1>2, <1>5, <1>6 DEF q

\* Ticks that start at different rows have different times or strikes.
LEMMA StartsDiffer ==
  ASSUME NEW rows \in Seq(Rows), NEW i \in 1..Len(rows), NEW j \in 1..Len(rows), i < j, Starts(rows, j),
         \A k, l \in 1..Len(rows) : k < l => Before(rows[k], rows[l])
  PROVE  \/ rows[i].time < rows[j].time
         \/ rows[i].time = rows[j].time /\ rows[i].strike < rows[j].strike
<1>1. Before(rows[i], rows[j])
  OBVIOUS
<1> SUFFICES ASSUME rows[i].time = rows[j].time, rows[i].strike = rows[j].strike, rows[i].type = "CE"
             PROVE  FALSE
  BY <1>1 DEF Before
<1>2. i # j - 1
  BY DEF Starts
<1>3. i + 1 \in 1..Len(rows) /\ i < i + 1 /\ i + 1 < j
  BY <1>2
<1>4. Before(rows[i], rows[i + 1]) /\ Before(rows[i + 1], rows[j])
  BY <1>3
<1>5. rows[i] \in Rows /\ rows[j] \in Rows /\ rows[i + 1] \in Rows
  BY <1>3
<1>6. /\ rows[i].time \in Int /\ rows[j].time \in Int /\ rows[i + 1].time \in Int
      /\ rows[i].strike \in Int /\ rows[j].strike \in Int /\ rows[i + 1].strike \in Int
  <2>1. \A row \in Rows : row.time \in Int /\ row.strike \in Int
    BY DEF Rows
  <2> QED BY <1>5, <2>1
<1>7. rows[i + 1].time = rows[i].time
  BY <1>4, <1>6 DEF Before
<1>8. rows[i + 1].strike = rows[i].strike
  BY <1>4, <1>6, <1>7 DEF Before
<1>9. rows[i + 1].type = "PE" /\ rows[i + 1].type = "CE"
  BY <1>4, <1>6, <1>7, <1>8 DEF Before
<1> QED BY <1>9

LEMMA QuotesAreGood ==
  ASSUME NEW r, NEW day \in Days
  PROVE  GoodQuotes(r, QuotesOf(r, day))
<1> DEFINE rows == LoadRows(r, day)
           L == QuotesOf(r, day)
<1>1. /\ rows \in Seq(Rows)
      /\ \A i \in 1..Len(rows) : Selected(r, rows[i])
      /\ \A i, j \in 1..Len(rows) : i < j => Before(rows[i], rows[j])
  BY LoadedRows
<1>2. \A i \in 1..Len(rows) : /\ rows[i] \in Rows
                              /\ r.strike # None => rows[i].strike = r.strike
                              /\ ~UsesCrossLegFields(r) => rows[i].type = r.type
  BY <1>1 DEF Selected
<1>3. CASE ~UsesCrossLegFields(r)
  <2>1. L = [i \in 1..Len(rows) |-> RowQuote(rows[i])]
    <3>1. L = [i \in DOMAIN rows |-> RowQuote(rows[i])]
      BY <1>3 DEF QuotesOf
    <3> HIDE DEF L, rows
    <3> QED BY <1>1, <3>1
  <2> HIDE DEF L, rows
  <2>2. Len(rows) \in Nat
    BY <1>1
  <2>3. L \in Seq({RowQuote(row) : row \in Rows}) /\ Len(L) = Len(rows)
    BY <1>2, <2>1, <2>2
  <2>4. \A i \in 1..Len(L) : /\ L[i].time = rows[i].time /\ L[i].strike = rows[i].strike
                             /\ L[i].type = rows[i].type /\ L[i].ltp = rows[i].ltp
    BY <2>1, <2>3, RowQuoteParts
  <2>5. \A i \in 1..Len(L) : L[i].time \in Nat /\ L[i].strike \in Int /\ L[i].ltp \in Int
    BY <1>2, <2>3, <2>4 DEF Rows
  <2>6. ASSUME NEW i \in 1..Len(L), NEW j \in 1..Len(L), i < j
        PROVE  \/ L[i].time < L[j].time
               \/ L[i].time = L[j].time /\ L[i].strike < L[j].strike
    <3>1. Before(rows[i], rows[j]) /\ rows[i].type = rows[j].type
      BY <1>1, <1>2, <1>3, <2>3, <2>6
    <3> QED BY <2>4, <3>1 DEF Before
  <2>7. \E S : L \in Seq(S)
    BY <2>3
  <2>8. \A i \in 1..Len(L) : L[i].type = r.type /\ (r.strike # None => L[i].strike = r.strike)
    BY <1>2, <1>3, <2>3, <2>4
  <2> QED BY <2>5, <2>6, <2>7, <2>8 DEF GoodQuotes, L
<1>4. CASE UsesCrossLegFields(r)
  <2> DEFINE ticks == [i \in DOMAIN rows |-> TickAt(rows, r.type, i)]
             starts == {i \in DOMAIN rows : Starts(rows, i)}
             S == {TickAt(rows, r.type, i) : i \in DOMAIN rows}
  <2>1. L = Chosen(ticks, starts)
    BY <1>4 DEF QuotesOf, BuildTicks
  <2> HIDE DEF L, rows
  <2>2. DOMAIN rows = 1..Len(rows) /\ Len(rows) \in Nat
    BY <1>1
  <2>3. ticks \in Seq(S) /\ Len(ticks) = Len(rows) /\ \A i \in 1..Len(rows) : ticks[i] = TickAt(rows, r.type, i)
    BY <2>2
  <2>4. \A i \in starts : Starts(rows, i)
    OBVIOUS
  <2> HIDE DEF ticks, starts, S
  <2>4a. ticks \in Seq(S)
    BY <2>3
  <2>5. PICK index : /\ \A j \in 1..Len(L) : index[j] \in 1..Len(ticks) /\ index[j] \in starts /\ L[j] = ticks[index[j]]
                     /\ \A j, k \in 1..Len(L) : j < k => index[j] < index[k]
    <3>1. \E index : Picks(index, L, ticks, starts, Len(ticks))
      BY <2>1, <2>4a, ChosenAt
    <3> QED BY <3>1 DEF Picks
  <2>6. \E U : L \in Seq(U)
    <3>1. L \in Seq(S)
      BY <2>1, <2>3, ChosenAt
    <3> QED BY <3>1
  <2>7. ASSUME NEW i \in 1..Len(L), L[i] # None
        PROVE  /\ L[i].time = rows[index[i]].time /\ L[i].strike = rows[index[i]].strike
               /\ L[i].type = r.type /\ L[i].ltp \in Int
               /\ index[i] \in 1..Len(rows) /\ Starts(rows, index[i])
    <3>1. index[i] \in 1..Len(rows) /\ index[i] \in starts /\ L[i] = TickAt(rows, r.type, index[i])
      BY <2>3, <2>5
    <3> QED BY <1>1, <2>4, <2>7, <3>1, TickOfRow
  <2>8. ASSUME NEW i \in 1..Len(L), L[i] # None
        PROVE  /\ L[i].time \in Nat /\ L[i].strike \in Int
               /\ r.strike # None => L[i].strike = r.strike
    BY <1>2, <2>7, <2>8 DEF Rows
  <2>9. ASSUME NEW i \in 1..Len(L), NEW j \in 1..Len(L), i < j, L[i] # None, L[j] # None
        PROVE  \/ L[i].time < L[j].time
               \/ L[i].time = L[j].time /\ L[i].strike < L[j].strike
    <3>1. /\ index[i] \in 1..Len(rows) /\ index[j] \in 1..Len(rows) /\ index[i] < index[j] /\ Starts(rows, index[j])
          /\ L[i].time = rows[index[i]].time /\ L[i].strike = rows[index[i]].strike
          /\ L[j].time = rows[index[j]].time /\ L[j].strike = rows[index[j]].strike
      BY <2>5, <2>7, <2>9
    <3>2. \/ rows[index[i]].time < rows[index[j]].time
          \/ rows[index[i]].time = rows[index[j]].time /\ rows[index[i]].strike < rows[index[j]].strike
      BY <1>1, <3>1, StartsDiffer
    <3> QED BY <3>1, <3>2
  <2> QED BY <2>6, <2>7, <2>8, <2>9 DEF GoodQuotes, L
<1> QED BY <1>3, <1>4


\* The quotes of a day that goes on start with those it had: a later minute adds no row to
\* the last tick.
LEMMA QuotesBegin ==
  ASSUME NEW r, NEW day \in Days, NEW later \in Days, Begins(day, later)
  PROVE  LET A == QuotesOf(r, day)
             B == QuotesOf(r, later)
         IN  /\ Begins(A, B)
             /\ \A k \in 1..Len(B) : k > Len(A) /\ B[k] # None => B[k].time > Len(day)
<1> DEFINE a == LoadRows(r, day)
           b == LoadRows(r, later)
<1>1. /\ Begins(a, b)
      /\ \A k \in 1..Len(b) : k > Len(a) => b[k].time > Len(day)
  BY LoadedBegins
<1>3. a \in Seq(Rows) /\ b \in Seq(Rows) /\ \A i \in 1..Len(a) : a[i].time \in 1..Len(day)
  BY LoadedRows
<1> HIDE DEF a, b
<1>4. /\ DOMAIN a = 1..Len(a) /\ DOMAIN b = 1..Len(b) /\ Len(a) \in Nat /\ Len(b) \in Nat /\ Len(a) <= Len(b)
      /\ \A i \in 1..Len(a) : i \in 1..Len(b) /\ b[i] = a[i]
  BY <1>1, <1>3 DEF Begins
<1>5. CASE ~UsesCrossLegFields(r)
  <2> DEFINE A == [i \in 1..Len(a) |-> RowQuote(a[i])]
             B == [i \in 1..Len(b) |-> RowQuote(b[i])]
  <2>1. QuotesOf(r, day) = A /\ QuotesOf(r, later) = B
    BY <1>4, <1>5 DEF QuotesOf, a, b
  <2>2. Len(A) = Len(a) /\ Len(B) = Len(b)
    BY <1>4
  <2>3. \A i \in 1..Len(a) : B[i] = A[i]
    BY <1>4
  <2>4. ASSUME NEW k \in 1..Len(b), k > Len(a) PROVE B[k].time > Len(day)
    BY <1>1, <2>4, RowQuoteParts
  <2> HIDE DEF A, B
  <2> QED BY <1>4, <2>1, <2>2, <2>3, <2>4 DEF Begins
<1>6. CASE UsesCrossLegFields(r)
  <2> DEFINE A == [i \in DOMAIN a |-> TickAt(a, r.type, i)]
             B == [i \in DOMAIN b |-> TickAt(b, r.type, i)]
             early == {i \in DOMAIN a : Starts(a, i)}
             late == {i \in DOMAIN b : Starts(b, i)}
             S == {TickAt(a, r.type, i) : i \in DOMAIN a} \cup {TickAt(b, r.type, i) : i \in DOMAIN b}
  <2>1. QuotesOf(r, day) = Chosen(A, early) /\ QuotesOf(r, later) = Chosen(B, late)
    BY <1>6 DEF QuotesOf, BuildTicks, a, b
  <2>2. /\ A \in Seq(S) /\ Len(A) = Len(a) /\ \A i \in 1..Len(a) : A[i] = TickAt(a, r.type, i)
        /\ B \in Seq(S) /\ Len(B) = Len(b) /\ \A i \in 1..Len(b) : B[i] = TickAt(b, r.type, i)
    BY <1>4
  <2>3. ASSUME NEW i \in 1..Len(a) PROVE i - 1 \in 1..Len(a) \/ i = 1
    OBVIOUS
  <2>4. \A i \in 1..Len(a) : Starts(a, i) <=> Starts(b, i)
    BY <1>4, <2>3 DEF Starts
  <2>5. ASSUME NEW i \in 1..Len(a)
        PROVE  (i < Len(a) /\ ~Starts(a, i + 1)) <=> (i < Len(b) /\ ~Starts(b, i + 1))
    <3>1. CASE i < Len(a)
      <4>1. i + 1 \in 1..Len(a) /\ i < Len(b)
        BY <1>4, <3>1
      <4> QED BY <2>4, <3>1, <4>1
    <3>2. CASE i = Len(a) /\ i < Len(b)
      <4>1. i + 1 \in 1..Len(b) /\ i + 1 > Len(a)
        BY <1>4, <3>2
      <4>2. b[i + 1].time > Len(day) /\ b[i].time \in 1..Len(day) /\ Len(day) \in Nat
        <5>1. Len(day) \in Nat
          BY DEF Days
        <5> QED BY <1>1, <1>3, <1>4, <4>1, <5>1
      <4>3. b[(i + 1) - 1].time # b[i + 1].time
        <5>1. (i + 1) - 1 = i
          OBVIOUS
        <5> QED BY <4>2, <5>1
      <4>4. Starts(b, i + 1)
        BY <4>3 DEF Starts
      <4> QED BY <3>2, <4>4
    <3>3. CASE i = Len(a) /\ ~(i < Len(b))
      BY <3>3
    <3>4. i < Len(a) \/ i = Len(a)
      <4>1. Len(a) \in Nat
        BY <1>4
      <4> QED BY <4>1
    <3> QED BY <3>1, <3>2, <3>3, <3>4
  <2>6. ASSUME NEW i \in 1..Len(a) PROVE TickAt(a, r.type, i) = TickAt(b, r.type, i)
    <3> DEFINE bothA == i < Len(a) /\ ~Starts(a, i + 1)
               bothB == i < Len(b) /\ ~Starts(b, i + 1)
               peA == IF a[i].type = "PE" THEN a[i] ELSE IF bothA THEN a[i + 1] ELSE None
               peB == IF b[i].type = "PE" THEN b[i] ELSE IF bothB THEN b[i + 1] ELSE None
    <3>1. a[i] = b[i] /\ (bothA <=> bothB) /\ (bothA => a[i + 1] = b[i + 1])
      <4>1. bothA => i + 1 \in 1..Len(a)
        BY <1>4
      <4> QED BY <1>4, <2>5, <4>1
    <3>2. peA = peB
      <4> HIDE DEF bothA, bothB
      <4> QED BY <3>1
    <3> HIDE DEF peA, peB
    <3>3. TickAt(a, r.type, i) =
            IF (IF r.type = "PE" THEN peA ELSE IF a[i].type = "CE" THEN a[i] ELSE None) = None THEN None
            ELSE TickQuote(IF a[i].type = "CE" THEN a[i] ELSE None, peA, r.type)
      BY DEF TickAt, peA
    <3>4. TickAt(b, r.type, i) =
            IF (IF r.type = "PE" THEN peB ELSE IF b[i].type = "CE" THEN b[i] ELSE None) = None THEN None
            ELSE TickQuote(IF b[i].type = "CE" THEN b[i] ELSE None, peB, r.type)
      BY DEF TickAt, peB
    <3> QED BY <3>1, <3>2, <3>3, <3>4
  <2>7. \A i \in 1..Len(A) : i \in early <=> i \in late
    BY <1>4, <2>2, <2>4
  <2> HIDE DEF A, B, early, late, S
  <2>8. Begins(A, B)
    BY <1>4, <2>2, <2>6 DEF Begins
  <2>9. A \in Seq(S) /\ B \in Seq(S)
    BY <2>2
  <2>10. LET C == Chosen(A, early)
             D == Chosen(B, late)
         IN  /\ Begins(C, D)
             /\ \A k \in 1..Len(D) : k > Len(C) => \E h \in 1..Len(B) : h > Len(A) /\ D[k] = B[h]
    BY <2>7, <2>8, <2>9, ChosenBegins
  <2>11. ASSUME NEW h \in 1..Len(B), h > Len(A), B[h] # None PROVE B[h].time > Len(day)
    <3>1. B[h] = TickAt(b, r.type, h) /\ h \in 1..Len(b) /\ h > Len(a)
      BY <2>2, <2>11
    <3>2. B[h].time = b[h].time
      BY <1>3, <2>11, <3>1, TickOfRow
    <3> QED BY <1>1, <3>1, <3>2
  <2> QED BY <2>1, <2>10, <2>11
<1> QED BY <1>5, <1>6

-----------------------------------------------------------------------------
(* The steps of the fold *)

FoldTo(f, r, quotes, n) ==
  f = [i \in 0..n |-> IF i = 0 THEN Flat ELSE Advance(r, f[i - 1], quotes[i])]

LEMMA FoldToExists ==
  ASSUME NEW r, NEW quotes, NEW n \in Nat
  PROVE  \E f : FoldTo(f, r, quotes, n)
<1> DEFINE T == {m \in Nat : \E f : FoldTo(f, r, quotes, m)}
<1>1. 0 \in T
  <2>1. FoldTo([i \in 0..0 |-> Flat], r, quotes, 0)
    BY DEF FoldTo
  <2> QED BY <2>1
<1>2. ASSUME NEW m \in T PROVE m + 1 \in T
  <2>1. PICK f : FoldTo(f, r, quotes, m)
    BY <1>2
  <2> DEFINE g == [i \in 0..(m + 1) |-> IF i = m + 1 THEN Advance(r, f[m], quotes[m + 1]) ELSE f[i]]
  <2>2. \A i \in 0..m : f[i] = IF i = 0 THEN Flat ELSE Advance(r, f[i - 1], quotes[i])
    BY <2>1 DEF FoldTo
  <2>3. \A i \in 1..(m + 1) : g[i - 1] = f[i - 1]
    OBVIOUS
  <2>4. ASSUME NEW i \in 0..(m + 1)
        PROVE  g[i] = IF i = 0 THEN Flat ELSE Advance(r, g[i - 1], quotes[i])
    <3>1. CASE i = m + 1
      BY <2>3, <3>1
    <3>2. CASE i # m + 1
      <4>1. i \in 0..m /\ g[i] = f[i]
        BY <3>2
      <4> HIDE DEF g
      <4> QED BY <2>2, <2>3, <4>1
    <3> QED BY <3>1, <3>2
  <2>5. g = [i \in 0..(m + 1) |-> g[i]]
    OBVIOUS
  <2> HIDE DEF g
  <2>6. FoldTo(g, r, quotes, m + 1)
    BY <2>4, <2>5 DEF FoldTo
  <2> QED BY <2>6
<1> HIDE DEF T
<1>3. T = Nat
  BY <1>1, <1>2, Inductive DEF T
<1> QED BY <1>3 DEF T

\* The states simulate goes through.
Steps(f, r, quotes) ==
  /\ f[0] = Flat
  /\ \A i \in 1..Len(quotes) : f[i] = Advance(r, f[i - 1], quotes[i])

LEMMA SimulateSteps ==
  ASSUME NEW r, NEW quotes, Len(quotes) \in Nat
  PROVE  \E f : Steps(f, r, quotes) /\ Simulate(r, quotes) = Finish(r, f[Len(quotes)], quotes)
<1> DEFINE n == Len(quotes)
           f == CHOOSE g : FoldTo(g, r, quotes, n)
<1>1. FoldTo(f, r, quotes, n)
  BY FoldToExists
<1>2. Simulate(r, quotes) = Finish(r, f[n], quotes)
  BY DEF Simulate, FoldTo
<1> HIDE DEF n, f
<1>3. n \in Nat
  BY DEF n
<1>4. \A i \in 0..n : f[i] = IF i = 0 THEN Flat ELSE Advance(r, f[i - 1], quotes[i])
  BY <1>1 DEF FoldTo
<1>5. f[0] = Flat /\ \A i \in 1..n : f[i] = Advance(r, f[i - 1], quotes[i])
  BY <1>3, <1>4
<1> QED BY <1>2, <1>5 DEF n, Steps

\* A state of the fold, seen as its four parts.
Parts(s) == /\ s = [open |-> s.open, reds |-> s.reds, previous |-> s.previous, closed |-> s.closed]
            /\ \E S : s.closed \in Seq(S)

LEMMA FlatParts ==
  Parts(Flat) /\ Flat.open = None /\ Flat.closed = <<>>
<1>1. Flat.closed \in Seq({})
  BY DEF Flat
<1> QED BY <1>1 DEF Flat, Parts

\* What a turn of the loop does to the state, and when.
Stays(r, s, q) ==
  \/ q = None
  \/ s.open = None /\ ~MatchesRule(r.entry, q)
  \/ s.open # None /\ ~Follows(r, s.open, q)
Opens(r, s, q) == q # None /\ s.open = None /\ MatchesRule(r.entry, q)
Prices(r, s, q) == q # None /\ s.open # None /\ Follows(r, s.open, q)
Reason(r, s, q) == ExitReason(r, s.open, q, Reds(r, s, q))

\* The position opened at a quote.
Position(q) == [entryTime |-> q.time, strike |-> q.strike, type |-> q.type, entryPrice |-> q.ltp]

LEMMA AdvanceStays ==
  ASSUME NEW r, NEW s, NEW q, Stays(r, s, q)
  PROVE  Advance(r, s, q) = s
BY DEF Stays, Advance

LEMMA AdvanceOpens ==
  ASSUME NEW r, NEW s, NEW q, Parts(s), Opens(r, s, q)
  PROVE  LET t == Advance(r, s, q)
         IN  /\ t.open = Position(q)
             /\ t.reds = 0 /\ t.previous = q.ltp /\ t.closed = s.closed
             /\ Parts(t)
<1> DEFINE t == Advance(r, s, q)
<1>1. t = Opened(s, q)
  BY DEF Opens, Advance
<1> HIDE DEF t
<1>2. /\ t.open = Position(q)
      /\ t.reds = 0 /\ t.previous = q.ltp /\ t.closed = s.closed
      /\ Parts(t)
  BY <1>1 DEF Opened, Parts, Position
<1> QED BY <1>2 DEF t

LEMMA AdvanceHolds ==
  ASSUME NEW r, NEW s, NEW q, Parts(s), Prices(r, s, q), Reason(r, s, q) = "none"
  PROVE  LET t == Advance(r, s, q)
         IN  /\ t.open = s.open /\ t.reds = Reds(r, s, q) /\ t.previous = q.ltp /\ t.closed = s.closed
             /\ Parts(t)
<1> DEFINE t == Advance(r, s, q)
           reds == Reds(r, s, q)
<1>1. t = [s EXCEPT !.reds = reds, !.previous = q.ltp]
  BY DEF Prices, Advance, Reason
<1> HIDE DEF t, reds
<1>2. /\ t.open = s.open /\ t.reds = reds /\ t.previous = q.ltp /\ t.closed = s.closed
      /\ Parts(t)
  BY <1>1 DEF Parts
<1> QED BY <1>2 DEF t, reds

LEMMA AdvanceLeaves ==
  ASSUME NEW r, NEW s, NEW q, Parts(s), Prices(r, s, q), Reason(r, s, q) # "none"
  PROVE  LET t == Advance(r, s, q)
         IN  /\ t.open = None
             /\ t.closed = Append(s.closed, ClosedTrade(r, s.open, q, Reason(r, s, q)))
             /\ Parts(t)
<1> DEFINE t == Advance(r, s, q)
           trade == ClosedTrade(r, s.open, q, Reason(r, s, q))
<1>1. t = [Flat EXCEPT !.closed = Append(s.closed, trade)]
  BY DEF Prices, Advance, Reason
<1> HIDE DEF t, trade
<1>2. t.open = None /\ t.closed = Append(s.closed, trade)
      /\ t = [open |-> t.open, reds |-> t.reds, previous |-> t.previous, closed |-> t.closed]
  BY <1>1 DEF Flat
<1>3. PICK S : s.closed \in Seq(S)
  BY DEF Parts
<1>4. s.closed \in Seq(S \cup {trade})
  BY <1>3
<1>5. Append(s.closed, trade) \in Seq(S \cup {trade})
  BY <1>4
<1>6. Parts(t)
  BY <1>2, <1>5 DEF Parts
<1> QED BY <1>2, <1>6 DEF t, trade

LEMMA AdvanceCases ==
  ASSUME NEW r, NEW s, NEW q
  PROVE  \/ Stays(r, s, q) \/ Opens(r, s, q)
         \/ Prices(r, s, q) /\ Reason(r, s, q) = "none"
         \/ Prices(r, s, q) /\ Reason(r, s, q) # "none"
BY DEF Stays, Opens, Prices

\* Its parts stay, and it only adds to what is closed.
LEMMA AdvanceCloses ==
  ASSUME NEW r, NEW s, NEW q, Parts(s)
  PROVE  /\ Parts(Advance(r, s, q))
         /\ \/ Advance(r, s, q).closed = s.closed
            \/ \E trade : Advance(r, s, q).closed = Append(s.closed, trade)
<1>1. CASE Stays(r, s, q)
  BY <1>1, AdvanceStays
<1>2. CASE Opens(r, s, q)
  BY <1>2, AdvanceOpens
<1>3. CASE Prices(r, s, q) /\ Reason(r, s, q) = "none"
  BY <1>3, AdvanceHolds
<1>4. CASE Prices(r, s, q) /\ Reason(r, s, q) # "none"
  BY <1>4, AdvanceLeaves
<1> QED BY <1>1, <1>2, <1>3, <1>4, AdvanceCases

LEMMA StepsParts ==
  ASSUME NEW r, NEW quotes, NEW f, Steps(f, r, quotes), Len(quotes) \in Nat
  PROVE  \A i \in 0..Len(quotes) : Parts(f[i])
<1> DEFINE n == Len(quotes)
           T == {i \in Nat : i <= n => Parts(f[i])}
<1>1. 0 \in T
  BY FlatParts DEF Steps
<1>2. ASSUME NEW i \in T PROVE i + 1 \in T
  <2> SUFFICES ASSUME i + 1 <= n PROVE Parts(f[i + 1])
    OBVIOUS
  <2>1. i \in Nat /\ Parts(f[i]) /\ i + 1 \in 1..n
    BY <1>2
  <2>2. f[i + 1] = Advance(r, f[i], quotes[i + 1])
    BY <2>1 DEF Steps
  <2> QED BY <2>1, <2>2, AdvanceCloses
<1> HIDE DEF T
<1>3. T = Nat
  BY <1>1, <1>2, Inductive DEF T
<1> QED BY <1>3 DEF T

\* A turn of the loop only adds to what is closed.
LEMMA AdvanceBegins ==
  ASSUME NEW r, NEW s, NEW q, Parts(s)
  PROVE  Begins(s.closed, Advance(r, s, q).closed)
<1> DEFINE t == Advance(r, s, q)
<1>1. PICK S : s.closed \in Seq(S)
  BY DEF Parts
<1>2. Len(s.closed) \in Nat
  BY <1>1
<1>3. t.closed = s.closed \/ \E trade : t.closed = Append(s.closed, trade)
  BY AdvanceCloses
<1> HIDE DEF t
<1>4. CASE t.closed = s.closed
  BY <1>2, <1>4 DEF Begins, t
<1>5. ASSUME NEW trade, t.closed = Append(s.closed, trade)
      PROVE  Begins(s.closed, t.closed)
  <2>1. s.closed \in Seq(S \cup {trade})
    BY <1>1
  <2>2. Len(t.closed) = Len(s.closed) + 1 /\ \A i \in 1..Len(s.closed) : t.closed[i] = s.closed[i]
    BY <1>5, <2>1
  <2> QED BY <1>2, <2>2 DEF Begins
<1> QED BY <1>3, <1>4, <1>5 DEF t

LEMMA ClosedGrows ==
  ASSUME NEW r, NEW quotes, NEW f, Steps(f, r, quotes), Len(quotes) \in Nat, NEW m \in 0..Len(quotes)
  PROVE  Begins(f[m].closed, f[Len(quotes)].closed)
<1> DEFINE n == Len(quotes)
           T == {i \in Nat : m <= i /\ i <= n => Begins(f[m].closed, f[i].closed)}
<1>1. \A i \in 0..n : Parts(f[i])
  BY StepsParts
<1>2. \A i \in 0..n : Len(f[i].closed) \in Nat
  BY <1>1 DEF Parts
<1>3. Begins(f[m].closed, f[m].closed)
  BY <1>2 DEF Begins
<1>4. 0 \in T
  BY <1>3
<1>5. ASSUME NEW i \in T PROVE i + 1 \in T
  <2> SUFFICES ASSUME m <= i + 1, i + 1 <= n PROVE Begins(f[m].closed, f[i + 1].closed)
    OBVIOUS
  <2>1. i \in Nat /\ i \in 0..n /\ i + 1 \in 1..n
    BY <1>5
  <2>2. CASE m = i + 1
    BY <1>3, <2>2
  <2>3. CASE m # i + 1
    <3>1. Begins(f[m].closed, f[i].closed)
      BY <1>5, <2>1, <2>3
    <3>2. f[i + 1] = Advance(r, f[i], quotes[i + 1])
      BY <2>1 DEF Steps
    <3>3. Begins(f[i].closed, f[i + 1].closed)
      BY <1>1, <2>1, <3>2, AdvanceBegins
    <3>4. /\ Len(f[m].closed) \in Nat /\ Len(f[i].closed) \in Nat /\ Len(f[i + 1].closed) \in Nat
      <4>1. m \in 0..n /\ i \in 0..n /\ i + 1 \in 0..n
        BY <2>1
      <4> HIDE DEF n
      <4> QED BY <1>2, <4>1
    <3> QED BY <3>1, <3>3, <3>4, BeginsTransitive
  <2> QED BY <2>2, <2>3
<1> HIDE DEF T
<1>6. T = Nat
  BY <1>4, <1>5, Inductive DEF T
<1> QED BY <1>6 DEF T

\* The position still open is not closed at the end.
Unpriced(r, s, quotes) ==
  \/ s.open = None \/ quotes = <<>>
  \/ quotes[Len(quotes)] = None
  \/ ~Follows(r, s.open, quotes[Len(quotes)])

LEMMA FinishParts ==
  ASSUME NEW r, NEW s, NEW quotes, Parts(s)
  PROVE  LET answer == Finish(r, s, quotes)
             trade == ClosedTrade(r, s.open, quotes[Len(quotes)], "SESSION_CLOSE")
         IN  /\ Unpriced(r, s, quotes) => answer = s.closed
             /\ ~Unpriced(r, s, quotes) => answer = Append(s.closed, trade)
             /\ Len(s.closed) \in Nat /\ Len(answer) \in Nat /\ DOMAIN answer = 1..Len(answer)
             /\ Begins(s.closed, answer)
             /\ \A k \in 1..Len(answer) : k > Len(s.closed) =>
                   /\ ~Unpriced(r, s, quotes)
                   /\ k = Len(s.closed) + 1 /\ answer[k] = trade /\ trade.reason = "SESSION_CLOSE"
<1> DEFINE answer == Finish(r, s, quotes)
           trade == ClosedTrade(r, s.open, quotes[Len(quotes)], "SESSION_CLOSE")
<1>1. Unpriced(r, s, quotes) => answer = s.closed
  BY DEF Unpriced, Finish, Last
<1>2. ~Unpriced(r, s, quotes) => answer = Append(s.closed, trade)
  BY DEF Unpriced, Finish, Last
<1>3. trade.reason = "SESSION_CLOSE"
  BY DEF ClosedTrade
<1> HIDE DEF answer, trade
<1>4. PICK S : s.closed \in Seq(S)
  BY DEF Parts
<1>5. Len(s.closed) \in Nat /\ DOMAIN s.closed = 1..Len(s.closed)
  BY <1>4
<1>6. CASE Unpriced(r, s, quotes)
  <2>1. Begins(s.closed, answer) /\ DOMAIN answer = 1..Len(answer) /\ Len(answer) \in Nat
    BY <1>1, <1>5, <1>6 DEF Begins
  <2> QED BY <1>1, <1>5, <1>6, <2>1 DEF answer, trade
<1>7. CASE ~Unpriced(r, s, quotes)
  <2>1. s.closed \in Seq(S \cup {trade})
    BY <1>4
  <2>2. /\ answer = Append(s.closed, trade) /\ Len(answer) = Len(s.closed) + 1
        /\ DOMAIN answer = 1..Len(answer)
        /\ answer[Len(s.closed) + 1] = trade /\ \A i \in 1..Len(s.closed) : answer[i] = s.closed[i]
    BY <1>2, <1>7, <2>1
  <2>3. Begins(s.closed, answer)
    BY <1>5, <2>2 DEF Begins
  <2>4. \A k \in 1..Len(answer) : k > Len(s.closed) => k = Len(s.closed) + 1
    BY <1>5, <2>2
  <2> QED BY <1>3, <1>5, <1>7, <2>2, <2>3, <2>4 DEF answer, trade
<1> QED BY <1>6, <1>7

\* What is closed after the first m quotes is left at one of them.
LEMMA ClosedAfter ==
  ASSUME NEW r, NEW quotes, NEW f, Steps(f, r, quotes), Len(quotes) \in Nat, NEW m \in 0..Len(quotes),
         NEW x \in Nat,
         \A k \in 1..Len(quotes) : k > m /\ quotes[k] # None => quotes[k].time > x
  PROVE  \A k \in 1..Len(f[Len(quotes)].closed) :
            k > Len(f[m].closed) => f[Len(quotes)].closed[k].exitTime > x
<1> DEFINE n == Len(quotes)
           Late(c) == \A k \in 1..Len(c) : k > Len(f[m].closed) => c[k].exitTime > x
           T == {i \in Nat : m <= i /\ i <= n => Late(f[i].closed)}
<1>1. \A i \in 0..n : Parts(f[i])
  BY StepsParts
<1>2. Late(f[m].closed)
  <2>1. Len(f[m].closed) \in Nat
    BY <1>1 DEF Parts
  <2> QED BY <2>1
<1> HIDE DEF Late
<1>3. 0 \in T
  BY <1>2
<1>4. ASSUME NEW i \in T PROVE i + 1 \in T
  <2> SUFFICES ASSUME m <= i + 1, i + 1 <= n PROVE Late(f[i + 1].closed)
    OBVIOUS
  <2>1. i \in Nat /\ i \in 0..n /\ i + 1 \in 1..n
    BY <1>4
  <2>2. CASE m = i + 1
    BY <1>2, <2>2
  <2>3. CASE m # i + 1
    <3>1. Late(f[i].closed) /\ Parts(f[i])
      BY <1>1, <1>4, <2>1, <2>3
    <3>2. PICK q : q = quotes[i + 1] /\ f[i + 1] = Advance(r, f[i], q)
      BY <2>1 DEF Steps
    <3>3. q # None => q.time > x
      BY <2>1, <2>3, <3>2
    <3>4. CASE Stays(r, f[i], q)
      BY <3>1, <3>2, <3>4, AdvanceStays
    <3>5. CASE Opens(r, f[i], q)
      BY <3>1, <3>2, <3>5, AdvanceOpens
    <3>6. CASE Prices(r, f[i], q) /\ Reason(r, f[i], q) = "none"
      BY <3>1, <3>2, <3>6, AdvanceHolds
    <3>7. CASE Prices(r, f[i], q) /\ Reason(r, f[i], q) # "none"
      <4> DEFINE trade == ClosedTrade(r, f[i].open, q, Reason(r, f[i], q))
      <4>1. f[i + 1].closed = Append(f[i].closed, trade)
        BY <3>1, <3>2, <3>7, AdvanceLeaves
      <4>2. trade.exitTime > x
        BY <3>3, <3>7 DEF ClosedTrade, Prices
      <4> HIDE DEF trade
      <4>3. PICK S : f[i].closed \in Seq(S)
        BY <3>1 DEF Parts
      <4>4. f[i].closed \in Seq(S \cup {trade})
        BY <4>3
      <4>5. /\ Len(f[i + 1].closed) = Len(f[i].closed) + 1 /\ Len(f[i].closed) \in Nat
            /\ \A k \in 1..Len(f[i + 1].closed) :
                 f[i + 1].closed[k] = IF k \in 1..Len(f[i].closed) THEN f[i].closed[k] ELSE trade
        BY <4>1, <4>4
      <4> QED BY <3>1, <4>2, <4>5 DEF Late
    <3> QED BY <3>4, <3>5, <3>6, <3>7, AdvanceCases
  <2> QED BY <2>2, <2>3
<1> HIDE DEF T
<1>5. T = Nat
  BY <1>3, <1>4, Inductive DEF T
<1> QED BY <1>5 DEF T, Late

\* Two answers of one request agree on the trades left at the quotes both begin with.
LEMMA TradesKept ==
  ASSUME NEW r, NEW a, NEW b, NEW c, Len(a) \in Nat, Len(b) \in Nat, Len(c) \in Nat,
         Begins(c, a), Begins(c, b), NEW x \in Nat,
         \A k \in 1..Len(a) : k > Len(c) /\ a[k] # None => a[k].time > x
  PROVE  \A i \in DOMAIN Simulate(r, a) :
            Simulate(r, a)[i].reason # "SESSION_CLOSE" /\ ~(Simulate(r, a)[i].exitTime > x)
              => i \in DOMAIN Simulate(r, b) /\ Simulate(r, b)[i] = Simulate(r, a)[i]
<1> DEFINE n == Len(a)
           m == Len(b)
           l == Len(c)
           A == Simulate(r, a)
           B == Simulate(r, b)
<1>1. PICK f : Steps(f, r, a) /\ A = Finish(r, f[n], a)
  BY SimulateSteps
<1>2. PICK g : Steps(g, r, b) /\ B = Finish(r, g[m], b)
  BY SimulateSteps
<1>3. l <= n /\ l <= m /\ \A i \in 1..l : b[i] = a[i]
  BY DEF Begins
<1> DEFINE T == {i \in Nat : i <= l => g[i] = f[i]}
<1>4. 0 \in T
  BY <1>1, <1>2 DEF Steps
<1>5. ASSUME NEW i \in T PROVE i + 1 \in T
  <2> SUFFICES ASSUME i + 1 <= l PROVE g[i + 1] = f[i + 1]
    OBVIOUS
  <2>1. i \in Nat /\ g[i] = f[i] /\ i + 1 \in 1..l /\ i + 1 \in 1..n /\ i + 1 \in 1..m
    BY <1>3, <1>5
  <2>2. f[i + 1] = Advance(r, f[i], a[i + 1])
    BY <1>1, <2>1 DEF Steps
  <2>3. g[i + 1] = Advance(r, g[i], b[i + 1])
    BY <1>2, <2>1 DEF Steps
  <2> QED BY <1>3, <2>1, <2>2, <2>3
<1> HIDE DEF T
<1>6. T = Nat
  BY <1>4, <1>5, Inductive DEF T
<1>7. g[l] = f[l]
  BY <1>6 DEF T
<1> HIDE DEF A, B
<1>8. Parts(f[n]) /\ Parts(g[m])
  BY <1>1, <1>2, StepsParts
<1>9. Begins(f[l].closed, f[n].closed) /\ Begins(g[l].closed, g[m].closed)
  <2>1. l \in 0..n /\ l \in 0..m
    BY <1>3
  <2> QED BY <1>1, <1>2, <2>1, ClosedGrows
<1>10. /\ Len(f[n].closed) \in Nat /\ DOMAIN A = 1..Len(A) /\ Begins(f[n].closed, A)
       /\ \A k \in 1..Len(A) : k > Len(f[n].closed) => A[k].reason = "SESSION_CLOSE"
  BY <1>1, <1>8, FinishParts
<1>11. Begins(g[m].closed, B) /\ DOMAIN B = 1..Len(B) /\ Len(g[m].closed) \in Nat /\ Len(B) \in Nat
  BY <1>2, <1>8, FinishParts
<1>12. \A k \in 1..Len(f[n].closed) : k > Len(f[l].closed) => f[n].closed[k].exitTime > x
  <2>1. l \in 0..n
    BY <1>3
  <2> QED BY <1>1, <2>1, ClosedAfter
<1>13. Len(f[l].closed) \in Nat
  <2>1. l \in 0..n
    BY <1>3
  <2> QED BY <1>1, <2>1, StepsParts DEF Parts
<1>14. ASSUME NEW i \in DOMAIN A, A[i].reason # "SESSION_CLOSE", ~(A[i].exitTime > x)
       PROVE  i \in DOMAIN B /\ B[i] = A[i]
  <2>1. i \in 1..Len(f[n].closed)
    BY <1>10, <1>14
  <2>2. A[i] = f[n].closed[i]
    BY <1>10, <2>1 DEF Begins
  <2>3. i \in 1..Len(f[l].closed)
    BY <1>12, <1>13, <1>14, <2>1, <2>2
  <2>4. f[n].closed[i] = f[l].closed[i]
    BY <1>9, <2>3 DEF Begins
  <2>5. i \in 1..Len(g[m].closed) /\ g[m].closed[i] = f[l].closed[i]
    BY <1>7, <1>9, <1>11, <1>13, <2>3 DEF Begins
  <2>6. i \in 1..Len(B) /\ B[i] = g[m].closed[i]
    BY <1>11, <2>5 DEF Begins
  <2> QED BY <1>11, <2>2, <2>4, <2>5, <2>6
<1> QED BY <1>14 DEF A, B


-----------------------------------------------------------------------------
(* Falls in a row *)

\* T has the least element m, or the greatest.
First(m, T) == m \in T /\ \A k \in T : m <= k
Latest(m, T) == m \in T /\ \A k \in T : k <= m

LEMMA MinIsFirst ==
  ASSUME NEW T \in SUBSET Int, NEW m, First(m, T)
  PROVE  Min(T) = m
<1> DEFINE least == Min(T)
<1>1. least \in T /\ \A y \in T : least <= y
  BY DEF Min, First
<1> HIDE DEF least
<1>2. m \in Int /\ least \in Int /\ m <= least /\ least <= m
  BY <1>1 DEF First
<1> QED BY <1>2 DEF least

LEMMA MaxIsLatest ==
  ASSUME NEW T \in SUBSET Int, NEW m, Latest(m, T)
  PROVE  Max(T) = m
<1> DEFINE greatest == Max(T)
<1>1. greatest \in T /\ \A y \in T : greatest >= y
  <2>1. \A y \in T : m >= y
    BY DEF Latest
  <2> QED BY <2>1 DEF Max, Latest
<1> HIDE DEF greatest
<1>2. m \in Int /\ greatest \in Int /\ m <= greatest /\ greatest <= m
  BY <1>1 DEF Latest
<1> QED BY <1>2 DEF greatest

\* The quotes that price a position entered at e, up to j, and those at which a run of
\* falls that lasts until j had begun.
Seen(e, j) == {k \in Pricing(e) : k <= j}
Fell(seen, k) == loaded[k].ltp < loaded[Max({i \in seen : i < k})].ltp
Falling(e, seen) == {i \in seen \ {e} : \A k \in seen : k >= i => Fell(seen, k)}

LEMMA FallsAreFalling ==
  ASSUME NEW e, NEW j
  PROVE  FallsUpTo(e, j) = Cardinality(Falling(e, Seen(e, j)))
BY DEF FallsUpTo, Falling, Fell, Seen

\* A quote that does not price the position changes nothing.
LEMMA FallsStay ==
  ASSUME Len(loaded) \in Nat, NEW e \in Nat, NEW i \in Nat, i + 1 \notin Pricing(e)
  PROVE  FallsUpTo(e, i + 1) = FallsUpTo(e, i)
<1>1. Pricing(e) \subseteq Int
  BY DEF Pricing
<1>2. Seen(e, i + 1) = Seen(e, i)
  <2> SUFFICES ASSUME NEW k \in Pricing(e) PROVE k <= i + 1 <=> k <= i
    BY DEF Seen
  <2> QED BY <1>1
<1> QED BY <1>2, FallsAreFalling

\* At the entry nothing has fallen yet.
LEMMA FallsBegin ==
  ASSUME Len(loaded) \in Nat, NEW e \in Nat
  PROVE  FallsUpTo(e, e) = 0
<1>1. Seen(e, e) \subseteq {e}
  <2>1. \A k \in Pricing(e) : k \in Int /\ k >= e
    BY DEF Pricing
  <2> QED BY <2>1 DEF Seen
<1>2. Falling(e, Seen(e, e)) = {}
  BY <1>1 DEF Falling
<1> QED BY <1>2, FallsAreFalling, FS_EmptySet

\* A fall counts one more than before, anything else starts again.
LEMMA FallsGoOn ==
  ASSUME Len(loaded) \in Nat, NEW e \in Nat, NEW i \in Nat, e <= i, i + 1 \in Pricing(e),
         NEW p, Latest(p, Seen(e, i))
  PROVE  FallsUpTo(e, i + 1) = IF loaded[i + 1].ltp < loaded[p].ltp THEN FallsUpTo(e, i) + 1 ELSE 0
<1> DEFINE j == i + 1
           old == Seen(e, i)
           new == Seen(e, j)
<1>1. j \in Nat /\ j > i /\ j # e
  OBVIOUS
<1>2. old \subseteq e..i /\ new = old \cup {j}
  <2>1. Pricing(e) \subseteq Int /\ \A k \in Pricing(e) : k >= e
    BY DEF Pricing
  <2>2. \A k \in Pricing(e) : k <= j <=> (k <= i \/ k = j)
    BY <2>1
  <2>3. j \in Pricing(e)
    OBVIOUS
  <2> HIDE DEF j
  <2>4. new = old \cup {j}
    BY <1>1, <2>2, <2>3 DEF Seen
  <2>5. \A k \in old : k \in Int /\ e <= k /\ k <= i
    BY <2>1 DEF Seen
  <2> QED BY <2>4, <2>5
<1> HIDE DEF j, old, new
<1>3. \A k \in old : {l \in new : l < k} = {l \in old : l < k}
  BY <1>1, <1>2
<1>4. {l \in new : l < j} = old
  <2>1. \A l \in old : l < j
    BY <1>1, <1>2
  <2>2. ~(j < j)
    BY <1>1
  <2> QED BY <1>2, <2>1, <2>2
<1>5. Max(old) = p
  <2>1. old \subseteq Int
    BY <1>2
  <2> QED BY <2>1, MaxIsLatest DEF old
<1>6. \A k \in old : Fell(new, k) <=> Fell(old, k)
  BY <1>3 DEF Fell
<1>7. Fell(new, j) <=> loaded[j].ltp < loaded[p].ltp
  BY <1>4, <1>5 DEF Fell
<1>8. IsFiniteSet(Falling(e, old))
  <2>1. Falling(e, old) \subseteq e..i
    BY <1>2 DEF Falling
  <2>2. IsFiniteSet(e..i)
    BY FS_Interval
  <2> QED BY <2>1, <2>2, FS_Subset
<1>9. CASE loaded[j].ltp < loaded[p].ltp
  <2>1. Falling(e, new) = Falling(e, old) \cup {j}
    <3>1. ASSUME NEW l \in new \ {e}
          PROVE  l \in Falling(e, new) <=> l \in Falling(e, old) \cup {j}
      <4>1. CASE l = j
        <5>1. \A k \in new : k >= j => k = j
          BY <1>1, <1>2
        <5>2. l \in Falling(e, new)
          BY <1>7, <1>9, <3>1, <4>1, <5>1 DEF Falling
        <5> QED BY <4>1, <5>2
      <4>2. CASE l # j
        <5>1. l \in old \ {e}
          BY <1>2, <3>1, <4>2
        <5>2. (\A k \in new : k >= l => Fell(new, k)) <=> (\A k \in old : k >= l => Fell(old, k))
          BY <1>2, <1>6, <1>7, <1>9
        <5> QED BY <3>1, <4>2, <5>1, <5>2 DEF Falling
      <4> QED BY <4>1, <4>2
    <3>2. Falling(e, new) \subseteq new \ {e} /\ Falling(e, old) \cup {j} \subseteq new \ {e}
      BY <1>1, <1>2 DEF Falling
    <3> QED BY <3>1, <3>2
  <2>2. j \notin Falling(e, old)
    BY <1>1, <1>2 DEF Falling
  <2>3. Cardinality(Falling(e, new)) = Cardinality(Falling(e, old)) + 1
    BY <1>8, <2>1, <2>2, FS_AddElement
  <2> QED BY <1>9, <2>3, FallsAreFalling DEF j, old, new
<1>10. CASE ~(loaded[j].ltp < loaded[p].ltp)
  <2>1. \A l \in new : j >= l
    BY <1>1, <1>2
  <2>2. j \in new /\ ~Fell(new, j)
    BY <1>2, <1>7, <1>10
  <2>3. Falling(e, new) = {}
    BY <2>1, <2>2 DEF Falling
  <2> QED BY <1>10, <2>3, FallsAreFalling, FS_EmptySet DEF j, new
<1> QED BY <1>9, <1>10


-----------------------------------------------------------------------------
(* What the fold has done after each quote *)

Sound == req \in Requests /\ GoodQuotes(req, loaded)

\* The quotes after e that give a reason to leave a position entered there.
Due(e) == {j \in Pricing(e) \ {e} : ReasonAt(e, j) # "none"}

\* The trade t was entered at e and left at x, where it was due first.
Left(t, e, x) ==
  /\ e \in 1..Len(loaded) /\ Quoted(e) /\ First(x, Due(e))
  /\ t = ClosedTrade(req, Position(loaded[e]), loaded[x], ReasonAt(e, x))

\* The trade before the k-th was left at y.
LeftBefore(closed, k, y) == IF k = 1 THEN y = 0 ELSE \E d : Left(closed[k - 1], d, y)

AsAsked(closed, k) ==
  \E e, x, y : Left(closed[k], e, x) /\ LeftBefore(closed, k, y) /\ First(e, Matches(y))

Inside(j, closed) == \E k \in 1..Len(closed) : loaded[j].time \in closed[k].entryTime..closed[k].exitTime

\* After the quote i, the last position having been left at y, none is open.
IsFlat(s, i, y) ==
  /\ s.open = None
  /\ \A j \in Matches(y) : j > i
  /\ \A j \in Matches(0) : j <= i => Inside(j, s.closed)

\* Or the one entered at e is.
Holds(s, i, y, e) ==
  /\ e \in 1..i /\ s.open = Position(loaded[e])
  /\ First(e, Matches(y))
  /\ \A j \in Due(e) : j > i
  /\ \E p : Latest(p, Seen(e, i)) /\ s.previous = loaded[p].ltp
  /\ req.red # 0 => s.reds = FallsUpTo(e, i)
  /\ \A j \in Matches(0) : j <= i => Inside(j, s.closed) \/ j >= e

FoldInv(s, i) ==
  /\ Parts(s)
  /\ \A k \in 1..Len(s.closed) : AsAsked(s.closed, k)
  /\ \E y \in 0..i : /\ LeftBefore(s.closed, Len(s.closed) + 1, y)
                     /\ IsFlat(s, i, y) \/ \E e : Holds(s, i, y, e)

LEMMA QuoteFacts ==
  ASSUME Sound
  PROVE  /\ Len(loaded) \in Nat /\ DOMAIN loaded = 1..Len(loaded)
         /\ \A i \in 1..Len(loaded) : Quoted(i) =>
               /\ loaded[i].time \in Nat /\ loaded[i].strike \in Int /\ loaded[i].ltp \in Int
               /\ loaded[i].type = req.type
               /\ req.strike # None => loaded[i].strike = req.strike
               /\ Position(loaded[i]) # None
         /\ \A i, j \in 1..Len(loaded) : i < j /\ Quoted(i) /\ Quoted(j) =>
               /\ loaded[i].time <= loaded[j].time
               /\ loaded[i].time # loaded[j].time \/ loaded[i].strike # loaded[j].strike
<1>1. Len(loaded) \in Nat /\ DOMAIN loaded = 1..Len(loaded)
  BY DEF Sound, GoodQuotes
<1>2. \A i \in 1..Len(loaded) : Quoted(i) =>
         /\ loaded[i].time \in Nat /\ loaded[i].strike \in Int /\ loaded[i].ltp \in Int
         /\ loaded[i].type = req.type
         /\ req.strike # None => loaded[i].strike = req.strike
  BY DEF Sound, GoodQuotes, Quoted
<1>3. ASSUME NEW i \in 1..Len(loaded), Quoted(i)
      PROVE  Position(loaded[i]) # None
  <2>1. req.type \in {r.type : r \in Requests}
    BY DEF Sound
  <2>2. Position(loaded[i]) \in
          [entryTime : Nat, strike : Int, type : {r.type : r \in Requests}, entryPrice : Int]
    BY <1>2, <1>3, <2>1 DEF Position
  <2> QED BY <2>2, BacktestAssumption
<1>4. ASSUME NEW i \in 1..Len(loaded), NEW j \in 1..Len(loaded), i < j, Quoted(i), Quoted(j)
      PROVE  /\ loaded[i].time <= loaded[j].time
             /\ loaded[i].time # loaded[j].time \/ loaded[i].strike # loaded[j].strike
  <2>1. \/ loaded[i].time < loaded[j].time
        \/ loaded[i].time = loaded[j].time /\ loaded[i].strike < loaded[j].strike
    BY <1>4 DEF Sound, GoodQuotes, Quoted
  <2>2. /\ loaded[i].time \in Nat /\ loaded[i].strike \in Int
        /\ loaded[j].time \in Nat /\ loaded[j].strike \in Int
    BY <1>2, <1>4
  <2> QED BY <2>1, <2>2
<1> QED BY <1>1, <1>2, <1>3, <1>4

\* The loop prices an open position at the quotes that are said to price it.
LEMMA FollowsIsPricing ==
  ASSUME Sound, NEW e \in 1..Len(loaded), NEW j \in 1..Len(loaded), e <= j, Quoted(e), Quoted(j)
  PROVE  Follows(req, Position(loaded[e]), loaded[j]) <=> j \in Pricing(e)
<1>1. j \in Pricing(e) <=> AnyStrikePrices \/ SameOption(e, j)
  BY DEF Pricing
<1>2. Follows(req, Position(loaded[e]), loaded[j]) <=> UsesCrossLegFields(req) \/ SameOption(e, j)
  BY DEF Follows, Position, SameOption
<1>3. req.strike # None => SameOption(e, j)
  BY QuoteFacts DEF SameOption
<1> QED BY <1>1, <1>2, <1>3 DEF AnyStrikePrices

\* The exits look at two parts of a position, and at the falls only when asked to.
LEMMA ExitReasonSame ==
  ASSUME NEW r, NEW a, NEW b, NEW q, NEW m, NEW n,
         a.entryTime = b.entryTime, a.entryPrice = b.entryPrice, r.red # 0 => m = n
  PROVE  ExitReason(r, a, q, m) = ExitReason(r, b, q, n)
<1>1. (r.red > 0 /\ m >= r.red) <=> (r.red > 0 /\ n >= r.red)
  OBVIOUS
<1> QED BY <1>1 DEF ExitReason

LEMMA ReasonIsAt ==
  ASSUME Sound, NEW s, NEW i \in Nat, NEW y, NEW e, Holds(s, i, y, e), i + 1 \in Pricing(e)
  PROVE  /\ Reason(req, s, loaded[i + 1]) = ReasonAt(e, i + 1)
         /\ req.red # 0 => Reds(req, s, loaded[i + 1]) = FallsUpTo(e, i + 1)
<1> DEFINE q == loaded[i + 1]
<1>1. e \in Nat /\ e <= i /\ Len(loaded) \in Nat
  BY QuoteFacts DEF Holds
<1>2. PICK p : Latest(p, Seen(e, i)) /\ s.previous = loaded[p].ltp
  BY DEF Holds
<1>3. FallsUpTo(e, i + 1) = IF q.ltp < loaded[p].ltp THEN FallsUpTo(e, i) + 1 ELSE 0
  BY <1>1, <1>2, FallsGoOn
<1>4. req.red # 0 => Reds(req, s, q) = FallsUpTo(e, i + 1)
  BY <1>2, <1>3 DEF Holds, Reds
<1> DEFINE a == s.open
           b == [entryTime |-> loaded[e].time, entryPrice |-> loaded[e].ltp]
           m == Reds(req, s, q)
           n == FallsUpTo(e, i + 1)
<1>5. a.entryTime = b.entryTime /\ a.entryPrice = b.entryPrice
  BY DEF Holds, Position
<1>6. Reason(req, s, q) = ExitReason(req, a, q, m) /\ ReasonAt(e, i + 1) = ExitReason(req, b, q, n)
  BY DEF Reason, ReasonAt
<1>7. req.red # 0 => m = n
  BY <1>4
<1> HIDE DEF a, b, m, n, q
<1>8. ExitReason(req, a, q, m) = ExitReason(req, b, q, n)
  BY <1>5, <1>7, ExitReasonSame
<1> QED BY <1>4, <1>6, <1>8 DEF q


LEMMA HoldsEntry ==
  ASSUME Sound, NEW s, NEW i \in 0..Len(loaded), NEW y \in Nat, NEW e, Holds(s, i, y, e)
  PROVE  /\ e \in 1..Len(loaded) /\ e <= i /\ e \in Nat /\ Quoted(e) /\ s.open = Position(loaded[e]) /\ s.open # None
         /\ MatchesRule(req.entry, loaded[e])
<1>1. Len(loaded) \in Nat
  BY QuoteFacts
<1>2. e \in 1..i /\ e \in Matches(y) /\ s.open = Position(loaded[e])
  BY DEF Holds, First
<1>3. e \in 1..Len(loaded) /\ e <= i /\ e \in Nat
  BY <1>1, <1>2
<1>4. Quoted(e) /\ MatchesRule(req.entry, loaded[e])
  BY <1>2 DEF Matches
<1> QED BY <1>2, <1>3, <1>4, QuoteFacts

\* A quote that does not concern the position is passed over.
LEMMA StaysKeepsFold ==
  ASSUME Sound, NEW s, NEW i \in Nat, i + 1 <= Len(loaded), FoldInv(s, i), Stays(req, s, loaded[i + 1])
  PROVE  FoldInv(s, i + 1)
<1> DEFINE j == i + 1
<1>1. Len(loaded) \in Nat /\ j \in 1..Len(loaded) /\ i \in 0..Len(loaded)
  BY QuoteFacts
<1>2. PICK y \in 0..i : /\ LeftBefore(s.closed, Len(s.closed) + 1, y)
                        /\ IsFlat(s, i, y) \/ \E e : Holds(s, i, y, e)
  BY DEF FoldInv
<1>3. Parts(s) /\ \A k \in 1..Len(s.closed) : AsAsked(s.closed, k)
  BY DEF FoldInv
<1>4. y \in 0..j /\ y \in Nat
  BY <1>2
<1>5. CASE IsFlat(s, i, y)
  <2>1. ~Quoted(j) \/ ~MatchesRule(req.entry, loaded[j])
    BY <1>5 DEF Stays, IsFlat, Quoted
  <2>2. \A x : j \notin Matches(x)
    BY <2>1 DEF Matches
  <2>3. \A x \in Nat : Matches(x) \subseteq Nat
    BY DEF Matches
  <2>4. \A k \in Matches(y) : k > j
    <3>1. \A k \in Matches(y) : k > i /\ k # j /\ k \in Nat
      BY <1>4, <1>5, <2>2, <2>3 DEF IsFlat
    <3> QED BY <3>1
  <2>5. \A k \in Matches(0) : k <= j => Inside(k, s.closed)
    <3>1. \A k \in Matches(0) : k # j /\ k \in Nat
      BY <2>2, <2>3
    <3>2. \A k \in Matches(0) : k <= j => k <= i
      BY <3>1
    <3> QED BY <1>5, <3>2 DEF IsFlat
  <2>6. IsFlat(s, j, y)
    BY <1>5, <2>4, <2>5 DEF IsFlat
  <2> QED BY <1>2, <1>3, <1>4, <2>6 DEF FoldInv
<1>6. ASSUME NEW e, Holds(s, i, y, e)
      PROVE  FoldInv(s, j)
  <2>1. /\ e \in 1..Len(loaded) /\ e <= i /\ e \in Nat /\ Quoted(e)
        /\ s.open = Position(loaded[e]) /\ s.open # None
    BY <1>1, <1>4, <1>6, HoldsEntry
  <2>2. j \notin Pricing(e)
    <3>1. ~Quoted(j) \/ ~Follows(req, s.open, loaded[j])
      BY <2>1 DEF Stays, Quoted
    <3>2. CASE ~Quoted(j)
      BY <3>2 DEF Pricing
    <3>3. CASE Quoted(j) /\ ~Follows(req, s.open, loaded[j])
      <4>1. e <= j
        BY <2>1
      <4> QED BY <1>1, <2>1, <3>3, <4>1, FollowsIsPricing
    <3> QED BY <3>1, <3>2, <3>3
  <2>3. Pricing(e) \subseteq Int
    BY <1>1, <2>1 DEF Pricing
  <2>4. \A k \in Due(e) : k > j
    <3>1. \A k \in Due(e) : k \in Int /\ k # j /\ k > i
      BY <1>6, <2>2, <2>3 DEF Due, Holds
    <3> QED BY <3>1
  <2>5. Seen(e, j) = Seen(e, i)
    <3>1. \A k \in Pricing(e) : k <= j <=> k <= i
      BY <2>2, <2>3
    <3> QED BY <3>1 DEF Seen
  <2>6. FallsUpTo(e, j) = FallsUpTo(e, i)
    BY <1>1, <2>1, <2>2, FallsStay
  <2>7. \A k \in Matches(0) : k <= j => Inside(k, s.closed) \/ k >= e
    <3>1. \A k \in Matches(0) : k <= j => k <= i \/ k >= e
      <4>1. \A k \in Matches(0) : k \in Nat
        BY DEF Matches
      <4> QED BY <2>1, <4>1
    <3> QED BY <1>6, <3>1 DEF Holds
  <2>8. e \in 1..j
    BY <2>1
  <2>9. Holds(s, j, y, e)
    BY <1>6, <2>4, <2>5, <2>6, <2>7, <2>8 DEF Holds
  <2> QED BY <1>2, <1>3, <1>4, <2>9 DEF FoldInv
<1> QED BY <1>2, <1>5, <1>6

\* A match opens a position when none is open.
LEMMA OpensKeepsFold ==
  ASSUME Sound, NEW s, NEW i \in Nat, i + 1 <= Len(loaded), FoldInv(s, i), Opens(req, s, loaded[i + 1])
  PROVE  FoldInv(Advance(req, s, loaded[i + 1]), i + 1)
<1> DEFINE j == i + 1
           t == Advance(req, s, loaded[j])
<1>1. Len(loaded) \in Nat /\ j \in 1..Len(loaded) /\ i \in 0..Len(loaded)
  BY QuoteFacts
<1>2. PICK y \in 0..i : /\ LeftBefore(s.closed, Len(s.closed) + 1, y)
                        /\ IsFlat(s, i, y) \/ \E e : Holds(s, i, y, e)
  BY DEF FoldInv
<1>3. Parts(s) /\ \A k \in 1..Len(s.closed) : AsAsked(s.closed, k)
  BY DEF FoldInv
<1>4. y \in 0..j /\ y \in Nat
  BY <1>2
<1>5. s.open = None /\ Quoted(j) /\ MatchesRule(req.entry, loaded[j])
  BY DEF Opens, Quoted
<1>6. IsFlat(s, i, y)
  BY <1>1, <1>2, <1>4, <1>5, HoldsEntry
<1>7. t.open = Position(loaded[j]) /\ t.reds = 0 /\ t.previous = loaded[j].ltp /\ t.closed = s.closed /\ Parts(t)
  BY <1>3, AdvanceOpens
<1> HIDE DEF t
<1>8. First(j, Matches(y))
  <2>1. j \in Matches(y)
    BY <1>1, <1>2, <1>5 DEF Matches
  <2>2. \A k \in Matches(y) : k > i /\ k \in Nat
    BY <1>4, <1>6 DEF IsFlat, Matches
  <2> QED BY <2>1, <2>2 DEF First
<1>9. \A k \in Due(j) : k > j
  <2>1. \A k \in Pricing(j) : k \in Int /\ k >= j
    BY <1>1 DEF Pricing
  <2> QED BY <2>1 DEF Due
<1>10. Latest(j, Seen(j, j))
  <2>1. j \in Pricing(j)
    BY <1>1, <1>5 DEF Pricing, SameOption
  <2> QED BY <2>1 DEF Latest, Seen
<1>11. t.reds = FallsUpTo(j, j)
  BY <1>1, <1>7, FallsBegin
<1>12. \A k \in Matches(0) : k <= j => Inside(k, t.closed) \/ k >= j
  <2>1. \A k \in Matches(0) : k \in Nat
    BY DEF Matches
  <2>2. \A k \in Matches(0) : k <= j => k <= i \/ k >= j
    BY <2>1
  <2> QED BY <1>6, <1>7, <2>2 DEF IsFlat
<1>13. j \in 1..j
  BY <1>1
<1>14. Holds(t, j, y, j)
  BY <1>7, <1>8, <1>9, <1>10, <1>11, <1>12, <1>13 DEF Holds
<1>15. FoldInv(t, j)
  BY <1>2, <1>3, <1>4, <1>7, <1>14 DEF FoldInv
<1> QED BY <1>15 DEF t


\* What is known of a quote that prices the open position.
LEMMA PricesFacts ==
  ASSUME Sound, NEW s, NEW i \in Nat, i + 1 <= Len(loaded), FoldInv(s, i), Prices(req, s, loaded[i + 1])
  PROVE  \E y \in 0..i, e \in 1..i :
            /\ LeftBefore(s.closed, Len(s.closed) + 1, y) /\ Holds(s, i, y, e)
            /\ e \in 1..Len(loaded) /\ Quoted(e) /\ Quoted(i + 1) /\ i + 1 \in Pricing(e)
            /\ Reason(req, s, loaded[i + 1]) = ReasonAt(e, i + 1)
            /\ req.red # 0 => Reds(req, s, loaded[i + 1]) = FallsUpTo(e, i + 1)
<1> DEFINE j == i + 1
<1>1. Len(loaded) \in Nat /\ j \in 1..Len(loaded) /\ i \in 0..Len(loaded)
  BY QuoteFacts
<1>2. PICK y \in 0..i : /\ LeftBefore(s.closed, Len(s.closed) + 1, y)
                        /\ IsFlat(s, i, y) \/ \E e : Holds(s, i, y, e)
  BY DEF FoldInv
<1>3. s.open # None /\ Quoted(j) /\ Follows(req, s.open, loaded[j])
  BY DEF Prices, Quoted
<1>4. PICK e : Holds(s, i, y, e)
  BY <1>2, <1>3 DEF IsFlat
<1>5. /\ e \in 1..Len(loaded) /\ e <= i /\ e \in Nat /\ Quoted(e)
      /\ s.open = Position(loaded[e])
  BY <1>1, <1>2, <1>4, HoldsEntry
<1>6. j \in Pricing(e)
  <2>1. e <= j
    BY <1>5
  <2> QED BY <1>1, <1>3, <1>5, <2>1, FollowsIsPricing
<1>7. /\ Reason(req, s, loaded[i + 1]) = ReasonAt(e, i + 1)
      /\ req.red # 0 => Reds(req, s, loaded[i + 1]) = FallsUpTo(e, i + 1)
  BY <1>4, <1>6, ReasonIsAt
<1>8. e \in 1..i
  BY <1>5
<1> QED BY <1>2, <1>3, <1>4, <1>5, <1>6, <1>7, <1>8

\* A quote that gives no reason to leave is remembered as the previous one.
LEMMA HoldsKeepsFold ==
  ASSUME Sound, NEW s, NEW i \in Nat, i + 1 <= Len(loaded), FoldInv(s, i),
         Prices(req, s, loaded[i + 1]), Reason(req, s, loaded[i + 1]) = "none"
  PROVE  FoldInv(Advance(req, s, loaded[i + 1]), i + 1)
<1> DEFINE j == i + 1
           t == Advance(req, s, loaded[j])
<1>1. Len(loaded) \in Nat /\ j \in 1..Len(loaded)
  BY QuoteFacts
<1>2. PICK y \in 0..i, e \in 1..i :
         /\ LeftBefore(s.closed, Len(s.closed) + 1, y) /\ Holds(s, i, y, e)
         /\ e \in 1..Len(loaded) /\ Quoted(e) /\ Quoted(j) /\ j \in Pricing(e)
         /\ Reason(req, s, loaded[j]) = ReasonAt(e, j)
         /\ req.red # 0 => Reds(req, s, loaded[j]) = FallsUpTo(e, j)
  BY PricesFacts
<1>3. Parts(s) /\ \A k \in 1..Len(s.closed) : AsAsked(s.closed, k)
  BY DEF FoldInv
<1>4. /\ t.open = s.open /\ t.reds = Reds(req, s, loaded[j]) /\ t.previous = loaded[j].ltp
      /\ t.closed = s.closed /\ Parts(t)
  BY <1>3, AdvanceHolds
<1> HIDE DEF t
<1>5. Pricing(e) \subseteq Int
  BY <1>1 DEF Pricing
<1>6. \A k \in Due(e) : k > j
  <2>1. j \notin Due(e)
    BY <1>2 DEF Due
  <2>2. \A k \in Due(e) : k \in Int /\ k # j /\ k > i
    BY <1>2, <1>5, <2>1 DEF Due, Holds
  <2> QED BY <2>2
<1>7. Latest(j, Seen(e, j))
  BY <1>1, <1>2, <1>5 DEF Latest, Seen
<1>8. \A k \in Matches(0) : k <= j => Inside(k, t.closed) \/ k >= e
  <2>1. \A k \in Matches(0) : k \in Nat
    BY DEF Matches
  <2>2. \A k \in Matches(0) : k <= j => k <= i \/ k >= e
    BY <2>1
  <2> QED BY <1>2, <1>4, <2>2 DEF Holds
<1>9. e \in 1..j /\ y \in 0..j
  BY <1>2
<1>10. Holds(t, j, y, e)
  BY <1>2, <1>4, <1>6, <1>7, <1>8, <1>9 DEF Holds
<1>11. FoldInv(t, j)
  BY <1>2, <1>3, <1>4, <1>9, <1>10 DEF FoldInv
<1> QED BY <1>11 DEF t

\* A quote that gives a reason to leave closes the position.
LEMMA LeavesKeepsFold ==
  ASSUME Sound, NEW s, NEW i \in Nat, i + 1 <= Len(loaded), FoldInv(s, i),
         Prices(req, s, loaded[i + 1]), Reason(req, s, loaded[i + 1]) # "none"
  PROVE  FoldInv(Advance(req, s, loaded[i + 1]), i + 1)
<1> DEFINE j == i + 1
           t == Advance(req, s, loaded[j])
           m == Len(s.closed)
<1>1. Len(loaded) \in Nat /\ j \in 1..Len(loaded)
  BY QuoteFacts
<1>2. PICK y \in 0..i, e \in 1..i :
         /\ LeftBefore(s.closed, m + 1, y) /\ Holds(s, i, y, e)
         /\ e \in 1..Len(loaded) /\ Quoted(e) /\ Quoted(j) /\ j \in Pricing(e)
         /\ Reason(req, s, loaded[j]) = ReasonAt(e, j)
         /\ req.red # 0 => Reds(req, s, loaded[j]) = FallsUpTo(e, j)
  BY PricesFacts
<1>3. Parts(s) /\ \A k \in 1..m : AsAsked(s.closed, k)
  BY DEF FoldInv
<1> DEFINE trade == ClosedTrade(req, s.open, loaded[j], Reason(req, s, loaded[j]))
<1>4. t.open = None /\ t.closed = Append(s.closed, trade) /\ Parts(t)
  BY <1>3, AdvanceLeaves
<1> HIDE DEF t
<1>5. s.open = Position(loaded[e]) /\ First(e, Matches(y)) /\ \A k \in Due(e) : k > i
  BY <1>2 DEF Holds
<1>6. First(j, Due(e))
  <2>1. j \in Due(e)
    <3>1. j # e
      BY <1>2
    <3> QED BY <1>2, <3>1 DEF Due
  <2>2. Due(e) \subseteq Int
    BY <1>1 DEF Due, Pricing
  <2> QED BY <1>5, <2>1, <2>2 DEF First
<1>7. Left(trade, e, j)
  BY <1>2, <1>5, <1>6 DEF Left
<1>8. trade.entryTime = loaded[e].time /\ trade.exitTime = loaded[j].time
  BY <1>5 DEF ClosedTrade, Position
<1> HIDE DEF trade
<1>9. PICK S : s.closed \in Seq(S)
  BY <1>3 DEF Parts
<1>10. s.closed \in Seq(S \cup {trade})
  BY <1>9
<1>11. /\ m \in Nat /\ Len(t.closed) = m + 1 /\ t.closed[m + 1] = trade
       /\ \A k \in 1..m : t.closed[k] = s.closed[k]
  BY <1>4, <1>10
<1> HIDE DEF m
<1>12. ASSUME NEW k \in 1..(m + 1), NEW x
       PROVE  LeftBefore(t.closed, k, x) <=> LeftBefore(s.closed, k, x)
  <2>1. CASE k = 1
    BY <2>1 DEF LeftBefore
  <2>2. CASE k # 1
    <3>1. k - 1 \in 1..m
      BY <1>11, <2>2
    <3> QED BY <1>11, <2>2, <3>1 DEF LeftBefore
  <2> QED BY <2>1, <2>2
<1>13. ASSUME NEW k \in 1..Len(t.closed)
       PROVE  AsAsked(t.closed, k)
  <2>1. CASE k = m + 1
    <3>1. LeftBefore(t.closed, k, y)
      BY <1>2, <1>11, <1>12, <2>1
    <3>2. Left(t.closed[k], e, j)
      BY <1>7, <1>11, <2>1
    <3> QED BY <1>5, <3>1, <3>2 DEF AsAsked
  <2>2. CASE k # m + 1
    <3>1. k \in 1..m /\ k \in 1..(m + 1)
      BY <1>11, <2>2
    <3>2. AsAsked(s.closed, k) /\ t.closed[k] = s.closed[k]
      BY <1>3, <1>11, <3>1 DEF m
    <3> QED BY <1>12, <3>1, <3>2 DEF AsAsked
  <2> QED BY <2>1, <2>2
<1>14. LeftBefore(t.closed, Len(t.closed) + 1, j)
  <2>1. Len(t.closed) + 1 # 1 /\ (Len(t.closed) + 1) - 1 = m + 1
    BY <1>11
  <2> QED BY <1>7, <1>11, <2>1 DEF LeftBefore
<1>15. \A k \in Matches(j) : k > j
  BY <1>1 DEF Matches
<1>16. ASSUME NEW k \in Matches(0), k <= j
       PROVE  Inside(k, t.closed)
  <2>1. k \in 1..Len(loaded) /\ Quoted(k) /\ k \in Nat
    BY <1>1 DEF Matches
  <2>2. Inside(k, s.closed) \/ k >= e
    <3>1. k <= i \/ k >= e
      BY <1>16, <2>1
    <3> QED BY <1>2, <3>1 DEF Holds
  <2>3. CASE Inside(k, s.closed)
    <3>1. PICK l \in 1..m : loaded[k].time \in s.closed[l].entryTime..s.closed[l].exitTime
      BY <2>3 DEF Inside, m
    <3>2. l \in 1..Len(t.closed) /\ t.closed[l] = s.closed[l]
      BY <1>11
    <3> QED BY <3>1, <3>2 DEF Inside
  <2>4. CASE k >= e
    <3>1. loaded[e].time <= loaded[k].time /\ loaded[k].time <= loaded[j].time
      <4>1. loaded[e].time \in Nat /\ loaded[k].time \in Nat /\ loaded[j].time \in Nat
        BY <1>1, <1>2, <2>1, QuoteFacts
      <4>2. e < k => loaded[e].time <= loaded[k].time
        BY <1>2, <2>1, QuoteFacts
      <4>3. k < j => loaded[k].time <= loaded[j].time
        BY <1>1, <1>2, <2>1, QuoteFacts
      <4>4. (e < k \/ e = k) /\ (k < j \/ k = j)
        BY <1>16, <2>1, <2>4
      <4> QED BY <4>1, <4>2, <4>3, <4>4
    <3>2. loaded[k].time \in Nat /\ loaded[e].time \in Nat /\ loaded[j].time \in Nat
      BY <1>1, <1>2, <2>1, QuoteFacts
    <3>3. m + 1 \in 1..Len(t.closed)
      BY <1>11
    <3>4. loaded[k].time \in t.closed[m + 1].entryTime..t.closed[m + 1].exitTime
      BY <1>8, <1>11, <3>1, <3>2
    <3> QED BY <3>3, <3>4 DEF Inside
  <2> QED BY <2>2, <2>3, <2>4
<1>17. IsFlat(t, j, j)
  BY <1>4, <1>15, <1>16 DEF IsFlat
<1>18. j \in 0..j
  BY <1>1
<1>19. FoldInv(t, j)
  BY <1>4, <1>13, <1>14, <1>17, <1>18 DEF FoldInv
<1> QED BY <1>19 DEF t

\* The invariant of the fold.
LEMMA FoldAlways ==
  ASSUME Sound, NEW f, Steps(f, req, loaded)
  PROVE  FoldInv(f[Len(loaded)], Len(loaded))
<1> DEFINE n == Len(loaded)
           T == {i \in Nat : i <= n => FoldInv(f[i], i)}
<1>1. n \in Nat
  BY QuoteFacts
<1>2. 0 \in T
  <2>1. \A j \in Matches(0) : j > 0
    BY DEF Matches
  <2>2. Len(Flat.closed) = 0
    BY FlatParts
  <2>3. IsFlat(Flat, 0, 0)
    <3>1. \A j \in Matches(0) : ~(j <= 0)
      BY DEF Matches
    <3> QED BY <2>1, <3>1, FlatParts DEF IsFlat
  <2>4. LeftBefore(Flat.closed, Len(Flat.closed) + 1, 0)
    BY <2>2 DEF LeftBefore
  <2>5. FoldInv(Flat, 0)
    BY <2>2, <2>3, <2>4, FlatParts DEF FoldInv
  <2> QED BY <2>5 DEF Steps
<1>3. ASSUME NEW i \in T PROVE i + 1 \in T
  <2> SUFFICES ASSUME i + 1 <= n PROVE FoldInv(f[i + 1], i + 1)
    OBVIOUS
  <2> DEFINE s == f[i]
             q == loaded[i + 1]
  <2>1. i \in Nat /\ FoldInv(s, i) /\ i + 1 \in 1..n
    BY <1>1, <1>3
  <2>2. f[i + 1] = Advance(req, s, q)
    BY <2>1 DEF Steps
  <2>3. Stays(req, s, q) => Advance(req, s, q) = s
    BY AdvanceStays
  <2>4. Stays(req, s, q) => FoldInv(s, i + 1)
    BY <2>1, StaysKeepsFold
  <2>5. Opens(req, s, q) => FoldInv(Advance(req, s, q), i + 1)
    BY <2>1, OpensKeepsFold
  <2>6. Prices(req, s, q) /\ Reason(req, s, q) = "none" => FoldInv(Advance(req, s, q), i + 1)
    BY <2>1, HoldsKeepsFold
  <2>7. Prices(req, s, q) /\ Reason(req, s, q) # "none" => FoldInv(Advance(req, s, q), i + 1)
    BY <2>1, LeavesKeepsFold
  <2> HIDE DEF s, q
  <2> QED BY <2>2, <2>3, <2>4, <2>5, <2>6, <2>7, AdvanceCases
<1> HIDE DEF T
<1>4. T = Nat
  BY <1>2, <1>3, Inductive DEF T
<1> QED BY <1>1, <1>4 DEF T


-----------------------------------------------------------------------------
(* What is answered *)

LEMMA EntryIs ==
  ASSUME Sound, NEW e \in 1..Len(loaded), Quoted(e), NEW t,
         t.entryTime = loaded[e].time, t.strike = loaded[e].strike, t.type = loaded[e].type
  PROVE  EntryOf(t) = e
<1> DEFINE Fits(j) ==
      Quoted(j) /\ loaded[j].time = t.entryTime /\ loaded[j].strike = t.strike /\ loaded[j].type = t.type
<1>1. Fits(e) /\ e \in DOMAIN loaded /\ DOMAIN loaded = 1..Len(loaded) /\ Len(loaded) \in Nat
  BY QuoteFacts
<1>2. ASSUME NEW j \in DOMAIN loaded, Fits(j) PROVE j = e
  <2>1. j \in 1..Len(loaded) /\ Quoted(j) /\ loaded[j].time = loaded[e].time /\ loaded[j].strike = loaded[e].strike
    BY <1>1, <1>2
  <2>2. ~(j < e) /\ ~(e < j)
    BY <2>1, QuoteFacts
  <2> QED BY <1>1, <2>1, <2>2
<1>3. EntryOf(t) = CHOOSE j \in DOMAIN loaded : Fits(j)
  BY DEF EntryOf
<1> HIDE DEF Fits
<1> QED BY <1>1, <1>2, <1>3

LEMMA LeftFacts ==
  ASSUME Sound, NEW t, NEW e, NEW x, Left(t, e, x)
  PROVE  /\ EntryOf(t) = e /\ x \in 1..Len(loaded)
         /\ LeavesAt(e) = {<<x, ReasonAt(e, x)>>}
         /\ t.exitTime = loaded[x].time /\ t.exitPrice = loaded[x].ltp /\ t.reason = ReasonAt(e, x)
<1>1. /\ e \in 1..Len(loaded) /\ Quoted(e) /\ First(x, Due(e)) /\ Len(loaded) \in Nat
      /\ t = ClosedTrade(req, Position(loaded[e]), loaded[x], ReasonAt(e, x))
  BY QuoteFacts DEF Left
<1>2. /\ t.entryTime = loaded[e].time /\ t.strike = loaded[e].strike /\ t.type = loaded[e].type
      /\ t.exitTime = loaded[x].time /\ t.exitPrice = loaded[x].ltp /\ t.reason = ReasonAt(e, x)
  BY <1>1 DEF ClosedTrade, Position
<1>3. EntryOf(t) = e
  BY <1>1, <1>2, EntryIs
<1>4. Due(e) \subseteq 1..Len(loaded)
  BY <1>1 DEF Due, Pricing
<1>5. x \in Due(e)
  BY <1>1 DEF First
<1>6. Min(Due(e)) = x
  <2>1. Due(e) \subseteq Int
    BY <1>4
  <2> QED BY <1>1, <2>1, MinIsFirst
<1>7. Due(e) # {} => LeavesAt(e) = {<<Min(Due(e)), ReasonAt(e, Min(Due(e)))>>}
  BY DEF LeavesAt, Due
<1>8. LeavesAt(e) = {<<x, ReasonAt(e, x)>>}
  BY <1>5, <1>6, <1>7
<1> QED BY <1>2, <1>3, <1>4, <1>5, <1>8

\* A trade is entered at the first match after the one before was left.
LEMMA EnteredFirst ==
  ASSUME Sound, NEW i \in Nat, NEW e, NEW y, LeftBefore(trades, i, y), First(e, Matches(y))
  PROVE  IF i = 1 THEN e = Min(Matches(0))
         ELSE \E x \in LeavesAt(EntryOf(trades[i - 1])) : e = Min(Matches(x[1]))
<1>1. CASE i = 1
  <2>1. y = 0
    BY <1>1 DEF LeftBefore
  <2>2. Matches(0) \subseteq Int
    BY DEF Matches
  <2> QED BY <1>1, <2>1, <2>2, MinIsFirst
<1>2. CASE i # 1
  <2>1. PICK d : Left(trades[i - 1], d, y)
    BY <1>2 DEF LeftBefore
  <2>2. EntryOf(trades[i - 1]) = d /\ y \in 1..Len(loaded) /\ LeavesAt(d) = {<<y, ReasonAt(d, y)>>}
    BY <2>1, LeftFacts
  <2>3. Matches(y) \subseteq Int
    BY <2>2, QuoteFacts DEF Matches
  <2>4. e = Min(Matches(y))
    BY <2>3, MinIsFirst
  <2>5. <<y, ReasonAt(d, y)>>[1] = y
    OBVIOUS
  <2> QED BY <1>2, <2>2, <2>4, <2>5
<1> QED BY <1>1, <1>2

\* The state of the fold at the end, and what Finish makes of it.
LEMMA AnswerOfFold ==
  ASSUME Sound, trades = Simulate(req, loaded)
  PROVE  \E s : /\ FoldInv(s, Len(loaded)) /\ Len(s.closed) \in Nat
                /\ DOMAIN trades = 1..Len(trades) /\ Len(trades) \in Nat /\ Begins(s.closed, trades)
                /\ Unpriced(req, s, loaded) => trades = s.closed
                /\ ~Unpriced(req, s, loaded) =>
                     trades = Append(s.closed, ClosedTrade(req, s.open, loaded[Len(loaded)], "SESSION_CLOSE"))
                /\ \A k \in 1..Len(trades) : k > Len(s.closed) =>
                     /\ ~Unpriced(req, s, loaded) /\ k = Len(s.closed) + 1
                     /\ trades[k] = ClosedTrade(req, s.open, loaded[Len(loaded)], "SESSION_CLOSE")
<1>1. Len(loaded) \in Nat
  BY QuoteFacts
<1>2. PICK f : Steps(f, req, loaded) /\ trades = Finish(req, f[Len(loaded)], loaded)
  BY <1>1, SimulateSteps
<1> DEFINE s == f[Len(loaded)]
<1>3. FoldInv(s, Len(loaded))
  BY <1>2, FoldAlways
<1>4. Parts(s) /\ trades = Finish(req, s, loaded)
  BY <1>2, <1>3 DEF FoldInv
<1> HIDE DEF s
<1>5. /\ Len(s.closed) \in Nat /\ DOMAIN trades = 1..Len(trades) /\ Len(trades) \in Nat
      /\ Begins(s.closed, trades)
      /\ Unpriced(req, s, loaded) => trades = s.closed
      /\ ~Unpriced(req, s, loaded) =>
           trades = Append(s.closed, ClosedTrade(req, s.open, loaded[Len(loaded)], "SESSION_CLOSE"))
      /\ \A k \in 1..Len(trades) : k > Len(s.closed) =>
           /\ ~Unpriced(req, s, loaded) /\ k = Len(s.closed) + 1
           /\ trades[k] = ClosedTrade(req, s.open, loaded[Len(loaded)], "SESSION_CLOSE")
  BY <1>4, FinishParts
<1> QED BY <1>3, <1>5

\* The position open at the end, when the last quote prices it.
LEMMA OpenAtEnd ==
  ASSUME Sound, NEW s, FoldInv(s, Len(loaded)), ~Unpriced(req, s, loaded)
  PROVE  \E y, e : /\ LeftBefore(s.closed, Len(s.closed) + 1, y) /\ First(e, Matches(y))
                   /\ e \in 1..Len(loaded) /\ Quoted(e) /\ Quoted(Len(loaded)) /\ s.open = Position(loaded[e])
                   /\ LeavesAt(e) = {<<Len(loaded), "SESSION_CLOSE">>}
                   /\ \A j \in Matches(0) : Inside(j, s.closed) \/ j >= e
<1> DEFINE n == Len(loaded)
<1>1. n \in Nat
  BY QuoteFacts
<1>2. s.open # None /\ loaded # <<>> /\ Quoted(n) /\ Follows(req, s.open, loaded[n])
  BY DEF Unpriced, Quoted
<1>3. PICK y \in 0..n : /\ LeftBefore(s.closed, Len(s.closed) + 1, y)
                        /\ IsFlat(s, n, y) \/ \E e : Holds(s, n, y, e)
  BY DEF FoldInv
<1>4. PICK e : Holds(s, n, y, e)
  BY <1>2, <1>3 DEF IsFlat
<1>5. e \in 1..n /\ Quoted(e) /\ s.open = Position(loaded[e])
  <2>1. y \in Nat /\ n \in 0..n
    BY <1>1, <1>3
  <2> QED BY <1>4, <2>1, HoldsEntry
<1>6. n \in Pricing(e)
  <2>1. e <= n /\ n \in 1..n
    BY <1>1, <1>5
  <2> QED BY <1>2, <1>5, <2>1, FollowsIsPricing
<1>7. Due(e) = {}
  <2>1. \A k \in Due(e) : k \in Int /\ k <= n /\ k > n
    BY <1>1, <1>4, <1>5 DEF Holds, Due, Pricing
  <2> QED BY <1>1, <2>1
<1>8. LeavesAt(e) = {<<j, "SESSION_CLOSE">> : j \in Pricing(e) \cap {n}}
  BY <1>7 DEF LeavesAt, Due
<1>9. Pricing(e) \cap {n} = {n}
  BY <1>6
<1>10. LeavesAt(e) = {<<n, "SESSION_CLOSE">>}
  BY <1>8, <1>9
<1>11. \A j \in Matches(0) : Inside(j, s.closed) \/ j >= e
  <2>1. \A j \in Matches(0) : j <= n
    BY <1>1 DEF Matches
  <2> QED BY <1>4, <2>1 DEF Holds
<1> QED BY <1>2, <1>3, <1>4, <1>5, <1>10, <1>11 DEF Holds

LEMMA AnswerAsAsked ==
  ASSUME Sound, trades = Simulate(req, loaded)
  PROVE  TradesAsAsked
<1> DEFINE n == Len(loaded)
<1>1. PICK s : /\ FoldInv(s, n) /\ Len(s.closed) \in Nat
               /\ DOMAIN trades = 1..Len(trades) /\ Begins(s.closed, trades)
               /\ \A k \in 1..Len(trades) : k > Len(s.closed) =>
                    /\ ~Unpriced(req, s, loaded) /\ k = Len(s.closed) + 1
                    /\ trades[k] = ClosedTrade(req, s.open, loaded[n], "SESSION_CLOSE")
  BY AnswerOfFold
<1>2. \A k \in 1..Len(s.closed) : AsAsked(s.closed, k) /\ trades[k] = s.closed[k]
  BY <1>1 DEF FoldInv, Begins
<1>3. ASSUME NEW k \in 1..(Len(s.closed) + 1), NEW y, LeftBefore(s.closed, k, y)
      PROVE  LeftBefore(trades, k, y)
  <2>1. CASE k = 1
    BY <1>3, <2>1 DEF LeftBefore
  <2>2. CASE k # 1
    <3>1. k - 1 \in 1..Len(s.closed)
      BY <1>1, <2>2
    <3> QED BY <1>2, <1>3, <2>2, <3>1 DEF LeftBefore
  <2> QED BY <2>1, <2>2
<1> DEFINE Asked(i, e) ==
      /\ \E x \in LeavesAt(e) : /\ trades[i].exitTime = loaded[x[1]].time
                                /\ trades[i].exitPrice = loaded[x[1]].ltp
                                /\ trades[i].reason = x[2]
      /\ IF i = 1 THEN e = Min(Matches(0))
         ELSE \E x \in LeavesAt(EntryOf(trades[i - 1])) : e = Min(Matches(x[1]))
<1>4. ASSUME NEW i \in 1..Len(trades), i <= Len(s.closed)
      PROVE  Asked(i, EntryOf(trades[i]))
  <2>1. i \in 1..Len(s.closed) /\ i \in 1..(Len(s.closed) + 1) /\ i \in Nat
    BY <1>1, <1>4
  <2>2. PICK e, x, y : Left(trades[i], e, x) /\ LeftBefore(s.closed, i, y) /\ First(e, Matches(y))
    BY <1>2, <2>1 DEF AsAsked
  <2>3. /\ EntryOf(trades[i]) = e /\ LeavesAt(e) = {<<x, ReasonAt(e, x)>>}
        /\ trades[i].exitTime = loaded[x].time /\ trades[i].exitPrice = loaded[x].ltp
        /\ trades[i].reason = ReasonAt(e, x)
    BY <2>2, LeftFacts
  <2>4. LeftBefore(trades, i, y)
    BY <1>3, <2>1, <2>2
  <2>5. IF i = 1 THEN e = Min(Matches(0))
        ELSE \E z \in LeavesAt(EntryOf(trades[i - 1])) : e = Min(Matches(z[1]))
    BY <2>1, <2>2, <2>4, EnteredFirst
  <2>6. <<x, ReasonAt(e, x)>> \in LeavesAt(e)
    BY <2>3
  <2>7. \E z \in LeavesAt(e) : /\ trades[i].exitTime = loaded[z[1]].time
                               /\ trades[i].exitPrice = loaded[z[1]].ltp
                               /\ trades[i].reason = z[2]
    BY <2>3, <2>6
  <2> QED BY <2>3, <2>5, <2>7
<1>5. ASSUME NEW i \in 1..Len(trades), ~(i <= Len(s.closed))
      PROVE  Asked(i, EntryOf(trades[i]))
  <2>1. i > Len(s.closed)
    BY <1>1, <1>5
  <2>2. /\ ~Unpriced(req, s, loaded) /\ i = Len(s.closed) + 1
        /\ trades[i] = ClosedTrade(req, s.open, loaded[n], "SESSION_CLOSE")
    BY <1>1, <2>1
  <2>3. PICK y, e : /\ LeftBefore(s.closed, i, y) /\ First(e, Matches(y))
                    /\ e \in 1..n /\ Quoted(e) /\ s.open = Position(loaded[e])
                    /\ LeavesAt(e) = {<<n, "SESSION_CLOSE">>}
    BY <1>1, <2>2, OpenAtEnd
  <2>4. /\ trades[i].entryTime = loaded[e].time /\ trades[i].strike = loaded[e].strike
        /\ trades[i].type = loaded[e].type
        /\ trades[i].exitTime = loaded[n].time /\ trades[i].exitPrice = loaded[n].ltp
        /\ trades[i].reason = "SESSION_CLOSE"
    BY <2>2, <2>3 DEF ClosedTrade, Position
  <2>5. EntryOf(trades[i]) = e
    BY <2>3, <2>4, EntryIs
  <2>6. i \in 1..(Len(s.closed) + 1) /\ i \in Nat
    BY <1>1, <2>2
  <2>7. LeftBefore(trades, i, y)
    BY <1>3, <2>3, <2>6
  <2>8. IF i = 1 THEN e = Min(Matches(0))
        ELSE \E z \in LeavesAt(EntryOf(trades[i - 1])) : e = Min(Matches(z[1]))
    BY <2>3, <2>6, <2>7, EnteredFirst
  <2>9. <<n, "SESSION_CLOSE">> \in LeavesAt(e)
    BY <2>3
  <2>10. \E z \in LeavesAt(e) : /\ trades[i].exitTime = loaded[z[1]].time
                                /\ trades[i].exitPrice = loaded[z[1]].ltp
                                /\ trades[i].reason = z[2]
    BY <2>4, <2>9
  <2> QED BY <2>5, <2>8, <2>10
<1>6. \A i \in DOMAIN trades : Asked(i, EntryOf(trades[i]))
  BY <1>1, <1>4, <1>5
<1> QED BY <1>6 DEF TradesAsAsked

LEMMA AnswerLosesNone ==
  ASSUME Sound, trades = Simulate(req, loaded)
  PROVE  NoMatchLost
<1> DEFINE n == Len(loaded)
<1> SUFFICES ASSUME NEW j \in Matches(0), Quoted(n), req.strike # None \/ UsesCrossLegFields(req)
             PROVE  \E i \in DOMAIN trades : loaded[j].time \in trades[i].entryTime..trades[i].exitTime
  BY DEF NoMatchLost
<1>1. PICK s : /\ FoldInv(s, n) /\ Len(s.closed) \in Nat
               /\ DOMAIN trades = 1..Len(trades) /\ Len(trades) \in Nat /\ Begins(s.closed, trades)
               /\ ~Unpriced(req, s, loaded) =>
                    trades = Append(s.closed, ClosedTrade(req, s.open, loaded[n], "SESSION_CLOSE"))
  BY AnswerOfFold
<1>2. n \in Nat /\ j \in 1..n /\ Quoted(j) /\ n \in 1..n
  BY QuoteFacts DEF Matches
<1>3. Len(trades) \in Nat
  BY <1>1
<1>4. CASE Inside(j, s.closed)
  <2>1. PICK k \in 1..Len(s.closed) : loaded[j].time \in s.closed[k].entryTime..s.closed[k].exitTime
    BY <1>4 DEF Inside
  <2>2. Begins(s.closed, trades) /\ Len(s.closed) \in Nat
    BY <1>1
  <2>3. k \in 1..Len(trades) /\ trades[k] = s.closed[k]
    BY <1>3, <2>2 DEF Begins
  <2> QED BY <1>1, <2>1, <2>3
<1>5. CASE ~Inside(j, s.closed)
  <2>1. PICK y \in 0..n : IsFlat(s, n, y) \/ \E e : Holds(s, n, y, e)
    BY <1>1 DEF FoldInv
  <2>2. j <= n
    BY <1>2
  <2>3. PICK e : Holds(s, n, y, e)
    BY <1>5, <2>1, <2>2 DEF IsFlat
  <2>4. e \in 1..n /\ Quoted(e) /\ s.open = Position(loaded[e]) /\ s.open # None
    <3>1. y \in Nat /\ n \in 0..n
      BY <1>2, <2>1
    <3> QED BY <2>3, <3>1, HoldsEntry
  <2>5. Follows(req, s.open, loaded[n])
    <3>1. /\ req.strike # None => loaded[n].strike = req.strike /\ loaded[e].strike = req.strike
          /\ loaded[n].type = req.type /\ loaded[e].type = req.type
      BY <1>2, <2>4, QuoteFacts
    <3> QED BY <2>4, <3>1 DEF Follows, Position
  <2>6. ~Unpriced(req, s, loaded)
    <3>1. loaded # <<>>
      BY <1>2
    <3> QED BY <2>4, <2>5, <3>1 DEF Unpriced, Quoted
  <2>7. PICK d : /\ d \in 1..n /\ Quoted(d) /\ s.open = Position(loaded[d])
                 /\ Inside(j, s.closed) \/ j >= d
    BY <1>1, <2>6, OpenAtEnd
  <2> DEFINE trade == ClosedTrade(req, s.open, loaded[n], "SESSION_CLOSE")
  <2>8. trade.entryTime = loaded[d].time /\ trade.exitTime = loaded[n].time
    BY <2>7 DEF ClosedTrade, Position
  <2>9. trades = Append(s.closed, trade)
    BY <1>1, <2>6
  <2> HIDE DEF trade
  <2>10. Len(s.closed) + 1 \in DOMAIN trades /\ trades[Len(s.closed) + 1] = trade
    <3>1. PICK S : s.closed \in Seq(S)
      BY <1>1 DEF FoldInv, Parts
    <3>2. s.closed \in Seq(S \cup {trade})
      BY <3>1
    <3> QED BY <1>1, <2>9, <3>2
  <2>11. loaded[j].time \in loaded[d].time..loaded[n].time
    <3>1. loaded[d].time \in Nat /\ loaded[j].time \in Nat /\ loaded[n].time \in Nat
      BY <1>2, <2>7, QuoteFacts
    <3>2. d < j => loaded[d].time <= loaded[j].time
      BY <1>2, <2>7, QuoteFacts
    <3>3. j < n => loaded[j].time <= loaded[n].time
      BY <1>2, QuoteFacts
    <3>4. (d < j \/ d = j) /\ (j < n \/ j = n)
      BY <1>2, <1>5, <2>7
    <3> QED BY <3>1, <3>2, <3>3, <3>4
  <2> QED BY <2>8, <2>10, <2>11
<1> QED BY <1>4, <1>5


-----------------------------------------------------------------------------
(* The theorems *)

\* The rows of a day, of all its minutes.
Chains == [Minutes -> [DOMAIN Options -> [ltp : Int, oi : Int] \cup {None}]]
Changes == [Minutes -> [DOMAIN Options -> Int \cup {None}]]

\* What was there of a table is there still.
Still(was, is) == \A t \in Minutes : was[t] = Nothing \/ is[t] = was[t]

\* The inductive invariant: the answer is that of the day last looked at, or there is none
\* yet; what Run fetched, and the rows of the day it last looked at, were stored by then,
\* and are not changed any more.
BacktestInv ==
  /\ chain \in Chains /\ oiEvents \in Changes /\ fetched \in Chains
  /\ req \in Requests
  /\ Still(fetched, chain)
  /\ \E someRows \in Chains, changes \in Changes :
        /\ looked = Joined(someRows, changes)
        /\ Still(someRows, chain) /\ Still(changes, oiEvents)
  /\ loaded = QuotesOf(req, looked) \/ loaded = <<>>
  /\ trades = Simulate(req, loaded)

LEMMA JoinedIsDay ==
  ASSUME NEW someRows \in Chains, NEW changes \in Changes
  PROVE  Joined(someRows, changes) \in Days /\ Len(Joined(someRows, changes)) = MaxMinutes
<1> DEFINE d == Joined(someRows, changes)
<1>1. MaxMinutes \in Nat /\ Minutes = 1..MaxMinutes
  BY BacktestAssumption DEF Minutes
<1>2. ASSUME NEW t \in Minutes, NEW o \in DOMAIN Options, someRows[t][o] # None
      PROVE  [ltp |-> someRows[t][o].ltp, oi |-> someRows[t][o].oi, event |-> changes[t][o]] \in Stores
  <2>1. someRows[t][o] \in [ltp : Int, oi : Int] /\ changes[t][o] \in Int \cup {None}
    BY <1>2 DEF Chains, Changes
  <2> QED BY <2>1 DEF Stores
<1>3. d \in [1..MaxMinutes -> [DOMAIN Options -> Stores \cup {None}]]
  BY <1>1, <1>2 DEF Joined
<1> HIDE DEF d
<1>4. d \in Seq([DOMAIN Options -> Stores \cup {None}]) /\ Len(d) = MaxMinutes
  BY <1>1, <1>3
<1> QED BY <1>4 DEF d, Days

LEMMA LookedIsDay ==
  ASSUME BacktestInv
  PROVE  looked \in Days /\ Len(looked) = MaxMinutes
BY JoinedIsDay DEF BacktestInv

LEMMA NothingLoaded ==
  ASSUME NEW r
  PROVE  GoodQuotes(r, <<>>) /\ Simulate(r, <<>>) = <<>>
<1>1. <<>> \in Seq({}) /\ Len(<<>>) = 0
  OBVIOUS
<1>2. GoodQuotes(r, <<>>)
  BY <1>1 DEF GoodQuotes
<1>3. PICK f : Steps(f, r, <<>>) /\ Simulate(r, <<>>) = Finish(r, f[0], <<>>)
  BY <1>1, SimulateSteps
<1>4. f[0] = Flat
  BY <1>3 DEF Steps
<1>5. Finish(r, Flat, <<>>) = <<>>
  BY FlatParts DEF Finish
<1> QED BY <1>2, <1>3, <1>4, <1>5

\* What the theorems about an answer need.
LEMMA AnswerIsSound ==
  ASSUME BacktestInv
  PROVE  Sound /\ trades = Simulate(req, loaded)
<1>1. GoodQuotes(req, QuotesOf(req, looked))
  BY LookedIsDay, QuotesAreGood
<1> QED BY <1>1, NothingLoaded DEF BacktestInv, Sound

LEMMA BacktestInvInit ==
  BacktestInit => BacktestInv
<1> SUFFICES ASSUME BacktestInit PROVE BacktestInv
  OBVIOUS
<1> DEFINE empty == [t \in Minutes |-> Nothing]
<1>1. empty \in Chains /\ empty \in Changes
  BY DEF Chains, Changes, Nothing
<1>2. /\ chain = empty /\ oiEvents = empty /\ fetched = empty /\ looked = Joined(empty, empty)
      /\ req \in Requests /\ loaded = <<>> /\ trades = <<>>
  BY DEF BacktestInit
<1> HIDE DEF empty
<1>3. Still(empty, empty)
  BY DEF Still
<1> QED BY <1>1, <1>2, <1>3, NothingLoaded DEF BacktestInv

\* Of a table whose minute t gets its rows, what was there is there still.
LEMMA StillThere ==
  ASSUME NEW was, NEW is, NEW S, is \in [Minutes -> S], Still(was, is), NEW t \in Minutes, is[t] = Nothing, NEW batch
  PROVE  Still(was, [is EXCEPT ![t] = batch])
<1> DEFINE new == [is EXCEPT ![t] = batch]
<1> SUFFICES ASSUME NEW u \in Minutes, was[u] # Nothing PROVE new[u] = was[u]
  BY DEF Still
<1>1. is[u] = was[u]
  BY DEF Still
<1>2. u # t
  BY <1>1
<1> QED BY <1>1, <1>2

LEMMA SaveKeepsInv ==
  ASSUME BacktestInv, NEW t \in Minutes, SaveOptionsBatch(t) \/ SaveOIEvents(t)
  PROVE  BacktestInv'
<1>1. UNCHANGED <<req, fetched, looked, loaded, trades>>
  BY DEF SaveOptionsBatch, SaveOIEvents, answerVars
<1>2. PICK someRows \in Chains, changes \in Changes :
        looked = Joined(someRows, changes) /\ Still(someRows, chain) /\ Still(changes, oiEvents)
  BY DEF BacktestInv
<1>3. /\ chain \in Chains /\ oiEvents \in Changes /\ fetched \in Chains /\ Still(fetched, chain)
  BY DEF BacktestInv
<1>4. CASE SaveOptionsBatch(t)
  <2>1. PICK batch \in Batches : chain' = [chain EXCEPT ![t] = batch]
    BY <1>4 DEF SaveOptionsBatch
  <2>2. chain[t] = Nothing /\ oiEvents' = oiEvents
    BY <1>4 DEF SaveOptionsBatch
  <2>3. batch \in [DOMAIN Options -> [ltp : Int, oi : Int] \cup {None}]
    BY BacktestAssumption
  <2>4. chain' \in Chains
    BY <1>3, <2>1, <2>3 DEF Chains
  <2>5. Still(fetched, chain') /\ Still(someRows, chain')
    BY <1>2, <1>3, <2>1, <2>2, StillThere DEF Chains
  <2> QED BY <1>1, <1>2, <1>3, <2>2, <2>4, <2>5 DEF BacktestInv, Still
<1>5. CASE SaveOIEvents(t)
  <2>1. PICK found \in Events : oiEvents' = [oiEvents EXCEPT ![t] = found]
    BY <1>5 DEF SaveOIEvents
  <2>2. oiEvents[t] = Nothing /\ chain' = chain
    BY <1>5 DEF SaveOIEvents
  <2>3. found \in [DOMAIN Options -> Int \cup {None}]
    BY BacktestAssumption
  <2>4. oiEvents' \in Changes
    BY <1>3, <2>1, <2>3 DEF Changes
  <2>5. Still(changes, oiEvents')
    BY <1>2, <1>3, <2>1, <2>2, StillThere DEF Changes
  <2> QED BY <1>1, <1>2, <1>3, <2>2, <2>4, <2>5 DEF BacktestInv, Still
<1> QED BY <1>4, <1>5

LEMMA QueryKeepsInv ==
  ASSUME BacktestInv, QueryRows
  PROVE  BacktestInv'
<1>1. fetched' = chain /\ UNCHANGED <<chain, oiEvents, req, looked, loaded, trades>>
  BY DEF QueryRows, storeVars, answerVars
<1>2. Still(chain, chain)
  BY DEF Still
<1> QED BY <1>1, <1>2 DEF BacktestInv, Still

LEMMA RunKeepsInv ==
  ASSUME BacktestInv, Run
  PROVE  BacktestInv'
<1>1. /\ chain \in Chains /\ oiEvents \in Changes /\ fetched \in Chains /\ req \in Requests
      /\ Still(fetched, chain)
  BY DEF BacktestInv
<1>2. /\ looked' = Joined(fetched, oiEvents) /\ loaded' = QuotesOf(req, looked')
      /\ trades' = Simulate(req, loaded') /\ fetched' = [t \in Minutes |-> Nothing]
      /\ UNCHANGED <<chain, oiEvents, req>>
  BY DEF Run, storeVars
<1>3. fetched' \in Chains
  BY <1>2 DEF Chains, Nothing
<1>4. Still(fetched, chain)' /\ Still(oiEvents, oiEvents)
  BY <1>2 DEF Still
<1> QED BY <1>1, <1>2, <1>3, <1>4 DEF BacktestInv, Still

\* Engine.Run answers by the fold over a day all of whose rows and changes were stored, and
\* have stayed as they were looked at: only what had not arrived yet is missing from it.
THEOREM BacktestInvAlways ==
  BacktestSpec => []BacktestInv
<1>1. BacktestInv /\ [BacktestNext]_backtestVars => BacktestInv'
  <2> SUFFICES ASSUME BacktestInv, [BacktestNext]_backtestVars PROVE BacktestInv'
    OBVIOUS
  <2>1. CASE \E t \in Minutes : SaveOptionsBatch(t) \/ SaveOIEvents(t)
    BY <2>1, SaveKeepsInv
  <2>2. CASE QueryRows
    BY <2>2, QueryKeepsInv
  <2>3. CASE Run
    BY <2>3, RunKeepsInv
  <2>4. CASE UNCHANGED backtestVars
    BY <2>4 DEF backtestVars, storeVars, answerVars, BacktestInv, Still
  <2> QED BY <2>1, <2>2, <2>3, <2>4 DEF BacktestNext
<1> QED BY <1>1, BacktestInvInit, PTL DEF BacktestSpec

\* simulate and simulateTicks answer what was asked for: every trade is entered at the first
\* match after the one before was left, and left at the first quote that gives a reason to.
THEOREM TradesAlwaysAsAsked ==
  BacktestSpec => []TradesAsAsked
<1>1. BacktestInv => TradesAsAsked
  BY AnswerIsSound, AnswerAsAsked
<1> QED BY <1>1, BacktestInvAlways, PTL

\* No match of the entry rule is lost when the last quote is one that any position is priced by.
THEOREM MatchesNeverLost ==
  BacktestSpec => []NoMatchLost
<1>1. BacktestInv => NoMatchLost
  BY AnswerIsSound, AnswerLosesNone
<1> QED BY <1>1, BacktestInvAlways, PTL

\* Two days that agree up to the minute x, and their common beginning.
LEMMA CommonDay ==
  ASSUME NEW d \in Days, NEW e \in Days, NEW x \in Nat, x <= Len(d), x <= Len(e),
         \A t \in 1..x : e[t] = d[t]
  PROVE  \E c \in Days : Len(c) = x /\ Begins(c, d) /\ Begins(c, e)
<1> DEFINE S == [DOMAIN Options -> Stores \cup {None}]
           c == [t \in 1..x |-> d[t]]
<1> HIDE DEF S
<1>1. d \in Seq(S)
  BY DEF Days, S
<1>2. c \in Seq(S) /\ Len(c) = x /\ \A t \in 1..x : c[t] = d[t]
  BY <1>1
<1> HIDE DEF c
<1> QED BY <1>2 DEF Begins, Days, S

\* The quotes of a day are of its minutes.
LEMMA QuotesInDay ==
  ASSUME NEW r, NEW day \in Days
  PROVE  \A i \in 1..Len(QuotesOf(r, day)) :
            QuotesOf(r, day)[i] # None => QuotesOf(r, day)[i].time \in 1..Len(day)
<1> DEFINE rows == LoadRows(r, day)
           L == QuotesOf(r, day)
<1>1. rows \in Seq(Rows) /\ \A i \in 1..Len(rows) : rows[i].time \in 1..Len(day)
  BY LoadedRows
<1>2. CASE ~UsesCrossLegFields(r)
  <2>1. L = [i \in DOMAIN rows |-> RowQuote(rows[i])]
    BY <1>2 DEF QuotesOf
  <2> HIDE DEF L, rows
  <2>2. Len(L) = Len(rows) /\ \A i \in 1..Len(rows) : L[i] = RowQuote(rows[i])
    BY <1>1, <2>1
  <2> QED BY <1>1, <2>2, RowQuoteParts DEF L
<1>3. CASE UsesCrossLegFields(r)
  <2> DEFINE ticks == [i \in DOMAIN rows |-> TickAt(rows, r.type, i)]
             starts == {i \in DOMAIN rows : Starts(rows, i)}
             S == {TickAt(rows, r.type, i) : i \in DOMAIN rows}
  <2>1. L = Chosen(ticks, starts)
    BY <1>3 DEF QuotesOf, BuildTicks
  <2> HIDE DEF L, rows
  <2>2. ticks \in Seq(S) /\ Len(ticks) = Len(rows) /\ \A i \in 1..Len(rows) : ticks[i] = TickAt(rows, r.type, i)
    BY <1>1
  <2> HIDE DEF ticks, starts, S
  <2>3. PICK index : \A j \in 1..Len(L) : index[j] \in 1..Len(ticks) /\ L[j] = ticks[index[j]]
    <3>1. \E index : Picks(index, L, ticks, starts, Len(ticks))
      BY <2>1, <2>2, ChosenAt
    <3> QED BY <3>1 DEF Picks
  <2>4. ASSUME NEW j \in 1..Len(L), L[j] # None PROVE L[j].time \in 1..Len(day)
    <3>1. PICK i \in 1..Len(rows) : L[j] = TickAt(rows, r.type, i)
      BY <2>2, <2>3
    <3>2. L[j].time = rows[i].time
      BY <1>1, <2>4, <3>1, TickOfRow
    <3> QED BY <1>1, <3>2
  <2> QED BY <2>4 DEF L
<1> QED BY <1>2, <1>3

\* A trade that did not end with the day was left at one of its quotes.
LEMMA LeftInDay ==
  ASSUME BacktestInv, NEW i \in DOMAIN trades, trades[i].reason # "SESSION_CLOSE"
  PROVE  loaded = QuotesOf(req, looked) /\ trades[i].exitTime \in 1..MaxMinutes
<1>1. Sound /\ trades = Simulate(req, loaded)
  BY AnswerIsSound
<1>2. PICK s : /\ FoldInv(s, Len(loaded)) /\ Len(s.closed) \in Nat
               /\ DOMAIN trades = 1..Len(trades) /\ Begins(s.closed, trades)
               /\ \A k \in 1..Len(trades) : k > Len(s.closed) =>
                    trades[k] = ClosedTrade(req, s.open, loaded[Len(loaded)], "SESSION_CLOSE")
  BY <1>1, AnswerOfFold
<1>3. i \in 1..Len(s.closed) /\ trades[i] = s.closed[i]
  <2>1. ~(i > Len(s.closed))
    BY <1>2 DEF ClosedTrade
  <2> QED BY <1>2, <2>1 DEF Begins
<1>4. PICK e, x : Left(trades[i], e, x)
  BY <1>2, <1>3 DEF FoldInv, AsAsked
<1>5. x \in 1..Len(loaded) /\ trades[i].exitTime = loaded[x].time
  BY <1>1, <1>4, LeftFacts
<1>6. Quoted(x)
  BY <1>4 DEF Left, First, Due, Pricing
<1>7. loaded = QuotesOf(req, looked)
  <2>1. loaded # <<>>
    BY <1>5
  <2> QED BY <2>1 DEF BacktestInv
<1>8. loaded[x].time \in 1..Len(looked)
  BY <1>5, <1>6, <1>7, LookedIsDay, QuotesInDay DEF Quoted
<1> QED BY <1>5, <1>7, <1>8, LookedIsDay

LEMMA RunKeepsTrade ==
  ASSUME BacktestInv, BacktestInv', Run, NEW i \in DOMAIN trades, trades[i].reason # "SESSION_CLOSE",
         \A t \in 1..trades[i].exitTime : looked'[t] = looked[t]
  PROVE  i \in DOMAIN trades' /\ trades'[i] = trades[i]
<1>1. loaded = QuotesOf(req, looked) /\ trades[i].exitTime \in 1..MaxMinutes /\ MaxMinutes \in Nat
  BY LeftInDay, BacktestAssumption
<1>2. PICK x \in Nat : x = trades[i].exitTime /\ x <= MaxMinutes
  BY <1>1
<1>3. looked \in Days /\ Len(looked) = MaxMinutes
  BY LookedIsDay
<1>4. looked' \in Days /\ Len(looked') = MaxMinutes
  <2>1. fetched \in Chains /\ oiEvents \in Changes /\ looked' = Joined(fetched, oiEvents)
    BY DEF Run, BacktestInv
  <2> QED BY <2>1, JoinedIsDay
<1>5. PICK d : d = looked'
  OBVIOUS
<1>6. PICK c \in Days : Len(c) = x /\ Begins(c, looked) /\ Begins(c, d)
  BY <1>2, <1>3, <1>4, <1>5, CommonDay
<1> DEFINE A == QuotesOf(req, looked)
           B == QuotesOf(req, d)
           C == QuotesOf(req, c)
<1>7. trades = Simulate(req, A) /\ trades' = Simulate(req, B)
  BY <1>1, <1>5 DEF BacktestInv, Run
<1>8. Len(A) \in Nat /\ Len(B) \in Nat /\ Len(C) \in Nat
  BY <1>3, <1>4, <1>5, <1>6, QuotesAreGood DEF GoodQuotes
<1>9. /\ Begins(C, A) /\ \A k \in 1..Len(A) : k > Len(C) /\ A[k] # None => A[k].time > x
      /\ Begins(C, B)
  BY <1>3, <1>4, <1>5, <1>6, QuotesBegin
<1> HIDE DEF A, B, C
<1>10. ~(trades[i].exitTime > x)
  BY <1>2
<1> QED BY <1>7, <1>8, <1>9, <1>10, TradesKept

\* A trade left by the end of its exit's minute is in every answer of a day that is the same
\* up to then, whatever had arrived of later minutes when either was given, and in whatever
\* order rows and changes are inserted.
THEOREM NeverLooksAhead ==
  BacktestSpec => NoLookAhead
<1> DEFINE Kept ==
      \A i \in DOMAIN trades :
          /\ trades[i].reason # "SESSION_CLOSE"
          /\ \A t \in 1..trades[i].exitTime : looked'[t] = looked[t]
          => i \in DOMAIN trades' /\ trades'[i] = trades[i]
<1>1. BacktestInv /\ BacktestInv' /\ [BacktestNext]_backtestVars => [Kept]_backtestVars
  <2> SUFFICES ASSUME BacktestInv, BacktestInv', [BacktestNext]_backtestVars PROVE Kept
    OBVIOUS
  <2>1. CASE Run
    BY <2>1, RunKeepsTrade
  <2>2. CASE QueryRows \/ \E t \in Minutes : SaveOptionsBatch(t) \/ SaveOIEvents(t)
    BY <2>2 DEF QueryRows, SaveOptionsBatch, SaveOIEvents, answerVars
  <2>3. CASE UNCHANGED backtestVars
    BY <2>3 DEF backtestVars, answerVars
  <2> QED BY <2>1, <2>2, <2>3 DEF BacktestNext
<1> QED BY <1>1, BacktestInvAlways, PTL DEF NoLookAhead, BacktestSpec
=============================================================================
