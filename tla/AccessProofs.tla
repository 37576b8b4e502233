----------------------------- MODULE AccessProofs -----------------------------
(***************************************************************************)
(* Proofs about Access, for any number of requests in flight, and of       *)
(* passwords, codes, sessions and tokens.  Two groups of facts are         *)
(* inductive, and independent of one another: one about codes and          *)
(* sessions, one about the broker's tokens.                                *)
(***************************************************************************)
EXTENDS Access, SequenceTheorems, TLAPS

\* A request between the SELECT of VerifyEmailOTP and the INSERT of a session.
Verifying(h) == request[h].pc \in {"consume", "create session"}

\* A request that holds a token the broker has given and no table has yet.
Holding(h) == request[h].pc \in {"linked", "store token"}

\* A request between the stored token and the runtime.
Applying(h) == request[h].pc \in {"store row", "load", "ensure"}

VerifiedCode ==
  \A h \in Handlers :
    /\ Verifying(h) => request[h].n \in 1..Len(codes)
    /\ At(h, "create session") => codes[request[h].n].consumed

\* Who verifies the same code as another, or a code that has made a session, has
\* selected it before the other consumed it.
Exclusive ==
  /\ \A g, h \in Handlers : Verifying(g) /\ Verifying(h) /\ request[g].n = request[h].n =>
       g = h \/ request[h].n \in shared
  /\ \A h \in Handlers, i \in 1..Len(sessions) :
       Verifying(h) /\ sessions[i].code = request[h].n => request[h].n \in shared

CodeInv == VerifiedCode /\ Exclusive /\ OneSessionPerCode

HeldToken ==
  \A h \in Handlers :
    /\ Holding(h) \/ At(h, "ensure") => request[h].n \in 1..given
    /\ Holding(h) /\ callbacks = {} => request[h].n = given
    /\ At(h, "ensure") => token # None
    /\ At(h, "ensure") /\ callbacks = {} => request[h].n <= token
    /\ At(h, "ensure") /\ callbacks = {} /\ ~late => request[h].n = token

OneCallback ==
  callbacks = {} => \A g, h \in Handlers : InCallback(g) /\ InCallback(h) => g = h

NewestOnItsWay ==
  callbacks = {} /\ ~lost /\ given > 0 => token = given \/ \E h \in Handlers : Holding(h)

TokenOnItsWay ==
  callbacks = {} /\ ~late /\ runtime # None => runtime = token \/ \E h \in Handlers : Applying(h)

BrokerInv == HeldToken /\ OneCallback /\ NewestOnItsWay /\ TokenOnItsWay /\ LinkedHasToken /\ RuntimeNotAhead

-----------------------------------------------------------------------------
(* Types                                                                   *)

LEMMA GotoTypes ==
  ASSUME TypeOK, NEW h \in Handlers, NEW pc \in Stages, NEW n \in Nat, Goto(h, pc, n)
  PROVE  request' \in [Handlers -> [pc : Stages, n : Nat]]
BY DEF TypeOK, Goto

\* What a request's move changes.
LEMMA Moves ==
  ASSUME TypeOK, NEW h \in Handlers, NEW pc, NEW n, Goto(h, pc, n)
  PROVE  /\ request'[h].pc = pc /\ request'[h].n = n
         /\ \A g \in Handlers \ {h} : request'[g] = request[g]
BY DEF TypeOK, Goto

LEMMA Ends ==
  ASSUME TypeOK, NEW h \in Handlers, Finish(h)
  PROVE  request'[h].pc = "idle" /\ \A g \in Handlers \ {h} : request'[g] = request[g]
BY DEF TypeOK, Finish, Idle

LEMMA FinishTypes ==
  ASSUME TypeOK, NEW h \in Handlers, Finish(h)
  PROVE  request' \in [Handlers -> [pc : Stages, n : Nat]]
BY DEF TypeOK, Finish, Idle, Stages

\* A code is added at the end.
LEMMA AppendCode ==
  ASSUME TypeOK, NEW c \in Codes, codes' = Append(codes, c)
  PROVE  /\ codes' \in Seq(Codes) /\ Len(codes') = Len(codes) + 1 /\ Len(codes) \in Nat
         /\ \A i \in 1..Len(codes) : codes'[i] = codes[i]
<1>1. codes \in Seq(Codes)
  BY DEF TypeOK
<1> QED BY <1>1, AppendProperties, LenProperties

\* A code is changed in place: the number of codes stays.
LEMMA ChangeCode ==
  ASSUME TypeOK, NEW i \in 1..Len(codes), NEW c \in Codes, codes' = [codes EXCEPT ![i] = c]
  PROVE  /\ codes' \in Seq(Codes) /\ Len(codes') = Len(codes)
         /\ \A j \in 1..Len(codes) : codes'[j] = IF j = i THEN c ELSE codes[j]
<1>1. codes \in Seq(Codes)
  BY DEF TypeOK
<1> QED BY <1>1, ExceptSeq

LEMMA AppendSession ==
  ASSUME TypeOK, NEW s \in Sessions, sessions' = Append(sessions, s)
  PROVE  /\ sessions' \in Seq(Sessions) /\ Len(sessions') = Len(sessions) + 1 /\ Len(sessions) \in Nat
         /\ \A i \in 1..Len(sessions) : sessions'[i] = sessions[i]
         /\ sessions'[Len(sessions) + 1] = s
<1>1. sessions \in Seq(Sessions)
  BY DEF TypeOK
<1> QED BY <1>1, AppendProperties, LenProperties

LEMMA ChangeSession ==
  ASSUME TypeOK, NEW i \in 1..Len(sessions), NEW s \in Sessions, sessions' = [sessions EXCEPT ![i] = s]
  PROVE  /\ sessions' \in Seq(Sessions) /\ Len(sessions') = Len(sessions)
         /\ \A j \in 1..Len(sessions) : sessions'[j] = IF j = i THEN s ELSE sessions[j]
<1>1. sessions \in Seq(Sessions)
  BY DEF TypeOK
<1> QED BY <1>1, ExceptSeq

LEMMA InitType == Init => TypeOK
<1> SUFFICES ASSUME Init PROVE TypeOK
  OBVIOUS
<1>1. /\ codes \in Seq(Codes) /\ Len(codes) = 0
      /\ sessions \in Seq(Sessions) /\ Len(sessions) = 0
  BY EmptySeq DEF Init
<1>2. request \in [Handlers -> [pc : Stages, n : Nat]]
  BY DEF Init, Idle, Stages
<1>3. MaxPassword \in Nat /\ MaxCode \in Nat /\ MaxSession \in Nat /\ MaxToken \in Nat
  BY AccessAssumption
<1>4. password \in 0..MaxPassword /\ given \in 0..MaxToken
  BY <1>3 DEF Init
<1>5. {lost, late} \subseteq BOOLEAN /\ stateValid \in BOOLEAN
  BY DEF Init
<1>6. shared \subseteq 1..Len(codes) /\ callbacks \subseteq Handlers
  BY DEF Init
<1>7. \A i \in 1..Len(sessions) : sessions[i].code \in 1..Len(codes)
  BY <1>1
<1>8. /\ account \in {None, "pending", "linking", "linked"}
      /\ token \in {None} \cup 1..given /\ runtime \in {None} \cup 1..given
      /\ row \in {None, "linked", "running"}
  BY DEF Init
<1> QED BY <1>1, <1>2, <1>3, <1>4, <1>5, <1>6, <1>7, <1>8 DEF TypeOK

LEMMA TypeRequests ==
  ASSUME TypeOK, NEW h \in Handlers, Handle(h)
  PROVE  request' \in [Handlers -> [pc : Stages, n : Nat]]
<1>1. request[h].n \in Nat /\ given \in Nat /\ given + 1 \in Nat /\ (token # None => token \in Nat)
  BY AccessAssumption DEF TypeOK
<1>2. CASE \/ Goto(h, "save code", 0) \/ Goto(h, "pending", 0) \/ Goto(h, "exchange", 0)
           \/ Goto(h, "store row", 0) \/ Goto(h, "load", 0)
  BY <1>2, GotoTypes DEF Stages
<1>3. CASE \/ Goto(h, "create session", request[h].n) \/ Goto(h, "store token", request[h].n)
           \/ Goto(h, "linked", given + 1)
  BY <1>1, <1>3, GotoTypes DEF Stages
<1>4. CASE Finish(h)
  BY <1>4, FinishTypes
<1>5. CASE UNCHANGED request
  BY <1>5 DEF TypeOK
<1>6. CASE \E typed \in 1..MaxCode : Goto(h, "consume", typed)
  <2>1. PICK typed \in 1..MaxCode : Goto(h, "consume", typed)
    BY <1>6
  <2>2. typed \in Nat /\ "consume" \in Stages
    BY AccessAssumption DEF Stages
  <2> QED BY <2>1, <2>2, GotoTypes
<1>7. CASE token # None /\ Goto(h, "ensure", token)
  BY <1>1, <1>7, GotoTypes DEF Stages
<1>8. CASE \/ \E p \in 1..MaxPassword : Login(h, p)
           \/ ResendOTP(h) \/ SaveEmailOTP(h) \/ \E typed \in 1..MaxCode : SelectCode(h, typed)
           \/ ConsumeCode(h) \/ CreateSession(h) \/ ConnectStart(h) \/ StorePending(h)
  BY <1>2, <1>3, <1>4, <1>6, <1>8
     DEF Login, ResendOTP, SaveEmailOTP, SelectCode, ConsumeCode, CreateSession, ConnectStart, StorePending
<1>9. CASE Callback(h) \/ ExchangeAuthCode(h) \/ StoreLinked(h) \/ UpsertFyersToken(h)
  BY <1>2, <1>3, <1>4, <1>5, <1>9 DEF Callback, ExchangeAuthCode, StoreLinked, UpsertFyersToken
<1>10. CASE StoreRow(h) \/ LoadConfig(h) \/ EnsureUserRuntime(h)
  BY <1>2, <1>4, <1>7, <1>10 DEF StoreRow, LoadConfig, EnsureUserRuntime
<1> QED BY <1>8, <1>9, <1>10 DEF Handle

\* The steps that work on passwords, codes and sessions.
LEMMA TypeSignIn ==
  ASSUME TypeOK, VerifiedCode, NEW h \in Handlers, request' \in [Handlers -> [pc : Stages, n : Nat]],
         \/ \E p \in 1..MaxPassword : Login(h, p)
         \/ ResendOTP(h) \/ SaveEmailOTP(h) \/ \E typed \in 1..MaxCode : SelectCode(h, typed)
         \/ ConsumeCode(h) \/ CreateSession(h)
  PROVE  TypeOK'
<1>1. CASE ResendOTP(h) \/ \E p \in 1..MaxPassword : Login(h, p)
  BY <1>1 DEF Login, ResendOTP, TypeOK, db, broker, history
<1>2. CASE SaveEmailOTP(h)
  <2>1. CASE UNCHANGED codes
    BY <1>2, <2>1 DEF SaveEmailOTP, TypeOK, broker, history
  <2>2. CASE Len(codes) < MaxCode /\ codes' = Append(codes, [consumed |-> FALSE, expired |-> FALSE])
    <3>1. [consumed |-> FALSE, expired |-> FALSE] \in Codes
      BY DEF Codes
    <3>2. codes' \in Seq(Codes) /\ Len(codes') = Len(codes) + 1 /\ Len(codes) \in Nat
      BY <2>2, <3>1, AppendCode
    <3>3. Len(codes') <= MaxCode /\ 1..Len(codes) \subseteq 1..Len(codes')
      BY <2>2, <3>2, AccessAssumption
    <3> QED BY <1>2, <3>2, <3>3 DEF SaveEmailOTP, TypeOK, broker, history
  <2> QED BY <1>2, <2>1, <2>2 DEF SaveEmailOTP
<1>3. CASE \E typed \in 1..MaxCode : SelectCode(h, typed)
  <2>1. PICK typed \in 1..MaxCode : SelectCode(h, typed)
    BY <1>3
  <2>2. typed \in 1..Len(codes)
    BY <2>1 DEF SelectCode, Newest, Open
  <2>3. shared' \subseteq 1..Len(codes)
    BY <2>1, <2>2 DEF SelectCode, TypeOK
  <2> QED BY <2>1, <2>3 DEF SelectCode, TypeOK, db, broker
<1>4. CASE ConsumeCode(h)
  <2>1. CASE UNCHANGED codes
    BY <1>4, <2>1 DEF ConsumeCode, TypeOK, broker, history
  <2>2. CASE codes' = [codes EXCEPT ![request[h].n] = Consumed(@)]
    <3>1. request[h].n \in 1..Len(codes)
      BY <1>4 DEF ConsumeCode, VerifiedCode, Verifying, At
    <3>2. Consumed(codes[request[h].n]) \in Codes
      BY <3>1, ElementOfSeq DEF TypeOK, Codes, Consumed
    <3>3. codes' \in Seq(Codes) /\ Len(codes') = Len(codes)
      BY <2>2, <3>1, <3>2, ChangeCode
    <3> QED BY <1>4, <3>3 DEF ConsumeCode, TypeOK, broker, history
  <2> QED BY <1>4, <2>1, <2>2 DEF ConsumeCode
<1>5. CASE CreateSession(h)
  <2>1. CASE UNCHANGED sessions
    BY <1>5, <2>1 DEF CreateSession, TypeOK, broker, history
  <2>2. CASE /\ Len(sessions) < MaxSession
             /\ sessions' = Append(sessions, [code |-> request[h].n, state |-> "valid"])
    <3>1. request[h].n \in 1..Len(codes) /\ Len(codes) \in Nat
      BY <1>5, LenProperties DEF CreateSession, VerifiedCode, Verifying, At, TypeOK
    <3>2. [code |-> request[h].n, state |-> "valid"] \in Sessions
      BY <3>1 DEF Sessions
    <3>3. /\ sessions' \in Seq(Sessions) /\ Len(sessions') = Len(sessions) + 1 /\ Len(sessions) \in Nat
          /\ \A i \in 1..Len(sessions) : sessions'[i] = sessions[i]
          /\ sessions'[Len(sessions) + 1] = [code |-> request[h].n, state |-> "valid"]
      BY <2>2, <3>2, AppendSession
    <3>4. Len(sessions') <= MaxSession
      BY <2>2, <3>3, AccessAssumption
    <3>5. \A i \in 1..Len(sessions') : sessions'[i].code \in 1..Len(codes)
      <4> SUFFICES ASSUME NEW i \in 1..Len(sessions') PROVE sessions'[i].code \in 1..Len(codes)
        OBVIOUS
      <4>1. CASE i = Len(sessions) + 1
        BY <3>1, <3>3, <4>1
      <4>2. CASE i \in 1..Len(sessions)
        BY <3>3, <4>2 DEF TypeOK
      <4> QED BY <3>3, <4>1, <4>2
    <3> QED BY <1>5, <3>3, <3>4, <3>5 DEF CreateSession, TypeOK, broker, history
  <2> QED BY <1>5, <2>1, <2>2 DEF CreateSession
<1> QED BY <1>1, <1>2, <1>3, <1>4, <1>5

\* The steps that work on the broker's account and tokens.
LEMMA TypeLink ==
  ASSUME TypeOK, HeldToken, NEW h \in Handlers, request' \in [Handlers -> [pc : Stages, n : Nat]],
         \/ ConnectStart(h) \/ StorePending(h) \/ Callback(h) \/ ExchangeAuthCode(h) \/ StoreLinked(h)
         \/ UpsertFyersToken(h) \/ StoreRow(h) \/ LoadConfig(h) \/ EnsureUserRuntime(h)
  PROVE  TypeOK'
<1>1. CASE ConnectStart(h)
  BY <1>1 DEF ConnectStart, TypeOK, db, broker, history
<1>2. CASE StorePending(h)
  BY <1>2 DEF StorePending, TypeOK, db, history
<1>3. CASE Callback(h)
  <2>1. callbacks' \subseteq Handlers
    BY <1>3 DEF Callback, TypeOK
  <2> QED BY <1>3, <2>1 DEF Callback, TypeOK, db
<1>4. CASE ExchangeAuthCode(h)
  <2>1. given \in Nat /\ given' \in 0..MaxToken /\ 1..given \subseteq 1..given'
    BY <1>4, AccessAssumption DEF ExchangeAuthCode, TypeOK
  <2> QED BY <1>4, <2>1 DEF ExchangeAuthCode, TypeOK, db, history
<1>5. CASE StoreLinked(h)
  BY <1>5 DEF StoreLinked, TypeOK, db
<1>6. CASE UpsertFyersToken(h)
  <2>1. request[h].n \in 1..given
    BY <1>6 DEF UpsertFyersToken, HeldToken, Holding, At
  <2>2. late' \in BOOLEAN /\ lost' \in BOOLEAN
    BY <1>6 DEF UpsertFyersToken, TypeOK
  <2> QED BY <1>6, <2>1, <2>2 DEF UpsertFyersToken, TypeOK, db
<1>7. CASE StoreRow(h)
  BY <1>7 DEF StoreRow, TypeOK, db
<1>8. CASE LoadConfig(h)
  <2>1. late' \in BOOLEAN
    BY <1>8 DEF LoadConfig, TypeOK
  <2> QED BY <1>8, <2>1 DEF LoadConfig, TypeOK, db, broker
<1>9. CASE EnsureUserRuntime(h)
  <2>1. request[h].n \in 1..given
    BY <1>9 DEF EnsureUserRuntime, HeldToken, At
  <2> QED BY <1>9, <2>1 DEF EnsureUserRuntime, TypeOK, db, history
<1> QED BY <1>1, <1>2, <1>3, <1>4, <1>5, <1>6, <1>7, <1>8, <1>9

\* The steps nobody's request takes.
LEMMA TypeEnvironment ==
  ASSUME TypeOK, BetaRequest \/ EndSession \/ ExpireCode \/ ExpireState \/ RuntimeCycle \/ Restart
  PROVE  TypeOK'
<1>1. CASE BetaRequest
  BY <1>1, AccessAssumption DEF BetaRequest, TypeOK, broker, history
<1>2. CASE EndSession
  <2>1. PICK i \in 1..Len(sessions) : sessions' = [sessions EXCEPT ![i] = Ended(@)]
    BY <1>2 DEF EndSession
  <2>2. sessions[i] \in Sessions /\ Ended(sessions[i]) \in Sessions /\ Ended(sessions[i]).code = sessions[i].code
    BY ElementOfSeq DEF TypeOK, Sessions, Ended
  <2>3. /\ sessions' \in Seq(Sessions) /\ Len(sessions') = Len(sessions)
        /\ \A j \in 1..Len(sessions) : sessions'[j] = IF j = i THEN Ended(sessions[i]) ELSE sessions[j]
    BY <2>1, <2>2, ChangeSession
  <2>4. \A j \in 1..Len(sessions) : sessions'[j].code = sessions[j].code
    BY <2>2, <2>3
  <2> QED BY <1>2, <2>3, <2>4 DEF EndSession, TypeOK, broker, history
<1>3. CASE ExpireCode
  <2>1. PICK i \in 1..Len(codes) : codes' = [codes EXCEPT ![i] = Expired(@)]
    BY <1>3 DEF ExpireCode
  <2>2. Expired(codes[i]) \in Codes
    BY ElementOfSeq DEF TypeOK, Codes, Expired
  <2>3. codes' \in Seq(Codes) /\ Len(codes') = Len(codes)
    BY <2>1, <2>2, ChangeCode
  <2> QED BY <1>3, <2>3 DEF ExpireCode, TypeOK, broker, history
<1>4. CASE ExpireState
  BY <1>4 DEF ExpireState, TypeOK, db, history
<1>5. CASE RuntimeCycle
  BY <1>5 DEF RuntimeCycle, TypeOK, db, history
<1>6. CASE Restart
  <2>1. request' \in [Handlers -> [pc : Stages, n : Nat]]
    BY <1>6 DEF Restart, Idle, Stages
  <2>2. lost' \in BOOLEAN
    BY <1>6 DEF Restart, TypeOK
  <2> QED BY <1>6, <2>1, <2>2 DEF Restart, TypeOK, db
<1> QED BY <1>1, <1>2, <1>3, <1>4, <1>5, <1>6

-----------------------------------------------------------------------------
(* Codes and sessions                                                      *)

\* A step that changes no code and no session, and lets no request start to verify.
LEMMA CodesStay ==
  ASSUME TypeOK, CodeInv, UNCHANGED <<codes, sessions, shared>>,
         \A h \in Handlers : Verifying(h)' => request'[h] = request[h]
  PROVE  CodeInv'
<1>1. \A h \in Handlers : Verifying(h)' => Verifying(h) /\ request'[h] = request[h]
  BY DEF Verifying
<1>2. VerifiedCode'
  BY <1>1 DEF CodeInv, VerifiedCode, Verifying, At
<1>3. Exclusive'
  BY <1>1 DEF CodeInv, Exclusive
<1>4. OneSessionPerCode'
  BY DEF CodeInv, OneSessionPerCode
<1> QED BY <1>2, <1>3, <1>4 DEF CodeInv

\* A step of a request that does not verify, and does not start to.
LEMMA NotVerifying ==
  ASSUME TypeOK, CodeInv, UNCHANGED <<codes, sessions, shared>>, NEW h \in Handlers,
         NEW pc \in Stages \ {"consume", "create session"}, NEW n, Goto(h, pc, n)
  PROVE  CodeInv'
<1>1. \A g \in Handlers : Verifying(g)' => request'[g] = request[g]
  BY DEF Goto, Verifying, TypeOK
<1> QED BY <1>1, CodesStay

LEMMA Finished ==
  ASSUME TypeOK, CodeInv, UNCHANGED <<codes, sessions, shared>>, NEW h \in Handlers, Finish(h)
  PROVE  CodeInv'
<1>1. \A g \in Handlers : Verifying(g)' => request'[g] = request[g]
  BY DEF Finish, Idle, Verifying, TypeOK
<1> QED BY <1>1, CodesStay

LEMMA SaveKeepsCodes ==
  ASSUME TypeOK, CodeInv, NEW h \in Handlers, SaveEmailOTP(h)
  PROVE  CodeInv'
<1>1. CASE UNCHANGED codes
  BY <1>1, Finished DEF SaveEmailOTP, history
<1>2. CASE codes' = Append(codes, [consumed |-> FALSE, expired |-> FALSE])
  <2>1. [consumed |-> FALSE, expired |-> FALSE] \in Codes
    BY DEF Codes
  <2>2. /\ Len(codes') = Len(codes) + 1 /\ Len(codes) \in Nat
        /\ \A i \in 1..Len(codes) : codes'[i] = codes[i]
    BY <1>2, <2>1, AppendCode
  <2>3. 1..Len(codes) \subseteq 1..Len(codes')
    BY <2>2
  <2>4. UNCHANGED <<sessions, shared>> /\ \A g \in Handlers : Verifying(g)' => Verifying(g) /\ request'[g] = request[g]
    BY DEF SaveEmailOTP, history, Finish, Idle, Verifying, TypeOK
  <2>5. VerifiedCode'
    BY <2>2, <2>3, <2>4 DEF CodeInv, VerifiedCode, Verifying, At
  <2>6. Exclusive'
    BY <2>4 DEF CodeInv, Exclusive
  <2>7. OneSessionPerCode'
    BY <2>2, <2>4 DEF CodeInv, OneSessionPerCode, TypeOK
  <2> QED BY <2>5, <2>6, <2>7 DEF CodeInv
<1> QED BY <1>1, <1>2 DEF SaveEmailOTP

LEMMA SelectKeepsCodes ==
  ASSUME TypeOK, CodeInv, NEW h \in Handlers, NEW typed \in 1..MaxCode, SelectCode(h, typed)
  PROVE  CodeInv'
<1>1. typed \in 1..Len(codes) /\ ~codes[typed].consumed
  BY DEF SelectCode, Newest, Open
<1>2. UNCHANGED <<codes, sessions>> /\ shared \subseteq shared'
  BY DEF SelectCode, db
<1>3. request' = [request EXCEPT ![h] = [pc |-> "consume", n |-> typed]] /\ request[h].pc = "idle"
  BY DEF SelectCode, Goto, At
<1>4. request'[h].pc = "consume" /\ request'[h].n = typed /\ \A g \in Handlers \ {h} : request'[g] = request[g]
  BY <1>3 DEF TypeOK
<1>5. VerifiedCode'
  BY <1>1, <1>2, <1>4 DEF CodeInv, VerifiedCode, Verifying, At
<1>6. ASSUME NEW g \in Handlers \ {h}, Verifying(g), request[g].n = typed PROVE typed \in shared'
  <2>1. At(g, "consume")
    BY <1>1, <1>6 DEF CodeInv, VerifiedCode, Verifying, At
  <2> QED BY <1>6, <2>1 DEF SelectCode
<1>7. \A i \in 1..Len(sessions) : sessions[i].code # typed
  BY <1>1 DEF CodeInv, OneSessionPerCode
<1>8. Exclusive'
  <2>1. ASSUME NEW f \in Handlers, NEW g \in Handlers, Verifying(f)', Verifying(g)', request'[f].n = request'[g].n, f # g
        PROVE  request'[g].n \in shared'
    <3>1. CASE f = h
      BY <1>4, <1>6, <2>1, <3>1 DEF Verifying
    <3>2. CASE g = h
      BY <1>4, <1>6, <2>1, <3>2 DEF Verifying
    <3>3. CASE f # h /\ g # h
      BY <1>2, <1>4, <2>1, <3>3 DEF CodeInv, Exclusive, Verifying
    <3> QED BY <3>1, <3>2, <3>3
  <2>2. ASSUME NEW g \in Handlers, NEW i \in 1..Len(sessions'), Verifying(g)', sessions'[i].code = request'[g].n
        PROVE  request'[g].n \in shared'
    <3>1. g # h
      BY <1>2, <1>4, <1>7, <2>2
    <3> QED BY <1>2, <1>4, <2>2, <3>1 DEF CodeInv, Exclusive, Verifying
  <2> QED BY <2>1, <2>2 DEF Exclusive
<1>9. OneSessionPerCode'
  BY <1>2 DEF CodeInv, OneSessionPerCode
<1> QED BY <1>5, <1>8, <1>9 DEF CodeInv

LEMMA ConsumeKeepsCodes ==
  ASSUME TypeOK, CodeInv, NEW h \in Handlers, ConsumeCode(h)
  PROVE  CodeInv'
<1>1. CASE UNCHANGED codes /\ Finish(h)
  BY <1>1, Finished DEF ConsumeCode, history
<1>2. CASE codes' = [codes EXCEPT ![request[h].n] = Consumed(@)] /\ Goto(h, "create session", request[h].n)
  <2>1. request[h].n \in 1..Len(codes) /\ request[h].pc = "consume"
    BY DEF ConsumeCode, CodeInv, VerifiedCode, Verifying, At
  <2>2. Consumed(codes[request[h].n]) \in Codes /\ Consumed(codes[request[h].n]).consumed
    BY <2>1, ElementOfSeq DEF TypeOK, Codes, Consumed
  <2>3. /\ Len(codes') = Len(codes)
        /\ \A j \in 1..Len(codes) : codes'[j] = IF j = request[h].n THEN Consumed(codes[request[h].n]) ELSE codes[j]
    BY <1>2, <2>1, <2>2, ChangeCode
  <2>4. \A j \in 1..Len(codes) : codes[j].consumed \/ j = request[h].n => codes'[j].consumed
    BY <2>2, <2>3
  <2>5. UNCHANGED <<sessions, shared>>
    BY DEF ConsumeCode, history
  <2>6. /\ request'[h].pc = "create session" /\ request'[h].n = request[h].n
        /\ \A g \in Handlers \ {h} : request'[g] = request[g]
    BY <1>2 DEF Goto, TypeOK
  <2>7. \A g \in Handlers : (Verifying(g)' <=> Verifying(g)) /\ request'[g].n = request[g].n
    BY <2>1, <2>6 DEF Verifying
  <2>8. VerifiedCode'
    BY <2>1, <2>3, <2>4, <2>6, <2>7 DEF CodeInv, VerifiedCode, Verifying, At
  <2>9. Exclusive'
    BY <2>5, <2>7 DEF CodeInv, Exclusive
  <2>10. OneSessionPerCode'
    BY <2>4, <2>5 DEF CodeInv, OneSessionPerCode, TypeOK
  <2> QED BY <2>8, <2>9, <2>10 DEF CodeInv
<1> QED BY <1>1, <1>2 DEF ConsumeCode

LEMMA CreateKeepsCodes ==
  ASSUME TypeOK, CodeInv, NEW h \in Handlers, CreateSession(h)
  PROVE  CodeInv'
<1> DEFINE n == request[h].n
<1>1. CASE UNCHANGED sessions
  BY <1>1, Finished DEF CreateSession, history
<1>2. CASE sessions' = Append(sessions, [code |-> n, state |-> "valid"])
  <2>1. n \in 1..Len(codes) /\ codes[n].consumed /\ Len(codes) \in Nat /\ Verifying(h)
    BY LenProperties DEF CreateSession, CodeInv, VerifiedCode, Verifying, At, TypeOK
  <2>2. [code |-> n, state |-> "valid"] \in Sessions
    BY <2>1 DEF Sessions
  <2>3. /\ Len(sessions') = Len(sessions) + 1 /\ Len(sessions) \in Nat
        /\ \A i \in 1..Len(sessions) : sessions'[i] = sessions[i]
        /\ sessions'[Len(sessions) + 1].code = n
    BY <1>2, <2>2, AppendSession
  <2>4. UNCHANGED <<codes, shared>>
    BY DEF CreateSession, history
  <2>5. \A g \in Handlers : Verifying(g)' => g # h /\ Verifying(g) /\ request'[g] = request[g]
    BY DEF CreateSession, Finish, Idle, Verifying, TypeOK
  <2>6. VerifiedCode'
    BY <2>4, <2>5 DEF CodeInv, VerifiedCode, Verifying, At
  <2>7. \A g \in Handlers \ {h} : Verifying(g) /\ request[g].n = n => n \in shared
    BY <2>1 DEF CodeInv, Exclusive
  <2>8. \A i \in 1..Len(sessions) : sessions[i].code = n => n \in shared
    BY <2>1 DEF CodeInv, Exclusive
  <2>9. \A i \in 1..Len(sessions') : i \in 1..Len(sessions) \/ i = Len(sessions) + 1
    BY <2>3
  <2>10. Exclusive'
    <3>1. \A f, g \in Handlers : Verifying(f)' /\ Verifying(g)' /\ request'[f].n = request'[g].n =>
            f = g \/ request'[g].n \in shared'
      BY <2>4, <2>5 DEF CodeInv, Exclusive
    <3>2. ASSUME NEW g \in Handlers, NEW i \in 1..Len(sessions'), Verifying(g)', sessions'[i].code = request'[g].n
          PROVE  request'[g].n \in shared'
      <4>1. CASE i = Len(sessions) + 1
        BY <2>3, <2>4, <2>5, <2>7, <3>2, <4>1
      <4>2. CASE i \in 1..Len(sessions)
        BY <2>3, <2>4, <2>5, <3>2, <4>2 DEF CodeInv, Exclusive
      <4> QED BY <2>9, <4>1, <4>2
    <3> QED BY <3>1, <3>2 DEF Exclusive
  <2>11. OneSessionPerCode'
    <3>1. ASSUME NEW i \in 1..Len(sessions') PROVE codes'[sessions'[i].code].consumed
      <4>1. CASE i = Len(sessions) + 1
        BY <2>1, <2>3, <2>4, <4>1
      <4>2. CASE i \in 1..Len(sessions)
        BY <2>3, <2>4, <4>2 DEF CodeInv, OneSessionPerCode
      <4> QED BY <2>9, <4>1, <4>2
    <3>2. ASSUME NEW i \in 1..Len(sessions'), NEW j \in 1..Len(sessions'), sessions'[i].code = sessions'[j].code, i # j
          PROVE  sessions'[i].code \in shared'
      <4>1. CASE i \in 1..Len(sessions) /\ j \in 1..Len(sessions)
        BY <2>3, <2>4, <3>2, <4>1 DEF CodeInv, OneSessionPerCode
      <4>2. CASE i = Len(sessions) + 1 /\ j \in 1..Len(sessions)
        BY <2>3, <2>4, <2>8, <3>2, <4>2
      <4>3. CASE i \in 1..Len(sessions) /\ j = Len(sessions) + 1
        BY <2>3, <2>4, <2>8, <3>2, <4>3
      <4> QED BY <2>9, <3>2, <4>1, <4>2, <4>3
    <3> QED BY <3>1, <3>2 DEF OneSessionPerCode
  <2> QED BY <2>6, <2>10, <2>11 DEF CodeInv
<1> QED BY <1>1, <1>2 DEF CreateSession

\* The steps on the broker's account change no code and no session.
LEMMA LinkKeepsCodes ==
  ASSUME TypeOK, CodeInv, NEW h \in Handlers,
         \/ ConnectStart(h) \/ StorePending(h) \/ Callback(h) \/ ExchangeAuthCode(h) \/ StoreLinked(h)
         \/ UpsertFyersToken(h) \/ StoreRow(h) \/ LoadConfig(h) \/ EnsureUserRuntime(h)
  PROVE  CodeInv'
<1>1. UNCHANGED <<codes, sessions, shared>>
  BY DEF ConnectStart, StorePending, Callback, ExchangeAuthCode, StoreLinked, UpsertFyersToken,
         StoreRow, LoadConfig, EnsureUserRuntime, db, history
<1>2. \/ \E pc \in {"pending", "exchange", "linked", "store token", "store row", "load", "ensure"} : \E n : Goto(h, pc, n)
      \/ Finish(h)
      \/ UNCHANGED request
  BY DEF ConnectStart, StorePending, Callback, ExchangeAuthCode, StoreLinked, UpsertFyersToken,
         StoreRow, LoadConfig, EnsureUserRuntime
<1>3. CASE \E pc \in {"pending", "exchange", "linked", "store token", "store row", "load", "ensure"} : \E n : Goto(h, pc, n)
  <2>3. PICK pc \in {"pending", "exchange", "linked", "store token", "store row", "load", "ensure"} : \E n : Goto(h, pc, n)
    BY <1>3
  <2>1. PICK n : Goto(h, pc, n)
    BY <2>3
  <2>2. pc \in Stages \ {"consume", "create session"}
    BY <2>1 DEF Stages
  <2> QED BY <1>1, <2>1, <2>2, NotVerifying
<1>4. CASE UNCHANGED request
  BY <1>1, <1>4, CodesStay
<1> QED BY <1>1, <1>2, <1>3, <1>4, Finished

LEMMA EnvironmentKeepsCodes ==
  ASSUME TypeOK, CodeInv, BetaRequest \/ EndSession \/ ExpireCode \/ ExpireState \/ RuntimeCycle \/ Restart
  PROVE  CodeInv'
<1>1. CASE BetaRequest \/ ExpireState \/ RuntimeCycle \/ Restart
  <2>1. UNCHANGED <<codes, sessions, shared>>
    BY <1>1 DEF BetaRequest, ExpireState, RuntimeCycle, Restart, db, history
  <2>2. UNCHANGED request \/ request' = [h \in Handlers |-> Idle]
    BY <1>1 DEF BetaRequest, ExpireState, RuntimeCycle, Restart
  <2>3. \A h \in Handlers : request'[h] = request[h] \/ request'[h].pc = "idle"
    BY <2>2 DEF Idle
  <2>4. \A h \in Handlers : Verifying(h)' => request'[h] = request[h]
    BY <2>3 DEF Verifying
  <2> QED BY <2>1, <2>4, CodesStay
<1>2. CASE EndSession
  <2>1. PICK i \in 1..Len(sessions) : sessions' = [sessions EXCEPT ![i] = Ended(@)]
    BY <1>2 DEF EndSession
  <2>2. sessions[i] \in Sessions /\ Ended(sessions[i]) \in Sessions /\ Ended(sessions[i]).code = sessions[i].code
    BY ElementOfSeq DEF TypeOK, Sessions, Ended
  <2>3. /\ Len(sessions') = Len(sessions)
        /\ \A j \in 1..Len(sessions) : sessions'[j] = IF j = i THEN Ended(sessions[i]) ELSE sessions[j]
    BY <2>1, <2>2, ChangeSession
  <2>4. \A j \in 1..Len(sessions) : sessions'[j].code = sessions[j].code
    BY <2>2, <2>3
  <2>5. UNCHANGED <<codes, request, shared>>
    BY <1>2 DEF EndSession, history
  <2>6. VerifiedCode'
    BY <2>5 DEF CodeInv, VerifiedCode, Verifying, At
  <2>7. Exclusive'
    BY <2>3, <2>4, <2>5 DEF CodeInv, Exclusive, Verifying
  <2>8. OneSessionPerCode'
    BY <2>3, <2>4, <2>5 DEF CodeInv, OneSessionPerCode
  <2> QED BY <2>6, <2>7, <2>8 DEF CodeInv
<1>3. CASE ExpireCode
  <2>1. PICK i \in 1..Len(codes) : codes' = [codes EXCEPT ![i] = Expired(@)]
    BY <1>3 DEF ExpireCode
  <2>2. Expired(codes[i]) \in Codes /\ Expired(codes[i]).consumed = codes[i].consumed
    BY ElementOfSeq DEF TypeOK, Codes, Expired
  <2>3. /\ Len(codes') = Len(codes)
        /\ \A j \in 1..Len(codes) : codes'[j] = IF j = i THEN Expired(codes[i]) ELSE codes[j]
    BY <2>1, <2>2, ChangeCode
  <2>4. \A j \in 1..Len(codes) : codes'[j].consumed = codes[j].consumed
    BY <2>2, <2>3
  <2>5. UNCHANGED <<sessions, request, shared>>
    BY <1>3 DEF ExpireCode, history
  <2>6. VerifiedCode'
    BY <2>3, <2>4, <2>5 DEF CodeInv, VerifiedCode, Verifying, At
  <2>7. Exclusive'
    BY <2>5 DEF CodeInv, Exclusive, Verifying
  <2>8. OneSessionPerCode'
    BY <2>4, <2>5 DEF CodeInv, OneSessionPerCode, TypeOK
  <2> QED BY <2>6, <2>7, <2>8 DEF CodeInv
<1> QED BY <1>1, <1>2, <1>3

-----------------------------------------------------------------------------
(* The broker's tokens                                                     *)

\* A step that changes neither tokens nor history keeps the facts about them, if
\* no request enters or leaves the way from the broker to the runtime.
LEMMA TokensStay ==
  ASSUME TypeOK, BrokerInv, UNCHANGED <<token, given, runtime, callbacks, lost, late>>,
         account' \in {account, "pending", "linking"},
         \A h \in Handlers : InCallback(h) \/ At(h, "ensure") \/ InCallback(h)' \/ At(h, "ensure")' =>
                             request'[h] = request[h]
  PROVE  BrokerInv'
<1>1. \A h \in Handlers :
        /\ InCallback(h)' <=> InCallback(h)
        /\ Holding(h)' <=> Holding(h)
        /\ Applying(h)' <=> Applying(h)
        /\ At(h, "ensure")' <=> At(h, "ensure")
        /\ At(h, "store token")' <=> At(h, "store token")
        /\ Holding(h) \/ At(h, "ensure") => request'[h] = request[h]
  BY DEF InCallback, Holding, Applying, At
<1>2. HeldToken' /\ OneCallback'
  BY <1>1 DEF BrokerInv, HeldToken, OneCallback
<1>3. NewestOnItsWay' /\ TokenOnItsWay'
  BY <1>1 DEF BrokerInv, NewestOnItsWay, TokenOnItsWay
<1>4. LinkedHasToken' /\ RuntimeNotAhead'
  BY <1>1 DEF BrokerInv, LinkedHasToken, RuntimeNotAhead
<1> QED BY <1>2, <1>3, <1>4 DEF BrokerInv

LEMMA SignInKeepsTokens ==
  ASSUME TypeOK, BrokerInv, NEW h \in Handlers,
         \/ \E p \in 1..MaxPassword : Login(h, p)
         \/ ResendOTP(h) \/ SaveEmailOTP(h) \/ \E typed \in 1..MaxCode : SelectCode(h, typed)
         \/ ConsumeCode(h) \/ CreateSession(h) \/ ConnectStart(h) \/ StorePending(h)
  PROVE  BrokerInv'
<1>1. UNCHANGED <<token, given, runtime, callbacks, lost, late>> /\ account' \in {account, "pending"}
  BY DEF Login, ResendOTP, SaveEmailOTP, SelectCode, ConsumeCode, CreateSession, ConnectStart, StorePending,
         broker, history
<1>2. request[h].pc \in {"idle", "save code", "consume", "create session", "pending"}
  BY DEF Login, ResendOTP, SaveEmailOTP, SelectCode, ConsumeCode, CreateSession, ConnectStart, StorePending, At
<1>3. \/ \E pc \in {"save code", "consume", "create session", "pending"} : \E n : Goto(h, pc, n)
      \/ Finish(h)
  BY DEF Login, ResendOTP, SaveEmailOTP, SelectCode, ConsumeCode, CreateSession, ConnectStart, StorePending
<1>4. /\ request'[h].pc \in {"save code", "consume", "create session", "pending", "idle"}
      /\ \A g \in Handlers \ {h} : request'[g] = request[g]
  BY <1>3, Moves, Ends
<1>5. \A g \in Handlers : InCallback(g) \/ At(g, "ensure") \/ InCallback(g)' \/ At(g, "ensure")' =>
                          request'[g] = request[g]
  BY <1>2, <1>4 DEF InCallback, At
<1> QED BY <1>1, <1>5, TokensStay

LEMMA EnvironmentKeepsTokens ==
  ASSUME TypeOK, BrokerInv, BetaRequest \/ EndSession \/ ExpireCode \/ ExpireState \/ RuntimeCycle \/ Restart
  PROVE  BrokerInv'
<1>1. CASE BetaRequest \/ EndSession \/ ExpireCode \/ ExpireState \/ RuntimeCycle
  <2>1. UNCHANGED <<token, given, runtime, callbacks, lost, late, request, account>>
    BY <1>1 DEF BetaRequest, EndSession, ExpireCode, ExpireState, RuntimeCycle, broker, history
  <2> QED BY <2>1, TokensStay
<1>2. CASE Restart
  <2>1. UNCHANGED <<token, given, account, callbacks, late>> /\ runtime' = None
    BY <1>2 DEF Restart
  <2>2. \A h \in Handlers : request'[h].pc = "idle"
    BY <1>2 DEF Restart, Idle
  <2>3. lost' = (lost \/ \E h \in Handlers : Holding(h))
    BY <1>2 DEF Restart, Holding
  <2>4. HeldToken' /\ OneCallback'
    BY <2>2 DEF HeldToken, OneCallback, Holding, InCallback, At
  <2>5. NewestOnItsWay'
    BY <2>1, <2>3 DEF BrokerInv, NewestOnItsWay
  <2>6. LinkedHasToken'
    BY <2>1, <2>3 DEF BrokerInv, LinkedHasToken, Holding, At
  <2>7. TokenOnItsWay' /\ RuntimeNotAhead'
    BY <2>1 DEF TokenOnItsWay, RuntimeNotAhead
  <2> QED BY <2>4, <2>5, <2>6, <2>7 DEF BrokerInv
<1> QED BY <1>1, <1>2

\* One step of a callback, or of a request for a runtime, on its way: h has moved
\* and the others have not.
LEMMA LinkKeepsTokens ==
  ASSUME TypeOK, BrokerInv, NEW h \in Handlers,
         \/ Callback(h) \/ ExchangeAuthCode(h) \/ StoreLinked(h) \/ UpsertFyersToken(h)
         \/ StoreRow(h) \/ LoadConfig(h) \/ EnsureUserRuntime(h)
  PROVE  BrokerInv'
<1> DEFINE n == request[h].n
<1>1. \A g \in Handlers \ {h} : request'[g] = request[g]
  <2>1. (\E pc, m : Goto(h, pc, m)) \/ Finish(h) \/ UNCHANGED request
    BY DEF Callback, ExchangeAuthCode, StoreLinked, UpsertFyersToken, StoreRow, LoadConfig, EnsureUserRuntime
  <2> QED BY <2>1, Moves, Ends
<1>2. \A g \in Handlers \ {h} :
        /\ InCallback(g)' <=> InCallback(g)
        /\ Holding(g)' <=> Holding(g)
        /\ Applying(g)' <=> Applying(g)
        /\ At(g, "ensure")' <=> At(g, "ensure")
        /\ At(g, "store token")' <=> At(g, "store token")
  BY <1>1 DEF InCallback, Holding, Applying, At
<1>3. None \notin {"linked", "linking", "pending"} /\ None \notin Nat
  BY AccessAssumption
<1>4. given \in Nat /\ token \in {None} \cup 1..given /\ runtime \in {None} \cup 1..given
  BY AccessAssumption DEF TypeOK
<1>5. CASE Callback(h)
  <2>1. CASE UNCHANGED <<account, request, callbacks>>
    BY <1>5, <2>1, TokensStay DEF Callback
  <2>2. CASE /\ account' = "linking" /\ Goto(h, "exchange", 0)
             /\ callbacks' = IF \E g \in Handlers : InCallback(g)
                             THEN callbacks \cup {h} \cup {g \in Handlers : InCallback(g)}
                             ELSE callbacks
    <3>1. UNCHANGED <<token, given, runtime, lost, late>>
      BY <1>5 DEF Callback
    <3>2. request[h].pc = "idle" /\ request'[h].pc = "exchange"
      BY <1>5, <2>2, Moves DEF Callback, At
    <3>3. ~Holding(h)' /\ ~At(h, "ensure")' /\ ~Applying(h)' /\ ~Holding(h) /\ ~Applying(h)
      BY <3>2 DEF Holding, Applying, At
    <3>4. callbacks' = {} => callbacks = {} /\ \A g \in Handlers : ~InCallback(g)
      BY <2>2
    <3>5. HeldToken'
      BY <1>1, <1>2, <3>1, <3>3, <3>4 DEF BrokerInv, HeldToken
    <3>6. OneCallback'
      BY <1>2, <3>4 DEF OneCallback
    <3>7. NewestOnItsWay'
      BY <1>2, <3>1, <3>3, <3>4 DEF BrokerInv, NewestOnItsWay
    <3>8. TokenOnItsWay'
      BY <1>2, <3>1, <3>3, <3>4 DEF BrokerInv, TokenOnItsWay
    <3>9. LinkedHasToken'
      BY <2>2 DEF LinkedHasToken
    <3>10. RuntimeNotAhead'
      BY <3>1, <3>4 DEF BrokerInv, RuntimeNotAhead
    <3> QED BY <3>5, <3>6, <3>7, <3>8, <3>9, <3>10 DEF BrokerInv
  <2> QED BY <1>5, <2>1, <2>2 DEF Callback
<1>6. CASE ExchangeAuthCode(h)
  <2>1. UNCHANGED <<account, token, runtime, callbacks, lost, late>> /\ request[h].pc = "exchange"
    BY <1>6 DEF ExchangeAuthCode, history, At
  <2>2. InCallback(h) /\ ~Holding(h) /\ ~Applying(h)
    BY <2>1 DEF InCallback, Holding, Applying
  <2>3. callbacks = {} => \A g \in Handlers \ {h} : ~Holding(g) /\ ~Holding(g)'
    BY <1>2, <2>2 DEF BrokerInv, OneCallback, InCallback, Holding
  <2>12. \/ given' = given + 1 /\ request'[h].pc = "linked" /\ request'[h].n = given + 1
         \/ given' = given /\ request'[h].pc = "idle"
    BY <1>6, Moves, Ends DEF ExchangeAuthCode
  <2>4. ~Applying(h)' /\ ~At(h, "ensure")'
    BY <2>12 DEF Applying, At
  <2>5. /\ given' >= given /\ given' \in Nat
        /\ Holding(h)' => request'[h].n = given' /\ given' \in 1..given'
        /\ ~Holding(h)' => given' = given
    <3>1. Holding(h)' <=> request'[h].pc = "linked"
      BY <2>12 DEF Holding
    <3>2. CASE given' = given + 1 /\ request'[h].pc = "linked" /\ request'[h].n = given + 1
      BY <1>4, <3>1, <3>2
    <3>3. CASE given' = given /\ request'[h].pc = "idle"
      BY <1>4, <3>1, <3>3
    <3> QED BY <2>12, <3>2, <3>3
  <2>6. HeldToken'
    <3>1. \A g \in Handlers \ {h} : Holding(g) \/ At(g, "ensure") => request'[g].n \in 1..given'
      BY <1>1, <1>4, <2>5 DEF BrokerInv, HeldToken
    <3>2. \A g \in Handlers \ {h} :
            /\ At(g, "ensure") => token # None
            /\ At(g, "ensure") /\ callbacks = {} => request'[g].n <= token
            /\ At(g, "ensure") /\ callbacks = {} /\ ~late => request'[g].n = token
      BY <1>1 DEF BrokerInv, HeldToken
    <3>3. \A g \in Handlers \ {h} : Holding(g)' /\ callbacks' = {} => request'[g].n = given'
      BY <2>1, <2>3
    <3> QED BY <1>2, <2>1, <2>4, <2>5, <3>1, <3>2, <3>3 DEF HeldToken
  <2>7. OneCallback'
    BY <1>2, <2>1, <2>2 DEF BrokerInv, OneCallback
  <2>8. NewestOnItsWay'
    BY <1>2, <2>1, <2>2, <2>5 DEF BrokerInv, NewestOnItsWay
  <2>9. TokenOnItsWay'
    BY <1>2, <2>1, <2>2, <2>4 DEF BrokerInv, TokenOnItsWay
  <2>10. LinkedHasToken'
    BY <1>2, <2>1, <2>2 DEF BrokerInv, LinkedHasToken, Holding, At
  <2>11. RuntimeNotAhead'
    BY <2>1 DEF BrokerInv, RuntimeNotAhead
  <2> QED BY <2>6, <2>7, <2>8, <2>9, <2>10, <2>11 DEF BrokerInv
<1>7. CASE StoreLinked(h)
  <2>1. UNCHANGED <<token, given, runtime, callbacks, late>> /\ request[h].pc = "linked"
    BY <1>7 DEF StoreLinked, At
  <2>2. InCallback(h) /\ Holding(h) /\ ~Applying(h) /\ ~At(h, "store token")
    BY <2>1 DEF InCallback, Holding, Applying, At
  <2>11. \/ request'[h].pc = "store token" /\ request'[h].n = n /\ lost' = lost
         \/ account' = account /\ request'[h].pc = "idle" /\ lost' = TRUE
    BY <1>7, Moves, Ends DEF StoreLinked
  <2>3. ~Applying(h)' /\ ~At(h, "ensure")'
    BY <2>11 DEF Applying, At
  <2>4. \/ At(h, "store token")' /\ Holding(h)' /\ request'[h].n = n /\ lost' = lost
        \/ account' = account /\ ~Holding(h)' /\ lost' = TRUE
    BY <2>11 DEF Holding, At
  <2>5. HeldToken'
    BY <1>1, <1>2, <2>1, <2>2, <2>3, <2>4 DEF BrokerInv, HeldToken
  <2>6. OneCallback'
    BY <1>2, <2>1, <2>2 DEF BrokerInv, OneCallback
  <2>7. NewestOnItsWay'
    BY <1>2, <2>1, <2>4 DEF BrokerInv, NewestOnItsWay
  <2>8. TokenOnItsWay'
    BY <1>2, <2>1, <2>2 DEF BrokerInv, TokenOnItsWay
  <2>9. LinkedHasToken'
    BY <2>4 DEF LinkedHasToken
  <2>10. RuntimeNotAhead'
    BY <2>1 DEF BrokerInv, RuntimeNotAhead
  <2> QED BY <2>5, <2>6, <2>7, <2>8, <2>9, <2>10 DEF BrokerInv
<1>8. CASE UpsertFyersToken(h)
  <2>1. UNCHANGED <<account, given, runtime, callbacks>> /\ request[h].pc = "store token"
    BY <1>8 DEF UpsertFyersToken, At
  <2>2. InCallback(h) /\ Holding(h) /\ ~Applying(h) /\ n \in 1..given /\ (callbacks = {} => n = given)
    BY <2>1 DEF BrokerInv, HeldToken, InCallback, Holding, Applying
  <2>3. ~Holding(h)' /\ ~At(h, "ensure")' /\ ~At(h, "store token")'
    <3>1. request'[h].pc \in {"store row", "idle"}
      BY <1>8, Moves, Ends DEF UpsertFyersToken
    <3> QED BY <3>1 DEF Holding, At
  <2>4. CASE token' = n /\ Goto(h, "store row", 0) /\ late' = (late \/ \E g \in Handlers : At(g, "ensure")) /\ lost' = lost
    <3>1. request'[h].pc = "store row" /\ token' # None /\ token' \in 1..given
      <4>1. request'[h].pc = "store row"
        BY <2>4, Moves
      <4>2. n \in Nat
        BY <1>4, <2>2
      <4> QED BY <1>3, <2>2, <2>4, <4>1, <4>2
    <3>2. Applying(h)'
      BY <3>1 DEF Applying
    <3>3. callbacks' = {} => token' = given
      BY <2>1, <2>2, <2>4
    <3>4. HeldToken'
      <4>1. \A g \in Handlers \ {h} : Holding(g) \/ At(g, "ensure") => request'[g].n \in 1..given
        BY <1>1 DEF BrokerInv, HeldToken
      <4>2. \A g \in Handlers \ {h} : Holding(g) /\ callbacks = {} => request'[g].n = given
        BY <1>1 DEF BrokerInv, HeldToken
      <4>3. ~late' => \A g \in Handlers : ~At(g, "ensure")
        BY <2>4
      <4>4. \A g \in Handlers \ {h} : At(g, "ensure") /\ callbacks = {} => request'[g].n <= given
        BY <1>4, <4>1
      <4>5. ASSUME NEW g \in Handlers
            PROVE  /\ Holding(g)' \/ At(g, "ensure")' => request'[g].n \in 1..given'
                   /\ Holding(g)' /\ callbacks' = {} => request'[g].n = given'
                   /\ At(g, "ensure")' => token' # None
                   /\ At(g, "ensure")' /\ callbacks' = {} => request'[g].n <= token'
                   /\ At(g, "ensure")' /\ callbacks' = {} /\ ~late' => request'[g].n = token'
        <5>1. CASE g = h
          BY <2>3, <5>1
        <5>2. CASE g # h
          BY <1>2, <2>1, <3>1, <3>3, <4>1, <4>2, <4>3, <4>4, <5>2
        <5> QED BY <5>1, <5>2
      <4> QED BY <4>5 DEF HeldToken
    <3>5. OneCallback'
      BY <1>2, <2>1, <2>2 DEF BrokerInv, OneCallback
    <3>6. NewestOnItsWay'
      BY <2>1, <3>3 DEF NewestOnItsWay
    <3>7. TokenOnItsWay'
      BY <3>2 DEF TokenOnItsWay
    <3>8. LinkedHasToken'
      BY <3>1 DEF LinkedHasToken
    <3>9. RuntimeNotAhead'
      <4>1. runtime # None => runtime <= given
        BY <1>4
      <4> QED BY <2>1, <3>1, <3>3, <4>1 DEF RuntimeNotAhead
    <3> QED BY <3>4, <3>5, <3>6, <3>7, <3>8, <3>9 DEF BrokerInv
  <2>5. CASE UNCHANGED <<token, late>> /\ Finish(h) /\ lost' = TRUE
    <3>1. ~Applying(h)' /\ ~InCallback(h)'
      BY <2>5, Ends DEF Applying, InCallback
    <3>2. HeldToken'
      BY <1>1, <1>2, <2>1, <2>3, <2>5 DEF BrokerInv, HeldToken
    <3>3. OneCallback'
      BY <1>2, <2>1, <2>2 DEF BrokerInv, OneCallback
    <3>4. NewestOnItsWay' /\ LinkedHasToken'
      BY <2>5 DEF NewestOnItsWay, LinkedHasToken
    <3>5. TokenOnItsWay'
      BY <1>2, <2>1, <2>2, <2>5 DEF BrokerInv, TokenOnItsWay
    <3>6. RuntimeNotAhead'
      BY <2>1, <2>5 DEF BrokerInv, RuntimeNotAhead
    <3> QED BY <3>2, <3>3, <3>4, <3>5, <3>6 DEF BrokerInv
  <2> QED BY <1>8, <2>4, <2>5 DEF UpsertFyersToken
<1>9. CASE StoreRow(h) \/ LoadConfig(h) \/ EnsureUserRuntime(h)
  <2>1. UNCHANGED <<account, token, given, callbacks, lost>>
    BY <1>9 DEF StoreRow, LoadConfig, EnsureUserRuntime, db, broker, history
  <2>2. ~Holding(h) /\ ~Holding(h)' /\ ~At(h, "store token") /\ ~At(h, "store token")'
    <3>1. request[h].pc \in {"store row", "load", "idle", "ensure"}
      BY <1>9 DEF StoreRow, LoadConfig, EnsureUserRuntime, At
    <3>2. request'[h].pc \in {"load", "ensure", "idle"}
      BY <1>9, Moves, Ends DEF StoreRow, LoadConfig, EnsureUserRuntime
    <3> QED BY <3>1, <3>2 DEF Holding, At
  <2>3. InCallback(h)' => InCallback(h)
    <3>1. CASE StoreRow(h) \/ At(h, "load")
      BY <3>1 DEF StoreRow, InCallback, At
    <3>2. CASE LoadConfig(h) \/ EnsureUserRuntime(h)
      <4>1. request'[h].pc \in {"ensure", "idle"}
        BY <3>2, Moves, Ends DEF LoadConfig, EnsureUserRuntime
      <4> QED BY <4>1 DEF InCallback
    <3> QED BY <1>9, <3>1, <3>2
  <2>4. OneCallback'
    BY <1>2, <2>1, <2>3 DEF BrokerInv, OneCallback
  <2>5. NewestOnItsWay'
    BY <1>2, <2>1, <2>2 DEF BrokerInv, NewestOnItsWay
  <2>6. LinkedHasToken'
    BY <1>2, <2>1, <2>2 DEF BrokerInv, LinkedHasToken
  <2>7. HeldToken' /\ TokenOnItsWay' /\ RuntimeNotAhead'
    <3>1. CASE StoreRow(h)
      <4>5. runtime' = runtime /\ ((Goto(h, "load", 0) /\ UNCHANGED late) \/ (Finish(h) /\ late'))
        BY <3>1 DEF StoreRow
      <4>7. request'[h].pc = "load" \/ (request'[h].pc = "idle" /\ late')
        BY <4>5, Moves, Ends
      <4>1. runtime' = runtime /\ ~At(h, "ensure")' /\ (Applying(h)' \/ late')
        BY <4>5, <4>7 DEF Applying, At
      <4>6. ~late' => ~late
        BY <4>5
      <4>2. HeldToken'
        BY <1>1, <1>2, <2>1, <2>2, <4>1, <4>6 DEF BrokerInv, HeldToken
      <4>3. TokenOnItsWay' /\ RuntimeNotAhead'
        BY <2>1, <4>1 DEF BrokerInv, TokenOnItsWay, RuntimeNotAhead
      <4> QED BY <4>2, <4>3
    <3>2. CASE LoadConfig(h)
      <4>1. runtime' = runtime /\ (late' = late \/ late' = TRUE)
        BY <3>2 DEF LoadConfig, broker, TypeOK
      <4>2. RuntimeNotAhead'
        BY <2>1, <4>1 DEF BrokerInv, RuntimeNotAhead
      <4>3. CASE token # None /\ Goto(h, "ensure", token) /\ late' = late
        <5>4. request'[h].pc = "ensure" /\ request'[h].n = token /\ token \in 1..given
          BY <1>4, <4>3, Moves
        <5>1. Applying(h)' /\ request'[h].pc = "ensure" /\ request'[h].n = token /\ token \in 1..given
          BY <5>4 DEF Applying
        <5>2. HeldToken'
          <6>1. callbacks' = callbacks /\ given' = given /\ token' = token /\ late' = late
            BY <2>1, <4>3
          <6>2. token <= token
            BY <1>4, <5>1
          <6>3. ASSUME NEW g \in Handlers
                PROVE  /\ Holding(g)' \/ At(g, "ensure")' => request'[g].n \in 1..given'
                       /\ Holding(g)' /\ callbacks' = {} => request'[g].n = given'
                       /\ At(g, "ensure")' => token' # None
                       /\ At(g, "ensure")' /\ callbacks' = {} => request'[g].n <= token'
                       /\ At(g, "ensure")' /\ callbacks' = {} /\ ~late' => request'[g].n = token'
            <7>1. CASE g = h
              BY <2>2, <4>3, <5>1, <6>1, <6>2, <7>1
            <7>2. CASE g # h
              BY <1>1, <1>2, <6>1, <7>2 DEF BrokerInv, HeldToken
            <7> QED BY <7>1, <7>2
          <6> QED BY <6>3 DEF HeldToken
        <5>3. TokenOnItsWay'
          BY <5>1 DEF TokenOnItsWay
        <5> QED BY <4>2, <5>2, <5>3
      <4>4. CASE Finish(h) /\ late' = (late \/ At(h, "load"))
        <5>1. ~At(h, "ensure")' /\ ~Applying(h)'
          BY <4>4, Ends DEF Applying, At
        <5>2. HeldToken'
          BY <1>1, <1>2, <2>1, <2>2, <4>1, <4>4, <5>1 DEF BrokerInv, HeldToken, TypeOK
        <5>3. late' = FALSE => ~Applying(h)
          BY <3>2, <4>4 DEF LoadConfig, Applying, At
        <5>4. TokenOnItsWay'
          BY <1>2, <2>1, <4>1, <4>4, <5>3 DEF BrokerInv, TokenOnItsWay, TypeOK
        <5> QED BY <4>2, <5>2, <5>4
      <4> QED BY <3>2, <4>3, <4>4 DEF LoadConfig
    <3>3. CASE EnsureUserRuntime(h)
      <4>1. runtime' = n /\ late' = late /\ At(h, "ensure") /\ ~At(h, "ensure")' /\ ~Applying(h)'
        BY <3>3, Ends DEF EnsureUserRuntime, history, Applying, At
      <4>2. token # None /\ (callbacks = {} => n <= token) /\ (callbacks = {} /\ ~late => n = token)
        BY <4>1 DEF BrokerInv, HeldToken
      <4>3. HeldToken'
        BY <1>1, <1>2, <2>1, <2>2, <4>1 DEF BrokerInv, HeldToken
      <4>4. TokenOnItsWay' /\ RuntimeNotAhead'
        BY <2>1, <4>1, <4>2 DEF TokenOnItsWay, RuntimeNotAhead
      <4> QED BY <4>3, <4>4
    <3> QED BY <1>9, <3>1, <3>2, <3>3
  <2> QED BY <2>4, <2>5, <2>6, <2>7 DEF BrokerInv
<1> QED BY <1>5, <1>6, <1>7, <1>8, <1>9

-----------------------------------------------------------------------------
(* The theorems                                                            *)

IInv == TypeOK /\ CodeInv /\ BrokerInv

LEMMA InitInv == Init => IInv
<1> SUFFICES ASSUME Init PROVE IInv
  OBVIOUS
<1>1. TypeOK
  BY InitType
<1>2. \A h \in Handlers : request[h].pc = "idle"
  BY DEF Init, Idle
<1>3. Len(sessions) = 0
  BY EmptySeq DEF Init
<1>8. \A h \in Handlers : ~Verifying(h) /\ ~At(h, "create session")
  BY <1>2 DEF Verifying, At
<1>9. \A i \in 1..Len(sessions) : FALSE
  BY <1>3
<1>4. CodeInv
  BY <1>8, <1>9 DEF CodeInv, VerifiedCode, Exclusive, OneSessionPerCode
<1>5. HeldToken /\ OneCallback
  BY <1>2 DEF HeldToken, OneCallback, Holding, InCallback, At
<1>6. NewestOnItsWay /\ TokenOnItsWay /\ RuntimeNotAhead
  BY DEF Init, NewestOnItsWay, TokenOnItsWay, RuntimeNotAhead
<1>7. LinkedHasToken
  BY AccessAssumption DEF Init, LinkedHasToken
<1> QED BY <1>1, <1>4, <1>5, <1>6, <1>7 DEF IInv, BrokerInv

LEMMA NextInv == IInv /\ [Next]_vars => IInv'
<1> SUFFICES ASSUME IInv, [Next]_vars PROVE IInv'
  OBVIOUS
<1>1. TypeOK /\ CodeInv /\ BrokerInv /\ VerifiedCode /\ HeldToken
  BY DEF IInv, CodeInv, BrokerInv
<1>2. ASSUME NEW h \in Handlers, Handle(h) PROVE IInv'
  <2>1. request' \in [Handlers -> [pc : Stages, n : Nat]]
    BY <1>1, <1>2, TypeRequests
  <2>2. CASE \/ \E p \in 1..MaxPassword : Login(h, p)
             \/ ResendOTP(h) \/ SaveEmailOTP(h) \/ \E typed \in 1..MaxCode : SelectCode(h, typed)
             \/ ConsumeCode(h) \/ CreateSession(h)
    <3>1. TypeOK'
      BY <1>1, <2>1, <2>2, TypeSignIn
    <3>2. BrokerInv'
      BY <1>1, <2>2, SignInKeepsTokens
    <3>3. CASE ResendOTP(h) \/ \E p \in 1..MaxPassword : Login(h, p)
      <4>1. Goto(h, "save code", 0) /\ UNCHANGED <<codes, sessions, shared>>
        BY <3>3 DEF Login, ResendOTP, db, history
      <4>2. CodeInv'
        BY <1>1, <4>1, NotVerifying DEF Stages
      <4> QED BY <3>1, <3>2, <4>2 DEF IInv
    <3>4. CASE SaveEmailOTP(h) \/ ConsumeCode(h) \/ CreateSession(h) \/ \E typed \in 1..MaxCode : SelectCode(h, typed)
      <4>1. CodeInv'
        BY <1>1, <3>4, SaveKeepsCodes, SelectKeepsCodes, ConsumeKeepsCodes, CreateKeepsCodes
      <4> QED BY <3>1, <3>2, <4>1 DEF IInv
    <3> QED BY <2>2, <3>3, <3>4
  <2>3. CASE \/ ConnectStart(h) \/ StorePending(h) \/ Callback(h) \/ ExchangeAuthCode(h) \/ StoreLinked(h)
             \/ UpsertFyersToken(h) \/ StoreRow(h) \/ LoadConfig(h) \/ EnsureUserRuntime(h)
    <3>1. TypeOK'
      BY <1>1, <2>1, <2>3, TypeLink
    <3>2. CodeInv'
      BY <1>1, <2>3, LinkKeepsCodes
    <3>3. BrokerInv'
      BY <1>1, <2>3, SignInKeepsTokens, LinkKeepsTokens
    <3> QED BY <3>1, <3>2, <3>3 DEF IInv
  <2> QED BY <1>2, <2>2, <2>3 DEF Handle
<1>3. CASE BetaRequest \/ EndSession \/ ExpireCode \/ ExpireState \/ RuntimeCycle \/ Restart
  BY <1>1, <1>3, TypeEnvironment, EnvironmentKeepsCodes, EnvironmentKeepsTokens DEF IInv
<1>4. CASE UNCHANGED vars
  <2>1. UNCHANGED <<db, broker, request, history>>
    BY <1>4 DEF vars
  <2>2. TypeOK'
    BY <1>1, <2>1 DEF TypeOK, db, broker, history
  <2>3. CodeInv'
    BY <1>1, <2>1, CodesStay DEF db, history
  <2>4. BrokerInv'
    BY <1>1, <2>1, TokensStay DEF broker, history
  <2> QED BY <2>2, <2>3, <2>4 DEF IInv
<1> QED BY <1>2, <1>3, <1>4 DEF Next

LEMMA Inductive == Spec => []IInv
BY InitInv, NextInv, PTL DEF Spec

\* Every reachable state of the handlers and tables is well typed.
THEOREM TypeCorrect == Spec => []TypeOK
<1>1. IInv => TypeOK
  BY DEF IInv
<1> QED BY <1>1, Inductive, PTL

\* However many requests verify codes at once, a session stands for a consumed
\* code, and two sessions share a code only if both had selected it before it
\* was consumed (VerifyEmailOTP, CreateSession).
THEOREM SessionsHaveTheirCode == Spec => []OneSessionPerCode
<1>1. IInv => OneSessionPerCode
  BY DEF IInv, CodeInv
<1> QED BY <1>1, Inductive, PTL

\* An account that reads as linked has a token, up to the two exceptions of
\* handleFyersCallback that the property names.
THEOREM LinkedAccountsHaveTokens == Spec => []LinkedHasToken
<1>1. IInv => LinkedHasToken
  BY DEF IInv, BrokerInv
<1> QED BY <1>1, Inductive, PTL

\* Between callbacks the newest token the broker has given is the stored one.
THEOREM StoredTokenIsNewest == Spec => []NewestTokenStored
<1>1. IInv => NewestTokenStored
  <2>1. \A h \in Handlers : Holding(h) => InCallback(h)
    BY DEF Holding, InCallback
  <2> QED BY <2>1 DEF IInv, BrokerInv, NewestOnItsWay, NewestTokenStored
<1> QED BY <1>1, Inductive, PTL

\* A runtime polls with a stored token, never with one ahead of it; and once no
\* request is between the tables and the manager it polls with the stored one
\* (EnsureUserRuntime, ApplyConfig).
THEOREM RuntimeFollowsToken == Spec => []RuntimeFollows
<1>1. IInv => RuntimeNotAhead
  BY DEF IInv, BrokerInv
<1>2. IInv => RuntimeUpToDate
  BY DEF IInv, BrokerInv, TokenOnItsWay, Applying, RuntimeUpToDate
<1>3. IInv => RuntimeFollows
  BY <1>1, <1>2 DEF RuntimeFollows
<1> QED BY <1>3, Inductive, PTL
=============================================================================
