-------------------------------- MODULE Access --------------------------------
(***************************************************************************)
(* How a client gets a session and links a broker account, as the handlers *)
(* of internal/api run against the tables: credentials, one-time codes and *)
(* sessions of auth_repo.go, accounts and tokens of fyers_repo.go, and the *)
(* runtime that a linked account is given.  One user is followed; handlers *)
(* is a pool of requests in flight.  Every statement against the database  *)
(* is a step of its own, and most of them may fail.                        *)
(*                                                                         *)
(* Codes, sessions and broker tokens are numbered in the order in which    *)
(* they are made; what a client types is the number of a code.  Mail, the  *)
(* admin endpoints and the columns nothing reads back are left out.        *)
(***************************************************************************)
EXTENDS Integers, Sequences, FiniteSets

CONSTANTS
  Handlers,         \* requests that may be in flight at once
  MaxPassword,      \* bound: credentials issued
  MaxCode,          \* bound: codes stored
  MaxSession,       \* bound: sessions created
  MaxToken,         \* bound: tokens the broker has given
  None

ASSUME AccessAssumption ==
  /\ {MaxPassword, MaxCode, MaxSession, MaxToken} \subseteq Nat
  /\ None \notin Nat \cup {"pending", "linking", "linked"}

VARIABLES
  password,         \* beta_users: number of the password hashed there, 0: no user
  codes,            \* email_otp_codes: sequence of [consumed, expired]
  sessions,         \* auth_sessions: sequence of [code, state]
  account,          \* fyers_accounts.status, or None
  token,            \* fyers_tokens: number of the stored token, or None
  row,              \* user_runtime_status.runtime_state, or None
  stateValid,       \* an OAuth state has been issued and has not expired
  given,            \* tokens the broker has given
  runtime,          \* token of the user's runtime in the manager, or None
  request,          \* per handler, the request it works on: [pc, n]
  shared,           \* history: codes selected by two verifications at once
  callbacks,        \* history: handlers whose callback has overlapped another
  lost,             \* history: a callback failed between the broker and the tables
  late              \* history: a token was stored while another request still held
                    \* the one before it, or its callback failed before the runtime

db      == <<password, codes, sessions>>
broker  == <<account, token, row, stateValid, given, runtime>>
history == <<shared, callbacks, lost, late>>
vars    == <<db, broker, request, history>>

Codes    == [consumed : BOOLEAN, expired : BOOLEAN]
Sessions == [code : Nat, state : {"valid", "ended"}]
Consumed(c) == [consumed |-> TRUE, expired |-> c.expired]
Expired(c)  == [consumed |-> c.consumed, expired |-> TRUE]
Ended(s)    == [code |-> s.code, state |-> "ended"]

Stages == {"idle", "save code", "consume", "create session", "pending", "exchange",
           "linked", "store token", "store row", "load", "ensure"}
Idle == [pc |-> "idle", n |-> 0]

Init ==
  /\ password = 0 /\ codes = <<>> /\ sessions = <<>>
  /\ account = None /\ token = None /\ row = None
  /\ stateValid = FALSE /\ given = 0 /\ runtime = None
  /\ request = [h \in Handlers |-> Idle]
  /\ shared = {} /\ callbacks = {} /\ lost = FALSE /\ late = FALSE

Goto(h, pc, n) == request' = [request EXCEPT ![h] = [pc |-> pc, n |-> n]]
Finish(h)      == request' = [request EXCEPT ![h] = Idle]
At(h, pc)      == request[h].pc = pc

\* authorizeRequest: some token of a session that has not expired.
Authorized == \E i \in 1..Len(sessions) : sessions[i].state = "valid"

-----------------------------------------------------------------------------
(* Credentials and codes                                                   *)

\* CreateOrRotateBetaUser, one transaction: a new password, whether or not the
\* user existed.
BetaRequest ==
  /\ password < MaxPassword
  /\ password' = password + 1
  /\ UNCHANGED <<codes, sessions, request>> /\ UNCHANGED <<broker, history>>

\* handleLogin with the p-th password.
Login(h, p) ==
  /\ At(h, "idle") /\ password # 0 /\ p = password
  /\ Goto(h, "save code", 0)
  /\ UNCHANGED <<db, broker, history>>

\* handleResendOTP asks for the client id only.
ResendOTP(h) ==
  /\ At(h, "idle") /\ password # 0
  /\ Goto(h, "save code", 0)
  /\ UNCHANGED <<db, broker, history>>

SaveEmailOTP(h) ==
  /\ At(h, "save code")
  /\ \/ /\ Len(codes) < MaxCode
        /\ codes' = Append(codes, [consumed |-> FALSE, expired |-> FALSE])
     \/ UNCHANGED codes
  /\ Finish(h)
  /\ UNCHANGED <<password, sessions>> /\ UNCHANGED <<broker, history>>

Open == {i \in 1..Len(codes) : ~codes[i].consumed}
Newest(i) == i \in Open /\ \A j \in Open : j <= i

\* VerifyEmailOTP selects the newest code that has not been consumed; the code
\* that was typed must be that one, and not have expired.
SelectCode(h, typed) ==
  /\ At(h, "idle") /\ password # 0
  /\ Newest(typed) /\ ~codes[typed].expired
  /\ Goto(h, "consume", typed)
  /\ shared' = IF \E g \in Handlers : At(g, "consume") /\ request[g].n = typed
               THEN shared \cup {typed} ELSE shared
  /\ UNCHANGED <<db, broker, callbacks, lost, late>>

\* Mutant: the session is created without consuming the code.
SkipConsume(h) ==
  /\ At(h, "consume")
  /\ Goto(h, "create session", request[h].n)
  /\ UNCHANGED <<db, broker, history>>

\* The UPDATE of VerifyEmailOTP, by id: it does not look whether another
\* verification has consumed the code since it was selected.
ConsumeCode(h) ==
  /\ At(h, "consume")
  /\ \/ /\ codes' = [codes EXCEPT ![request[h].n] = Consumed(@)]
        /\ Goto(h, "create session", request[h].n)
     \/ UNCHANGED codes /\ Finish(h)
  /\ UNCHANGED <<password, sessions>> /\ UNCHANGED <<broker, history>>

CreateSession(h) ==
  /\ At(h, "create session")
  /\ \/ /\ Len(sessions) < MaxSession
        /\ sessions' = Append(sessions, [code |-> request[h].n, state |-> "valid"])
     \/ UNCHANGED sessions
  /\ Finish(h)
  /\ UNCHANGED <<password, codes>> /\ UNCHANGED <<broker, history>>

\* DeleteSession, or the expiry of a session: nothing tells the two apart.
EndSession ==
  /\ \E i \in 1..Len(sessions) :
       /\ sessions[i].state = "valid"
       /\ sessions' = [sessions EXCEPT ![i] = Ended(@)]
  /\ UNCHANGED <<password, codes, request>> /\ UNCHANGED <<broker, history>>

ExpireCode ==
  /\ \E i \in 1..Len(codes) :
       /\ ~codes[i].expired
       /\ codes' = [codes EXCEPT ![i] = Expired(@)]
  /\ UNCHANGED <<password, sessions, request>> /\ UNCHANGED <<broker, history>>

-----------------------------------------------------------------------------
(* The broker account                                                      *)

ConnectStart(h) ==
  /\ At(h, "idle") /\ Authorized
  /\ Goto(h, "pending", 0)
  /\ UNCHANGED <<db, broker, history>>

\* The account is pending from here, also when it was linked before.
StorePending(h) ==
  /\ At(h, "pending")
  /\ \/ account' = "pending" /\ stateValid' = TRUE
     \/ UNCHANGED <<account, stateValid>>
  /\ Finish(h)
  /\ UNCHANGED <<token, row, given, runtime>> /\ UNCHANGED <<db, history>>

ExpireState ==
  /\ stateValid /\ stateValid' = FALSE
  /\ UNCHANGED <<account, token, row, given, runtime, request>> /\ UNCHANGED <<db, history>>

InCallback(h) == request[h].pc \in {"exchange", "linked", "store token", "store row", "load"}

\* handleFyersCallback: a state may be used again while it is valid.
Callback(h) ==
  /\ At(h, "idle") /\ stateValid
  /\ \/ account' = "linking" /\ Goto(h, "exchange", 0)
        /\ callbacks' = IF \E g \in Handlers : InCallback(g)
                        THEN callbacks \cup {h} \cup {g \in Handlers : InCallback(g)}
                        ELSE callbacks
     \/ UNCHANGED <<account, request, callbacks>>
  /\ UNCHANGED <<token, row, stateValid, given, runtime, shared, lost, late>> /\ UNCHANGED db

\* Mutant: the account is linked before the broker has answered.
LinkedEarly(h) ==
  /\ At(h, "exchange")
  /\ account' = "linked"
  /\ Finish(h)
  /\ UNCHANGED <<token, row, stateValid, given, runtime>> /\ UNCHANGED <<db, history>>

ExchangeAuthCode(h) ==
  /\ At(h, "exchange")
  /\ \/ /\ given < MaxToken /\ given' = given + 1
        /\ Goto(h, "linked", given + 1)
     \/ UNCHANGED given /\ Finish(h)
  /\ UNCHANGED <<account, token, row, stateValid, runtime>> /\ UNCHANGED <<db, history>>

StoreLinked(h) ==
  /\ At(h, "linked")
  /\ \/ account' = "linked" /\ Goto(h, "store token", request[h].n) /\ UNCHANGED lost
     \/ UNCHANGED account /\ Finish(h) /\ lost' = TRUE
  /\ UNCHANGED <<token, row, stateValid, given, runtime, shared, callbacks, late>> /\ UNCHANGED db

\* Mutant: a stored token is kept.
KeepToken(h) ==
  /\ At(h, "store token")
  /\ token' = IF token = None THEN request[h].n ELSE token
  /\ Goto(h, "store row", 0)
  /\ UNCHANGED <<account, row, stateValid, given, runtime>> /\ UNCHANGED <<db, history>>

UpsertFyersToken(h) ==
  /\ At(h, "store token")
  /\ \/ /\ token' = request[h].n /\ Goto(h, "store row", 0)
        /\ late' = (late \/ \E g \in Handlers : At(g, "ensure"))
        /\ UNCHANGED lost
     \/ UNCHANGED <<token, late>> /\ Finish(h) /\ lost' = TRUE
  /\ UNCHANGED <<account, row, stateValid, given, runtime, shared, callbacks>> /\ UNCHANGED db

StoreRow(h) ==
  /\ At(h, "store row")
  /\ \/ row' = "linked" /\ Goto(h, "load", 0) /\ UNCHANGED late
     \/ UNCHANGED row /\ Finish(h) /\ late' = TRUE
  /\ UNCHANGED <<account, token, stateValid, given, runtime, shared, callbacks, lost>> /\ UNCHANGED db

\* loadFyersRuntimeConfigForUser, for the callback and for every authorized
\* request that serves data of a runtime: the stored token, whatever the status
\* of the account.
LoadConfig(h) ==
  /\ At(h, "load") \/ (At(h, "idle") /\ Authorized)
  /\ \/ account # None /\ token # None /\ Goto(h, "ensure", token) /\ UNCHANGED late
     \/ Finish(h) /\ late' = (late \/ At(h, "load"))
  /\ UNCHANGED <<db, broker, shared, callbacks, lost>>

\* Mutant: a runtime that exists is returned as it is.
KeepRuntime(h) ==
  /\ At(h, "ensure")
  /\ runtime' = IF runtime = None THEN request[h].n ELSE runtime
  /\ Finish(h)
  /\ UNCHANGED <<account, token, row, stateValid, given>> /\ UNCHANGED <<db, history>>

\* EnsureUserRuntime: a new runtime, or ApplyConfig on the one that exists, with
\* the token this request has loaded, be it newer or older.
EnsureUserRuntime(h) ==
  /\ At(h, "ensure")
  /\ runtime' = request[h].n
  /\ Finish(h)
  /\ UNCHANGED <<account, token, row, stateValid, given>> /\ UNCHANGED <<db, history>>

RuntimeCycle ==
  /\ runtime # None /\ row' = "running"
  /\ UNCHANGED <<account, token, stateValid, given, runtime, request>> /\ UNCHANGED <<db, history>>

\* The process ends and starts again: requests and runtimes are gone.  A
\* callback that was cut off between broker and tables has lost its token.
Restart ==
  /\ runtime' = None
  /\ request' = [h \in Handlers |-> Idle]
  /\ lost' = (lost \/ \E h \in Handlers : request[h].pc \in {"linked", "store token"})
  /\ UNCHANGED <<account, token, row, stateValid, given, shared, callbacks, late>> /\ UNCHANGED db

Handle(h) ==
  \/ \E p \in 1..MaxPassword : Login(h, p)
  \/ ResendOTP(h) \/ SaveEmailOTP(h)
  \/ \E typed \in 1..MaxCode : SelectCode(h, typed)
  \/ ConsumeCode(h) \/ CreateSession(h)
  \/ ConnectStart(h) \/ StorePending(h)
  \/ Callback(h) \/ ExchangeAuthCode(h) \/ StoreLinked(h) \/ UpsertFyersToken(h)
  \/ StoreRow(h) \/ LoadConfig(h) \/ EnsureUserRuntime(h)

Next == \/ \E h \in Handlers : Handle(h)
        \/ BetaRequest \/ EndSession \/ ExpireCode \/ ExpireState \/ RuntimeCycle \/ Restart

Spec == Init /\ [][Next]_vars

-----------------------------------------------------------------------------

\* Every part of the state is of its type.
TypeOK ==
  /\ password \in 0..MaxPassword
  /\ codes \in Seq(Codes) /\ Len(codes) <= MaxCode
  /\ sessions \in Seq(Sessions) /\ Len(sessions) <= MaxSession
  /\ \A i \in 1..Len(sessions) : sessions[i].code \in 1..Len(codes)
  /\ account \in {None, "pending", "linking", "linked"}
  /\ token \in {None} \cup 1..given /\ runtime \in {None} \cup 1..given
  /\ row \in {None, "linked", "running"}
  /\ stateValid \in BOOLEAN /\ given \in 0..MaxToken /\ {lost, late} \subseteq BOOLEAN
  /\ request \in [Handlers -> [pc : Stages, n : Nat]]
  /\ shared \subseteq 1..Len(codes) /\ callbacks \subseteq Handlers

\* Every session was created for a code that is consumed, and no two for the
\* same code unless two verifications had selected it before either consumed it
\* (SELECT and UPDATE are two statements).
OneSessionPerCode ==
  /\ \A i \in 1..Len(sessions) : codes[sessions[i].code].consumed
  /\ \A i, j \in 1..Len(sessions) :
       sessions[i].code = sessions[j].code => i = j \/ sessions[i].code \in shared

\* An account that reads as connected has a token, except while its callback is
\* between the two statements, or when one of them has failed: status and token
\* are not stored in one transaction.
LinkedHasToken ==
  account = "linked" =>
    token # None \/ lost \/ \E h \in Handlers : At(h, "store token")

\* With no callback under way the stored token is the newest the broker has
\* given, unless two callbacks overlapped, and stored in either order, or one
\* failed after the broker had answered.
NewestTokenStored ==
  (\A h \in Handlers : ~InCallback(h)) /\ given > 0 /\ callbacks = {} /\ ~lost => token = given

\* A runtime is only ever given a stored token, and never one that is newer than
\* the stored one as long as callbacks do not overlap.
RuntimeNotAhead ==
  runtime # None => token # None /\ (callbacks = {} => runtime <= token)

\* With no request between the stored token and the runtime, the runtime polls
\* with the stored token: linking again reaches a runtime that exists.  The two
\* exceptions are a callback that failed before it got there, and a request that
\* had loaded the token before it was replaced and applied it afterwards.
RuntimeUpToDate ==
  /\ runtime # None /\ callbacks = {} /\ ~late
  /\ \A h \in Handlers : request[h].pc \notin {"store row", "load", "ensure"}
  => runtime = token

\* A runtime follows the stored token: not ahead of it at any time, and not behind
\* it once everybody who could tell it has.
RuntimeFollows == RuntimeNotAhead /\ RuntimeUpToDate
=============================================================================
