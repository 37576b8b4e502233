------------------------------- MODULE WSHub -------------------------------
(***************************************************************************)
(* The WebSocket hub (internal/api/ws.go).  Every connection has a send    *)
(* channel and four goroutines: the initial sender, the pusher (only when  *)
(* the server runs user runtimes), the writer and the reader.  Without a   *)
(* runtime manager, two Redis subscribers feed the hub, which broadcasts.  *)
(*                                                                         *)
(* A message carries the number of a payload.  Redis is told of each by    *)
(* goroutines of its own (storage/redis/redis.go), so payloads reach the   *)
(* hub in any order, or not at all; a broadcast message therefore carries  *)
(* the place in that order instead (Carried).  A select with two ready     *)
(* cases takes either; a case that is not ready is not taken.              *)
(***************************************************************************)
EXTENDS Integers, Sequences

CONSTANTS Clients,       \* connections that may be made
          Modes,         \* whether StartWS may be, or may not be, given a runtime manager
          NoClient,      \* the hub is not in the middle of a client
          SendCap,       \* capacity of client.send (1024 in the code)
          BroadcastCap,  \* capacity of hub.broadcast (1024 in the code)
          MaxVersion     \* bound: payloads published

ASSUME HubAssumption ==
    /\ NoClient \notin Clients
    /\ Modes \subseteq BOOLEAN
    /\ SendCap \in Nat \ {0}
    /\ BroadcastCap \in Nat \ {0}
    /\ MaxVersion \in Nat

VARIABLES
    perUser,    \* StartWS was given a runtime manager
    version,    \* the latest payload, of the user's runtime or of the pipeline; 0 is none
    saving,     \* payloads that are being stored
    stored,     \* the stored one: the newest row of user_runtime_snapshots, or latest:payload
    flight,     \* payloads on their way from PUBLISH to a subscriber's send
    given,      \* history: the payloads the subscribers have handed to the hub, in order
    broadcast,  \* hub.broadcast: places in given
    hub,        \* where Run is: "select", "loop", "drop", "retry"
    hubMsg,     \* the message it is broadcasting
    hubLeft,    \* the clients its loop has not reached
    hubCur,     \* the client whose channel was full
    clients,    \* hub.clients
    conn,       \* client -> its connection
    queue,      \* client -> client.send
    done,       \* client -> client.done is closed
    initial,    \* client -> its initial sender
    pusher,     \* client -> its pusher
    writer,     \* client -> its writer
    reader,     \* client -> its reader
    held,       \* client -> what initial sender, pusher and writer have in hand
    lastRevision, \* client -> the pusher's lastRevision
    lastLive,   \* history: the last pushed or broadcast payload written to the connection
    newest      \* history: the newest payload of its runtime written to the connection

keptVars == <<saving, stored, flight, given>>
sourceVars == <<perUser, version, keptVars, broadcast>>
hubVars == <<hub, hubMsg, hubLeft, hubCur>>
goVars == <<initial, pusher, writer, reader>>
history == <<lastLive, newest>>
vars == <<sourceVars, hubVars, clients, conn, queue, done, goVars, held, lastRevision, history>>

Versions == 0..MaxVersion
Elsewhere == MaxVersion + 1   \* a payload of an earlier run, or of nobody's runtime
Payloads == 1..Elsewhere
Message == [rev: Nat, live: BOOLEAN]
Sender(states) == [Clients -> {"off", "end"} \cup states]

TypeOK ==
    /\ perUser \in BOOLEAN
    /\ version \in Versions
    /\ saving \subseteq 1..MaxVersion /\ stored \in Payloads \cup {0}
    /\ flight \subseteq 1..MaxVersion /\ given \in Seq(1..MaxVersion)
    /\ broadcast \in Seq(Nat) /\ Len(broadcast) <= BroadcastCap
    /\ hub \in {"select", "loop", "drop", "retry"}
    /\ hubMsg \in Nat
    /\ hubLeft \subseteq Clients
    /\ hubCur \in Clients \cup {NoClient}
    /\ clients \subseteq Clients
    /\ conn \in [Clients -> {"none", "registering", "open", "broken", "closed"}]
    /\ queue \in [Clients -> Seq(Message)] /\ \A c \in Clients : Len(queue[c]) <= SendCap
    /\ done \in [Clients -> BOOLEAN]
    /\ initial \in Sender({"read", "send"})
    /\ pusher \in Sender({"wait", "send"})
    /\ writer \in Sender({"run", "write", "unregister", "close"})
    /\ reader \in Sender({"run", "unregister", "close"})
    /\ held \in [Clients -> [initial: Nat, pusher: Nat, writer: Message]]
    /\ lastRevision \in [Clients -> Versions]
    /\ lastLive \in [Clients -> Nat]
    /\ newest \in [Clients -> Nat]

Everywhere(x) == [c \in Clients |-> x]

Init ==
    /\ perUser \in Modes
    /\ version = 0 /\ saving = {} /\ stored \in {0, Elsewhere}
    /\ flight = {} /\ given = <<>> /\ broadcast = <<>>
    /\ hub = "select" /\ hubMsg = 0 /\ hubLeft = {} /\ hubCur = NoClient
    /\ clients = {}
    /\ conn = Everywhere("none") /\ queue = Everywhere(<<>>) /\ done = Everywhere(FALSE)
    /\ initial = Everywhere("off") /\ pusher = Everywhere("off")
    /\ writer = Everywhere("off") /\ reader = Everywhere("off")
    /\ held = Everywhere([initial |-> 0, pusher |-> 0, writer |-> [rev |-> 0, live |-> FALSE]])
    /\ lastRevision = Everywhere(0)
    /\ lastLive = Everywhere(0) /\ newest = Everywhere(0)

Up(c) == conn[c] \notin {"none", "registering"}
\* A mutant of Room: one message too many.
RoomForOne(c) == Len(queue[c]) <= SendCap

\* A send to client.send would not block.
Room(c) == Len(queue[c]) < SendCap
Enqueue(c, rev, live) == queue' = [queue EXCEPT ![c] = Append(@, [rev |-> rev, live |-> live])]

-----------------------------------------------------------------------------
(* Sources *)

\* The payload a message carries.
Carried(m) == IF ~perUser /\ m.live THEN given[m.rev] ELSE m.rev

\* The next payload.  A runtime stores it before its next cycle; PublishPayloadWithType
\* starts one goroutine to publish it and, if it is a snapshot and no delta, one to store it.
Publish ==
    /\ version < MaxVersion
    /\ version' = version + 1
    /\ \/ /\ perUser /\ saving = {}
          /\ saving' = {version + 1}
          /\ UNCHANGED flight
       \/ /\ ~perUser
          /\ flight' = flight \cup {version + 1}
          /\ \/ saving' = saving \cup {version + 1}
             \/ UNCHANGED saving
    /\ UNCHANGED <<perUser, stored, given, broadcast, hubVars, clients, conn, queue, done, goVars, held, lastRevision, history>>

\* Storing it is done, or fails.
Store(v) ==
    /\ v \in saving
    /\ saving' = saving \ {v}
    /\ stored' \in {v, stored}
    /\ UNCHANGED <<perUser, version, flight, given, broadcast, hubVars, clients, conn, queue, done, goVars, held, lastRevision, history>>

\* startRedisSubscriber hands it to the hub, when hub.broadcast has room.
Deliver(v) ==
    /\ v \in flight
    /\ flight' = flight \ {v}
    /\ Len(broadcast) < BroadcastCap
    /\ given' = Append(given, v)
    /\ broadcast' = Append(broadcast, Len(given'))
    /\ UNCHANGED <<perUser, version, saving, stored, hubVars, clients, conn, queue, done, goVars, held, lastRevision, history>>

\* Or PUBLISH fails, or Redis drops it on the way.
Lose(v) ==
    /\ v \in flight
    /\ flight' = flight \ {v}
    /\ UNCHANGED <<perUser, version, saving, stored, given, broadcast, hubVars, clients, conn, queue, done, goVars, held, lastRevision, history>>

-----------------------------------------------------------------------------
(* The hub *)

\* case client := <-h.register, and the goroutines the handler then starts.
Register(c) ==
    /\ hub = "select"
    /\ conn[c] = "registering"
    /\ clients' = clients \cup {c}
    /\ conn' = [conn EXCEPT ![c] = "open"]
    /\ initial' = [initial EXCEPT ![c] = "read"]
    /\ pusher' = IF perUser THEN [pusher EXCEPT ![c] = "wait"] ELSE [pusher EXCEPT ![c] = "end"]
    /\ writer' = [writer EXCEPT ![c] = "run"]
    /\ reader' = [reader EXCEPT ![c] = "run"]
    /\ UNCHANGED <<sourceVars, hubVars, queue, done, held, lastRevision, history>>

\* A mutant of Forget: the client leaves the map, its goroutines are not told.
ForgetSilently(c) == clients' = clients \ {c} /\ UNCHANGED done

\* What the hub does for an unregistered client: forget it and close its done.
Forget(c) ==
    /\ clients' = clients \ {c}
    /\ done' = IF c \in clients THEN [done EXCEPT ![c] = TRUE] ELSE done

\* case client := <-h.unregister: the writer and the reader both send it.
Unregister(c) ==
    /\ hub = "select"
    /\ \/ /\ writer[c] = "unregister"
          /\ writer' = [writer EXCEPT ![c] = "close"]
          /\ UNCHANGED reader
       \/ /\ reader[c] = "unregister"
          /\ reader' = [reader EXCEPT ![c] = "close"]
          /\ UNCHANGED writer
    /\ Forget(c)
    /\ UNCHANGED <<sourceVars, hubVars, conn, queue, initial, pusher, held, lastRevision, history>>

\* case message := <-h.broadcast
TakeBroadcast ==
    /\ hub = "select"
    /\ broadcast # <<>>
    /\ hub' = "loop"
    /\ hubMsg' = Head(broadcast)
    /\ broadcast' = Tail(broadcast)
    /\ hubLeft' = clients
    /\ UNCHANGED <<perUser, version, keptVars, hubCur, clients, conn, queue, done, goVars, held, lastRevision, history>>

\* The first select for the next client of the map; a full channel is for HubDrop.
\* The case <-client.done is left out: no client of the map is done (DoneIffDropped).
HubOffer(c) ==
    /\ hub = "loop"
    /\ c \in hubLeft
    /\ hubLeft' = hubLeft \ {c}
    /\ \/ Room(c) /\ Enqueue(c, hubMsg, TRUE) /\ UNCHANGED <<hub, hubCur>>
       \/ ~Room(c) /\ hub' = "drop" /\ hubCur' = c /\ UNCHANGED queue
    /\ UNCHANGED <<sourceVars, hubMsg, clients, conn, done, goVars, held, lastRevision, history>>

\* A mutant of HubDrop: no room is made.
HubKeepOldest ==
    /\ hub = "drop"
    /\ hub' = "retry"
    /\ UNCHANGED <<sourceVars, hubMsg, hubLeft, hubCur, clients, conn, queue, done, goVars, held, lastRevision, history>>

\* Take the oldest message out, if the writer has not taken it by now.
HubDrop ==
    /\ hub = "drop"
    /\ hub' = "retry"
    /\ queue' = IF queue[hubCur] = <<>> THEN queue ELSE [queue EXCEPT ![hubCur] = Tail(@)]
    /\ UNCHANGED <<sourceVars, hubMsg, hubLeft, hubCur, clients, conn, done, goVars, held, lastRevision, history>>

\* The second select: without room the new message is the one that is dropped.
HubRetry ==
    /\ hub = "retry"
    /\ hub' = "loop"
    /\ hubCur' = NoClient
    /\ IF Room(hubCur) THEN Enqueue(hubCur, hubMsg, TRUE) ELSE UNCHANGED queue
    /\ UNCHANGED <<sourceVars, hubMsg, hubLeft, clients, conn, done, goVars, held, lastRevision, history>>

HubNext ==
    /\ hub = "loop"
    /\ hubLeft = {}
    /\ hub' = "select"
    /\ UNCHANGED <<sourceVars, hubMsg, hubLeft, hubCur, clients, conn, queue, done, goVars, held, lastRevision, history>>

HubStep ==
    \/ \E c \in Clients : Unregister(c) \/ HubOffer(c)
    \/ TakeBroadcast \/ HubDrop \/ HubRetry \/ HubNext

-----------------------------------------------------------------------------
(* A connection *)

\* An authorised request that has been upgraded waits for the hub.
Connect(c) ==
    /\ conn[c] = "none"
    /\ conn' = [conn EXCEPT ![c] = "registering"]
    /\ UNCHANGED <<sourceVars, hubVars, clients, queue, done, goVars, held, lastRevision, history>>

\* The latest payload of the runtime, or the stored one.
Latest == IF perUser THEN version ELSE stored

\* The initial sender reads it, if there is one.
InitialRead(c) ==
    /\ initial[c] = "read"
    /\ initial' = [initial EXCEPT ![c] = IF Latest = 0 THEN "end" ELSE "send"]
    /\ held' = [held EXCEPT ![c].initial = Latest]
    /\ UNCHANGED <<sourceVars, hubVars, clients, conn, queue, done, pusher, writer, reader, lastRevision, history>>

InitialSend(c) ==
    /\ initial[c] = "send"
    /\ initial' = [initial EXCEPT ![c] = "end"]
    /\ \/ Room(c) /\ Enqueue(c, held[c].initial, FALSE)
       \/ done[c] /\ UNCHANGED queue
    /\ UNCHANGED <<sourceVars, hubVars, clients, conn, done, pusher, writer, reader, held, lastRevision, history>>

\* Mutants of NewPayload: the last revision is not looked at; odd ones are skipped.
AnyPayload(c) == version # 0
EveryOther(c) == version # 0 /\ version > lastRevision[c] + 1

\* There is a payload, and not the one the pusher sent last.
NewPayload(c) == version # 0 /\ version # lastRevision[c]

\* A tick of the pusher finds a payload it has not sent yet.
PusherTick(c) ==
    /\ pusher[c] = "wait"
    /\ NewPayload(c)
    /\ pusher' = [pusher EXCEPT ![c] = "send"]
    /\ lastRevision' = [lastRevision EXCEPT ![c] = version]
    /\ held' = [held EXCEPT ![c].pusher = version]
    /\ UNCHANGED <<sourceVars, hubVars, clients, conn, queue, done, initial, writer, reader, history>>

PusherSend(c) ==
    /\ pusher[c] = "send"
    /\ Room(c)
    /\ Enqueue(c, held[c].pusher, TRUE)
    /\ pusher' = [pusher EXCEPT ![c] = "wait"]
    /\ UNCHANGED <<sourceVars, hubVars, clients, conn, done, initial, writer, reader, held, lastRevision, history>>

\* Both selects of the pusher leave when done is closed.
PusherDone(c) ==
    /\ pusher[c] \in {"wait", "send"}
    /\ done[c]
    /\ pusher' = [pusher EXCEPT ![c] = "end"]
    /\ UNCHANGED <<sourceVars, hubVars, clients, conn, queue, done, initial, writer, reader, held, lastRevision, history>>

WriterTake(c) ==
    /\ writer[c] = "run"
    /\ queue[c] # <<>>
    /\ writer' = [writer EXCEPT ![c] = "write"]
    /\ queue' = [queue EXCEPT ![c] = Tail(@)]
    /\ held' = [held EXCEPT ![c].writer = Head(queue[c])]
    /\ UNCHANGED <<sourceVars, hubVars, clients, conn, done, initial, pusher, reader, lastRevision, history>>

\* WriteMessage: while the peer is there or not yet known to be gone.
WriterWrites(c) ==
    /\ writer[c] = "write"
    /\ conn[c] # "closed"
    /\ writer' = [writer EXCEPT ![c] = "run"]
    /\ LET m == held[c].writer
       IN  /\ newest' = [newest EXCEPT ![c] = IF perUser /\ m.rev > @ THEN m.rev ELSE @]
           /\ lastLive' = IF m.live THEN [lastLive EXCEPT ![c] = m.rev] ELSE lastLive
    /\ UNCHANGED <<sourceVars, hubVars, clients, conn, queue, done, initial, pusher, reader, held, lastRevision>>

\* The writer leaves: done, or a write or a ping that fails.
WriterLeaves(c) ==
    /\ \/ writer[c] = "run" /\ (done[c] \/ conn[c] # "open")
       \/ writer[c] = "write" /\ conn[c] # "open"
    /\ writer' = [writer EXCEPT ![c] = "unregister"]
    /\ UNCHANGED <<sourceVars, hubVars, clients, conn, queue, done, initial, pusher, reader, held, lastRevision, history>>

\* ReadMessage fails: the peer has gone, or this end has closed the connection.
ReaderLeaves(c) ==
    /\ reader[c] = "run"
    /\ conn[c] # "open"
    /\ reader' = [reader EXCEPT ![c] = "unregister"]
    /\ UNCHANGED <<sourceVars, hubVars, clients, conn, queue, done, initial, pusher, writer, held, lastRevision, history>>

\* conn.Close() after the hub took the unregistration.
Close(c) ==
    /\ \/ writer[c] = "close" /\ writer' = [writer EXCEPT ![c] = "end"] /\ UNCHANGED reader
       \/ reader[c] = "close" /\ reader' = [reader EXCEPT ![c] = "end"] /\ UNCHANGED writer
    /\ conn' = [conn EXCEPT ![c] = "closed"]
    /\ UNCHANGED <<sourceVars, hubVars, clients, queue, done, initial, pusher, held, lastRevision, history>>

\* The peer closes the connection, or stops answering.
PeerGone(c) ==
    /\ conn[c] = "open"
    /\ conn' = [conn EXCEPT ![c] = "broken"]
    /\ UNCHANGED <<sourceVars, hubVars, clients, queue, done, goVars, held, lastRevision, history>>

WriterStep(c) == WriterTake(c) \/ WriterWrites(c) \/ WriterLeaves(c)

Next ==
    \/ Publish
    \/ \E v \in 1..MaxVersion : Store(v) \/ Deliver(v) \/ Lose(v)
    \/ HubStep
    \/ \E c \in Clients :
          \/ Connect(c) \/ Register(c) \/ PeerGone(c)
          \/ InitialRead(c) \/ InitialSend(c)
          \/ PusherTick(c) \/ PusherSend(c) \/ PusherDone(c)
          \/ WriterStep(c) \/ ReaderLeaves(c) \/ Close(c)

Spec == Init /\ [][Next]_vars

\* Goroutines that can go on do; peers, payloads and new connections are the
\* environment's.  The hub is shared: a registration or an unregistration that
\* waits is taken although other channels are ready as well (select is uniform).
Fairness ==
    /\ WF_vars(HubStep)
    /\ \A c \in Clients :
          /\ SF_vars(Register(c)) /\ SF_vars(Unregister(c))
          /\ WF_vars(InitialRead(c)) /\ WF_vars(InitialSend(c))
          /\ WF_vars(PusherTick(c)) /\ WF_vars(PusherSend(c)) /\ WF_vars(PusherDone(c))
          /\ WF_vars(WriterStep(c)) /\ WF_vars(ReaderLeaves(c)) /\ WF_vars(Close(c))

-----------------------------------------------------------------------------
(* Properties *)

\* The hub forgets a client exactly when it closes its done: no goroutine of a
\* forgotten client is left waiting, and no client of the map has been told to go.
DoneIffDropped == \A c \in Clients : Up(c) => (done[c] <=> c \notin clients)

\* Pushed payloads reach a connection in the order in which its runtime published them,
\* and broadcast ones in the order in which the hub was given them, none twice, whatever
\* the hub drops; only the initial payload may come late.  Nothing is said of the order
\* in which Redis gives them: it may be any.
LiveInOrder ==
    [][\A c \in Clients :
          writer[c] = "write" /\ writer'[c] = "run" /\ held[c].writer.live =>
              held[c].writer.rev > lastLive[c]]_vars

\* A full channel loses its oldest message, never the new one: a broadcast ends up
\* last in the channel of each client, unless the initial payload has just taken
\* the place the hub had made.
NewestKept ==
    [][\A c \in Clients :
          hub = "retry" /\ hub' = "loop" /\ hubCur = c =>
              \/ queue'[c] = Append(queue[c], [rev |-> hubMsg, live |-> TRUE])
              \/ queue'[c] # <<>> /\ ~queue'[c][Len(queue'[c])].live]_vars

Gone(c) ==
    /\ c \notin clients
    /\ initial[c] = "end" /\ pusher[c] = "end" /\ writer[c] = "end" /\ reader[c] = "end"

\* When a connection breaks, all its goroutines end, also those that wait for room
\* in a channel nobody reads any more.
LeavesNothing == \A c \in Clients : (Up(c) /\ conn[c] # "open") ~> Gone(c)

\* A connected client of a user runtime is sent the payload of the moment or a
\* newer one, unless its connection breaks.
CatchesUp ==
    \A c \in Clients, v \in 1..MaxVersion :
        (perUser /\ conn[c] = "open" /\ version = v) ~> (newest[c] >= v \/ conn[c] # "open")
=============================================================================
