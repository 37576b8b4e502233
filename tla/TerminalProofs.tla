---------------------------- MODULE TerminalProofs ----------------------------
(***************************************************************************)
(* Proofs about WSHub, for any number of connections, channel capacities   *)
(* and payloads, and then about Terminal, for any open interest they       *)
(* carry.  What is proved of the hub holds with the page too, because      *)
(* every step of the page is a step of the hub or leaves it alone.         *)
(***************************************************************************)
EXTENDS Terminal, TLAPS

-----------------------------------------------------------------------------
(* Who is up and who is done *)


ConnType ==
    /\ clients \subseteq Clients
    /\ conn \in [Clients -> {"none", "registering", "open", "broken", "closed"}]
    /\ done \in [Clients -> BOOLEAN]
    /\ writer \in Sender({"run", "write", "unregister", "close"})
    /\ reader \in Sender({"run", "unregister", "close"})

\* A client the hub has not registered yet has no goroutines, and is not done.
NotUpYet ==
    \A c \in Clients : ~Up(c) =>
        ~done[c] /\ c \notin clients /\ writer[c] = "off" /\ reader[c] = "off"

IInv == ConnType /\ NotUpYet /\ DoneIffDropped

LEMMA InitInv == Init => IInv
BY DEF Init, Everywhere, IInv, ConnType, Sender, NotUpYet, DoneIffDropped, Up

\* A step that neither registers nor forgets a client, and keeps connections up.
LEMMA Quiet ==
    ASSUME IInv, UNCHANGED <<clients, done>>, ConnType',
           \A c \in Clients : /\ Up(c)' <=> Up(c)
                              /\ ~Up(c) => writer'[c] = writer[c] /\ reader'[c] = reader[c]
    PROVE  IInv'
<1>1. NotUpYet'
  BY DEF IInv, NotUpYet
<1>2. DoneIffDropped'
  BY DEF IInv, DoneIffDropped
<1> QED BY <1>1, <1>2 DEF IInv

LEMMA RegisterStep ==
    ASSUME IInv, NEW c \in Clients, Register(c)
    PROVE  IInv'
<1>1. /\ clients' = clients \cup {c} /\ done' = done /\ conn[c] = "registering"
      /\ conn'[c] = "open" /\ \A d \in Clients \ {c} : conn'[d] = conn[d]
      /\ \A d \in Clients \ {c} : writer'[d] = writer[d] /\ reader'[d] = reader[d]
  BY DEF Register, IInv, ConnType, Sender
<1>2. ConnType'
  BY DEF Register, IInv, ConnType, Sender
<1>3. ~done[c] /\ Up(c)' /\ \A d \in Clients \ {c} : Up(d)' <=> Up(d)
  BY <1>1 DEF IInv, NotUpYet, Up
<1>4. NotUpYet'
  BY <1>1, <1>3 DEF IInv, NotUpYet
<1>5. DoneIffDropped'
  BY <1>1, <1>3 DEF IInv, DoneIffDropped
<1> QED BY <1>2, <1>4, <1>5 DEF IInv

LEMMA UnregisterStep ==
    ASSUME IInv, NEW c \in Clients, Unregister(c)
    PROVE  IInv'
<1>1. Up(c) /\ UNCHANGED conn
  BY DEF Unregister, IInv, NotUpYet
<1>2. /\ clients' = clients \ {c}
      /\ done' = IF c \in clients THEN [done EXCEPT ![c] = TRUE] ELSE done
      /\ \A d \in Clients \ {c} : writer'[d] = writer[d] /\ reader'[d] = reader[d]
  BY DEF Unregister, Forget, IInv, ConnType, Sender
<1>3. ConnType'
  BY <1>1, <1>2 DEF Unregister, IInv, ConnType, Sender
<1>4. /\ done'[c] /\ c \notin clients'
      /\ \A d \in Clients \ {c} : (done'[d] <=> done[d]) /\ (d \in clients' <=> d \in clients)
  BY <1>1, <1>2 DEF IInv, ConnType, DoneIffDropped
<1>5. \A d \in Clients : Up(d)' <=> Up(d)
  BY <1>1 DEF Up
<1>6. NotUpYet'
  BY <1>1, <1>2, <1>4, <1>5 DEF IInv, NotUpYet
<1>7. DoneIffDropped'
  BY <1>1, <1>4, <1>5 DEF IInv, DoneIffDropped
<1> QED BY <1>3, <1>6, <1>7 DEF IInv

LEMMA NextInv == IInv /\ [Next]_vars => IInv'
<1> SUFFICES ASSUME IInv, [Next]_vars PROVE IInv'
  OBVIOUS
<1>1. CASE \/ Publish \/ TakeBroadcast \/ HubDrop \/ HubRetry \/ HubNext
           \/ \E c \in Clients : \/ HubOffer(c) \/ InitialRead(c) \/ InitialSend(c)
                                 \/ PusherTick(c) \/ PusherSend(c) \/ PusherDone(c)
           \/ \E v \in 1..MaxVersion : Store(v) \/ Deliver(v) \/ Lose(v)
           \/ UNCHANGED vars
  <2>1. UNCHANGED <<clients, conn, done, writer, reader>>
    BY <1>1 DEF Publish, Store, Deliver, Lose, TakeBroadcast, HubDrop, HubRetry, HubNext, HubOffer, InitialRead, InitialSend,
                PusherTick, PusherSend, PusherDone, vars, goVars
  <2>2. ConnType' /\ \A c \in Clients : Up(c)' <=> Up(c)
    BY <2>1 DEF IInv, ConnType, Up
  <2> QED BY <2>1, <2>2, Quiet
<1>2. ASSUME NEW c \in Clients, WriterStep(c) \/ ReaderLeaves(c) PROVE IInv'
  <2>1. UNCHANGED <<clients, conn, done>>
    BY <1>2 DEF WriterStep, WriterTake, WriterWrites, WriterLeaves, ReaderLeaves
  <2>2. ConnType'
    BY <1>2, <2>1 DEF WriterStep, WriterTake, WriterWrites, WriterLeaves, ReaderLeaves, IInv, ConnType, Sender
  <2>3. Up(c)
    BY <1>2 DEF WriterStep, WriterTake, WriterWrites, WriterLeaves, ReaderLeaves, IInv, NotUpYet
  <2>4. \A d \in Clients \ {c} : writer'[d] = writer[d] /\ reader'[d] = reader[d]
    BY <1>2 DEF WriterStep, WriterTake, WriterWrites, WriterLeaves, ReaderLeaves, IInv, ConnType, Sender
  <2>5. \A d \in Clients : Up(d)' <=> Up(d)
    BY <2>1 DEF Up
  <2> QED BY <2>1, <2>2, <2>3, <2>4, <2>5, Quiet
<1>3. ASSUME NEW c \in Clients, Close(c) PROVE IInv'
  <2>1. UNCHANGED <<clients, done>>
    BY <1>3 DEF Close
  <2>2. ConnType'
    BY <1>3, <2>1 DEF Close, IInv, ConnType, Sender
  <2>3. Up(c)
    BY <1>3 DEF Close, IInv, NotUpYet
  <2>4. /\ conn'[c] = "closed"
        /\ \A d \in Clients \ {c} : conn'[d] = conn[d] /\ writer'[d] = writer[d] /\ reader'[d] = reader[d]
    BY <1>3 DEF Close, IInv, ConnType, Sender
  <2>5. \A d \in Clients : Up(d)' <=> Up(d)
    BY <2>3, <2>4 DEF Up
  <2> QED BY <2>1, <2>2, <2>3, <2>4, <2>5, Quiet
<1>4. ASSUME NEW c \in Clients, Connect(c) \/ PeerGone(c) PROVE IInv'
  <2>1. UNCHANGED <<clients, done, writer, reader>>
    BY <1>4 DEF Connect, PeerGone, goVars
  <2>2. ConnType'
    BY <1>4, <2>1 DEF Connect, PeerGone, IInv, ConnType
  <2>3. \A d \in Clients : Up(d)' <=> Up(d)
    BY <1>4 DEF Connect, PeerGone, IInv, ConnType, Up
  <2> QED BY <2>1, <2>2, <2>3, Quiet
<1> QED BY <1>1, <1>2, <1>3, <1>4, RegisterStep, UnregisterStep DEF Next, HubStep

\* A client of the map is never done, and one that has left it always is: closing
\* the channel and leaving the map are one step of Run, and neither happens twice.
THEOREM DoneExactlyWhenDropped == Spec => []DoneIffDropped
<1>1. IInv => DoneIffDropped
  BY DEF IInv
<1> QED BY <1>1, InitInv, NextInv, PTL DEF Spec
-----------------------------------------------------------------------------
(* Type correctness *)

SourceType ==
    /\ perUser \in BOOLEAN
    /\ version \in Versions
    /\ saving \subseteq 1..MaxVersion /\ stored \in Payloads \cup {0}
    /\ flight \subseteq 1..MaxVersion /\ given \in Seq(1..MaxVersion)
    /\ broadcast \in Seq(Nat) /\ Len(broadcast) <= BroadcastCap

HubType ==
    /\ hub \in {"select", "loop", "drop", "retry"}
    /\ hubMsg \in Nat
    /\ hubLeft \subseteq Clients
    /\ hubCur \in Clients \cup {NoClient}

SenderType ==
    /\ initial \in Sender({"read", "send"})
    /\ pusher \in Sender({"wait", "send"})

QueueType == queue \in [Clients -> Seq(Message)] /\ \A c \in Clients : Len(queue[c]) <= SendCap

HeldType ==
    /\ held \in [Clients -> [initial: Nat, pusher: Nat, writer: Message]]
    /\ lastRevision \in [Clients -> Versions]
    /\ lastLive \in [Clients -> Nat]
    /\ newest \in [Clients -> Nat]

LEMMA TypeParts == TypeOK <=> SourceType /\ HubType /\ ConnType /\ SenderType /\ QueueType /\ HeldType
BY DEF TypeOK, SourceType, HubType, ConnType, SenderType, QueueType, HeldType

LEMMA InitType == Init => TypeOK
<1> SUFFICES ASSUME Init PROVE TypeOK
  OBVIOUS
<1>1. MaxVersion \in Nat /\ 0 \in Versions
  BY HubAssumption DEF Versions
<1>2. SourceType /\ HubType
  BY <1>1, HubAssumption DEF Init, SourceType, HubType, Payloads, Elsewhere
<1>3. ConnType /\ SenderType
  BY DEF Init, ConnType, SenderType, Sender, Everywhere
<1>4. QueueType
  BY HubAssumption DEF Init, QueueType, Everywhere
<1>5. HeldType
  <2>1. [rev |-> 0, live |-> FALSE] \in Message
    BY <1>1 DEF Message
  <2> QED BY <1>1, <2>1 DEF Init, HeldType, Everywhere
<1> QED BY <1>2, <1>3, <1>4, <1>5, TypeParts

LEMMA SourceTypeStep == TypeOK /\ [Next]_vars => SourceType'
<1> SUFFICES ASSUME TypeOK, [Next]_vars PROVE SourceType'
  OBVIOUS
<1>1. CASE Publish
  <2>1. /\ version' = version + 1 /\ version' \in Versions /\ version' \in 1..MaxVersion
        /\ UNCHANGED <<perUser, stored, given, broadcast>>
    BY <1>1, HubAssumption DEF Publish, TypeOK, Versions
  <2>2. saving' \subseteq 1..MaxVersion /\ flight' \subseteq 1..MaxVersion
    BY <1>1, <2>1 DEF Publish, TypeOK
  <2> QED BY <2>1, <2>2 DEF SourceType, TypeOK
<1>2. CASE TakeBroadcast
  BY <1>2, HubAssumption DEF TakeBroadcast, keptVars, SourceType, TypeOK
<1>3. ASSUME NEW v \in 1..MaxVersion, Store(v) \/ Lose(v) PROVE SourceType'
  <2>1. v \in Payloads
    BY HubAssumption DEF Payloads, Elsewhere
  <2>2. stored' \in Payloads \cup {0} /\ UNCHANGED <<perUser, version, given, broadcast>>
    BY <1>3, <2>1 DEF Store, Lose, TypeOK
  <2>3. saving' \subseteq saving /\ flight' \subseteq flight
    BY <1>3 DEF Store, Lose
  <2> QED BY <2>2, <2>3 DEF SourceType, TypeOK
<1>4. ASSUME NEW v \in 1..MaxVersion, Deliver(v) PROVE SourceType'
  <2>1. given \in Seq(1..MaxVersion) /\ broadcast \in Seq(Nat) /\ Len(broadcast) < BroadcastCap
    BY <1>4 DEF Deliver, TypeOK
  <2>2. given' = Append(given, v) /\ given' \in Seq(1..MaxVersion) /\ Len(given') \in Nat
    BY <1>4, <2>1 DEF Deliver
  <2>3. broadcast' = Append(broadcast, Len(given'))
    BY <1>4 DEF Deliver
  <2>4. broadcast' \in Seq(Nat) /\ Len(broadcast') <= BroadcastCap
    BY <2>1, <2>2, <2>3, HubAssumption
  <2> QED BY <1>4, <2>2, <2>4 DEF Deliver, SourceType, TypeOK
<1>5. CASE UNCHANGED sourceVars
  BY <1>5 DEF sourceVars, keptVars, SourceType, TypeOK
<1>6. \/ Publish \/ TakeBroadcast \/ UNCHANGED sourceVars
      \/ \E v \in 1..MaxVersion : Store(v) \/ Deliver(v) \/ Lose(v)
  BY DEF Next, HubStep, Unregister, HubOffer, HubDrop, HubRetry, HubNext, Connect, Register, PeerGone,
         InitialRead, InitialSend, PusherTick, PusherSend, PusherDone, WriterStep, WriterTake,
         WriterWrites, WriterLeaves, ReaderLeaves, Close, vars
<1> QED BY <1>1, <1>2, <1>3, <1>4, <1>5, <1>6

LEMMA HubTypeStep == TypeOK /\ [Next]_vars => HubType'
<1> SUFFICES ASSUME TypeOK, [Next]_vars PROVE HubType'
  OBVIOUS
<1>1. CASE TakeBroadcast
  <2>1. Head(broadcast) \in Nat
    BY <1>1 DEF TakeBroadcast, TypeOK
  <2> QED BY <1>1, <2>1 DEF TakeBroadcast, HubType, TypeOK
<1>2. ASSUME NEW c \in Clients, HubOffer(c) PROVE HubType'
  BY <1>2 DEF HubOffer, HubType, TypeOK
<1>3. CASE HubDrop \/ HubRetry \/ HubNext
  BY <1>3 DEF HubDrop, HubRetry, HubNext, HubType, TypeOK
<1>4. CASE UNCHANGED hubVars
  BY <1>4 DEF hubVars, HubType, TypeOK
<1>5. TakeBroadcast \/ (\E c \in Clients : HubOffer(c)) \/ HubDrop \/ HubRetry \/ HubNext \/ UNCHANGED hubVars
  BY DEF Next, HubStep, Unregister, Publish, Store, Deliver, Lose, Connect, Register, PeerGone,
         InitialRead, InitialSend, PusherTick, PusherSend, PusherDone, WriterStep, WriterTake,
         WriterWrites, WriterLeaves, ReaderLeaves, Close, vars
<1> QED BY <1>1, <1>2, <1>3, <1>4, <1>5

LEMMA SenderTypeStep == TypeOK /\ [Next]_vars => SenderType'
<1> SUFFICES ASSUME TypeOK, [Next]_vars PROVE SenderType'
  OBVIOUS
<1>1. ASSUME NEW c \in Clients, Register(c) \/ InitialRead(c) \/ InitialSend(c) PROVE SenderType'
  BY <1>1 DEF Register, InitialRead, InitialSend, SenderType, TypeOK, Sender
<1>2. ASSUME NEW c \in Clients, PusherTick(c) \/ PusherSend(c) \/ PusherDone(c) PROVE SenderType'
  BY <1>2 DEF PusherTick, PusherSend, PusherDone, SenderType, TypeOK, Sender
<1>3. CASE UNCHANGED <<initial, pusher>>
  BY <1>3 DEF SenderType, TypeOK
<1>4. \/ UNCHANGED <<initial, pusher>>
      \/ \E c \in Clients : \/ Register(c) \/ InitialRead(c) \/ InitialSend(c)
                            \/ PusherTick(c) \/ PusherSend(c) \/ PusherDone(c)
  BY DEF Next, HubStep, Unregister, Publish, Store, Deliver, Lose, TakeBroadcast, HubOffer, HubDrop, HubRetry, HubNext, Connect,
         PeerGone, WriterStep, WriterTake, WriterWrites, WriterLeaves, ReaderLeaves, Close, vars, goVars
<1> QED BY <1>1, <1>2, <1>3, <1>4

\* What an enqueued message, and a message taken out, leave of a channel.
LEMMA Enqueued ==
    ASSUME QueueType, NEW c \in Clients, NEW rev \in Nat, NEW live \in BOOLEAN, Room(c), Enqueue(c, rev, live)
    PROVE  QueueType'
<1>1. [rev |-> rev, live |-> live] \in Message
  BY DEF Message
<1>2. queue[c] \in Seq(Message) /\ Len(queue[c]) < SendCap /\ SendCap \in Nat
  BY HubAssumption DEF QueueType, Room
<1>3. /\ Append(queue[c], [rev |-> rev, live |-> live]) \in Seq(Message)
      /\ Len(Append(queue[c], [rev |-> rev, live |-> live])) <= SendCap
  BY <1>1, <1>2
<1> QED BY <1>3 DEF QueueType, Enqueue

LEMMA Dequeued ==
    ASSUME QueueType, NEW c \in Clients, queue[c] # <<>>, queue' = [queue EXCEPT ![c] = Tail(@)]
    PROVE  QueueType'
<1>1. queue[c] \in Seq(Message) /\ Len(queue[c]) <= SendCap /\ SendCap \in Nat
  BY HubAssumption DEF QueueType
<1>2. Tail(queue[c]) \in Seq(Message) /\ Len(Tail(queue[c])) <= SendCap
  BY <1>1
<1> QED BY <1>2 DEF QueueType

LEMMA QueueTypeStep == TypeOK /\ [Next]_vars => QueueType'
<1> SUFFICES ASSUME TypeOK, [Next]_vars PROVE QueueType'
  OBVIOUS
<1>0. QueueType
  BY TypeParts
<1>1. ASSUME NEW c \in Clients, HubOffer(c) PROVE QueueType'
  BY <1>0, <1>1, Enqueued DEF HubOffer, TypeOK, QueueType
<1>2. CASE HubDrop
  <2>1. CASE hubCur \in Clients /\ queue[hubCur] # <<>>
    BY <1>0, <1>2, <2>1, Dequeued DEF HubDrop
  <2>2. CASE ~(hubCur \in Clients /\ queue[hubCur] # <<>>)
    <3>1. queue' = queue
      BY <1>0, <1>2, <2>2 DEF HubDrop, QueueType
    <3> QED BY <1>0, <3>1 DEF QueueType
  <2> QED BY <2>1, <2>2
<1>3. CASE HubRetry
  <2>1. CASE hubCur \in Clients /\ Room(hubCur)
    BY <1>0, <1>3, <2>1, Enqueued DEF HubRetry, TypeOK
  <2>2. CASE ~(hubCur \in Clients /\ Room(hubCur))
    <3>1. queue' = queue
      BY <1>0, <1>3, <2>2 DEF HubRetry, QueueType, Enqueue
    <3> QED BY <1>0, <3>1 DEF QueueType
  <2> QED BY <2>1, <2>2
<1>4. ASSUME NEW c \in Clients, InitialSend(c) PROVE QueueType'
  <2>1. held[c].initial \in Nat
    BY DEF TypeOK
  <2> QED BY <1>0, <1>4, <2>1, Enqueued DEF InitialSend, QueueType
<1>5. ASSUME NEW c \in Clients, PusherSend(c) PROVE QueueType'
  <2>1. held[c].pusher \in Nat
    BY DEF TypeOK
  <2> QED BY <1>0, <1>5, <2>1, Enqueued DEF PusherSend, QueueType
<1>6. ASSUME NEW c \in Clients, WriterTake(c) PROVE QueueType'
  BY <1>0, <1>6, Dequeued DEF WriterTake
<1>7. CASE UNCHANGED queue
  BY <1>0, <1>7 DEF QueueType
<1>8. \/ UNCHANGED queue \/ HubDrop \/ HubRetry
      \/ \E c \in Clients : HubOffer(c) \/ InitialSend(c) \/ PusherSend(c) \/ WriterTake(c)
  BY DEF Next, HubStep, Unregister, Publish, Store, Deliver, Lose, TakeBroadcast, HubNext, Connect, Register, PeerGone,
         InitialRead, PusherTick, PusherDone, WriterStep, WriterWrites, WriterLeaves, ReaderLeaves, Close, vars
<1> QED BY <1>1, <1>2, <1>3, <1>4, <1>5, <1>6, <1>7, <1>8

LEMMA HeldTypeStep == TypeOK /\ [Next]_vars => HeldType'
<1> SUFFICES ASSUME TypeOK, [Next]_vars PROVE HeldType'
  OBVIOUS
<1>0. version \in Nat /\ Latest \in Nat
  BY HubAssumption DEF TypeOK, Versions, Latest, Payloads, Elsewhere
<1>1. ASSUME NEW c \in Clients, InitialRead(c) PROVE HeldType'
  BY <1>0, <1>1 DEF InitialRead, HeldType, TypeOK, history
<1>2. ASSUME NEW c \in Clients, PusherTick(c) PROVE HeldType'
  BY <1>0, <1>2 DEF PusherTick, HeldType, TypeOK, history
<1>3. ASSUME NEW c \in Clients, WriterTake(c) PROVE HeldType'
  <2>1. Head(queue[c]) \in Message
    <3>1. queue[c] \in Seq(Message) /\ queue[c] # <<>>
      BY <1>3 DEF WriterTake, TypeOK
    <3> QED BY <3>1
  <2> QED BY <1>3, <2>1 DEF WriterTake, HeldType, TypeOK, history
<1>4. ASSUME NEW c \in Clients, WriterWrites(c) PROVE HeldType'
  <2>1. held[c].writer.rev \in Nat
    BY DEF TypeOK, Message
  <2> QED BY <1>4, <2>1 DEF WriterWrites, HeldType, TypeOK
<1>5. CASE UNCHANGED <<held, lastRevision, lastLive, newest>>
  BY <1>5 DEF HeldType, TypeOK
<1>6. \/ UNCHANGED <<held, lastRevision, lastLive, newest>>
      \/ \E c \in Clients : InitialRead(c) \/ PusherTick(c) \/ WriterTake(c) \/ WriterWrites(c)
  BY DEF Next, HubStep, Unregister, Publish, Store, Deliver, Lose, TakeBroadcast, HubOffer, HubDrop, HubRetry, HubNext, Connect,
         Register, PeerGone, InitialSend, PusherSend, PusherDone, WriterStep, WriterLeaves, ReaderLeaves,
         Close, vars, history
<1> QED BY <1>1, <1>2, <1>3, <1>4, <1>5, <1>6

LEMMA TypeStep == TypeOK /\ IInv /\ [Next]_vars => TypeOK'
<1> SUFFICES ASSUME TypeOK, IInv, [Next]_vars PROVE TypeOK'
  OBVIOUS
<1>1. SourceType' /\ HubType' /\ SenderType' /\ QueueType' /\ HeldType'
  BY SourceTypeStep, HubTypeStep, SenderTypeStep, QueueTypeStep, HeldTypeStep
<1>2. ConnType'
  BY NextInv DEF IInv
<1> QED BY <1>1, <1>2 DEF TypeOK, SourceType, HubType, ConnType, SenderType, QueueType, HeldType

\* Every part of the hub and of its connections stays of its type; no channel is
\* ever fuller than its capacity.
THEOREM TypeCorrect == Spec => []TypeOK
BY InitInv, NextInv, InitType, TypeStep, PTL DEF Spec
-----------------------------------------------------------------------------
(* The order of live payloads *)

\* What is on its way to a client is in order: l was written last, the messages of
\* w (one at most) are in the writer's hand, q is in the channel, and no payload of
\* them is newer than n.
Ordered(q, w, l, n) ==
    /\ l <= n
    /\ \A m \in w : m.live => l < m.rev /\ m.rev <= n
    /\ \A i \in 1..Len(q) : q[i].live =>
          /\ l < q[i].rev /\ q[i].rev <= n
          /\ \A m \in w : m.live => m.rev < q[i].rev
    /\ \A i, j \in 1..Len(q) : i < j /\ q[i].live /\ q[j].live => q[i].rev < q[j].rev

LEMMA PutLive ==
    ASSUME NEW q \in Seq(Message), NEW w \in SUBSET Message, NEW l \in Nat, NEW n \in Nat,
           Ordered(q, w, l, n - 1)
    PROVE  Ordered(Append(q, [rev |-> n, live |-> TRUE]), w, l, n)
<1> DEFINE new == Append(q, [rev |-> n, live |-> TRUE])
<1>1. /\ Len(new) = Len(q) + 1 /\ new[Len(q) + 1] = [rev |-> n, live |-> TRUE]
      /\ \A i \in 1..Len(q) : new[i] = q[i] /\ q[i] \in Message
  OBVIOUS
<1>2. \A m \in w : m.rev \in Nat
  BY HubAssumption DEF Message, Versions
<1>3. \A i \in 1..Len(q) : q[i].rev \in Nat
  BY <1>1, HubAssumption DEF Message, Versions
<1>4. l \in Nat /\ n \in Nat
  BY HubAssumption DEF Versions
<1> HIDE DEF new
<1>5. \A i \in 1..Len(new) : new[i].live =>
          /\ l < new[i].rev /\ new[i].rev <= n
          /\ \A m \in w : m.live => m.rev < new[i].rev
  <2> SUFFICES ASSUME NEW i \in 1..Len(new), new[i].live
               PROVE  /\ l < new[i].rev /\ new[i].rev <= n
                      /\ \A m \in w : m.live => m.rev < new[i].rev
    OBVIOUS
  <2>1. CASE i = Len(q) + 1
    BY <1>1, <1>2, <1>4, <2>1 DEF Ordered
  <2>2. CASE i # Len(q) + 1
    <3>1. i \in 1..Len(q)
      BY <1>1, <2>2
    <3> QED BY <1>1, <1>3, <1>4, <3>1 DEF Ordered
  <2> QED BY <2>1, <2>2
<1>6. \A i, j \in 1..Len(new) : i < j /\ new[i].live /\ new[j].live => new[i].rev < new[j].rev
  <2> SUFFICES ASSUME NEW i \in 1..Len(new), NEW j \in 1..Len(new), i < j, new[i].live, new[j].live
               PROVE  new[i].rev < new[j].rev
    OBVIOUS
  <2>1. i \in 1..Len(q)
    BY <1>1
  <2>2. CASE j = Len(q) + 1
    BY <1>1, <1>3, <1>4, <2>1, <2>2 DEF Ordered
  <2>3. CASE j # Len(q) + 1
    <3>1. j \in 1..Len(q)
      BY <1>1, <2>3
    <3> QED BY <1>1, <2>1, <3>1 DEF Ordered
  <2> QED BY <2>2, <2>3
<1>7. l <= n /\ \A m \in w : m.live => l < m.rev /\ m.rev <= n
  BY <1>2, <1>4 DEF Ordered
<1>8. Ordered(new, w, l, n)
  BY <1>5, <1>6, <1>7 DEF Ordered
<1> QED BY <1>8 DEF new

LEMMA PutInitial ==
    ASSUME NEW q \in Seq(Message), NEW w, NEW l, NEW n, NEW r, Ordered(q, w, l, n)
    PROVE  Ordered(Append(q, [rev |-> r, live |-> FALSE]), w, l, n)
<1> DEFINE new == Append(q, [rev |-> r, live |-> FALSE])
<1>1. /\ Len(new) = Len(q) + 1 /\ new[Len(q) + 1] = [rev |-> r, live |-> FALSE]
      /\ \A i \in 1..Len(q) : new[i] = q[i]
  OBVIOUS
<1> HIDE DEF new
<1>2. \A i \in 1..Len(new) : new[i].live => i \in 1..Len(q)
  BY <1>1
<1>3. Ordered(new, w, l, n)
  BY <1>1, <1>2 DEF Ordered
<1> QED BY <1>3 DEF new

LEMMA Later ==
    ASSUME NEW q \in Seq(Message), NEW w \in SUBSET Message, NEW l \in Nat,
           NEW n \in Int, NEW m \in Int, n <= m, Ordered(q, w, l, n)
    PROVE  Ordered(q, w, l, m)
<1>1. \A x \in w : x.rev \in Nat
  BY HubAssumption DEF Message, Versions
<1>2. \A i \in 1..Len(q) : q[i].rev \in Nat
  <2>1. \A i \in 1..Len(q) : q[i] \in Message
    OBVIOUS
  <2> QED BY <2>1, HubAssumption DEF Message, Versions
<1>3. l \in Nat
  BY HubAssumption DEF Versions
<1> QED BY <1>1, <1>2, <1>3 DEF Ordered

LEMMA FirstGone ==
    ASSUME NEW q \in Seq(Message), NEW w, NEW l, NEW n, q # <<>>, Ordered(q, w, l, n)
    PROVE  Ordered(Tail(q), w, l, n)
<1>1. Len(Tail(q)) = Len(q) - 1 /\ Len(q) \in Nat /\ \A i \in 1..Len(Tail(q)) : Tail(q)[i] = q[i + 1]
  OBVIOUS
<1>2. \A i \in 1..Len(Tail(q)) : i + 1 \in 1..Len(q)
  BY <1>1
<1>3. \A i, j \in 1..Len(Tail(q)) : i < j => i + 1 < j + 1
  BY <1>1
<1> QED BY <1>1, <1>2, <1>3 DEF Ordered

LEMMA FirstTaken ==
    ASSUME NEW q \in Seq(Message), NEW l, NEW n, q # <<>>, Ordered(q, {}, l, n)
    PROVE  Ordered(Tail(q), {Head(q)}, l, n)
<1>1. Ordered(Tail(q), {}, l, n)
  BY FirstGone
<1>2. Len(q) \in Nat /\ 1 \in 1..Len(q) /\ Head(q) = q[1]
  OBVIOUS
<1>3. Len(Tail(q)) = Len(q) - 1 /\ \A i \in 1..Len(Tail(q)) : Tail(q)[i] = q[i + 1]
  OBVIOUS
<1>4. \A i \in 1..Len(Tail(q)) : i + 1 \in 1..Len(q) /\ 1 < i + 1
  BY <1>2, <1>3
<1>5. \A i \in 1..Len(Tail(q)) : Tail(q)[i].live /\ q[1].live => q[1].rev < Tail(q)[i].rev
  BY <1>2, <1>3, <1>4 DEF Ordered
<1> QED BY <1>1, <1>2, <1>5 DEF Ordered

LEMMA HandEmptied ==
    ASSUME NEW q, NEW w, NEW l, NEW n, Ordered(q, w, l, n)
    PROVE  Ordered(q, {}, l, n)
BY DEF Ordered

LEMMA HandWritten ==
    ASSUME NEW q, NEW m, NEW l, NEW n, Ordered(q, {m}, l, n)
    PROVE  Ordered(q, {}, IF m.live THEN m.rev ELSE l, n)
BY DEF Ordered

-----------------------------------------------------------------------------

InHand(c) == IF writer[c] = "write" THEN {held[c].writer} ELSE {}

\* The newest live payload meant for a client, and whether it is still to be sent.
Top(c) == IF perUser THEN lastRevision[c] ELSE hubMsg
Owed(c) == IF perUser THEN pusher[c] = "send"
           ELSE hub # "select" /\ (c \in hubLeft \/ (hub # "loop" /\ hubCur = c))
Bound(c) == IF Owed(c) THEN Top(c) - 1 ELSE Top(c)

Way(c) == Ordered(queue[c], InHand(c), lastLive[c], Bound(c))

\* Pushers and the hub do not both send, and what they are about to send is newer
\* than what they have sent.
Sources ==
    /\ perUser => flight = {} /\ broadcast = <<>> /\ hub = "select"
    /\ ~perUser => \A c \in Clients : pusher[c] \in {"off", "end"}
    /\ hubMsg <= Len(given)
    /\ \A i \in 1..Len(broadcast) : hubMsg < broadcast[i] /\ broadcast[i] <= Len(given)
    /\ \A i, j \in 1..Len(broadcast) : i < j => broadcast[i] < broadcast[j]
    /\ hub \in {"drop", "retry"} => hubCur \notin hubLeft
    /\ \A c \in Clients : /\ lastRevision[c] <= version
                          /\ pusher[c] = "send" => held[c].pusher = lastRevision[c]

LEMMA InitOrder == Init => Sources /\ \A c \in Clients : Way(c)
<1> SUFFICES ASSUME Init PROVE Sources /\ \A c \in Clients : Way(c)
  OBVIOUS
<1>1. Sources
  BY DEF Init, Sources, Everywhere
<1>2. ASSUME NEW c \in Clients PROVE Way(c)
  <2>1. queue[c] = <<>> /\ InHand(c) = {} /\ lastLive[c] = 0 /\ Bound(c) = 0
    BY DEF Init, Everywhere, InHand, Bound, Owed, Top
  <2> QED BY <2>1 DEF Way, Ordered
<1> QED BY <1>1, <1>2

\* A client nothing of which has changed.
LEMMA SameWay ==
    ASSUME NEW c \in Clients, Way(c), queue'[c] = queue[c], InHand(c)' = InHand(c),
           lastLive'[c] = lastLive[c], Bound(c)' = Bound(c)
    PROVE  Way(c)'
BY DEF Way

LEMMA WayTypes ==
    ASSUME TypeOK, NEW c \in Clients
    PROVE  /\ queue[c] \in Seq(Message) /\ InHand(c) \in SUBSET Message
           /\ lastLive[c] \in Nat /\ Top(c) \in Nat /\ Bound(c) \in Int
<1>1. \A n \in Versions : n \in Nat
  BY DEF Versions
<1> QED BY <1>1 DEF TypeOK, InHand, Top, Bound

OrderInv == Sources /\ \A c \in Clients : Way(c)

\* Payloads that are published, stored or lost are meant for nobody yet.
LEMMA PublishOrder ==
    ASSUME TypeOK, OrderInv, Publish \/ \E v \in 1..MaxVersion : Store(v) \/ Lose(v)
    PROVE  OrderInv'
<1>0. Sources /\ \A c \in Clients : Way(c)
  BY DEF OrderInv
<1>1. /\ version' \in {version, version + 1} /\ version \in Nat
      /\ UNCHANGED <<perUser, given, broadcast, hub, hubMsg, hubLeft, hubCur, queue, pusher, writer, held, lastRevision, lastLive>>
  BY HubAssumption DEF Publish, Store, Lose, hubVars, goVars, history, TypeOK, Versions
<1>2. \A c \in Clients : InHand(c)' = InHand(c) /\ Bound(c)' = Bound(c)
  BY <1>1 DEF InHand, Bound, Owed, Top
<1>3. \A c \in Clients : Way(c)'
  BY <1>0, <1>1, <1>2, SameWay
<1>4. perUser => flight' = {}
  BY <1>0 DEF Publish, Store, Lose, Sources
<1>5. \A c \in Clients : lastRevision[c] <= version'
  <2>1. \A c \in Clients : lastRevision[c] \in Nat
    <3>1. Versions \subseteq Nat
      BY DEF Versions
    <3> QED BY <3>1 DEF TypeOK
  <2>2. \A c \in Clients : lastRevision[c] <= version
    BY <1>0 DEF Sources
  <2> QED BY <1>1, <2>1, <2>2
<1>6. Sources'
  BY <1>0, <1>1, <1>4, <1>5 DEF Sources
<1> QED BY <1>3, <1>6 DEF OrderInv

\* A payload the hub is given takes the last place.
LEMMA DeliverOrder ==
    ASSUME TypeOK, OrderInv, NEW v \in 1..MaxVersion, Deliver(v)
    PROVE  OrderInv'
<1>0. Sources /\ \A c \in Clients : Way(c)
  BY DEF OrderInv
<1>1. /\ given' = Append(given, v) /\ broadcast' = Append(broadcast, Len(given')) /\ v \in flight
      /\ UNCHANGED <<perUser, version, hub, hubMsg, hubLeft, hubCur, queue, pusher, writer, held, lastRevision, lastLive>>
  BY DEF Deliver, hubVars, goVars, history
<1>2. \A c \in Clients : InHand(c)' = InHand(c) /\ Bound(c)' = Bound(c)
  BY <1>1 DEF InHand, Bound, Owed, Top
<1>3. \A c \in Clients : Way(c)'
  BY <1>0, <1>1, <1>2, SameWay
<1>4. ~perUser
  BY <1>0, <1>1 DEF Sources
<1>5. hubMsg \in Nat /\ broadcast \in Seq(Nat) /\ given \in Seq(1..MaxVersion) /\ Len(given) \in Nat
  BY DEF TypeOK
<1>6. Len(given') = Len(given) + 1
  BY <1>1, <1>5
<1>7. /\ Len(broadcast') = Len(broadcast) + 1 /\ broadcast'[Len(broadcast) + 1] = Len(given) + 1
      /\ \A i \in 1..Len(broadcast) : broadcast'[i] = broadcast[i] /\ broadcast[i] \in Nat
  BY <1>1, <1>5, <1>6
<1>8. /\ hubMsg <= Len(given')
      /\ \A i \in 1..Len(broadcast') : hubMsg < broadcast'[i] /\ broadcast'[i] <= Len(given')
  <2>1. hubMsg <= Len(given)
    BY <1>0 DEF Sources
  <2>2. ASSUME NEW i \in 1..Len(broadcast') PROVE hubMsg < broadcast'[i] /\ broadcast'[i] <= Len(given')
    <3>1. CASE i = Len(broadcast) + 1
      BY <1>5, <1>6, <1>7, <2>1, <3>1
    <3>2. CASE i \in 1..Len(broadcast)
      <4>1. hubMsg < broadcast[i] /\ broadcast[i] <= Len(given)
        BY <1>0, <3>2 DEF Sources
      <4> QED BY <1>5, <1>6, <1>7, <3>2, <4>1
    <3> QED BY <1>5, <1>7, <3>1, <3>2
  <2> QED BY <1>5, <1>6, <2>1, <2>2
<1>9. \A i, j \in 1..Len(broadcast') : i < j => broadcast'[i] < broadcast'[j]
  <2> SUFFICES ASSUME NEW i \in 1..Len(broadcast'), NEW j \in 1..Len(broadcast'), i < j
               PROVE  broadcast'[i] < broadcast'[j]
    OBVIOUS
  <2>1. i \in 1..Len(broadcast) /\ broadcast'[i] = broadcast[i] /\ broadcast[i] \in Nat
    BY <1>5, <1>7
  <2>2. CASE j = Len(broadcast) + 1
    <3>1. broadcast[i] <= Len(given)
      BY <1>0, <2>1 DEF Sources
    <3> QED BY <1>5, <1>7, <2>1, <2>2, <3>1
  <2>3. CASE j \in 1..Len(broadcast)
    BY <1>0, <1>7, <2>1, <2>3 DEF Sources
  <2>4. Len(broadcast) \in Nat
    BY <1>5
  <2> QED BY <1>7, <2>2, <2>3, <2>4
<1>10. Sources'
  BY <1>0, <1>1, <1>4, <1>8, <1>9 DEF Sources
<1> QED BY <1>3, <1>10 DEF OrderInv

\* A client whose channel is as it was, while its writer may have emptied its hand
\* and newer payloads may be meant for it.
LEMMA Looser ==
    ASSUME TypeOK, NEW c \in Clients, Way(c), queue'[c] = queue[c], lastLive'[c] = lastLive[c],
           InHand(c)' \in {InHand(c), {}}, Bound(c)' \in Int, Bound(c) <= Bound(c)'
    PROVE  Way(c)'
<1> DEFINE q == queue[c]  l == lastLive[c]  n == Bound(c)'
<1>1. queue[c] \in Seq(Message) /\ InHand(c) \in SUBSET Message /\ lastLive[c] \in Nat /\ Bound(c) \in Int
  BY WayTypes
<1>2. Ordered(queue[c], InHand(c), lastLive[c], Bound(c))
  BY DEF Way
<1> HIDE DEF n
<1>3. n \in Int /\ Bound(c) <= n
  BY DEF n
<1>4. Ordered(q, InHand(c), l, n)
  BY <1>1, <1>2, <1>3, Later
<1>5. Ordered(q, {}, l, n)
  BY <1>4, HandEmptied
<1>6. Ordered(q, InHand(c)', l, n)
  BY <1>4, <1>5
<1> QED BY <1>6 DEF Way, n

LEMMA TakeBroadcastOrder ==
    ASSUME TypeOK, TypeOK', OrderInv, TakeBroadcast
    PROVE  OrderInv'
<1>1. /\ hub = "select" /\ hub' = "loop" /\ hubMsg' = Head(broadcast) /\ broadcast' = Tail(broadcast)
      /\ broadcast # <<>> /\ ~perUser
      /\ UNCHANGED <<perUser, version, flight, given, hubCur, queue, pusher, writer, held, lastRevision, lastLive>>
  BY DEF TakeBroadcast, keptVars, goVars, history, OrderInv, Sources
<1>2. broadcast \in Seq(Nat) /\ hubMsg \in Nat /\ Len(given) \in Nat
  BY HubAssumption DEF TypeOK, Versions
<1>3. /\ Len(broadcast) \in Nat \ {0} /\ Head(broadcast) = broadcast[1]
      /\ Len(broadcast') = Len(broadcast) - 1
      /\ \A i \in 1..Len(broadcast') : broadcast'[i] = broadcast[i + 1] /\ i + 1 \in 1..Len(broadcast)
  BY <1>1, <1>2
<1>4. hubMsg < hubMsg' /\ hubMsg' <= Len(given) /\ hubMsg' \in Nat
  BY <1>1, <1>2, <1>3 DEF OrderInv, Sources
<1>5. \A i \in 1..Len(broadcast') : hubMsg' < broadcast'[i] /\ broadcast'[i] <= Len(given)
  BY <1>1, <1>2, <1>3 DEF OrderInv, Sources
<1>6. \A i, j \in 1..Len(broadcast') : i < j => broadcast'[i] < broadcast'[j]
  <2> SUFFICES ASSUME NEW i \in 1..Len(broadcast'), NEW j \in 1..Len(broadcast'), i < j
               PROVE  broadcast'[i] < broadcast'[j]
    OBVIOUS
  <2>1. i + 1 \in 1..Len(broadcast) /\ j + 1 \in 1..Len(broadcast) /\ i + 1 < j + 1
    BY <1>3
  <2>2. broadcast[i + 1] < broadcast[j + 1]
    BY <2>1 DEF OrderInv, Sources
  <2> QED BY <1>3, <2>2
<1>7. Sources'
  BY <1>1, <1>4, <1>5, <1>6 DEF OrderInv, Sources
<1>8. ASSUME NEW c \in Clients PROVE Way(c)'
  <2>1. Bound(c) = hubMsg /\ Bound(c)' \in {hubMsg', hubMsg' - 1} /\ InHand(c)' = InHand(c)
    BY <1>1 DEF Bound, Top, Owed, InHand
  <2>2. Bound(c)' \in Int /\ Bound(c) <= Bound(c)'
    BY <1>2, <1>4, <2>1
  <2>3. Way(c) /\ queue'[c] = queue[c] /\ lastLive'[c] = lastLive[c]
    BY <1>1 DEF OrderInv
  <2> QED BY <2>1, <2>2, <2>3, Looser
<1> QED BY <1>7, <1>8 DEF OrderInv

\* The hub puts its message into the channel of c, which has not had it.
LEMMA HubPuts ==
    ASSUME TypeOK, OrderInv, NEW c \in Clients, ~perUser, Owed(c), ~Owed(c)',
           Enqueue(c, hubMsg, TRUE), UNCHANGED <<perUser, hubMsg, writer, held, lastLive>>
    PROVE  Way(c)'
<1>1. queue[c] \in Seq(Message) /\ InHand(c) \in SUBSET Message /\ lastLive[c] \in Nat /\ hubMsg \in Nat
  BY WayTypes DEF TypeOK
<1>2. Ordered(queue[c], InHand(c), lastLive[c], hubMsg - 1)
  BY DEF OrderInv, Way, Bound, Top
<1>3. queue'[c] = Append(queue[c], [rev |-> hubMsg, live |-> TRUE])
  BY DEF Enqueue, TypeOK
<1>4. Ordered(queue'[c], InHand(c), lastLive[c], hubMsg)
  BY <1>1, <1>2, <1>3, PutLive
<1>5. InHand(c)' = InHand(c) /\ Bound(c)' = hubMsg
  BY DEF InHand, Bound, Top
<1> QED BY <1>4, <1>5 DEF Way

LEMMA HubOfferOrder ==
    ASSUME TypeOK, OrderInv, NEW c \in Clients, HubOffer(c)
    PROVE  OrderInv'
<1>1. /\ hub = "loop" /\ c \in hubLeft /\ hubLeft' = hubLeft \ {c} /\ ~perUser
      /\ UNCHANGED <<perUser, version, flight, given, broadcast, hubMsg, pusher, writer, held, lastRevision, lastLive>>
  BY DEF HubOffer, goVars, history, sourceVars, keptVars, OrderInv, Sources
<1>2. \/ Enqueue(c, hubMsg, TRUE) /\ hub' = "loop" /\ hubCur' = hubCur
      \/ queue' = queue /\ hub' = "drop" /\ hubCur' = c
  BY <1>1 DEF HubOffer
<1>3. Sources'
  BY <1>1, <1>2 DEF OrderInv, Sources
<1>4. ASSUME NEW d \in Clients \ {c} PROVE Way(d)'
  <2>1. queue'[d] = queue[d]
    BY <1>2 DEF Enqueue, TypeOK
  <2>2. InHand(d)' = InHand(d) /\ Bound(d)' = Bound(d)
    BY <1>1, <1>2 DEF InHand, Bound, Top, Owed
  <2> QED BY <1>1, <2>1, <2>2, SameWay DEF OrderInv
<1>5. Way(c)'
  <2>1. CASE Enqueue(c, hubMsg, TRUE) /\ hub' = "loop"
    <3>1. Owed(c) /\ ~Owed(c)'
      BY <1>1, <2>1 DEF Owed
    <3> QED BY <1>1, <2>1, <3>1, HubPuts
  <2>2. CASE queue' = queue /\ hub' = "drop" /\ hubCur' = c
    <3>1. InHand(c)' = InHand(c) /\ Bound(c)' = Bound(c)
      BY <1>1, <2>2 DEF InHand, Bound, Top, Owed
    <3> QED BY <1>1, <2>2, <3>1, SameWay DEF OrderInv
  <2> QED BY <1>2, <2>1, <2>2
<1> QED BY <1>3, <1>4, <1>5 DEF OrderInv

LEMMA HubDropOrder ==
    ASSUME TypeOK, OrderInv, HubDrop
    PROVE  OrderInv'
<1>1. /\ hub = "drop" /\ hub' = "retry" /\ ~perUser
      /\ UNCHANGED <<perUser, version, flight, given, broadcast, hubMsg, hubLeft, hubCur, pusher, writer, held, lastRevision, lastLive>>
  BY DEF HubDrop, goVars, history, sourceVars, keptVars, OrderInv, Sources
<1>2. Sources'
  BY <1>1 DEF OrderInv, Sources
<1>3. ASSUME NEW c \in Clients PROVE Way(c)'
  <2>1. InHand(c)' = InHand(c) /\ Bound(c)' = Bound(c)
    BY <1>1 DEF InHand, Bound, Top, Owed
  <2>2. CASE queue'[c] = queue[c]
    BY <1>1, <2>1, <2>2, SameWay DEF OrderInv
  <2>3. CASE queue'[c] # queue[c]
    <3>1. queue[c] # <<>> /\ queue'[c] = Tail(queue[c]) /\ queue[c] \in Seq(Message)
      BY <2>3 DEF HubDrop, TypeOK
    <3>2. Ordered(queue'[c], InHand(c), lastLive[c], Bound(c))
      BY <3>1, FirstGone DEF OrderInv, Way
    <3> QED BY <1>1, <2>1, <3>2 DEF Way
  <2> QED BY <2>2, <2>3
<1> QED BY <1>2, <1>3 DEF OrderInv

LEMMA HubRetryOrder ==
    ASSUME TypeOK, OrderInv, HubRetry
    PROVE  OrderInv'
<1>1. /\ hub = "retry" /\ hub' = "loop" /\ ~perUser /\ hubCur \notin hubLeft
      /\ UNCHANGED <<perUser, version, flight, given, broadcast, hubMsg, hubLeft, pusher, writer, held, lastRevision, lastLive>>
      /\ Enqueue(hubCur, hubMsg, TRUE) \/ queue' = queue
  BY DEF HubRetry, goVars, history, sourceVars, keptVars, OrderInv, Sources
<1>2. Sources'
  BY <1>1 DEF OrderInv, Sources
<1>3. ASSUME NEW c \in Clients PROVE Way(c)'
  <2>1. CASE queue'[c] = queue[c]
    <3>1. InHand(c)' = InHand(c) /\ Top(c)' = Top(c) /\ (Owed(c)' => Owed(c)) /\ Top(c) \in Int
      <4>1. Versions \subseteq Int
        BY DEF Versions
      <4> QED BY <1>1, <4>1 DEF InHand, Top, Owed, TypeOK
    <3>2. Bound(c)' \in Int /\ Bound(c) <= Bound(c)'
      BY <3>1 DEF Bound
    <3> QED BY <1>1, <2>1, <3>1, <3>2, Looser DEF OrderInv
  <2>2. CASE queue'[c] # queue[c]
    <3>1. c = hubCur /\ Enqueue(c, hubMsg, TRUE)
      BY <1>1, <2>2 DEF Enqueue, TypeOK
    <3>2. Owed(c) /\ ~Owed(c)'
      BY <1>1, <3>1 DEF Owed
    <3> QED BY <1>1, <3>1, <3>2, HubPuts
  <2> QED BY <2>1, <2>2
<1> QED BY <1>2, <1>3 DEF OrderInv

\* Steps after which a client's channel and last written payload are as they were,
\* and no more is owed to it than before.
LEMMA GoroutineOrder ==
    ASSUME TypeOK, OrderInv, Sources', NEW c \in Clients,
           queue'[c] = queue[c], lastLive'[c] = lastLive[c], InHand(c)' \in {InHand(c), {}},
           Top(c)' = Top(c), Owed(c)' => Owed(c)
    PROVE  Way(c)'
<1>1. Top(c) \in Int
  <2>1. Versions \subseteq Int /\ Nat \subseteq Int
    BY DEF Versions
  <2> QED BY <2>1 DEF TypeOK, Top
<1>2. Bound(c)' \in Int /\ Bound(c) <= Bound(c)'
  BY <1>1 DEF Bound
<1> QED BY <1>2, Looser DEF OrderInv

LEMMA HubNextOrder ==
    ASSUME TypeOK, OrderInv, HubNext
    PROVE  OrderInv'
<1>1. /\ hub = "loop" /\ hub' = "select"
      /\ UNCHANGED <<perUser, version, flight, given, broadcast, hubMsg, hubLeft, hubCur, queue, pusher, writer, held, lastRevision, lastLive>>
  BY DEF HubNext, goVars, history, sourceVars, keptVars
<1>2. Sources'
  BY <1>1 DEF OrderInv, Sources
<1>3. ASSUME NEW c \in Clients PROVE Way(c)'
  BY <1>1, <1>2, GoroutineOrder DEF InHand, Top, Owed
<1> QED BY <1>2, <1>3 DEF OrderInv

\* Connections come and go; readers and writers unregister and close.
LEMMA ConnectionOrder ==
    ASSUME TypeOK, OrderInv, NEW c \in Clients,
           \/ Unregister(c) \/ Connect(c) \/ Register(c) \/ PeerGone(c)
           \/ WriterLeaves(c) \/ ReaderLeaves(c) \/ Close(c)
    PROVE  OrderInv'
<1>1. UNCHANGED <<perUser, version, flight, given, broadcast, hub, hubMsg, hubLeft, hubCur, queue, held, lastRevision, lastLive>>
  BY DEF Unregister, Connect, Register, PeerGone, WriterLeaves, ReaderLeaves, Close, sourceVars, keptVars, hubVars, history
<1>2. \A d \in Clients : InHand(d)' \in {InHand(d), {}}
  <2>1. writer' = writer \/ \E x \in {"run", "close", "unregister", "end"} : writer' = [writer EXCEPT ![c] = x]
    BY DEF Unregister, Connect, Register, PeerGone, WriterLeaves, ReaderLeaves, Close, goVars
  <2> QED BY <1>1, <2>1 DEF InHand, TypeOK, Sender
<1>3. \A d \in Clients : pusher'[d] = pusher[d] \/ (pusher'[d] = IF perUser THEN "wait" ELSE "end")
  BY DEF Unregister, Connect, Register, PeerGone, WriterLeaves, ReaderLeaves, Close, goVars, TypeOK, Sender
<1>4. Sources'
  BY <1>1, <1>3 DEF OrderInv, Sources
<1>5. \A d \in Clients : Top(d)' = Top(d) /\ (Owed(d)' => Owed(d))
  BY <1>1, <1>3 DEF Top, Owed
<1>6. ASSUME NEW d \in Clients PROVE Way(d)'
  BY <1>1, <1>2, <1>4, <1>5, GoroutineOrder
<1> QED BY <1>4, <1>6 DEF OrderInv

LEMMA InitialReadOrder ==
    ASSUME TypeOK, OrderInv, NEW c \in Clients, InitialRead(c)
    PROVE  OrderInv'
<1>1. UNCHANGED <<perUser, version, flight, given, broadcast, hub, hubMsg, hubLeft, hubCur, queue, pusher, writer, lastRevision, lastLive>>
  BY DEF InitialRead, sourceVars, keptVars, hubVars, history
<1>2. \A d \in Clients : held'[d].writer = held[d].writer /\ held'[d].pusher = held[d].pusher
  BY DEF InitialRead, TypeOK
<1>3. Sources'
  BY <1>1, <1>2 DEF OrderInv, Sources
<1>4. ASSUME NEW d \in Clients PROVE Way(d)'
  BY <1>1, <1>2, <1>3, GoroutineOrder DEF InHand, Top, Owed
<1> QED BY <1>3, <1>4 DEF OrderInv

LEMMA InitialSendOrder ==
    ASSUME TypeOK, OrderInv, NEW c \in Clients, InitialSend(c)
    PROVE  OrderInv'
<1>1. UNCHANGED <<perUser, version, flight, given, broadcast, hub, hubMsg, hubLeft, hubCur, pusher, writer, held, lastRevision, lastLive>>
  BY DEF InitialSend, sourceVars, keptVars, hubVars, history
<1>2. Sources'
  BY <1>1 DEF OrderInv, Sources
<1>3. ASSUME NEW d \in Clients PROVE Way(d)'
  <2>1. InHand(d)' = InHand(d) /\ Bound(d)' = Bound(d)
    BY <1>1 DEF InHand, Bound, Top, Owed
  <2>2. CASE queue'[d] = queue[d]
    BY <1>1, <2>1, <2>2, SameWay DEF OrderInv
  <2>3. CASE queue'[d] # queue[d]
    <3>1. /\ queue'[d] = Append(queue[d], [rev |-> held[d].initial, live |-> FALSE])
          /\ queue[d] \in Seq(Message)
      BY <2>3 DEF InitialSend, Enqueue, TypeOK
    <3>2. Ordered(queue'[d], InHand(d), lastLive[d], Bound(d))
      BY <3>1, PutInitial DEF OrderInv, Way
    <3> QED BY <1>1, <2>1, <3>2 DEF Way
  <2> QED BY <2>2, <2>3
<1> QED BY <1>2, <1>3 DEF OrderInv

LEMMA PusherTickOrder ==
    ASSUME TypeOK, OrderInv, NEW c \in Clients, PusherTick(c)
    PROVE  OrderInv'
<1>1. /\ pusher[c] = "wait" /\ version # lastRevision[c] /\ perUser
      /\ UNCHANGED <<perUser, version, flight, given, broadcast, hub, hubMsg, hubLeft, hubCur, queue, writer, lastLive>>
  BY DEF PusherTick, NewPayload, sourceVars, keptVars, hubVars, history, OrderInv, Sources
<1>2. /\ pusher' = [pusher EXCEPT ![c] = "send"]
      /\ lastRevision' = [lastRevision EXCEPT ![c] = version]
      /\ held' = [held EXCEPT ![c].pusher = version]
  BY DEF PusherTick
<1>3. /\ \A d \in Clients : held'[d].writer = held[d].writer
      /\ held'[c].pusher = version /\ lastRevision'[c] = version /\ pusher'[c] = "send"
      /\ \A d \in Clients \ {c} : /\ held'[d].pusher = held[d].pusher /\ pusher'[d] = pusher[d]
                                  /\ lastRevision'[d] = lastRevision[d]
  BY <1>2 DEF TypeOK, Sender
<1>4. \A d \in Clients : lastRevision[d] \in Nat /\ lastRevision[d] <= version /\ version \in Nat
  <2>1. Versions \subseteq Nat
    BY DEF Versions
  <2> QED BY <2>1 DEF TypeOK, OrderInv, Sources
<1>5. Sources'
  BY <1>1, <1>3, <1>4 DEF OrderInv, Sources
<1>6. ASSUME NEW d \in Clients \ {c} PROVE Way(d)'
  BY <1>1, <1>3, <1>5, GoroutineOrder DEF InHand, Top, Owed
<1>7. Way(c)'
  <2>1. Bound(c) = lastRevision[c] /\ Bound(c)' = version - 1 /\ InHand(c)' = InHand(c)
    BY <1>1, <1>3 DEF Bound, Top, Owed, InHand
  <2>2. Bound(c)' \in Int /\ Bound(c) <= Bound(c)'
    BY <1>1, <1>4, <2>1
  <2> QED BY <1>1, <2>1, <2>2, Looser DEF OrderInv
<1> QED BY <1>5, <1>6, <1>7 DEF OrderInv

LEMMA PusherSendOrder ==
    ASSUME TypeOK, OrderInv, NEW c \in Clients, PusherSend(c)
    PROVE  OrderInv'
<1>1. /\ pusher[c] = "send" /\ perUser /\ held[c].pusher = lastRevision[c]
      /\ queue' = [queue EXCEPT ![c] = Append(@, [rev |-> held[c].pusher, live |-> TRUE])]
      /\ pusher' = [pusher EXCEPT ![c] = "wait"]
      /\ UNCHANGED <<perUser, version, flight, given, broadcast, hub, hubMsg, hubLeft, hubCur, writer, held, lastRevision, lastLive>>
  BY DEF PusherSend, Enqueue, sourceVars, keptVars, hubVars, history, OrderInv, Sources
<1>2. pusher'[c] = "wait" /\ \A d \in Clients \ {c} : pusher'[d] = pusher[d] /\ queue'[d] = queue[d]
  BY <1>1 DEF TypeOK, Sender
<1>3. Sources'
  BY <1>1, <1>2 DEF OrderInv, Sources
<1>4. ASSUME NEW d \in Clients \ {c} PROVE Way(d)'
  BY <1>1, <1>2, <1>3, GoroutineOrder DEF InHand, Top, Owed
<1>5. Way(c)'
  <2>1. queue[c] \in Seq(Message) /\ InHand(c) \in SUBSET Message /\ lastLive[c] \in Nat
    BY WayTypes
  <2>2. lastRevision[c] \in Nat
    BY DEF TypeOK, Versions
  <2>3. Ordered(queue[c], InHand(c), lastLive[c], lastRevision[c] - 1)
    BY <1>1 DEF OrderInv, Way, Bound, Top, Owed
  <2>4. queue'[c] = Append(queue[c], [rev |-> lastRevision[c], live |-> TRUE])
    BY <1>1 DEF TypeOK
  <2>5. Ordered(queue'[c], InHand(c), lastLive[c], lastRevision[c])
    BY <2>1, <2>2, <2>3, <2>4, PutLive
  <2>6. InHand(c)' = InHand(c) /\ Bound(c)' = lastRevision[c]
    BY <1>1, <1>2 DEF InHand, Bound, Top, Owed
  <2> QED BY <1>1, <2>5, <2>6 DEF Way
<1> QED BY <1>3, <1>4, <1>5 DEF OrderInv

LEMMA PusherDoneOrder ==
    ASSUME TypeOK, OrderInv, NEW c \in Clients, PusherDone(c)
    PROVE  OrderInv'
<1>1. /\ pusher' = [pusher EXCEPT ![c] = "end"]
      /\ UNCHANGED <<perUser, version, flight, given, broadcast, hub, hubMsg, hubLeft, hubCur, queue, writer, held, lastRevision, lastLive>>
  BY DEF PusherDone, sourceVars, keptVars, hubVars, history
<1>2. \A d \in Clients : pusher'[d] \in {pusher[d], "end"}
  BY <1>1 DEF TypeOK, Sender
<1>3. Sources'
  BY <1>1, <1>2 DEF OrderInv, Sources
<1>4. ASSUME NEW d \in Clients PROVE Way(d)'
  BY <1>1, <1>2, <1>3, GoroutineOrder DEF InHand, Top, Owed
<1> QED BY <1>3, <1>4 DEF OrderInv

LEMMA WriterTakeOrder ==
    ASSUME TypeOK, OrderInv, NEW c \in Clients, WriterTake(c)
    PROVE  OrderInv'
<1>1. /\ writer[c] = "run" /\ queue[c] # <<>>
      /\ UNCHANGED <<perUser, version, flight, given, broadcast, hub, hubMsg, hubLeft, hubCur, pusher, lastRevision, lastLive>>
  BY DEF WriterTake, sourceVars, keptVars, hubVars, history
<1>2. /\ writer'[c] = "write" /\ queue'[c] = Tail(queue[c]) /\ held'[c].writer = Head(queue[c])
      /\ \A d \in Clients : held'[d].pusher = held[d].pusher
      /\ \A d \in Clients \ {c} : /\ writer'[d] = writer[d] /\ queue'[d] = queue[d]
                                  /\ held'[d].writer = held[d].writer
  BY DEF WriterTake, TypeOK, Sender
<1>3. Sources'
  BY <1>1, <1>2 DEF OrderInv, Sources
<1>4. ASSUME NEW d \in Clients \ {c} PROVE Way(d)'
  BY <1>1, <1>2, <1>3, GoroutineOrder DEF InHand, Top, Owed
<1>5. Way(c)'
  <2>1. queue[c] \in Seq(Message) /\ InHand(c) = {}
    BY <1>1 DEF TypeOK, InHand
  <2>2. Ordered(Tail(queue[c]), {Head(queue[c])}, lastLive[c], Bound(c))
    BY <1>1, <2>1, FirstTaken DEF OrderInv, Way
  <2>3. InHand(c)' = {Head(queue[c])} /\ Bound(c)' = Bound(c)
    BY <1>1, <1>2 DEF InHand, Bound, Top, Owed
  <2> QED BY <1>1, <1>2, <2>2, <2>3 DEF Way
<1> QED BY <1>3, <1>4, <1>5 DEF OrderInv

LEMMA WriterWritesOrder ==
    ASSUME TypeOK, OrderInv, NEW c \in Clients, WriterWrites(c)
    PROVE  OrderInv'
<1>1. /\ writer[c] = "write"
      /\ UNCHANGED <<perUser, version, flight, given, broadcast, hub, hubMsg, hubLeft, hubCur, queue, pusher, held, lastRevision>>
  BY DEF WriterWrites, sourceVars, keptVars, hubVars
<1>2. /\ writer'[c] = "run" /\ lastLive'[c] = IF held[c].writer.live THEN held[c].writer.rev ELSE lastLive[c]
      /\ \A d \in Clients \ {c} : writer'[d] = writer[d] /\ lastLive'[d] = lastLive[d]
  BY DEF WriterWrites, TypeOK, Sender
<1>3. Sources'
  BY <1>1 DEF OrderInv, Sources
<1>4. ASSUME NEW d \in Clients \ {c} PROVE Way(d)'
  BY <1>1, <1>2, <1>3, GoroutineOrder DEF InHand, Top, Owed
<1>5. Way(c)'
  <2>1. Ordered(queue[c], {held[c].writer}, lastLive[c], Bound(c))
    BY <1>1 DEF OrderInv, Way, InHand
  <2>2. Ordered(queue[c], {}, lastLive'[c], Bound(c))
    BY <1>2, <2>1, HandWritten
  <2>3. InHand(c)' = {} /\ Bound(c)' = Bound(c)
    BY <1>1, <1>2 DEF InHand, Bound, Top, Owed
  <2> QED BY <1>1, <2>2, <2>3 DEF Way
<1> QED BY <1>3, <1>4, <1>5 DEF OrderInv

LEMMA NextOrder == TypeOK /\ TypeOK' /\ OrderInv /\ [Next]_vars => OrderInv'
<1> SUFFICES ASSUME TypeOK, TypeOK', OrderInv, [Next]_vars PROVE OrderInv'
  OBVIOUS
<1>1. CASE Publish        BY <1>1, PublishOrder
<1>9. ASSUME NEW v \in 1..MaxVersion, Store(v) \/ Deliver(v) \/ Lose(v)
      PROVE  OrderInv'
  BY <1>9, PublishOrder, DeliverOrder
<1>2. CASE TakeBroadcast  BY <1>2, TakeBroadcastOrder
<1>3. CASE HubDrop        BY <1>3, HubDropOrder
<1>4. CASE HubRetry       BY <1>4, HubRetryOrder
<1>5. CASE HubNext        BY <1>5, HubNextOrder
<1>6. ASSUME NEW c \in Clients,
             \/ HubOffer(c) \/ InitialRead(c) \/ InitialSend(c)
             \/ PusherTick(c) \/ PusherSend(c) \/ PusherDone(c) \/ WriterTake(c) \/ WriterWrites(c)
      PROVE  OrderInv'
  BY <1>6, HubOfferOrder, InitialReadOrder, InitialSendOrder, PusherTickOrder, PusherSendOrder,
     PusherDoneOrder, WriterTakeOrder, WriterWritesOrder
<1>7. ASSUME NEW c \in Clients,
             \/ Unregister(c) \/ Connect(c) \/ Register(c) \/ PeerGone(c)
             \/ WriterLeaves(c) \/ ReaderLeaves(c) \/ Close(c)
      PROVE  OrderInv'
  BY <1>7, ConnectionOrder
<1>8. CASE UNCHANGED vars
  <2>1. UNCHANGED <<perUser, version, flight, given, broadcast, hub, hubMsg, hubLeft, hubCur, queue, pusher, writer, held,
                    lastRevision, lastLive>>
    BY <1>8 DEF vars, sourceVars, keptVars, hubVars, goVars, history
  <2>2. Sources'
    BY <2>1 DEF OrderInv, Sources
  <2>3. ASSUME NEW c \in Clients PROVE Way(c)'
    BY <2>1, <2>2, GoroutineOrder DEF InHand, Top, Owed
  <2> QED BY <2>2, <2>3 DEF OrderInv
<1> QED BY <1>1, <1>2, <1>3, <1>4, <1>5, <1>6, <1>7, <1>8, <1>9 DEF Next, HubStep, WriterStep

LEMMA AlwaysOrdered == Spec => []OrderInv
<1>1. Init => OrderInv
  BY InitOrder DEF OrderInv
<1> QED BY <1>1, NextOrder, TypeCorrect, PTL DEF Spec

\* Pushed payloads are written to a connection in the order in which its runtime
\* published them and broadcast ones in the order in which the hub was given them,
\* none twice, for any capacities, however many the hub drops.
THEOREM LivePayloadsInOrder == Spec => LiveInOrder
<1>1. OrderInv /\ [Next]_vars =>
        [\A c \in Clients :
            writer[c] = "write" /\ writer'[c] = "run" /\ held[c].writer.live =>
                held[c].writer.rev > lastLive[c]]_vars
  <2> SUFFICES ASSUME OrderInv, NEW c \in Clients, writer[c] = "write", held[c].writer.live
               PROVE  held[c].writer.rev > lastLive[c]
    OBVIOUS
  <2> QED BY DEF OrderInv, Way, Ordered, InHand
<1> QED BY <1>1, AlwaysOrdered, PTL DEF Spec, LiveInOrder
-----------------------------------------------------------------------------
(* The newest message is kept *)

\* The room the hub has made is there, or the initial payload has taken it.
RoomOrInitial(c) == Room(c) \/ (queue[c] # <<>> /\ ~queue[c][Len(queue[c])].live)

RetryInv ==
    /\ hub \in {"drop", "retry"} => hubCur \in Clients
    /\ hub = "retry" => RoomOrInitial(hubCur)

LEMMA RetryStep == TypeOK /\ Sources /\ RetryInv /\ [Next]_vars => RetryInv'
<1> SUFFICES ASSUME TypeOK, Sources, RetryInv, [Next]_vars PROVE RetryInv'
  OBVIOUS
<1>1. CASE HubDrop
  <2>1. hubCur \in Clients /\ hubCur' = hubCur /\ queue[hubCur] \in Seq(Message) /\ Len(queue[hubCur]) <= SendCap
    BY <1>1 DEF HubDrop, RetryInv, TypeOK
  <2>2. Len(queue'[hubCur]) < SendCap
    <3>1. CASE queue[hubCur] = <<>>
      BY <1>1, <2>1, <3>1, HubAssumption DEF HubDrop
    <3>2. CASE queue[hubCur] # <<>>
      <4>1. queue'[hubCur] = Tail(queue[hubCur])
        BY <1>1, <2>1, <3>2 DEF HubDrop, TypeOK
      <4>2. Len(Tail(queue[hubCur])) = Len(queue[hubCur]) - 1 /\ Len(queue[hubCur]) \in Nat
        BY <2>1, <3>2
      <4> QED BY <2>1, <4>1, <4>2, HubAssumption
    <3> QED BY <3>1, <3>2
  <2> QED BY <1>1, <2>1, <2>2 DEF HubDrop, RetryInv, RoomOrInitial, Room
<1>2. ASSUME NEW c \in Clients, InitialSend(c) PROVE RetryInv'
  <2>1. hub' = hub /\ hubCur' = hubCur
    BY <1>2 DEF InitialSend, hubVars
  <2>2. CASE queue' = queue
    BY <2>1, <2>2 DEF RetryInv, RoomOrInitial, Room
  <2>3. CASE Enqueue(c, held[c].initial, FALSE)
    <3>1. /\ queue'[c] = Append(queue[c], [rev |-> held[c].initial, live |-> FALSE]) /\ queue[c] \in Seq(Message)
          /\ \A d \in Clients \ {c} : queue'[d] = queue[d]
      BY <2>3 DEF Enqueue, TypeOK
    <3>2. queue'[c] # <<>> /\ ~queue'[c][Len(queue'[c])].live
      BY <3>1
    <3>3. \A d \in Clients : RoomOrInitial(d) => RoomOrInitial(d)'
      BY <3>1, <3>2 DEF RoomOrInitial, Room
    <3> QED BY <2>1, <3>3 DEF RetryInv
  <2> QED BY <1>2, <2>2, <2>3 DEF InitialSend
<1>3. ASSUME NEW c \in Clients, WriterTake(c) PROVE RetryInv'
  <2>1. /\ hub' = hub /\ hubCur' = hubCur /\ queue'[c] = Tail(queue[c]) /\ queue[c] # <<>>
        /\ queue[c] \in Seq(Message) /\ Len(queue[c]) <= SendCap
        /\ \A d \in Clients \ {c} : queue'[d] = queue[d]
    BY <1>3 DEF WriterTake, hubVars, TypeOK
  <2>2. Len(queue'[c]) < SendCap
    <3>1. Len(Tail(queue[c])) = Len(queue[c]) - 1 /\ Len(queue[c]) \in Nat
      BY <2>1
    <3> QED BY <2>1, <3>1, HubAssumption
  <2>3. \A d \in Clients : RoomOrInitial(d) => RoomOrInitial(d)'
    BY <2>1, <2>2 DEF RoomOrInitial, Room
  <2> QED BY <2>1, <2>3 DEF RetryInv
<1>4. ASSUME NEW c \in Clients, HubOffer(c) PROVE RetryInv'
  BY <1>4 DEF HubOffer, RetryInv
<1>5. CASE TakeBroadcast \/ HubRetry \/ HubNext
  BY <1>5 DEF TakeBroadcast, HubRetry, HubNext, RetryInv
<1>6. ASSUME NEW c \in Clients, PusherSend(c) PROVE RetryInv'
  BY <1>6 DEF PusherSend, RetryInv, Sources, hubVars
<1>7. CASE UNCHANGED <<queue, hub, hubCur>>
  BY <1>7 DEF RetryInv, RoomOrInitial, Room
<1>8. \/ HubDrop \/ TakeBroadcast \/ HubRetry \/ HubNext \/ UNCHANGED <<queue, hub, hubCur>>
      \/ \E c \in Clients : HubOffer(c) \/ InitialSend(c) \/ WriterTake(c) \/ PusherSend(c)
  BY DEF Next, HubStep, Unregister, Publish, Store, Deliver, Lose, Connect, Register, PeerGone, InitialRead, PusherTick, PusherDone,
         WriterStep, WriterWrites, WriterLeaves, ReaderLeaves, Close, vars, hubVars
<1> QED BY <1>1, <1>2, <1>3, <1>4, <1>5, <1>6, <1>7, <1>8

\* A broadcast ends up last in every channel it is offered to, however full; only the
\* initial payload may take the place the hub had made for it.
THEOREM NewestAlwaysKept == Spec => NewestKept
<1>1. Init => RetryInv
  BY DEF Init, RetryInv
<1>2. TypeOK /\ RetryInv /\ [Next]_vars =>
        [\A c \in Clients :
            hub = "retry" /\ hub' = "loop" /\ hubCur = c =>
                \/ queue'[c] = Append(queue[c], [rev |-> hubMsg, live |-> TRUE])
                \/ queue'[c] # <<>> /\ ~queue'[c][Len(queue'[c])].live]_vars
  <2> SUFFICES ASSUME TypeOK, RetryInv, Next, NEW c \in Clients, hub = "retry", hub' = "loop", hubCur = c
               PROVE  \/ queue'[c] = Append(queue[c], [rev |-> hubMsg, live |-> TRUE])
                      \/ queue'[c] # <<>> /\ ~queue'[c][Len(queue'[c])].live
    BY DEF vars, hubVars
  <2>1. HubRetry
    BY DEF Next, HubStep, Unregister, TakeBroadcast, HubOffer, HubDrop, HubNext, Publish, Store, Deliver, Lose, Connect, Register,
           PeerGone, InitialRead, InitialSend, PusherTick, PusherSend, PusherDone, WriterStep, WriterTake,
           WriterWrites, WriterLeaves, ReaderLeaves, Close, hubVars
  <2>2. CASE Room(c)
    BY <2>1, <2>2 DEF HubRetry, Enqueue, TypeOK
  <2>3. CASE ~Room(c)
    BY <2>1, <2>3 DEF HubRetry, RetryInv, RoomOrInitial
  <2> QED BY <2>2, <2>3
<1>3. OrderInv => Sources
  BY DEF OrderInv
<1> QED BY <1>1, <1>2, <1>3, RetryStep, TypeCorrect, AlwaysOrdered, PTL DEF Spec, NewestKept

-----------------------------------------------------------------------------
(* The page leaves the hub alone *)

LEMMA PageStepIsHubStep == [PageNext]_allVars => [Next]_vars
<1> SUFFICES ASSUME [PageNext]_allVars PROVE [Next]_vars
  OBVIOUS
<1>1. CASE Reload
  BY <1>1 DEF Reload, Next
<1>2. CASE Next /\ Receive
  BY <1>2
<1>3. CASE FetchNewest \/ FetchElse \/ (\E v \in answers : Answer(v) \/ FetchFails(v))
  BY <1>3 DEF FetchNewest, FetchElse, Answer, FetchFails
<1>4. CASE UNCHANGED allVars
  BY <1>4 DEF allVars
<1> QED BY <1>1, <1>2, <1>3, <1>4 DEF PageNext

LEMMA PageIsHub == PageSpec => Spec
<1>1. PageInit => Init
  BY DEF PageInit
<1> QED BY <1>1, PageStepIsHubStep, PTL DEF PageSpec, Spec

-----------------------------------------------------------------------------
(* Every message carries a payload *)

\* The numbers of messages that are pushed or broadcast.
LiveNumbers == IF perUser THEN 1..version ELSE 1..Len(given)
RealMessage(m) == m.rev \in IF m.live THEN LiveNumbers ELSE Payloads

QueueReal(c) == \A i \in 1..Len(queue[c]) : RealMessage(queue[c][i])

Real ==
    /\ \A i \in 1..Len(broadcast) : broadcast[i] \in 1..Len(given)
    /\ hub # "select" => hubMsg \in 1..Len(given)
    /\ \A c \in Clients :
          /\ QueueReal(c)
          /\ initial[c] = "send" => held[c].initial \in Payloads
          /\ pusher[c] = "send" => held[c].pusher \in LiveNumbers
          /\ writer[c] = "write" => RealMessage(held[c].writer)

\* The payload of a message a writer has in hand.
LEMMA CarriesPayload ==
    ASSUME TypeOK, Real, NEW c \in Clients, writer[c] = "write"
    PROVE  Carried(held[c].writer) \in Payloads
<1> DEFINE m == held[c].writer
<1>1. RealMessage(m)
  BY DEF Real
<1>2. 1..version \subseteq Payloads /\ 1..MaxVersion \subseteq Payloads
  BY HubAssumption DEF TypeOK, Versions, Payloads, Elsewhere
<1>3. CASE ~perUser /\ m.live
  <2>1. m.rev \in 1..Len(given)
    BY <1>1, <1>3 DEF RealMessage, LiveNumbers
  <2>2. \A i \in 1..Len(given) : given[i] \in 1..MaxVersion
    <3>1. given \in Seq(1..MaxVersion)
      BY DEF TypeOK
    <3> HIDE DEF m
    <3> QED BY <3>1, HubAssumption
  <2>3. given[m.rev] \in 1..MaxVersion
    BY <2>1, <2>2
  <2> QED BY <1>2, <1>3, <2>3 DEF Carried
<1>4. CASE ~(~perUser /\ m.live)
  BY <1>1, <1>2, <1>4 DEF RealMessage, LiveNumbers, Carried
<1> QED BY <1>3, <1>4

LEMMA VersionStep ==
    ASSUME TypeOK, [Next]_vars
    PROVE  version' \in 1..MaxVersion \/ version' = version
<1>1. CASE Publish
  BY <1>1, HubAssumption DEF Publish, TypeOK, Versions
<1>2. Publish \/ version' = version
  BY DEF Next, HubStep, Unregister, TakeBroadcast, HubOffer, HubDrop, HubRetry, HubNext, Store, Deliver, Lose,
         Connect, Register, PeerGone, InitialRead, InitialSend, PusherTick, PusherSend, PusherDone, WriterStep,
         WriterTake, WriterWrites, WriterLeaves, ReaderLeaves, Close, vars, sourceVars
<1> QED BY <1>1, <1>2

LEMMA InitReal == Init => Real
BY DEF Init, Everywhere, Real, QueueReal

LEMMA EnqueuedReal ==
    ASSUME TypeOK, \A d \in Clients : QueueReal(d), NEW c, NEW rev, NEW live,
           RealMessage([rev |-> rev, live |-> live]), Enqueue(c, rev, live), LiveNumbers' = LiveNumbers
    PROVE  \A d \in Clients : QueueReal(d)'
<1> SUFFICES ASSUME NEW d \in Clients PROVE QueueReal(d)'
  OBVIOUS
<1>1. CASE d = c
  <2>1. queue'[d] = Append(queue[d], [rev |-> rev, live |-> live]) /\ queue[d] \in Seq(Message)
    BY <1>1 DEF Enqueue, TypeOK
  <2>2. /\ Len(queue'[d]) = Len(queue[d]) + 1 /\ queue'[d][Len(queue[d]) + 1] = [rev |-> rev, live |-> live]
        /\ \A i \in 1..Len(queue[d]) : queue'[d][i] = queue[d][i]
    BY <2>1
  <2> QED BY <2>1, <2>2 DEF QueueReal, RealMessage
<1>2. CASE d # c
  BY <1>2 DEF Enqueue, TypeOK, QueueReal, RealMessage
<1> QED BY <1>1, <1>2

LEMMA DequeuedReal ==
    ASSUME TypeOK, \A d \in Clients : QueueReal(d), NEW c \in Clients, queue[c] # <<>>,
           queue' = [queue EXCEPT ![c] = Tail(@)], LiveNumbers' = LiveNumbers
    PROVE  \A d \in Clients : QueueReal(d)'
<1> SUFFICES ASSUME NEW d \in Clients PROVE QueueReal(d)'
  OBVIOUS
<1>1. CASE d = c
  <2>1. queue'[d] = Tail(queue[d]) /\ queue[d] \in Seq(Message) /\ queue[d] # <<>>
    BY <1>1 DEF TypeOK
  <2>2. /\ Len(Tail(queue[d])) = Len(queue[d]) - 1 /\ Len(queue[d]) \in Nat
        /\ \A i \in 1..Len(Tail(queue[d])) : Tail(queue[d])[i] = queue[d][i + 1]
    BY <2>1
  <2>3. \A i \in 1..Len(Tail(queue[d])) : i + 1 \in 1..Len(queue[d])
    BY <2>2
  <2> QED BY <2>1, <2>2, <2>3 DEF QueueReal, RealMessage
<1>2. CASE d # c
  BY <1>2 DEF TypeOK, QueueReal, RealMessage
<1> QED BY <1>1, <1>2

\* More payloads are published, or given to the hub.
LEMMA Grows ==
    ASSUME TypeOK, Real, UNCHANGED <<hub, hubMsg, queue, initial, pusher, writer, held>>,
           LiveNumbers \subseteq LiveNumbers', Len(given) <= Len(given)', Len(given)' \in Nat,
           \A i \in 1..Len(broadcast') : broadcast'[i] \in 1..Len(given')
    PROVE  Real'
<1>1. 1..Len(given) \subseteq 1..Len(given')
  BY DEF TypeOK
<1>2. ASSUME NEW m, RealMessage(m) PROVE m.rev \in IF m.live THEN LiveNumbers' ELSE Payloads
  BY <1>2 DEF RealMessage
<1>3. ASSUME NEW c \in Clients PROVE QueueReal(c)'
  BY <1>2 DEF Real, QueueReal, RealMessage
<1>4. ASSUME NEW c \in Clients, writer'[c] = "write" PROVE RealMessage(held[c].writer)'
  BY <1>2, <1>4 DEF Real, RealMessage
<1> QED BY <1>1, <1>3, <1>4 DEF Real

LEMMA SourceReal ==
    ASSUME TypeOK, Real, Publish \/ \E v \in 1..MaxVersion : Store(v) \/ Deliver(v) \/ Lose(v)
    PROVE  Real'
<1>1. UNCHANGED <<perUser, hub, hubMsg, queue, initial, pusher, writer, held>>
  BY DEF Publish, Store, Deliver, Lose, hubVars, goVars
<1>2. given \in Seq(1..MaxVersion) /\ Len(given) \in Nat /\ version \in Nat /\ broadcast \in Seq(Nat)
  BY DEF TypeOK, Versions
<1>3. CASE Publish \/ \E v \in 1..MaxVersion : Store(v) \/ Lose(v)
  <2>1. UNCHANGED <<given, broadcast>> /\ version' \in {version, version + 1}
    BY <1>3 DEF Publish, Store, Lose
  <2>2. LiveNumbers \subseteq LiveNumbers'
    BY <1>1, <1>2, <2>1 DEF LiveNumbers
  <2> QED BY <1>1, <1>2, <2>1, <2>2, Grows DEF Real
<1>4. ASSUME NEW v \in 1..MaxVersion, Deliver(v) PROVE Real'
  <2>1. given' = Append(given, v) /\ broadcast' = Append(broadcast, Len(given')) /\ version' = version
    BY <1>4 DEF Deliver
  <2>2. Len(given') = Len(given) + 1
    BY <1>2, <2>1
  <2>3. LiveNumbers \subseteq LiveNumbers'
    BY <1>1, <1>2, <2>1, <2>2 DEF LiveNumbers
  <2>4. \A i \in 1..Len(broadcast') : broadcast'[i] \in 1..Len(given')
    <3>1. /\ Len(broadcast') = Len(broadcast) + 1 /\ broadcast'[Len(broadcast) + 1] = Len(given) + 1
          /\ \A i \in 1..Len(broadcast) : broadcast'[i] = broadcast[i] /\ broadcast[i] \in 1..Len(given)
      BY <1>2, <2>1, <2>2 DEF Real
    <3> QED BY <1>2, <2>2, <3>1
  <2> QED BY <1>1, <1>2, <2>2, <2>3, <2>4, Grows
<1> QED BY <1>3, <1>4

LEMMA HubReal ==
    ASSUME TypeOK, Sources, Real, \/ TakeBroadcast \/ HubDrop \/ HubRetry \/ HubNext
                                  \/ \E c \in Clients : HubOffer(c)
    PROVE  Real'
<1>0. UNCHANGED <<perUser, version, given, initial, pusher, writer, held>>
  BY DEF TakeBroadcast, HubDrop, HubRetry, HubNext, HubOffer, goVars, sourceVars, keptVars
<1>1. UNCHANGED <<given, initial, pusher, writer, held>> /\ LiveNumbers' = LiveNumbers
  BY <1>0 DEF LiveNumbers
<1>2. hub # "select" => RealMessage([rev |-> hubMsg, live |-> TRUE])
  BY DEF Sources, Real, RealMessage, LiveNumbers
<1>3. CASE TakeBroadcast
  <2>1. /\ hubMsg' = Head(broadcast) /\ broadcast' = Tail(broadcast) /\ broadcast # <<>>
        /\ broadcast \in Seq(Nat) /\ queue' = queue
    BY <1>3 DEF TakeBroadcast, TypeOK
  <2>2. /\ hubMsg' = broadcast[1] /\ 1 \in 1..Len(broadcast)
        /\ \A i \in 1..Len(broadcast') : broadcast'[i] = broadcast[i + 1] /\ i + 1 \in 1..Len(broadcast)
    BY <2>1
  <2> QED BY <1>1, <2>1, <2>2 DEF Real, QueueReal, RealMessage
<1>4. ASSUME NEW c \in Clients, HubOffer(c) PROVE Real'
  <2>1. UNCHANGED <<broadcast, hubMsg>> /\ hub # "select"
    BY <1>4 DEF HubOffer, sourceVars
  <2>2. \A d \in Clients : QueueReal(d)'
    <3>1. CASE queue' = queue
      BY <1>1, <3>1 DEF Real, QueueReal, RealMessage
    <3>2. CASE Enqueue(c, hubMsg, TRUE)
      BY <1>1, <1>2, <2>1, <3>2, EnqueuedReal DEF Real
    <3> QED BY <1>4, <3>1, <3>2 DEF HubOffer
  <2> QED BY <1>1, <2>1, <2>2 DEF Real, RealMessage
<1>5. CASE HubDrop
  <2>1. UNCHANGED <<broadcast, hubMsg>> /\ hub # "select"
    BY <1>5 DEF HubDrop, sourceVars
  <2>2. \A d \in Clients : QueueReal(d)'
    <3>1. CASE queue' = queue
      BY <1>1, <3>1 DEF Real, QueueReal, RealMessage
    <3>2. CASE queue' # queue
      <4>1. hubCur \in Clients /\ queue[hubCur] # <<>> /\ queue' = [queue EXCEPT ![hubCur] = Tail(@)]
        BY <1>5, <3>2 DEF HubDrop, TypeOK
      <4> QED BY <1>1, <4>1, DequeuedReal DEF Real
    <3> QED BY <3>1, <3>2
  <2> QED BY <1>1, <2>1, <2>2 DEF Real, RealMessage
<1>6. CASE HubRetry
  <2>1. UNCHANGED <<broadcast, hubMsg>> /\ hub # "select"
    BY <1>6 DEF HubRetry, sourceVars
  <2>2. \A d \in Clients : QueueReal(d)'
    <3>1. CASE queue' = queue
      BY <1>1, <3>1 DEF Real, QueueReal, RealMessage
    <3>2. CASE Enqueue(hubCur, hubMsg, TRUE)
      BY <1>1, <1>2, <2>1, <3>2, EnqueuedReal DEF Real
    <3> QED BY <1>6, <3>1, <3>2 DEF HubRetry
  <2> QED BY <1>1, <2>1, <2>2 DEF Real, RealMessage
<1>7. CASE HubNext
  BY <1>1, <1>7 DEF HubNext, sourceVars, Real, QueueReal, RealMessage
<1> QED BY <1>3, <1>4, <1>5, <1>6, <1>7

LEMMA ClientReal ==
    ASSUME TypeOK, Sources, Real, NEW c \in Clients,
           \/ InitialRead(c) \/ InitialSend(c) \/ PusherTick(c) \/ PusherSend(c) \/ PusherDone(c) \/ WriterTake(c)
           \/ Unregister(c) \/ Connect(c) \/ Register(c) \/ PeerGone(c)
           \/ WriterWrites(c) \/ WriterLeaves(c) \/ ReaderLeaves(c) \/ Close(c)
    PROVE  Real'
<1>0. UNCHANGED <<perUser, version, given, broadcast, hub, hubMsg>>
  BY DEF InitialRead, InitialSend, PusherTick, PusherSend, PusherDone, WriterTake, Unregister, Connect, Register,
         PeerGone, WriterWrites, WriterLeaves, ReaderLeaves, Close, sourceVars, keptVars, hubVars
<1>1. UNCHANGED <<given, broadcast, hub, hubMsg>> /\ LiveNumbers' = LiveNumbers
  BY <1>0 DEF LiveNumbers
<1>2. CASE InitialRead(c)
  <2>1. UNCHANGED <<queue, pusher, writer>>
    BY <1>2 DEF InitialRead
  <2>2. \A d \in Clients : held'[d].writer = held[d].writer /\ held'[d].pusher = held[d].pusher
    BY <1>2 DEF InitialRead, TypeOK
  <2>3. \A d \in Clients : initial'[d] = "send" => held'[d].initial \in Payloads
    <3>1. Latest = 0 \/ Latest \in Payloads
      BY HubAssumption DEF Latest, TypeOK, Versions, Payloads, Elsewhere
    <3> QED BY <1>2, <3>1 DEF InitialRead, TypeOK, Sender, Real
  <2> QED BY <1>1, <2>1, <2>2, <2>3 DEF Real, QueueReal, RealMessage
<1>3. CASE InitialSend(c)
  <2>1. UNCHANGED <<pusher, writer, held>> /\ RealMessage([rev |-> held[c].initial, live |-> FALSE])
    BY <1>3 DEF InitialSend, Real, RealMessage
  <2>2. \A d \in Clients : initial'[d] \in {initial[d], "end"}
    BY <1>3 DEF InitialSend, TypeOK, Sender
  <2>3. \A d \in Clients : QueueReal(d)'
    <3>1. CASE queue' = queue
      BY <1>1, <3>1 DEF Real, QueueReal, RealMessage
    <3>2. CASE Enqueue(c, held[c].initial, FALSE)
      BY <1>1, <2>1, <3>2, EnqueuedReal DEF Real, RealMessage
    <3> QED BY <1>3, <3>1, <3>2 DEF InitialSend
  <2> QED BY <1>1, <2>1, <2>2, <2>3 DEF Real, RealMessage
<1>4. CASE PusherTick(c)
  <2>1. UNCHANGED <<queue, initial, writer>> /\ version \in LiveNumbers
    <3>1. perUser
      BY <1>4 DEF PusherTick, Sources
    <3> QED BY <1>4, <3>1, HubAssumption DEF PusherTick, NewPayload, LiveNumbers, TypeOK, Versions
  <2>2. \A d \in Clients : held'[d].writer = held[d].writer /\ held'[d].initial = held[d].initial
    BY <1>4 DEF PusherTick, TypeOK
  <2>3. \A d \in Clients : pusher'[d] = "send" => held'[d].pusher \in LiveNumbers
    BY <1>4, <2>1 DEF PusherTick, TypeOK, Sender, Real
  <2> QED BY <1>1, <2>1, <2>2, <2>3 DEF Real, QueueReal, RealMessage
<1>5. CASE PusherSend(c)
  <2>1. UNCHANGED <<initial, writer, held>> /\ RealMessage([rev |-> held[c].pusher, live |-> TRUE]) /\ Enqueue(c, held[c].pusher, TRUE)
    BY <1>5 DEF PusherSend, Real, RealMessage
  <2>2. \A d \in Clients : pusher'[d] \in {pusher[d], "wait"}
    BY <1>5 DEF PusherSend, TypeOK, Sender
  <2>3. \A d \in Clients : QueueReal(d)'
    BY <1>1, <2>1, EnqueuedReal DEF Real, RealMessage
  <2> QED BY <1>1, <2>1, <2>2, <2>3 DEF Real, RealMessage
<1>6. CASE WriterTake(c)
  <2>1. /\ UNCHANGED <<initial, pusher>> /\ queue[c] # <<>> /\ queue' = [queue EXCEPT ![c] = Tail(@)]
        /\ queue[c] \in Seq(Message)
    BY <1>6 DEF WriterTake, TypeOK
  <2>2. \A d \in Clients : QueueReal(d)'
    BY <1>1, <2>1, DequeuedReal DEF Real, RealMessage
  <2>3. RealMessage(Head(queue[c]))
    <3>1. Head(queue[c]) = queue[c][1] /\ 1 \in 1..Len(queue[c])
      BY <2>1
    <3> QED BY <1>1, <3>1 DEF Real, QueueReal, RealMessage
  <2>4. \A d \in Clients : held'[d].initial = held[d].initial /\ held'[d].pusher = held[d].pusher
    BY <1>6 DEF WriterTake, TypeOK
  <2>5. \A d \in Clients : writer'[d] = "write" => RealMessage(held'[d].writer)
    BY <1>6, <2>3 DEF WriterTake, TypeOK, Sender, Real
  <2> QED BY <1>1, <2>1, <2>2, <2>4, <2>5 DEF Real, RealMessage
<1>7. CASE \/ PusherDone(c) \/ Unregister(c) \/ Connect(c) \/ Register(c) \/ PeerGone(c)
           \/ WriterWrites(c) \/ WriterLeaves(c) \/ ReaderLeaves(c) \/ Close(c)
  <2>1. UNCHANGED <<queue, held>>
    BY <1>7 DEF PusherDone, Unregister, Connect, Register, PeerGone, WriterWrites, WriterLeaves, ReaderLeaves, Close
  <2>2. \A d \in Clients : initial'[d] \in {initial[d], "read"} /\ pusher'[d] \in {pusher[d], "wait", "end"}
    BY <1>7 DEF PusherDone, Unregister, Connect, Register, PeerGone, WriterWrites, WriterLeaves, ReaderLeaves,
                Close, goVars, TypeOK, Sender
  <2>3. \A d \in Clients : writer'[d] \in {writer[d], "run", "unregister", "close", "end"}
    BY <1>7 DEF PusherDone, Unregister, Connect, Register, PeerGone, WriterWrites, WriterLeaves, ReaderLeaves,
                Close, goVars, TypeOK, Sender
  <2> QED BY <1>1, <2>1, <2>2, <2>3 DEF Real, QueueReal, RealMessage
<1> QED BY <1>2, <1>3, <1>4, <1>5, <1>6, <1>7

LEMMA NextReal == TypeOK /\ Sources /\ Real /\ [Next]_vars => Real'
<1> SUFFICES ASSUME TypeOK, Sources, Real, [Next]_vars PROVE Real'
  OBVIOUS
<1>1. CASE UNCHANGED vars
  BY <1>1 DEF vars, sourceVars, keptVars, hubVars, goVars, Real, QueueReal, RealMessage, LiveNumbers
<1> QED BY <1>1, SourceReal, HubReal, ClientReal DEF Next, HubStep, WriterStep

-----------------------------------------------------------------------------
(* The page *)

PageInv ==
    /\ answers \subseteq Payloads /\ shared \in Payloads \cup {0}
    /\ listed \in BOOLEAN
    /\ oi \in Int /\ first \in Int /\ tally \in Int
    /\ ChangesAddUp

LEMMA HydrateStep ==
    ASSUME PageInv, NEW v \in Payloads, Hydrate(v)
    PROVE  /\ listed' \in BOOLEAN /\ oi' \in Int /\ first' \in Int /\ tally' \in Int
           /\ ChangesAddUp'
<1>1. OI[v] \in Nat /\ MergeLeg(v) \in Int
  BY OIAssumption DEF MergeLeg, PageInv
<1>2. /\ listed' = TRUE /\ oi' = MergeLeg(v)
      /\ first' = IF listed THEN first ELSE MergeLeg(v)
      /\ tally' = IF listed THEN tally + (MergeLeg(v) - oi) ELSE 0
  BY DEF Hydrate, ShownChange
<1> QED BY <1>1, <1>2 DEF PageInv, ChangesAddUp

LEMMA PageStep ==
    ASSUME TypeOK, Real, PageInv, [PageNext]_allVars
    PROVE  PageInv'
<1>0. 1..MaxVersion \subseteq Payloads
  BY HubAssumption DEF Payloads, Elsewhere
<1>1. CASE Next /\ Receive /\ UpdatePairs
  <2>1. answers' = answers /\ shared' \in Payloads \cup {0}
    <3>1. version' \in 1..MaxVersion \/ version' = version
      BY <1>1, VersionStep
    <3> QED BY <1>0, <1>1, <3>1 DEF Receive, UpdatePairs, PageInv
  <2>2. ASSUME NEW c \in Clients, HeardPairs(c), Hydrate(Carried(held[c].writer))
        PROVE  PageInv'
    <3>1. Carried(held[c].writer) \in Payloads
      BY <2>2, CarriesPayload DEF HeardPairs, Heard
    <3> QED BY <2>1, <2>2, <3>1, HydrateStep DEF PageInv
  <2>3. CASE UNCHANGED store
    BY <2>1, <2>3 DEF store, PageInv, ChangesAddUp
  <2> QED BY <1>1, <2>2, <2>3 DEF Receive
<1>2. CASE FetchNewest \/ FetchElse
  <2>1. answers' \subseteq Payloads
    <3>1. version \in 1..MaxVersion \cup {0} /\ stored \in Payloads \cup {0}
      BY HubAssumption DEF TypeOK, Versions
    <3> QED BY <1>0, <1>2, <3>1 DEF FetchNewest, FetchElse, HasPairs, PageInv
  <2>2. UNCHANGED <<shared, store>>
    BY <1>2 DEF FetchNewest, FetchElse
  <2> QED BY <2>1, <2>2 DEF store, PageInv, ChangesAddUp
<1>3. ASSUME NEW v \in answers, Answer(v) PROVE PageInv'
  <2>1. v \in Payloads /\ Hydrate(v) /\ answers' \subseteq answers /\ shared' = shared
    BY <1>3 DEF Answer, PageInv
  <2> QED BY <2>1, HydrateStep DEF PageInv
<1>4. ASSUME NEW v \in answers, FetchFails(v) PROVE PageInv'
  BY <1>4 DEF FetchFails, store, PageInv, ChangesAddUp
<1>5. CASE Reload
  <2>1. answers' = {} /\ shared' = shared
    BY <1>5 DEF Reload
  <2>2. CASE first' = oi /\ tally' = 0 /\ UNCHANGED <<listed, oi, seen>>
    <3>1. oi' = oi /\ oi \in Int /\ tally' = oi' - first'
      BY <2>2 DEF PageInv
    <3>2. ChangesAddUp'
      BY <3>1 DEF ChangesAddUp
    <3> QED BY <2>1, <2>2, <3>1, <3>2 DEF PageInv
  <2>3. CASE listed' = FALSE /\ oi' = 0 /\ seen' = 0 /\ first' = 0 /\ tally' = 0
    <3>1. tally' = oi' - first' /\ oi' \in Int /\ first' \in Int /\ tally' \in Int
      BY <2>3
    <3>2. ChangesAddUp'
      BY <3>1 DEF ChangesAddUp
    <3> QED BY <2>1, <2>3, <3>1, <3>2 DEF PageInv
  <2> QED BY <1>5, <2>2, <2>3 DEF Reload
<1>6. CASE UNCHANGED allVars
  BY <1>6 DEF allVars, pageVars, store, PageInv, ChangesAddUp
<1> QED BY <1>1, <1>2, <1>3, <1>4, <1>5, <1>6 DEF PageNext

\* The changes of open interest a page shows add up to the difference between what it
\* shows now and what it showed first, in whatever order pushes, late answers, closed
\* sockets and reloads come.
THEOREM ChangesAlwaysAddUp == PageSpec => []ChangesAddUp
<1>1. PageInit => PageInv
  <2> SUFFICES ASSUME PageInit PROVE PageInv
    OBVIOUS
  <2>1. ~listed /\ listed \in BOOLEAN
    BY DEF PageInit
  <2>2. answers \subseteq Payloads /\ shared \in Payloads \cup {0} /\ oi \in Int /\ first \in Int /\ tally \in Int
    BY HubAssumption DEF PageInit, Payloads, Elsewhere
  <2>3. ChangesAddUp
    BY <2>1 DEF ChangesAddUp
  <2> QED BY <2>1, <2>2, <2>3 DEF PageInv
<1>2. TypeOK /\ Real /\ PageInv /\ [PageNext]_allVars => PageInv'
  BY PageStep
<1>3. PageInv => ChangesAddUp
  BY DEF PageInv
<1>4. PageSpec => []TypeOK
  BY PageIsHub, TypeCorrect, PTL
<1>5. PageSpec => []Real
  <2>1. OrderInv => Sources
    BY DEF OrderInv
  <2> QED BY <2>1, PageIsHub, TypeCorrect, AlwaysOrdered, InitReal, NextReal, PTL DEF Spec
<1> QED BY <1>1, <1>2, <1>3, <1>4, <1>5, PTL DEF PageSpec

\* The connections a page reads bring it pushed payloads in the order in which its
\* runtime published them, and broadcast ones in that in which the hub was given them.
THEOREM PageHearsInOrder == PageSpec => LiveInOrder
BY PageIsHub, LivePayloadsInOrder, PTL
=============================================================================
