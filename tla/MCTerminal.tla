----------------------------- MODULE MCTerminal -----------------------------
(* Terminal with two payloads, of which the first has no pairs, and a third *)
(* from elsewhere whose pairs have no data for the leg.                     *)
EXTENDS Terminal

NoneThenRise == <<0, 5, 0>>
MCBlank == {1}

\* What no step and no property looks at is left out of the view: what a goroutine had
\* in hand and has sent, what was sent to a page that is gone, the order of payloads no
\* message carries any more, and of the history of changes all but its balance.
Writing(c) == writer[c] \in {"off", "run", "write"}
Used(x, is) == IF is THEN x ELSE 0
Channel(c) == IF c \in clients \/ Writing(c) THEN queue[c] ELSE <<Len(queue[c])>>
Connection(c) ==
    <<Channel(c),
      Used(held[c].initial, initial[c] = "send"),
      Used(held[c].pusher, pusher[c] = "send"),
      Used(held[c].writer, writer[c] = "write"),
      Used(lastRevision[c], pusher[c] # "end"),
      Used(lastLive[c], Writing(c)),
      Used(newest[c], conn[c] = "open")>>
Order == Used(given, \E c \in Clients : Writing(c))
PageView ==
    <<perUser, version, saving, stored, flight, Len(given), Order, broadcast,
      hub, Used(hubMsg, hub # "select"), hubLeft, hubCur, clients, conn, done, goVars,
      [c \in Clients |-> Connection(c)],
      shared, answers, listed, oi, seen, tally - oi + first>>
=============================================================================
