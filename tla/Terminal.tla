------------------------------ MODULE Terminal ------------------------------
(***************************************************************************)
(* The terminal page of a signed-in user, fed by the connections of WSHub  *)
(* and by its own polling of /pairs: socket.ts, useOptionStore.ts and the  *)
(* effects of OptionTable.tsx.  Neither feed knows of the other, and the   *)
(* socket is not opened again when it closes.                              *)
(*                                                                         *)
(* One leg of one strike stands for the option chain.  What the network    *)
(* delays of a pushed message is the time it spends in the send channel.   *)
(***************************************************************************)
EXTENDS WSHub

CONSTANTS OI,    \* payload -> CurrentOI of the leg; 0 in a payload that has no data for it
          Blank  \* payloads without any pair

ASSUME OIAssumption == OI \in [Payloads -> Nat] /\ Blank \subseteq 1..MaxVersion

VARIABLES
    shared,  \* the payload whose pairs the server's EngineState holds; 0 is none
    answers, \* /pairs answers on their way, each the number of the payload it was read from
    listed,  \* the store has the strike
    oi,      \* the CurrentOI it shows
    seen,    \* history: the payload hydrated last
    first,   \* history: the CurrentOI shown when the strike was listed
    tally    \* history: the changes of open interest shown since

store == <<listed, oi, seen, first, tally>>
pageVars == <<shared, answers, store>>
allVars == <<vars, pageVars>>

PageInit ==
    /\ Init
    /\ shared = (IF perUser THEN Elsewhere ELSE 0)
    /\ answers = {}
    /\ listed = FALSE /\ oi = 0 /\ seen = 0 /\ first = 0 /\ tally = 0

\* mergeLeg: a leg without data leaves the leg that is shown.
MergeLeg(v) == IF OI[v] = 0 /\ listed THEN oi ELSE OI[v]

\* A mutant of ShownChange: the change the payload carries, against the one before.
PayloadChange(v) == OI[v] - (IF v = 1 THEN 0 ELSE OI[v - 1])

\* The change hydrate shows for a strike it has: against what is shown.
ShownChange(v) == MergeLeg(v) - oi

HasPairs(v) == v \notin Blank \cup {0}

\* hydrate with the pairs of payload v.
Hydrate(v) ==
    /\ listed' = TRUE
    /\ oi' = MergeLeg(v)
    /\ seen' = v
    /\ first' = IF listed THEN first ELSE MergeLeg(v)
    /\ tally' = IF listed THEN tally + ShownChange(v) ELSE 0

\* onmessage, for what the writer of an open connection has written.
Heard(c) == writer[c] = "write" /\ writer'[c] = "run" /\ conn[c] = "open"
HeardPairs(c) == Heard(c) /\ HasPairs(Carried(held[c].writer))
Receive ==
    /\ \/ \E c \in Clients : HeardPairs(c) /\ Hydrate(Carried(held[c].writer))
       \/ (\A c \in Clients : ~HeardPairs(c)) /\ UNCHANGED store
    /\ UNCHANGED answers

\* EngineState.UpdatePairs, which the pipeline that publishes calls too.  Beside user
\* runtimes it is the collector's, of whose payloads these are none.
UpdatePairs ==
    shared' = IF ~perUser /\ version' # version /\ HasPairs(version') THEN version' ELSE shared

\* A mutant of FetchNewest: only a page that shows nothing asks.
FetchOnce == ~listed /\ perUser /\ HasPairs(version) /\ answers' = answers \cup {version} /\ UNCHANGED <<vars, shared, store>>

\* hydrateFromHttp asks, every five seconds and without waiting for the last answer:
\* handlePairs answers with the newest payload of the user's runtime if that has pairs ...
FetchNewest ==
    /\ perUser /\ HasPairs(version)
    /\ answers' = answers \cup {version}
    /\ UNCHANGED <<vars, shared, store>>

\* ... else, or if the runtime cannot be ensured, with the stored one, if that can be
\* read and has pairs, else with those of the EngineState.  No pairs are not used.
FetchElse ==
    /\ \E v \in {shared} \cup (IF perUser THEN {stored} ELSE {}) :
          HasPairs(v) /\ answers' = answers \cup {v}
    /\ UNCHANGED <<vars, shared, store>>

\* An answer arrives, in no order; one that fails is skipped.
Answer(v) ==
    /\ v \in answers
    /\ answers' = answers \ {v}
    /\ Hydrate(v)
    /\ UNCHANGED <<vars, shared>>

FetchFails(v) ==
    /\ v \in answers
    /\ answers' = answers \ {v}
    /\ UNCHANGED <<vars, shared, store>>

\* The page is loaded again: its socket is gone, answers are for nobody, and the
\* store is reset and hydrated from the terminal cache, if that could be written;
\* what the cache holds is listed anew, with the change it was shown with.
Reload ==
    /\ \E c \in Clients : PeerGone(c)
    /\ answers' = {} /\ UNCHANGED shared
    /\ \/ first' = oi /\ tally' = 0 /\ UNCHANGED <<listed, oi, seen>>
       \/ listed' = FALSE /\ oi' = 0 /\ seen' = 0 /\ first' = 0 /\ tally' = 0

PageNext ==
    \/ Next /\ Receive /\ UpdatePairs
    \/ FetchNewest \/ FetchElse
    \/ \E v \in answers : Answer(v) \/ FetchFails(v)
    \/ Reload

AnswerNewest == perUser /\ Answer(version)

\* The page polls as long as it is open; the runtime can be ensured again and again, and
\* not every answer with its newest payload is lost.
PageFairness == WF_allVars(FetchNewest) /\ SF_allVars(AnswerNewest)

PageSpec == PageInit /\ [][PageNext]_allVars /\ Fairness /\ PageFairness

-----------------------------------------------------------------------------
(* Properties *)

\* The changes the store has shown of a strike add up to the difference between
\* the open interest it shows and the one it showed first: payloads that come
\* twice, by both feeds, out of order or without data for the leg are neither
\* counted twice nor lost.
ChangesAddUp == listed => tally = oi - first

\* Whatever the hub dropped, a late answer overwrote, a broken socket no longer brings,
\* or the server answered with stored or shared pairs meanwhile, the page of a user
\* runtime shows the runtime's last payload again and again, if that has pairs.
Settles == []<>(perUser /\ HasPairs(version) => seen = version)
=============================================================================
