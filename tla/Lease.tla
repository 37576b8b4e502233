------------------------------- MODULE Lease -------------------------------
(***************************************************************************)
(* What EnsureUserRuntime and StopUserRuntime promise about the shared     *)
(* market tables, without objects, locks or goroutines: of the keys that   *)
(* have a runtime exactly one holds the right to write them.  The first to *)
(* come takes it, nobody takes it from a key that stays, and when its      *)
(* holder leaves it goes to one that stays.                                *)
(***************************************************************************)
CONSTANTS Parties, \* who may take part
          Nobody   \* no holder

VARIABLES members, holder

leaseVars == <<members, holder>>

Init == members = {} /\ holder = Nobody

Join(p) ==
    /\ p \notin members
    /\ members' = members \cup {p}
    /\ holder' = IF holder = Nobody THEN p ELSE holder

Leave(p) ==
    /\ p \in members
    /\ members' = members \ {p}
    /\ holder' \in CASE holder # p -> {holder}
                     [] holder = p /\ members' = {} -> {Nobody}
                     [] OTHER -> members'

\* The process that kept the lease dies.
Lapse == members' = {} /\ holder' = Nobody

Next == Lapse \/ \E p \in Parties : Join(p) \/ Leave(p)

Spec == Init /\ [][Next]_leaseVars
=============================================================================
