------------------------------- MODULE MapJob -------------------------------
(***************************************************************************)
(* What a resumable map run promises, however often it is interrupted: an  *)
(* item is settled once, only a complete set of results is delivered, and  *)
(* a settled result is forgotten only after it has been delivered.         *)
(***************************************************************************)
CONSTANTS Items, Results

VARIABLES
    settled,    \* the results so far, a function on the items settled
    delivered   \* the complete set of results delivered last, if any

vars == <<settled, delivered>>

Init == settled = << >> /\ delivered = {}

Settle(i, r) ==
    /\ i \notin DOMAIN settled
    /\ settled' = [j \in DOMAIN settled \cup {i} |-> IF j = i THEN r ELSE settled[j]]
    /\ UNCHANGED delivered

Deliver ==
    /\ DOMAIN settled = Items
    /\ delivered' = {settled}
    /\ UNCHANGED settled

Forget(i) ==
    /\ i \in DOMAIN settled
    /\ \E results \in delivered : \A j \in DOMAIN settled : results[j] = settled[j]
    /\ settled' = [j \in DOMAIN settled \ {i} |-> settled[j]]
    /\ UNCHANGED delivered

Next ==
    \/ \E i \in Items, r \in Results : Settle(i, r)
    \/ Deliver
    \/ \E i \in Items : Forget(i)

Spec == Init /\ [][Next]_vars
=============================================================================
