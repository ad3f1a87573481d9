--------------------------- MODULE SupplierOrder ---------------------------
(***************************************************************************)
(* What ordering from the supplier promises, without deliveries, leases    *)
(* and workers: the items to be ordered are dispatched together, one       *)
(* dispatch at a time, and the end of the dispatch moves exactly them on.  *)
(***************************************************************************)
EXTENDS Integers

CONSTANTS
    Items,         \* the items of one order
    Dispatches     \* supplierDispatchVersion, from 1: a bound on the retries

VARIABLES
    item,      \* what is to happen with each item
    taken,     \* the items of each dispatch
    outcome    \* what became of each dispatch

vars == <<item, taken, outcome>>

\* OTHER stands for every status that concerns no supplier order.
Status == {"TO_ORDER", "SENDING", "ORDERED", "OTHER"}
Outcome == {"none", "open", "succeeded", "failed", "abandoned"}

Init ==
    /\ item \in [Items -> {"TO_ORDER", "OTHER"}]
    /\ taken = [v \in Dispatches |-> {}]
    /\ outcome = [v \in Dispatches |-> "none"]

Dispatch(v) ==
    LET wanted == {i \in Items : item[i] = "TO_ORDER"} IN
    /\ \A w \in Dispatches : outcome[w] # "open"
    /\ outcome[v] = "none"
    /\ wanted # {}
    /\ item' = [i \in Items |-> IF i \in wanted THEN "SENDING" ELSE item[i]]
    /\ taken' = [taken EXCEPT ![v] = wanted]
    /\ outcome' = [outcome EXCEPT ![v] = "open"]

Settle(v, result) ==
    /\ outcome[v] = "open"
    /\ outcome' = [outcome EXCEPT ![v] = result]
    /\ item' = [i \in Items |->
                   IF i \in taken[v] /\ item[i] = "SENDING"
                   THEN IF result = "succeeded" THEN "ORDERED" ELSE "TO_ORDER"
                   ELSE item[i]]
    /\ UNCHANGED taken

\* The tenant is frozen: the order is given up, and its items stay as they are.
Abandon(v) ==
    /\ outcome[v] = "open"
    /\ outcome' = [outcome EXCEPT ![v] = "abandoned"]
    /\ UNCHANGED <<item, taken>>

\* Procurement decides on an item again.
Reassess(i, decision) ==
    /\ item' = [item EXCEPT ![i] = decision]
    /\ UNCHANGED <<taken, outcome>>

Next ==
    \/ \E v \in Dispatches : Dispatch(v)
    \/ \E v \in Dispatches, result \in {"succeeded", "failed"} : Settle(v, result)
    \/ \E v \in Dispatches : Abandon(v)
    \/ \E i \in Items, decision \in {"TO_ORDER", "OTHER"} : Reassess(i, decision)

Spec == Init /\ [][Next]_vars
=============================================================================
