-------------------------- MODULE SupplierDispatch --------------------------
(***************************************************************************)
(* Ordering from the supplier over Telegram: TelegramService in apps/api   *)
(* queues a delivery, TelegramDeliveryService in apps/worker claims it     *)
(* with a lease, sends it and settles it, and TelegramDeliveryReconciler   *)
(* wakes whatever is due.  PostgreSQL holds the delivery, BullMQ only the  *)
(* wake-up.  The module follows the items and deliveries of one order.     *)
(*                                                                         *)
(* Time is abstracted to what the code compares: whether a delivery's next *)
(* attempt is due, and whether its lease has expired.  The lease id, a new *)
(* UUID of every claim, is the number of the claim, which "attempts" counts.*)
(***************************************************************************)
EXTENDS Integers, FiniteSets

CONSTANTS
    Items,          \* the items of the order
    Dispatches,     \* supplierDispatchVersion, from 1: a bound on new deliveries
    Workers,        \* worker processes
    MAX_ATTEMPTS,   \* claims after which a rate limit is final
    MaxStalls,      \* bound: claims lost to a crash or to a lease outlived
    MaxFreezes      \* bound: times the tenant's data deletion is requested

ASSUME SupplierDispatchAssumption ==
    /\ Dispatches \subseteq Nat \ {0}
    /\ MAX_ATTEMPTS \in Nat \ {0}
    /\ MaxStalls \in Nat
    /\ MaxFreezes \in Nat

VARIABLES
    item,        \* order_items.procurement_status
    delivery,    \* telegram_deliveries of the order, by version
    taken,       \* telegram_delivery_items
    queue,       \* versions with a job in BullMQ
    worker,      \* what each worker process is doing
    frozen,      \* the tenant has an open request to delete its data
    alerted,     \* deliveries whose failure the managers were told of
    got,         \* how often the supplier got the message: external
    stalls, freezes

vars == <<item, delivery, taken, queue, worker, frozen, alerted, got, stalls, freezes>>

-----------------------------------------------------------------------------
Status == {"TO_ORDER", "SENDING", "ORDERED", "OTHER"}
Unfinished == {"PENDING", "PROCESSING", "RETRYABLE"}
Delivery == [status : Unfinished \cup {"NONE", "SUCCEEDED", "FAILED"},
             attempts : Nat, due : BOOLEAN, lease : Nat, expired : BOOLEAN]
None == [status |-> "NONE", attempts |-> 0, due |-> FALSE, lease |-> 0, expired |-> FALSE]

Phase == {"idle", "sending", "finishing"}
Idle == [phase |-> "idle", version |-> 0, lease |-> 0, result |-> "NONE"]
Work == [phase : Phase, version : Dispatches \cup {0}, lease : Nat,
         result : {"NONE", "SUCCEEDED", "RETRYABLE", "FAILED"}]

HasStatus(v, S) == delivery[v].status \in S
Holds(w, v) == worker[w].phase # "idle" /\ worker[w].version = v /\ worker[w].lease = delivery[v].lease
DueUnclaimed(v) == HasStatus(v, {"PENDING", "RETRYABLE"}) /\ delivery[v].due
Due(v) ==
    \/ HasStatus(v, {"PENDING", "RETRYABLE"}) /\ delivery[v].due
    \/ HasStatus(v, {"PROCESSING"}) /\ delivery[v].expired

-----------------------------------------------------------------------------
(* TelegramService.queueSupplierOrder, holding the order row.               *)

Active(v) == HasStatus(v, Unfinished)

\* The wake-up may fail: PostgreSQL remains authoritative.
Wake(v) == queue' \in {queue, queue \cup {v}}

QueueSupplierOrder(v) ==
    LET wanted == {i \in Items : item[i] = "TO_ORDER"} IN
    /\ ~frozen
    /\ \A u \in Dispatches : ~Active(u)
    /\ HasStatus(v, {"NONE"})
    /\ wanted # {}
    /\ delivery' = [delivery EXCEPT ![v] = [None EXCEPT !.status = "PENDING", !.due = TRUE]]
    /\ taken' = [taken EXCEPT ![v] = wanted]
    /\ item' = [i \in Items |-> IF i \in wanted THEN "SENDING" ELSE item[i]]
    /\ Wake(v)
    /\ UNCHANGED <<worker, frozen, alerted, got, stalls, freezes>>

\* A second click gets the unfinished delivery, and wakes it again.
QueueAgain(v) ==
    /\ ~frozen
    /\ HasStatus(v, {"PENDING", "RETRYABLE"})
    /\ Wake(v)
    /\ UNCHANGED <<item, delivery, taken, worker, frozen, alerted, got, stalls, freezes>>

-----------------------------------------------------------------------------
(* The worker                                                               *)

\* TelegramDeliveryReconciler.reconcile.  BullMQ drops a job whose id it has.
Reconcile(v) ==
    /\ Due(v)
    /\ queue' = queue \cup {v}
    /\ UNCHANGED <<item, delivery, taken, worker, frozen, alerted, got, stalls, freezes>>

\* TelegramDeliveryService.process up to the claim.  The wake-up is used up.
TakesJob(w, v) == worker[w].phase = "idle" /\ v \in queue /\ queue' = queue \ {v}

\* A frozen tenant's delivery fails on the spot, whoever is sending it.
FailFrozen(w, v) ==
    /\ TakesJob(w, v)
    /\ frozen
    /\ HasStatus(v, Unfinished)
    /\ delivery' = [delivery EXCEPT ![v].status = "FAILED", ![v].lease = 0, ![v].expired = FALSE]
    /\ UNCHANGED <<item, taken, worker, frozen, alerted, got, stalls, freezes>>

ClaimsUnexpired(v) == Due(v) \/ HasStatus(v, {"PROCESSING"})
Claimable(v) == Due(v) /\ (delivery[v].lease = 0 \/ delivery[v].expired)

Claim(w, v) ==
    LET claim == delivery[v].attempts + 1 IN
    /\ TakesJob(w, v)
    /\ ~frozen
    /\ Claimable(v)
    /\ delivery' = [delivery EXCEPT ![v] =
            [@ EXCEPT !.status = "PROCESSING", !.attempts = claim, !.lease = claim, !.expired = FALSE]]
    /\ worker' = [worker EXCEPT ![w] =
            [phase |-> "sending", version |-> v, lease |-> claim, result |-> "NONE"]]
    /\ UNCHANGED <<item, taken, frozen, alerted, got, stalls, freezes>>

Ignore(w, v) ==
    /\ TakesJob(w, v)
    /\ IF frozen THEN ~HasStatus(v, Unfinished) ELSE ~Claimable(v)
    /\ UNCHANGED <<item, delivery, taken, worker, frozen, alerted, got, stalls, freezes>>

\* The Bot API call and what the code makes of its answer.
Answer(w, delivered, result) ==
    /\ worker[w].phase = "sending"
    /\ worker' = [worker EXCEPT ![w].phase = "finishing", ![w].result = result]
    /\ got' = IF delivered THEN [got EXCEPT ![worker[w].version] = @ + 1] ELSE got
    /\ UNCHANGED <<item, delivery, taken, queue, frozen, alerted, stalls, freezes>>

SendAccepted(w) == Answer(w, TRUE, "SUCCEEDED")

\* 429 is retried until the claims run out.
SendRateLimited(w) ==
    Answer(w, FALSE, IF worker[w].lease >= MAX_ATTEMPTS THEN "FAILED" ELSE "RETRYABLE")

\* Refused, sent to another chat, or lost with the network: final, although
\* the message may have arrived.
SendFailed(w) == \E delivered \in BOOLEAN : Answer(w, delivered, "FAILED")

\* TelegramDeliveryService.finish
Unfenced(w) == TRUE
Fenced(w) == HasStatus(worker[w].version, {"PROCESSING"}) /\ Holds(w, worker[w].version)

Following(v, result, status) ==
    [i \in Items |-> IF i \in taken[v] /\ item[i] = "SENDING" THEN status[result] ELSE item[i]]
ItemsTakeResult(v, result) ==
    Following(v, result, [SUCCEEDED |-> "SUCCEEDED", RETRYABLE |-> "SENDING", FAILED |-> "TO_ORDER"])
ItemsStayOnFailure(v, result) ==
    Following(v, result, [SUCCEEDED |-> "ORDERED", RETRYABLE |-> "SENDING", FAILED |-> "SENDING"])
ItemsOrderedOnRetry(v, result) ==
    Following(v, result, [SUCCEEDED |-> "ORDERED", RETRYABLE |-> "ORDERED", FAILED |-> "TO_ORDER"])
ItemsAfter(v, result) ==
    Following(v, result, [SUCCEEDED |-> "ORDERED", RETRYABLE |-> "SENDING", FAILED |-> "TO_ORDER"])

AlertsOnRetry(v, result) == IF result # "SUCCEEDED" THEN alerted \cup {v} ELSE alerted
AlertsAfter(v, result) == IF result = "FAILED" THEN alerted \cup {v} ELSE alerted

Finish(w) ==
    LET v == worker[w].version
        result == worker[w].result
    IN  /\ worker[w].phase = "finishing"
        /\ IF Fenced(w)
           THEN /\ delivery' = [delivery EXCEPT ![v] =
                       [@ EXCEPT !.status = result, !.due = (result # "RETRYABLE"),
                                 !.lease = 0, !.expired = FALSE]]
                /\ item' = ItemsAfter(v, result)
                /\ alerted' = AlertsAfter(v, result)
           ELSE UNCHANGED <<delivery, item, alerted>>
        /\ worker' = [worker EXCEPT ![w] = Idle]
        /\ UNCHANGED <<taken, queue, frozen, got, stalls, freezes>>

-----------------------------------------------------------------------------
(* Time, failures and the rest of the system                                *)

\* retry_after has passed.
BecomeDue(v) ==
    /\ HasStatus(v, {"RETRYABLE"}) /\ ~delivery[v].due
    /\ delivery' = [delivery EXCEPT ![v].due = TRUE]
    /\ UNCHANGED <<item, taken, queue, worker, frozen, alerted, got, stalls, freezes>>

\* LEASE_MS have passed since the claim.  The call times out long before, but
\* a stalled process outlives its lease: that is counted.
ExpireLease(v) ==
    LET outlived == \E w \in Workers : Holds(w, v) IN
    /\ HasStatus(v, {"PROCESSING"}) /\ ~delivery[v].expired
    /\ outlived => stalls < MaxStalls
    /\ delivery' = [delivery EXCEPT ![v].expired = TRUE]
    /\ stalls' = IF outlived THEN stalls + 1 ELSE stalls
    /\ UNCHANGED <<item, taken, queue, worker, frozen, alerted, got, freezes>>

\* BullMQ takes a job back from a worker that did not renew its lock in time,
\* and gives it to another one while the first goes on.
Redeliver(w) ==
    /\ worker[w].phase # "idle"
    /\ queue' = queue \cup {worker[w].version}
    /\ UNCHANGED <<item, delivery, taken, worker, frozen, alerted, got, stalls, freezes>>

Crash(w) ==
    /\ worker[w].phase # "idle"
    /\ stalls < MaxStalls
    /\ stalls' = stalls + 1
    /\ worker' = [worker EXCEPT ![w] = Idle]
    /\ UNCHANGED <<item, delivery, taken, queue, frozen, alerted, got, freezes>>

\* The owner asks for the tenant's data to be deleted, and thinks better of it.
Freeze ==
    /\ ~frozen /\ freezes < MaxFreezes
    /\ frozen' = TRUE
    /\ freezes' = freezes + 1
    /\ UNCHANGED <<item, delivery, taken, queue, worker, alerted, got, stalls>>
Unfreeze ==
    /\ frozen
    /\ frozen' = FALSE
    /\ UNCHANGED <<item, delivery, taken, queue, worker, alerted, got, stalls, freezes>>

\* Another decision on an item: Procurement models them.
Reassess(i, decision) ==
    /\ ~frozen
    /\ item' = [item EXCEPT ![i] = decision]
    /\ UNCHANGED <<delivery, taken, queue, worker, frozen, alerted, got, stalls, freezes>>

-----------------------------------------------------------------------------
Init ==
    /\ item \in [Items -> {"TO_ORDER", "OTHER"}]
    /\ delivery = [v \in Dispatches |-> None]
    /\ taken = [v \in Dispatches |-> {}]
    /\ queue = {}
    /\ worker = [w \in Workers |-> Idle]
    /\ frozen = FALSE
    /\ alerted = {}
    /\ got = [v \in Dispatches |-> 0]
    /\ stalls = 0
    /\ freezes = 0

WorkerStep(w) ==
    \/ \E v \in Dispatches : FailFrozen(w, v) \/ Claim(w, v) \/ Ignore(w, v)
    \/ SendAccepted(w) \/ SendRateLimited(w) \/ SendFailed(w)
    \/ Finish(w)

DeliveryStep(v) == Reconcile(v) \/ BecomeDue(v) \/ ExpireLease(v)

Next ==
    \/ \E v \in Dispatches : QueueSupplierOrder(v) \/ QueueAgain(v)
    \/ \E v \in Dispatches : DeliveryStep(v)
    \/ \E w \in Workers : WorkerStep(w) \/ Redeliver(w) \/ Crash(w)
    \/ \E i \in Items, decision \in {"TO_ORDER", "OTHER"} : Reassess(i, decision)
    \/ Freeze
    \/ Unfreeze

Spec == Init /\ [][Next]_vars

\* The reconciler runs every five seconds, the worker takes the jobs there are
\* and every call of the Bot API ends, if only by its timeout.
FairSpec ==
    /\ Spec
    /\ \A v \in Dispatches : WF_vars(DeliveryStep(v))
    /\ \A w \in Workers : WF_vars(WorkerStep(w))

-----------------------------------------------------------------------------
(* Properties                                                               *)

TypeOK ==
    /\ item \in [Items -> Status]
    /\ delivery \in [Dispatches -> Delivery]
    /\ taken \in [Dispatches -> SUBSET Items]
    /\ queue \subseteq Dispatches
    /\ worker \in [Workers -> Work]
    /\ frozen \in BOOLEAN
    /\ alerted \subseteq Dispatches
    /\ got \in [Dispatches -> Nat]
    /\ stalls \in Nat
    /\ freezes \in Nat

\* Only a claim that was lost makes the supplier get an order again: however
\* often a delivery is claimed, retried and taken over, the supplier gets it at
\* most once more than claims were lost.
ResendsOnlyAfterStall == \A v \in Dispatches : got[v] <= 1 + stalls

\* An item is ORDERED only if a delivery that names it has SUCCEEDED and the
\* supplier really got it: no answer that came too late orders anything.
OrderedWasAsked ==
    \A i \in Items : item[i] = "ORDERED" =>
        \E v \in Dispatches : i \in taken[v] /\ HasStatus(v, {"SUCCEEDED"}) /\ got[v] > 0

\* Managers are told of every dispatch that failed, unless its tenant was
\* frozen, and of no dispatch that is still being retried or has succeeded.
FailureIsReported ==
    \A v \in Dispatches :
        /\ v \in alerted => HasStatus(v, {"FAILED"})
        /\ HasStatus(v, {"FAILED"}) => v \in alerted \/ freezes > 0

\* "A final failure returns exactly these items to TO_ORDER": no item waits in
\* SENDING for a delivery that has ended.
SendingIsDispatched ==
    \A i \in Items : item[i] = "SENDING" => \E v \in Dispatches : Active(v) /\ i \in taken[v]

\* Seen from the order, all this is a dispatch that is open until it is settled
\* or, when the tenant is frozen, given up without a word to the managers.
outcome ==
    [v \in Dispatches |->
        CASE Active(v)                   -> "open"
          [] HasStatus(v, {"SUCCEEDED"}) -> "succeeded"
          [] HasStatus(v, {"FAILED"})    -> IF v \in alerted THEN "failed" ELSE "abandoned"
          [] OTHER                       -> "none"]

\* What the code keeps of that: an item waits in SENDING only for a delivery
\* that goes on, or for one that was given up in a freeze.
SendingIsSettled ==
    \A i \in Items : item[i] = "SENDING" =>
        \E v \in Dispatches : i \in taken[v] /\ outcome[v] \in {"open", "abandoned"}

Abstract ==
    INSTANCE SupplierOrder WITH
        Items <- Items, Dispatches <- Dispatches, item <- item, taken <- taken, outcome <- outcome
ImplementsSupplierOrder == Abstract!Spec

\* Every dispatch ends, in spite of lost wake-ups, rate limits and crashes.
DispatchEnds == \A v \in Dispatches : Active(v) ~> ~Active(v)
=============================================================================
