-------------------------- MODULE OrderRecognition --------------------------
(***************************************************************************)
(* How a message becomes an order (TriggeredOrderProcessor in apps/worker).*)
(* A manager's message with a trigger phrase is always an order: the order *)
(* is created first and recognised by a model afterwards.  A customer's    *)
(* message may be one: the model is asked under a claim of five minutes,   *)
(* the message's OrderIntentEvaluation, and the order is created with its  *)
(* items at once.  Approved orders are assessed by procurement, and their  *)
(* export to Google Sheets is scheduled.                                   *)
(*                                                                         *)
(* Several runs of the processor may be about the same message: the jobs   *)
(* of its webhook event, which the worker repeats until the event is       *)
(* PROCESSED, the delivery of a reply and its echo, a manager's request.   *)
(***************************************************************************)
EXTENDS Integers, FiniteSets

CONSTANTS
    Triggers,   \* messages of a manager that hold a trigger phrase
    Anchors,    \* messages of a customer
    NoMessage,  \* stands for none
    Runs,       \* jobs of the worker
    MaxFaults,  \* bound: errors, crashes and outlived claims
    MaxFreezes  \* bound: times the tenant is frozen

Messages == Triggers \cup Anchors

VARIABLES
    order,      \* orders.status by trigger_message_id, NONE if there is none
    lines,      \* how often items were written for the order
    assessed,   \* orders whose items hold a procurement assessment
    evaluation, \* order_intent_evaluations.status by anchor_message_id
    expired,    \* evaluations whose lease_expires_at is over
    event,      \* webhook_events.status of the customer's messages
    frozen,     \* the tenant has an open request to delete its data
    run,        \* what each job is doing
    faults, freezes,
    calls,      \* ghost: model requests, by message
    failed,     \* ghost: failures of a run after its claim, and outlived claims
    lost        \* ghost: messages of runs that died

vars == <<order, lines, assessed, evaluation, expired, event, frozen, run,
          faults, freezes, calls, failed, lost>>
orders == <<order, lines, assessed>>
claims == <<evaluation, expired>>
ghosts == <<calls, failed, lost>>

-----------------------------------------------------------------------------
OrderStatus == {"NONE", "AI_PROCESSING", "AI_FAILED", "NEEDS_REVIEW", "AUTO_APPROVED", "APPROVED", "CANCELLED"}
Approved == {"APPROVED", "AUTO_APPROVED"}
Concluded == {"IGNORED", "PROPOSED", "AUTO_CREATED"}
EvaluationStatus == {"NONE", "PROCESSING", "FAILED"} \cup Concluded

Phase == {"idle", "finding", "creating", "claiming", "reclaiming", "asking", "answered",
          "writing", "assessing", "exporting", "failing", "returning"}
Result == {"NONE", "IGNORE", "NEEDS_REVIEW", "AUTO_APPROVED"}
Run == [phase : Phase, message : Messages \cup {NoMessage}, result : Result]
Idle == [phase |-> "idle", message |-> NoMessage, result |-> "NONE"]

Working == {"asking", "answered", "writing", "assessing", "exporting", "failing"}
WorksOn(r, m) == run[r].message = m /\ run[r].phase \in Working

Goes(r, phase) == run' = [run EXCEPT ![r].phase = phase]
Ends(r) == run' = [run EXCEPT ![r] = Idle]

-----------------------------------------------------------------------------
(* processIfTriggered, and process of a manager's request                   *)

Start(r, m) ==
    /\ run[r] = Idle
    /\ m \in Anchors => event[m] = "RECEIVED" /\ ~frozen
    /\ run' = [run EXCEPT ![r] =
            [Idle EXCEPT !.phase = IF m \in Triggers THEN "finding" ELSE "claiming", !.message = m]]
    /\ UNCHANGED <<orders, claims, event, frozen, faults, freezes, ghosts>>

\* Ingestion gives up the events of a frozen tenant.
IgnoreFrozen(m) ==
    /\ event[m] = "RECEIVED" /\ frozen
    /\ event' = [event EXCEPT ![m] = "PROCESSED"]
    /\ UNCHANGED <<orders, claims, frozen, run, faults, freezes, ghosts>>

FindOrder(r) ==
    /\ run[r].phase = "finding"
    /\ IF order[run[r].message] = "NONE" THEN Goes(r, "creating") ELSE Ends(r)
    /\ UNCHANGED <<orders, claims, event, frozen, faults, freezes, ghosts>>

\* The second order of a message violates a unique key.  In PostgreSQL that ends
\* the transaction, so that the look at the other order throws, too.
OnConflictFindsOrder(r) == IF order[run[r].message] = "AI_PROCESSING" THEN Goes(r, "asking") ELSE Ends(r)
OnConflict(r) == Ends(r)

CreateProcessingOrder(r) ==
    LET m == run[r].message
        creates == ~frozen /\ order[m] = "NONE"
    IN  /\ run[r].phase = "creating"
        /\ order' = IF creates THEN [order EXCEPT ![m] = "AI_PROCESSING"] ELSE order
        /\ CASE creates -> Goes(r, "asking")
             [] frozen -> Ends(r)
             [] OTHER -> OnConflict(r)
        /\ UNCHANGED <<lines, assessed, claims, event, frozen, faults, freezes, ghosts>>

-----------------------------------------------------------------------------
(* claimIntentEvaluation: at most one row of a message, created or taken     *)
(* over by a conditional update                                             *)

Claim(r) ==
    LET m == run[r].message IN
    /\ run[r].phase = "claiming"
    /\ evaluation' = IF evaluation[m] = "NONE" THEN [evaluation EXCEPT ![m] = "PROCESSING"] ELSE evaluation
    /\ Goes(r, IF evaluation[m] = "NONE" THEN "asking"
               ELSE IF evaluation[m] \in Concluded \/ order[m] # "NONE" THEN "returning"
               ELSE "reclaiming")
    /\ UNCHANGED <<orders, expired, event, frozen, faults, freezes, ghosts>>

ReclaimableAlways(m) == evaluation[m] \in {"FAILED", "PROCESSING"}
Reclaimable(m) ==
    \/ evaluation[m] = "FAILED"
    \/ evaluation[m] = "PROCESSING" /\ m \in expired

Reclaim(r) ==
    LET m == run[r].message IN
    /\ run[r].phase = "reclaiming"
    /\ IF Reclaimable(m)
       THEN /\ evaluation' = [evaluation EXCEPT ![m] = "PROCESSING"]
            /\ expired' = expired \ {m}
            /\ Goes(r, "asking")
       ELSE UNCHANGED claims /\ Goes(r, "returning")
    /\ UNCHANGED <<orders, event, frozen, faults, freezes, ghosts>>

-----------------------------------------------------------------------------
(* The request to the model, and what is made of its answer                 *)

Ask(r) ==
    LET m == run[r].message IN
    /\ run[r].phase = "asking"
    /\ Goes(r, IF frozen THEN "failing" ELSE "answered")
    /\ calls' = IF frozen THEN calls ELSE [calls EXCEPT ![m] = @ + 1]
    /\ failed' = IF frozen THEN [failed EXCEPT ![m] = @ + 1] ELSE failed
    /\ UNCHANGED <<orders, claims, event, frozen, faults, freezes, lost>>

\* decideOrderStatus and decideConversationalIntent
Answer(r, result) ==
    /\ run[r].phase = "answered"
    /\ result = "IGNORE" => run[r].message \in Anchors
    /\ run' = [run EXCEPT ![r].phase = "writing", ![r].result = result]
    /\ UNCHANGED <<orders, claims, event, frozen, faults, freezes, ghosts>>

\* The order's update names the order and nothing else.
Recognise(r) ==
    LET m == run[r].message
        result == run[r].result
    IN  /\ run[r].phase = "writing" /\ m \in Triggers
        /\ order' = [order EXCEPT ![m] = result]
        /\ lines' = [lines EXCEPT ![m] = @ + 1]
        /\ IF result = "AUTO_APPROVED" THEN Goes(r, "assessing") ELSE Ends(r)
        /\ UNCHANGED <<assessed, claims, event, frozen, faults, freezes, ghosts>>

\* The result of a run whose claim another has taken over counts, too.
IgnoreIntent(r) ==
    /\ run[r].phase = "writing" /\ run[r].result = "IGNORE"
    /\ evaluation' = [evaluation EXCEPT ![run[r].message] = "IGNORED"]
    /\ expired' = expired \ {run[r].message}
    /\ Goes(r, "returning")
    /\ UNCHANGED <<orders, event, frozen, faults, freezes, ghosts>>

ConcludedAsOrder(result) == result
ConcludedAs(result) == IF result = "AUTO_APPROVED" THEN "AUTO_CREATED" ELSE "PROPOSED"

CreateIntended(r) ==
    LET m == run[r].message
        result == run[r].result
    IN  /\ run[r].phase = "writing" /\ m \in Anchors /\ result # "IGNORE"
        /\ order[m] = "NONE"
        /\ order' = [order EXCEPT ![m] = result]
        /\ lines' = [lines EXCEPT ![m] = @ + 1]
        /\ evaluation' = [evaluation EXCEPT ![m] = ConcludedAs(result)]
        /\ expired' = expired \ {m}
        /\ Goes(r, IF result = "AUTO_APPROVED" THEN "assessing" ELSE "returning")
        /\ UNCHANGED <<assessed, event, frozen, faults, freezes, ghosts>>

\* The message has an order: the unique key refuses another.
IntendedExists(r) ==
    /\ run[r].phase = "writing" /\ run[r].message \in Anchors /\ run[r].result # "IGNORE"
    /\ order[run[r].message] # "NONE"
    /\ Goes(r, "failing")
    /\ failed' = [failed EXCEPT ![run[r].message] = @ + 1]
    /\ UNCHANGED <<orders, claims, event, frozen, faults, freezes, calls, lost>>

-----------------------------------------------------------------------------
(* An approved order                                                        *)

\* ProcurementStore.assessApprovedOrder, which refuses orders not approved.
Assess(r) ==
    LET m == run[r].message IN
    /\ run[r].phase = "assessing"
    /\ IF order[m] \in Approved /\ ~frozen
       THEN assessed' = assessed \cup {m} /\ Goes(r, "exporting") /\ UNCHANGED failed
       ELSE /\ Goes(r, "failing")
            /\ failed' = [failed EXCEPT ![m] = @ + 1]
            /\ UNCHANGED assessed
    /\ UNCHANGED <<order, lines, claims, event, frozen, faults, freezes, calls, lost>>

ScheduleExport(r) ==
    /\ run[r].phase = "exporting"
    /\ Goes(r, "returning")
    /\ UNCHANGED <<orders, claims, event, frozen, faults, freezes, ghosts>>

\* The run returns, and ingestion has processed the event.
Return(r) ==
    LET m == run[r].message IN
    /\ run[r].phase = "returning"
    /\ event' = IF m \in Anchors THEN [event EXCEPT ![m] = "PROCESSED"] ELSE event
    /\ Ends(r)
    /\ UNCHANGED <<orders, claims, frozen, faults, freezes, ghosts>>

-----------------------------------------------------------------------------
(* Failures                                                                 *)

\* The model, a transaction or the scheduling of the export throws.
Throw(r) ==
    /\ run[r].phase \in Working \ {"failing"}
    /\ faults < MaxFaults
    /\ faults' = faults + 1
    /\ failed' = [failed EXCEPT ![run[r].message] = @ + 1]
    /\ Goes(r, "failing")
    /\ UNCHANGED <<orders, claims, event, frozen, freezes, calls, lost>>

\* The catch blocks: an order fails whatever it has become, an evaluation only
\* if it has not been concluded, whoever is processing it.
FailsSilently(m) == order
FailsOrder(m) == [order EXCEPT ![m] = "AI_FAILED"]
FailsConcluded(m) == TRUE
Fails(m) == evaluation[m] = "PROCESSING"

Fail(r) ==
    LET m == run[r].message IN
    /\ run[r].phase = "failing"
    /\ IF m \in Triggers
       THEN order' = FailsOrder(m) /\ UNCHANGED claims
       ELSE /\ evaluation' = IF Fails(m) THEN [evaluation EXCEPT ![m] = "FAILED"] ELSE evaluation
            /\ expired' = expired \ {m}
            /\ UNCHANGED order
    /\ Ends(r)
    /\ UNCHANGED <<lines, assessed, event, frozen, faults, freezes, ghosts>>

Crash(r) ==
    /\ run[r].phase \in Working \cup {"returning"}
    /\ faults < MaxFaults
    /\ faults' = faults + 1
    /\ lost' = lost \cup {run[r].message}
    /\ Ends(r)
    /\ UNCHANGED <<orders, claims, event, frozen, freezes, calls, failed>>

\* Five minutes are over, for a run that goes on, too.
LeaseExpires(m) ==
    LET outlived == \E r \in Runs : WorksOn(r, m) IN
    /\ evaluation[m] = "PROCESSING" /\ m \notin expired
    /\ outlived => faults < MaxFaults
    /\ faults' = IF outlived THEN faults + 1 ELSE faults
    /\ failed' = [failed EXCEPT ![m] = @ + 1]
    /\ expired' = expired \cup {m}
    /\ UNCHANGED <<orders, evaluation, event, frozen, run, freezes, calls, lost>>

-----------------------------------------------------------------------------
(* The rest of the system                                                   *)

Elsewhere == UNCHANGED <<lines, claims, event, run, faults, ghosts>>

\* A webhook brings the message.
Receive(m) ==
    /\ event[m] = "NONE"
    /\ event' = [event EXCEPT ![m] = "RECEIVED"]
    /\ UNCHANGED <<orders, claims, frozen, run, faults, freezes, ghosts>>

\* OrdersService: approve needs an order without validation issues, so one that
\* has been recognised; cancel does not ask for the status.
Decide(m) ==
    /\ order[m] # "NONE" /\ ~frozen
    /\ \/ lines[m] > 0 /\ order' = [order EXCEPT ![m] = "APPROVED"] /\ UNCHANGED assessed
       \/ order' = [order EXCEPT ![m] = "CANCELLED"] /\ assessed' \in {assessed, assessed \ {m}}
       \/ order' = [order EXCEPT ![m] = "NEEDS_REVIEW"] /\ assessed' = assessed \ {m}
    /\ Elsewhere /\ UNCHANGED <<frozen, freezes>>

\* After an approval, or by ProcurementBackfillReconciler.
AssessLater(m) ==
    /\ order[m] \in Approved /\ ~frozen
    /\ assessed' = assessed \cup {m}
    /\ Elsewhere /\ UNCHANGED <<order, frozen, freezes>>

Freeze ==
    /\ frozen \/ freezes < MaxFreezes
    /\ frozen' = ~frozen
    /\ freezes' = IF frozen THEN freezes ELSE freezes + 1
    /\ Elsewhere /\ UNCHANGED <<order, assessed>>

-----------------------------------------------------------------------------
Init ==
    /\ order = [m \in Messages |-> "NONE"]
    /\ lines = [m \in Messages |-> 0]
    /\ assessed = {}
    /\ evaluation = [m \in Anchors |-> "NONE"]
    /\ expired = {}
    /\ event = [m \in Anchors |-> "NONE"]
    /\ frozen = FALSE
    /\ run = [r \in Runs |-> Idle]
    /\ faults = 0
    /\ freezes = 0
    /\ calls = [m \in Messages |-> 0]
    /\ failed = [m \in Messages |-> 0]
    /\ lost = {}

Step(r) ==
    \/ FindOrder(r) \/ CreateProcessingOrder(r)
    \/ Claim(r) \/ Reclaim(r)
    \/ Ask(r) \/ \E result \in Result \ {"NONE"} : Answer(r, result)
    \/ Recognise(r) \/ IgnoreIntent(r) \/ CreateIntended(r) \/ IntendedExists(r)
    \/ Assess(r) \/ ScheduleExport(r) \/ Return(r)
    \/ Fail(r)

Next ==
    \/ \E r \in Runs : Step(r) \/ Throw(r) \/ Crash(r) \/ \E m \in Messages : Start(r, m)
    \/ \E m \in Anchors : Receive(m) \/ IgnoreFrozen(m) \/ LeaseExpires(m)
    \/ \E m \in Messages : Decide(m) \/ AssessLater(m)
    \/ Freeze

Spec == Init /\ [][Next]_vars

\* The reconciler queues received events every five seconds, and the worker
\* takes jobs in their order; a run goes on, and a call of the model ends.
Fairness ==
    /\ \A r \in Runs : WF_vars(Step(r))
    /\ \A m \in Anchors : WF_vars(IgnoreFrozen(m)) /\ SF_vars(\E r \in Runs : Start(r, m))

FairSpec == Spec /\ Fairness

-----------------------------------------------------------------------------
(* Properties                                                               *)

TypeOK ==
    /\ order \in [Messages -> OrderStatus]
    /\ lines \in [Messages -> Nat]
    /\ assessed \subseteq Messages
    /\ evaluation \in [Anchors -> EvaluationStatus]
    /\ expired \subseteq Anchors
    /\ event \in [Anchors -> {"NONE", "RECEIVED", "PROCESSED"}]
    /\ frozen \in BOOLEAN
    /\ run \in [Runs -> Run]
    /\ faults \in Nat /\ freezes \in Nat
    /\ calls \in [Messages -> Nat]
    /\ failed \in [Messages -> Nat]
    /\ lost \subseteq Messages

\* One order, and one set of items, of a message, however many runs are about
\* it; nothing without items is approved.
RecognisedOnce ==
    \A m \in Messages :
        /\ lines[m] <= 1
        /\ order[m] \in Approved => lines[m] = 1

\* "A replay never calls the model twice": a trigger costs one request for good,
\* an anchor one more for every failed run and every claim outlived at most.  A
\* request is what the worker asks its client for; the client itself may repeat
\* one that fails on the way (OpenAI's maxRetries).
ModelIsAskedOnce ==
    /\ \A m \in Triggers : calls[m] <= 1
    /\ \A m \in Anchors : calls[m] <= 1 + failed[m]

\* An order that is AI_PROCESSING is being recognised, unless its run died.
StuckOnlyIfLost ==
    \A m \in Messages : order[m] = "AI_PROCESSING" => m \in lost \/ \E r \in Runs : WorksOn(r, m)

\* An evaluation that names an order has one, one that is open has none, and one
\* that was ignored has one only if two runs answered, of which one was late.
EvaluationFitsOrder ==
    \A m \in Anchors :
        /\ evaluation[m] \in {"PROPOSED", "AUTO_CREATED"} => order[m] # "NONE"
        /\ evaluation[m] \in {"NONE", "PROCESSING", "FAILED"} => order[m] = "NONE"
        /\ evaluation[m] = "IGNORED" => order[m] = "NONE" \/ calls[m] > 1

\* Every event is processed, whatever fails on the way.
EventsAreProcessed == \A m \in Anchors : event[m] = "RECEIVED" ~> event[m] = "PROCESSED"
=============================================================================
