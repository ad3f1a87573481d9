------------------------- MODULE NovaPoshtaShipment -------------------------
(***************************************************************************)
(* An order's shipment with Nova Poshta.  DeliveryService in apps/api      *)
(* records what a manager wants as attempts; ShipmentCreateService and     *)
(* ShipmentStatusService in apps/worker claim them with a lease, call Nova *)
(* Poshta and settle them.  ShipmentReconciler adds the attempts that ask  *)
(* for the status, and wakes whatever is due.                              *)
(*                                                                         *)
(* The wake-ups in BullMQ are left out: the reconciler repeats them every  *)
(* five seconds and BullMQ may hand one out twice, so that a worker may    *)
(* look for a due attempt at any time.  Retries may be due at any time.    *)
(* The lease id, a new UUID of every claim, is the number of the claim,    *)
(* which "attempts" counts; only a PROCESSING attempt has one.             *)
(***************************************************************************)
EXTENDS Integers

CONSTANTS
    Workers,        \* worker processes
    MAX_ATTEMPTS,   \* claims after which a rate limit is final
    MaxClaims,      \* bound: claims of one attempt
    MaxVersion,     \* bound: the last of shipments.version for which a status or cancellation is asked
    MaxLost,        \* bound: claims lost to a crash or to a lease outlived
    MaxFreezes      \* bound: times the tenant's data deletion is requested

VARIABLES
    shipment,    \* shipments: status, version, document and whether it is watched
    attempt,     \* shipment_attempts, by operation and version
    worker,      \* what each worker process is doing
    asked,       \* version a manager's cancellation has read, or -1
    frozen,      \* the tenant has an open request to delete its data
    freezes,
    lost,        \* claims lost so far
    unsearched,  \* ghost: searches for an earlier waybill that were rate limited
    waybills,    \* external: waybills made for the shipment
    parcel       \* external: what Nova Poshta says of the shipment's waybill

vars == <<shipment, attempt, worker, asked, frozen, freezes, lost, unsearched, waybills, parcel>>
outside == <<waybills, parcel>>
rest == <<asked, frozen, freezes, lost, unsearched>>

-----------------------------------------------------------------------------
Terminal == {"DELIVERED", "CANCELLED", "FAILED"}    \* RETURNED is like DELIVERED
Tracked == {"CREATED", "IN_TRANSIT"}                \* and ACCEPTED and RETURNING
ShipmentStatus == {"DRAFT", "CREATING"} \cup Tracked \cup Terminal
Parcel == {"NONE", "CREATED", "IN_TRANSIT", "DELIVERED", "DELETED"}

Versions == 0..MaxVersion
Create == <<"CREATE", 0>>
StatusSync(v) == <<"STATUS_SYNC", v>>
Cancel(v) == <<"CANCEL", v>>
Keys == {Create} \cup {StatusSync(v) : v \in Versions} \cup {Cancel(v) : v \in Versions}

Open == {"PENDING", "RETRYABLE"}
AttemptStatus == Open \cup {"NONE", "PROCESSING", "UNKNOWN", "SUCCEEDED", "FAILED"}
Attempt == [status : AttemptStatus, attempts : 0..MaxClaims, expired : BOOLEAN]
NoAttempt == [status |-> "NONE", attempts |-> 0, expired |-> FALSE]

Phase == {"idle", "read", "searching", "checking", "calling", "writing"}
Work == [phase : Phase, key : Keys,
         seen : AttemptStatus, attempts : 0..MaxClaims,    \* the attempt as it was read
         lease : 0..MaxClaims,                             \* the claim it holds
         was : ShipmentStatus,                             \* the shipment as it was read
         result : {"NONE", "SUCCEEDED", "RETRYABLE", "UNKNOWN", "FAILED"},
         answer : ShipmentStatus]                          \* the status it is to get
Idle == [phase |-> "idle", key |-> Create, seen |-> "NONE", attempts |-> 0,
         lease |-> 0, was |-> "DRAFT", result |-> "NONE", answer |-> "DRAFT"]

Owns(w) ==
    LET a == attempt[worker[w].key] IN
    worker[w].phase \notin {"idle", "read"} /\ a.status = "PROCESSING" /\ a.attempts = worker[w].lease

Goes(w, phase) == worker' = [worker EXCEPT ![w].phase = phase]
Rests(w) == worker' = [worker EXCEPT ![w] = Idle]
Ends(w, result, answer) ==
    worker' = [worker EXCEPT ![w] = [@ EXCEPT !.phase = "writing", !.result = result, !.answer = answer]]

Settled(k, status) == [attempt EXCEPT ![k] = [@ EXCEPT !.status = status, !.expired = FALSE]]

-----------------------------------------------------------------------------
(* DeliveryService and ShipmentReconciler                                   *)

CreateShipment ==
    /\ shipment.status = "DRAFT" /\ ~frozen
    /\ shipment' = [shipment EXCEPT !.status = "CREATING"]
    /\ attempt' = [attempt EXCEPT ![Create].status = "PENDING"]
    /\ UNCHANGED <<worker, outside, rest>>

\* cancelShipment reads the shipment and the attempt of its version ...
CancelRead ==
    /\ asked = -1 /\ shipment.version <= MaxVersion
    /\ shipment.document > 0 /\ shipment.status \notin {"CANCELLED", "DELIVERED"}
    /\ attempt[Cancel(shipment.version)].status # "FAILED"
    /\ asked' = shipment.version
    /\ UNCHANGED <<shipment, attempt, worker, outside, frozen, freezes, lost, unsearched>>

\* ... and adds an attempt of that version, if there is none.
CancelWrite ==
    /\ asked # -1
    /\ asked' = -1
    /\ attempt' = IF ~frozen /\ attempt[Cancel(asked)].status = "NONE"
                  THEN [attempt EXCEPT ![Cancel(asked)].status = "PENDING"] ELSE attempt
    /\ UNCHANGED <<shipment, worker, outside, frozen, freezes, lost, unsearched>>

\* reconcile, of a shipment whose next_status_check_at is over.
Reconcile ==
    LET k == StatusSync(shipment.version) IN
    /\ shipment.version <= MaxVersion
    /\ shipment.status \in Tracked /\ shipment.watched
    /\ attempt[k].status = "NONE"
    /\ attempt' = [attempt EXCEPT ![k].status = "PENDING"]
    /\ UNCHANGED <<shipment, worker, outside, rest>>

-----------------------------------------------------------------------------
(* The worker reads the latest attempt that is due ...                      *)

Due(k) ==
    \/ attempt[k].status \in Open
    \/ k = Create /\ attempt[k].status = "UNKNOWN"
    \/ k = Create /\ attempt[k].status = "PROCESSING" /\ attempt[k].expired

Wanted(k) ==
    CASE k[1] = "CREATE" -> shipment.status = "CREATING"
      [] k[1] = "STATUS_SYNC" -> shipment.document > 0 /\ shipment.status \notin Terminal
      [] OTHER -> shipment.document > 0 /\ shipment.status # "CANCELLED"

Read(w, k) ==
    /\ worker[w].phase = "idle"
    /\ Due(k) /\ \A l \in Keys : (l[1] = k[1] /\ l[2] > k[2]) => ~Due(l)
    /\ Wanted(k)
    /\ attempt[k].attempts < MaxClaims
    /\ worker' = [worker EXCEPT ![w] =
            [Idle EXCEPT !.phase = "read", !.key = k, !.seen = attempt[k].status,
                         !.attempts = attempt[k].attempts, !.was = shipment.status]]
    /\ UNCHANGED <<shipment, attempt, outside, rest>>

(* ... and claims it, if its status and lease are still what they were.     *)
Unchanged(w) ==
    LET a == attempt[worker[w].key] IN
    /\ a.status = worker[w].seen
    /\ a.status = "PROCESSING" => a.attempts = worker[w].attempts

MeetsFreeze(w) ==
    LET kind == worker[w].key[1] IN
    /\ frozen
    /\ \/ kind = "CANCEL"
       \/ kind = "CREATE" /\ worker[w].seen # "UNKNOWN"

\* The claim searches for a waybill only if the last outcome was UNKNOWN.
Searches(w) == worker[w].seen = "UNKNOWN"

ClaimAttempt(w) ==
    LET k == worker[w].key IN
    /\ worker[w].phase = "read" /\ ~MeetsFreeze(w)
    /\ attempt[k].attempts < MaxClaims
    /\ IF Unchanged(w)
       THEN /\ attempt' = [attempt EXCEPT ![k] =
                    [status |-> "PROCESSING", attempts |-> @.attempts + 1, expired |-> FALSE]]
            /\ worker' = [worker EXCEPT ![w] =
                    [@ EXCEPT !.lease = attempt[k].attempts + 1,
                              !.phase = CASE k # Create -> "calling"
                                          [] k = Create /\ Searches(w) -> "searching"
                                          [] OTHER -> "checking"]]
       ELSE UNCHANGED attempt /\ Rests(w)
    /\ UNCHANGED <<shipment, outside, rest>>

\* A frozen tenant's attempt fails instead; a creation's, by its status alone.
ClaimFrozenAlone(w) ==
    /\ worker[w].phase = "read" /\ MeetsFreeze(w)
    /\ attempt' = IF Unchanged(w) THEN Settled(worker[w].key, "FAILED") ELSE attempt
    /\ Rests(w)
    /\ UNCHANGED <<shipment, outside, rest>>
ClaimFrozen(w) ==
    LET k == worker[w].key IN
    /\ worker[w].phase = "read" /\ MeetsFreeze(w)
    /\ attempt' = IF attempt[k].status = worker[w].seen THEN Settled(k, "FAILED") ELSE attempt
    /\ shipment' = IF k = Create /\ shipment.status = "CREATING"
                   THEN [shipment EXCEPT !.status = "FAILED"] ELSE shipment
    /\ Rests(w)
    /\ UNCHANGED <<outside, rest>>

-----------------------------------------------------------------------------
(* ShipmentCreateService                                                    *)

RateLimited(w) == IF worker[w].attempts + 1 < MAX_ATTEMPTS THEN "RETRYABLE" ELSE "FAILED"

\* findShipmentByClientRef, and how it may fail.
Search(w) ==
    /\ worker[w].phase = "searching"
    /\ IF waybills > 0 THEN Ends(w, "SUCCEEDED", "CREATED") ELSE Goes(w, "checking")
    /\ UNCHANGED <<shipment, attempt, outside, rest>>

SearchFails(w, result) ==
    /\ worker[w].phase = "searching"
    /\ result \in {"UNKNOWN", "FAILED", RateLimited(w)}
    /\ Ends(w, result, IF result = "FAILED" THEN "FAILED" ELSE "CREATING")
    /\ unsearched' = IF result = "RETRYABLE" THEN unsearched + 1 ELSE unsearched
    /\ UNCHANGED <<shipment, attempt, outside, asked, frozen, freezes, lost>>

\* freezeClaimedAttempt
CheckFreeze(w) ==
    /\ worker[w].phase = "checking"
    /\ attempt' = IF frozen /\ Owns(w) THEN Settled(Create, "FAILED") ELSE attempt
    /\ shipment' = IF frozen /\ Owns(w) /\ shipment.status = "CREATING"
                   THEN [shipment EXCEPT !.status = "FAILED"] ELSE shipment
    /\ IF frozen THEN Rests(w) ELSE Goes(w, "calling")
    /\ UNCHANGED <<outside, rest>>

\* createShipment's answer, and whether there is a waybill more.
Answer(w, made, result) ==
    /\ worker[w].phase = "calling" /\ worker[w].key = Create
    /\ waybills' = IF made THEN waybills + 1 ELSE waybills
    /\ parcel' = IF made /\ waybills = 0 THEN "CREATED" ELSE parcel
    /\ Ends(w, result, CASE result = "SUCCEEDED" -> "CREATED" [] result = "FAILED" -> "FAILED" [] OTHER -> "CREATING")
    /\ UNCHANGED <<shipment, attempt, rest>>

CreateAccepted(w) == Answer(w, TRUE, "SUCCEEDED")
CreateRateLimited(w) == Answer(w, FALSE, RateLimited(w))
\* Refused, or accepted with a body the client does not expect.
CreateFailed(w) == \E made \in BOOLEAN : Answer(w, made, "FAILED")

\* Timeouts and server errors: nobody knows.
CreateUnknownRetried(w) == \E made \in BOOLEAN : Answer(w, made, "RETRYABLE")
CreateUnknown(w) == \E made \in BOOLEAN : Answer(w, made, "UNKNOWN")

-----------------------------------------------------------------------------
(* ShipmentStatusService                                                    *)

\* mapNovaPoshtaStatus knows no deleted waybill; a code it does not know keeps
\* the status that was read.
Reported == IF parcel = "DELETED" THEN "CREATED" ELSE parcel

AskStatus(w) ==
    /\ worker[w].phase = "calling" /\ worker[w].key[1] = "STATUS_SYNC"
    /\ \E answer \in {Reported, worker[w].was} : Ends(w, "SUCCEEDED", answer)
    /\ UNCHANGED <<shipment, attempt, outside, rest>>

CallCancel(w) ==
    /\ worker[w].phase = "calling" /\ worker[w].key[1] = "CANCEL"
    /\ parcel = "CREATED"
    /\ parcel' = "DELETED"
    /\ \E result \in {"SUCCEEDED", "RETRYABLE", "FAILED"} : Ends(w, result, "CANCELLED")
    /\ UNCHANGED <<shipment, attempt, waybills, rest>>

CallFails(w) ==
    /\ worker[w].phase = "calling" /\ worker[w].key # Create
    /\ \E result \in {"RETRYABLE", "FAILED"} : Ends(w, result, "CANCELLED")
    /\ UNCHANGED <<shipment, attempt, outside, rest>>

-----------------------------------------------------------------------------
(* succeed, finish, and their like of the other operations                  *)

Bumped(answer) ==
    [shipment EXCEPT !.status = answer, !.version = @ + 1, !.watched = answer \notin Terminal]
ShipmentAfterAll(k, result, answer) ==
    CASE k = Create /\ result = "SUCCEEDED" -> [shipment EXCEPT !.status = "CREATED", !.document = 1, !.watched = TRUE]
      [] k = Create /\ result # "SUCCEEDED" -> [shipment EXCEPT !.status = answer]
      [] k # Create /\ result # "RETRYABLE" -> Bumped(answer)
      [] OTHER -> shipment
ShipmentAfter(k, result, answer) ==
    CASE k = Create /\ result = "SUCCEEDED" -> [shipment EXCEPT !.status = "CREATED", !.document = 1, !.watched = TRUE]
      [] k = Create /\ result # "SUCCEEDED" -> [shipment EXCEPT !.status = answer]
      [] k # Create /\ result = "SUCCEEDED" -> Bumped(answer)
      [] OTHER -> shipment

Write(w) ==
    LET k == worker[w].key
        result == worker[w].result
    IN  /\ worker[w].phase = "writing"
        /\ IF Owns(w)
           THEN attempt' = Settled(k, result) /\ shipment' = ShipmentAfter(k, result, worker[w].answer)
           ELSE UNCHANGED <<attempt, shipment>>
        /\ Rests(w)
        /\ UNCHANGED <<outside, rest>>

-----------------------------------------------------------------------------
(* Time, failures and the rest of the world                                 *)

\* A minute is over: a worker that goes on has lost its claim.
ExpireLease(k) ==
    LET outlived == \E w \in Workers : Owns(w) /\ worker[w].key = k IN
    /\ attempt[k].status = "PROCESSING" /\ ~attempt[k].expired
    /\ outlived => lost < MaxLost
    /\ lost' = IF outlived THEN lost + 1 ELSE lost
    /\ attempt' = [attempt EXCEPT ![k].expired = TRUE]
    /\ UNCHANGED <<shipment, worker, outside, asked, frozen, freezes, unsearched>>

Crash(w) ==
    /\ worker[w].phase # "idle"
    /\ lost < MaxLost
    /\ lost' = lost + 1
    /\ Rests(w)
    /\ UNCHANGED <<shipment, attempt, outside, asked, frozen, freezes, unsearched>>

Freeze ==
    /\ frozen \/ freezes < MaxFreezes
    /\ frozen' = ~frozen
    /\ freezes' = IF frozen THEN freezes ELSE freezes + 1
    /\ UNCHANGED <<shipment, attempt, worker, outside, asked, lost, unsearched>>

ParcelMoves ==
    /\ parcel' = CASE parcel = "CREATED" -> "IN_TRANSIT" [] parcel = "IN_TRANSIT" -> "DELIVERED" [] OTHER -> parcel
    /\ parcel' # parcel
    /\ UNCHANGED <<shipment, attempt, worker, waybills, rest>>

-----------------------------------------------------------------------------
Init ==
    /\ shipment = [status |-> "DRAFT", version |-> 0, document |-> 0, watched |-> FALSE]
    /\ attempt = [k \in Keys |-> NoAttempt]
    /\ worker = [w \in Workers |-> Idle]
    /\ asked = -1
    /\ frozen = FALSE
    /\ freezes = 0
    /\ lost = 0
    /\ unsearched = 0
    /\ waybills = 0
    /\ parcel = "NONE"

WorkerStep(w) ==
    \/ \E k \in Keys : Read(w, k)
    \/ ClaimAttempt(w) \/ ClaimFrozen(w)
    \/ Search(w) \/ \E result \in {"UNKNOWN", "RETRYABLE", "FAILED"} : SearchFails(w, result)
    \/ CheckFreeze(w)
    \/ CreateAccepted(w) \/ CreateRateLimited(w) \/ CreateFailed(w) \/ CreateUnknown(w)
    \/ AskStatus(w) \/ CallCancel(w) \/ CallFails(w)
    \/ Write(w)

Next ==
    \/ CreateShipment \/ CancelRead \/ CancelWrite \/ Reconcile
    \/ \E w \in Workers : WorkerStep(w) \/ Crash(w)
    \/ \E k \in Keys : ExpireLease(k)
    \/ Freeze \/ ParcelMoves

Spec == Init /\ [][Next]_vars

-----------------------------------------------------------------------------
(* Properties                                                               *)

TypeOK ==
    /\ shipment \in [status : ShipmentStatus, version : Nat, document : {0, 1}, watched : BOOLEAN]
    /\ attempt \in [Keys -> Attempt]
    /\ worker \in [Workers -> Work]
    /\ asked \in Versions \cup {-1}
    /\ frozen \in BOOLEAN
    /\ {freezes, lost, unsearched, waybills} \subseteq Nat
    /\ parcel \in Parcel

\* "A timeout is UNKNOWN, not an automatic repetition of the creation": another
\* waybill is made only after a claim was lost, or after the search for the
\* earlier one was rate limited, which forgets that the outcome is unknown.
WaybillsAreAccountedFor == waybills <= 1 + lost + unsearched

\* A shipment that is being created has an attempt that a worker takes again,
\* whatever comes of the claims of it: nothing else ends its creation.
CreatingHasAttempt == shipment.status = "CREATING" => attempt[Create].status \notin {"NONE", "SUCCEEDED", "FAILED"}

\* A shipment that reads CANCELLED has no parcel on its way.
CancelledIsDeleted == shipment.status = "CANCELLED" => parcel = "DELETED"
=============================================================================
