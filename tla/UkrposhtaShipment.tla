-------------------------- MODULE UkrposhtaShipment --------------------------
(***************************************************************************)
(* An order's shipment with Ukrposhta: UkrposhtaShipmentService creates    *)
(* and cancels it, UkrposhtaTrackingService follows it.  Nothing finds a   *)
(* parcel of Ukrposhta by a reference of ours, so that the worker commits  *)
(* a marker before it asks for one and never asks again once it is there.  *)
(* Attempts, claims and wake-ups are those of NovaPoshtaShipment; here a   *)
(* worker also renews its lease, with every checkpoint.                    *)
(*                                                                         *)
(* The clients and addresses that a creation prepares, the other shipments *)
(* of a tracking batch and changed credentials only add failures: they are *)
(* PrepareFails, LookUpFails and TrackFails.                               *)
(***************************************************************************)
EXTENDS Integers

CONSTANTS
    Workers,        \* worker processes
    Retries,        \* failed preparations that are tried again: 4 in the code
    MaxClaims,      \* bound: claims of one attempt
    MaxVersion,     \* bound: the last of shipments.version for which a status or cancellation is asked
    MaxLost,        \* bound: claims lost to a crash or to a lease outlived
    MaxFreezes      \* bound: times the tenant's data deletion is requested

VARIABLES
    shipment,    \* shipments: status, version, document, provider_metadata, watched
    attempt,     \* shipment_attempts, by operation and version
    worker,      \* what each worker process is doing
    asked,       \* version a manager's cancellation has read, or -1
    frozen,      \* the tenant has an open request to delete its data
    freezes,
    lost,        \* claims lost so far
    waybills,    \* external: parcels made for the shipment
    parcel,      \* external: what Ukrposhta says of its parcel
    seen         \* external: statuses that parcel has had

vars == <<shipment, attempt, worker, asked, frozen, freezes, lost, waybills, parcel, seen>>
outside == <<waybills, parcel, seen>>
rest == <<asked, frozen, freezes, lost>>

-----------------------------------------------------------------------------
Moving == {"CREATED", "ACCEPTED", "IN_TRANSIT", "RETURNING"}
Terminal == {"DELIVERED", "RETURNED", "CANCELLED", "FAILED"}
ShipmentStatus == {"DRAFT", "CREATING"} \cup Moving \cup Terminal

Versions == 0..MaxVersion
Create == <<"CREATE", 0>>
StatusSync(v) == <<"STATUS_SYNC", v>>
Cancel(v) == <<"CANCEL", v>>
Keys == {Create} \cup {StatusSync(v) : v \in Versions} \cup {Cancel(v) : v \in Versions}

Open == {"PENDING", "RETRYABLE"}
AttemptStatus == Open \cup {"NONE", "PROCESSING", "UNKNOWN", "SUCCEEDED", "FAILED"}
Attempt == [status : AttemptStatus, attempts : 0..MaxClaims, expired : BOOLEAN]
NoAttempt == [status |-> "NONE", attempts |-> 0, expired |-> FALSE]

\* providerMetadata: createDispatched, a parcel's uuid, deleteDispatched.
Metadata == [create : BOOLEAN, uuid : BOOLEAN, delete : BOOLEAN]
NoMetadata == [create |-> FALSE, uuid |-> FALSE, delete |-> FALSE]

Phase == {"idle", "read", "preparing", "marking", "posting", "keeping", "looking",
          "asking", "checking", "deleting", "tracking", "writing"}
Work == [phase : Phase, key : Keys,
         candidate : [status : AttemptStatus, attempts : 0..MaxClaims],
         was : ShipmentStatus, version : Nat,        \* the shipment as it was read
         meta : Metadata,                                 \* its metadata, in memory
         lease : 0..MaxClaims,                            \* the claim it holds
         result : {"NONE", "SUCCEEDED", "RETRYABLE", "UNKNOWN", "FAILED", "CONFLICT"},
         answer : ShipmentStatus]                         \* the status it is to get
Idle == [phase |-> "idle", key |-> Create, candidate |-> [status |-> "NONE", attempts |-> 0],
         was |-> "DRAFT", version |-> 0, meta |-> NoMetadata, lease |-> 0,
         result |-> "NONE", answer |-> "DRAFT"]

Owns(w) ==
    LET a == attempt[worker[w].key] IN
    worker[w].phase \notin {"idle", "read"} /\ a.status = "PROCESSING" /\ a.attempts = worker[w].lease

Goes(w, phase) == worker' = [worker EXCEPT ![w].phase = phase]
Rests(w) == worker' = [worker EXCEPT ![w] = Idle]
Ends(w, result, answer) ==
    worker' = [worker EXCEPT ![w] = [@ EXCEPT !.phase = "writing", !.result = result, !.answer = answer]]

Settled(k, status) == [attempt EXCEPT ![k] = [@ EXCEPT !.status = status, !.expired = FALSE]]

-----------------------------------------------------------------------------
(* DeliveryService and ShipmentReconciler                                   *)

CreateShipment ==
    /\ shipment.status = "DRAFT" /\ ~frozen
    /\ shipment' = [shipment EXCEPT !.status = "CREATING"]
    /\ attempt' = [attempt EXCEPT ![Create].status = "PENDING"]
    /\ UNCHANGED <<worker, outside, rest>>

\* cancelShipment reads the shipment, its attempts and the parcel's lifecycle ...
CancelRead ==
    /\ asked = -1 /\ shipment.version <= MaxVersion
    /\ shipment.document /\ shipment.status = "CREATED" /\ parcel = "CREATED"
    /\ attempt[Cancel(shipment.version)].status # "FAILED"
    /\ asked' = shipment.version
    /\ UNCHANGED <<shipment, attempt, worker, outside, frozen, freezes, lost>>

\* ... and adds an attempt of the version it read, if there is none.
CancelWrite ==
    /\ asked # -1
    /\ asked' = -1
    /\ attempt' = IF ~frozen /\ attempt[Cancel(asked)].status = "NONE"
                  THEN [attempt EXCEPT ![Cancel(asked)].status = "PENDING"] ELSE attempt
    /\ UNCHANGED <<shipment, worker, outside, frozen, freezes, lost>>

\* reconcile, of a shipment whose next_status_check_at is over.
Reconcile ==
    LET k == StatusSync(shipment.version) IN
    /\ shipment.version <= MaxVersion
    /\ shipment.status \in Moving /\ shipment.watched
    /\ attempt[k].status = "NONE"
    /\ attempt' = [attempt EXCEPT ![k].status = "PENDING"]
    /\ UNCHANGED <<shipment, worker, outside, rest>>

-----------------------------------------------------------------------------
(* The worker reads an attempt that is due ...                              *)

\* ShipmentStatusService hands a cancellation on only if it is open.
Due(k) ==
    \/ attempt[k].status \in Open
    \/ k = Create /\ attempt[k].status = "UNKNOWN"
    \/ k[1] # "CANCEL" /\ attempt[k].status = "PROCESSING" /\ attempt[k].expired

Wanted(k) ==
    CASE k[1] = "CREATE" -> shipment.status = "CREATING"
      [] k[1] = "STATUS_SYNC" -> shipment.document /\ shipment.status \in Moving
      [] OTHER -> shipment.document /\ shipment.status # "CANCELLED"

Read(w, k) ==
    /\ worker[w].phase = "idle"
    /\ Due(k) /\ (k[1] = "CANCEL" => \A v \in Versions : v > k[2] => ~Due(Cancel(v)))
    /\ Wanted(k)
    /\ attempt[k].attempts < MaxClaims
    /\ worker' = [worker EXCEPT ![w] =
            [Idle EXCEPT !.phase = "read", !.key = k,
                         !.candidate = [status |-> attempt[k].status, attempts |-> attempt[k].attempts],
                         !.was = shipment.status, !.version = shipment.version, !.meta = shipment.meta]]
    /\ UNCHANGED <<shipment, attempt, outside, rest>>

(* ... and claims it, if its status and lease are still what they were.     *)
Unchanged(w) ==
    LET a == attempt[worker[w].key]
        c == worker[w].candidate
    IN  a.status = c.status /\ (a.status = "PROCESSING" => a.attempts = c.attempts)

\* Nobody knows yet what came of an earlier creation.
DispatchedUnmarked(w) == worker[w].candidate.status = "UNKNOWN"
Dispatched(w) == worker[w].meta.create \/ worker[w].candidate.status = "UNKNOWN"

Starts(w) ==
    LET m == worker[w].meta
        at(phase) == [phase |-> phase, result |-> "NONE", answer |-> "DRAFT"]
    IN  CASE worker[w].key[1] = "STATUS_SYNC" -> at("tracking")
          [] worker[w].key[1] = "CANCEL" -> at("asking")
          [] worker[w].key = Create /\ ~Dispatched(w) -> at("preparing")
          [] worker[w].key = Create /\ Dispatched(w) /\ (m.uuid \/ shipment.document) -> at("looking")
          [] OTHER -> [phase |-> "writing", result |-> "UNKNOWN", answer |-> "CREATING"]

MeetsFreeze(w) == frozen /\ worker[w].key = Create /\ ~Dispatched(w)

Claim(w) ==
    LET k == worker[w].key
        start == Starts(w)
        fits == Unchanged(w) /\ (attempt[k].status = "PROCESSING" => attempt[k].expired)
    IN  /\ worker[w].phase = "read" /\ ~MeetsFreeze(w)
        /\ attempt[k].attempts < MaxClaims
        /\ IF fits
           THEN /\ attempt' = [attempt EXCEPT ![k] =
                        [status |-> "PROCESSING", attempts |-> @.attempts + 1, expired |-> FALSE]]
                /\ worker' = [worker EXCEPT ![w] =
                        [@ EXCEPT !.lease = attempt[k].attempts + 1, !.phase = start.phase,
                                  !.result = start.result, !.answer = start.answer]]
           ELSE UNCHANGED attempt /\ Rests(w)
        /\ UNCHANGED <<shipment, outside, rest>>

ClaimFrozen(w) ==
    /\ worker[w].phase = "read" /\ MeetsFreeze(w)
    /\ attempt' = IF Unchanged(w) THEN Settled(Create, "FAILED") ELSE attempt
    /\ shipment' = IF Unchanged(w) THEN [shipment EXCEPT !.status = "FAILED"] ELSE shipment
    /\ Rests(w)
    /\ UNCHANGED <<outside, rest>>

\* freezeClaimedAttempt, before a side effect: the shipment keeps its status.
CheckFreeze(w, then) ==
    /\ attempt' = IF frozen /\ Owns(w) THEN Settled(worker[w].key, "FAILED") ELSE attempt
    /\ IF frozen THEN Rests(w) ELSE Goes(w, then)
    /\ UNCHANGED <<shipment, outside, rest>>

\* Saves the metadata if the lease is not over, and renews it; else it is lost.
Renewable(w) == Owns(w) /\ ~attempt[worker[w].key].expired
Checkpoint(w, meta, then) ==
    /\ IF Renewable(w)
       THEN /\ shipment' = [shipment EXCEPT !.meta = meta]
            /\ worker' = [worker EXCEPT ![w] = [@ EXCEPT !.phase = then, !.meta = meta]]
       ELSE UNCHANGED shipment /\ Rests(w)
    /\ UNCHANGED <<attempt, outside, rest>>

-----------------------------------------------------------------------------
(* UkrposhtaShipmentService.process                                         *)

\* Clients and addresses, with a checkpoint after each.
Prepare(w) == worker[w].phase = "preparing" /\ Checkpoint(w, worker[w].meta, "preparing")

PrepareFails(w) ==
    /\ worker[w].phase = "preparing"
    /\ \/ worker[w].candidate.attempts < Retries /\ Ends(w, "RETRYABLE", "CREATING")
       \/ Ends(w, "FAILED", "FAILED")
    /\ UNCHANGED <<shipment, attempt, outside, rest>>

Prepared(w) == worker[w].phase = "preparing" /\ CheckFreeze(w, "marking")

\* "Commit this marker BEFORE POST."
Mark(w) ==
    /\ worker[w].phase = "marking"
    /\ Checkpoint(w, [worker[w].meta EXCEPT !.create = TRUE], "posting")

Made == /\ waybills' = waybills + 1
        /\ parcel' = IF waybills = 0 THEN "CREATED" ELSE parcel
        /\ seen' = seen \cup {parcel'}

PostAccepted(w) ==
    /\ worker[w].phase = "posting"
    /\ Made
    /\ worker' = [worker EXCEPT ![w] = [@ EXCEPT !.phase = "keeping", !.meta.uuid = TRUE]]
    /\ UNCHANGED <<shipment, attempt, rest>>

PostRefused(w) ==
    /\ worker[w].phase = "posting"
    /\ Ends(w, "FAILED", "FAILED")
    /\ UNCHANGED <<shipment, attempt, outside, rest>>

\* A timeout, a server error or a body the client does not expect.
PostUnknown(w) ==
    /\ worker[w].phase = "posting"
    /\ Made \/ UNCHANGED outside
    /\ Ends(w, "UNKNOWN", "CREATING")
    /\ UNCHANGED <<shipment, attempt, rest>>

Keep(w) ==
    /\ worker[w].phase = "keeping"
    /\ IF Renewable(w)
       THEN /\ shipment' = [shipment EXCEPT !.meta = worker[w].meta]
            /\ Ends(w, "SUCCEEDED", "CREATED")
       ELSE UNCHANGED shipment /\ Rests(w)
    /\ UNCHANGED <<attempt, outside, rest>>

LookUp(w) ==
    /\ worker[w].phase = "looking" /\ parcel # "NONE"
    /\ Ends(w, "SUCCEEDED", parcel)
    /\ UNCHANGED <<shipment, attempt, outside, rest>>

LookUpFails(w) ==
    /\ worker[w].phase = "looking"
    /\ Ends(w, "UNKNOWN", "CREATING")
    /\ UNCHANGED <<shipment, attempt, outside, rest>>

-----------------------------------------------------------------------------
(* UkrposhtaShipmentService.cancel                                          *)

\* A deleted parcel is a status of its own, or one that is not found.
AskLifecycle(w) ==
    /\ worker[w].phase = "asking"
    /\ \/ parcel = "CREATED" /\ Goes(w, "checking")
       \/ parcel # "CREATED" /\ Ends(w, "CONFLICT", parcel)
       \/ parcel = "CANCELLED" /\ worker[w].meta.delete /\ Ends(w, "SUCCEEDED", "CANCELLED")
    /\ UNCHANGED <<shipment, attempt, outside, rest>>

CancelAllowed(w) == worker[w].phase = "checking" /\ CheckFreeze(w, "marking")

MarkDelete(w) ==
    /\ worker[w].phase = "marking"
    /\ Checkpoint(w, [worker[w].meta EXCEPT !.delete = TRUE], "deleting")

Delete(w) ==
    /\ worker[w].phase = "deleting" /\ parcel \in {"CREATED", "CANCELLED"}
    /\ parcel' = "CANCELLED"
    /\ seen' = seen \cup {parcel'}
    /\ \E result \in {"SUCCEEDED", "RETRYABLE", "FAILED"} : Ends(w, result, "CANCELLED")
    /\ UNCHANGED <<shipment, attempt, waybills, rest>>

CancelFails(w) ==
    /\ worker[w].phase \in {"asking", "deleting"}
    /\ \E result \in {"RETRYABLE", "FAILED"} : Ends(w, result, "CANCELLED")
    /\ UNCHANGED <<shipment, attempt, outside, rest>>

-----------------------------------------------------------------------------
(* UkrposhtaTrackingService                                                 *)

Advance(current, mapped) ==
    CASE current \in Terminal -> current
      [] current = "CREATED" -> mapped
      [] current = "ACCEPTED" -> IF mapped = "CREATED" THEN current ELSE mapped
      [] current = "IN_TRANSIT" -> IF mapped \in {"DELIVERED", "RETURNING", "RETURNED", "CANCELLED"}
                                   THEN mapped ELSE current
      [] current = "RETURNING" -> IF mapped = "RETURNED" THEN mapped ELSE current
      [] OTHER -> current

\* Tracking may know less than the lifecycle the metadata holds, or a later
\* batch: any status the parcel has had may be the newest it tells.
Track(w) ==
    /\ worker[w].phase = "tracking"
    /\ \E mapped \in seen \cup {worker[w].was} : Ends(w, "SUCCEEDED", Advance(worker[w].was, mapped))
    /\ UNCHANGED <<shipment, attempt, outside, rest>>

TrackFails(w) ==
    /\ worker[w].phase = "tracking"
    /\ \E result \in {"RETRYABLE", "FAILED"} : Ends(w, result, worker[w].was)
    /\ UNCHANGED <<shipment, attempt, outside, rest>>

-----------------------------------------------------------------------------
(* succeed, finish, completeCancellation; completeWithEvents and fail       *)

WriteCreate(w) ==
    /\ worker[w].key = Create
    /\ attempt' = Settled(Create, worker[w].result)
    /\ shipment' = IF worker[w].result = "SUCCEEDED"
                   THEN [shipment EXCEPT !.status = worker[w].answer, !.document = TRUE,
                            !.watched = worker[w].answer \notin Terminal,
                            !.meta = [worker[w].meta EXCEPT !.uuid = TRUE]]
                   ELSE [shipment EXCEPT !.status = worker[w].answer]

WriteCancel(w) ==
    LET result == worker[w].result IN
    /\ worker[w].key[1] = "CANCEL"
    /\ attempt' = Settled(worker[w].key, IF result = "CONFLICT" THEN "FAILED" ELSE result)
    /\ shipment' = IF result \in {"SUCCEEDED", "CONFLICT"}
                   THEN [shipment EXCEPT !.status = worker[w].answer, !.watched = FALSE,
                            !.meta = worker[w].meta, !.version = @ + 1]
                   ELSE shipment

\* Tracking writes only over the shipment it has read.
FitsAny(w) == TRUE
Fits(w) == shipment.version = worker[w].version /\ shipment.status = worker[w].was

WriteTracked(w) ==
    LET result == worker[w].result IN
    /\ worker[w].key[1] = "STATUS_SYNC"
    /\ IF result = "SUCCEEDED" /\ ~Fits(w)
       THEN UNCHANGED <<attempt, shipment>>
       ELSE /\ attempt' = Settled(worker[w].key, result)
            /\ shipment' = IF result = "SUCCEEDED"
                           THEN [shipment EXCEPT !.status = worker[w].answer, !.meta = worker[w].meta,
                                    !.watched = worker[w].answer \notin Terminal, !.version = @ + 1]
                           ELSE [shipment EXCEPT !.watched = result = "RETRYABLE"]

Write(w) ==
    /\ worker[w].phase = "writing"
    /\ IF Owns(w)
       THEN WriteCreate(w) \/ WriteCancel(w) \/ WriteTracked(w)
       ELSE UNCHANGED <<attempt, shipment>>
    /\ Rests(w)
    /\ UNCHANGED <<outside, rest>>

-----------------------------------------------------------------------------
(* Time, failures and the rest of the world                                 *)

\* A minute is over: a worker that goes on has lost its claim.
ExpireLease(k) ==
    LET outlived == \E w \in Workers : Owns(w) /\ worker[w].key = k IN
    /\ attempt[k].status = "PROCESSING" /\ ~attempt[k].expired
    /\ outlived => lost < MaxLost
    /\ lost' = IF outlived THEN lost + 1 ELSE lost
    /\ attempt' = [attempt EXCEPT ![k].expired = TRUE]
    /\ UNCHANGED <<shipment, worker, outside, asked, frozen, freezes>>

Crash(w) ==
    /\ worker[w].phase # "idle"
    /\ lost < MaxLost
    /\ lost' = lost + 1
    /\ Rests(w)
    /\ UNCHANGED <<shipment, attempt, outside, asked, frozen, freezes>>

Freeze ==
    /\ frozen \/ freezes < MaxFreezes
    /\ frozen' = ~frozen
    /\ freezes' = IF frozen THEN freezes ELSE freezes + 1
    /\ UNCHANGED <<shipment, attempt, worker, outside, asked, lost>>

ParcelMoves ==
    /\ parcel \in Moving
    /\ parcel' \in CASE parcel = "CREATED" -> {"ACCEPTED"}
                     [] parcel = "ACCEPTED" -> {"IN_TRANSIT"}
                     [] parcel = "IN_TRANSIT" -> {"DELIVERED", "RETURNING"}
                     [] OTHER -> {"RETURNED"}
    /\ seen' = seen \cup {parcel'}
    /\ UNCHANGED <<shipment, attempt, worker, waybills, rest>>

-----------------------------------------------------------------------------
Init ==
    /\ shipment = [status |-> "DRAFT", version |-> 0, document |-> FALSE, meta |-> NoMetadata, watched |-> FALSE]
    /\ attempt = [k \in Keys |-> NoAttempt]
    /\ worker = [w \in Workers |-> Idle]
    /\ asked = -1
    /\ frozen = FALSE
    /\ freezes = 0
    /\ lost = 0
    /\ waybills = 0
    /\ parcel = "NONE"
    /\ seen = {}

Creates(w) ==
    \/ Prepare(w) \/ PrepareFails(w) \/ Prepared(w)
    \/ Mark(w) /\ worker[w].key = Create
    \/ PostAccepted(w) \/ PostRefused(w) \/ PostUnknown(w) \/ Keep(w)
    \/ LookUp(w) \/ LookUpFails(w)

Cancels(w) ==
    \/ AskLifecycle(w) \/ CancelAllowed(w)
    \/ MarkDelete(w) /\ worker[w].key # Create
    \/ Delete(w) \/ CancelFails(w)

WorkerStep(w) ==
    \/ \E k \in Keys : Read(w, k)
    \/ Claim(w) \/ ClaimFrozen(w)
    \/ Creates(w) \/ Cancels(w)
    \/ Track(w) \/ TrackFails(w)
    \/ Write(w)

Next ==
    \/ CreateShipment \/ CancelRead \/ CancelWrite \/ Reconcile
    \/ \E w \in Workers : WorkerStep(w) \/ Crash(w)
    \/ \E k \in Keys : ExpireLease(k)
    \/ Freeze \/ ParcelMoves

Spec == Init /\ [][Next]_vars

-----------------------------------------------------------------------------
(* Properties                                                               *)

TypeOK ==
    /\ shipment \in [status : ShipmentStatus, version : Nat, document : BOOLEAN,
                     meta : Metadata, watched : BOOLEAN]
    /\ attempt \in [Keys -> Attempt]
    /\ worker \in [Workers -> Work]
    /\ asked \in Versions \cup {-1}
    /\ frozen \in BOOLEAN
    /\ {freezes, lost, waybills} \subseteq Nat
    /\ parcel \in Moving \cup Terminal \cup {"NONE"}
    /\ seen \subseteq Moving \cup Terminal

\* "No retry path can cross it a second time": whatever times out, crashes or
\* loses its lease, one parcel at most is made for the shipment.
OneParcel == waybills <= 1

\* A shipment that is being created has an attempt that a worker takes again,
\* unless the freeze of its tenant came between the claim and the parcel:
\* freezeClaimedAttempt fails the attempt alone.
CreatingHasAttempt ==
    shipment.status = "CREATING" => attempt[Create].status \notin {"NONE", "SUCCEEDED", "FAILED"} \/ freezes > 0

\* A shipment that reads CANCELLED has no parcel on its way.
CancelledIsDeleted == shipment.status = "CANCELLED" => parcel = "CANCELLED"

\* A status that tracking or a creation writes never takes a shipment back on
\* its way, though tracking may be older than what the shipment knows and a
\* cancellation may have found the parcel under way meanwhile.
Way == [CREATED |-> 0, ACCEPTED |-> 1, IN_TRANSIT |-> 2, RETURNING |-> 3,
        DELIVERED |-> 4, RETURNED |-> 4, CANCELLED |-> 4, FAILED |-> 4]
Forward ==
    \A w \in Workers :
        (/\ worker[w].phase = "writing" /\ worker'[w].phase = "idle"
         /\ worker[w].key[1] # "CANCEL"
         /\ shipment.status \in Moving \cup Terminal /\ shipment'.status # shipment.status)
        => Way[shipment'.status] > Way[shipment.status]
GoesForward == [][Forward]_vars
=============================================================================
