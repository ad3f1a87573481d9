---------------------------- MODULE TenantExport ----------------------------
(***************************************************************************)
(* The archive of a tenant's data.  A platform administrator asks for it,  *)
(* cancels it and asks again, through SQL functions of the database;       *)
(* TenantLifecycleProcessor of apps/worker writes the archive, stores it   *)
(* as an object and publishes the object's key in the request; and         *)
(* TenantLifecycleReconciler deletes the object when it has expired.  The  *)
(* row and the object cannot change together, and each of the steps        *)
(* between them may be a process's last.                                   *)
(*                                                                         *)
(* Requests do not interact, so that there is one: a request to delete the *)
(* tenant's data exports them in the same way, and the freeze it brings is *)
(* what the other modules call frozen.  The reconciler asks for whatever   *)
(* is due every 5 s and a job looks again, so that the queue is left out.  *)
(* An object's key has the id of the lease under which it was written: the *)
(* number of the claim.  What an archive says is left out, and with it the *)
(* download, which compares it with the row's checksum.                    *)
(***************************************************************************)
EXTENDS Integers

CONSTANTS
    Workers,    \* processes that may be exporting at once
    MaxClaims,  \* bound: claims of the request
    MaxLost     \* bound: processes lost and calls that fail at random

VARIABLES
    request,  \* tenant_lifecycle_requests
    objects,  \* external: the keys in the object storage
    worker,   \* what each process does for the request
    cleaner,  \* the key that the cleanup has read, and the step it is at
    claims,
    lost,
    left,     \* ghost: keys whose process died, or whose call failed, around the upload or deletion
    doubted   \* ghost: keys whose publication was committed and reported as failed

vars == <<request, objects, worker, cleaner, claims, lost, left, doubted>>

-----------------------------------------------------------------------------
Keys == 0..MaxClaims
\* "key" is 0 if there is none, and so is "lease"; "due" and "lapsed" compare the
\* next attempt and the lease with the clock, "over" the archive's seven days.
Request == [status : {"NONE", "REQUESTED", "EXPORTING", "EXPORT_READY", "FAILED", "CANCELLED"},
            due : BOOLEAN, lease : Keys, lapsed : BOOLEAN, key : Keys, over : BOOLEAN]
NoRequest == [status |-> "NONE", due |-> FALSE, lease |-> 0, lapsed |-> FALSE, key |-> 0, over |-> FALSE]

Work == [phase : {"idle", "writing", "uploading", "verifying", "publishing", "discarding", "deleting", "failing"},
         lease : Keys]
Idle == [phase |-> "idle", lease |-> 0]

Goes(w, phase) == worker' = [worker EXCEPT ![w].phase = phase]
KeyOfRequest(w) == 1
KeyOf(w) == worker[w].lease
Holds(w) == request.status = "EXPORTING" /\ request.lease = worker[w].lease
AtWork == UNCHANGED <<cleaner, claims>>

-----------------------------------------------------------------------------
(* The administrator                                                        *)

Create ==
    /\ request = NoRequest
    /\ request' = [request EXCEPT !.status = "REQUESTED", !.due = TRUE]

\* An archive that is ready keeps its key; nothing looks for it any more.
Cancel ==
    /\ request.status \in {"REQUESTED", "FAILED", "EXPORT_READY"}
    /\ request' = [request EXCEPT !.status = "CANCELLED", !.lease = 0, !.lapsed = FALSE]

Retry ==
    /\ request.status = "FAILED"
    /\ request' = [request EXCEPT !.status = "REQUESTED", !.due = TRUE]

\* The clock reaches what the row compares with it.
TimePasses ==
    \/ /\ request.status = "FAILED" /\ ~request.due
       /\ request' = [request EXCEPT !.due = TRUE]
    \/ /\ request.status = "EXPORTING" /\ ~request.lapsed
       /\ request' = [request EXCEPT !.lapsed = TRUE]
    \/ /\ request.status = "EXPORT_READY" /\ ~request.over
       /\ request' = [request EXCEPT !.over = TRUE]

Row == (Create \/ Cancel \/ Retry \/ TimePasses) /\ UNCHANGED <<objects, worker, cleaner, claims, lost, left, doubted>>

-----------------------------------------------------------------------------
(* TenantLifecycleProcessor                                                 *)

Claimable ==
    \/ request.status \in {"REQUESTED", "FAILED"} /\ request.due
    \/ request.status = "EXPORTING" /\ request.lapsed

Claim(w) ==
    /\ worker[w].phase = "idle"
    /\ Claimable
    /\ claims < MaxClaims
    /\ claims' = claims + 1
    /\ request' = [request EXCEPT !.status = "EXPORTING", !.lease = claims + 1, !.lapsed = FALSE]
    /\ worker' = [worker EXCEPT ![w] = [phase |-> "writing", lease |-> claims + 1]]
    /\ UNCHANGED <<objects, cleaner, lost, left, doubted>>

Write(w) ==
    /\ worker[w].phase = "writing"
    /\ \E phase \in {"uploading", "failing"} : Goes(w, phase)
    /\ UNCHANGED <<request, objects, lost, left, doubted>>
    /\ AtWork

\* A call that is answered, one that stores nothing, and one that stores the
\* object and has no answer: then nothing was uploaded as far as it knows.
Upload(w) ==
    /\ worker[w].phase = "uploading"
    /\ \/ Goes(w, "verifying") /\ objects' = objects \cup {KeyOf(w)} /\ UNCHANGED <<lost, left>>
       \/ Goes(w, "failing") /\ UNCHANGED <<objects, lost, left>>
       \/ /\ lost < MaxLost
          /\ Goes(w, "failing")
          /\ objects' = objects \cup {KeyOf(w)}
          /\ lost' = lost + 1
          /\ left' = left \cup {KeyOf(w)}
    /\ UNCHANGED <<request, doubted>>
    /\ AtWork

Verify(w) ==
    /\ worker[w].phase = "verifying"
    /\ \E phase \in {"publishing", "deleting"} : Goes(w, phase)
    /\ UNCHANGED <<request, objects, lost, left, doubted>>
    /\ AtWork

Published(w) == [request EXCEPT !.status = "EXPORT_READY", !.key = KeyOf(w), !.over = FALSE,
                                !.lease = 0, !.lapsed = FALSE]

Publish(w) ==
    /\ worker[w].phase = "publishing"
    /\ Holds(w)
    /\ request' = Published(w)
    /\ worker' = [worker EXCEPT ![w] = Idle]
    /\ UNCHANGED <<objects, lost, left, doubted>>
    /\ AtWork

PublishNothing(w) ==
    /\ worker[w].phase = "publishing"
    /\ ~Holds(w)
    /\ Goes(w, "discarding")
    /\ UNCHANGED <<request, objects, lost, left, doubted>>
    /\ AtWork

\* The transaction throws, before it is committed or after.
PublishThrows(w) ==
    /\ worker[w].phase = "publishing"
    /\ lost < MaxLost
    /\ lost' = lost + 1
    /\ Goes(w, "deleting")
    /\ \/ UNCHANGED <<request, doubted>>
       \/ Holds(w) /\ request' = Published(w) /\ doubted' = doubted \cup {KeyOf(w)}
    /\ UNCHANGED <<objects, left>>
    /\ AtWork

\* A deletion that throws here is tried again as that of a failure.
Discard(w) ==
    /\ worker[w].phase = "discarding"
    /\ \/ /\ objects' = objects \ {KeyOf(w)}
          /\ worker' = [worker EXCEPT ![w] = Idle]
          /\ UNCHANGED lost
       \/ /\ lost < MaxLost
          /\ lost' = lost + 1
          /\ Goes(w, "deleting")
          /\ UNCHANGED objects
    /\ UNCHANGED <<request, left, doubted>>
    /\ AtWork

SafelyDelete(w) ==
    /\ worker[w].phase = "deleting"
    /\ Goes(w, "failing")
    /\ \/ objects' = objects \ {KeyOf(w)} /\ UNCHANGED <<lost, left>>
       \/ /\ lost < MaxLost
          /\ lost' = lost + 1
          /\ left' = left \cup {KeyOf(w)}
          /\ UNCHANGED objects
    /\ UNCHANGED <<request, doubted>>
    /\ AtWork

Fail(w) ==
    /\ worker[w].phase = "failing"
    /\ worker' = [worker EXCEPT ![w] = Idle]
    /\ request' = IF Holds(w) THEN [request EXCEPT !.status = "FAILED", !.lease = 0, !.lapsed = FALSE, !.due = FALSE]
                  ELSE request
    /\ UNCHANGED <<objects, lost, left, doubted>>
    /\ AtWork

\* The process dies, or cannot make its directory, or Fail's transaction throws.
Crash(w) ==
    /\ worker[w].phase # "idle"
    /\ lost < MaxLost
    /\ lost' = lost + 1
    /\ left' = left \cup {KeyOf(w)}
    /\ worker' = [worker EXCEPT ![w] = Idle]
    /\ UNCHANGED <<request, objects, doubted>>
    /\ AtWork

-----------------------------------------------------------------------------
(* TenantLifecycleReconciler.cleanupExpired                                 *)

NotCleaning == [phase |-> "idle", key |-> 0]

FindExpired ==
    /\ cleaner.phase = "idle"
    /\ request.status = "EXPORT_READY"
    /\ request.key # 0
    /\ request.over
    /\ cleaner' = [phase |-> "deleting", key |-> request.key]
    /\ UNCHANGED <<request, objects>>

DeleteExpired ==
    /\ cleaner.phase = "deleting"
    /\ objects' = objects \ {cleaner.key}
    /\ cleaner' = [cleaner EXCEPT !.phase = "clearing"]
    /\ UNCHANGED request

\* Only while it still is what was read.
Clear ==
    /\ cleaner.phase = "clearing"
    /\ cleaner' = NotCleaning
    /\ request' = IF request.status = "EXPORT_READY" /\ request.key = cleaner.key
                  THEN [request EXCEPT !.key = 0, !.over = FALSE]
                  ELSE request
    /\ UNCHANGED objects

\* A call throws, or the process dies: the next cleanup finds it again.
CleanupFails ==
    /\ cleaner.phase # "idle"
    /\ cleaner' = NotCleaning
    /\ UNCHANGED <<request, objects>>

Cleanup ==
    /\ FindExpired \/ DeleteExpired \/ Clear \/ CleanupFails
    /\ UNCHANGED <<worker, claims, lost, left, doubted>>

-----------------------------------------------------------------------------
Init ==
    /\ request = NoRequest
    /\ objects = {}
    /\ worker = [w \in Workers |-> Idle]
    /\ cleaner = NotCleaning
    /\ claims = 0
    /\ lost = 0
    /\ left = {}
    /\ doubted = {}

WorkerStep(w) ==
    \/ Claim(w) \/ Write(w) \/ Upload(w) \/ Verify(w)
    \/ Publish(w) \/ PublishNothing(w) \/ PublishThrows(w)
    \/ Discard(w) \/ SafelyDelete(w) \/ Fail(w) \/ Crash(w)

Next == Row \/ Cleanup \/ \E w \in Workers : WorkerStep(w)

Spec == Init /\ [][Next]_vars

-----------------------------------------------------------------------------
(* Properties                                                               *)

TypeOK ==
    /\ request \in Request
    /\ objects \subseteq Keys
    /\ worker \in [Workers -> Work]
    /\ cleaner \in [phase : {"idle", "deleting", "clearing"}, key : Keys]
    /\ claims \in Keys
    /\ lost \in 0..MaxLost
    /\ left \subseteq Keys
    /\ doubted \subseteq Keys

\* Every archive in the storage will be deleted: the cleanup will find it, or some
\* process still is to publish or delete it.  There are two ways to be left there
\* for ever: a process or a call was lost around the upload or the deletion, or
\* the request was cancelled when its archive was ready, which keeps the key
\* although the cleanup looks for EXPORT_READY only.
WillBeCleaned(k) == k = request.key /\ request.status = "EXPORT_READY"
KeptByCancel(k) == k = request.key /\ request.status = "CANCELLED"
InHand(k) ==
    \E w \in Workers : /\ KeyOf(w) = k
                       /\ worker[w].phase \in {"verifying", "publishing", "discarding", "deleting"}
ObjectsAreAccountedFor ==
    \A k \in objects : WillBeCleaned(k) \/ InHand(k) \/ k \in left \/ KeptByCancel(k)

\* "The artifact lives for 7 days, after which the cleanup deletes the file": the
\* cleanup will find the archive that the request names, once its days are over.
ArchiveIsCleaned == request.key \in objects => WillBeCleaned(request.key)

\* What reads EXPORT_READY and has not expired can be downloaded, whatever other
\* workers of the request and the cleanup do, unless a publication was doubted.
ReadyIsDownloadable ==
    (request.status = "EXPORT_READY" /\ request.key # 0 /\ ~request.over) =>
        request.key \in objects \cup doubted

\* A request is published once: no late worker replaces its archive or brings
\* back what was cancelled or cleaned up.
PublishedStays ==
    request.status \in {"EXPORT_READY", "CANCELLED"} =>
        /\ request'.status \in {request.status, "CANCELLED"}
        /\ request'.key \in {request.key, 0}
=============================================================================
