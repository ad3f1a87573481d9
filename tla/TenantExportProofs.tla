-------------------------- MODULE TenantExportProofs --------------------------
(***************************************************************************)
(* Proofs about TenantExport, for all workers, claims and lost processes.   *)
(***************************************************************************)
EXTENDS TenantExport, TLAPS

\* The bounds are numbers.
Bounds == MaxClaims \in Nat /\ MaxLost \in Nat

-----------------------------------------------------------------------------
(* The inductive invariant                                                  *)

Live(w) == worker[w].phase # "idle"

\* Until a worker is to publish, or to delete what it could not publish, the key
\* of its archive is its own: neither the request nor the cleanup has it.
Unpublished == {"writing", "uploading", "verifying", "publishing", "discarding"}
WorkerFits(w) ==
    Live(w) =>
        /\ worker[w].lease > 0 /\ worker[w].lease <= claims
        /\ worker[w].phase \in Unpublished => worker[w].lease # request.key
        /\ (worker[w].phase \in Unpublished /\ cleaner.phase # "idle") => worker[w].lease # cleaner.key
        /\ worker[w].phase = "deleting" => worker[w].lease # request.key \/ worker[w].lease \in doubted
        /\ worker[w].phase \in {"verifying", "publishing"} => worker[w].lease \in objects

LeasesAreOnes == \A w, v \in Workers : (w # v /\ Live(w) /\ Live(v)) => worker[w].lease # worker[v].lease

\* A request that has an archive is not exported again.
RequestFits ==
    /\ request.key <= claims
    /\ request.key # 0 => request.status \in {"EXPORT_READY", "CANCELLED"}

\* The cleanup deletes what has expired, and forgets the key of what is gone.
CleanerFits ==
    cleaner.phase # "idle" =>
        /\ cleaner.key <= claims
        /\ cleaner.key = request.key => request.over
        /\ cleaner.phase = "clearing" => cleaner.key \notin objects

\* 0 is no lease, and no object's key.
ObjectsFit == 0 \notin objects

\* An object's key is the request's, or in a worker's hand, or was left.
KeysAreKnown ==
    \A k \in objects :
        \/ k = request.key
        \/ k \in left
        \/ \E w \in Workers : /\ KeyOf(w) = k
                              /\ worker[w].phase \in {"verifying", "publishing", "discarding", "deleting"}

IInv ==
    /\ TypeOK
    /\ \A w \in Workers : WorkerFits(w)
    /\ LeasesAreOnes /\ RequestFits /\ CleanerFits /\ ObjectsFit
    /\ KeysAreKnown /\ ReadyIsDownloadable

-----------------------------------------------------------------------------
(* Steps of one process                                                     *)

Phases == {"idle", "writing", "uploading", "verifying", "publishing", "discarding", "deleting", "failing"}
HasObject == {"verifying", "publishing", "discarding", "deleting"}

LEMMA WorkerGoes ==
    ASSUME TypeOK, NEW w \in Workers, NEW phase \in Phases, Goes(w, phase)
    PROVE  /\ worker' \in [Workers -> Work] /\ \A v \in Workers \ {w} : worker'[v] = worker[v]
           /\ worker'[w].phase = phase /\ worker'[w].lease = worker[w].lease
<1>1. worker' = [worker EXCEPT ![w] = [worker[w] EXCEPT !.phase = phase]] /\ worker[w] \in Work
    BY DEF Goes, TypeOK
<1>2. [worker[w] EXCEPT !.phase = phase] \in Work
    BY <1>1 DEF Work, Phases
<1>. QED
    BY <1>1, <1>2 DEF TypeOK, Work

LEMMA WorkerRests ==
    ASSUME Bounds, TypeOK, NEW w \in Workers, worker' = [worker EXCEPT ![w] = Idle]
    PROVE  /\ worker' \in [Workers -> Work] /\ \A v \in Workers \ {w} : worker'[v] = worker[v]
           /\ worker'[w].phase = "idle"
<1>1. Idle \in Work
    BY DEF Idle, Work, Keys, Bounds
<1>. QED
    BY <1>1 DEF TypeOK, Idle

\* A process may add and delete its own object alone, and is accountable for it.
LEMMA WorkerMoves ==
    ASSUME Bounds, IInv, NEW w \in Workers, Live(w),
           worker' \in [Workers -> Work], \A v \in Workers \ {w} : worker'[v] = worker[v],
           worker'[w].phase = "idle" \/ worker'[w].lease = worker[w].lease,
           UNCHANGED <<request, cleaner, claims, doubted>>, lost' \in 0..MaxLost,
           left' = left \/ left' = left \cup {worker[w].lease},
           objects' \in {objects, objects \cup {worker[w].lease}, objects \ {worker[w].lease}},
           WorkerFits(w)',
           worker[w].lease \in objects' =>
               \/ worker[w].lease = request.key \/ worker[w].lease \in left'
               \/ worker'[w].phase \in HasObject,
           worker[w].lease \in objects \ objects' => worker[w].lease # request.key \/ worker[w].lease \in doubted,
           worker[w].lease \in objects' \ objects =>
               worker[w].phase \in Unpublished
    PROVE  IInv'
<1>. PICK k : k = worker[w].lease
    OBVIOUS
<1>1. TypeOK /\ k \in Keys /\ WorkerFits(w)
    BY DEF IInv, TypeOK, Work
<1>2. TypeOK'
    BY <1>1 DEF TypeOK
<1>3. ASSUME NEW v \in Workers, v # w
      PROVE  WorkerFits(v)' /\ (Live(v) => worker[v].lease # k)
  <2>1. WorkerFits(v) /\ worker'[v] = worker[v] /\ (Live(v) => worker[v].lease # k)
      BY <1>3 DEF IInv, LeasesAreOnes
  <2>. QED
      BY <1>1, <2>1 DEF WorkerFits, Live
<1>4. LeasesAreOnes'
    BY <1>3 DEF LeasesAreOnes, Live, IInv
<1>5. RequestFits' /\ CleanerFits'
    BY <1>1 DEF IInv, RequestFits, CleanerFits, WorkerFits
<1>6. KeysAreKnown'
  <2>. SUFFICES ASSUME NEW j \in objects'
                PROVE  \/ j = request.key \/ j \in left'
                       \/ \E v \in Workers : worker'[v].lease = j /\ worker'[v].phase \in HasObject
      BY DEF KeysAreKnown, KeyOf, HasObject
  <2>1. CASE j = k
      BY <2>1 DEF HasObject
  <2>2. CASE j # k
    <3>1. j \in objects
        BY <2>2
    <3>2. \/ j = request.key \/ j \in left
          \/ \E v \in Workers : worker[v].lease = j /\ worker[v].phase \in HasObject
        BY <3>1 DEF IInv, KeysAreKnown, KeyOf, HasObject
    <3>. QED
        BY <2>2, <3>2
  <2>. QED
      BY <2>1, <2>2
<1>7. ReadyIsDownloadable' /\ ObjectsFit'
    BY <1>1 DEF IInv, ReadyIsDownloadable, ObjectsFit, WorkerFits
<1>. QED
    BY <1>1, <1>2, <1>3, <1>4, <1>5, <1>6, <1>7 DEF IInv

\* Writing, verifying, a publication that finds the request taken: no object moves.
Onward == {<<"writing", "uploading">>, <<"writing", "failing">>, <<"verifying", "publishing">>,
           <<"verifying", "deleting">>, <<"publishing", "discarding">>}

LEMMA OnwardStep ==
    ASSUME Bounds, IInv, NEW w \in Workers, NEW phase, Goes(w, phase), <<worker[w].phase, phase>> \in Onward,
           UNCHANGED <<request, objects, lost, left, doubted, cleaner, claims>>
    PROVE  IInv'
<1>1. TypeOK /\ WorkerFits(w) /\ worker[w] \in Work
    BY DEF IInv, TypeOK
<1>2. phase \in Phases \ {"idle"}
    BY DEF Onward, Phases
<1>4. /\ worker' \in [Workers -> Work] /\ \A v \in Workers \ {w} : worker'[v] = worker[v]
      /\ worker'[w].phase = phase /\ worker'[w].lease = worker[w].lease
    BY <1>1, <1>2, WorkerGoes
<1>5. Live(w) /\ WorkerFits(w)'
    BY <1>1, <1>2, <1>4 DEF WorkerFits, Live, Unpublished, Onward
<1>6. (worker[w].lease \in objects /\ worker[w].phase = "writing") =>
        worker[w].lease = request.key \/ worker[w].lease \in left
  <2>. SUFFICES ASSUME worker[w].lease \in objects, worker[w].phase = "writing"
                PROVE  worker[w].lease = request.key \/ worker[w].lease \in left
      OBVIOUS
  <2>1. ~ \E v \in Workers : worker[v].lease = worker[w].lease /\ worker[v].phase \in HasObject
      BY DEF IInv, LeasesAreOnes, HasObject, Live
  <2>. QED
      BY <2>1 DEF IInv, KeysAreKnown, KeyOf, HasObject
<1>7. lost' \in 0..MaxLost
    BY <1>1 DEF TypeOK
<1>. QED
    BY <1>2, <1>4, <1>5, <1>6, <1>7, WorkerMoves DEF HasObject, Onward

LEMMA SimpleSteps ==
    ASSUME Bounds, IInv, NEW w \in Workers, Write(w) \/ Verify(w) \/ PublishNothing(w)
    PROVE  IInv'
<1>1. UNCHANGED <<request, objects, lost, left, doubted, cleaner, claims>>
    BY DEF Write, Verify, PublishNothing, AtWork
<1>2. \E phase \in Phases : Goes(w, phase) /\ <<worker[w].phase, phase>> \in Onward
    BY DEF Write, Verify, PublishNothing, Onward, Phases
<1>. QED
    BY <1>1, <1>2, OnwardStep

LEMMA UploadStep ==
    ASSUME Bounds, IInv, NEW w \in Workers, Upload(w)
    PROVE  IInv'
<1>. PICK k : k = worker[w].lease
    OBVIOUS
<1>1. /\ TypeOK /\ WorkerFits(w) /\ worker[w].phase = "uploading" /\ Live(w)
      /\ UNCHANGED <<request, doubted, cleaner, claims>> /\ lost \in 0..MaxLost
    BY DEF IInv, TypeOK, Upload, AtWork, Live
<1>2. PICK phase \in {"verifying", "failing"} : Goes(w, phase)
    BY DEF Upload
<1>3. /\ worker' \in [Workers -> Work] /\ \A v \in Workers \ {w} : worker'[v] = worker[v]
      /\ worker'[w].phase = phase /\ worker'[w].lease = k
    BY <1>1, <1>2, WorkerGoes DEF Phases
<1>4. k \in objects => k = request.key \/ k \in left
  <2>1. ~ \E v \in Workers : worker[v].lease = k /\ worker[v].phase \in HasObject
      BY <1>1 DEF IInv, LeasesAreOnes, HasObject, Live
  <2>. QED
      BY <2>1 DEF IInv, KeysAreKnown, KeyOf, HasObject
<1>5. \/ phase = "verifying" /\ objects' = objects \cup {k} /\ lost' = lost /\ left' = left
      \/ phase = "failing" /\ objects' = objects /\ lost' = lost /\ left' = left
      \/ /\ phase = "failing" /\ objects' = objects \cup {k} /\ lost < MaxLost
         /\ lost' = lost + 1 /\ left' = left \cup {k}
  <2>1. \A p \in Phases : Goes(w, p) => p = phase
      BY <1>1, <1>3, WorkerGoes
  <2>. QED
      BY <2>1 DEF Upload, KeyOf, Phases
<1>6. lost' \in 0..MaxLost
    BY <1>1, <1>5 DEF Bounds
<1>7. WorkerFits(w)'
    BY <1>1, <1>3, <1>5 DEF WorkerFits, Live, Unpublished
<1>. QED
    BY <1>1, <1>3, <1>4, <1>5, <1>6, <1>7, WorkerMoves DEF HasObject, Unpublished

LEMMA DiscardStep ==
    ASSUME Bounds, IInv, NEW w \in Workers, Discard(w)
    PROVE  IInv'
<1>. PICK k : k = worker[w].lease
    OBVIOUS
<1>1. /\ TypeOK /\ WorkerFits(w) /\ worker[w].phase = "discarding" /\ Live(w) /\ lost \in 0..MaxLost
      /\ UNCHANGED <<request, doubted, cleaner, claims, left>>
    BY DEF IInv, TypeOK, Discard, AtWork, Live
<1>2. CASE objects' = objects \ {k} /\ worker' = [worker EXCEPT ![w] = Idle] /\ lost' = lost
  <2>1. /\ worker' \in [Workers -> Work] /\ \A v \in Workers \ {w} : worker'[v] = worker[v]
        /\ worker'[w].phase = "idle"
      BY <1>1, <1>2, WorkerRests
  <2>2. WorkerFits(w)' /\ k # request.key
      BY <1>1, <2>1 DEF WorkerFits, Live, Unpublished
  <2>. QED
      BY <1>1, <1>2, <2>1, <2>2, WorkerMoves
<1>3. CASE Goes(w, "deleting") /\ lost < MaxLost /\ lost' = lost + 1 /\ objects' = objects
  <2>1. /\ worker' \in [Workers -> Work] /\ \A v \in Workers \ {w} : worker'[v] = worker[v]
        /\ worker'[w].phase = "deleting" /\ worker'[w].lease = k
      BY <1>1, <1>3, WorkerGoes DEF Phases
  <2>2. WorkerFits(w)'
      BY <1>1, <2>1 DEF WorkerFits, Live, Unpublished
  <2>3. lost' \in 0..MaxLost
      BY <1>1, <1>3 DEF Bounds
  <2>. QED
      BY <1>1, <1>3, <2>1, <2>2, <2>3, WorkerMoves DEF HasObject
<1>. QED
    BY <1>2, <1>3 DEF Discard, KeyOf

LEMMA SafelyDeleteStep ==
    ASSUME Bounds, IInv, NEW w \in Workers, SafelyDelete(w)
    PROVE  IInv'
<1>. PICK k : k = worker[w].lease
    OBVIOUS
<1>1. /\ TypeOK /\ WorkerFits(w) /\ worker[w].phase = "deleting" /\ Live(w) /\ lost \in 0..MaxLost
      /\ UNCHANGED <<request, doubted, cleaner, claims>> /\ Goes(w, "failing")
    BY DEF IInv, TypeOK, SafelyDelete, AtWork, Live
<1>2. /\ worker' \in [Workers -> Work] /\ \A v \in Workers \ {w} : worker'[v] = worker[v]
      /\ worker'[w].phase = "failing" /\ worker'[w].lease = k
    BY <1>1, WorkerGoes DEF Phases
<1>3. WorkerFits(w)'
    BY <1>1, <1>2 DEF WorkerFits, Live, Unpublished
<1>4. \/ objects' = objects \ {k} /\ lost' = lost /\ left' = left
      \/ lost < MaxLost /\ lost' = lost + 1 /\ left' = left \cup {k} /\ objects' = objects
    BY DEF SafelyDelete, KeyOf
<1>5. lost' \in 0..MaxLost
    BY <1>1, <1>4 DEF Bounds
<1>6. k # request.key \/ k \in doubted
    BY <1>1 DEF WorkerFits
<1>. QED
    BY <1>1, <1>2, <1>3, <1>4, <1>5, <1>6, WorkerMoves

LEMMA CrashStep ==
    ASSUME Bounds, IInv, NEW w \in Workers, Crash(w)
    PROVE  IInv'
<1>1. /\ TypeOK /\ Live(w) /\ lost \in 0..MaxLost /\ lost < MaxLost /\ lost' = lost + 1
      /\ UNCHANGED <<request, objects, doubted, cleaner, claims>> /\ worker' = [worker EXCEPT ![w] = Idle]
      /\ left' = left \cup {worker[w].lease}
    BY DEF IInv, TypeOK, Crash, AtWork, Live, KeyOf
<1>2. /\ worker' \in [Workers -> Work] /\ \A v \in Workers \ {w} : worker'[v] = worker[v]
      /\ worker'[w].phase = "idle"
    BY <1>1, WorkerRests
<1>3. WorkerFits(w)'
    BY <1>2 DEF WorkerFits, Live
<1>4. lost' \in 0..MaxLost
    BY <1>1 DEF Bounds
<1>. QED
    BY <1>1, <1>2, <1>3, <1>4, WorkerMoves

\* A new lease, and with it a new key: nobody has it yet.
LEMMA ClaimStep ==
    ASSUME Bounds, IInv, NEW w \in Workers, Claim(w)
    PROVE  IInv'
<1>1. TypeOK /\ RequestFits /\ CleanerFits /\ claims \in Keys /\ claims < MaxClaims /\ claims' = claims + 1
    BY DEF IInv, TypeOK, Claim
<1>2. claims + 1 \in Keys /\ claims \in Nat
    BY <1>1 DEF Keys, Bounds
<1>. PICK new : new = [phase |-> "writing", lease |-> claims + 1]
    OBVIOUS
<1>3. /\ new \in Work /\ new.phase = "writing" /\ new.lease = claims + 1
    BY <1>2 DEF Work
<1>4. worker' = [worker EXCEPT ![w] = new] /\ UNCHANGED <<objects, cleaner, lost, left, doubted>>
    BY DEF Claim
<1>5. /\ worker' \in [Workers -> Work] /\ worker'[w] = new /\ \A v \in Workers \ {w} : worker'[v] = worker[v]
    BY <1>1, <1>3, <1>4 DEF TypeOK
<1>6. request' = [request EXCEPT !.status = "EXPORTING", !.lease = claims + 1, !.lapsed = FALSE]
    BY DEF Claim
<1>7. /\ request' \in Request /\ request'.status = "EXPORTING" /\ request'.key = request.key
      /\ request'.over = request.over
    BY <1>1, <1>2, <1>6 DEF TypeOK, Request
<1>8. TypeOK'
    BY <1>1, <1>2, <1>4, <1>5, <1>7 DEF TypeOK
<1>9. request.key = 0
    BY <1>1 DEF RequestFits, Claim, Claimable
<1>10. WorkerFits(w)'
  <2>1. cleaner.phase # "idle" => cleaner.key \in Nat /\ cleaner.key <= claims
      BY <1>1 DEF CleanerFits, TypeOK, Keys
  <2>. QED
      BY <1>1, <1>2, <1>3, <1>4, <1>5, <1>7, <1>9, <2>1 DEF WorkerFits, Unpublished
<1>11. ASSUME NEW v \in Workers, v # w
       PROVE  WorkerFits(v)' /\ (Live(v) => worker[v].lease # claims + 1)
  <2>1. WorkerFits(v) /\ worker'[v] = worker[v] /\ worker[v].lease \in Nat
      BY <1>1, <1>5, <1>11 DEF IInv, TypeOK, Work, Keys
  <2>. QED
      BY <1>1, <1>2, <1>4, <1>7, <2>1 DEF WorkerFits, Live
<1>12. LeasesAreOnes'
    BY <1>3, <1>5, <1>11 DEF IInv, LeasesAreOnes, Live
<1>13. RequestFits' /\ ReadyIsDownloadable' /\ ObjectsFit'
    BY <1>1, <1>2, <1>4, <1>7, <1>9 DEF IInv, RequestFits, ReadyIsDownloadable, ObjectsFit
<1>14. CleanerFits'
  <2>1. cleaner.key \in Nat
      BY <1>1 DEF TypeOK, Keys
  <2>. QED
      BY <1>1, <1>2, <1>4, <1>7, <2>1 DEF CleanerFits
<1>15. KeysAreKnown'
  <2>. SUFFICES ASSUME NEW k \in objects
                PROVE  \/ k = request.key \/ k \in left
                       \/ \E v \in Workers : worker'[v].lease = k /\ worker'[v].phase \in HasObject
      BY <1>4, <1>7 DEF KeysAreKnown, KeyOf, HasObject
  <2>1. \/ k = request.key \/ k \in left
        \/ \E v \in Workers : worker[v].lease = k /\ worker[v].phase \in HasObject
      BY DEF IInv, KeysAreKnown, KeyOf, HasObject
  <2>2. worker[w].phase \notin HasObject
      BY DEF Claim, HasObject
  <2>. QED
      BY <1>5, <2>1, <2>2
<1>. QED
    BY <1>8, <1>10, <1>11, <1>12, <1>13, <1>14, <1>15 DEF IInv

\* The archive is published, and the worker rests or doubts it.
LEMMA Publishes ==
    ASSUME Bounds, IInv, NEW w \in Workers, worker[w].phase = "publishing", Holds(w), request' = Published(w),
           worker' \in [Workers -> Work], \A v \in Workers \ {w} : worker'[v] = worker[v],
           \/ worker'[w].phase = "idle" /\ doubted' = doubted
           \/ /\ worker'[w].phase = "deleting" /\ worker'[w].lease = worker[w].lease
              /\ doubted' = doubted \cup {worker[w].lease},
           UNCHANGED <<objects, left, cleaner, claims>>, lost' \in 0..MaxLost
    PROVE  IInv'
<1>. PICK k : k = worker[w].lease
    OBVIOUS
<1>1. /\ TypeOK /\ WorkerFits(w) /\ RequestFits /\ CleanerFits /\ k \in Keys /\ k \in Nat /\ Live(w)
    BY DEF IInv, TypeOK, Work, Live, Keys
<1>2. request' = [request EXCEPT !.status = "EXPORT_READY", !.key = k, !.over = FALSE, !.lease = 0, !.lapsed = FALSE]
    BY DEF Published, KeyOf
<1>3. 0 \in Keys
    BY DEF Keys, Bounds
<1>4. request' \in Request /\ request'.status = "EXPORT_READY" /\ request'.key = k /\ request'.over = FALSE
    BY <1>1, <1>2, <1>3 DEF TypeOK, Request
<1>5. TypeOK'
    BY <1>1, <1>4 DEF TypeOK
<1>6. k \in objects /\ k <= claims /\ k > 0 /\ request.key = 0 /\ (cleaner.phase # "idle" => k # cleaner.key)
    BY <1>1 DEF WorkerFits, RequestFits, Holds, Unpublished
<1>7. WorkerFits(w)'
    BY <1>1, <1>6 DEF WorkerFits, Live, Unpublished
<1>8. ASSUME NEW v \in Workers, v # w
      PROVE  WorkerFits(v)' /\ (Live(v) => worker[v].lease # k)
  <2>1. WorkerFits(v) /\ worker'[v] = worker[v] /\ (Live(v) => worker[v].lease # k)
      BY <1>1, <1>8 DEF IInv, LeasesAreOnes
  <2>. QED
      BY <1>4, <2>1 DEF WorkerFits, Live
<1>9. LeasesAreOnes'
    BY <1>8 DEF LeasesAreOnes, Live, IInv
<1>10. RequestFits' /\ CleanerFits' /\ ReadyIsDownloadable' /\ ObjectsFit'
    BY <1>1, <1>4, <1>6 DEF IInv, RequestFits, CleanerFits, ReadyIsDownloadable, ObjectsFit
<1>11. KeysAreKnown'
  <2>. SUFFICES ASSUME NEW j \in objects, j # k
                PROVE  \/ j \in left
                       \/ \E v \in Workers : worker'[v].lease = j /\ worker'[v].phase \in HasObject
      BY <1>4 DEF KeysAreKnown, KeyOf, HasObject
  <2>1. \/ j = request.key \/ j \in left
        \/ \E v \in Workers : worker[v].lease = j /\ worker[v].phase \in HasObject
      BY DEF IInv, KeysAreKnown, KeyOf, HasObject
  <2>2. j # request.key
      BY <1>6 DEF IInv, ObjectsFit
  <2>. QED
      BY <2>1, <2>2
<1>. QED
    BY <1>5, <1>7, <1>8, <1>9, <1>10, <1>11 DEF IInv

LEMMA PublishStep ==
    ASSUME Bounds, IInv, NEW w \in Workers, Publish(w)
    PROVE  IInv'
<1>1. /\ worker[w].phase = "publishing" /\ Holds(w) /\ request' = Published(w) /\ TypeOK
      /\ worker' = [worker EXCEPT ![w] = Idle] /\ UNCHANGED <<objects, lost, left, doubted, cleaner, claims>>
    BY DEF Publish, AtWork, IInv
<1>2. /\ worker' \in [Workers -> Work] /\ \A v \in Workers \ {w} : worker'[v] = worker[v]
      /\ worker'[w].phase = "idle" /\ lost' \in 0..MaxLost
    BY <1>1, WorkerRests DEF TypeOK
<1>. QED
    BY <1>1, <1>2, Publishes

LEMMA PublishThrowsStep ==
    ASSUME Bounds, IInv, NEW w \in Workers, PublishThrows(w)
    PROVE  IInv'
<1>1. /\ worker[w].phase = "publishing" /\ TypeOK /\ WorkerFits(w) /\ Live(w)
      /\ lost \in 0..MaxLost /\ lost < MaxLost /\ lost' = lost + 1
      /\ Goes(w, "deleting") /\ UNCHANGED <<objects, left, cleaner, claims>>
    BY DEF PublishThrows, AtWork, IInv, TypeOK, Live
<1>2. /\ worker' \in [Workers -> Work] /\ \A v \in Workers \ {w} : worker'[v] = worker[v]
      /\ worker'[w].phase = "deleting" /\ worker'[w].lease = worker[w].lease
    BY <1>1, WorkerGoes DEF Phases
<1>3. lost' \in 0..MaxLost
    BY <1>1 DEF Bounds
<1>4. CASE UNCHANGED <<request, doubted>>
  <2>1. WorkerFits(w)'
      BY <1>1, <1>2, <1>4 DEF WorkerFits, Live, Unpublished
  <2>. QED
      BY <1>1, <1>2, <1>3, <1>4, <2>1, WorkerMoves DEF HasObject
<1>5. CASE Holds(w) /\ request' = Published(w) /\ doubted' = doubted \cup {worker[w].lease}
    BY <1>1, <1>2, <1>3, <1>5, Publishes
<1>. QED
    BY <1>4, <1>5 DEF PublishThrows, KeyOf

-----------------------------------------------------------------------------
(* Steps of the row and of the cleanup                                      *)

\* The request changes, but not its archive; a worker may fail meanwhile.
LEMMA RequestChanges ==
    ASSUME IInv, request' \in Request, request'.key = request.key, request.over => request'.over,
           request'.status = "EXPORT_READY" => request.status = "EXPORT_READY" /\ (request'.over \/ ~request.over),
           request'.key # 0 => request'.status \in {"EXPORT_READY", "CANCELLED"},
           worker' \in [Workers -> Work],
           \A v \in Workers :
               worker'[v] = worker[v] \/ (worker'[v].phase = "idle" /\ worker[v].phase \notin HasObject),
           UNCHANGED <<objects, cleaner, claims, lost, left, doubted>>
    PROVE  IInv'
<1>1. TypeOK'
    BY DEF IInv, TypeOK
<1>2. ASSUME NEW v \in Workers
      PROVE  WorkerFits(v)' /\ (Live(v)' => worker'[v] = worker[v])
  <2>1. WorkerFits(v)
      BY DEF IInv
  <2>. QED
      BY <2>1 DEF WorkerFits, Live
<1>3. LeasesAreOnes'
    BY <1>2 DEF IInv, LeasesAreOnes, Live
<1>4. RequestFits' /\ CleanerFits' /\ ReadyIsDownloadable' /\ ObjectsFit'
    BY DEF IInv, RequestFits, CleanerFits, ReadyIsDownloadable, ObjectsFit
<1>5. KeysAreKnown'
  <2>. SUFFICES ASSUME NEW j \in objects
                PROVE  \/ j = request.key \/ j \in left
                       \/ \E v \in Workers : worker'[v].lease = j /\ worker'[v].phase \in HasObject
      BY DEF KeysAreKnown, KeyOf, HasObject
  <2>1. \/ j = request.key \/ j \in left
        \/ \E v \in Workers : worker[v].lease = j /\ worker[v].phase \in HasObject
      BY DEF IInv, KeysAreKnown, KeyOf, HasObject
  <2>. QED
      BY <2>1
<1>. QED
    BY <1>1, <1>2, <1>3, <1>4, <1>5 DEF IInv

LEMMA FailStep ==
    ASSUME Bounds, IInv, NEW w \in Workers, Fail(w)
    PROVE  IInv'
<1>1. /\ worker[w].phase = "failing" /\ TypeOK /\ RequestFits /\ request \in Request
      /\ worker' = [worker EXCEPT ![w] = Idle] /\ UNCHANGED <<objects, lost, left, doubted, cleaner, claims>>
    BY DEF Fail, AtWork, IInv, TypeOK
<1>2. /\ worker' \in [Workers -> Work] /\ \A v \in Workers \ {w} : worker'[v] = worker[v]
      /\ worker'[w].phase = "idle"
    BY <1>1, WorkerRests
<1>3. 0 \in Keys
    BY DEF Keys, Bounds
<1>4. /\ request' \in Request /\ request'.key = request.key /\ request'.over = request.over
      /\ request' = request \/ (request'.status = "FAILED" /\ Holds(w))
    BY <1>1, <1>3 DEF Fail, Request
<1>5. request'.key # 0 => request'.status \in {"EXPORT_READY", "CANCELLED"}
    BY <1>1, <1>4 DEF RequestFits, Holds
<1>. QED
    BY <1>1, <1>2, <1>4, <1>5, RequestChanges DEF HasObject

LEMMA RowStep ==
    ASSUME Bounds, IInv, Row
    PROVE  IInv'
<1>1. /\ TypeOK /\ RequestFits /\ request \in Request
      /\ worker' \in [Workers -> Work] /\ UNCHANGED <<objects, worker, cleaner, claims, lost, left, doubted>>
    BY DEF Row, IInv, TypeOK
<1>2. 0 \in Keys
    BY DEF Keys, Bounds
<1>3. CASE Create
  <2>1. request' = [request EXCEPT !.status = "REQUESTED", !.due = TRUE] /\ request.key = 0 /\ request.over = FALSE
      BY <1>3 DEF Create, NoRequest
  <2>2. /\ request' \in Request /\ request'.key = request.key /\ request'.over = request.over
        /\ request'.status = "REQUESTED"
      BY <1>1, <2>1 DEF Request
  <2>. QED
      BY <1>1, <2>1, <2>2, RequestChanges
<1>4. CASE Cancel
  <2>1. request' = [request EXCEPT !.status = "CANCELLED", !.lease = 0, !.lapsed = FALSE]
      BY <1>4 DEF Cancel
  <2>2. /\ request' \in Request /\ request'.key = request.key /\ request'.over = request.over
        /\ request'.status = "CANCELLED"
      BY <1>1, <1>2, <2>1 DEF Request
  <2>. QED
      BY <1>1, <2>2, RequestChanges
<1>5. CASE Retry
  <2>1. request' = [request EXCEPT !.status = "REQUESTED", !.due = TRUE] /\ request.status = "FAILED"
      BY <1>5 DEF Retry
  <2>2. /\ request' \in Request /\ request'.key = request.key /\ request'.over = request.over
        /\ request'.status = "REQUESTED"
      BY <1>1, <2>1 DEF Request
  <2>3. request.key = 0
      BY <1>1, <2>1 DEF RequestFits
  <2>. QED
      BY <1>1, <2>2, <2>3, RequestChanges
<1>6. CASE TimePasses
  <2>1. \/ request' = [request EXCEPT !.due = TRUE]
        \/ request' = [request EXCEPT !.lapsed = TRUE]
        \/ request' = [request EXCEPT !.over = TRUE]
      BY <1>6 DEF TimePasses
  <2>2. /\ request' \in Request /\ request'.key = request.key /\ request'.over \in {request.over, TRUE}
        /\ request'.status = request.status
      BY <1>1, <2>1 DEF Request
  <2>. QED
      BY <1>1, <2>2, RequestChanges DEF RequestFits
<1>. QED
    BY <1>3, <1>4, <1>5, <1>6 DEF Row

\* The key that is forgotten is that of an object that is gone.
LEMMA CleanupStep ==
    ASSUME Bounds, IInv, Cleanup
    PROVE  IInv'
<1>1. /\ TypeOK /\ RequestFits /\ CleanerFits /\ ObjectsFit /\ request \in Request
      /\ cleaner \in [phase : {"idle", "deleting", "clearing"}, key : Keys]
      /\ UNCHANGED <<worker, claims, lost, left, doubted>>
    BY DEF Cleanup, IInv, TypeOK
<1>2. NotCleaning \in [phase : {"idle", "deleting", "clearing"}, key : Keys] /\ NotCleaning.phase = "idle" /\ 0 \in Keys
    BY DEF NotCleaning, Keys, Bounds
<1>3. LeasesAreOnes'
    BY <1>1 DEF IInv, LeasesAreOnes, Live
<1>4. CASE FindExpired
  <2>1. /\ request.over /\ request.key # 0 /\ cleaner' = [phase |-> "deleting", key |-> request.key]
        /\ UNCHANGED <<request, objects>>
      BY <1>4 DEF FindExpired
  <2>2. cleaner'.phase = "deleting" /\ cleaner'.key = request.key /\ TypeOK'
      BY <1>1, <2>1 DEF TypeOK, Request
  <2>3. \A w \in Workers : WorkerFits(w)'
      BY <1>1, <2>1, <2>2 DEF IInv, WorkerFits, Live, Unpublished
  <2>4. RequestFits' /\ CleanerFits' /\ ObjectsFit' /\ KeysAreKnown' /\ ReadyIsDownloadable'
      BY <1>1, <2>1, <2>2
         DEF IInv, RequestFits, CleanerFits, ObjectsFit, KeysAreKnown, ReadyIsDownloadable, KeyOf
  <2>. QED
      BY <1>3, <2>2, <2>3, <2>4 DEF IInv
<1>5. CASE DeleteExpired
  <2>1. /\ cleaner.phase = "deleting" /\ objects' = objects \ {cleaner.key} /\ request' = request
        /\ cleaner' = [cleaner EXCEPT !.phase = "clearing"]
      BY <1>5 DEF DeleteExpired
  <2>2. cleaner'.phase = "clearing" /\ cleaner'.key = cleaner.key /\ TypeOK'
      BY <1>1, <2>1 DEF TypeOK
  <2>3. \A w \in Workers : WorkerFits(w)'
      BY <1>1, <2>1, <2>2 DEF IInv, WorkerFits, Live, Unpublished
  <2>4. RequestFits' /\ CleanerFits' /\ ObjectsFit' /\ KeysAreKnown' /\ ReadyIsDownloadable'
      BY <1>1, <2>1, <2>2
         DEF IInv, RequestFits, CleanerFits, ObjectsFit, KeysAreKnown, ReadyIsDownloadable, KeyOf
  <2>. QED
      BY <1>3, <2>2, <2>3, <2>4 DEF IInv
<1>6. CASE CleanupFails \/ (Clear /\ request' = request)
  <2>1. cleaner' = NotCleaning /\ UNCHANGED <<request, objects>>
      BY <1>6 DEF CleanupFails, Clear
  <2>2. TypeOK' /\ cleaner'.phase = "idle"
      BY <1>1, <1>2, <2>1 DEF TypeOK
  <2>3. \A w \in Workers : WorkerFits(w)'
      BY <1>1, <2>1, <2>2 DEF IInv, WorkerFits, Live
  <2>4. RequestFits' /\ CleanerFits' /\ ObjectsFit' /\ KeysAreKnown' /\ ReadyIsDownloadable'
      BY <1>1, <2>1, <2>2
         DEF IInv, RequestFits, CleanerFits, ObjectsFit, KeysAreKnown, ReadyIsDownloadable, KeyOf
  <2>. QED
      BY <1>3, <2>2, <2>3, <2>4 DEF IInv
<1>7. CASE Clear /\ request' # request
  <2>1. /\ cleaner.phase = "clearing" /\ cleaner' = NotCleaning /\ objects' = objects
        /\ request.key = cleaner.key /\ request' = [request EXCEPT !.key = 0, !.over = FALSE]
      BY <1>7 DEF Clear
  <2>2. TypeOK' /\ cleaner'.phase = "idle" /\ request'.key = 0
      BY <1>1, <1>2, <2>1 DEF TypeOK, Request
  <2>3. request.key \notin objects
      BY <1>1, <2>1 DEF CleanerFits
  <2>4. \A w \in Workers : WorkerFits(w)'
      BY <1>1, <2>1, <2>2 DEF IInv, WorkerFits, Live
  <2>5. RequestFits' /\ CleanerFits' /\ ObjectsFit' /\ KeysAreKnown' /\ ReadyIsDownloadable'
    <3>1. 0 <= claims
        BY <1>1 DEF TypeOK, Keys
    <3>. QED
        BY <1>1, <2>1, <2>2, <2>3, <3>1
           DEF IInv, RequestFits, CleanerFits, ObjectsFit, KeysAreKnown, ReadyIsDownloadable, KeyOf
  <2>. QED
      BY <1>3, <2>2, <2>4, <2>5 DEF IInv
<1>. QED
    BY <1>4, <1>5, <1>6, <1>7 DEF Cleanup

-----------------------------------------------------------------------------
(* The theorems                                                             *)

LEMMA InitInv ==
    ASSUME Bounds, Init
    PROVE  IInv
<1>1. 0 \in Keys /\ 0 \in 0..MaxLost
    BY DEF Keys, Bounds
<1>2. TypeOK
    BY <1>1 DEF Init, TypeOK, NoRequest, Request, Idle, Work, NotCleaning
<1>3. \A w \in Workers : ~Live(w)
    BY DEF Init, Idle, Live
<1>4. \A w \in Workers : WorkerFits(w)
    BY <1>3 DEF WorkerFits
<1>5. LeasesAreOnes
    BY <1>3 DEF LeasesAreOnes
<1>6. RequestFits /\ CleanerFits /\ ObjectsFit /\ KeysAreKnown /\ ReadyIsDownloadable
    BY DEF Init, RequestFits, CleanerFits, ObjectsFit, KeysAreKnown, ReadyIsDownloadable, NoRequest, NotCleaning
<1>. QED
    BY <1>2, <1>4, <1>5, <1>6 DEF IInv

LEMMA NextInv ==
    ASSUME Bounds, IInv, [Next]_vars
    PROVE  IInv'
<1>1. ASSUME NEW w \in Workers, WorkerStep(w)
      PROVE  IInv'
    BY <1>1, SimpleSteps, UploadStep, PublishStep, PublishThrowsStep, DiscardStep, SafelyDeleteStep,
       FailStep, CrashStep, ClaimStep DEF WorkerStep
<1>2. CASE UNCHANGED vars
  <2>1. request' = request /\ worker' = worker /\ UNCHANGED <<objects, cleaner, claims, lost, left, doubted>>
      BY <1>2 DEF vars
  <2>2. request' \in Request /\ worker' \in [Workers -> Work] /\ RequestFits
      BY <2>1 DEF IInv, TypeOK
  <2>. QED
      BY <2>1, <2>2, RequestChanges DEF RequestFits
<1>. QED
    BY <1>1, <1>2, RowStep, CleanupStep DEF Next

LEMMA Invariant ==
    ASSUME Bounds
    PROVE  Spec => []IInv
<1>1. Init => IInv
    BY InitInv
<1>2. IInv /\ [Next]_vars => IInv'
    BY NextInv
<1>. QED
    BY <1>1, <1>2, PTL DEF Spec

\* Every field keeps its type and every bound is kept.
THEOREM TypeCorrect ==
    ASSUME Bounds
    PROVE  Spec => []TypeOK
<1>1. IInv => TypeOK
    BY DEF IInv
<1>. QED
    BY <1>1, Invariant, PTL

\* Every archive in the storage will be found by the cleanup, or a worker of
\* TenantLifecycleProcessor has its key in hand, unless a process died or a call
\* failed around it, or its request was cancelled when it was ready.
THEOREM ArchivesAreKnown ==
    ASSUME Bounds
    PROVE  Spec => []ObjectsAreAccountedFor
<1>1. IInv => ObjectsAreAccountedFor
  <2>. SUFFICES ASSUME IInv, NEW k \in objects
                PROVE  WillBeCleaned(k) \/ InHand(k) \/ k \in left \/ KeptByCancel(k)
      BY DEF ObjectsAreAccountedFor
  <2>1. k # 0 /\ (k = request.key \/ k \in left \/ InHand(k))
      BY DEF IInv, ObjectsFit, KeysAreKnown, InHand
  <2>2. CASE k = request.key
      BY <2>1, <2>2 DEF IInv, RequestFits, WillBeCleaned, KeptByCancel
  <2>. QED
      BY <2>1, <2>2
<1>. QED
    BY <1>1, Invariant, PTL

\* What reads EXPORT_READY can be downloaded, whatever late workers and the
\* cleanup delete, unless its publication was doubted.
THEOREM ReadyArchivesExist ==
    ASSUME Bounds
    PROVE  Spec => []ReadyIsDownloadable
<1>1. IInv => ReadyIsDownloadable
    BY DEF IInv
<1>. QED
    BY <1>1, Invariant, PTL

\* What is published or cancelled stays: no late worker replaces the archive or
\* brings back what was cancelled or cleaned up.
THEOREM PublicationsStay ==
    ASSUME Bounds
    PROVE  Spec => [][PublishedStays]_vars
<1>1. IInv /\ [Next]_vars => [PublishedStays]_vars
  <2>. SUFFICES ASSUME IInv, Next, request.status \in {"EXPORT_READY", "CANCELLED"}
                PROVE  request'.status \in {request.status, "CANCELLED"} /\ request'.key \in {request.key, 0}
      BY DEF PublishedStays
  <2>1. request \in Request
      BY DEF IInv, TypeOK
  <2>2. CASE Row
    <3>1. ~Create /\ ~Retry
        BY DEF Create, NoRequest, Retry
    <3>2. Cancel => request'.status = "CANCELLED" /\ request'.key = request.key
        BY <2>1 DEF Cancel, Request
    <3>3. TimePasses => request'.status = request.status /\ request'.key = request.key
        BY <2>1 DEF TimePasses, Request
    <3>. QED
        BY <2>2, <3>1, <3>2, <3>3 DEF Row
  <2>3. CASE Cleanup
      BY <2>1, <2>3 DEF Cleanup, FindExpired, DeleteExpired, Clear, CleanupFails, Request
  <2>4. ASSUME NEW w \in Workers, WorkerStep(w)
        PROVE  request' = request
    <3>1. ~Claim(w) /\ ~Holds(w)
        BY DEF Claim, Claimable, Holds
    <3>. QED
        BY <2>4, <3>1
           DEF WorkerStep, Write, Upload, Verify, Publish, PublishNothing, PublishThrows, Discard, SafelyDelete, Fail, Crash
  <2>. QED
      BY <2>2, <2>3, <2>4 DEF Next
<1>. QED
    BY <1>1, Invariant, PTL DEF Spec
=============================================================================
