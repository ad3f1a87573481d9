---------------------- MODULE UkrposhtaShipmentProofs ----------------------
(***************************************************************************)
(* Proofs about UkrposhtaShipment, for all workers, claims, versions,      *)
(* retries, crashes, outlived leases and freezes; and, at the end, about   *)
(* NovaPoshtaShipment, the shipments of the other carrier.                 *)
(***************************************************************************)
EXTENDS UkrposhtaShipment, FiniteSetTheorems, TLAPS

\* The bounds are numbers; a shipment for which no status is asked has -1.
Bounds == MaxClaims \in Nat /\ MaxVersion \in Int

-----------------------------------------------------------------------------
(* The inductive invariant                                                  *)

\* The marker that a parcel has been asked for is committed.
Marked == shipment.meta.create

Claimed(w) == worker[w].phase \notin {"idle", "read"}
Creating(w) == worker[w].key = Create

\* What each step of a worker is about, and what it knows of the marker.
PhaseFits(w) ==
    /\ worker[w].phase \in {"preparing", "posting", "keeping", "looking"} => Creating(w)
    /\ worker[w].phase \in {"asking", "checking", "deleting"} => worker[w].key[1] = "CANCEL"
    /\ worker[w].phase = "tracking" => worker[w].key[1] = "STATUS_SYNC"
    /\ worker[w].phase = "marking" => worker[w].key[1] # "STATUS_SYNC"
    /\ worker[w].meta.create => Marked
    /\ (worker[w].phase # "idle" /\ ~Creating(w)) => worker[w].meta.create

\* A creation that was read can still be claimed for a first parcel only if
\* nobody can have set the marker meanwhile.
ReadFits(w) ==
    LET c == worker[w].candidate
        a == attempt[Create]
    IN  (worker[w].phase = "read" /\ Creating(w)) =>
        /\ c.status \in {"PENDING", "RETRYABLE", "UNKNOWN", "PROCESSING"}
        /\ c.attempts <= a.attempts
        /\ c.status = "UNKNOWN" => worker[w].meta.create
        /\ (c.status = "PROCESSING" /\ a.status = "PROCESSING" /\ a.attempts = c.attempts) =>
              a.expired /\ (Marked => worker[w].meta.create)

\* The claim's holder prepares, and is to set the marker, only if it is not set.
Prepares(w) ==
    \/ worker[w].phase \in {"preparing", "marking"}
    \/ worker[w].phase = "writing" /\ worker[w].result = "RETRYABLE"
Asked(w) ==
    \/ worker[w].phase \in {"posting", "keeping", "looking"}
    \/ worker[w].phase = "writing" /\ worker[w].result \in {"UNKNOWN", "SUCCEEDED"}
ClaimFits(w) ==
    (Claimed(w) /\ Creating(w)) =>
        /\ worker[w].lease <= attempt[Create].attempts
        /\ (Prepares(w) /\ Owns(w)) => ~Marked
        /\ Asked(w) => worker[w].meta.create
        /\ worker[w].phase = "posting" => waybills = 0

WorkerFits(w) == PhaseFits(w) /\ ReadFits(w) /\ ClaimFits(w)

\* A claim has one holder, and one worker posts.
ClaimsAreOnes ==
    \A w, v \in Workers :
        (w # v /\ Claimed(w) /\ Claimed(v) /\ Creating(w) /\ Creating(v)) =>
            /\ worker[w].lease # worker[v].lease
            /\ ~(worker[w].phase = "posting" /\ worker[v].phase = "posting")

MarkFits ==
    /\ ~Marked => waybills = 0
    /\ waybills <= 1
    /\ attempt[Create].status \in {"NONE", "PENDING", "RETRYABLE"} => ~Marked
    /\ attempt[Create].status = "UNKNOWN" => Marked
    /\ shipment.document => Marked
    /\ shipment.status = "DRAFT" => attempt[Create].status = "NONE"

\* What the carrier has answered.
Known == Moving \cup Terminal
AnswerFits(w) ==
    /\ (worker[w].phase # "idle" /\ ~Creating(w)) => parcel # "NONE"
    /\ worker[w].phase = "keeping" => parcel # "NONE"
    /\ (worker[w].phase # "idle" /\ worker[w].key[1] = "STATUS_SYNC") => worker[w].was \in Moving
    /\ worker[w].phase = "writing" =>
          /\ worker[w].result # "NONE" /\ worker[w].answer # "DRAFT"
          /\ worker[w].result = "CONFLICT" => worker[w].key[1] = "CANCEL"
          /\ worker[w].result = "UNKNOWN" => Creating(w)
          /\ worker[w].result \in {"SUCCEEDED", "CONFLICT"} =>
                /\ worker[w].answer \in Known
                /\ worker[w].answer = "CANCELLED" => parcel = "CANCELLED"
                /\ parcel # "NONE"
          /\ (Creating(w) /\ worker[w].result = "FAILED") => worker[w].answer = "FAILED"
          /\ (Creating(w) /\ worker[w].result \in {"RETRYABLE", "UNKNOWN"}) => worker[w].answer = "CREATING"
ParcelFits ==
    /\ parcel = "NONE" <=> waybills = 0
    /\ shipment.document => parcel # "NONE"
    /\ "CANCELLED" \in seen => parcel = "CANCELLED"
    /\ frozen => freezes > 0

IInv ==
    /\ TypeOK
    /\ \A w \in Workers : WorkerFits(w) /\ AnswerFits(w)
    /\ ClaimsAreOnes
    /\ MarkFits
    /\ ParcelFits
    /\ CreatingHasAttempt
    /\ CancelledIsDeleted

-----------------------------------------------------------------------------
(* Operations and how a worker goes on                                      *)

LEMMA KeyKinds ==
    /\ Create \in Keys /\ Create[1] = "CREATE"
    /\ \A k \in Keys : /\ k[1] = "CREATE" <=> k = Create
                       /\ k[1] \in {"CREATE", "STATUS_SYNC", "CANCEL"}
    /\ \A v \in Versions : /\ Cancel(v) \in Keys /\ Cancel(v)[1] = "CANCEL" /\ Cancel(v) # Create
                           /\ StatusSync(v) \in Keys /\ StatusSync(v)[1] = "STATUS_SYNC" /\ StatusSync(v) # Create
BY DEF Keys, Create, Cancel, StatusSync

LEMMA StatusKinds ==
    /\ Known \subseteq ShipmentStatus /\ "NONE" \notin Known /\ "DRAFT" \notin Known /\ "CREATING" \notin Known
    /\ "FAILED" \in ShipmentStatus /\ "CREATING" \in ShipmentStatus /\ "CANCELLED" \in Known /\ "CREATED" \in Known
    /\ "CANCELLED" \notin Moving /\ Moving \subseteq Known
    /\ Open \subseteq AttemptStatus
BY DEF Known, Moving, Terminal, ShipmentStatus, Open, AttemptStatus

Results == {"NONE", "SUCCEEDED", "RETRYABLE", "UNKNOWN", "FAILED", "CONFLICT"}

\* The fields that a step of a worker for its shipment keeps.
Keeps(w) ==
    /\ worker'[w].key = worker[w].key /\ worker'[w].candidate = worker[w].candidate
    /\ worker'[w].was = worker[w].was /\ worker'[w].version = worker[w].version
    /\ worker'[w].lease = worker[w].lease

LEMMA WorkGoes ==
    ASSUME TypeOK, NEW w \in Workers, NEW phase \in Phase, Goes(w, phase)
    PROVE  /\ worker' \in [Workers -> Work] /\ \A v \in Workers \ {w} : worker'[v] = worker[v]
           /\ worker'[w].phase = phase /\ worker'[w].result = worker[w].result
           /\ worker'[w].answer = worker[w].answer /\ worker'[w].meta = worker[w].meta
           /\ Keeps(w)
<1>1. worker[w] \in Work
    BY DEF TypeOK
<1>2. [worker[w] EXCEPT !.phase = phase] \in Work
    BY <1>1 DEF Work
<1>3. worker' = [worker EXCEPT ![w] = [worker[w] EXCEPT !.phase = phase]]
    BY DEF Goes
<1>. QED
    BY <1>1, <1>2, <1>3 DEF TypeOK, Keeps, Work

LEMMA WorkEnds ==
    ASSUME TypeOK, NEW w \in Workers, NEW result \in Results, NEW answer \in ShipmentStatus, Ends(w, result, answer)
    PROVE  /\ worker' \in [Workers -> Work] /\ \A v \in Workers \ {w} : worker'[v] = worker[v]
           /\ worker'[w].phase = "writing" /\ worker'[w].result = result /\ worker'[w].answer = answer
           /\ worker'[w].meta = worker[w].meta
           /\ Keeps(w)
<1>1. worker[w] \in Work
    BY DEF TypeOK
<1>2. [worker[w] EXCEPT !.phase = "writing", !.result = result, !.answer = answer] \in Work
    BY <1>1 DEF Work, Results, Phase
<1>3. worker' = [worker EXCEPT ![w] = [worker[w] EXCEPT !.phase = "writing", !.result = result, !.answer = answer]]
    BY DEF Ends
<1>. QED
    BY <1>1, <1>2, <1>3 DEF TypeOK, Keeps, Work

LEMMA IdleType ==
    ASSUME Bounds
    PROVE  Idle \in Work
BY KeyKinds DEF Bounds, Idle, Work, Phase, AttemptStatus, ShipmentStatus, Metadata, NoMetadata

LEMMA WorkRests ==
    ASSUME Bounds, TypeOK, NEW w \in Workers, Rests(w)
    PROVE  /\ worker' \in [Workers -> Work] /\ \A v \in Workers \ {w} : worker'[v] = worker[v]
           /\ worker'[w].phase = "idle" /\ worker'[w].meta.create = FALSE
<1>1. worker' = [worker EXCEPT ![w] = Idle]
    BY DEF Rests
<1>. QED
    BY <1>1, IdleType DEF TypeOK, Idle, NoMetadata

-----------------------------------------------------------------------------
(* The workers that a step is not about                                     *)

LEMMA OthersFit ==
    ASSUME NEW v \in Workers, WorkerFits(v), worker'[v] = worker[v],
           attempt'[Create] = attempt[Create], Marked' = Marked, waybills' = waybills
    PROVE  WorkerFits(v)'
<1>1. PhaseFits(v)'
    BY DEF WorkerFits, PhaseFits, Creating
<1>2. ReadFits(v)'
    BY DEF WorkerFits, ReadFits, Creating
<1>3. (Claimed(v)' /\ Creating(v)') => (Owns(v)' = Owns(v))
    BY DEF Owns, Creating, Claimed
<1>4. ClaimFits(v)'
    BY <1>3 DEF WorkerFits, ClaimFits, Creating, Claimed, Prepares, Asked
<1>. QED
    BY <1>1, <1>2, <1>4 DEF WorkerFits

LEMMA OthersAnswer ==
    ASSUME NEW v \in Workers, AnswerFits(v), worker'[v] = worker[v],
           parcel # "NONE" => parcel' # "NONE", parcel = "CANCELLED" => parcel' = "CANCELLED"
    PROVE  AnswerFits(v)'
BY DEF AnswerFits, Creating

\* A step of w that takes no claim of the creation leaves its claims unique.
LEMMA ClaimsStay ==
    ASSUME ClaimsAreOnes, NEW w \in Workers, \A v \in Workers \ {w} : worker'[v] = worker[v],
           (Claimed(w)' /\ Creating(w)') =>
               /\ Claimed(w) /\ Creating(w) /\ worker'[w].lease = worker[w].lease
               /\ worker'[w].phase = "posting" => worker[w].phase = "posting"
    PROVE  ClaimsAreOnes'
<1>. SUFFICES ASSUME NEW u \in Workers, NEW v \in Workers, u # v, Claimed(u)', Claimed(v)', Creating(u)', Creating(v)'
              PROVE  /\ worker'[u].lease # worker'[v].lease
                     /\ ~(worker'[u].phase = "posting" /\ worker'[v].phase = "posting")
    BY DEF ClaimsAreOnes
<1>1. \A x \in Workers : (x = u \/ x = v) =>
        /\ Claimed(x) /\ Creating(x) /\ worker'[x].lease = worker[x].lease
        /\ worker'[x].phase = "posting" => worker[x].phase = "posting"
    BY DEF Claimed, Creating
<1>. QED
    BY <1>1 DEF ClaimsAreOnes

\* A step of w in which the shipment, its creation and its parcel rest.
LEMMA Quiet ==
    ASSUME IInv, TypeOK', NEW w \in Workers, \A v \in Workers \ {w} : worker'[v] = worker[v],
           attempt'[Create] = attempt[Create], shipment' = shipment, UNCHANGED <<outside, frozen, freezes>>,
           WorkerFits(w)', AnswerFits(w)',
           (Claimed(w)' /\ Creating(w)') =>
               /\ Claimed(w) /\ Creating(w) /\ worker'[w].lease = worker[w].lease
               /\ worker'[w].phase = "posting" => worker[w].phase = "posting"
    PROVE  IInv'
<1>1. ClaimsAreOnes'
    BY ClaimsStay DEF IInv
<1>2. Marked' = Marked
    BY DEF Marked
<1>3. \A v \in Workers : WorkerFits(v)'
  <2>. SUFFICES ASSUME NEW v \in Workers, v # w
                PROVE  WorkerFits(v)'
      OBVIOUS
  <2>. QED
      BY <1>2, OthersFit DEF IInv, outside
<1>4. \A v \in Workers : AnswerFits(v)'
  <2>. SUFFICES ASSUME NEW v \in Workers, v # w
                PROVE  AnswerFits(v)'
      OBVIOUS
  <2>. QED
      BY OthersAnswer DEF IInv, outside
<1>5. MarkFits' /\ ParcelFits' /\ CreatingHasAttempt' /\ CancelledIsDeleted'
    BY <1>2 DEF IInv, MarkFits, ParcelFits, CreatingHasAttempt, CancelledIsDeleted, outside
<1>. QED
    BY <1>1, <1>3, <1>4, <1>5 DEF IInv

\* A worker that rests knows nothing more.
LEMMA RestFits ==
    ASSUME Bounds, TypeOK, NEW w \in Workers, Rests(w)
    PROVE  WorkerFits(w)' /\ AnswerFits(w)' /\ ~Claimed(w)'
BY WorkRests DEF WorkerFits, PhaseFits, ReadFits, ClaimFits, AnswerFits, Claimed

-----------------------------------------------------------------------------
(* Steps in which the shipment, its creation and its parcel rest            *)

LEMMA QuietGoes ==
    ASSUME IInv, NEW w \in Workers, NEW phase \in Phase \ {"idle", "read", "posting"}, Claimed(w), Goes(w, phase),
           UNCHANGED <<shipment, attempt, outside, rest>>, WorkerFits(w)', AnswerFits(w)'
    PROVE  IInv'
<1>1. TypeOK
    BY DEF IInv
<1>2. /\ worker' \in [Workers -> Work] /\ \A v \in Workers \ {w} : worker'[v] = worker[v]
      /\ worker'[w].phase = phase /\ worker'[w].key = worker[w].key /\ worker'[w].lease = worker[w].lease
    BY <1>1, WorkGoes DEF Keeps
<1>3. TypeOK'
    BY <1>1, <1>2 DEF TypeOK, outside, rest
<1>. QED
    BY <1>2, <1>3, Quiet DEF Claimed, Creating, rest

LEMMA QuietEnds ==
    ASSUME IInv, NEW w \in Workers, NEW result \in Results, NEW answer \in ShipmentStatus, Claimed(w),
           Ends(w, result, answer),
           UNCHANGED <<shipment, attempt, outside, rest>>, WorkerFits(w)', AnswerFits(w)'
    PROVE  IInv'
<1>1. TypeOK
    BY DEF IInv
<1>2. /\ worker' \in [Workers -> Work] /\ \A v \in Workers \ {w} : worker'[v] = worker[v]
      /\ worker'[w].phase = "writing" /\ worker'[w].key = worker[w].key /\ worker'[w].lease = worker[w].lease
    BY <1>1, WorkEnds DEF Keeps
<1>3. TypeOK'
    BY <1>1, <1>2 DEF TypeOK, outside, rest
<1>. QED
    BY <1>2, <1>3, Quiet DEF Claimed, Creating, rest

\* A crash, and the loss of a claim.
LEMMA QuietRests ==
    ASSUME Bounds, IInv, NEW w \in Workers, Rests(w), attempt' \in [Keys -> Attempt], attempt'[Create] = attempt[Create],
           UNCHANGED <<shipment, outside, asked, frozen, freezes>>, lost' \in Nat
    PROVE  IInv'
<1>1. TypeOK
    BY DEF IInv
<1>2. /\ worker' \in [Workers -> Work] /\ \A v \in Workers \ {w} : worker'[v] = worker[v]
      /\ worker'[w].phase = "idle"
    BY <1>1, WorkRests
<1>3. TypeOK'
    BY <1>1, <1>2 DEF TypeOK, outside
<1>. QED
    BY <1>1, <1>2, <1>3, RestFits, Quiet DEF Claimed

\* The shipment that is read has the marker unless it is yet to be created.
LEMMA ReadStep ==
    ASSUME Bounds, IInv, NEW w \in Workers, NEW k \in Keys, Read(w, k)
    PROVE  IInv'
<1>1. TypeOK /\ MarkFits /\ ParcelFits
    BY DEF IInv
<1>. PICK new : new = [Idle EXCEPT !.phase = "read", !.key = k,
                         !.candidate = [status |-> attempt[k].status, attempts |-> attempt[k].attempts],
                         !.was = shipment.status, !.version = shipment.version, !.meta = shipment.meta]
    OBVIOUS
<1>2. attempt[k] \in Attempt /\ attempt[Create] \in Attempt /\ Wanted(k) /\ Due(k)
    BY <1>1, KeyKinds DEF TypeOK, Read
<1>3. new \in Work
    BY <1>1, <1>2, IdleType DEF Work, TypeOK, Attempt, Phase
<1>4. /\ new.phase = "read" /\ new.key = k /\ new.was = shipment.status /\ new.meta = shipment.meta
      /\ new.candidate.status = attempt[k].status /\ new.candidate.attempts = attempt[k].attempts
    BY DEF Idle
<1>5. worker' = [worker EXCEPT ![w] = new]
    BY DEF Read
<1>6. worker' \in [Workers -> Work] /\ worker'[w] = new /\ \A v \in Workers \ {w} : worker'[v] = worker[v]
    BY <1>1, <1>3, <1>5 DEF TypeOK
<1>7. UNCHANGED <<shipment, attempt, outside, rest>>
    BY DEF Read
<1>8. TypeOK'
    BY <1>1, <1>6, <1>7 DEF TypeOK, outside, rest
<1>9. k # Create => shipment.document /\ (k[1] = "STATUS_SYNC" => shipment.status \in Moving)
    BY <1>2, KeyKinds DEF Wanted
<1>10. WorkerFits(w)'
  <2>1. PhaseFits(w)'
      BY <1>1, <1>4, <1>6, <1>7, <1>9 DEF PhaseFits, Creating, Marked, MarkFits
  <2>2. ReadFits(w)'
    <3>1. k = Create => /\ attempt[Create].status \in {"PENDING", "RETRYABLE", "UNKNOWN", "PROCESSING"}
                        /\ attempt[Create].status = "PROCESSING" => attempt[Create].expired
        BY <1>2 DEF Due, Open
    <3>2. attempt[Create].attempts <= attempt[Create].attempts
        BY <1>2, <1>1 DEF Attempt, Bounds
    <3>. QED
        BY <1>1, <1>4, <1>6, <1>7, <3>1, <3>2 DEF ReadFits, Creating, Marked, MarkFits
  <2>3. ClaimFits(w)'
      BY <1>4, <1>6 DEF ClaimFits, Claimed
  <2>. QED
      BY <2>1, <2>2, <2>3 DEF WorkerFits
<1>11. AnswerFits(w)'
    BY <1>1, <1>4, <1>6, <1>7, <1>9, KeyKinds DEF AnswerFits, Creating, ParcelFits, outside
<1>. QED
    BY <1>4, <1>6, <1>7, <1>8, <1>10, <1>11, Quiet DEF Claimed, rest

\* What a result and a status may be, for the worker that is to write them.
Answers(w, result, answer) ==
    /\ result # "NONE" /\ answer # "DRAFT"
    /\ result = "CONFLICT" => worker[w].key[1] = "CANCEL"
    /\ result = "UNKNOWN" => Creating(w)
    /\ result \in {"SUCCEEDED", "CONFLICT"} =>
          /\ answer \in Known /\ parcel # "NONE"
          /\ answer = "CANCELLED" => parcel = "CANCELLED"
    /\ (Creating(w) /\ result = "FAILED") => answer = "FAILED"
    /\ (Creating(w) /\ result \in {"RETRYABLE", "UNKNOWN"}) => answer = "CREATING"
    /\ (Creating(w) /\ result = "RETRYABLE") => Prepares(w)
    /\ (Creating(w) /\ result \in {"UNKNOWN", "SUCCEEDED"}) => Asked(w)

LEMMA EndsStep ==
    ASSUME IInv, NEW w \in Workers, NEW result \in Results, NEW answer \in ShipmentStatus, Claimed(w),
           Ends(w, result, answer), Answers(w, result, answer),
           UNCHANGED <<shipment, attempt, outside, rest>>
    PROVE  IInv'
<1>1. TypeOK /\ WorkerFits(w) /\ AnswerFits(w)
    BY DEF IInv
<1>2. /\ worker'[w].phase = "writing" /\ worker'[w].result = result /\ worker'[w].answer = answer
      /\ worker'[w].key = worker[w].key /\ worker'[w].lease = worker[w].lease /\ worker'[w].meta = worker[w].meta
      /\ worker'[w].was = worker[w].was
    BY <1>1, WorkEnds DEF Keeps
<1>3. WorkerFits(w)'
  <2>1. PhaseFits(w)' /\ ReadFits(w)'
      BY <1>1, <1>2 DEF WorkerFits, PhaseFits, ReadFits, Creating, Claimed, Marked
  <2>2. Owns(w)' => Owns(w)
      BY <1>2 DEF Owns, Claimed
  <2>3. ClaimFits(w)'
    <3>. SUFFICES ASSUME Creating(w)
                  PROVE  ClaimFits(w)'
        BY <1>2 DEF ClaimFits, Creating
    <3>. QED
        BY <1>1, <1>2, <2>2 DEF WorkerFits, ClaimFits, Creating, Claimed, Prepares, Asked, Answers, Marked
  <2>. QED
      BY <2>1, <2>3 DEF WorkerFits
<1>4. AnswerFits(w)'
    BY <1>1, <1>2 DEF AnswerFits, Answers, Creating, Claimed, outside
<1>. QED
    BY <1>3, <1>4, QuietEnds

LEMMA PrepareFailsStep ==
    ASSUME IInv, NEW w \in Workers, PrepareFails(w)
    PROVE  IInv'
<1>1. /\ worker[w].phase = "preparing" /\ Creating(w) /\ Claimed(w)
      /\ UNCHANGED <<shipment, attempt, outside, rest>>
    BY DEF IInv, WorkerFits, PhaseFits, PrepareFails, Claimed
<1>2. CASE Ends(w, "RETRYABLE", "CREATING")
    BY <1>1, <1>2, StatusKinds, EndsStep DEF Answers, Prepares, Results
<1>3. CASE Ends(w, "FAILED", "FAILED")
    BY <1>1, <1>3, StatusKinds, EndsStep DEF Answers, Results
<1>. QED
    BY <1>2, <1>3 DEF PrepareFails

LEMMA PostRefusedStep ==
    ASSUME IInv, NEW w \in Workers, PostRefused(w)
    PROVE  IInv'
<1>1. worker[w].phase = "posting" /\ Creating(w) /\ Claimed(w)
    BY DEF IInv, WorkerFits, PhaseFits, PostRefused, Claimed
<1>. QED
    BY <1>1, StatusKinds, EndsStep DEF Answers, PostRefused, Results

LEMMA LookUpStep ==
    ASSUME IInv, NEW w \in Workers, LookUp(w) \/ LookUpFails(w)
    PROVE  IInv'
<1>1. /\ worker[w].phase = "looking" /\ Creating(w) /\ Claimed(w)
      /\ UNCHANGED <<shipment, attempt, outside, rest>>
    BY DEF IInv, WorkerFits, PhaseFits, LookUp, LookUpFails, Claimed
<1>2. parcel # "NONE" => parcel \in Known
    BY DEF IInv, TypeOK, Known
<1>3. CASE LookUp(w)
    BY <1>1, <1>2, <1>3, StatusKinds, EndsStep DEF Answers, LookUp, Asked, Results
<1>4. CASE LookUpFails(w)
    BY <1>1, <1>4, StatusKinds, EndsStep DEF Answers, LookUpFails, Asked, Results
<1>. QED
    BY <1>3, <1>4

LEMMA AskLifecycleStep ==
    ASSUME IInv, NEW w \in Workers, AskLifecycle(w)
    PROVE  IInv'
<1>1. /\ worker[w].phase = "asking" /\ worker[w].key[1] = "CANCEL" /\ ~Creating(w) /\ Claimed(w)
      /\ UNCHANGED <<shipment, attempt, outside, rest>>
    BY KeyKinds DEF IInv, WorkerFits, PhaseFits, AskLifecycle, Claimed, Creating
<1>2. parcel # "NONE" /\ parcel \in Known
    BY <1>1 DEF IInv, AnswerFits, TypeOK, Known, Claimed
<1>3. CASE Goes(w, "checking")
  <2>1. /\ worker'[w].phase = "checking" /\ worker'[w].key = worker[w].key
        /\ worker'[w].meta = worker[w].meta /\ worker'[w].was = worker[w].was
      BY <1>3, WorkGoes DEF Keeps, IInv, Phase
  <2>2. WorkerFits(w)' /\ AnswerFits(w)'
      BY <1>1, <2>1, KeyKinds
         DEF IInv, WorkerFits, PhaseFits, ReadFits, ClaimFits, AnswerFits, Creating, Claimed, Marked, outside
  <2>. QED
      BY <1>1, <1>3, <2>2, QuietGoes DEF Phase
<1>4. CASE Ends(w, "CONFLICT", parcel)
    BY <1>1, <1>2, <1>4, StatusKinds, EndsStep DEF Answers, Results
<1>5. CASE parcel = "CANCELLED" /\ Ends(w, "SUCCEEDED", "CANCELLED")
    BY <1>1, <1>2, <1>5, StatusKinds, EndsStep DEF Answers, Results
<1>. QED
    BY <1>3, <1>4, <1>5 DEF AskLifecycle

LEMMA CancelFailsStep ==
    ASSUME IInv, NEW w \in Workers, CancelFails(w)
    PROVE  IInv'
<1>1. /\ ~Creating(w) /\ Claimed(w)
      /\ UNCHANGED <<shipment, attempt, outside, rest>>
    BY KeyKinds DEF IInv, WorkerFits, PhaseFits, CancelFails, Claimed, Creating
<1>2. PICK result \in {"RETRYABLE", "FAILED"} : Ends(w, result, "CANCELLED")
    BY DEF CancelFails
<1>. QED
    BY <1>1, <1>2, StatusKinds, EndsStep DEF Answers, Results

LEMMA TrackFailsStep ==
    ASSUME IInv, NEW w \in Workers, TrackFails(w)
    PROVE  IInv'
<1>1. /\ ~Creating(w) /\ Claimed(w) /\ worker[w].was \in Moving
      /\ UNCHANGED <<shipment, attempt, outside, rest>>
    BY KeyKinds DEF IInv, WorkerFits, PhaseFits, AnswerFits, TrackFails, Claimed, Creating
<1>2. PICK result \in {"RETRYABLE", "FAILED"} : Ends(w, result, worker[w].was)
    BY DEF TrackFails
<1>. QED
    BY <1>1, <1>2, StatusKinds, EndsStep DEF Answers, Results

\* Tracking tells a status that the parcel has had, or keeps the shipment's.
LEMMA TrackStep ==
    ASSUME IInv, NEW w \in Workers, Track(w)
    PROVE  IInv'
<1>1. /\ ~Creating(w) /\ Claimed(w) /\ worker[w].was \in Moving /\ parcel # "NONE"
      /\ UNCHANGED <<shipment, attempt, outside, rest>>
    BY KeyKinds DEF IInv, WorkerFits, PhaseFits, AnswerFits, Track, Claimed, Creating
<1>2. PICK mapped \in seen \cup {worker[w].was} : Ends(w, "SUCCEEDED", Advance(worker[w].was, mapped))
    BY DEF Track
<1>3. seen \subseteq Known /\ ("CANCELLED" \in seen => parcel = "CANCELLED")
    BY DEF IInv, TypeOK, ParcelFits, Known
<1>4. Advance(worker[w].was, mapped) \in {worker[w].was, mapped}
    BY <1>1 DEF Advance, Moving, Terminal
<1>. QED
    BY <1>1, <1>2, <1>3, <1>4, StatusKinds, EndsStep DEF Answers, Results

LEMMA CrashStep ==
    ASSUME Bounds, IInv, NEW w \in Workers, Crash(w)
    PROVE  IInv'
<1>1. lost \in Nat /\ attempt \in [Keys -> Attempt]
    BY DEF IInv, TypeOK
<1>2. Rests(w) /\ UNCHANGED <<shipment, attempt, outside, asked, frozen, freezes>> /\ lost' = lost + 1
    BY DEF Crash
<1>. QED
    BY <1>1, <1>2, QuietRests

\* A worker that finds its claim lost before a checkpoint gives up.
LEMMA LostClaim ==
    ASSUME Bounds, IInv, NEW w \in Workers, Rests(w), UNCHANGED <<shipment, attempt, outside, rest>>
    PROVE  IInv'
<1>1. lost \in Nat /\ attempt \in [Keys -> Attempt]
    BY DEF IInv, TypeOK
<1>. QED
    BY <1>1, QuietRests DEF rest

-----------------------------------------------------------------------------
(* Attempts that are settled                                                *)

LEMMA Settling ==
    ASSUME TypeOK, NEW k \in Keys, NEW status \in AttemptStatus, attempt' = Settled(k, status)
    PROVE  /\ attempt' \in [Keys -> Attempt]
           /\ attempt'[k].status = status /\ attempt'[k].attempts = attempt[k].attempts
           /\ \A j \in Keys \ {k} : attempt'[j] = attempt[j]
<1>1. attempt[k] \in Attempt
    BY DEF TypeOK
<1>2. attempt' = [attempt EXCEPT ![k] = [attempt[k] EXCEPT !.status = status, !.expired = FALSE]]
    BY DEF Settled
<1>3. [attempt[k] EXCEPT !.status = status, !.expired = FALSE] \in Attempt
    BY <1>1 DEF Attempt
<1>. QED
    BY <1>1, <1>2, <1>3 DEF TypeOK, Attempt

\* Nobody holds a claim of an attempt that is settled.
LEMMA OthersSettled ==
    ASSUME NEW v \in Workers, WorkerFits(v), worker'[v] = worker[v], attempt'[Create].status # "PROCESSING",
           attempt'[Create].attempts = attempt[Create].attempts, Marked => Marked', waybills' = waybills
    PROVE  WorkerFits(v)'
<1>1. PhaseFits(v)'
    BY DEF WorkerFits, PhaseFits, Creating
<1>2. ReadFits(v)'
    BY DEF WorkerFits, ReadFits, Creating
<1>3. Creating(v)' => ~Owns(v)'
    BY DEF Owns, Creating
<1>4. ClaimFits(v)'
    BY <1>3 DEF WorkerFits, ClaimFits, Creating, Claimed, Asked
<1>. QED
    BY <1>1, <1>2, <1>4 DEF WorkerFits

\* The creation is settled, and the worker that settles it rests.
LEMMA SettlesCreation ==
    ASSUME Bounds, IInv, NEW w \in Workers, NEW status \in AttemptStatus \ {"PROCESSING"}, Rests(w),
           attempt' = Settled(Create, status), TypeOK', Marked => Marked', UNCHANGED <<outside, rest>>,
           MarkFits', ParcelFits', CreatingHasAttempt', CancelledIsDeleted'
    PROVE  IInv'
<1>1. TypeOK
    BY DEF IInv
<1>2. \A v \in Workers \ {w} : worker'[v] = worker[v]
    BY <1>1, WorkRests
<1>3. attempt'[Create].status = status /\ attempt'[Create].attempts = attempt[Create].attempts
    BY <1>1, Settling, KeyKinds
<1>4. WorkerFits(w)' /\ AnswerFits(w)' /\ ~Claimed(w)'
    BY <1>1, RestFits
<1>5. \A v \in Workers : WorkerFits(v)'
  <2>. SUFFICES ASSUME NEW v \in Workers, v # w
                PROVE  WorkerFits(v)'
      BY <1>4
  <2>. QED
      BY <1>2, <1>3, OthersSettled DEF IInv, outside
<1>6. \A v \in Workers : AnswerFits(v)'
  <2>. SUFFICES ASSUME NEW v \in Workers, v # w
                PROVE  AnswerFits(v)'
      BY <1>4
  <2>. QED
      BY <1>2, OthersAnswer DEF IInv, outside
<1>7. ClaimsAreOnes'
    BY <1>2, <1>4, ClaimsStay DEF IInv
<1>. QED
    BY <1>5, <1>6, <1>7 DEF IInv

\* freezeClaimedAttempt fails the attempt, not the shipment.
LEMMA FreezesClaim ==
    ASSUME Bounds, IInv, NEW w \in Workers, frozen, Claimed(w), Rests(w), UNCHANGED <<shipment, outside, rest>>,
           attempt' = IF Owns(w) THEN Settled(worker[w].key, "FAILED") ELSE attempt
    PROVE  IInv'
<1>1. TypeOK /\ worker[w].key \in Keys /\ "FAILED" \in AttemptStatus
    BY DEF IInv, TypeOK, Work, AttemptStatus
<1>2. CASE ~Owns(w)
    BY <1>2, LostClaim
<1>3. CASE Owns(w) /\ ~Creating(w)
  <2>1. attempt' \in [Keys -> Attempt] /\ attempt'[Create] = attempt[Create] /\ lost' \in Nat
      BY <1>1, <1>3, Settling, KeyKinds DEF Creating, rest, TypeOK
  <2>. QED
      BY <2>1, QuietRests DEF rest
<1>4. CASE Owns(w) /\ Creating(w)
  <2>1. /\ attempt' = Settled(Create, "FAILED") /\ attempt[Create].status = "PROCESSING"
        /\ attempt' \in [Keys -> Attempt] /\ attempt'[Create].status = "FAILED"
      BY <1>1, <1>4, Settling DEF Owns, Creating
  <2>2. TypeOK'
      BY <1>1, <2>1, WorkRests DEF TypeOK, outside, rest
  <2>3. MarkFits' /\ ParcelFits' /\ CancelledIsDeleted'
      BY <2>1 DEF IInv, MarkFits, ParcelFits, CancelledIsDeleted, Marked, outside, rest
  <2>4. CreatingHasAttempt'
      BY DEF IInv, ParcelFits, CreatingHasAttempt, rest
  <2>5. Marked => Marked'
      BY DEF Marked
  <2>. QED
      BY <1>1, <2>1, <2>2, <2>3, <2>4, <2>5, SettlesCreation
<1>. QED
    BY <1>2, <1>3, <1>4

LEMMA CheckFreezeStep ==
    ASSUME Bounds, IInv, NEW w \in Workers, Prepared(w) \/ CancelAllowed(w)
    PROVE  IInv'
<1>1. /\ worker[w].phase \in {"preparing", "checking"} /\ Claimed(w) /\ CheckFreeze(w, "marking")
      /\ UNCHANGED <<shipment, outside, rest>>
    BY DEF Prepared, CancelAllowed, Claimed, CheckFreeze
<1>2. CASE frozen
    BY <1>1, <1>2, FreezesClaim DEF CheckFreeze
<1>3. CASE ~frozen
  <2>1. Goes(w, "marking") /\ attempt' = attempt
      BY <1>1, <1>3 DEF CheckFreeze
  <2>2. /\ worker'[w].phase = "marking" /\ worker'[w].key = worker[w].key /\ worker'[w].lease = worker[w].lease
        /\ worker'[w].meta = worker[w].meta /\ worker'[w].was = worker[w].was
      BY <2>1, WorkGoes DEF Keeps, IInv, Phase
  <2>3. WorkerFits(w) /\ AnswerFits(w)
      BY DEF IInv
  <2>4. Owns(w)' => Owns(w)
      BY <1>1, <2>1, <2>2 DEF Owns
  <2>5. Creating(w) => worker[w].phase = "preparing"
      BY <1>1, <2>3, KeyKinds DEF WorkerFits, PhaseFits, Creating
  <2>6. PhaseFits(w)'
      BY <1>1, <2>2, <2>3, KeyKinds DEF WorkerFits, PhaseFits, Creating, Marked
  <2>7. ReadFits(w)' /\ AnswerFits(w)'
      BY <1>1, <2>2, <2>3 DEF ReadFits, AnswerFits, Creating, outside
  <2>8. ClaimFits(w)'
      BY <1>1, <2>1, <2>2, <2>3, <2>4, <2>5
         DEF WorkerFits, ClaimFits, Creating, Claimed, Prepares, Asked, Marked
  <2>. QED
      BY <1>1, <2>1, <2>6, <2>7, <2>8, QuietGoes DEF WorkerFits, Phase
<1>. QED
    BY <1>2, <1>3

-----------------------------------------------------------------------------
(* Checkpoints                                                              *)

\* A worker saves metadata that agrees with the marker.
LEMMA Saves ==
    ASSUME IInv, NEW w \in Workers, NEW meta \in Metadata, meta.create = Marked,
           worker' \in [Workers -> Work], \A v \in Workers \ {w} : worker'[v] = worker[v],
           shipment' = [shipment EXCEPT !.meta = meta], UNCHANGED <<attempt, outside, rest>>,
           WorkerFits(w)', AnswerFits(w)',
           (Claimed(w)' /\ Creating(w)') =>
               /\ Claimed(w) /\ Creating(w) /\ worker'[w].lease = worker[w].lease
               /\ worker'[w].phase = "posting" => worker[w].phase = "posting"
    PROVE  IInv'
<1>1. TypeOK
    BY DEF IInv
<1>2. /\ shipment' \in [status : ShipmentStatus, version : Nat, document : BOOLEAN,
                        meta : Metadata, watched : BOOLEAN]
      /\ shipment'.meta = meta /\ shipment'.status = shipment.status /\ shipment'.document = shipment.document
    BY <1>1 DEF TypeOK
<1>3. Marked' = Marked
    BY <1>2 DEF Marked
<1>4. TypeOK'
    BY <1>1, <1>2 DEF TypeOK, outside, rest
<1>5. \A v \in Workers : WorkerFits(v)'
  <2>. SUFFICES ASSUME NEW v \in Workers, v # w
                PROVE  WorkerFits(v)'
      OBVIOUS
  <2>. QED
      BY <1>3, OthersFit DEF IInv, outside
<1>6. \A v \in Workers : AnswerFits(v)'
  <2>. SUFFICES ASSUME NEW v \in Workers, v # w
                PROVE  AnswerFits(v)'
      OBVIOUS
  <2>. QED
      BY OthersAnswer DEF IInv, outside
<1>7. ClaimsAreOnes'
    BY ClaimsStay DEF IInv
<1>8. MarkFits' /\ ParcelFits' /\ CreatingHasAttempt' /\ CancelledIsDeleted'
    BY <1>2, <1>3 DEF IInv, MarkFits, ParcelFits, CreatingHasAttempt, CancelledIsDeleted, outside, rest
<1>. QED
    BY <1>4, <1>5, <1>6, <1>7, <1>8 DEF IInv

\* What a checkpoint does, for a claim that is still held.
LEMMA Checkpoints ==
    ASSUME TypeOK, NEW w \in Workers, NEW meta \in Metadata, NEW then \in Phase,
           Renewable(w), Checkpoint(w, meta, then)
    PROVE  /\ worker' \in [Workers -> Work] /\ \A v \in Workers \ {w} : worker'[v] = worker[v]
           /\ worker'[w].phase = then /\ worker'[w].meta = meta
           /\ worker'[w].result = worker[w].result /\ worker'[w].answer = worker[w].answer /\ Keeps(w)
           /\ shipment' = [shipment EXCEPT !.meta = meta]
           /\ UNCHANGED <<attempt, outside, rest>>
<1>1. worker[w] \in Work
    BY DEF TypeOK
<1>2. [worker[w] EXCEPT !.phase = then, !.meta = meta] \in Work
    BY <1>1 DEF Work
<1>3. worker' = [worker EXCEPT ![w] = [worker[w] EXCEPT !.phase = then, !.meta = meta]]
    BY DEF Checkpoint
<1>4. shipment' = [shipment EXCEPT !.meta = meta] /\ UNCHANGED <<attempt, outside, rest>>
    BY DEF Checkpoint
<1>. QED
    BY <1>1, <1>2, <1>3, <1>4 DEF TypeOK, Keeps, Work

LEMMA LostCheckpoint ==
    ASSUME Bounds, IInv, NEW w \in Workers, NEW meta, NEW then, ~Renewable(w), Checkpoint(w, meta, then)
    PROVE  IInv'
<1>1. Rests(w) /\ UNCHANGED <<shipment, attempt, outside, rest>>
    BY DEF Checkpoint
<1>. QED
    BY <1>1, LostClaim

LEMMA PrepareStep ==
    ASSUME Bounds, IInv, NEW w \in Workers, Prepare(w)
    PROVE  IInv'
<1>. PICK meta : meta = worker[w].meta
    OBVIOUS
<1>1. /\ worker[w].phase = "preparing" /\ Creating(w) /\ Claimed(w) /\ Checkpoint(w, meta, "preparing")
      /\ meta \in Metadata /\ TypeOK /\ WorkerFits(w) /\ AnswerFits(w)
    BY DEF IInv, WorkerFits, PhaseFits, Prepare, Claimed, TypeOK, Work
<1>2. CASE ~Renewable(w)
    BY <1>1, <1>2, LostCheckpoint
<1>3. CASE Renewable(w)
  <2>1. ~Marked /\ meta.create = Marked
    <3>1. ~Marked /\ (meta.create => Marked)
        BY <1>1, <1>3 DEF WorkerFits, ClaimFits, PhaseFits, Prepares, Renewable
    <3>. QED
        BY <1>1, <3>1 DEF Metadata, Marked, TypeOK
  <2>2. /\ worker' \in [Workers -> Work] /\ \A v \in Workers \ {w} : worker'[v] = worker[v]
        /\ worker'[w].phase = "preparing" /\ worker'[w].meta = meta
        /\ worker'[w].key = worker[w].key /\ worker'[w].lease = worker[w].lease /\ worker'[w].was = worker[w].was
        /\ shipment' = [shipment EXCEPT !.meta = meta]
        /\ UNCHANGED <<attempt, outside, rest>>
      BY <1>1, <1>3, Checkpoints DEF Phase, Keeps
  <2>3. Marked' = Marked
      BY <1>1, <2>1, <2>2 DEF Marked, TypeOK
  <2>4. PhaseFits(w)' /\ ReadFits(w)' /\ AnswerFits(w)'
      BY <1>1, <2>2, <2>3 DEF WorkerFits, PhaseFits, ReadFits, AnswerFits, Creating, outside
  <2>5. ClaimFits(w)'
      BY <1>1, <2>1, <2>2, <2>3 DEF WorkerFits, ClaimFits, Creating, Claimed, Asked
  <2>. QED
      BY <1>1, <2>1, <2>2, <2>4, <2>5, Saves DEF WorkerFits, Creating
<1>. QED
    BY <1>2, <1>3

LEMMA KeepStep ==
    ASSUME Bounds, IInv, NEW w \in Workers, Keep(w)
    PROVE  IInv'
<1>. PICK meta : meta = worker[w].meta
    OBVIOUS
<1>1. /\ worker[w].phase = "keeping" /\ Creating(w) /\ Claimed(w) /\ parcel # "NONE"
      /\ meta \in Metadata /\ TypeOK /\ WorkerFits(w) /\ AnswerFits(w) /\ UNCHANGED <<attempt, outside, rest>>
    BY DEF IInv, WorkerFits, PhaseFits, AnswerFits, Keep, Claimed, TypeOK, Work
<1>2. CASE ~Renewable(w)
    BY <1>1, <1>2, LostClaim DEF Keep
<1>3. CASE Renewable(w)
  <2>1. Marked /\ meta.create = Marked
    <3>1. meta.create /\ Marked
        BY <1>1 DEF WorkerFits, ClaimFits, PhaseFits, Asked
    <3>. QED
        BY <1>1, <3>1 DEF Metadata, Marked, TypeOK
  <2>2. /\ shipment' = [shipment EXCEPT !.meta = meta] /\ Ends(w, "SUCCEEDED", "CREATED")
      BY <1>3 DEF Keep
  <2>3. /\ worker' \in [Workers -> Work] /\ \A v \in Workers \ {w} : worker'[v] = worker[v]
        /\ worker'[w].phase = "writing" /\ worker'[w].meta = meta
        /\ worker'[w].result = "SUCCEEDED" /\ worker'[w].answer = "CREATED"
        /\ worker'[w].key = worker[w].key /\ worker'[w].lease = worker[w].lease /\ worker'[w].was = worker[w].was
      BY <1>1, <2>2, WorkEnds, StatusKinds DEF Results, Keeps
  <2>4. Marked' = Marked
      BY <1>1, <2>1, <2>2 DEF Marked, TypeOK
  <2>5. PhaseFits(w)' /\ ReadFits(w)'
      BY <1>1, <2>1, <2>3, <2>4 DEF WorkerFits, PhaseFits, ReadFits, Creating
  <2>6. ClaimFits(w)'
      BY <1>1, <2>1, <2>3, <2>4 DEF WorkerFits, ClaimFits, Creating, Claimed, Prepares
  <2>7. AnswerFits(w)'
      BY <1>1, <2>3, StatusKinds DEF AnswerFits, Creating, outside
  <2>. QED
      BY <1>1, <2>1, <2>2, <2>3, <2>5, <2>6, <2>7, Saves DEF WorkerFits, Creating
<1>. QED
    BY <1>2, <1>3

\* The delete marker leaves the create marker, which a cancellation has read.
LEMMA MarkDeleteStep ==
    ASSUME Bounds, IInv, NEW w \in Workers, MarkDelete(w), ~Creating(w)
    PROVE  IInv'
<1>. PICK meta : meta = [worker[w].meta EXCEPT !.delete = TRUE]
    OBVIOUS
<1>1. /\ worker[w].phase = "marking" /\ Claimed(w) /\ Checkpoint(w, meta, "deleting")
      /\ TypeOK /\ WorkerFits(w) /\ AnswerFits(w)
    BY DEF IInv, MarkDelete, Claimed
<1>2. worker[w].meta \in Metadata /\ worker[w].meta.create /\ Marked
    BY <1>1 DEF TypeOK, Work, WorkerFits, PhaseFits
<1>3. meta \in Metadata /\ meta.create = Marked
    BY <1>1, <1>2 DEF Metadata, Marked, TypeOK
<1>4. CASE ~Renewable(w)
    BY <1>1, <1>4, LostCheckpoint
<1>5. CASE Renewable(w)
  <2>1. worker[w].key[1] = "CANCEL"
      BY <1>1, KeyKinds DEF WorkerFits, PhaseFits, Creating, TypeOK, Work
  <2>2. /\ worker' \in [Workers -> Work] /\ \A v \in Workers \ {w} : worker'[v] = worker[v]
        /\ worker'[w].phase = "deleting" /\ worker'[w].meta = meta
        /\ worker'[w].key = worker[w].key /\ worker'[w].lease = worker[w].lease /\ worker'[w].was = worker[w].was
        /\ shipment' = [shipment EXCEPT !.meta = meta]
        /\ UNCHANGED <<attempt, outside, rest>>
      BY <1>1, <1>3, <1>5, Checkpoints DEF Phase, Keeps
  <2>3. Marked'
      BY <1>1, <1>2, <1>3, <2>2 DEF Marked, TypeOK
  <2>4. PhaseFits(w)' /\ ReadFits(w)' /\ ClaimFits(w)'
      BY <1>2, <1>3, <2>1, <2>2, <2>3 DEF PhaseFits, ReadFits, ClaimFits, Creating
  <2>5. AnswerFits(w)'
      BY <1>1, <2>2 DEF AnswerFits, Creating, outside
  <2>. QED
      BY <1>1, <1>3, <2>2, <2>4, <2>5, Saves DEF WorkerFits, Creating
<1>. QED
    BY <1>4, <1>5

\* The one holder of the claim of a creation without a marker sets it.
LEMMA MarkStep ==
    ASSUME Bounds, IInv, NEW w \in Workers, Mark(w), Creating(w)
    PROVE  IInv'
<1>. PICK meta : meta = [worker[w].meta EXCEPT !.create = TRUE]
    OBVIOUS
<1>1. /\ worker[w].phase = "marking" /\ Claimed(w) /\ Checkpoint(w, meta, "posting")
      /\ TypeOK /\ WorkerFits(w) /\ AnswerFits(w)
    BY DEF IInv, Mark, Claimed
<1>2. meta \in Metadata /\ meta.create
    BY <1>1 DEF TypeOK, Work, Metadata
<1>3. CASE ~Renewable(w)
    BY <1>1, <1>3, LostCheckpoint
<1>4. CASE Renewable(w)
  <2>1. /\ ~Marked /\ attempt[Create].status = "PROCESSING" /\ ~attempt[Create].expired
        /\ attempt[Create].attempts = worker[w].lease /\ worker[w].lease <= attempt[Create].attempts
      BY <1>1, <1>4 DEF WorkerFits, ClaimFits, Prepares, Renewable, Owns, Creating
  <2>2. /\ worker' \in [Workers -> Work] /\ \A v \in Workers \ {w} : worker'[v] = worker[v]
        /\ worker'[w].phase = "posting" /\ worker'[w].meta = meta
        /\ worker'[w].key = worker[w].key /\ worker'[w].lease = worker[w].lease /\ worker'[w].was = worker[w].was
        /\ shipment' = [shipment EXCEPT !.meta = meta]
        /\ UNCHANGED <<attempt, outside, rest>>
      BY <1>1, <1>2, <1>4, Checkpoints DEF Phase, Keeps
  <2>3. /\ shipment' \in [status : ShipmentStatus, version : Nat, document : BOOLEAN,
                          meta : Metadata, watched : BOOLEAN]
        /\ shipment'.meta = meta /\ shipment'.status = shipment.status /\ shipment'.document = shipment.document
      BY <1>1, <1>2, <2>2 DEF TypeOK
  <2>4. Marked'
      BY <1>2, <2>3 DEF Marked
  <2>5. TypeOK'
      BY <1>1, <2>2, <2>3 DEF TypeOK, outside, rest
  <2>6. waybills = 0
      BY <2>1 DEF IInv, MarkFits
  <2>7. WorkerFits(w)'
    <3>1. PhaseFits(w)' /\ ReadFits(w)'
        BY <2>2, <2>4 DEF PhaseFits, ReadFits, Creating
    <3>2. ClaimFits(w)'
        BY <1>2, <2>1, <2>2, <2>6 DEF ClaimFits, Prepares, outside
    <3>. QED
        BY <3>1, <3>2 DEF WorkerFits
  <2>8. ASSUME NEW v \in Workers, v # w
        PROVE  WorkerFits(v)' /\ AnswerFits(v)' /\ worker[v].phase # "posting"
    <3>1. WorkerFits(v) /\ AnswerFits(v) /\ worker'[v] = worker[v]
        BY <2>2, <2>8 DEF IInv
    <3>2. PhaseFits(v)'
        BY <2>4, <3>1 DEF WorkerFits, PhaseFits, Creating
    <3>3. ReadFits(v)'
        BY <2>1, <2>2, <3>1 DEF WorkerFits, ReadFits, Creating
    <3>4. worker[v].phase # "posting"
        BY <2>1, <3>1 DEF WorkerFits, PhaseFits, ClaimFits, Asked, Claimed
    <3>5. (Claimed(v) /\ Creating(v)) => ~Owns(v)'
        BY <1>1, <2>1, <2>2, <2>8, <3>1 DEF IInv, ClaimsAreOnes, Owns, Creating
    <3>6. ClaimFits(v)'
        BY <2>2, <3>1, <3>4, <3>5 DEF WorkerFits, ClaimFits, Creating, Claimed, Asked
    <3>7. AnswerFits(v)'
        BY <2>2, <3>1, OthersAnswer DEF outside
    <3>. QED
        BY <3>2, <3>3, <3>4, <3>6, <3>7 DEF WorkerFits
  <2>9. AnswerFits(w)'
      BY <1>1, <2>2 DEF AnswerFits, Creating, outside
  <2>10. ClaimsAreOnes'
    <3>. SUFFICES ASSUME NEW u \in Workers, NEW v \in Workers, u # v, Claimed(u)', Claimed(v)', Creating(u)', Creating(v)'
                  PROVE  /\ worker'[u].lease # worker'[v].lease
                         /\ ~(worker'[u].phase = "posting" /\ worker'[v].phase = "posting")
        BY DEF ClaimsAreOnes
    <3>1. \A x \in Workers : (x = u \/ x = v) => Claimed(x) /\ Creating(x) /\ worker'[x].lease = worker[x].lease
        BY <1>1, <2>2 DEF Claimed, Creating
    <3>2. worker'[u].phase = "posting" => u = w
        BY <2>2, <2>8
    <3>3. worker'[v].phase = "posting" => v = w
        BY <2>2, <2>8
    <3>. QED
        BY <3>1, <3>2, <3>3 DEF IInv, ClaimsAreOnes
  <2>11. MarkFits' /\ ParcelFits' /\ CreatingHasAttempt' /\ CancelledIsDeleted'
      BY <2>1, <2>2, <2>3, <2>4
         DEF IInv, MarkFits, ParcelFits, CreatingHasAttempt, CancelledIsDeleted, outside, rest
  <2>. QED
      BY <2>5, <2>7, <2>8, <2>9, <2>10, <2>11 DEF IInv
<1>. QED
    BY <1>3, <1>4

-----------------------------------------------------------------------------
(* The parcel                                                               *)

\* A parcel is made while nobody else asks for one, and there is none yet.
LEMMA Makes ==
    ASSUME IInv, NEW w \in Workers, worker[w].phase = "posting", Made
    PROVE  /\ waybills = 0 /\ waybills' = 1 /\ parcel' = "CREATED" /\ parcel = "NONE"
           /\ seen' = seen \cup {"CREATED"} /\ Marked
           /\ \A v \in Workers \ {w} : worker[v].phase # "posting"
<1>1. \A v \in Workers : worker[v].phase = "posting" => Claimed(v) /\ Creating(v)
    BY DEF IInv, WorkerFits, PhaseFits, Claimed
<1>2. waybills = 0 /\ Marked
    BY <1>1 DEF IInv, WorkerFits, ClaimFits, PhaseFits, Asked
<1>. QED
    BY <1>1, <1>2 DEF Made, IInv, ParcelFits, ClaimsAreOnes

\* What the worker that made the parcel does next is its own.
LEMMA MakesParcel ==
    ASSUME IInv, NEW w \in Workers, worker[w].phase = "posting", Made,
           worker' \in [Workers -> Work], \A v \in Workers \ {w} : worker'[v] = worker[v],
           worker'[w].lease = worker[w].lease, worker'[w].phase # "posting",
           WorkerFits(w)', AnswerFits(w)', UNCHANGED <<shipment, attempt, rest>>
    PROVE  IInv'
<1>1. /\ waybills = 0 /\ waybills' = 1 /\ parcel' = "CREATED" /\ parcel = "NONE"
      /\ seen' = seen \cup {"CREATED"} /\ Marked
      /\ \A v \in Workers \ {w} : worker[v].phase # "posting"
    BY Makes
<1>2. TypeOK'
    BY <1>1, StatusKinds DEF IInv, TypeOK, rest, Moving
<1>3. Marked'
    BY <1>1 DEF Marked
<1>4. ASSUME NEW v \in Workers, v # w
      PROVE  WorkerFits(v)' /\ AnswerFits(v)'
  <2>1. WorkerFits(v) /\ AnswerFits(v) /\ worker'[v] = worker[v] /\ worker[v].phase # "posting"
      BY <1>1, <1>4 DEF IInv
  <2>2. PhaseFits(v)' /\ ReadFits(v)'
      BY <1>1, <1>3, <2>1 DEF WorkerFits, PhaseFits, ReadFits, Creating
  <2>3. (Claimed(v)' /\ Creating(v)') => (Owns(v)' = Owns(v))
      BY <2>1 DEF Owns, Creating, Claimed
  <2>4. ClaimFits(v)'
      BY <1>1, <1>3, <2>1, <2>3 DEF WorkerFits, ClaimFits, Creating, Claimed, Prepares, Asked
  <2>5. AnswerFits(v)'
      BY <1>1, <2>1, OthersAnswer
  <2>. QED
      BY <2>2, <2>4, <2>5 DEF WorkerFits
<1>5. ClaimsAreOnes'
  <2>1. Claimed(w) /\ Creating(w)
      BY DEF IInv, WorkerFits, PhaseFits, Claimed
  <2>. QED
      BY <2>1, ClaimsStay DEF IInv
<1>6. MarkFits' /\ ParcelFits' /\ CreatingHasAttempt' /\ CancelledIsDeleted'
    BY <1>1, <1>3 DEF IInv, MarkFits, ParcelFits, CreatingHasAttempt, CancelledIsDeleted, rest
<1>. QED
    BY <1>2, <1>4, <1>5, <1>6 DEF IInv

LEMMA PostAcceptedStep ==
    ASSUME IInv, NEW w \in Workers, PostAccepted(w)
    PROVE  IInv'
<1>. PICK new : new = [worker[w] EXCEPT !.phase = "keeping", !.meta.uuid = TRUE]
    OBVIOUS
<1>1. /\ worker[w].phase = "posting" /\ Made /\ UNCHANGED <<shipment, attempt, rest>>
      /\ worker[w] \in Work /\ WorkerFits(w) /\ AnswerFits(w) /\ Claimed(w)
      /\ worker' = [worker EXCEPT ![w] = new] /\ worker \in [Workers -> Work]
    BY DEF IInv, TypeOK, PostAccepted, Claimed
<1>2. [worker[w].meta EXCEPT !.uuid = TRUE] \in Metadata
    BY <1>1 DEF Work, Metadata
<1>3. /\ new \in Work /\ new.phase = "keeping" /\ new.meta = [worker[w].meta EXCEPT !.uuid = TRUE]
      /\ new.key = worker[w].key /\ new.lease = worker[w].lease /\ new.was = worker[w].was
    BY <1>1, <1>2 DEF Work, Phase
<1>4. worker' \in [Workers -> Work] /\ worker'[w] = new /\ \A v \in Workers \ {w} : worker'[v] = worker[v]
    BY <1>1, <1>3
<1>5. new.meta.create = worker[w].meta.create
    BY <1>1, <1>3 DEF Work, Metadata
<1>6. Creating(w) /\ worker[w].meta.create /\ parcel' = "CREATED"
    BY <1>1, Makes DEF WorkerFits, PhaseFits, ClaimFits, Asked
<1>7. WorkerFits(w)'
  <2>1. PhaseFits(w)' /\ ReadFits(w)'
      BY <1>1, <1>3, <1>4, <1>5, <1>6 DEF WorkerFits, PhaseFits, ReadFits, Creating, Marked
  <2>2. ClaimFits(w)'
      BY <1>1, <1>3, <1>4, <1>5, <1>6 DEF WorkerFits, ClaimFits, Creating, Claimed, Prepares
  <2>. QED
      BY <2>1, <2>2 DEF WorkerFits
<1>8. AnswerFits(w)'
    BY <1>1, <1>3, <1>4, <1>6, KeyKinds DEF AnswerFits, Creating
<1>. QED
    BY <1>1, <1>3, <1>4, <1>7, <1>8, MakesParcel

\* Nobody knows whether there is a parcel.
LEMMA PostUnknownStep ==
    ASSUME IInv, NEW w \in Workers, PostUnknown(w)
    PROVE  IInv'
<1>1. /\ worker[w].phase = "posting" /\ UNCHANGED <<shipment, attempt, rest>> /\ Ends(w, "UNKNOWN", "CREATING")
      /\ WorkerFits(w) /\ AnswerFits(w) /\ Claimed(w) /\ TypeOK /\ Creating(w)
    BY DEF IInv, PostUnknown, Claimed, WorkerFits, PhaseFits
<1>2. CASE UNCHANGED outside
    BY <1>1, <1>2, StatusKinds, EndsStep DEF Answers, Asked, Results
<1>3. CASE Made
  <2>1. /\ worker' \in [Workers -> Work] /\ \A v \in Workers \ {w} : worker'[v] = worker[v]
        /\ worker'[w].phase = "writing" /\ worker'[w].result = "UNKNOWN" /\ worker'[w].answer = "CREATING"
        /\ worker'[w].key = worker[w].key /\ worker'[w].lease = worker[w].lease
        /\ worker'[w].was = worker[w].was /\ worker'[w].meta = worker[w].meta
      BY <1>1, StatusKinds, WorkEnds DEF Results, Keeps
  <2>2. PhaseFits(w)' /\ ReadFits(w)'
      BY <1>1, <2>1 DEF WorkerFits, PhaseFits, ReadFits, Creating, Marked
  <2>3. ClaimFits(w)'
      BY <1>1, <2>1 DEF WorkerFits, ClaimFits, Creating, Claimed, Prepares, Asked
  <2>4. AnswerFits(w)'
      BY <1>1, <2>1, KeyKinds DEF AnswerFits, Creating
  <2>. QED
      BY <1>1, <1>3, <2>1, <2>2, <2>3, <2>4, MakesParcel DEF WorkerFits
<1>. QED
    BY <1>2, <1>3 DEF PostUnknown

\* The parcel goes its way, or is deleted.
LEMMA ParcelGoes ==
    ASSUME IInv, parcel # "NONE", parcel' \in Known, parcel = "CANCELLED" => parcel' = "CANCELLED",
           seen' = seen \cup {parcel'}, worker' \in [Workers -> Work],
           UNCHANGED <<shipment, attempt, waybills, rest>>,
           \A v \in Workers : WorkerFits(v)' /\ AnswerFits(v)', ClaimsAreOnes'
    PROVE  IInv'
<1>1. TypeOK'
    BY StatusKinds DEF IInv, TypeOK, rest, Known
<1>2. MarkFits' /\ ParcelFits' /\ CreatingHasAttempt' /\ CancelledIsDeleted'
    BY StatusKinds DEF IInv, MarkFits, ParcelFits, CreatingHasAttempt, CancelledIsDeleted, Marked, rest
<1>. QED
    BY <1>1, <1>2 DEF IInv

LEMMA DeleteStep ==
    ASSUME IInv, NEW w \in Workers, Delete(w)
    PROVE  IInv'
<1>1. /\ worker[w].phase = "deleting" /\ worker[w].key[1] = "CANCEL" /\ ~Creating(w) /\ Claimed(w)
      /\ WorkerFits(w) /\ AnswerFits(w) /\ TypeOK
      /\ parcel # "NONE" /\ parcel' = "CANCELLED" /\ seen' = seen \cup {parcel'}
      /\ UNCHANGED <<shipment, attempt, waybills, rest>>
    BY KeyKinds DEF IInv, Delete, WorkerFits, PhaseFits, Creating, Claimed
<1>2. PICK result \in {"SUCCEEDED", "RETRYABLE", "FAILED"} : Ends(w, result, "CANCELLED")
    BY DEF Delete
<1>3. /\ worker' \in [Workers -> Work] /\ \A v \in Workers \ {w} : worker'[v] = worker[v]
      /\ worker'[w].phase = "writing" /\ worker'[w].result = result /\ worker'[w].answer = "CANCELLED"
      /\ worker'[w].key = worker[w].key /\ worker'[w].lease = worker[w].lease
      /\ worker'[w].was = worker[w].was /\ worker'[w].meta = worker[w].meta
    BY <1>1, <1>2, StatusKinds, WorkEnds DEF Results, Keeps
<1>4. WorkerFits(w)' /\ AnswerFits(w)'
    BY <1>1, <1>3, StatusKinds
       DEF WorkerFits, PhaseFits, ReadFits, ClaimFits, AnswerFits, Creating, Marked, Claimed
<1>5. ASSUME NEW v \in Workers, v # w
      PROVE  WorkerFits(v)' /\ AnswerFits(v)'
  <2>1. Marked' = Marked
      BY <1>1 DEF Marked
  <2>. QED
      BY <1>1, <1>3, <1>5, <2>1, OthersFit, OthersAnswer DEF IInv
<1>6. ClaimsAreOnes'
    BY <1>1, <1>3, ClaimsStay DEF IInv, Creating
<1>. QED
    BY <1>1, <1>3, <1>4, <1>5, <1>6, StatusKinds, ParcelGoes

LEMMA ParcelMovesStep ==
    ASSUME IInv, ParcelMoves
    PROVE  IInv'
<1>1. /\ parcel \in Moving /\ seen' = seen \cup {parcel'}
      /\ UNCHANGED <<shipment, attempt, worker, waybills, rest>>
    BY DEF ParcelMoves
<1>2. parcel' \in Known
    BY DEF ParcelMoves, Known, Moving, Terminal
<1>3. parcel # "NONE" /\ parcel # "CANCELLED" /\ parcel' # "NONE"
    BY <1>1, <1>2, StatusKinds
<1>4. ASSUME NEW v \in Workers
      PROVE  WorkerFits(v)' /\ AnswerFits(v)'
  <2>1. Marked' = Marked
      BY <1>1 DEF Marked
  <2>. QED
      BY <1>1, <1>3, <1>4, <2>1, OthersFit, OthersAnswer DEF IInv
<1>5. ClaimsAreOnes'
    BY <1>1 DEF IInv, ClaimsAreOnes, Claimed, Creating
<1>6. worker' \in [Workers -> Work]
    BY <1>1 DEF IInv, TypeOK
<1>. QED
    BY <1>1, <1>2, <1>3, <1>4, <1>5, <1>6, ParcelGoes

-----------------------------------------------------------------------------
(* Managers, reconcilers and time                                           *)

\* Steps that leave the workers, the shipment's marker and its parcel alone.
LEMMA NobodyWorks ==
    ASSUME IInv, TypeOK', UNCHANGED <<worker, outside>>, Marked' = Marked,
           attempt'[Create] = attempt[Create],
           MarkFits', ParcelFits', CreatingHasAttempt', CancelledIsDeleted'
    PROVE  IInv'
<1>1. ASSUME NEW v \in Workers
      PROVE  WorkerFits(v)' /\ AnswerFits(v)'
    BY <1>1, OthersFit, OthersAnswer DEF IInv, outside
<1>2. ClaimsAreOnes'
    BY DEF IInv, ClaimsAreOnes, Claimed, Creating
<1>. QED
    BY <1>1, <1>2 DEF IInv

\* An attempt other than the creation's changes.
LEMMA AttemptChanges ==
    ASSUME IInv, NEW k \in Keys \ {Create}, NEW new \in Attempt, attempt' = [attempt EXCEPT ![k] = new],
           UNCHANGED <<shipment, worker, outside, frozen, freezes>>,
           asked' \in Versions \cup {-1}, lost' \in Nat
    PROVE  IInv'
<1>1. attempt' \in [Keys -> Attempt] /\ attempt'[Create] = attempt[Create]
    BY KeyKinds DEF IInv, TypeOK
<1>2. TypeOK'
    BY <1>1 DEF IInv, TypeOK, outside
<1>3. Marked' = Marked
    BY DEF Marked
<1>4. MarkFits' /\ ParcelFits' /\ CreatingHasAttempt' /\ CancelledIsDeleted'
    BY <1>1, <1>3 DEF IInv, MarkFits, ParcelFits, CreatingHasAttempt, CancelledIsDeleted, outside
<1>. QED
    BY <1>1, <1>2, <1>3, <1>4, NobodyWorks

LEMMA NothingChanges ==
    ASSUME IInv, UNCHANGED <<shipment, attempt, worker, outside>>, TypeOK', frozen' => freezes' > 0, freezes > 0 => freezes' > 0
    PROVE  IInv'
<1>1. Marked' = Marked
    BY DEF Marked
<1>2. MarkFits' /\ ParcelFits' /\ CreatingHasAttempt' /\ CancelledIsDeleted'
    BY <1>1 DEF IInv, MarkFits, ParcelFits, CreatingHasAttempt, CancelledIsDeleted, outside
<1>. QED
    BY <1>1, <1>2, NobodyWorks

LEMMA FreezeStep ==
    ASSUME IInv, Freeze
    PROVE  IInv'
<1>1. TypeOK'
    BY DEF IInv, TypeOK, Freeze, outside
<1>2. (frozen' => freezes' > 0) /\ (freezes > 0 => freezes' > 0)
    BY DEF IInv, TypeOK, ParcelFits, Freeze
<1>. QED
    BY <1>1, <1>2, NothingChanges DEF Freeze

LEMMA CancelReadStep ==
    ASSUME Bounds, IInv, CancelRead
    PROVE  IInv'
<1>1. asked' \in Versions \cup {-1}
    BY DEF IInv, TypeOK, CancelRead, Versions, Bounds
<1>2. UNCHANGED <<shipment, attempt, worker, outside, frozen, freezes, lost>>
    BY DEF CancelRead
<1>3. TypeOK'
    BY <1>1, <1>2 DEF IInv, TypeOK, outside
<1>4. frozen => freezes > 0
    BY DEF IInv, ParcelFits
<1>. QED
    BY <1>2, <1>3, <1>4, NothingChanges

LEMMA CancelWriteStep ==
    ASSUME IInv, CancelWrite
    PROVE  IInv'
<1>1. asked \in Versions /\ asked' = -1 /\ UNCHANGED <<shipment, worker, outside, frozen, freezes, lost>>
    BY DEF IInv, TypeOK, CancelWrite
<1>. PICK k : k = Cancel(asked)
    OBVIOUS
<1>2. k \in Keys \ {Create}
    BY <1>1, KeyKinds
<1>3. CASE ~frozen /\ attempt[k].status = "NONE"
  <2>1. attempt' = [attempt EXCEPT ![k] = [attempt[k] EXCEPT !.status = "PENDING"]]
      BY <1>3 DEF CancelWrite
  <2>2. [attempt[k] EXCEPT !.status = "PENDING"] \in Attempt
      BY <1>2 DEF IInv, TypeOK, Attempt, AttemptStatus, Open
  <2>3. lost' \in Nat
      BY <1>1 DEF IInv, TypeOK
  <2>. QED
      BY <1>1, <1>2, <2>1, <2>2, <2>3, AttemptChanges
<1>4. CASE ~(~frozen /\ attempt[k].status = "NONE")
  <2>1. attempt' = attempt
      BY <1>4 DEF CancelWrite
  <2>2. TypeOK'
      BY <1>1, <2>1 DEF IInv, TypeOK, outside
  <2>3. frozen => freezes > 0
      BY DEF IInv, ParcelFits
  <2>. QED
      BY <1>1, <2>1, <2>2, <2>3, NothingChanges
<1>. QED
    BY <1>3, <1>4

LEMMA ReconcileStep ==
    ASSUME Bounds, IInv, Reconcile
    PROVE  IInv'
<1>. PICK k : k = StatusSync(shipment.version)
    OBVIOUS
<1>1. shipment.version \in Versions /\ TypeOK
    BY DEF IInv, TypeOK, Reconcile, Versions, Bounds
<1>2. k \in Keys \ {Create}
    BY <1>1, KeyKinds
<1>3. attempt' = [attempt EXCEPT ![k] = [attempt[k] EXCEPT !.status = "PENDING"]]
    BY DEF Reconcile
<1>4. [attempt[k] EXCEPT !.status = "PENDING"] \in Attempt
    BY <1>1, <1>2 DEF TypeOK, Attempt, AttemptStatus, Open
<1>5. UNCHANGED <<shipment, worker, outside, rest>>
    BY DEF Reconcile
<1>6. asked' \in Versions \cup {-1} /\ lost' \in Nat
    BY <1>1, <1>5 DEF TypeOK, rest
<1>. QED
    BY <1>2, <1>3, <1>4, <1>5, <1>6, AttemptChanges DEF rest

LEMMA CreateShipmentStep ==
    ASSUME IInv, CreateShipment
    PROVE  IInv'
<1>1. /\ attempt[Create].status = "NONE" /\ ~Marked /\ UNCHANGED <<worker, outside, rest>>
      /\ attempt[Create] \in Attempt /\ TypeOK
    BY KeyKinds DEF IInv, MarkFits, CreateShipment, TypeOK
<1>2. attempt' = [attempt EXCEPT ![Create] = [attempt[Create] EXCEPT !.status = "PENDING"]]
    BY DEF CreateShipment
<1>3. [attempt[Create] EXCEPT !.status = "PENDING"] \in Attempt
    BY <1>1 DEF Attempt, AttemptStatus, Open
<1>4. /\ attempt' \in [Keys -> Attempt]
      /\ attempt'[Create].status = "PENDING" /\ attempt'[Create].attempts = attempt[Create].attempts
    BY <1>1, <1>2, <1>3, KeyKinds DEF TypeOK, Attempt
<1>5. /\ shipment' \in [status : ShipmentStatus, version : Nat, document : BOOLEAN,
                        meta : Metadata, watched : BOOLEAN]
      /\ shipment'.meta = shipment.meta /\ shipment'.status = "CREATING" /\ shipment'.document = shipment.document
    BY <1>1, StatusKinds DEF TypeOK, CreateShipment
<1>6. TypeOK'
    BY <1>1, <1>4, <1>5 DEF TypeOK, outside, rest
<1>7. Marked' = Marked
    BY <1>5 DEF Marked
<1>8. ASSUME NEW v \in Workers
      PROVE  WorkerFits(v)' /\ AnswerFits(v)'
    BY <1>1, <1>4, <1>7, <1>8, OthersSettled, OthersAnswer DEF IInv, outside
<1>9. ClaimsAreOnes'
    BY <1>1 DEF IInv, ClaimsAreOnes, Claimed, Creating
<1>10. MarkFits' /\ ParcelFits' /\ CreatingHasAttempt' /\ CancelledIsDeleted'
    BY <1>1, <1>4, <1>5, <1>7
       DEF IInv, MarkFits, ParcelFits, CreatingHasAttempt, CancelledIsDeleted, outside, rest
<1>. QED
    BY <1>6, <1>8, <1>9, <1>10 DEF IInv

LEMMA ExpireLeaseStep ==
    ASSUME IInv, NEW k \in Keys, ExpireLease(k)
    PROVE  IInv'
<1>1. /\ attempt[k].status = "PROCESSING" /\ ~attempt[k].expired /\ attempt[k] \in Attempt /\ TypeOK
      /\ UNCHANGED <<shipment, worker, outside, asked, frozen, freezes>>
      /\ attempt' = [attempt EXCEPT ![k] = [attempt[k] EXCEPT !.expired = TRUE]]
    BY DEF IInv, ExpireLease, TypeOK
<1>2. [attempt[k] EXCEPT !.expired = TRUE] \in Attempt
    BY <1>1 DEF Attempt
<1>3. lost' \in Nat /\ asked' \in Versions \cup {-1}
    BY <1>1 DEF ExpireLease, TypeOK
<1>4. CASE k # Create
    BY <1>1, <1>2, <1>3, <1>4, AttemptChanges
<1>5. CASE k = Create
  <2>1. /\ attempt' \in [Keys -> Attempt] /\ attempt'[Create].status = "PROCESSING"
        /\ attempt'[Create].attempts = attempt[Create].attempts
      BY <1>1, <1>2, <1>5 DEF TypeOK, Attempt
  <2>2. TypeOK'
      BY <1>1, <1>3, <2>1 DEF TypeOK, outside
  <2>3. Marked' = Marked
      BY <1>1 DEF Marked
  <2>4. ASSUME NEW v \in Workers
        PROVE  WorkerFits(v)' /\ AnswerFits(v)'
    <3>1. WorkerFits(v) /\ AnswerFits(v) /\ worker'[v] = worker[v]
        BY <1>1 DEF IInv
    <3>2. PhaseFits(v)'
        BY <2>3, <3>1 DEF WorkerFits, PhaseFits, Creating
    <3>3. ReadFits(v)'
        BY <1>1, <1>5, <2>1, <3>1 DEF WorkerFits, ReadFits, Creating
    <3>4. Creating(v) => (Owns(v)' = Owns(v))
        BY <1>1, <1>5, <2>1, <3>1 DEF Owns, Creating
    <3>5. ClaimFits(v)'
        BY <1>1, <2>1, <2>3, <3>1, <3>4 DEF WorkerFits, ClaimFits, Creating, Claimed, Prepares, Asked, outside
    <3>6. AnswerFits(v)'
        BY <1>1, <3>1, OthersAnswer DEF outside
    <3>. QED
        BY <3>2, <3>3, <3>5, <3>6 DEF WorkerFits
  <2>5. ClaimsAreOnes'
      BY <1>1 DEF IInv, ClaimsAreOnes, Claimed, Creating
  <2>6. MarkFits' /\ ParcelFits' /\ CreatingHasAttempt' /\ CancelledIsDeleted'
      BY <1>1, <1>5, <2>1, <2>3
         DEF IInv, MarkFits, ParcelFits, CreatingHasAttempt, CancelledIsDeleted, outside
  <2>. QED
      BY <2>2, <2>4, <2>5, <2>6 DEF IInv
<1>. QED
    BY <1>4, <1>5

-----------------------------------------------------------------------------
(* Claims                                                                   *)

\* What a claim that fits does.
LEMMA Claims ==
    ASSUME Bounds, TypeOK, NEW w \in Workers, Claim(w), NEW k \in Keys, k = worker[w].key, Unchanged(w),
           attempt[k].status = "PROCESSING" => attempt[k].expired
    PROVE  /\ attempt' \in [Keys -> Attempt] /\ \A j \in Keys \ {k} : attempt'[j] = attempt[j]
           /\ attempt'[k] = [status |-> "PROCESSING", attempts |-> attempt[k].attempts + 1, expired |-> FALSE]
           /\ worker' \in [Workers -> Work] /\ \A v \in Workers \ {w} : worker'[v] = worker[v]
           /\ worker'[w].key = k /\ worker'[w].lease = attempt[k].attempts + 1
           /\ worker'[w].meta = worker[w].meta /\ worker'[w].was = worker[w].was
           /\ worker'[w].phase = Starts(w).phase
           /\ worker'[w].result = Starts(w).result /\ worker'[w].answer = Starts(w).answer
           /\ UNCHANGED <<shipment, outside, rest>>
<1>. PICK start : start = Starts(w)
    OBVIOUS
<1>. PICK held : held = [status |-> "PROCESSING", attempts |-> attempt[k].attempts + 1, expired |-> FALSE]
    OBVIOUS
<1>. PICK new : new = [worker[w] EXCEPT !.lease = attempt[k].attempts + 1, !.phase = start.phase,
                                        !.result = start.result, !.answer = start.answer]
    OBVIOUS
<1>1. attempt[k] \in Attempt /\ worker[w] \in Work
    BY DEF TypeOK
<1>2. attempt[k].attempts < MaxClaims /\ UNCHANGED <<shipment, outside, rest>>
    BY DEF Claim
<1>3. attempt[k].attempts + 1 \in 0..MaxClaims
    BY <1>1, <1>2 DEF Attempt, Bounds
<1>4. held \in Attempt
    BY <1>3 DEF Attempt, AttemptStatus
<1>5. start.phase \in Phase /\ start.result \in Results /\ start.answer \in ShipmentStatus
    BY DEF Starts, Phase, Results, ShipmentStatus
<1>6. /\ new \in Work /\ new.key = k /\ new.lease = attempt[k].attempts + 1 /\ new.meta = worker[w].meta
      /\ new.was = worker[w].was /\ new.phase = start.phase /\ new.result = start.result /\ new.answer = start.answer
    BY <1>1, <1>3, <1>5 DEF Work, Results
<1>7. attempt' = [attempt EXCEPT ![k] = held] /\ worker' = [worker EXCEPT ![w] = new]
    BY DEF Claim
<1>. QED
    BY <1>2, <1>4, <1>6, <1>7 DEF TypeOK

\* A cancellation or a status that is claimed leaves the creation alone.
LEMMA ClaimsOther ==
    ASSUME Bounds, IInv, NEW w \in Workers, Claim(w), ~Creating(w), Unchanged(w),
           attempt[worker[w].key].status = "PROCESSING" => attempt[worker[w].key].expired
    PROVE  IInv'
<1>. PICK k : k = worker[w].key
    OBVIOUS
<1>1. TypeOK /\ WorkerFits(w) /\ AnswerFits(w) /\ k \in Keys \ {Create} /\ worker[w].phase = "read"
    BY DEF IInv, TypeOK, Work, Creating, Claim
<1>2. /\ attempt' \in [Keys -> Attempt] /\ \A j \in Keys \ {k} : attempt'[j] = attempt[j]
      /\ worker' \in [Workers -> Work] /\ \A v \in Workers \ {w} : worker'[v] = worker[v]
      /\ worker'[w].key = k /\ worker'[w].meta = worker[w].meta /\ worker'[w].was = worker[w].was
      /\ worker'[w].phase = Starts(w).phase
      /\ UNCHANGED <<shipment, outside, rest>>
    BY <1>1, Claims
<1>3. attempt'[Create] = attempt[Create]
    BY <1>1, <1>2, KeyKinds
<1>4. \/ k[1] = "STATUS_SYNC" /\ worker'[w].phase = "tracking"
      \/ k[1] = "CANCEL" /\ worker'[w].phase = "asking"
    BY <1>1, <1>2, KeyKinds DEF Starts
<1>5. WorkerFits(w)' /\ AnswerFits(w)'
    BY <1>1, <1>2, <1>4, KeyKinds
       DEF WorkerFits, PhaseFits, ReadFits, ClaimFits, AnswerFits, Creating, Marked, outside
<1>6. TypeOK'
    BY <1>1, <1>2 DEF TypeOK, outside, rest
<1>. QED
    BY <1>1, <1>2, <1>3, <1>5, <1>6, Quiet DEF Creating, rest

\* The creation is claimed: for a first parcel only without the marker.
LEMMA ClaimsCreation ==
    ASSUME Bounds, IInv, NEW w \in Workers, Claim(w), Creating(w), Unchanged(w),
           attempt[worker[w].key].status = "PROCESSING" => attempt[worker[w].key].expired
    PROVE  IInv'
<1>1. /\ TypeOK /\ WorkerFits(w) /\ AnswerFits(w) /\ Create \in Keys /\ worker[w].phase = "read"
      /\ worker[w].key = Create /\ attempt[Create] \in Attempt
    BY KeyKinds DEF IInv, TypeOK, Creating, Claim
<1>2. /\ attempt' \in [Keys -> Attempt]
      /\ attempt'[Create] = [status |-> "PROCESSING", attempts |-> attempt[Create].attempts + 1, expired |-> FALSE]
      /\ worker' \in [Workers -> Work] /\ \A v \in Workers \ {w} : worker'[v] = worker[v]
      /\ worker'[w].key = Create /\ worker'[w].lease = attempt[Create].attempts + 1
      /\ worker'[w].meta = worker[w].meta /\ worker'[w].was = worker[w].was
      /\ worker'[w].phase = Starts(w).phase
      /\ worker'[w].result = Starts(w).result /\ worker'[w].answer = Starts(w).answer
      /\ UNCHANGED <<shipment, outside, rest>>
    BY <1>1, Claims
<1>3. attempt[Create].attempts \in Nat /\ attempt'[Create].attempts = attempt[Create].attempts + 1
    BY <1>1, <1>2 DEF Attempt, Bounds
<1>4. Marked' = Marked
    BY <1>2 DEF Marked
<1>5. TypeOK'
    BY <1>1, <1>2 DEF TypeOK, outside, rest
<1>6. attempt[Create].status = worker[w].candidate.status /\ attempt[Create].status # "NONE"
    BY <1>1 DEF Unchanged, WorkerFits, ReadFits, Creating
<1>7. Dispatched(w) <=> worker[w].meta.create
    BY <1>1 DEF Dispatched, WorkerFits, ReadFits, Creating
<1>8. ~Dispatched(w) => ~Marked
    BY <1>1, <1>6, <1>7 DEF Unchanged, Dispatched, WorkerFits, ReadFits, Creating, IInv, MarkFits
<1>9. \/ worker'[w].phase = "preparing" /\ ~Dispatched(w)
      \/ worker'[w].phase = "looking" /\ Dispatched(w)
      \/ /\ worker'[w].phase = "writing" /\ worker'[w].result = "UNKNOWN"
         /\ worker'[w].answer = "CREATING" /\ Dispatched(w)
    BY <1>1, <1>2, KeyKinds DEF Starts
<1>10. WorkerFits(w)'
  <2>1. PhaseFits(w)' /\ ReadFits(w)'
      BY <1>1, <1>2, <1>4, <1>9 DEF WorkerFits, PhaseFits, ReadFits, Creating
  <2>2. ClaimFits(w)'
      BY <1>2, <1>3, <1>4, <1>7, <1>8, <1>9 DEF ClaimFits, Prepares, Asked
  <2>. QED
      BY <2>1, <2>2 DEF WorkerFits
<1>11. AnswerFits(w)'
    BY <1>1, <1>2, <1>9, KeyKinds DEF AnswerFits, Creating
<1>12. ASSUME NEW v \in Workers, v # w
       PROVE  WorkerFits(v)' /\ AnswerFits(v)'
  <2>1. WorkerFits(v) /\ AnswerFits(v) /\ worker'[v] = worker[v] /\ worker[v] \in Work
      BY <1>1, <1>2, <1>12 DEF IInv, TypeOK
  <2>2. worker[v].candidate.attempts \in Nat /\ worker[v].lease \in Nat
      BY <2>1 DEF Work, Bounds
  <2>3. PhaseFits(v)'
      BY <1>4, <2>1 DEF WorkerFits, PhaseFits, Creating
  <2>4. ReadFits(v)'
      BY <1>3, <2>1, <2>2 DEF WorkerFits, ReadFits, Creating
  <2>5. (Claimed(v) /\ Creating(v)) => ~Owns(v)'
      BY <1>3, <2>1, <2>2 DEF WorkerFits, ClaimFits, Owns, Creating
  <2>6. ClaimFits(v)'
      BY <1>2, <1>3, <2>1, <2>2, <2>5 DEF WorkerFits, ClaimFits, Creating, Claimed, Asked, outside
  <2>7. AnswerFits(v)'
      BY <1>2, <2>1, OthersAnswer DEF outside
  <2>. QED
      BY <2>3, <2>4, <2>6, <2>7 DEF WorkerFits
<1>13. ClaimsAreOnes'
  <2>. SUFFICES ASSUME NEW u \in Workers, NEW v \in Workers, u # v, Claimed(u)', Claimed(v)', Creating(u)', Creating(v)'
                PROVE  /\ worker'[u].lease # worker'[v].lease
                       /\ ~(worker'[u].phase = "posting" /\ worker'[v].phase = "posting")
      BY DEF ClaimsAreOnes
  <2>1. ASSUME NEW x \in Workers, x # w, Claimed(x)', Creating(x)'
        PROVE  /\ Claimed(x) /\ Creating(x) /\ worker'[x] = worker[x]
               /\ worker'[x].lease # worker'[w].lease
    <3>1. Claimed(x) /\ Creating(x) /\ worker'[x] = worker[x] /\ worker[x] \in Work /\ WorkerFits(x)
        BY <1>1, <1>2, <2>1 DEF IInv, TypeOK, Claimed, Creating
    <3>. QED
        BY <1>2, <1>3, <3>1 DEF WorkerFits, ClaimFits, Work, Bounds
  <2>. QED
      BY <1>9, <2>1 DEF IInv, ClaimsAreOnes
<1>14. MarkFits' /\ ParcelFits' /\ CreatingHasAttempt' /\ CancelledIsDeleted'
    BY <1>2, <1>4, <1>6
       DEF IInv, MarkFits, ParcelFits, CreatingHasAttempt, CancelledIsDeleted, outside, rest
<1>. QED
    BY <1>5, <1>10, <1>11, <1>12, <1>13, <1>14 DEF IInv

LEMMA ClaimStep ==
    ASSUME Bounds, IInv, NEW w \in Workers, Claim(w)
    PROVE  IInv'
<1>. PICK k : k = worker[w].key
    OBVIOUS
<1>1. CASE Unchanged(w) /\ (attempt[k].status = "PROCESSING" => attempt[k].expired)
    BY <1>1, ClaimsOther, ClaimsCreation
<1>2. CASE ~(Unchanged(w) /\ (attempt[k].status = "PROCESSING" => attempt[k].expired))
  <2>1. Rests(w) /\ UNCHANGED <<shipment, attempt, outside, rest>>
      BY <1>2 DEF Claim
  <2>. QED
      BY <2>1, LostClaim
<1>. QED
    BY <1>1, <1>2

\* A creation that meets the freeze before its claim fails with its shipment.
LEMMA ClaimFrozenStep ==
    ASSUME Bounds, IInv, NEW w \in Workers, ClaimFrozen(w)
    PROVE  IInv'
<1>1. Rests(w) /\ UNCHANGED <<outside, rest>> /\ TypeOK
    BY DEF ClaimFrozen, IInv
<1>2. CASE ~Unchanged(w)
    BY <1>1, <1>2, LostClaim DEF ClaimFrozen
<1>3. CASE Unchanged(w)
  <2>1. /\ attempt' = Settled(Create, "FAILED") /\ "FAILED" \in AttemptStatus
        /\ shipment' = [shipment EXCEPT !.status = "FAILED"]
      BY <1>3 DEF ClaimFrozen, AttemptStatus
  <2>2. /\ shipment' \in [status : ShipmentStatus, version : Nat, document : BOOLEAN,
                          meta : Metadata, watched : BOOLEAN]
        /\ shipment'.meta = shipment.meta /\ shipment'.status = "FAILED" /\ shipment'.document = shipment.document
      BY <1>1, <2>1, StatusKinds DEF TypeOK
  <2>3. attempt' \in [Keys -> Attempt] /\ attempt'[Create].status = "FAILED"
      BY <1>1, <2>1, KeyKinds, Settling
  <2>4. TypeOK'
      BY <1>1, <2>2, <2>3, WorkRests DEF TypeOK, outside, rest
  <2>5. Marked' = Marked
      BY <2>2 DEF Marked
  <2>6. MarkFits' /\ ParcelFits' /\ CreatingHasAttempt' /\ CancelledIsDeleted'
      BY <1>1, <2>2, <2>3, <2>5
         DEF IInv, MarkFits, ParcelFits, CreatingHasAttempt, CancelledIsDeleted, outside, rest
  <2>. QED
      BY <1>1, <2>1, <2>4, <2>5, <2>6, SettlesCreation
<1>. QED
    BY <1>2, <1>3

-----------------------------------------------------------------------------
(* What the workers write                                                   *)

LEMMA WriteCreateStep ==
    ASSUME Bounds, IInv, NEW w \in Workers, worker[w].phase = "writing", Owns(w), Creating(w),
           WriteCreate(w), Rests(w), UNCHANGED <<outside, rest>>
    PROVE  IInv'
<1>. PICK result : result = worker[w].result
    OBVIOUS
<1>. PICK answer : answer = worker[w].answer
    OBVIOUS
<1>1. /\ TypeOK /\ WorkerFits(w) /\ AnswerFits(w) /\ Claimed(w) /\ worker[w] \in Work
      /\ worker[w].key = Create /\ attempt[Create].status = "PROCESSING"
    BY DEF IInv, TypeOK, Claimed, Creating, Owns
<1>2. /\ result \in {"SUCCEEDED", "RETRYABLE", "UNKNOWN", "FAILED"}
      /\ answer \in ShipmentStatus /\ answer # "DRAFT" /\ worker[w].meta \in Metadata
      /\ result = "SUCCEEDED" => answer \in Known /\ parcel # "NONE" /\ (answer = "CANCELLED" => parcel = "CANCELLED")
      /\ result = "FAILED" => answer = "FAILED"
      /\ result \in {"RETRYABLE", "UNKNOWN"} => answer = "CREATING"
    BY <1>1, KeyKinds DEF AnswerFits, Work, Creating
<1>3. /\ result = "RETRYABLE" => ~Marked
      /\ result \in {"UNKNOWN", "SUCCEEDED"} => Marked /\ worker[w].meta.create
    BY <1>1 DEF WorkerFits, PhaseFits, ClaimFits, Prepares, Asked, Creating
<1>4. attempt' = Settled(Create, result) /\ result \in AttemptStatus \ {"PROCESSING"}
    BY <1>2 DEF WriteCreate, AttemptStatus, Open
<1>5. attempt' \in [Keys -> Attempt] /\ attempt'[Create].status = result
    BY <1>1, <1>4, KeyKinds, Settling
<1>6. /\ shipment' \in [status : ShipmentStatus, version : Nat, document : BOOLEAN,
                        meta : Metadata, watched : BOOLEAN]
      /\ shipment'.status = answer
      /\ result = "SUCCEEDED" => Marked'
      /\ result # "SUCCEEDED" => shipment'.meta = shipment.meta /\ shipment'.document = shipment.document
  <2>1. CASE result = "SUCCEEDED"
    <3>. PICK meta : meta = [worker[w].meta EXCEPT !.uuid = TRUE]
        OBVIOUS
    <3>1. meta \in Metadata /\ meta.create
        BY <1>2, <1>3, <2>1 DEF Metadata
    <3>2. shipment' = [shipment EXCEPT !.status = answer, !.document = TRUE,
                                       !.watched = answer \notin Terminal, !.meta = meta]
        BY <2>1 DEF WriteCreate
    <3>3. (answer \notin Terminal) \in BOOLEAN
        OBVIOUS
    <3>. QED
        BY <1>1, <1>2, <2>1, <3>1, <3>2, <3>3 DEF TypeOK, Marked
  <2>2. CASE result # "SUCCEEDED"
    <3>1. shipment' = [shipment EXCEPT !.status = answer]
        BY <2>2 DEF WriteCreate
    <3>. QED
        BY <1>1, <1>2, <2>2, <3>1 DEF TypeOK
  <2>. QED
      BY <2>1, <2>2
<1>7. TypeOK'
    BY <1>1, <1>5, <1>6, WorkRests DEF TypeOK, outside, rest
<1>8. Marked => Marked'
    BY <1>6 DEF Marked
<1>9. result # "SUCCEEDED" => Marked' = Marked
    BY <1>6 DEF Marked
<1>10. MarkFits'
  <2>1. (~Marked' => waybills' = 0) /\ waybills' <= 1
      BY <1>8 DEF IInv, MarkFits, outside
  <2>2. /\ attempt'[Create].status \in {"NONE", "PENDING", "RETRYABLE"} => ~Marked'
        /\ attempt'[Create].status = "UNKNOWN" => Marked'
      BY <1>2, <1>3, <1>5, <1>9
  <2>3. shipment'.document => Marked'
      BY <1>6, <1>9 DEF IInv, MarkFits
  <2>4. shipment'.status # "DRAFT"
      BY <1>2, <1>6
  <2>. QED
      BY <2>1, <2>2, <2>3, <2>4 DEF MarkFits
<1>11. ParcelFits'
  <2>1. shipment'.document => parcel # "NONE"
      BY <1>2, <1>6 DEF IInv, ParcelFits
  <2>. QED
      BY <2>1 DEF IInv, ParcelFits, outside, rest
<1>12. CreatingHasAttempt'
    BY <1>2, <1>5, <1>6, StatusKinds DEF CreatingHasAttempt
<1>13. CancelledIsDeleted'
    BY <1>2, <1>6 DEF CancelledIsDeleted, outside
<1>. QED
    BY <1>4, <1>7, <1>8, <1>10, <1>11, <1>12, <1>13, SettlesCreation

\* A cancellation or a status that is written leaves marker and creation alone.
LEMMA WritesOther ==
    ASSUME Bounds, IInv, NEW w \in Workers, ~Creating(w), Rests(w), UNCHANGED <<outside, rest>>,
           NEW status \in AttemptStatus, attempt' = Settled(worker[w].key, status),
           shipment' \in [status : ShipmentStatus, version : Nat, document : BOOLEAN, meta : Metadata, watched : BOOLEAN],
           shipment'.meta.create = Marked, shipment'.document = shipment.document,
           \/ shipment'.status = shipment.status
           \/ shipment'.status \in Known /\ (shipment'.status = "CANCELLED" => parcel = "CANCELLED")
    PROVE  IInv'
<1>1. TypeOK /\ worker[w].key \in Keys \ {Create}
    BY DEF IInv, TypeOK, Work, Creating
<1>2. attempt' \in [Keys -> Attempt] /\ attempt'[Create] = attempt[Create]
    BY <1>1, Settling, KeyKinds
<1>3. Marked' = Marked
    BY DEF Marked
<1>4. TypeOK'
    BY <1>1, <1>2, WorkRests DEF TypeOK, outside, rest
<1>5. \A v \in Workers \ {w} : worker'[v] = worker[v]
    BY <1>1, WorkRests
<1>6. WorkerFits(w)' /\ AnswerFits(w)' /\ ~Claimed(w)'
    BY <1>1, RestFits
<1>7. ASSUME NEW v \in Workers, v # w
      PROVE  WorkerFits(v)' /\ AnswerFits(v)'
    BY <1>2, <1>3, <1>5, <1>7, OthersFit, OthersAnswer DEF IInv, outside
<1>8. ClaimsAreOnes'
    BY <1>5, <1>6, ClaimsStay DEF IInv
<1>9. MarkFits' /\ ParcelFits' /\ CreatingHasAttempt' /\ CancelledIsDeleted'
    BY <1>2, <1>3, StatusKinds
       DEF IInv, MarkFits, ParcelFits, CreatingHasAttempt, CancelledIsDeleted, outside, rest
<1>. QED
    BY <1>4, <1>6, <1>7, <1>8, <1>9 DEF IInv

LEMMA WriteCancelStep ==
    ASSUME Bounds, IInv, NEW w \in Workers, worker[w].phase = "writing", Owns(w),
           WriteCancel(w), Rests(w), UNCHANGED <<outside, rest>>
    PROVE  IInv'
<1>. PICK result : result = worker[w].result
    OBVIOUS
<1>. PICK answer : answer = worker[w].answer
    OBVIOUS
<1>1. TypeOK /\ WorkerFits(w) /\ AnswerFits(w) /\ Claimed(w) /\ worker[w] \in Work /\ ~Creating(w)
    BY KeyKinds DEF IInv, TypeOK, Claimed, Creating, WriteCancel
<1>2. /\ result \in {"SUCCEEDED", "RETRYABLE", "FAILED", "CONFLICT"}
      /\ answer \in ShipmentStatus /\ worker[w].meta \in Metadata
      /\ result \in {"SUCCEEDED", "CONFLICT"} => answer \in Known /\ (answer = "CANCELLED" => parcel = "CANCELLED")
    BY <1>1 DEF AnswerFits, Work
<1>3. worker[w].meta.create = Marked
  <2>1. worker[w].meta.create /\ Marked
      BY <1>1 DEF WorkerFits, PhaseFits, Claimed
  <2>. QED
      BY <1>1, <1>2, <2>1 DEF Metadata, Marked, TypeOK
<1>. PICK status : status = IF result = "CONFLICT" THEN "FAILED" ELSE result
    OBVIOUS
<1>4. attempt' = Settled(worker[w].key, status) /\ status \in AttemptStatus
    BY <1>2 DEF WriteCancel, AttemptStatus, Open
<1>5. CASE result \in {"SUCCEEDED", "CONFLICT"}
  <2>1. shipment' = [shipment EXCEPT !.status = answer, !.watched = FALSE, !.meta = worker[w].meta,
                                       !.version = shipment.version + 1]
      BY <1>5 DEF WriteCancel
  <2>. shipment.version + 1 \in Nat
      BY <1>1 DEF TypeOK
  <2>2. /\ shipment' \in [status : ShipmentStatus, version : Nat, document : BOOLEAN, meta : Metadata, watched : BOOLEAN]
        /\ shipment'.meta = worker[w].meta /\ shipment'.document = shipment.document /\ shipment'.status = answer
      BY <1>1, <1>2, <2>1 DEF TypeOK
  <2>. QED
      BY <1>1, <1>2, <1>3, <1>4, <1>5, <2>2, WritesOther
<1>6. CASE result \notin {"SUCCEEDED", "CONFLICT"}
  <2>1. shipment' = shipment
      BY <1>6 DEF WriteCancel
  <2>. QED
      BY <1>1, <1>4, <2>1, WritesOther DEF TypeOK, Marked
<1>. QED
    BY <1>5, <1>6

LEMMA WriteTrackedStep ==
    ASSUME Bounds, IInv, NEW w \in Workers, worker[w].phase = "writing", Owns(w),
           WriteTracked(w), Rests(w), UNCHANGED <<outside, rest>>
    PROVE  IInv'
<1>. PICK result : result = worker[w].result
    OBVIOUS
<1>. PICK answer : answer = worker[w].answer
    OBVIOUS
<1>1. TypeOK /\ WorkerFits(w) /\ AnswerFits(w) /\ Claimed(w) /\ worker[w] \in Work /\ ~Creating(w)
    BY KeyKinds DEF IInv, TypeOK, Claimed, Creating, WriteTracked
<1>2. /\ result \in {"SUCCEEDED", "RETRYABLE", "FAILED"} /\ result \in AttemptStatus
      /\ answer \in ShipmentStatus /\ worker[w].meta \in Metadata
      /\ result = "SUCCEEDED" => answer \in Known /\ (answer = "CANCELLED" => parcel = "CANCELLED")
    BY <1>1 DEF AnswerFits, Work, WriteTracked, AttemptStatus, Open
<1>3. worker[w].meta.create = Marked
  <2>1. worker[w].meta.create /\ Marked
      BY <1>1 DEF WorkerFits, PhaseFits, Claimed
  <2>. QED
      BY <1>1, <1>2, <2>1 DEF Metadata, Marked, TypeOK
<1>4. CASE result = "SUCCEEDED" /\ ~Fits(w)
    BY <1>4, LostClaim DEF WriteTracked
<1>5. CASE result = "SUCCEEDED" /\ Fits(w)
  <2>1. /\ shipment' = [shipment EXCEPT !.status = answer, !.meta = worker[w].meta,
                                        !.watched = answer \notin Terminal, !.version = shipment.version + 1]
        /\ attempt' = Settled(worker[w].key, result)
      BY <1>5 DEF WriteTracked
  <2>2. (answer \notin Terminal) \in BOOLEAN /\ shipment.version + 1 \in Nat
      BY <1>1 DEF TypeOK
  <2>3. /\ shipment' \in [status : ShipmentStatus, version : Nat, document : BOOLEAN, meta : Metadata, watched : BOOLEAN]
        /\ shipment'.meta = worker[w].meta /\ shipment'.document = shipment.document /\ shipment'.status = answer
      BY <1>1, <1>2, <2>1, <2>2 DEF TypeOK
  <2>. QED
      BY <1>1, <1>2, <1>3, <1>5, <2>1, <2>3, WritesOther
<1>6. CASE result # "SUCCEEDED"
  <2>1. shipment' = [shipment EXCEPT !.watched = (result = "RETRYABLE")] /\ attempt' = Settled(worker[w].key, result)
      BY <1>6 DEF WriteTracked
  <2>2. (result = "RETRYABLE") \in BOOLEAN
      OBVIOUS
  <2>3. /\ shipment' \in [status : ShipmentStatus, version : Nat, document : BOOLEAN, meta : Metadata, watched : BOOLEAN]
        /\ shipment'.meta = shipment.meta /\ shipment'.document = shipment.document
        /\ shipment'.status = shipment.status
      BY <1>1, <2>1, <2>2 DEF TypeOK
  <2>. QED
      BY <1>1, <1>2, <2>1, <2>3, WritesOther DEF Marked
<1>. QED
    BY <1>4, <1>5, <1>6

LEMMA WriteStep ==
    ASSUME Bounds, IInv, NEW w \in Workers, Write(w)
    PROVE  IInv'
<1>1. worker[w].phase = "writing" /\ Rests(w) /\ UNCHANGED <<outside, rest>>
    BY DEF Write
<1>2. CASE ~Owns(w)
    BY <1>1, <1>2, LostClaim DEF Write
<1>3. CASE Owns(w)
  <2>1. WriteCreate(w) \/ WriteCancel(w) \/ WriteTracked(w)
      BY <1>3 DEF Write
  <2>2. WriteCreate(w) => Creating(w)
      BY DEF WriteCreate, Creating
  <2>. QED
      BY <1>1, <1>3, <2>1, <2>2, WriteCreateStep, WriteCancelStep, WriteTrackedStep
<1>. QED
    BY <1>2, <1>3

-----------------------------------------------------------------------------
(* The theorems                                                             *)

LEMMA InitInv ==
    ASSUME Bounds, Init
    PROVE  IInv
<1>1. TypeOK
  <2>1. shipment \in [status : ShipmentStatus, version : Nat, document : BOOLEAN, meta : Metadata, watched : BOOLEAN]
      BY DEF Init, ShipmentStatus, Metadata, NoMetadata
  <2>2. NoAttempt \in Attempt
      BY DEF NoAttempt, Attempt, AttemptStatus, Bounds
  <2>3. attempt \in [Keys -> Attempt] /\ worker \in [Workers -> Work]
      BY <2>2, IdleType DEF Init
  <2>4. asked \in Versions \cup {-1} /\ frozen \in BOOLEAN
      BY DEF Init
  <2>5. {freezes, lost, waybills} \subseteq Nat
      BY DEF Init
  <2>6. parcel \in Moving \cup Terminal \cup {"NONE"} /\ seen \subseteq Moving \cup Terminal
      BY DEF Init
  <2>. QED
      BY <2>1, <2>3, <2>4, <2>5, <2>6 DEF TypeOK
<1>2. ASSUME NEW w \in Workers
      PROVE  WorkerFits(w) /\ AnswerFits(w) /\ ~Claimed(w)
  <2>1. worker[w].phase = "idle" /\ worker[w].meta.create = FALSE
      BY DEF Init, Idle, NoMetadata
  <2>. QED
      BY <2>1 DEF WorkerFits, PhaseFits, ReadFits, ClaimFits, AnswerFits, Claimed
<1>3. MarkFits /\ ParcelFits /\ CreatingHasAttempt /\ CancelledIsDeleted
    BY KeyKinds
       DEF Init, MarkFits, ParcelFits, CreatingHasAttempt, CancelledIsDeleted, Marked, NoMetadata, NoAttempt
<1>. QED
    BY <1>1, <1>2, <1>3 DEF IInv, ClaimsAreOnes

LEMMA WorkerStepInv ==
    ASSUME Bounds, IInv, NEW w \in Workers, WorkerStep(w)
    PROVE  IInv'
<1>1. CASE \E k \in Keys : Read(w, k)
    BY <1>1, ReadStep
<1>2. CASE Claim(w)
    BY <1>2, ClaimStep
<1>3. CASE ClaimFrozen(w)
    BY <1>3, ClaimFrozenStep
<1>4. CASE Creates(w)
    BY <1>4, PrepareStep, PrepareFailsStep, CheckFreezeStep, MarkStep, PostAcceptedStep, PostRefusedStep,
       PostUnknownStep, KeepStep, LookUpStep DEF Creates, Creating
<1>5. CASE Cancels(w)
    BY <1>5, AskLifecycleStep, CheckFreezeStep, MarkDeleteStep, DeleteStep, CancelFailsStep DEF Cancels, Creating
<1>6. CASE Track(w) \/ TrackFails(w)
    BY <1>6, TrackStep, TrackFailsStep
<1>7. CASE Write(w)
    BY <1>7, WriteStep
<1>. QED
    BY <1>1, <1>2, <1>3, <1>4, <1>5, <1>6, <1>7 DEF WorkerStep

LEMMA NextInv ==
    ASSUME Bounds, IInv, [Next]_vars
    PROVE  IInv'
<1>1. CASE CreateShipment \/ CancelRead \/ CancelWrite \/ Reconcile
    BY <1>1, CreateShipmentStep, CancelReadStep, CancelWriteStep, ReconcileStep
<1>2. CASE \E w \in Workers : WorkerStep(w) \/ Crash(w)
    BY <1>2, WorkerStepInv, CrashStep
<1>3. CASE \E k \in Keys : ExpireLease(k)
    BY <1>3, ExpireLeaseStep
<1>4. CASE Freeze \/ ParcelMoves
    BY <1>4, FreezeStep, ParcelMovesStep
<1>5. CASE UNCHANGED vars
  <2>1. UNCHANGED <<shipment, attempt, worker, outside, rest>>
      BY <1>5 DEF vars, outside, rest
  <2>2. TypeOK'
      BY <2>1 DEF IInv, TypeOK, outside, rest
  <2>3. frozen => freezes > 0
      BY DEF IInv, ParcelFits
  <2>. QED
      BY <2>1, <2>2, <2>3, NothingChanges DEF rest
<1>. QED
    BY <1>1, <1>2, <1>3, <1>4, <1>5 DEF Next

LEMMA Invariant ==
    ASSUME Bounds
    PROVE  Spec => []IInv
<1>1. Init => IInv
    BY InitInv
<1>2. IInv /\ [Next]_vars => IInv'
    BY NextInv
<1>. QED
    BY <1>1, <1>2, PTL DEF Spec

\* Every field keeps its type and every bound is kept.
THEOREM TypeCorrect ==
    ASSUME Bounds
    PROVE  Spec => []TypeOK
<1>1. IInv => TypeOK
    BY DEF IInv
<1>. QED
    BY <1>1, Invariant, PTL

\* "No retry path can cross it a second time": whatever times out, crashes, loses
\* its lease or is frozen, one parcel at most is made for the shipment.
THEOREM OneParcelIsMade ==
    ASSUME Bounds
    PROVE  Spec => []OneParcel
<1>1. IInv => OneParcel
    BY DEF IInv, MarkFits, OneParcel
<1>. QED
    BY <1>1, Invariant, PTL

\* A shipment being created keeps an attempt that a worker takes again, until the
\* tenant's data deletion was requested.
THEOREM CreationsAreTaken ==
    ASSUME Bounds
    PROVE  Spec => []CreatingHasAttempt
<1>1. IInv => CreatingHasAttempt
    BY DEF IInv
<1>. QED
    BY <1>1, Invariant, PTL

\* A shipment that reads CANCELLED has no parcel on its way.
THEOREM CancelledShipmentsAreDeleted ==
    ASSUME Bounds
    PROVE  Spec => []CancelledIsDeleted
<1>1. IInv => CancelledIsDeleted
    BY DEF IInv
<1>. QED
    BY <1>1, Invariant, PTL

-----------------------------------------------------------------------------
(* The way of the shipment                                                  *)

\* Only a shipment without a document is being created ...
OpenCreation == Open \cup {"UNKNOWN", "PROCESSING"}
Stages ==
    /\ shipment.document => attempt[Create].status = "SUCCEEDED"
    /\ attempt[Create].status \in OpenCreation => shipment.status = "CREATING"

\* ... only one with a document is followed or cancelled, and what tracking is
\* to write lies ahead of the status it read.
Follows(w) == (worker[w].phase # "idle" /\ ~Creating(w)) => shipment.document
Ahead(w) ==
    (worker[w].phase = "writing" /\ worker[w].key[1] = "STATUS_SYNC" /\ worker[w].result = "SUCCEEDED") =>
        worker[w].answer = worker[w].was \/ Way[worker[w].answer] > Way[worker[w].was]

Progress == Stages /\ \A w \in Workers : Follows(w) /\ Ahead(w)

LEMMA AdvanceGoesAhead ==
    ASSUME NEW current \in Moving, NEW mapped \in Known
    PROVE  Advance(current, mapped) = current \/ Way[Advance(current, mapped)] > Way[current]
BY DEF Advance, Way, Known, Moving, Terminal

LEMMA RestProgress ==
    ASSUME Bounds, TypeOK, NEW w \in Workers, Rests(w)
    PROVE  Follows(w)' /\ Ahead(w)'
BY WorkRests DEF Follows, Ahead

\* A step of one worker that leaves the shipment's stage as it is.
LEMMA SameStage ==
    ASSUME Progress, NEW w \in Workers, \A v \in Workers \ {w} : worker'[v] = worker[v],
           attempt'[Create].status = attempt[Create].status,
           shipment'.document = shipment.document, shipment'.status = shipment.status,
           Follows(w)', Ahead(w)'
    PROVE  Progress'
<1>1. Stages'
    BY DEF Progress, Stages
<1>2. ASSUME NEW v \in Workers, v # w
      PROVE  Follows(v)' /\ Ahead(v)'
    BY <1>2 DEF Progress, Follows, Ahead, Creating
<1>. QED
    BY <1>1, <1>2 DEF Progress

\* A step after which no worker knows more than it did.
LEMMA NewStage ==
    ASSUME Progress, Stages', \A v \in Workers : worker'[v] = worker[v] \/ (Follows(v)' /\ Ahead(v)'),
           shipment.document => shipment'.document
    PROVE  Progress'
BY DEF Progress, Follows, Ahead, Creating

LEMMA GoesProgress ==
    ASSUME IInv, Progress, NEW w \in Workers, NEW phase \in Phase \ {"writing"}, worker[w].phase # "idle",
           Goes(w, phase), UNCHANGED <<shipment, attempt>>
    PROVE  Progress'
<1>1. \A v \in Workers \ {w} : worker'[v] = worker[v]
    BY WorkGoes DEF IInv
<1>2. worker'[w].phase = phase /\ worker'[w].key = worker[w].key
    BY WorkGoes DEF IInv, Keeps
<1>3. Follows(w)' /\ Ahead(w)'
    BY <1>2 DEF Progress, Follows, Ahead, Creating
<1>. QED
    BY <1>1, <1>3, SameStage

LEMMA EndsProgress ==
    ASSUME IInv, Progress, NEW w \in Workers, NEW result \in Results, NEW answer \in ShipmentStatus,
           worker[w].phase # "idle", Ends(w, result, answer),
           (worker[w].key[1] = "STATUS_SYNC" /\ result = "SUCCEEDED") =>
               answer = worker[w].was \/ Way[answer] > Way[worker[w].was],
           attempt' = attempt, shipment'.document = shipment.document, shipment'.status = shipment.status
    PROVE  Progress'
<1>1. \A v \in Workers \ {w} : worker'[v] = worker[v]
    BY WorkEnds DEF IInv
<1>2. /\ worker'[w].phase = "writing" /\ worker'[w].result = result /\ worker'[w].answer = answer
      /\ worker'[w].key = worker[w].key /\ worker'[w].was = worker[w].was
    BY WorkEnds DEF IInv, Keeps
<1>3. Follows(w)' /\ Ahead(w)'
    BY <1>2 DEF Progress, Follows, Ahead, Creating
<1>. QED
    BY <1>1, <1>3, SameStage

LEMMA RestsProgress ==
    ASSUME Bounds, IInv, Progress, NEW w \in Workers, Rests(w),
           attempt'[Create].status = attempt[Create].status,
           shipment'.document = shipment.document, shipment'.status = shipment.status
    PROVE  Progress'
<1>1. \A v \in Workers \ {w} : worker'[v] = worker[v]
    BY WorkRests DEF IInv
<1>. QED
    BY <1>1, RestProgress, SameStage DEF IInv

\* An open creation is settled: nobody follows or cancels its shipment yet.
LEMMA SettlesProgress ==
    ASSUME Bounds, IInv, Progress, NEW w \in Workers, Rests(w), attempt[Create].status \in OpenCreation, Stages'
    PROVE  Progress'
<1>1. ~shipment.document
    BY DEF Progress, Stages, OpenCreation, Open
<1>2. \A v \in Workers : worker'[v] = worker[v] \/ (Follows(v)' /\ Ahead(v)')
    BY WorkRests, RestProgress DEF IInv
<1>. QED
    BY <1>1, <1>2, NewStage

LEMMA CheckpointProgress ==
    ASSUME Bounds, IInv, Progress, NEW w \in Workers, NEW meta \in Metadata, NEW then \in Phase \ {"writing"},
           worker[w].phase # "idle", Checkpoint(w, meta, then)
    PROVE  Progress'
<1>1. CASE ~Renewable(w)
    BY <1>1, RestsProgress DEF Checkpoint
<1>2. CASE Renewable(w)
  <2>1. /\ \A v \in Workers \ {w} : worker'[v] = worker[v]
        /\ worker'[w].phase = then /\ worker'[w].key = worker[w].key
        /\ shipment' = [shipment EXCEPT !.meta = meta] /\ attempt' = attempt
      BY <1>2, Checkpoints DEF IInv, Keeps
  <2>2. shipment'.document = shipment.document /\ shipment'.status = shipment.status
      BY <2>1 DEF IInv, TypeOK
  <2>3. Follows(w)' /\ Ahead(w)'
      BY <2>1, <2>2 DEF Progress, Follows, Ahead, Creating
  <2>. QED
      BY <2>1, <2>2, <2>3, SameStage
<1>. QED
    BY <1>1, <1>2

LEMMA ReadProgress ==
    ASSUME Bounds, IInv, Progress, NEW w \in Workers, NEW k \in Keys, Read(w, k)
    PROVE  Progress'
<1>. PICK new : new = [Idle EXCEPT !.phase = "read", !.key = k,
                         !.candidate = [status |-> attempt[k].status, attempts |-> attempt[k].attempts],
                         !.was = shipment.status, !.version = shipment.version, !.meta = shipment.meta]
    OBVIOUS
<1>1. worker' = [worker EXCEPT ![w] = new] /\ worker \in [Workers -> Work] /\ UNCHANGED <<shipment, attempt>>
    BY DEF Read, IInv, TypeOK
<1>2. new.phase = "read" /\ new.key = k
    BY DEF Idle
<1>3. k # Create => shipment.document
    BY KeyKinds DEF Read, Wanted
<1>4. Follows(w)' /\ Ahead(w)'
    BY <1>1, <1>2, <1>3 DEF Follows, Ahead, Creating
<1>. QED
    BY <1>1, <1>4, SameStage

LEMMA ClaimProgress ==
    ASSUME Bounds, IInv, Progress, NEW w \in Workers, Claim(w)
    PROVE  Progress'
<1>. PICK k : k = worker[w].key
    OBVIOUS
<1>1. TypeOK /\ WorkerFits(w) /\ k \in Keys /\ worker[w].phase = "read"
    BY DEF IInv, TypeOK, Work, Claim
<1>2. CASE Unchanged(w) /\ (attempt[k].status = "PROCESSING" => attempt[k].expired)
  <2>0. attempt'[k] = [status |-> "PROCESSING", attempts |-> attempt[k].attempts + 1, expired |-> FALSE]
      BY <1>1, <1>2, Claims
  <2>1. /\ attempt'[k].status = "PROCESSING" /\ \A j \in Keys \ {k} : attempt'[j] = attempt[j]
        /\ \A v \in Workers \ {w} : worker'[v] = worker[v]
        /\ worker'[w].key = k /\ worker'[w].phase = Starts(w).phase
        /\ UNCHANGED <<shipment, outside, rest>>
      BY <1>1, <1>2, <2>0, Claims
  <2>2. Follows(w)'
      BY <1>1, <2>1 DEF Progress, Follows, Creating
  <2>3. Ahead(w)'
      BY <1>1, <2>1 DEF Ahead, Starts
  <2>4. Stages'
    <3>1. CASE k = Create
      <4>1. attempt[Create].status \in OpenCreation
          BY <1>1, <1>2, <3>1 DEF WorkerFits, ReadFits, Unchanged, Creating, OpenCreation, Open
      <4>. QED
          BY <2>1, <3>1, <4>1 DEF Progress, Stages, OpenCreation, Open
    <3>2. CASE k # Create
        BY <2>1, <3>2, KeyKinds DEF Progress, Stages
    <3>. QED
        BY <3>1, <3>2
  <2>. QED
      BY <2>1, <2>2, <2>3, <2>4, NewStage
<1>3. CASE ~(Unchanged(w) /\ (attempt[k].status = "PROCESSING" => attempt[k].expired))
  <2>1. Rests(w) /\ UNCHANGED <<shipment, attempt>>
      BY <1>3 DEF Claim
  <2>. QED
      BY <2>1, RestsProgress
<1>. QED
    BY <1>2, <1>3

LEMMA ClaimFrozenProgress ==
    ASSUME Bounds, IInv, Progress, NEW w \in Workers, ClaimFrozen(w)
    PROVE  Progress'
<1>1. Rests(w) /\ TypeOK /\ WorkerFits(w) /\ worker[w].phase = "read" /\ Creating(w)
    BY DEF ClaimFrozen, MeetsFreeze, IInv, Creating
<1>2. CASE ~Unchanged(w)
    BY <1>1, <1>2, RestsProgress DEF ClaimFrozen
<1>3. CASE Unchanged(w)
  <2>1. attempt' = Settled(Create, "FAILED") /\ "FAILED" \in AttemptStatus
      BY <1>3 DEF ClaimFrozen, AttemptStatus
  <2>2. attempt'[Create].status = "FAILED"
      BY <1>1, <2>1, KeyKinds, Settling
  <2>3. shipment'.document = shipment.document
      BY <1>1, <1>3 DEF ClaimFrozen, TypeOK
  <2>4. attempt[Create].status \in OpenCreation
      BY <1>1, <1>3 DEF WorkerFits, ReadFits, Unchanged, Creating, OpenCreation, Open
  <2>5. Stages'
      BY <2>2, <2>3, <2>4 DEF Progress, Stages, OpenCreation, Open
  <2>. QED
      BY <1>1, <2>4, <2>5, SettlesProgress
<1>. QED
    BY <1>2, <1>3

LEMMA CheckFreezeProgress ==
    ASSUME Bounds, IInv, Progress, NEW w \in Workers, worker[w].phase # "idle", CheckFreeze(w, "marking")
    PROVE  Progress'
<1>1. CASE ~frozen
    BY <1>1, GoesProgress DEF CheckFreeze, Phase
<1>2. CASE frozen
  <2>1. /\ Rests(w) /\ shipment' = shipment /\ TypeOK /\ worker[w].key \in Keys /\ "FAILED" \in AttemptStatus
        /\ attempt' = IF Owns(w) THEN Settled(worker[w].key, "FAILED") ELSE attempt
      BY <1>2 DEF CheckFreeze, IInv, TypeOK, Work, AttemptStatus
  <2>2. CASE ~(Owns(w) /\ Creating(w))
    <3>1. attempt'[Create] = attempt[Create]
        BY <2>1, <2>2, Settling, KeyKinds DEF Creating
    <3>. QED
        BY <2>1, <3>1, RestsProgress
  <2>3. CASE Owns(w) /\ Creating(w)
    <3>1. attempt'[Create].status = "FAILED" /\ attempt[Create].status = "PROCESSING"
        BY <2>1, <2>3, Settling DEF Creating, Owns
    <3>2. Stages'
        BY <2>1, <3>1 DEF Progress, Stages, OpenCreation, Open
    <3>. QED
        BY <2>1, <3>1, <3>2, SettlesProgress DEF OpenCreation
  <2>. QED
      BY <2>2, <2>3
<1>. QED
    BY <1>1, <1>2

\* What a write does to the shipment's stage.
LEMMA WriteProgress ==
    ASSUME Bounds, IInv, Progress, NEW w \in Workers, Write(w)
    PROVE  Progress'
<1>1. /\ worker[w].phase = "writing" /\ Rests(w) /\ TypeOK /\ WorkerFits(w) /\ AnswerFits(w)
      /\ worker[w] \in Work /\ Follows(w)
    BY DEF Write, IInv, TypeOK, Progress
<1>. PICK result : result = worker[w].result
    OBVIOUS
<1>2. CASE ~Owns(w)
    BY <1>1, <1>2, RestsProgress DEF Write
<1>3. CASE Owns(w) /\ WriteCreate(w)
  <2>1. Creating(w) /\ attempt[Create].status = "PROCESSING"
      BY <1>3 DEF WriteCreate, Creating, Owns
  <2>2. /\ result \in {"SUCCEEDED", "RETRYABLE", "UNKNOWN", "FAILED"}
        /\ result \in {"RETRYABLE", "UNKNOWN"} => worker[w].answer = "CREATING"
      BY <1>1, <2>1, KeyKinds DEF AnswerFits, Work, Creating
  <2>3. attempt' = Settled(Create, result) /\ result \in AttemptStatus
      BY <1>3, <2>2 DEF WriteCreate, AttemptStatus, Open
  <2>4. attempt'[Create].status = result
      BY <1>1, <2>3, Settling, KeyKinds
  <2>5. ~shipment.document
      BY <2>1 DEF Progress, Stages
  <2>6. result # "SUCCEEDED" => shipment'.document = shipment.document /\ shipment'.status = worker[w].answer
      BY <1>1, <1>3 DEF WriteCreate, TypeOK
  <2>7. Stages'
      BY <2>2, <2>4, <2>5, <2>6 DEF Stages, OpenCreation, Open
  <2>. QED
      BY <1>1, <2>1, <2>7, SettlesProgress DEF OpenCreation
<1>4. CASE Owns(w) /\ (WriteCancel(w) \/ WriteTracked(w))
  <2>1. ~Creating(w) /\ worker[w].key \in Keys \ {Create}
      BY <1>1, <1>4, KeyKinds DEF WriteCancel, WriteTracked, Creating, Work
  <2>2. shipment.document /\ attempt[Create].status = "SUCCEEDED"
      BY <1>1, <2>1 DEF Follows, Progress, Stages
  <2>3. attempt' = attempt \/ \E status \in AttemptStatus : attempt' = Settled(worker[w].key, status)
    <3>1. result # "CONFLICT" /\ result # "NONE" => result \in AttemptStatus
        BY <1>1 DEF Work, AttemptStatus, Open
    <3>2. result # "NONE" /\ (result = "CONFLICT" => worker[w].key[1] = "CANCEL") /\ "FAILED" \in AttemptStatus
        BY <1>1 DEF AnswerFits, AttemptStatus
    <3>3. CASE WriteCancel(w)
        BY <3>1, <3>2, <3>3 DEF WriteCancel
    <3>4. CASE WriteTracked(w)
        BY <3>1, <3>2, <3>4 DEF WriteTracked
    <3>. QED
        BY <1>4, <3>3, <3>4
  <2>4. attempt'[Create] = attempt[Create]
      BY <1>1, <2>1, <2>3, Settling, KeyKinds
  <2>5. shipment'.document = shipment.document
      BY <1>1, <1>4 DEF WriteCancel, WriteTracked, TypeOK
  <2>6. Stages'
      BY <2>2, <2>4, <2>5 DEF Stages, OpenCreation, Open
  <2>7. \A v \in Workers : worker'[v] = worker[v] \/ (Follows(v)' /\ Ahead(v)')
      BY <1>1, WorkRests, RestProgress
  <2>. QED
      BY <2>5, <2>6, <2>7, NewStage
<1>. QED
    BY <1>1, <1>2, <1>3, <1>4 DEF Write

\* A step that is not a worker's.
LEMMA OtherProgress ==
    ASSUME Progress, worker' = worker, attempt'[Create].status = attempt[Create].status,
           shipment'.document = shipment.document, shipment'.status = shipment.status
    PROVE  Progress'
<1>1. Stages'
    BY DEF Progress, Stages
<1>. QED
    BY <1>1, NewStage

LEMMA CreatesProgress ==
    ASSUME Bounds, IInv, Progress, NEW w \in Workers, Creates(w)
    PROVE  Progress'
<1>1. TypeOK /\ worker[w] \in Work /\ worker[w].meta \in Metadata /\ WorkerFits(w)
    BY DEF IInv, TypeOK, Work
<1>2. worker[w].phase \in {"preparing", "posting", "keeping", "looking"} => worker[w].key[1] = "CREATE"
    BY <1>1, KeyKinds DEF WorkerFits, PhaseFits, Creating
<1>3. CASE Prepare(w)
    BY <1>1, <1>3, CheckpointProgress DEF Prepare, Phase
<1>4. CASE PrepareFails(w)
  <2>1. Ends(w, "RETRYABLE", "CREATING") \/ Ends(w, "FAILED", "FAILED")
      BY <1>4 DEF PrepareFails
  <2>. QED
      BY <1>4, <2>1, StatusKinds, EndsProgress DEF PrepareFails, Results
<1>5. CASE Prepared(w)
    BY <1>5, CheckFreezeProgress DEF Prepared
<1>6. CASE Mark(w)
  <2>1. [worker[w].meta EXCEPT !.create = TRUE] \in Metadata
      BY <1>1 DEF Metadata
  <2>. QED
      BY <1>6, <2>1, CheckpointProgress DEF Mark, Phase
<1>7. CASE PostAccepted(w)
  <2>. PICK new : new = [worker[w] EXCEPT !.phase = "keeping", !.meta.uuid = TRUE]
      OBVIOUS
  <2>1. /\ worker' = [worker EXCEPT ![w] = new] /\ worker \in [Workers -> Work] /\ worker[w].phase = "posting"
        /\ UNCHANGED <<shipment, attempt, rest>>
      BY <1>1, <1>7 DEF PostAccepted, TypeOK
  <2>2. new.phase = "keeping" /\ new.key = worker[w].key
      BY <1>1 DEF Work
  <2>3. Follows(w)' /\ Ahead(w)'
      BY <2>1, <2>2 DEF Progress, Follows, Ahead, Creating
  <2>. QED
      BY <2>1, <2>3, SameStage
<1>8. CASE PostRefused(w)
    BY <1>8, StatusKinds, EndsProgress DEF PostRefused, Results
<1>9. CASE PostUnknown(w)
    BY <1>9, StatusKinds, EndsProgress DEF PostUnknown, Results
<1>10. CASE Keep(w)
  <2>1. CASE ~Renewable(w)
      BY <1>10, <2>1, RestsProgress DEF Keep
  <2>2. CASE Renewable(w)
    <3>1. /\ Ends(w, "SUCCEEDED", "CREATED") /\ attempt' = attempt
          /\ shipment'.document = shipment.document /\ shipment'.status = shipment.status
        BY <1>1, <1>10, <2>2 DEF Keep, TypeOK
    <3>. QED
        BY <1>2, <1>10, <3>1, StatusKinds, EndsProgress DEF Keep, Results
  <2>. QED
      BY <2>1, <2>2
<1>11. CASE LookUp(w)
  <2>1. parcel \in ShipmentStatus
      BY <1>1, <1>11, StatusKinds DEF LookUp, TypeOK, Known
  <2>. QED
      BY <1>2, <1>11, <2>1, EndsProgress DEF LookUp, Results
<1>12. CASE LookUpFails(w)
    BY <1>12, StatusKinds, EndsProgress DEF LookUpFails, Results
<1>. QED
    BY <1>3, <1>4, <1>5, <1>6, <1>7, <1>8, <1>9, <1>10, <1>11, <1>12 DEF Creates

LEMMA CancelsProgress ==
    ASSUME Bounds, IInv, Progress, NEW w \in Workers, Cancels(w)
    PROVE  Progress'
<1>1. TypeOK /\ worker[w] \in Work /\ worker[w].meta \in Metadata /\ WorkerFits(w) /\ AnswerFits(w)
    BY DEF IInv, TypeOK, Work
<1>2. worker[w].phase \in {"asking", "deleting"} => worker[w].key[1] = "CANCEL" /\ parcel \in Known
    BY <1>1, KeyKinds DEF WorkerFits, PhaseFits, AnswerFits, Creating, TypeOK, Known
<1>3. CASE AskLifecycle(w)
  <2>1. \/ Goes(w, "checking") \/ Ends(w, "CONFLICT", parcel)
        \/ Ends(w, "SUCCEEDED", "CANCELLED")
      BY <1>3 DEF AskLifecycle
  <2>2. worker[w].phase = "asking" /\ UNCHANGED <<shipment, attempt>>
      BY <1>3 DEF AskLifecycle
  <2>3. CASE Goes(w, "checking")
      BY <2>2, <2>3, GoesProgress DEF Phase
  <2>4. CASE Ends(w, "CONFLICT", parcel)
      BY <1>2, <2>2, <2>4, StatusKinds, EndsProgress DEF Results
  <2>5. CASE Ends(w, "SUCCEEDED", "CANCELLED")
      BY <1>2, <2>2, <2>5, StatusKinds, EndsProgress DEF Results
  <2>. QED
      BY <2>1, <2>3, <2>4, <2>5
<1>4. CASE CancelAllowed(w)
    BY <1>4, CheckFreezeProgress DEF CancelAllowed
<1>5. CASE MarkDelete(w)
  <2>1. [worker[w].meta EXCEPT !.delete = TRUE] \in Metadata
      BY <1>1 DEF Metadata
  <2>. QED
      BY <1>5, <2>1, CheckpointProgress DEF MarkDelete, Phase
<1>6. CASE Delete(w)
  <2>1. PICK result \in {"SUCCEEDED", "RETRYABLE", "FAILED"} : Ends(w, result, "CANCELLED")
      BY <1>6 DEF Delete
  <2>. QED
      BY <1>2, <1>6, <2>1, StatusKinds, EndsProgress DEF Delete, Results
<1>7. CASE CancelFails(w)
  <2>1. PICK result \in {"RETRYABLE", "FAILED"} : Ends(w, result, "CANCELLED")
      BY <1>7 DEF CancelFails
  <2>. QED
      BY <1>7, <2>1, StatusKinds, EndsProgress DEF CancelFails, Results
<1>. QED
    BY <1>3, <1>4, <1>5, <1>6, <1>7 DEF Cancels

LEMMA TracksProgress ==
    ASSUME Bounds, IInv, Progress, NEW w \in Workers, Track(w) \/ TrackFails(w)
    PROVE  Progress'
<1>1. worker[w].phase = "tracking" /\ worker[w].was \in Moving /\ UNCHANGED <<shipment, attempt>>
    BY DEF IInv, WorkerFits, PhaseFits, AnswerFits, Track, TrackFails
<1>2. CASE Track(w)
  <2>1. PICK mapped \in seen \cup {worker[w].was} : Ends(w, "SUCCEEDED", Advance(worker[w].was, mapped))
      BY <1>2 DEF Track
  <2>2. mapped \in Known
      BY <1>1, StatusKinds DEF IInv, TypeOK, Known
  <2>3. Advance(worker[w].was, mapped) \in {worker[w].was, mapped}
      BY <1>1 DEF Advance, Moving, Terminal
  <2>. QED
      BY <1>1, <2>1, <2>2, <2>3, StatusKinds, AdvanceGoesAhead, EndsProgress DEF Results
<1>3. CASE TrackFails(w)
  <2>1. PICK result \in {"RETRYABLE", "FAILED"} : Ends(w, result, worker[w].was)
      BY <1>3 DEF TrackFails
  <2>. QED
      BY <1>1, <2>1, StatusKinds, EndsProgress DEF Results
<1>. QED
    BY <1>2, <1>3

LEMMA CreateShipmentProgress ==
    ASSUME IInv, Progress, CreateShipment
    PROVE  Progress'
<1>1. attempt[Create].status = "NONE"
    BY DEF IInv, MarkFits, CreateShipment
<1>2. shipment'.document = shipment.document /\ shipment'.status = "CREATING" /\ worker' = worker
    BY DEF IInv, TypeOK, CreateShipment
<1>3. Stages'
    BY <1>1, <1>2 DEF Progress, Stages
<1>. QED
    BY <1>2, <1>3, NewStage

LEMMA AttemptProgress ==
    ASSUME IInv, Progress, CancelWrite \/ Reconcile \/ \E k \in Keys : ExpireLease(k), Bounds
    PROVE  Progress'
<1>1. worker' = worker /\ shipment' = shipment
    BY DEF CancelWrite, Reconcile, ExpireLease
<1>2. attempt'[Create].status = attempt[Create].status
  <2>1. TypeOK /\ Create \in Keys
      BY KeyKinds DEF IInv
  <2>2. CASE CancelWrite
    <3>1. Cancel(asked) # Create
        BY <2>1, <2>2, KeyKinds DEF CancelWrite, TypeOK
    <3>. QED
        BY <2>1, <2>2, <3>1 DEF CancelWrite, TypeOK
  <2>3. CASE Reconcile
    <3>1. StatusSync(shipment.version) # Create
        BY <2>1, <2>3, KeyKinds DEF Reconcile, TypeOK, Versions, Bounds
    <3>. QED
        BY <2>1, <2>3, <3>1 DEF Reconcile, TypeOK
  <2>4. CASE \E k \in Keys : ExpireLease(k)
    <3>. PICK k \in Keys : ExpireLease(k)
        BY <2>4
    <3>1. attempt' = [attempt EXCEPT ![k] = [attempt[k] EXCEPT !.expired = TRUE]] /\ attempt[k] \in Attempt
        BY <2>1 DEF ExpireLease, TypeOK
    <3>. QED
        BY <2>1, <3>1 DEF TypeOK, Attempt
  <2>. QED
      BY <2>2, <2>3, <2>4
<1>. QED
    BY <1>1, <1>2, OtherProgress

LEMMA NextProgress ==
    ASSUME Bounds, IInv, Progress, [Next]_vars
    PROVE  Progress'
<1>1. ASSUME NEW w \in Workers, WorkerStep(w) \/ Crash(w)
      PROVE  Progress'
  <2>1. CASE \E k \in Keys : Read(w, k)
      BY <2>1, ReadProgress
  <2>2. CASE Crash(w)
      BY <2>2, RestsProgress DEF Crash
  <2>. QED
      BY <1>1, <2>1, <2>2, ClaimProgress, ClaimFrozenProgress, CreatesProgress, CancelsProgress, TracksProgress,
         WriteProgress DEF WorkerStep
<1>2. CASE CancelRead \/ Freeze \/ ParcelMoves \/ UNCHANGED vars
  <2>1. UNCHANGED <<shipment, attempt, worker>>
      BY <1>2 DEF CancelRead, Freeze, ParcelMoves, vars
  <2>. QED
      BY <2>1, OtherProgress
<1>. QED
    BY <1>1, <1>2, CreateShipmentProgress, AttemptProgress DEF Next

\* The steps that change the shipment's status, and from what.
LEMMA StatusChanges ==
    ASSUME Bounds, IInv, Progress, Next, shipment'.status # shipment.status
    PROVE  \/ shipment.status \in {"DRAFT", "CREATING"}
           \/ \E w \in Workers : Write(w) /\ Owns(w)
<1>1. ASSUME NEW w \in Workers, ClaimFrozen(w)
      PROVE  shipment.status = "CREATING"
  <2>1. WorkerFits(w) /\ worker[w].phase = "read" /\ Creating(w) /\ Unchanged(w)
      BY <1>1 DEF ClaimFrozen, MeetsFreeze, IInv, Creating
  <2>. QED
      BY <2>1 DEF WorkerFits, ReadFits, Unchanged, Creating, Progress, Stages, OpenCreation, Open
<1>2. ASSUME NEW w \in Workers, NEW meta, NEW then, Checkpoint(w, meta, then)
      PROVE  shipment'.status = shipment.status
    BY <1>2 DEF Checkpoint, IInv, TypeOK
<1>3. ASSUME NEW w \in Workers, Creates(w)
      PROVE  shipment'.status = shipment.status
  <2>1. (Prepare(w) \/ Mark(w)) => shipment'.status = shipment.status
      BY <1>2 DEF Prepare, Mark
  <2>2. Keep(w) => shipment'.status = shipment.status
      BY DEF Keep, IInv, TypeOK
  <2>. QED
      BY <1>3, <2>1, <2>2
         DEF Creates, PrepareFails, Prepared, CheckFreeze, PostAccepted, PostRefused, PostUnknown, LookUp, LookUpFails
<1>4. ASSUME NEW w \in Workers, Cancels(w)
      PROVE  shipment'.status = shipment.status
  <2>1. MarkDelete(w) => shipment'.status = shipment.status
      BY <1>2 DEF MarkDelete
  <2>. QED
      BY <1>4, <2>1 DEF Cancels, AskLifecycle, CancelAllowed, CheckFreeze, Delete, CancelFails
<1>5. ASSUME NEW w \in Workers, WorkerStep(w) \/ Crash(w), ~ClaimFrozen(w), ~Write(w)
      PROVE  shipment'.status = shipment.status
    BY <1>3, <1>4, <1>5 DEF WorkerStep, Crash, Read, Claim, Track, TrackFails
<1>6. ASSUME NEW w \in Workers, Write(w), ~Owns(w)
      PROVE  shipment'.status = shipment.status
    BY <1>6 DEF Write
<1>. QED
    BY <1>1, <1>5, <1>6
       DEF Next, CreateShipment, CancelRead, CancelWrite, Reconcile, ExpireLease, Freeze, ParcelMoves

LEMMA GoesAhead ==
    ASSUME Bounds, IInv, Progress, [Next]_vars
    PROVE  Forward
<1>. SUFFICES ASSUME NEW w \in Workers, worker[w].phase = "writing", worker'[w].phase = "idle",
                     worker[w].key[1] # "CANCEL", shipment.status \in Moving \cup Terminal,
                     shipment'.status # shipment.status
              PROVE  Way[shipment'.status] > Way[shipment.status]
    BY DEF Forward
<1>1. shipment.status \notin {"DRAFT", "CREATING"} /\ Next
    BY StatusKinds DEF vars, Known
<1>2. PICK v \in Workers : Write(v) /\ Owns(v)
    BY <1>1, StatusChanges
<1>3. v = w
    BY <1>2, WorkRests DEF Write, IInv
<1>4. TypeOK /\ WorkerFits(w) /\ AnswerFits(w) /\ Ahead(w)
    BY DEF IInv, Progress
<1>5. ~WriteCreate(w)
    BY <1>1, <1>2, <1>3 DEF WriteCreate, Owns, Progress, Stages, OpenCreation
<1>6. WriteTracked(w)
    BY <1>2, <1>3, <1>5 DEF Write, WriteCancel
<1>7. worker[w].result = "SUCCEEDED" /\ Fits(w) /\ shipment'.status = worker[w].answer
    BY <1>4, <1>6 DEF WriteTracked, TypeOK
<1>. QED
    BY <1>4, <1>6, <1>7 DEF Ahead, WriteTracked, Fits

\* No status that a creation or tracking writes takes the shipment back on its
\* way, however late tracking is and whatever a cancellation wrote meanwhile.
THEOREM StatusesGoForward ==
    ASSUME Bounds
    PROVE  Spec => GoesForward
<1>1. Init => Progress
  <2>1. ASSUME Init
        PROVE  Stages /\ \A w \in Workers : worker[w].phase = "idle"
      BY <2>1, KeyKinds DEF Init, Stages, OpenCreation, Open, NoAttempt, Idle
  <2>. QED
      BY <2>1 DEF Progress, Follows, Ahead
<1>2. IInv /\ Progress /\ [Next]_vars => Progress'
    BY NextProgress
<1>3. IInv /\ Progress /\ [Next]_vars => [Forward]_vars
    BY GoesAhead
<1>. QED
    BY <1>1, <1>2, <1>3, Invariant, PTL DEF Spec, GoesForward

-----------------------------------------------------------------------------
(***************************************************************************)
(* The other carrier: proofs about NovaPoshtaShipment, for all workers,    *)
(* claims, versions, crashes, outlived leases, rate limits and freezes. A  *)
(* shipment and its attempts are kept in the same tables, and named alike. *)
(***************************************************************************)
CONSTANT MAX_ATTEMPTS   \* claims after which a rate limit is final
VARIABLE unsearched     \* searches for an earlier waybill that were rate limited

Nova == INSTANCE NovaPoshtaShipment

\* The bounds are numbers, and the worker's processes finitely many.
NovaBounds == IsFiniteSet(Workers) /\ MaxClaims \in Nat /\ MaxVersion \in Int

\* What a shipment and its waybill have to do with each other.
NovaDraftIsFresh == shipment.status = "DRAFT" => attempt[Nova!Create].status = "NONE"
NovaDocumentIsMade ==
    shipment.document > 0 =>
        attempt[Nova!Create].status = "SUCCEEDED" /\ parcel # "NONE" /\ shipment.status \notin {"DRAFT", "CREATING"}
NovaWaybillIsParcel == waybills > 0 <=> parcel # "NONE"

\* What a worker read before its claim.
NovaReadFits(w) ==
    /\ worker[w].phase = "read" => worker[w].seen \in {"PENDING", "RETRYABLE", "UNKNOWN", "PROCESSING"}
    /\ (worker[w].phase = "read" /\ worker[w].key = Nova!Create) =>
          LET a == attempt[Nova!Create] IN
          /\ worker[w].attempts <= a.attempts
          /\ (worker[w].seen = "PROCESSING" /\ a.status = "PROCESSING" /\ a.attempts = worker[w].attempts) => a.expired
    /\ worker[w].phase \in {"searching", "checking"} => worker[w].key = Nova!Create
    /\ worker[w].key # Nova!Create => parcel # "NONE"
    /\ worker[w].key[1] = "STATUS_SYNC" => worker[w].was \notin Nova!Terminal \cup {"DRAFT", "CREATING"}
    /\ (worker[w].key = Nova!Create /\ worker[w].phase \notin {"idle", "read"}) =>
            worker[w].lease <= attempt[Nova!Create].attempts

\* What it is to write.
NovaCreateFits(w) ==
    (worker[w].phase = "writing" /\ worker[w].key = Nova!Create) =>
        \/ worker[w].result = "SUCCEEDED" /\ worker[w].answer = "CREATED" /\ waybills > 0
        \/ worker[w].result = "FAILED" /\ worker[w].answer = "FAILED"
        \/ worker[w].result \in {"UNKNOWN", "RETRYABLE"} /\ worker[w].answer = "CREATING"
NovaSyncFits(w) ==
    (worker[w].phase = "writing" /\ worker[w].key # Nova!Create) =>
        /\ worker[w].result \in {"SUCCEEDED", "RETRYABLE", "FAILED"}
        /\ worker[w].result = "SUCCEEDED" =>
              /\ worker[w].answer \notin {"DRAFT", "CREATING"}
              /\ worker[w].answer = "CANCELLED" => parcel = "DELETED"

NovaKnown == \A w \in Workers : NovaReadFits(w) /\ NovaCreateFits(w) /\ NovaSyncFits(w)

\* Workers that may make a waybill without another look, and workers that will
\* make one unless they find one.
NovaCalling(w) == worker[w].key = Nova!Create /\ worker[w].phase \in {"checking", "calling"}
NovaSearching(w) == worker[w].key = Nova!Create /\ worker[w].phase = "searching"
NovaCallers == {w \in Workers : NovaCalling(w)}
NovaSearchers == {w \in Workers : NovaSearching(w)}

\* The creation may be claimed, now or when its claim is over, by a worker that
\* makes a waybill without a look for an earlier one, or would not find any.
NovaCreator(w) == worker[w].key = Nova!Create /\ Nova!Owns(w)
NovaAgain(result) == result = "RETRYABLE" \/ (result = "UNKNOWN" /\ waybills = 0)
NovaTicket ==
    LET a == attempt[Nova!Create] IN
    \/ a.status \in {"NONE", "PENDING"} \/ NovaAgain(a.status)
    \/ /\ a.status = "PROCESSING"
       /\ \/ a.expired
          \/ \A w \in Workers : ~NovaCreator(w)
          \/ \E w \in Workers : NovaCreator(w) /\ worker[w].phase = "writing" /\ NovaAgain(worker[w].result)

NovaOne(b) == IF b THEN 1 ELSE 0
NovaLikely(c, s, n) == c + (IF n = 0 THEN s ELSE 0) + n
NovaAccounted ==
    NovaLikely(Cardinality(NovaCallers), Cardinality(NovaSearchers), waybills) + NovaOne(NovaTicket) <= 1 + lost + unsearched

NovaIInv ==
    /\ Nova!TypeOK
    /\ NovaDraftIsFresh
    /\ NovaDocumentIsMade
    /\ NovaWaybillIsParcel
    /\ NovaKnown
    /\ NovaAccounted
    /\ Nova!CreatingHasAttempt
    /\ Nova!CancelledIsDeleted

-----------------------------------------------------------------------------
(* Operations and how a worker goes on                                      *)

\* What holds of the shipment, its creation and its parcel.
NovaFacts == NovaDraftIsFresh /\ NovaDocumentIsMade /\ NovaWaybillIsParcel /\ Nova!CreatingHasAttempt /\ Nova!CancelledIsDeleted

LEMMA NovaKeyKinds ==
    /\ Nova!Create \in Nova!Keys /\ Nova!Create[1] = "CREATE"
    /\ \A k \in Nova!Keys : /\ k[1] = "CREATE" <=> k = Nova!Create
                       /\ k[1] \in {"CREATE", "STATUS_SYNC", "CANCEL"}
    /\ \A v \in Nova!Versions : /\ Nova!Cancel(v) \in Nova!Keys /\ Nova!Cancel(v)[1] = "CANCEL" /\ Nova!Cancel(v) # Nova!Create
                           /\ Nova!StatusSync(v) \in Nova!Keys /\ Nova!StatusSync(v)[1] = "STATUS_SYNC"
                           /\ Nova!StatusSync(v) # Nova!Create
BY DEF Nova!Keys, Nova!Create, Nova!Cancel, Nova!StatusSync

NovaResults == {"NONE", "SUCCEEDED", "RETRYABLE", "UNKNOWN", "FAILED"}

\* What a worker keeps while it is about one attempt.
NovaKeeps(w) ==
    /\ worker'[w].key = worker[w].key /\ worker'[w].lease = worker[w].lease /\ worker'[w].was = worker[w].was
    /\ worker'[w].attempts = worker[w].attempts /\ worker'[w].seen = worker[w].seen
NovaOthers(w) == \A v \in Workers \ {w} : worker'[v] = worker[v]

LEMMA NovaWorkGoes ==
    ASSUME Nova!TypeOK, NEW w \in Workers, NEW phase \in Nova!Phase, Nova!Goes(w, phase)
    PROVE  /\ worker' \in [Workers -> Nova!Work] /\ NovaOthers(w) /\ NovaKeeps(w)
           /\ worker'[w].phase = phase
<1>1. worker[w] \in Nova!Work
   BY DEF Nova!TypeOK
<1>2. PICK x : x = [worker[w] EXCEPT !.phase = phase]
   OBVIOUS
<1>3. /\ x \in Nova!Work /\ x.phase = phase /\ x.key = worker[w].key /\ x.lease = worker[w].lease
      /\ x.was = worker[w].was /\ x.attempts = worker[w].attempts /\ x.seen = worker[w].seen
   BY <1>1, <1>2 DEF Nova!Work
<1>4. worker' = [worker EXCEPT ![w] = x]
   BY <1>2 DEF Nova!Goes
<1>. QED BY <1>3, <1>4 DEF Nova!TypeOK, NovaKeeps, NovaOthers

LEMMA NovaWorkEnds ==
    ASSUME Nova!TypeOK, NEW w \in Workers, NEW result \in NovaResults, NEW answer \in Nova!ShipmentStatus, Nova!Ends(w, result, answer)
    PROVE  /\ worker' \in [Workers -> Nova!Work] /\ NovaOthers(w) /\ NovaKeeps(w)
           /\ worker'[w].phase = "writing" /\ worker'[w].result = result /\ worker'[w].answer = answer
<1>1. worker[w] \in Nova!Work
   BY DEF Nova!TypeOK
<1>2. PICK x : x = [worker[w] EXCEPT !.phase = "writing", !.result = result, !.answer = answer]
   OBVIOUS
<1>3. /\ x \in Nova!Work /\ x.phase = "writing" /\ x.result = result /\ x.answer = answer
      /\ x.key = worker[w].key /\ x.lease = worker[w].lease
      /\ x.was = worker[w].was /\ x.attempts = worker[w].attempts /\ x.seen = worker[w].seen
   BY <1>1, <1>2 DEF Nova!Work, NovaResults, Nova!Phase
<1>4. worker' = [worker EXCEPT ![w] = x]
   BY <1>2 DEF Nova!Ends
<1>. QED BY <1>3, <1>4 DEF Nova!TypeOK, NovaKeeps, NovaOthers

LEMMA NovaIdleType ==
    ASSUME NovaBounds
    PROVE  /\ Nova!Idle \in Nova!Work /\ Nova!Idle.phase = "idle" /\ Nova!Idle.key = Nova!Create
           /\ Nova!Idle.key[1] = "CREATE"
<1>1. 0 \in 0..MaxClaims
   BY DEF NovaBounds
<1>. QED BY <1>1, NovaKeyKinds DEF Nova!Idle, Nova!Work, Nova!Phase, Nova!AttemptStatus, Nova!ShipmentStatus

LEMMA NovaWorkRests ==
    ASSUME NovaBounds, Nova!TypeOK, NEW w \in Workers, Nova!Rests(w)
    PROVE  worker' \in [Workers -> Nova!Work] /\ NovaOthers(w) /\ worker'[w] = Nova!Idle
BY NovaIdleType DEF Nova!TypeOK, Nova!Rests, NovaOthers

LEMMA NovaSettling ==
    ASSUME Nova!TypeOK, NEW k \in Nova!Keys, NEW status \in Nova!AttemptStatus, attempt' = Nova!Settled(k, status)
    PROVE  /\ attempt' \in [Nova!Keys -> Nova!Attempt]
           /\ attempt'[k].status = status /\ attempt'[k].attempts = attempt[k].attempts
           /\ \A j \in Nova!Keys \ {k} : attempt'[j] = attempt[j]
<1>1. attempt[k] \in Nova!Attempt
   BY DEF Nova!TypeOK
<1>2. PICK x : x = [attempt[k] EXCEPT !.status = status, !.expired = FALSE]
   OBVIOUS
<1>3. x \in Nova!Attempt /\ x.status = status /\ x.attempts = attempt[k].attempts
   BY <1>1, <1>2 DEF Nova!Attempt
<1>4. attempt' = [attempt EXCEPT ![k] = x]
   BY <1>2 DEF Nova!Settled
<1>. QED BY <1>3, <1>4 DEF Nova!TypeOK

\* A worker that rests knows nothing.
LEMMA NovaIdleFits ==
    ASSUME NovaBounds, Nova!TypeOK, NEW w \in Workers, Nova!Rests(w)
    PROVE  NovaReadFits(w)' /\ NovaCreateFits(w)' /\ NovaSyncFits(w)'
BY NovaWorkRests, NovaIdleType DEF NovaReadFits, NovaCreateFits, NovaSyncFits

\* What the other workers know stays true.
LEMMA NovaOthersKnow ==
    ASSUME NovaKnown, Nova!TypeOK, Nova!TypeOK', NEW w \in Workers, NovaOthers(w),
           parcel # "NONE" => parcel' # "NONE", parcel = "DELETED" => parcel' = "DELETED",
           waybills > 0 => waybills' > 0,
           attempt[Nova!Create].attempts <= attempt'[Nova!Create].attempts,
           attempt'[Nova!Create].status = "PROCESSING" /\ attempt'[Nova!Create].attempts = attempt[Nova!Create].attempts =>
               attempt[Nova!Create].status = "PROCESSING" /\ (attempt[Nova!Create].expired => attempt'[Nova!Create].expired),
           NovaReadFits(w)' /\ NovaCreateFits(w)' /\ NovaSyncFits(w)'
    PROVE  NovaKnown'
<1>. SUFFICES ASSUME NEW v \in Workers \ {w} PROVE NovaReadFits(v)' /\ NovaCreateFits(v)' /\ NovaSyncFits(v)'
   BY DEF NovaKnown
<1>1. worker'[v] = worker[v] /\ NovaReadFits(v) /\ NovaCreateFits(v) /\ NovaSyncFits(v)
   BY DEF NovaKnown, NovaOthers
<1>2. NovaCreateFits(v)' /\ NovaSyncFits(v)'
   BY <1>1 DEF NovaCreateFits, NovaSyncFits
<1>3. /\ attempt[Nova!Create].attempts \in Int /\ attempt'[Nova!Create].attempts \in Int
      /\ worker[v].attempts \in Int /\ worker[v].lease \in Int
   BY NovaKeyKinds DEF Nova!TypeOK, Nova!Attempt, Nova!Work
<1>4. NovaReadFits(v)'
   BY <1>1, <1>3 DEF NovaReadFits
<1>. QED BY <1>2, <1>4

-----------------------------------------------------------------------------
(* How many waybills may be made                                            *)

LEMMA NovaMembers ==
    ASSUME NEW S, IsFiniteSet(S), NEW w, NEW R, S \ {w} = R \ {w}, IsFiniteSet(R)
    PROVE  \E n \in Nat : Cardinality(S) = n + NovaOne(w \in S) /\ Cardinality(R) = n + NovaOne(w \in R)
<1>. DEFINE Q == S \ {w}
<1>1. IsFiniteSet(Q) /\ Cardinality(Q) \in Nat
   BY FS_Subset, FS_CardinalityType
<1>2. Cardinality(S) \in Nat /\ Cardinality(R) \in Nat
   BY FS_CardinalityType
<1>3. Cardinality(S) = Cardinality(Q) + NovaOne(w \in S)
   <2>1. CASE w \in S
      BY <1>1, <1>2, <2>1, FS_RemoveElement DEF NovaOne
   <2>2. CASE w \notin S
      <3>1. Q = S
         BY <2>2
      <3>. QED BY <1>2, <2>2, <3>1 DEF NovaOne
   <2>. QED BY <2>1, <2>2
<1>4. Cardinality(R) = Cardinality(Q) + NovaOne(w \in R)
   <2>1. CASE w \in R
      BY <1>1, <1>2, <2>1, FS_RemoveElement DEF NovaOne
   <2>2. CASE w \notin R
      <3>1. Q = R
         BY <2>2
      <3>. QED BY <1>2, <2>2, <3>1 DEF NovaOne
   <2>. QED BY <2>1, <2>2
<1>. QED BY <1>1, <1>3, <1>4

LEMMA NovaCounts ==
    ASSUME NovaBounds
    PROVE  IsFiniteSet(NovaCallers) /\ IsFiniteSet(NovaSearchers)
BY FS_Subset DEF NovaBounds, NovaCallers, NovaSearchers

LEMMA NovaNextCounts ==
    ASSUME NovaBounds
    PROVE  IsFiniteSet(NovaCallers') /\ IsFiniteSet(NovaSearchers')
BY FS_Subset DEF NovaBounds, NovaCallers, NovaSearchers

LEMMA NovaCallersMove ==
    ASSUME NovaBounds, NEW w \in Workers, NovaOthers(w)
    PROVE  \E n \in Nat : /\ Cardinality(NovaCallers) = n + NovaOne(NovaCalling(w))
                          /\ Cardinality(NovaCallers') = n + NovaOne(NovaCalling(w)')
<1>1. NovaCallers \ {w} = NovaCallers' \ {w}
   BY DEF NovaCallers, NovaCalling, NovaOthers
<1>2. (w \in NovaCallers <=> NovaCalling(w)) /\ (w \in NovaCallers' <=> NovaCalling(w)')
   BY DEF NovaCallers
<1>3. \E n \in Nat : Cardinality(NovaCallers) = n + NovaOne(w \in NovaCallers) /\ Cardinality(NovaCallers') = n + NovaOne(w \in NovaCallers')
   BY <1>1, NovaCounts, NovaNextCounts, NovaMembers
<1>. QED BY <1>2, <1>3 DEF NovaOne

LEMMA NovaSearchersMove ==
    ASSUME NovaBounds, NEW w \in Workers, NovaOthers(w)
    PROVE  \E n \in Nat : /\ Cardinality(NovaSearchers) = n + NovaOne(NovaSearching(w))
                          /\ Cardinality(NovaSearchers') = n + NovaOne(NovaSearching(w)')
<1>1. NovaSearchers \ {w} = NovaSearchers' \ {w}
   BY DEF NovaSearchers, NovaSearching, NovaOthers
<1>2. (w \in NovaSearchers <=> NovaSearching(w)) /\ (w \in NovaSearchers' <=> NovaSearching(w)')
   BY DEF NovaSearchers
<1>3. \E n \in Nat : Cardinality(NovaSearchers) = n + NovaOne(w \in NovaSearchers) /\ Cardinality(NovaSearchers') = n + NovaOne(w \in NovaSearchers')
   BY <1>1, NovaCounts, NovaNextCounts, NovaMembers
<1>. QED BY <1>2, <1>3 DEF NovaOne

\* A step of w is accounted for if it is whatever the others are about.
NovaPays(w) ==
    \A c, s \in Nat :
        (NovaLikely(c + NovaOne(NovaCalling(w)'), s + NovaOne(NovaSearching(w)'), waybills') + NovaOne(NovaTicket')) - lost' - unsearched'
            <= (NovaLikely(c + NovaOne(NovaCalling(w)), s + NovaOne(NovaSearching(w)), waybills) + NovaOne(NovaTicket)) - lost - unsearched

LEMMA NovaPaying ==
    ASSUME NovaBounds, Nova!TypeOK, Nova!TypeOK', NovaAccounted, NEW w \in Workers, NovaOthers(w), NovaPays(w)
    PROVE  NovaAccounted'
<1>1. PICK c \in Nat : /\ Cardinality(NovaCallers) = c + NovaOne(NovaCalling(w))
                       /\ Cardinality(NovaCallers') = c + NovaOne(NovaCalling(w)')
   BY NovaCallersMove
<1>2. PICK s \in Nat : /\ Cardinality(NovaSearchers) = s + NovaOne(NovaSearching(w))
                       /\ Cardinality(NovaSearchers') = s + NovaOne(NovaSearching(w)')
   BY NovaSearchersMove
<1>3. PICK before : before = NovaLikely(c + NovaOne(NovaCalling(w)), s + NovaOne(NovaSearching(w)), waybills) + NovaOne(NovaTicket)
   OBVIOUS
<1>4. PICK after : after = NovaLikely(c + NovaOne(NovaCalling(w)'), s + NovaOne(NovaSearching(w)'), waybills') + NovaOne(NovaTicket')
   OBVIOUS
<1>5. after - lost' - unsearched' <= before - lost - unsearched
  <2>1. (NovaLikely(c + NovaOne(NovaCalling(w)'), s + NovaOne(NovaSearching(w)'), waybills') + NovaOne(NovaTicket')) - lost' - unsearched'
            <= (NovaLikely(c + NovaOne(NovaCalling(w)), s + NovaOne(NovaSearching(w)), waybills) + NovaOne(NovaTicket)) - lost - unsearched
     BY Zenon DEF NovaPays
  <2>. QED BY <1>3, <1>4, <2>1
<1>6. before <= 1 + lost + unsearched
   BY <1>1, <1>2, <1>3 DEF NovaAccounted
<1>7. before \in Int /\ after \in Int
  <2>1. waybills \in Int /\ waybills' \in Int
     BY DEF Nova!TypeOK
  <2>2. /\ NovaOne(NovaCalling(w)) \in Int /\ NovaOne(NovaSearching(w)) \in Int /\ NovaOne(NovaTicket) \in Int
        /\ NovaOne(NovaCalling(w)') \in Int /\ NovaOne(NovaSearching(w)') \in Int
        /\ NovaOne(NovaTicket') \in Int
     BY DEF NovaOne
  <2>. QED BY <1>3, <1>4, <2>1, <2>2 DEF NovaLikely
<1>8. /\ lost \in Int /\ unsearched \in Int /\ lost' \in Int /\ unsearched' \in Int
   BY DEF Nova!TypeOK
<1>9. after <= 1 + lost' + unsearched'
  <2>1. PICK a \in Int, b \in Int, l \in Int, u \in Int, m \in Int, v \in Int :
            /\ a = after /\ b = before /\ l = lost /\ u = unsearched /\ m = lost' /\ v = unsearched'
     BY <1>7, <1>8, Zenon
  <2>2. a - m - v <= b - l - u
     BY <1>5, <2>1, Zenon
  <2>3. b <= 1 + l + u
     BY <1>6, <2>1, Zenon
  <2>4. a <= 1 + m + v
     BY <2>2, <2>3
  <2>. QED BY <2>1, <2>4, Zenon
<1>10. after = NovaLikely(Cardinality(NovaCallers'), Cardinality(NovaSearchers'), waybills') + NovaOne(NovaTicket')
   BY <1>1, <1>2, <1>4, Zenon
<1>. QED BY <1>9, <1>10 DEF NovaAccounted

\* Steps with which nobody makes a waybill more likely.
LEMMA NovaFree ==
    ASSUME Nova!TypeOK, NEW w \in Workers, waybills' = waybills, unsearched' = unsearched, lost' = lost,
           NovaCalling(w)' => NovaCalling(w), NovaSearching(w)' => NovaSearching(w), NovaTicket' => NovaTicket
    PROVE  NovaPays(w)
<1>1. waybills \in Nat /\ unsearched \in Nat /\ lost \in Nat
   BY DEF Nova!TypeOK
<1>. QED BY <1>1 DEF NovaPays, NovaLikely, NovaOne

\* A caller's ticket: who no longer calls may let another one call.
LEMMA NovaPaysWithCall ==
    ASSUME Nova!TypeOK, NEW w \in Workers, waybills' = waybills, unsearched' = unsearched, lost' = lost,
           NovaCalling(w), ~NovaCalling(w)', ~NovaSearching(w)'
    PROVE  NovaPays(w)
<1>1. waybills \in Nat /\ unsearched \in Nat /\ lost \in Nat
   BY DEF Nova!TypeOK
<1>. QED BY <1>1 DEF NovaPays, NovaLikely, NovaOne

LEMMA NovaPaysWithSearch ==
    ASSUME Nova!TypeOK, NEW w \in Workers, waybills' = waybills, unsearched' = unsearched, lost' = lost, waybills = 0,
           NovaSearching(w), ~NovaCalling(w), ~NovaSearching(w)', ~NovaCalling(w)' \/ (NovaTicket' => NovaTicket)
    PROVE  NovaPays(w)
<1>1. waybills \in Nat /\ unsearched \in Nat /\ lost \in Nat
   BY DEF Nova!TypeOK
<1>. QED BY <1>1 DEF NovaPays, NovaLikely, NovaOne

\* A loss, or a search not made, pays for a ticket.
LEMMA NovaPaysWithLoss ==
    ASSUME Nova!TypeOK, NEW w \in Workers, waybills' = waybills,
           \/ lost' = lost + 1 /\ unsearched' = unsearched
           \/ lost' = lost /\ unsearched' = unsearched + 1,
           NovaCalling(w)' => NovaCalling(w), NovaSearching(w)' => NovaSearching(w)
    PROVE  NovaPays(w)
<1>1. waybills \in Nat /\ unsearched \in Nat /\ lost \in Nat
   BY DEF Nova!TypeOK
<1>. QED BY <1>1 DEF NovaPays, NovaLikely, NovaOne

\* A step of w in which no creator but w, and it no more than before, may let
\* another one call.
LEMMA NovaSameTicket ==
    ASSUME NEW w \in Workers, NovaOthers(w), attempt'[Nova!Create] = attempt[Nova!Create], waybills' = 0 => waybills = 0,
           NovaCreator(w)' <=> NovaCreator(w),
           (NovaCreator(w)' /\ worker'[w].phase = "writing" /\ NovaAgain(worker[w].result)') =>
               worker[w].phase = "writing" /\ NovaAgain(worker[w].result)
    PROVE  NovaTicket' => NovaTicket
<1>1. \A v \in Workers \ {w} : worker'[v] = worker[v] /\ (NovaCreator(v)' <=> NovaCreator(v))
   BY DEF NovaCreator, Nova!Owns, NovaOthers
<1>2. \A v \in Workers \ {w} : NovaAgain(worker[v].result)' => NovaAgain(worker[v].result)
   BY <1>1 DEF NovaAgain
<1>3. (\A v \in Workers : ~NovaCreator(v)') => \A v \in Workers : ~NovaCreator(v)
   BY <1>1
<1>4. (\E v \in Workers : NovaCreator(v)' /\ worker'[v].phase = "writing" /\ NovaAgain(worker[v].result)')
         => \E v \in Workers : NovaCreator(v) /\ worker[v].phase = "writing" /\ NovaAgain(worker[v].result)
   <2>. SUFFICES ASSUME NEW v \in Workers, NovaCreator(v)', worker'[v].phase = "writing", NovaAgain(worker[v].result)'
                 PROVE  NovaCreator(v) /\ worker[v].phase = "writing" /\ NovaAgain(worker[v].result)
      OBVIOUS
   <2>1. CASE v = w
      BY <2>1
   <2>2. CASE v # w
      BY <1>1, <1>2, <2>2
   <2>. QED BY <2>1, <2>2
<1>5. NovaAgain(attempt[Nova!Create].status)' => NovaAgain(attempt[Nova!Create].status)
   BY DEF NovaAgain
<1>. QED BY <1>3, <1>4, <1>5 DEF NovaTicket

-----------------------------------------------------------------------------
(* Steps of a worker                                                        *)

LEMMA NovaSameFacts ==
    ASSUME NovaFacts, shipment' = shipment, attempt'[Nova!Create].status = attempt[Nova!Create].status,
           parcel # "NONE" => parcel' # "NONE", parcel = "DELETED" => parcel' = "DELETED",
           NovaWaybillIsParcel'
    PROVE  NovaFacts'
BY DEF NovaFacts, NovaDraftIsFresh, NovaDocumentIsMade, Nova!CreatingHasAttempt, Nova!CancelledIsDeleted

LEMMA NovaKeeping ==
    ASSUME NovaBounds, NovaIInv, Nova!TypeOK', NEW w \in Workers, NovaOthers(w), NovaFacts',
           parcel # "NONE" => parcel' # "NONE", parcel = "DELETED" => parcel' = "DELETED",
           waybills > 0 => waybills' > 0,
           attempt[Nova!Create].attempts <= attempt'[Nova!Create].attempts,
           attempt'[Nova!Create].status = "PROCESSING" /\ attempt'[Nova!Create].attempts = attempt[Nova!Create].attempts =>
               attempt[Nova!Create].status = "PROCESSING" /\ (attempt[Nova!Create].expired => attempt'[Nova!Create].expired),
           NovaReadFits(w)' /\ NovaCreateFits(w)' /\ NovaSyncFits(w)',
           NovaPays(w)
    PROVE  NovaIInv'
<1>1. NovaKnown'
   BY NovaOthersKnow DEF NovaIInv
<1>2. NovaAccounted'
   BY NovaPaying DEF NovaIInv
<1>. QED BY <1>1, <1>2 DEF NovaIInv, NovaFacts

\* A step in which the shipment, its creation and its waybill rest.
LEMMA NovaQuiet ==
    ASSUME NovaBounds, NovaIInv, Nova!TypeOK', NEW w \in Workers, NovaOthers(w), UNCHANGED <<shipment, Nova!outside>>,
           attempt'[Nova!Create] = attempt[Nova!Create],
           NovaReadFits(w)' /\ NovaCreateFits(w)' /\ NovaSyncFits(w)',
           NovaPays(w)
    PROVE  NovaIInv'
<1>1. NovaFacts'
   BY NovaSameFacts DEF NovaIInv, NovaFacts, NovaWaybillIsParcel, Nova!outside
<1>2. attempt[Nova!Create].attempts \in Int
   BY NovaKeyKinds DEF NovaIInv, Nova!TypeOK, Nova!Attempt
<1>. QED BY <1>1, <1>2, NovaKeeping DEF Nova!outside

LEMMA NovaSameCreator ==
    ASSUME NEW w \in Workers, NovaKeeps(w), attempt'[Nova!Create] = attempt[Nova!Create],
           worker[w].phase \notin {"idle", "read"} <=> worker'[w].phase \notin {"idle", "read"}
    PROVE  NovaCreator(w)' <=> NovaCreator(w)
BY DEF NovaKeeps, NovaCreator, Nova!Owns

\* A worker rests that is not about the creation, or has lost it.
LEMMA NovaRestQuietly ==
    ASSUME NovaBounds, NovaIInv, NEW w \in Workers, Nova!Rests(w), ~NovaCreator(w), NovaFacts',
           shipment' \in [status : Nova!ShipmentStatus, version : Nat, document : {0, 1}, watched : BOOLEAN],
           UNCHANGED <<Nova!outside, Nova!rest>>, attempt' \in [Nova!Keys -> Nova!Attempt], attempt'[Nova!Create] = attempt[Nova!Create]
    PROVE  NovaIInv'
<1>1. Nova!TypeOK
   BY DEF NovaIInv
<1>2. worker' \in [Workers -> Nova!Work] /\ NovaOthers(w) /\ worker'[w].phase = "idle"
   BY <1>1, NovaWorkRests, NovaIdleType
<1>3. Nova!TypeOK'
   BY <1>1, <1>2 DEF Nova!TypeOK, Nova!outside, Nova!rest
<1>4. NovaReadFits(w)' /\ NovaCreateFits(w)' /\ NovaSyncFits(w)'
   BY <1>1, NovaIdleFits
<1>5. ~NovaCreator(w)'
   BY <1>2 DEF NovaCreator, Nova!Owns
<1>6. NovaTicket' => NovaTicket
   <2>1. NovaCreator(w)' <=> NovaCreator(w)
      BY <1>5
   <2>. QED BY <1>2, <1>5, <2>1, NovaSameTicket DEF Nova!outside
<1>7. ~NovaCalling(w)' /\ ~NovaSearching(w)'
   BY <1>2 DEF NovaCalling, NovaSearching
<1>8. NovaPays(w)
   BY <1>1, <1>6, <1>7, NovaFree DEF Nova!outside, Nova!rest
<1>9. attempt[Nova!Create].attempts \in Int
   BY <1>1, NovaKeyKinds DEF Nova!TypeOK, Nova!Attempt
<1>. QED BY <1>2, <1>3, <1>4, <1>8, <1>9, NovaKeeping DEF Nova!outside

LEMMA NovaReadKeeps ==
    ASSUME NovaBounds, NovaIInv, NEW w \in Workers, NEW k \in Nova!Keys, Nova!Read(w, k)
    PROVE  NovaIInv'
<1>1. Nova!TypeOK
   BY DEF NovaIInv
<1>2. PICK x : x = [Nova!Idle EXCEPT !.phase = "read", !.key = k, !.seen = attempt[k].status,
                         !.attempts = attempt[k].attempts, !.was = shipment.status]
   OBVIOUS
<1>3. attempt[k] \in Nova!Attempt /\ attempt[Nova!Create] \in Nova!Attempt /\ Nova!Wanted(k) /\ Nova!Due(k)
   BY <1>1, NovaKeyKinds DEF Nova!TypeOK, Nova!Read
<1>4. x \in Nova!Work /\ x.phase = "read" /\ x.key = k /\ x.seen = attempt[k].status
      /\ x.attempts = attempt[k].attempts /\ x.was = shipment.status
   <2>1. Nova!Idle \in Nova!Work /\ "read" \in Nova!Phase /\ shipment.status \in Nova!ShipmentStatus
      BY <1>1, NovaIdleType DEF Nova!TypeOK, Nova!Phase
   <2>. QED BY <1>2, <1>3, <2>1 DEF Nova!Work, Nova!Attempt
<1>5. worker' = [worker EXCEPT ![w] = x]
   BY <1>2 DEF Nova!Read
<1>6. worker' \in [Workers -> Nova!Work] /\ NovaOthers(w) /\ worker'[w] = x
   BY <1>1, <1>4, <1>5 DEF Nova!TypeOK, NovaOthers
<1>7. UNCHANGED <<shipment, attempt, Nova!outside, Nova!rest>> /\ worker[w].phase = "idle"
   BY DEF Nova!Read
<1>8. Nova!TypeOK'
   BY <1>1, <1>6, <1>7 DEF Nova!TypeOK, Nova!outside, Nova!rest
<1>9. attempt[k].status \in {"PENDING", "RETRYABLE", "UNKNOWN", "PROCESSING"}
      /\ (k = Nova!Create /\ attempt[k].status = "PROCESSING" => attempt[k].expired)
   BY <1>3 DEF Nova!Due, Nova!Open
<1>10. k # Nova!Create => parcel # "NONE"
   <2>1. k # Nova!Create => shipment.document > 0
      BY <1>3, NovaKeyKinds DEF Nova!Wanted
   <2>. QED BY <2>1 DEF NovaIInv, NovaDocumentIsMade
<1>11. k[1] = "STATUS_SYNC" => shipment.status \notin Nova!Terminal \cup {"DRAFT", "CREATING"}
   <2>1. k[1] = "STATUS_SYNC" => shipment.document > 0 /\ shipment.status \notin Nova!Terminal
      BY <1>3 DEF Nova!Wanted
   <2>. QED BY <2>1 DEF NovaIInv, NovaDocumentIsMade
<1>12. NovaReadFits(w)' /\ NovaCreateFits(w)' /\ NovaSyncFits(w)'
   <2>1. attempt[Nova!Create].attempts \in Int
      BY <1>3 DEF Nova!Attempt
   <2>. QED BY <1>4, <1>6, <1>7, <1>9, <1>10, <1>11, <2>1
      DEF NovaReadFits, NovaCreateFits, NovaSyncFits, Nova!outside
<1>13. ~NovaCreator(w) /\ ~NovaCreator(w)' /\ ~NovaCalling(w)' /\ ~NovaSearching(w)'
   BY <1>4, <1>6, <1>7 DEF NovaCreator, Nova!Owns, NovaCalling, NovaSearching
<1>14. NovaTicket' => NovaTicket
   <2>1. NovaCreator(w)' <=> NovaCreator(w)
      BY <1>13
   <2>. QED BY <1>6, <1>7, <1>13, <2>1, NovaSameTicket DEF Nova!outside
<1>15. NovaPays(w)
   BY <1>1, <1>7, <1>13, <1>14, NovaFree DEF Nova!outside, Nova!rest
<1>. QED BY <1>6, <1>7, <1>8, <1>12, <1>15, NovaQuiet

\* A worker goes on, or ends what it is about, of an attempt that rests: what
\* its tries cost is left to be shown.
LEMMA NovaGoesOn ==
    ASSUME NovaBounds, NovaIInv, NEW w \in Workers, NEW phase \in Nova!Phase \ {"idle", "read", "writing"}, Nova!Goes(w, phase),
           worker[w].phase \notin {"idle", "read"},
           phase \in {"searching", "checking"} => worker[w].key = Nova!Create,
           UNCHANGED <<shipment, attempt, Nova!outside, Nova!rest>>,
           NovaCalling(w)' => NovaCalling(w) \/ (NovaSearching(w) /\ waybills = 0), ~NovaSearching(w)'
    PROVE  NovaIInv'
<1>1. Nova!TypeOK
   BY DEF NovaIInv
<1>2. worker' \in [Workers -> Nova!Work] /\ NovaOthers(w) /\ NovaKeeps(w) /\ worker'[w].phase = phase
   BY <1>1, NovaWorkGoes
<1>3. Nova!TypeOK'
   BY <1>1, <1>2 DEF Nova!TypeOK, Nova!outside, Nova!rest
<1>4. NovaReadFits(w)' /\ NovaCreateFits(w)' /\ NovaSyncFits(w)'
   BY <1>2 DEF NovaIInv, NovaKnown, NovaReadFits, NovaCreateFits, NovaSyncFits, NovaKeeps, Nova!outside
<1>5. NovaTicket' => NovaTicket
   <2>1. NovaCreator(w)' <=> NovaCreator(w)
      BY <1>2, NovaSameCreator
   <2>. QED BY <1>2, <2>1, NovaSameTicket DEF Nova!outside
<1>6. NovaPays(w)
   <2>1. CASE NovaCalling(w)' => NovaCalling(w)
      BY <1>1, <1>5, <2>1, NovaFree DEF Nova!outside, Nova!rest
   <2>2. CASE NovaSearching(w) /\ waybills = 0
      <3>1. ~NovaCalling(w)
         BY <2>2 DEF NovaCalling, NovaSearching
      <3>. QED BY <1>1, <1>5, <2>2, <3>1, NovaPaysWithSearch DEF Nova!outside, Nova!rest
   <2>. QED BY <2>1, <2>2
<1>. QED BY <1>2, <1>3, <1>4, <1>6, NovaQuiet

LEMMA NovaEndsCall ==
    ASSUME NovaBounds, NovaIInv, NEW w \in Workers, NEW result \in NovaResults, NEW answer \in Nova!ShipmentStatus,
           Nova!Ends(w, result, answer), worker[w].phase \notin {"idle", "read"},
           UNCHANGED <<shipment, attempt, Nova!outside, Nova!rest>>,
           NovaCreateFits(w)', NovaSyncFits(w)',
           \/ worker[w].key # Nova!Create
           \/ ~NovaAgain(result)
           \/ NovaCalling(w)
           \/ NovaSearching(w) /\ waybills = 0
    PROVE  NovaIInv'
<1>1. Nova!TypeOK
   BY DEF NovaIInv
<1>2. /\ worker' \in [Workers -> Nova!Work] /\ NovaOthers(w) /\ NovaKeeps(w)
      /\ worker'[w].phase = "writing" /\ worker'[w].result = result
   BY <1>1, NovaWorkEnds
<1>3. Nova!TypeOK'
   BY <1>1, <1>2 DEF Nova!TypeOK, Nova!outside, Nova!rest
<1>4. NovaReadFits(w)'
   BY <1>2 DEF NovaIInv, NovaKnown, NovaReadFits, NovaKeeps, Nova!outside
<1>5. ~NovaCalling(w)' /\ ~NovaSearching(w)'
   BY <1>2 DEF NovaCalling, NovaSearching
<1>6. worker[w].key # Nova!Create \/ ~NovaAgain(result) => (NovaTicket' => NovaTicket)
   <2>1. NovaCreator(w)' <=> NovaCreator(w)
      BY <1>2, NovaSameCreator
   <2>2. worker[w].key # Nova!Create => ~NovaCreator(w)'
      BY <1>2 DEF NovaCreator, NovaKeeps
   <2>3. ~NovaAgain(result) => ~NovaAgain(worker[w].result)'
      BY <1>2 DEF NovaAgain, Nova!outside
   <2>. QED BY <1>2, <2>1, <2>2, <2>3, NovaSameTicket DEF Nova!outside
<1>7. NovaPays(w)
   <2>1. CASE worker[w].key # Nova!Create \/ ~NovaAgain(result)
      BY <1>1, <1>5, <1>6, <2>1, NovaFree DEF Nova!outside, Nova!rest
   <2>2. CASE NovaCalling(w)
      BY <1>1, <1>5, <2>2, NovaPaysWithCall DEF Nova!outside, Nova!rest
   <2>3. CASE NovaSearching(w) /\ waybills = 0
      <3>1. ~NovaCalling(w)
         BY <2>3 DEF NovaCalling, NovaSearching
      <3>. QED BY <1>1, <1>5, <2>3, <3>1, NovaPaysWithSearch DEF Nova!outside, Nova!rest
   <2>. QED BY <2>1, <2>2, <2>3
<1>. QED BY <1>2, <1>3, <1>4, <1>7, NovaQuiet

LEMMA NovaSearchKeeps ==
    ASSUME NovaBounds, NovaIInv, NEW w \in Workers, Nova!Search(w)
    PROVE  NovaIInv'
<1>1. Nova!TypeOK /\ worker[w].phase = "searching" /\ UNCHANGED <<shipment, attempt, Nova!outside, Nova!rest>>
   BY DEF NovaIInv, Nova!Search
<1>2. worker[w].key = Nova!Create /\ NovaSearching(w)
   BY <1>1 DEF NovaIInv, NovaKnown, NovaReadFits, NovaSearching
<1>3. CASE waybills > 0
   <2>1. Nova!Ends(w, "SUCCEEDED", "CREATED")
      BY <1>3 DEF Nova!Search
   <2>2. "SUCCEEDED" \in NovaResults /\ "CREATED" \in Nova!ShipmentStatus
      BY DEF NovaResults, Nova!ShipmentStatus, Nova!Tracked
   <2>3. /\ worker'[w].key = Nova!Create /\ worker'[w].result = "SUCCEEDED" /\ worker'[w].answer = "CREATED"
      BY <1>1, <1>2, <2>1, <2>2, NovaWorkEnds DEF NovaKeeps
   <2>4. NovaCreateFits(w)' /\ NovaSyncFits(w)' /\ ~NovaAgain("SUCCEEDED")
      BY <1>1, <1>3, <2>3 DEF NovaCreateFits, NovaSyncFits, NovaAgain, Nova!outside
   <2>. QED BY <1>1, <2>1, <2>2, <2>4, NovaEndsCall
<1>4. CASE ~(waybills > 0)
   <2>1. Nova!Goes(w, "checking") /\ waybills = 0
      BY <1>1, <1>4 DEF Nova!Search, Nova!TypeOK
   <2>2. "checking" \in Nova!Phase \ {"idle", "read", "writing"}
      BY DEF Nova!Phase
   <2>3. worker'[w].phase = "checking"
      BY <1>1, <2>1, <2>2, NovaWorkGoes
   <2>4. ~NovaSearching(w)'
      BY <2>3 DEF NovaSearching
   <2>. QED BY <1>1, <1>2, <2>1, <2>2, <2>4, NovaGoesOn
<1>. QED BY <1>3, <1>4

LEMMA NovaSearchFailsKeeps ==
    ASSUME NovaBounds, NovaIInv, NEW w \in Workers, NEW result \in {"UNKNOWN", "RETRYABLE", "FAILED"}, Nova!SearchFails(w, result)
    PROVE  NovaIInv'
<1>1. Nova!TypeOK /\ worker[w].phase = "searching" /\ UNCHANGED <<shipment, attempt, Nova!outside, asked, frozen, freezes, lost>>
   BY DEF NovaIInv, Nova!SearchFails
<1>2. worker[w].key = Nova!Create /\ NovaSearching(w) /\ ~NovaCalling(w)
   BY <1>1 DEF NovaIInv, NovaKnown, NovaReadFits, NovaSearching, NovaCalling
<1>3. PICK answer \in Nova!ShipmentStatus :
         Nova!Ends(w, result, answer) /\ answer = (IF result = "FAILED" THEN "FAILED" ELSE "CREATING")
   BY DEF Nova!SearchFails, Nova!ShipmentStatus, Nova!Terminal
<1>4. result \in NovaResults
   BY DEF NovaResults
<1>5. /\ worker' \in [Workers -> Nova!Work] /\ NovaOthers(w) /\ NovaKeeps(w)
      /\ worker'[w].phase = "writing" /\ worker'[w].result = result /\ worker'[w].answer = answer
   BY <1>1, <1>3, <1>4, NovaWorkEnds
<1>6. NovaCreateFits(w)' /\ NovaSyncFits(w)'
   BY <1>2, <1>3, <1>5 DEF NovaCreateFits, NovaSyncFits, NovaKeeps
<1>7. CASE result = "RETRYABLE"
   <2>1. unsearched' = unsearched + 1
      BY <1>7 DEF Nova!SearchFails
   <2>2. Nova!TypeOK'
      BY <1>1, <1>5, <2>1 DEF Nova!TypeOK, Nova!outside
   <2>3. NovaReadFits(w)'
      BY <1>1, <1>5 DEF NovaIInv, NovaKnown, NovaReadFits, NovaKeeps, Nova!outside
   <2>4. ~NovaCalling(w)' /\ ~NovaSearching(w)'
      BY <1>5 DEF NovaCalling, NovaSearching
   <2>5. NovaPays(w)
      BY <1>1, <2>1, <2>4, NovaPaysWithLoss DEF Nova!outside
   <2>. QED BY <1>1, <1>5, <1>6, <2>2, <2>3, <2>5, NovaQuiet
<1>8. CASE result # "RETRYABLE"
   <2>1. UNCHANGED Nova!rest
      BY <1>1, <1>8 DEF Nova!SearchFails, Nova!rest
   <2>2. waybills = 0 \/ ~NovaAgain(result)
      BY <1>8 DEF NovaAgain
   <2>. QED BY <1>1, <1>2, <1>3, <1>4, <1>6, <2>1, <2>2, NovaEndsCall
<1>. QED BY <1>7, <1>8

LEMMA NovaCrashKeeps ==
    ASSUME NovaBounds, NovaIInv, NEW w \in Workers, Nova!Crash(w)
    PROVE  NovaIInv'
<1>1. Nova!TypeOK /\ UNCHANGED <<shipment, attempt, Nova!outside, asked, frozen, freezes, unsearched>> /\ Nova!Rests(w)
      /\ lost' = lost + 1
   BY DEF NovaIInv, Nova!Crash
<1>2. worker' \in [Workers -> Nova!Work] /\ NovaOthers(w) /\ worker'[w].phase = "idle"
   BY <1>1, NovaWorkRests, NovaIdleType
<1>3. Nova!TypeOK'
   BY <1>1, <1>2 DEF Nova!TypeOK, Nova!outside
<1>4. NovaReadFits(w)' /\ NovaCreateFits(w)' /\ NovaSyncFits(w)'
   BY <1>1, NovaIdleFits
<1>5. ~NovaCalling(w)' /\ ~NovaSearching(w)'
   BY <1>2 DEF NovaCalling, NovaSearching
<1>6. NovaPays(w)
   BY <1>1, <1>5, NovaPaysWithLoss DEF Nova!outside
<1>. QED BY <1>1, <1>2, <1>3, <1>4, <1>6, NovaQuiet

\* A worker settles the creation, and rests.
LEMMA NovaSettles ==
    ASSUME NovaBounds, NovaIInv, NEW w \in Workers, Nova!Rests(w), NEW status \in {"SUCCEEDED", "RETRYABLE", "UNKNOWN", "FAILED"},
           attempt' = Nova!Settled(Nova!Create, status), NovaFacts', UNCHANGED <<Nova!outside, Nova!rest>>,
           shipment' \in [status : Nova!ShipmentStatus, version : Nat, document : {0, 1}, watched : BOOLEAN],
           NovaAgain(status) => NovaTicket
    PROVE  NovaIInv'
<1>1. Nova!TypeOK
   BY DEF NovaIInv
<1>2. worker' \in [Workers -> Nova!Work] /\ NovaOthers(w) /\ worker'[w].phase = "idle"
   BY <1>1, NovaWorkRests, NovaIdleType
<1>3. /\ attempt' \in [Nova!Keys -> Nova!Attempt] /\ attempt'[Nova!Create].status = status
      /\ attempt'[Nova!Create].attempts = attempt[Nova!Create].attempts
   BY <1>1, NovaKeyKinds, NovaSettling DEF Nova!AttemptStatus, Nova!Open
<1>4. Nova!TypeOK'
   BY <1>1, <1>2, <1>3 DEF Nova!TypeOK, Nova!outside, Nova!rest
<1>5. NovaReadFits(w)' /\ NovaCreateFits(w)' /\ NovaSyncFits(w)'
   BY <1>1, NovaIdleFits
<1>6. ~NovaCalling(w)' /\ ~NovaSearching(w)'
   BY <1>2 DEF NovaCalling, NovaSearching
<1>7. NovaTicket' => NovaTicket
   BY <1>3 DEF NovaTicket, NovaAgain, Nova!outside
<1>8. NovaPays(w)
   BY <1>1, <1>6, <1>7, NovaFree DEF Nova!outside, Nova!rest
<1>9. attempt[Nova!Create].attempts \in Int
   BY <1>1, NovaKeyKinds DEF Nova!TypeOK, Nova!Attempt
<1>. QED BY <1>2, <1>3, <1>4, <1>5, <1>8, <1>9, NovaKeeping DEF Nova!outside

\* A frozen tenant's shipment is not created any more.
LEMMA NovaFreezeFacts ==
    ASSUME Nova!TypeOK, NovaFacts, UNCHANGED Nova!outside,
           shipment' = IF shipment.status = "CREATING" THEN [shipment EXCEPT !.status = "FAILED"] ELSE shipment,
           \/ attempt'[Nova!Create].status = attempt[Nova!Create].status
           \/ attempt[Nova!Create].status \notin {"NONE", "SUCCEEDED"} /\ attempt'[Nova!Create].status = "FAILED"
    PROVE  NovaFacts' /\ shipment' \in [status : Nova!ShipmentStatus, version : Nat, document : {0, 1}, watched : BOOLEAN]
<1>1. shipment \in [status : Nova!ShipmentStatus, version : Nat, document : {0, 1}, watched : BOOLEAN]
   BY DEF Nova!TypeOK
<1>2. /\ shipment' \in [status : Nova!ShipmentStatus, version : Nat, document : {0, 1}, watched : BOOLEAN]
      /\ shipment'.document = shipment.document
      /\ shipment'.status = IF shipment.status = "CREATING" THEN "FAILED" ELSE shipment.status
   BY <1>1 DEF Nova!ShipmentStatus, Nova!Terminal
<1>3. NovaWaybillIsParcel'
   BY DEF NovaFacts, NovaWaybillIsParcel, Nova!outside
<1>4. NovaDraftIsFresh' /\ NovaDocumentIsMade' /\ Nova!CreatingHasAttempt' /\ Nova!CancelledIsDeleted'
   BY <1>2 DEF NovaFacts, NovaDraftIsFresh, NovaDocumentIsMade, Nova!CreatingHasAttempt,
      Nova!CancelledIsDeleted, Nova!outside
<1>. QED BY <1>2, <1>3, <1>4 DEF NovaFacts

LEMMA NovaCheckFreezeKeeps ==
    ASSUME NovaBounds, NovaIInv, NEW w \in Workers, Nova!CheckFreeze(w)
    PROVE  NovaIInv'
<1>1. Nova!TypeOK /\ NovaFacts /\ worker[w].phase = "checking" /\ UNCHANGED <<Nova!outside, Nova!rest>>
   BY DEF NovaIInv, NovaFacts, Nova!CheckFreeze
<1>2. worker[w].key = Nova!Create
   BY <1>1 DEF NovaIInv, NovaKnown, NovaReadFits
<1>3. CASE frozen /\ Nova!Owns(w)
   <2>1. attempt' = Nova!Settled(Nova!Create, "FAILED") /\ Nova!Rests(w) /\ attempt[Nova!Create].status = "PROCESSING"
      BY <1>2, <1>3 DEF Nova!CheckFreeze, Nova!Owns
   <2>2. attempt'[Nova!Create].status = "FAILED"
      BY <1>1, <2>1, NovaKeyKinds, NovaSettling DEF Nova!AttemptStatus
   <2>3. shipment' = IF shipment.status = "CREATING" THEN [shipment EXCEPT !.status = "FAILED"] ELSE shipment
      BY <1>3 DEF Nova!CheckFreeze
   <2>4. NovaFacts' /\ shipment' \in [status : Nova!ShipmentStatus, version : Nat, document : {0, 1}, watched : BOOLEAN]
      BY <1>1, <2>1, <2>2, <2>3, NovaFreezeFacts
   <2>5. ~NovaAgain("FAILED")
      BY DEF NovaAgain
   <2>. QED BY <1>1, <2>1, <2>4, <2>5, NovaSettles
<1>4. CASE frozen /\ ~Nova!Owns(w)
   <2>1. Nova!Rests(w) /\ attempt' = attempt /\ shipment' = shipment
      BY <1>4 DEF Nova!CheckFreeze
   <2>2. NovaFacts'
      BY <1>1, <2>1, NovaSameFacts DEF NovaFacts, NovaWaybillIsParcel, Nova!outside
   <2>3. ~NovaCreator(w)
      BY <1>4 DEF NovaCreator
   <2>. QED BY <1>1, <2>1, <2>2, <2>3, NovaRestQuietly DEF Nova!TypeOK
<1>5. CASE ~frozen
   <2>1. Nova!Goes(w, "calling") /\ UNCHANGED <<attempt, shipment>> /\ "calling" \in Nova!Phase \ {"idle", "read", "writing"}
      BY <1>5 DEF Nova!CheckFreeze, Nova!Phase
   <2>2. worker'[w].phase = "calling"
      BY <1>1, <2>1, NovaWorkGoes
   <2>3. NovaCalling(w) /\ ~NovaSearching(w)'
      BY <1>1, <1>2, <2>2 DEF NovaCalling, NovaSearching
   <2>. QED BY <1>1, <2>1, <2>3, NovaGoesOn
<1>. QED BY <1>3, <1>4, <1>5

\* An answer without a waybill.
LEMMA NovaNotMade ==
    ASSUME NovaBounds, NovaIInv, NEW w \in Workers, NEW result \in {"UNKNOWN", "RETRYABLE", "FAILED"}, Nova!Answer(w, FALSE, result)
    PROVE  NovaIInv'
<1>1. /\ Nova!TypeOK /\ worker[w].phase = "calling" /\ worker[w].key = Nova!Create /\ NovaCalling(w)
      /\ UNCHANGED <<shipment, attempt, Nova!outside, Nova!rest>>
   BY DEF NovaIInv, Nova!Answer, NovaCalling, Nova!outside
<1>2. PICK answer \in Nova!ShipmentStatus :
         Nova!Ends(w, result, answer) /\ answer = (IF result = "FAILED" THEN "FAILED" ELSE "CREATING")
   BY DEF Nova!Answer, Nova!ShipmentStatus, Nova!Terminal
<1>3. result \in NovaResults
   BY DEF NovaResults
<1>4. /\ worker'[w].key = Nova!Create
      /\ worker'[w].phase = "writing" /\ worker'[w].result = result /\ worker'[w].answer = answer
   BY <1>1, <1>2, <1>3, NovaWorkEnds DEF NovaKeeps
<1>5. NovaCreateFits(w)' /\ NovaSyncFits(w)'
   BY <1>2, <1>4 DEF NovaCreateFits, NovaSyncFits
<1>. QED BY <1>1, <1>2, <1>3, <1>5, NovaEndsCall

\* An answer, or none, with one.
LEMMA NovaMade ==
    ASSUME NovaBounds, NovaIInv, NEW w \in Workers, NEW result \in {"SUCCEEDED", "UNKNOWN", "FAILED"}, Nova!Answer(w, TRUE, result)
    PROVE  NovaIInv'
<1>1. /\ Nova!TypeOK /\ NovaFacts /\ worker[w].phase = "calling" /\ worker[w].key = Nova!Create
      /\ UNCHANGED <<shipment, attempt, Nova!rest>> /\ waybills' = waybills + 1
   BY DEF NovaIInv, NovaFacts, Nova!Answer
<1>2. waybills \in Nat /\ waybills' \in Nat /\ waybills' > 0
   BY <1>1 DEF Nova!TypeOK
<1>3. parcel' = (IF waybills = 0 THEN "CREATED" ELSE parcel)
   BY DEF Nova!Answer
<1>4. /\ parcel' \in Nova!Parcel /\ parcel' # "NONE" /\ NovaWaybillIsParcel'
      /\ parcel = "DELETED" => parcel' = "DELETED"
   BY <1>1, <1>2, <1>3 DEF Nova!TypeOK, Nova!Parcel, NovaFacts, NovaWaybillIsParcel
<1>5. NovaFacts'
   BY <1>1, <1>4, NovaSameFacts
<1>6. PICK answer \in Nova!ShipmentStatus :
         /\ Nova!Ends(w, result, answer)
         /\ result = "SUCCEEDED" => answer = "CREATED"
         /\ result = "FAILED" => answer = "FAILED"
         /\ result = "UNKNOWN" => answer = "CREATING"
   BY DEF Nova!Answer, Nova!ShipmentStatus, Nova!Terminal, Nova!Tracked
<1>7. result \in NovaResults
   BY DEF NovaResults
<1>8. /\ worker' \in [Workers -> Nova!Work] /\ NovaOthers(w) /\ NovaKeeps(w)
      /\ worker'[w].phase = "writing" /\ worker'[w].result = result /\ worker'[w].answer = answer
   BY <1>1, <1>6, <1>7, NovaWorkEnds
<1>9. Nova!TypeOK'
   BY <1>1, <1>2, <1>4, <1>8 DEF Nova!TypeOK, Nova!rest
<1>10. NovaReadFits(w)' /\ NovaCreateFits(w)' /\ NovaSyncFits(w)'
   BY <1>1, <1>2, <1>4, <1>6, <1>8 DEF NovaIInv, NovaKnown, NovaReadFits, NovaCreateFits, NovaSyncFits,
      NovaKeeps
<1>11. NovaCalling(w) /\ ~NovaCalling(w)' /\ ~NovaSearching(w) /\ ~NovaSearching(w)'
   BY <1>1, <1>8 DEF NovaCalling, NovaSearching
<1>12. NovaTicket' => NovaTicket
   <2>1. NovaCreator(w)' <=> NovaCreator(w)
      BY <1>1, <1>8, NovaSameCreator
   <2>2. ~NovaAgain(worker[w].result)'
      BY <1>2, <1>8 DEF NovaAgain
   <2>. QED BY <1>1, <1>2, <1>8, <2>1, <2>2, NovaSameTicket
<1>13. NovaPays(w)
   <2>1. unsearched' = unsearched /\ lost' = lost /\ unsearched \in Nat /\ lost \in Nat
      BY <1>1 DEF Nova!TypeOK, Nova!rest
   <2>. QED BY <1>1, <1>2, <1>11, <1>12, <2>1 DEF NovaPays, NovaLikely, NovaOne
<1>14. attempt[Nova!Create].attempts \in Int
   BY <1>1, NovaKeyKinds DEF Nova!TypeOK, Nova!Attempt
<1>. QED BY <1>1, <1>2, <1>4, <1>5, <1>8, <1>9, <1>10, <1>13, <1>14, NovaKeeping

LEMMA NovaAnswerKeeps ==
    ASSUME NovaBounds, NovaIInv, NEW w \in Workers,
           Nova!CreateAccepted(w) \/ Nova!CreateRateLimited(w) \/ Nova!CreateFailed(w) \/ Nova!CreateUnknown(w)
    PROVE  NovaIInv'
<1>1. CASE Nova!CreateAccepted(w)
   BY <1>1, NovaMade DEF Nova!CreateAccepted
<1>2. CASE Nova!CreateRateLimited(w)
   <2>1. Nova!RateLimited(w) \in {"UNKNOWN", "RETRYABLE", "FAILED"}
      BY DEF Nova!RateLimited
   <2>. QED BY <1>2, <2>1, NovaNotMade DEF Nova!CreateRateLimited
<1>3. CASE Nova!CreateFailed(w)
   <2>1. Nova!Answer(w, TRUE, "FAILED") \/ Nova!Answer(w, FALSE, "FAILED")
      BY <1>3 DEF Nova!CreateFailed
   <2>. QED BY <2>1, NovaMade, NovaNotMade
<1>4. CASE Nova!CreateUnknown(w)
   <2>1. Nova!Answer(w, TRUE, "UNKNOWN") \/ Nova!Answer(w, FALSE, "UNKNOWN")
      BY <1>4 DEF Nova!CreateUnknown
   <2>. QED BY <2>1, NovaMade, NovaNotMade
<1>. QED BY <1>1, <1>2, <1>3, <1>4

LEMMA NovaAskStatusKeeps ==
    ASSUME NovaBounds, NovaIInv, NEW w \in Workers, Nova!AskStatus(w)
    PROVE  NovaIInv'
<1>1. /\ Nova!TypeOK /\ worker[w].phase = "calling" /\ worker[w].key[1] = "STATUS_SYNC"
      /\ UNCHANGED <<shipment, attempt, Nova!outside, Nova!rest>>
   BY DEF NovaIInv, Nova!AskStatus
<1>2. worker[w].key # Nova!Create
   BY <1>1, NovaKeyKinds
<1>3. parcel # "NONE" /\ worker[w].was \notin Nova!Terminal \cup {"DRAFT", "CREATING"}
   BY <1>1, <1>2 DEF NovaIInv, NovaKnown, NovaReadFits
<1>4. PICK answer \in {Nova!Reported, worker[w].was} : Nova!Ends(w, "SUCCEEDED", answer)
   BY DEF Nova!AskStatus
<1>5. answer \in Nova!ShipmentStatus /\ answer \notin {"DRAFT", "CREATING", "CANCELLED"}
   <2>1. worker[w].was \in Nova!ShipmentStatus /\ parcel \in Nova!Parcel
      BY <1>1 DEF Nova!TypeOK, Nova!Work
   <2>. QED BY <1>3, <2>1 DEF Nova!Reported, Nova!Parcel, Nova!ShipmentStatus, Nova!Terminal, Nova!Tracked
<1>6. "SUCCEEDED" \in NovaResults
   BY DEF NovaResults
<1>7. worker'[w].key # Nova!Create /\ worker'[w].result = "SUCCEEDED" /\ worker'[w].answer = answer
   BY <1>1, <1>2, <1>4, <1>5, <1>6, NovaWorkEnds DEF NovaKeeps
<1>8. NovaCreateFits(w)' /\ NovaSyncFits(w)'
   BY <1>5, <1>7 DEF NovaCreateFits, NovaSyncFits
<1>. QED BY <1>1, <1>2, <1>4, <1>5, <1>6, <1>8, NovaEndsCall

LEMMA NovaCallFailsKeeps ==
    ASSUME NovaBounds, NovaIInv, NEW w \in Workers, Nova!CallFails(w)
    PROVE  NovaIInv'
<1>1. /\ Nova!TypeOK /\ worker[w].phase = "calling" /\ worker[w].key # Nova!Create
      /\ UNCHANGED <<shipment, attempt, Nova!outside, Nova!rest>>
   BY DEF NovaIInv, Nova!CallFails
<1>2. PICK result \in {"RETRYABLE", "FAILED"} : Nova!Ends(w, result, "CANCELLED")
   BY DEF Nova!CallFails
<1>3. result \in NovaResults /\ "CANCELLED" \in Nova!ShipmentStatus
   BY DEF NovaResults, Nova!ShipmentStatus, Nova!Terminal
<1>4. worker'[w].key # Nova!Create /\ worker'[w].result = result
   BY <1>1, <1>2, <1>3, NovaWorkEnds DEF NovaKeeps
<1>5. NovaCreateFits(w)' /\ NovaSyncFits(w)'
   BY <1>4 DEF NovaCreateFits, NovaSyncFits
<1>. QED BY <1>1, <1>2, <1>3, <1>5, NovaEndsCall

LEMMA NovaCallCancelKeeps ==
    ASSUME NovaBounds, NovaIInv, NEW w \in Workers, Nova!CallCancel(w)
    PROVE  NovaIInv'
<1>1. /\ Nova!TypeOK /\ NovaFacts /\ worker[w].phase = "calling" /\ worker[w].key[1] = "CANCEL"
      /\ UNCHANGED <<shipment, attempt, waybills, Nova!rest>> /\ parcel = "CREATED" /\ parcel' = "DELETED"
   BY DEF NovaIInv, NovaFacts, Nova!CallCancel
<1>2. worker[w].key # Nova!Create /\ worker[w].key[1] # "STATUS_SYNC"
   BY <1>1, NovaKeyKinds
<1>3. PICK result \in {"SUCCEEDED", "RETRYABLE", "FAILED"} : Nova!Ends(w, result, "CANCELLED")
   BY DEF Nova!CallCancel
<1>4. result \in NovaResults /\ "CANCELLED" \in Nova!ShipmentStatus
   BY DEF NovaResults, Nova!ShipmentStatus, Nova!Terminal
<1>5. /\ worker' \in [Workers -> Nova!Work] /\ NovaOthers(w) /\ NovaKeeps(w)
      /\ worker'[w].phase = "writing" /\ worker'[w].result = result /\ worker'[w].answer = "CANCELLED"
   BY <1>1, <1>3, <1>4, NovaWorkEnds
<1>6. Nova!TypeOK'
   BY <1>1, <1>5 DEF Nova!TypeOK, Nova!rest, Nova!Parcel
<1>7. NovaFacts'
   <2>1. NovaWaybillIsParcel'
      BY <1>1 DEF NovaFacts, NovaWaybillIsParcel
   <2>. QED BY <1>1, <2>1, NovaSameFacts
<1>8. NovaReadFits(w)' /\ NovaCreateFits(w)' /\ NovaSyncFits(w)'
   BY <1>1, <1>2, <1>5 DEF NovaReadFits, NovaCreateFits, NovaSyncFits, NovaKeeps
<1>9. ~NovaCreator(w) /\ ~NovaCreator(w)' /\ ~NovaCalling(w)' /\ ~NovaSearching(w)'
   BY <1>2, <1>5 DEF NovaCreator, NovaCalling, NovaSearching, NovaKeeps
<1>10. NovaTicket' => NovaTicket
   <2>1. NovaCreator(w)' <=> NovaCreator(w)
      BY <1>9
   <2>. QED BY <1>1, <1>5, <1>9, <2>1, NovaSameTicket
<1>11. NovaPays(w)
   BY <1>1, <1>9, <1>10, NovaFree DEF Nova!rest
<1>12. attempt[Nova!Create].attempts \in Int
   BY <1>1, NovaKeyKinds DEF Nova!TypeOK, Nova!Attempt
<1>. QED BY <1>1, <1>5, <1>6, <1>7, <1>8, <1>11, <1>12, NovaKeeping

-----------------------------------------------------------------------------
(* Claims, and what they write                                              *)

NovaShipments == [status : Nova!ShipmentStatus, version : Nat, document : {0, 1}, watched : BOOLEAN]

\* A claim: the attempt, and the worker with its number.
LEMMA NovaClaims ==
    ASSUME NovaBounds, NovaIInv, NEW w \in Workers, Nova!ClaimAttempt(w), Nova!Unchanged(w)
    PROVE  LET k == worker[w].key IN
           /\ worker[w].phase = "read" /\ attempt[k].status = worker[w].seen
           /\ worker' \in [Workers -> Nova!Work] /\ NovaOthers(w)
           /\ worker'[w].key = k /\ worker'[w].was = worker[w].was
           /\ worker'[w].lease = attempt[k].attempts + 1
           /\ k # Nova!Create => worker'[w].phase = "calling"
           /\ k = Nova!Create => worker'[w].phase = IF worker[w].seen = "UNKNOWN" THEN "searching" ELSE "checking"
           /\ attempt' \in [Nova!Keys -> Nova!Attempt]
           /\ attempt'[k] = [status |-> "PROCESSING", attempts |-> attempt[k].attempts + 1, expired |-> FALSE]
           /\ \A j \in Nova!Keys \ {k} : attempt'[j] = attempt[j]
           /\ UNCHANGED <<shipment, Nova!outside, Nova!rest>>
           /\ Nova!TypeOK'
<1>. DEFINE k == worker[w].key
<1>1. Nova!TypeOK /\ worker[w] \in Nova!Work /\ k \in Nova!Keys /\ attempt[k] \in Nova!Attempt
   BY DEF NovaIInv, Nova!TypeOK, Nova!Work
<1>2. /\ worker[w].phase = "read" /\ attempt[k].status = worker[w].seen /\ attempt[k].attempts < MaxClaims
      /\ UNCHANGED <<shipment, Nova!outside, Nova!rest>>
   BY DEF Nova!ClaimAttempt, Nova!Unchanged
<1>3. attempt[k].attempts + 1 \in 0..MaxClaims /\ attempt[k].attempts \in Nat
   BY <1>1, <1>2 DEF Nova!Attempt, NovaBounds
<1>4. [status |-> "PROCESSING", attempts |-> attempt[k].attempts + 1, expired |-> FALSE] \in Nova!Attempt
   BY <1>3 DEF Nova!Attempt, Nova!AttemptStatus
<1>5. attempt' = [attempt EXCEPT ![k] =
                     [status |-> "PROCESSING", attempts |-> attempt[k].attempts + 1, expired |-> FALSE]]
   BY <1>1 DEF Nova!ClaimAttempt, Nova!TypeOK
<1>6. /\ attempt' \in [Nova!Keys -> Nova!Attempt]
      /\ attempt'[k] = [status |-> "PROCESSING", attempts |-> attempt[k].attempts + 1, expired |-> FALSE]
      /\ \A j \in Nova!Keys \ {k} : attempt'[j] = attempt[j]
   BY <1>1, <1>4, <1>5 DEF Nova!TypeOK
<1>7. PICK phase \in {"calling", "searching", "checking"} :
         /\ worker' = [worker EXCEPT ![w] = [worker[w] EXCEPT !.lease = attempt[k].attempts + 1, !.phase = phase]]
         /\ k # Nova!Create => phase = "calling"
         /\ k = Nova!Create => phase = IF worker[w].seen = "UNKNOWN" THEN "searching" ELSE "checking"
   <2>1. CASE k # Nova!Create
      BY <2>1 DEF Nova!ClaimAttempt
   <2>2. CASE k = Nova!Create /\ worker[w].seen = "UNKNOWN"
      BY <2>2 DEF Nova!ClaimAttempt, Nova!Searches
   <2>3. CASE k = Nova!Create /\ worker[w].seen # "UNKNOWN"
      BY <2>3 DEF Nova!ClaimAttempt, Nova!Searches
   <2>. QED BY <2>1, <2>2, <2>3
<1>8. PICK x : x = [worker[w] EXCEPT !.lease = attempt[k].attempts + 1, !.phase = phase]
   OBVIOUS
<1>9. /\ x \in Nova!Work /\ x.key = k /\ x.was = worker[w].was /\ x.lease = attempt[k].attempts + 1
      /\ x.phase = phase
   <2>1. phase \in Nova!Phase
      BY DEF Nova!Phase
   <2>. QED BY <1>1, <1>3, <1>8, <2>1 DEF Nova!Work
<1>10. worker' \in [Workers -> Nova!Work] /\ NovaOthers(w) /\ worker'[w] = x
   BY <1>1, <1>7, <1>8, <1>9 DEF Nova!TypeOK, NovaOthers
<1>11. Nova!TypeOK'
   BY <1>1, <1>2, <1>6, <1>10 DEF Nova!TypeOK, Nova!outside, Nova!rest
<1>. QED BY <1>2, <1>6, <1>7, <1>9, <1>10, <1>11

LEMMA NovaClaimKeeps ==
    ASSUME NovaBounds, NovaIInv, NEW w \in Workers, Nova!ClaimAttempt(w)
    PROVE  NovaIInv'
<1>. DEFINE k == worker[w].key
<1>1. Nova!TypeOK /\ NovaFacts /\ worker[w].phase = "read" /\ UNCHANGED <<shipment, Nova!outside, Nova!rest>> /\ k \in Nova!Keys
   BY DEF NovaIInv, NovaFacts, Nova!ClaimAttempt, Nova!TypeOK, Nova!Work
<1>2. ~NovaCreator(w) /\ ~NovaCalling(w) /\ ~NovaSearching(w)
   BY <1>1 DEF NovaCreator, Nova!Owns, NovaCalling, NovaSearching
<1>3. CASE ~Nova!Unchanged(w)
   <2>1. Nova!Rests(w) /\ attempt' = attempt
      BY <1>3 DEF Nova!ClaimAttempt
   <2>2. NovaFacts'
      BY <1>1, <2>1, NovaSameFacts DEF NovaFacts, NovaWaybillIsParcel, Nova!outside
   <2>. QED BY <1>1, <1>2, <2>1, <2>2, NovaRestQuietly DEF Nova!TypeOK
<1>4. CASE Nova!Unchanged(w) /\ k # Nova!Create
   <2>1. /\ Nova!TypeOK' /\ NovaOthers(w) /\ worker'[w].key = k /\ worker'[w].was = worker[w].was
         /\ worker'[w].phase = "calling" /\ \A j \in Nova!Keys \ {k} : attempt'[j] = attempt[j]
      BY <1>4, NovaClaims
   <2>2. attempt'[Nova!Create] = attempt[Nova!Create]
      BY <1>4, <2>1, NovaKeyKinds
   <2>3. NovaReadFits(w)' /\ NovaCreateFits(w)' /\ NovaSyncFits(w)'
      BY <1>1, <1>4, <2>1 DEF NovaIInv, NovaKnown, NovaReadFits, NovaCreateFits, NovaSyncFits, Nova!outside
   <2>4. ~NovaCreator(w)' /\ ~NovaCalling(w)' /\ ~NovaSearching(w)'
      BY <1>4, <2>1 DEF NovaCreator, NovaCalling, NovaSearching
   <2>5. NovaTicket' => NovaTicket
      <3>1. NovaCreator(w)' <=> NovaCreator(w)
         BY <1>2, <2>4
      <3>. QED BY <1>1, <2>1, <2>2, <2>4, <3>1, NovaSameTicket DEF Nova!outside
   <2>6. NovaPays(w)
      BY <1>1, <2>4, <2>5, NovaFree DEF Nova!outside, Nova!rest
   <2>. QED BY <1>1, <2>1, <2>2, <2>3, <2>6, NovaQuiet
<1>5. CASE Nova!Unchanged(w) /\ k = Nova!Create
   <2>1. /\ Nova!TypeOK' /\ NovaOthers(w) /\ worker'[w].key = Nova!Create /\ worker'[w].was = worker[w].was
         /\ worker'[w].lease = attempt[Nova!Create].attempts + 1
         /\ worker'[w].phase = IF worker[w].seen = "UNKNOWN" THEN "searching" ELSE "checking"
         /\ attempt'[Nova!Create] = [status |-> "PROCESSING", attempts |-> attempt[Nova!Create].attempts + 1, expired |-> FALSE]
         /\ attempt[Nova!Create].status = worker[w].seen
      BY <1>5, NovaClaims
   <2>2. attempt[Nova!Create].attempts \in Int
      BY <1>1, NovaKeyKinds DEF Nova!TypeOK, Nova!Attempt
   <2>3. attempt'[Nova!Create].status = "PROCESSING" /\ attempt'[Nova!Create].attempts = attempt[Nova!Create].attempts + 1
         /\ ~attempt'[Nova!Create].expired
      BY <2>1
   <2>4. /\ worker[w].seen \in {"PENDING", "RETRYABLE", "UNKNOWN", "PROCESSING"}
         /\ worker[w].seen = "PROCESSING" => attempt[Nova!Create].expired
      <3>1. worker[w].seen = "PROCESSING" => attempt[Nova!Create].attempts = worker[w].attempts
         BY <1>5, <2>1 DEF Nova!Unchanged
      <3>. QED BY <1>1, <1>5, <2>1, <3>1 DEF NovaIInv, NovaKnown, NovaReadFits
   <2>5. NovaFacts'
      BY <1>1, <2>1, <2>3, <2>4
         DEF NovaFacts, NovaDraftIsFresh, NovaDocumentIsMade, NovaWaybillIsParcel, Nova!CreatingHasAttempt,
            Nova!CancelledIsDeleted, Nova!outside
   <2>6. NovaReadFits(w)' /\ NovaCreateFits(w)' /\ NovaSyncFits(w)'
      <3>1. Nova!Create[1] # "STATUS_SYNC"
         BY NovaKeyKinds
      <3>. QED BY <2>1, <2>2, <2>3, <3>1 DEF NovaReadFits, NovaCreateFits, NovaSyncFits
   <2>7. NovaCreator(w)'
      BY <2>1, <2>3 DEF NovaCreator, Nova!Owns
   <2>8. ~NovaTicket'
      <3>1. \A v \in Workers \ {w} : ~NovaCreator(v)'
         <4>. SUFFICES ASSUME NEW v \in Workers \ {w}, NovaCreator(v)' PROVE FALSE
            OBVIOUS
         <4>1. worker'[v] = worker[v]
            BY <2>1 DEF NovaOthers
         <4>2. /\ worker[v].key = Nova!Create /\ worker[v].phase \notin {"idle", "read"}
               /\ worker[v].lease = attempt[Nova!Create].attempts + 1
            BY <2>3, <4>1 DEF NovaCreator, Nova!Owns
         <4>3. worker[v].lease <= attempt[Nova!Create].attempts
            BY <4>2 DEF NovaIInv, NovaKnown, NovaReadFits
         <4>. QED BY <2>2, <4>2, <4>3
      <3>2. worker'[w].phase # "writing"
         BY <2>1
      <3>. QED BY <2>3, <2>7, <3>1, <3>2 DEF NovaTicket, NovaAgain
   <2>9. NovaPays(w)
      <3>1. /\ waybills' = waybills /\ lost' = lost /\ unsearched' = unsearched
            /\ waybills \in Nat /\ unsearched \in Nat /\ lost \in Nat
         BY <1>1 DEF Nova!TypeOK, Nova!outside, Nova!rest
      <3>2. CASE worker[w].seen = "UNKNOWN"
         <4>1. NovaSearching(w)' /\ ~NovaCalling(w)'
            BY <2>1, <3>2 DEF NovaCalling, NovaSearching
         <4>2. waybills = 0 => NovaTicket
            BY <2>1, <3>2 DEF NovaTicket, NovaAgain
         <4>. QED BY <1>2, <2>8, <3>1, <4>1, <4>2 DEF NovaPays, NovaLikely, NovaOne
      <3>3. CASE worker[w].seen # "UNKNOWN"
         <4>1. ~NovaSearching(w)' /\ NovaCalling(w)'
            BY <2>1, <3>3 DEF NovaCalling, NovaSearching
         <4>2. NovaTicket
            BY <2>1, <2>4, <3>3 DEF NovaTicket, NovaAgain
         <4>. QED BY <1>2, <2>8, <3>1, <4>1, <4>2 DEF NovaPays, NovaLikely, NovaOne
      <3>. QED BY <3>2, <3>3
   <2>10. attempt[Nova!Create].attempts <= attempt'[Nova!Create].attempts
          /\ attempt'[Nova!Create].attempts # attempt[Nova!Create].attempts
      BY <2>2, <2>3
   <2>. QED BY <1>1, <2>1, <2>5, <2>6, <2>9, <2>10, NovaKeeping DEF Nova!outside
<1>. QED BY <1>3, <1>4, <1>5

LEMMA NovaClaimFrozenKeeps ==
    ASSUME NovaBounds, NovaIInv, NEW w \in Workers, Nova!ClaimFrozen(w)
    PROVE  NovaIInv'
<1>. DEFINE k == worker[w].key
<1>1. Nova!TypeOK /\ NovaFacts /\ worker[w].phase = "read" /\ UNCHANGED <<Nova!outside, Nova!rest>> /\ k \in Nova!Keys /\ Nova!Rests(w)
   BY DEF NovaIInv, NovaFacts, Nova!ClaimFrozen, Nova!TypeOK, Nova!Work
<1>2. ~NovaCreator(w)
   BY <1>1 DEF NovaCreator, Nova!Owns
<1>3. CASE k # Nova!Create
   <2>1. shipment' = shipment /\ (attempt' = attempt \/ attempt' = Nova!Settled(k, "FAILED"))
      BY <1>3 DEF Nova!ClaimFrozen
   <2>2. attempt' \in [Nova!Keys -> Nova!Attempt] /\ attempt'[Nova!Create] = attempt[Nova!Create]
      <3>1. CASE attempt' = attempt
         BY <1>1, <3>1 DEF Nova!TypeOK
      <3>2. CASE attempt' = Nova!Settled(k, "FAILED")
         BY <1>1, <1>3, <3>2, NovaKeyKinds, NovaSettling DEF Nova!AttemptStatus
      <3>. QED BY <2>1, <3>1, <3>2
   <2>3. NovaFacts'
      BY <1>1, <2>1, <2>2, NovaSameFacts DEF NovaFacts, NovaWaybillIsParcel, Nova!outside
   <2>. QED BY <1>1, <1>2, <2>1, <2>2, <2>3, NovaRestQuietly DEF Nova!TypeOK
<1>4. CASE k = Nova!Create
   <2>1. shipment' = IF shipment.status = "CREATING" THEN [shipment EXCEPT !.status = "FAILED"] ELSE shipment
      BY <1>4 DEF Nova!ClaimFrozen
   <2>2. CASE attempt[Nova!Create].status = worker[w].seen
      <3>1. attempt' = Nova!Settled(Nova!Create, "FAILED")
         BY <1>4, <2>2 DEF Nova!ClaimFrozen
      <3>2. attempt'[Nova!Create].status = "FAILED"
         BY <1>1, <3>1, NovaKeyKinds, NovaSettling DEF Nova!AttemptStatus
      <3>3. attempt[Nova!Create].status \notin {"NONE", "SUCCEEDED"}
         BY <1>1, <2>2 DEF NovaIInv, NovaKnown, NovaReadFits
      <3>4. NovaFacts' /\ shipment' \in [status : Nova!ShipmentStatus, version : Nat, document : {0, 1}, watched : BOOLEAN]
         BY <1>1, <2>1, <3>2, <3>3, NovaFreezeFacts
      <3>5. ~NovaAgain("FAILED")
         BY DEF NovaAgain
      <3>. QED BY <1>1, <3>1, <3>4, <3>5, NovaSettles
   <2>3. CASE attempt[Nova!Create].status # worker[w].seen
      <3>1. attempt' = attempt
         BY <1>4, <2>3 DEF Nova!ClaimFrozen
      <3>2. NovaFacts' /\ shipment' \in [status : Nova!ShipmentStatus, version : Nat, document : {0, 1}, watched : BOOLEAN]
         BY <1>1, <2>1, <3>1, NovaFreezeFacts
      <3>. QED BY <1>1, <1>2, <3>1, <3>2, NovaRestQuietly DEF Nova!TypeOK
   <2>. QED BY <2>2, <2>3
<1>. QED BY <1>3, <1>4

LEMMA NovaWriteCreate ==
    ASSUME NovaBounds, NovaIInv, NEW w \in Workers, Nova!Write(w), Nova!Owns(w), worker[w].key = Nova!Create
    PROVE  NovaIInv'
<1>. DEFINE result == worker[w].result
            answer == worker[w].answer
<1>1. /\ Nova!TypeOK /\ NovaFacts /\ worker[w].phase = "writing" /\ UNCHANGED <<Nova!outside, Nova!rest>>
      /\ Nova!Rests(w)
      /\ attempt' = Nova!Settled(Nova!Create, result)
      /\ shipment' = Nova!ShipmentAfter(Nova!Create, result, answer)
      /\ attempt[Nova!Create].status = "PROCESSING"
   BY DEF NovaIInv, NovaFacts, Nova!Write, Nova!Owns
<1>2. \/ result = "SUCCEEDED" /\ answer = "CREATED" /\ waybills > 0
      \/ result = "FAILED" /\ answer = "FAILED"
      \/ result \in {"UNKNOWN", "RETRYABLE"} /\ answer = "CREATING"
   BY <1>1 DEF NovaIInv, NovaKnown, NovaCreateFits
<1>3. attempt'[Nova!Create].status = result
   BY <1>1, <1>2, NovaKeyKinds, NovaSettling DEF Nova!AttemptStatus, Nova!Open
<1>4. shipment \in NovaShipments /\ shipment.document = 0
   BY <1>1 DEF Nova!TypeOK, NovaFacts, NovaDocumentIsMade, NovaShipments
<1>5. shipment' \in NovaShipments /\ NovaFacts'
   <2>1. CASE result = "SUCCEEDED"
      <3>1. shipment' = [shipment EXCEPT !.status = "CREATED", !.document = 1, !.watched = TRUE]
         BY <1>1, <2>1 DEF Nova!ShipmentAfter
      <3>2. shipment' \in NovaShipments /\ shipment'.status = "CREATED"
         BY <1>4, <3>1 DEF NovaShipments, Nova!ShipmentStatus, Nova!Tracked
      <3>3. parcel' # "NONE" /\ NovaWaybillIsParcel'
         BY <1>1, <1>2, <2>1 DEF NovaFacts, NovaWaybillIsParcel, Nova!outside
      <3>. QED BY <1>3, <2>1, <3>2, <3>3
               DEF NovaFacts, NovaDraftIsFresh, NovaDocumentIsMade, Nova!CreatingHasAttempt,
                  Nova!CancelledIsDeleted
   <2>2. CASE result # "SUCCEEDED"
      <3>1. shipment' = [shipment EXCEPT !.status = answer]
         BY <1>1, <2>2 DEF Nova!ShipmentAfter
      <3>2. shipment' \in NovaShipments /\ shipment'.status = answer /\ shipment'.document = 0
         BY <1>2, <1>4, <2>2, <3>1 DEF NovaShipments, Nova!ShipmentStatus, Nova!Terminal
      <3>3. NovaWaybillIsParcel'
         BY <1>1 DEF NovaFacts, NovaWaybillIsParcel, Nova!outside
      <3>. QED BY <1>2, <1>3, <2>2, <3>2, <3>3
               DEF NovaFacts, NovaDraftIsFresh, NovaDocumentIsMade, Nova!CreatingHasAttempt,
                  Nova!CancelledIsDeleted
   <2>. QED BY <2>1, <2>2
<1>6. NovaAgain(result) => NovaTicket
   BY <1>1 DEF NovaTicket, NovaCreator
<1>. QED BY <1>1, <1>2, <1>5, <1>6, NovaSettles DEF NovaShipments

LEMMA NovaWriteOther ==
    ASSUME NovaBounds, NovaIInv, NEW w \in Workers, Nova!Write(w), Nova!Owns(w), worker[w].key # Nova!Create
    PROVE  NovaIInv'
<1>. DEFINE k == worker[w].key
            result == worker[w].result
            answer == worker[w].answer
<1>1. /\ Nova!TypeOK /\ NovaFacts /\ worker[w].phase = "writing" /\ UNCHANGED <<Nova!outside, Nova!rest>>
      /\ Nova!Rests(w)
      /\ attempt' = Nova!Settled(k, result) /\ shipment' = Nova!ShipmentAfter(k, result, answer)
      /\ k \in Nova!Keys
      /\ answer \in Nova!ShipmentStatus
   BY DEF NovaIInv, NovaFacts, Nova!Write, Nova!TypeOK, Nova!Work
<1>2. /\ result \in {"SUCCEEDED", "RETRYABLE", "FAILED"}
      /\ result = "SUCCEEDED" => answer \notin {"DRAFT", "CREATING"} /\ (answer = "CANCELLED" => parcel = "DELETED")
   BY <1>1 DEF NovaIInv, NovaKnown, NovaSyncFits
<1>3. attempt' \in [Nova!Keys -> Nova!Attempt] /\ attempt'[Nova!Create] = attempt[Nova!Create]
   BY <1>1, <1>2, NovaKeyKinds, NovaSettling DEF Nova!AttemptStatus, Nova!Open
<1>4. shipment \in NovaShipments
   BY <1>1 DEF Nova!TypeOK, NovaShipments
<1>5. shipment' \in NovaShipments /\ NovaFacts'
   <2>1. CASE result = "SUCCEEDED"
      <3>1. PICK b \in BOOLEAN : shipment' = [shipment EXCEPT !.status = answer, !.version = shipment.version + 1,
                                                             !.watched = b]
         BY <1>1, <1>4, <2>1 DEF Nova!ShipmentAfter, Nova!Bumped, NovaShipments
      <3>2. shipment' \in NovaShipments /\ shipment'.status = answer /\ shipment'.document = shipment.document
         <4>1. shipment.version + 1 \in Nat
            BY <1>4 DEF NovaShipments
         <4>. QED BY <1>1, <1>4, <3>1, <4>1 DEF NovaShipments
      <3>3. NovaWaybillIsParcel'
         BY <1>1 DEF NovaFacts, NovaWaybillIsParcel, Nova!outside
      <3>. QED BY <1>1, <1>2, <1>3, <2>1, <3>2, <3>3
               DEF NovaFacts, NovaDraftIsFresh, NovaDocumentIsMade, Nova!CreatingHasAttempt,
                  Nova!CancelledIsDeleted, Nova!outside
   <2>2. CASE result # "SUCCEEDED"
      <3>1. shipment' = shipment
         BY <1>1, <2>2 DEF Nova!ShipmentAfter
      <3>. QED BY <1>1, <1>3, <1>4, <3>1, NovaSameFacts DEF NovaFacts, NovaWaybillIsParcel, Nova!outside
   <2>. QED BY <2>1, <2>2
<1>6. ~NovaCreator(w)
   BY DEF NovaCreator
<1>. QED BY <1>1, <1>3, <1>5, <1>6, NovaRestQuietly DEF NovaShipments

LEMMA NovaWriteKeeps ==
    ASSUME NovaBounds, NovaIInv, NEW w \in Workers, Nova!Write(w)
    PROVE  NovaIInv'
<1>1. CASE ~Nova!Owns(w)
   <2>1. Nova!TypeOK /\ NovaFacts /\ UNCHANGED <<attempt, shipment, Nova!outside, Nova!rest>> /\ Nova!Rests(w)
      BY <1>1 DEF NovaIInv, NovaFacts, Nova!Write
   <2>2. NovaFacts'
      BY <2>1, NovaSameFacts DEF NovaFacts, NovaWaybillIsParcel, Nova!outside
   <2>3. ~NovaCreator(w)
      BY <1>1 DEF NovaCreator
   <2>. QED BY <2>1, <2>2, <2>3, NovaRestQuietly DEF Nova!TypeOK
<1>. QED BY <1>1, NovaWriteCreate, NovaWriteOther

-----------------------------------------------------------------------------
(* Steps in which no worker moves                                           *)

LEMMA NovaStill ==
    ASSUME NovaBounds, NovaIInv, Nova!TypeOK', worker' = worker, NovaFacts', waybills' = waybills, unsearched' = unsearched,
           parcel # "NONE" => parcel' # "NONE", parcel = "DELETED" => parcel' = "DELETED",
           attempt'[Nova!Create].attempts = attempt[Nova!Create].attempts,
           attempt'[Nova!Create].status = "PROCESSING" =>
               attempt[Nova!Create].status = "PROCESSING" /\ (attempt[Nova!Create].expired => attempt'[Nova!Create].expired),
           \/ lost' = lost + 1
           \/ lost' = lost /\ (NovaTicket' => NovaTicket)
    PROVE  NovaIInv'
<1>1. NovaKnown'
   <2>. SUFFICES ASSUME NEW v \in Workers PROVE NovaReadFits(v)' /\ NovaCreateFits(v)' /\ NovaSyncFits(v)'
      BY DEF NovaKnown
   <2>1. worker'[v] = worker[v] /\ NovaReadFits(v) /\ NovaCreateFits(v) /\ NovaSyncFits(v)
      BY DEF NovaIInv, NovaKnown
   <2>2. NovaCreateFits(v)' /\ NovaSyncFits(v)'
      BY <2>1 DEF NovaCreateFits, NovaSyncFits
   <2>3. NovaReadFits(v)'
      BY <2>1 DEF NovaReadFits
   <2>. QED BY <2>2, <2>3
<1>2. NovaAccounted'
   <2>1. NovaCallers' = NovaCallers /\ NovaSearchers' = NovaSearchers
      BY DEF NovaCallers, NovaSearchers, NovaCalling, NovaSearching
   <2>2. PICK n : n = NovaLikely(Cardinality(NovaCallers), Cardinality(NovaSearchers), waybills)
      OBVIOUS
   <2>3. n \in Int
      <3>1. Cardinality(NovaCallers) \in Int /\ Cardinality(NovaSearchers) \in Int
         BY NovaCounts, FS_CardinalityType
      <3>2. waybills \in Int
         BY DEF NovaIInv, Nova!TypeOK
      <3>. QED BY <2>2, <3>1, <3>2 DEF NovaLikely
   <2>4. n + NovaOne(NovaTicket) <= 1 + lost + unsearched
      BY <2>2 DEF NovaIInv, NovaAccounted
   <2>5. lost \in Int /\ unsearched \in Int
      BY DEF NovaIInv, Nova!TypeOK
   <2>6. n + NovaOne(NovaTicket') <= 1 + lost' + unsearched'
      BY <2>3, <2>4, <2>5 DEF NovaOne
   <2>. QED BY <2>1, <2>2, <2>6 DEF NovaAccounted
<1>. QED BY <1>1, <1>2 DEF NovaIInv, NovaFacts

\* A step that leaves the creation and the workers alone.
LEMMA NovaElsewhere ==
    ASSUME NovaBounds, NovaIInv, Nova!TypeOK', worker' = worker, shipment' = shipment, NovaWaybillIsParcel', waybills' = waybills,
           unsearched' = unsearched, parcel # "NONE" => parcel' # "NONE", parcel = "DELETED" => parcel' = "DELETED",
           attempt'[Nova!Create] = attempt[Nova!Create], lost' = lost \/ lost' = lost + 1
    PROVE  NovaIInv'
<1>1. NovaFacts'
   BY NovaSameFacts DEF NovaIInv, NovaFacts
<1>2. NovaTicket' => NovaTicket
   BY DEF NovaTicket, NovaAgain, NovaCreator, Nova!Owns
<1>. QED BY <1>1, <1>2, NovaStill

\* An attempt that is new, and not the creation.
LEMMA NovaAttemptAdded ==
    ASSUME Nova!TypeOK, NEW k \in Nova!Keys, attempt' = [attempt EXCEPT ![k].status = "PENDING"]
    PROVE  /\ attempt' \in [Nova!Keys -> Nova!Attempt]
           /\ attempt'[k].status = "PENDING" /\ attempt'[k].attempts = attempt[k].attempts
           /\ \A j \in Nova!Keys \ {k} : attempt'[j] = attempt[j]
<1>1. attempt[k] \in Nova!Attempt
   BY DEF Nova!TypeOK
<1>2. PICK x : x = [attempt[k] EXCEPT !.status = "PENDING"]
   OBVIOUS
<1>3. x \in Nova!Attempt /\ x.status = "PENDING" /\ x.attempts = attempt[k].attempts
   BY <1>1, <1>2 DEF Nova!Attempt, Nova!AttemptStatus, Nova!Open
<1>4. attempt' = [attempt EXCEPT ![k] = x]
   BY <1>2
<1>. QED BY <1>3, <1>4 DEF Nova!TypeOK

LEMMA NovaCreateShipmentKeeps ==
    ASSUME NovaBounds, NovaIInv, Nova!CreateShipment
    PROVE  NovaIInv'
<1>1. Nova!TypeOK /\ NovaFacts /\ UNCHANGED <<worker, Nova!outside, Nova!rest>> /\ shipment.status = "DRAFT"
   BY DEF NovaIInv, NovaFacts, Nova!CreateShipment
<1>2. shipment \in NovaShipments
   BY <1>1 DEF Nova!TypeOK, NovaShipments
<1>3. shipment' \in NovaShipments /\ shipment'.status = "CREATING" /\ shipment'.document = shipment.document
   BY <1>2 DEF Nova!CreateShipment, NovaShipments, Nova!ShipmentStatus
<1>4. /\ attempt' \in [Nova!Keys -> Nova!Attempt] /\ attempt'[Nova!Create].status = "PENDING"
      /\ attempt'[Nova!Create].attempts = attempt[Nova!Create].attempts
   BY <1>1, NovaKeyKinds, NovaAttemptAdded DEF Nova!CreateShipment
<1>5. Nova!TypeOK'
   BY <1>1, <1>3, <1>4 DEF Nova!TypeOK, NovaShipments, Nova!outside, Nova!rest
<1>6. attempt[Nova!Create].status = "NONE" /\ ~(shipment.document > 0)
   BY <1>1 DEF NovaFacts, NovaDraftIsFresh, NovaDocumentIsMade
<1>7. NovaFacts'
   BY <1>1, <1>3, <1>4, <1>6
      DEF NovaFacts, NovaDraftIsFresh, NovaDocumentIsMade, NovaWaybillIsParcel, Nova!CreatingHasAttempt,
         Nova!CancelledIsDeleted, Nova!outside
<1>8. NovaTicket
   BY <1>6 DEF NovaTicket
<1>. QED BY <1>1, <1>4, <1>5, <1>7, <1>8, NovaStill DEF Nova!outside, Nova!rest

LEMMA NovaCancelReadKeeps ==
    ASSUME NovaBounds, NovaIInv, Nova!CancelRead
    PROVE  NovaIInv'
<1>1. Nova!TypeOK /\ UNCHANGED <<shipment, attempt, worker, Nova!outside, frozen, freezes, lost, unsearched>>
   BY DEF NovaIInv, Nova!CancelRead
<1>2. asked' \in Nova!Versions
   BY <1>1 DEF Nova!CancelRead, Nova!TypeOK, Nova!Versions, NovaBounds
<1>3. Nova!TypeOK'
   BY <1>1, <1>2 DEF Nova!TypeOK, Nova!outside
<1>4. NovaWaybillIsParcel'
   BY <1>1 DEF NovaIInv, NovaWaybillIsParcel, Nova!outside
<1>. QED BY <1>1, <1>3, <1>4, NovaElsewhere DEF Nova!outside

LEMMA NovaCancelWriteKeeps ==
    ASSUME NovaBounds, NovaIInv, Nova!CancelWrite
    PROVE  NovaIInv'
<1>1. Nova!TypeOK /\ UNCHANGED <<shipment, worker, Nova!outside, frozen, freezes, lost, unsearched>> /\ asked' = -1
      /\ asked \in Nova!Versions
   BY DEF NovaIInv, Nova!CancelWrite, Nova!TypeOK
<1>2. Nova!Cancel(asked) \in Nova!Keys /\ Nova!Cancel(asked) # Nova!Create
   BY <1>1, NovaKeyKinds
<1>3. attempt' = attempt \/ attempt' = [attempt EXCEPT ![Nova!Cancel(asked)].status = "PENDING"]
   BY DEF Nova!CancelWrite
<1>4. attempt' \in [Nova!Keys -> Nova!Attempt] /\ attempt'[Nova!Create] = attempt[Nova!Create]
   <2>1. CASE attempt' = attempt
      BY <1>1, <2>1 DEF Nova!TypeOK
   <2>2. CASE attempt' = [attempt EXCEPT ![Nova!Cancel(asked)].status = "PENDING"]
      BY <1>1, <1>2, <2>2, NovaKeyKinds, NovaAttemptAdded
   <2>. QED BY <1>3, <2>1, <2>2
<1>5. Nova!TypeOK'
   BY <1>1, <1>4 DEF Nova!TypeOK, Nova!outside
<1>6. NovaWaybillIsParcel'
   BY <1>1 DEF NovaIInv, NovaWaybillIsParcel, Nova!outside
<1>. QED BY <1>1, <1>4, <1>5, <1>6, NovaElsewhere DEF Nova!outside

LEMMA NovaReconcileKeeps ==
    ASSUME NovaBounds, NovaIInv, Nova!Reconcile
    PROVE  NovaIInv'
<1>1. Nova!TypeOK /\ UNCHANGED <<shipment, worker, Nova!outside, Nova!rest>> /\ shipment.version \in Nova!Versions
   BY DEF NovaIInv, Nova!Reconcile, Nova!TypeOK, Nova!Versions, NovaBounds
<1>2. Nova!StatusSync(shipment.version) \in Nova!Keys /\ Nova!StatusSync(shipment.version) # Nova!Create
   BY <1>1, NovaKeyKinds
<1>3. attempt' \in [Nova!Keys -> Nova!Attempt] /\ attempt'[Nova!Create] = attempt[Nova!Create]
   BY <1>1, <1>2, NovaKeyKinds, NovaAttemptAdded DEF Nova!Reconcile
<1>4. Nova!TypeOK'
   BY <1>1, <1>3 DEF Nova!TypeOK, Nova!outside, Nova!rest
<1>5. NovaWaybillIsParcel'
   BY <1>1 DEF NovaIInv, NovaWaybillIsParcel, Nova!outside
<1>. QED BY <1>1, <1>3, <1>4, <1>5, NovaElsewhere DEF Nova!outside, Nova!rest

LEMMA NovaExpireLeaseKeeps ==
    ASSUME NovaBounds, NovaIInv, NEW k \in Nova!Keys, Nova!ExpireLease(k)
    PROVE  NovaIInv'
<1>1. /\ Nova!TypeOK /\ NovaFacts
      /\ UNCHANGED <<shipment, worker, Nova!outside, asked, frozen, freezes, unsearched>>
      /\ attempt[k].status = "PROCESSING" /\ attempt[k] \in Nova!Attempt
   BY DEF NovaIInv, NovaFacts, Nova!ExpireLease, Nova!TypeOK
<1>2. lost' \in Nat /\ (lost' = lost \/ lost' = lost + 1)
   BY <1>1 DEF Nova!ExpireLease, Nova!TypeOK
<1>3. PICK x : x = [attempt[k] EXCEPT !.expired = TRUE]
   OBVIOUS
<1>4. x \in Nova!Attempt /\ x.status = "PROCESSING" /\ x.attempts = attempt[k].attempts /\ x.expired
   BY <1>1, <1>3 DEF Nova!Attempt
<1>5. attempt' = [attempt EXCEPT ![k] = x]
   BY <1>3 DEF Nova!ExpireLease
<1>6. attempt' \in [Nova!Keys -> Nova!Attempt] /\ attempt'[k] = x /\ \A j \in Nova!Keys \ {k} : attempt'[j] = attempt[j]
   BY <1>1, <1>4, <1>5 DEF Nova!TypeOK
<1>7. Nova!TypeOK'
   BY <1>1, <1>2, <1>6 DEF Nova!TypeOK, Nova!outside
<1>8. NovaWaybillIsParcel'
   BY <1>1 DEF NovaFacts, NovaWaybillIsParcel, Nova!outside
<1>9. CASE k # Nova!Create
   <2>1. attempt'[Nova!Create] = attempt[Nova!Create]
      BY <1>6, <1>9, NovaKeyKinds
   <2>. QED BY <1>1, <1>2, <1>7, <1>8, <2>1, NovaElsewhere DEF Nova!outside
<1>10. CASE k = Nova!Create
   <2>1. NovaFacts'
      BY <1>1, <1>4, <1>6, <1>8, <1>10, NovaSameFacts DEF Nova!outside
   <2>2. lost' = lost => NovaTicket
      <3>. SUFFICES ASSUME lost' = lost PROVE NovaTicket
         OBVIOUS
      <3>1. ~\E w \in Workers : Nova!Owns(w) /\ worker[w].key = k
         BY <1>1 DEF Nova!ExpireLease, Nova!TypeOK
      <3>2. \A w \in Workers : ~NovaCreator(w)
         BY <1>10, <3>1 DEF NovaCreator
      <3>. QED BY <1>1, <1>10, <3>2 DEF NovaTicket
   <2>. QED BY <1>1, <1>2, <1>4, <1>6, <1>7, <1>10, <2>1, <2>2, NovaStill DEF Nova!outside
<1>. QED BY <1>9, <1>10

LEMMA NovaFreezeKeeps ==
    ASSUME NovaBounds, NovaIInv, Nova!Freeze
    PROVE  NovaIInv'
<1>1. Nova!TypeOK /\ UNCHANGED <<shipment, attempt, worker, Nova!outside, asked, lost, unsearched>>
   BY DEF NovaIInv, Nova!Freeze
<1>2. frozen' \in BOOLEAN /\ freezes' \in Nat
   <2>1. (~frozen) \in BOOLEAN
      OBVIOUS
   <2>. QED BY <1>1, <2>1 DEF Nova!Freeze, Nova!TypeOK
<1>3. Nova!TypeOK'
   BY <1>1, <1>2 DEF Nova!TypeOK, Nova!outside
<1>4. NovaWaybillIsParcel'
   BY <1>1 DEF NovaIInv, NovaWaybillIsParcel, Nova!outside
<1>. QED BY <1>1, <1>3, <1>4, NovaElsewhere DEF Nova!outside

LEMMA NovaParcelMovesKeeps ==
    ASSUME NovaBounds, NovaIInv, Nova!ParcelMoves
    PROVE  NovaIInv'
<1>1. Nova!TypeOK /\ UNCHANGED <<shipment, attempt, worker, waybills, Nova!rest>>
   BY DEF NovaIInv, Nova!ParcelMoves
<1>2. /\ parcel' \in Nova!Parcel /\ parcel' # "NONE" /\ parcel # "NONE" /\ parcel # "DELETED"
   BY <1>1 DEF Nova!ParcelMoves, Nova!TypeOK, Nova!Parcel
<1>3. Nova!TypeOK'
   BY <1>1, <1>2 DEF Nova!TypeOK, Nova!rest
<1>4. NovaWaybillIsParcel'
   BY <1>1, <1>2 DEF NovaIInv, NovaWaybillIsParcel
<1>. QED BY <1>1, <1>2, <1>3, <1>4, NovaElsewhere DEF Nova!rest

LEMMA NovaStutterKeeps ==
    ASSUME NovaBounds, NovaIInv, UNCHANGED Nova!vars
    PROVE  NovaIInv'
<1>1. Nova!TypeOK'
   BY DEF NovaIInv, Nova!TypeOK, Nova!vars, Nova!outside, Nova!rest
<1>2. NovaWaybillIsParcel'
   BY DEF NovaIInv, NovaWaybillIsParcel, Nova!vars
<1>. QED BY <1>1, <1>2, NovaElsewhere DEF Nova!vars

-----------------------------------------------------------------------------
(* The inductive invariant holds                                            *)

LEMMA NovaInitially == NovaBounds /\ Nova!Init => NovaIInv
<1>. SUFFICES ASSUME NovaBounds, Nova!Init PROVE NovaIInv
   OBVIOUS
<1>1. \A w \in Workers : worker[w] = Nova!Idle /\ worker[w].phase = "idle" /\ worker[w].key = Nova!Create
   BY NovaIdleType DEF Nova!Init
<1>2. attempt \in [Nova!Keys -> Nova!Attempt] /\ attempt[Nova!Create].status = "NONE"
   <2>1. 0 \in 0..MaxClaims
      BY DEF NovaBounds
   <2>. QED BY <2>1, NovaKeyKinds DEF Nova!Init, Nova!NoAttempt, Nova!Attempt, Nova!AttemptStatus
<1>3. shipment \in NovaShipments /\ shipment.status = "DRAFT" /\ shipment.document = 0
   BY DEF Nova!Init, NovaShipments, Nova!ShipmentStatus
<1>4. Nova!TypeOK
   BY <1>2, <1>3, NovaIdleType DEF Nova!Init, Nova!TypeOK, NovaShipments, Nova!Parcel
<1>5. NovaFacts
   BY <1>2, <1>3 DEF Nova!Init, NovaFacts, NovaDraftIsFresh, NovaDocumentIsMade, NovaWaybillIsParcel,
      Nova!CreatingHasAttempt, Nova!CancelledIsDeleted
<1>6. NovaKnown
   <2>1. Nova!Create[1] # "STATUS_SYNC"
      BY NovaKeyKinds
   <2>. QED BY <1>1, <2>1 DEF NovaKnown, NovaReadFits, NovaCreateFits, NovaSyncFits
<1>7. NovaAccounted
   <2>1. NovaCallers = {} /\ NovaSearchers = {}
      BY <1>1 DEF NovaCallers, NovaSearchers, NovaCalling, NovaSearching
   <2>2. Cardinality({}) = 0
      BY FS_EmptySet
   <2>. QED BY <2>1, <2>2 DEF Nova!Init, NovaAccounted, NovaLikely, NovaOne
<1>. QED BY <1>4, <1>5, <1>6, <1>7 DEF NovaIInv, NovaFacts

LEMMA NovaStepKeeps == NovaBounds /\ NovaIInv /\ [Nova!Next]_Nova!vars => NovaIInv'
<1>. SUFFICES ASSUME NovaBounds, NovaIInv, [Nova!Next]_Nova!vars PROVE NovaIInv'
   OBVIOUS
<1>1. ASSUME NEW w \in Workers, Nova!WorkerStep(w) \/ Nova!Crash(w) PROVE NovaIInv'
   BY <1>1, NovaReadKeeps, NovaClaimKeeps, NovaClaimFrozenKeeps, NovaSearchKeeps, NovaSearchFailsKeeps,
      NovaCheckFreezeKeeps, NovaAnswerKeeps,
      NovaAskStatusKeeps, NovaCallCancelKeeps, NovaCallFailsKeeps, NovaWriteKeeps, NovaCrashKeeps
      DEF Nova!WorkerStep
<1>2. ASSUME NEW k \in Nova!Keys, Nova!ExpireLease(k) PROVE NovaIInv'
   BY <1>2, NovaExpireLeaseKeeps
<1>3. CASE Nova!CreateShipment \/ Nova!CancelRead \/ Nova!CancelWrite \/ Nova!Reconcile \/ Nova!Freeze \/ Nova!ParcelMoves
   BY <1>3, NovaCreateShipmentKeeps, NovaCancelReadKeeps, NovaCancelWriteKeeps, NovaReconcileKeeps,
      NovaFreezeKeeps, NovaParcelMovesKeeps
<1>4. CASE UNCHANGED Nova!vars
   BY <1>4, NovaStutterKeeps
<1>. QED BY <1>1, <1>2, <1>3, <1>4 DEF Nova!Next

LEMMA NovaInvariant == ASSUME NovaBounds PROVE Nova!Spec => []NovaIInv
<1>1. Nova!Init => NovaIInv
   BY NovaInitially
<1>2. NovaIInv /\ [Nova!Next]_Nova!vars => NovaIInv'
   BY NovaStepKeeps
<1>. QED BY <1>1, <1>2, PTL DEF Nova!Spec

-----------------------------------------------------------------------------
(* Theorems                                                                 *)

\* The variables of a Nova Poshta shipment keep their types.
THEOREM NovaPoshtaTypeCorrect == ASSUME NovaBounds PROVE Nova!Spec => []Nova!TypeOK
<1>1. NovaIInv => Nova!TypeOK
   BY DEF NovaIInv
<1>. QED BY <1>1, NovaInvariant, PTL

\* A shipment gets one waybill, and one more only for a claim that a crash or an
\* outlived lease lost, or for a search that was rate limited.
THEOREM NoWaybillUnaccountedFor == ASSUME NovaBounds PROVE Nova!Spec => []Nova!WaybillsAreAccountedFor
<1>1. NovaIInv => Nova!WaybillsAreAccountedFor
   <2>. SUFFICES ASSUME NovaIInv PROVE Nova!WaybillsAreAccountedFor
      OBVIOUS
   <2>1. Cardinality(NovaCallers) \in Nat /\ Cardinality(NovaSearchers) \in Nat
      BY NovaCounts, FS_CardinalityType
   <2>2. waybills \in Nat /\ lost \in Nat /\ unsearched \in Nat
      BY DEF NovaIInv, Nova!TypeOK
   <2>3. NovaOne(NovaTicket) \in Nat
      BY DEF NovaOne
   <2>4. waybills <= NovaLikely(Cardinality(NovaCallers), Cardinality(NovaSearchers), waybills) + NovaOne(NovaTicket)
      BY <2>1, <2>2, <2>3 DEF NovaLikely
   <2>5. NovaLikely(Cardinality(NovaCallers), Cardinality(NovaSearchers), waybills) \in Int
      BY <2>1, <2>2 DEF NovaLikely
   <2>. QED BY <2>2, <2>3, <2>4, <2>5 DEF NovaIInv, NovaAccounted, Nova!WaybillsAreAccountedFor
<1>. QED BY <1>1, NovaInvariant, PTL

\* A shipment that is CREATING has an attempt of which more will come.
THEOREM NovaPoshtaCreationsAreTaken == ASSUME NovaBounds PROVE Nova!Spec => []Nova!CreatingHasAttempt
<1>1. NovaIInv => Nova!CreatingHasAttempt
   BY DEF NovaIInv
<1>. QED BY <1>1, NovaInvariant, PTL

\* A shipment that reads CANCELLED has no parcel on its way with Nova Poshta.
THEOREM NovaPoshtaCancelledAreDeleted == ASSUME NovaBounds PROVE Nova!Spec => []Nova!CancelledIsDeleted
<1>1. NovaIInv => Nova!CancelledIsDeleted
   BY DEF NovaIInv
<1>. QED BY <1>1, NovaInvariant, PTL
=============================================================================
