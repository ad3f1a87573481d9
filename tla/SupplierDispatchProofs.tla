----------------------- MODULE SupplierDispatchProofs -----------------------
(***************************************************************************)
(* Proofs about SupplierDispatch, for every order, every number of workers *)
(* and deliveries and every number of lost claims.                         *)
(***************************************************************************)
EXTENDS SupplierDispatch, FiniteSetTheorems, TLAPS

-----------------------------------------------------------------------------
(* The inductive invariant                                                  *)

\* A worker that has taken a job works on a delivery of the order.
WorkersHaveDeliveries ==
    \A w \in Workers : worker[w].phase # "idle" => worker[w].version \in Dispatches

\* Who is about to report a success has delivered the message.
SuccessWasSent ==
    \A w \in Workers :
        (worker[w].phase = "finishing" /\ worker[w].result = "SUCCEEDED") => got[worker[w].version] > 0

\* Who is about to finish has an answer to write.
FinishingHasResult ==
    \A w \in Workers : worker[w].phase = "finishing" => worker[w].result # "NONE"

\* Who is frozen has been frozen.
FreezesCount == frozen => freezes > 0

IInv ==
    /\ TypeOK
    /\ WorkersHaveDeliveries
    /\ SuccessWasSent
    /\ FinishingHasResult
    /\ OrderedWasAsked
    /\ FreezesCount
    /\ FailureIsReported
    /\ SendingIsSettled

LEMMA Initially == Init => IInv
<1>. SUFFICES ASSUME Init PROVE IInv
    OBVIOUS
<1>1. None \in Delivery /\ Idle \in Work
    BY DEF None, Delivery, Unfinished, Idle, Work, Phase
<1>2. TypeOK
    BY <1>1 DEF Init, TypeOK, Status
<1>3. WorkersHaveDeliveries /\ SuccessWasSent /\ FinishingHasResult
    BY DEF Init, WorkersHaveDeliveries, SuccessWasSent, FinishingHasResult, Idle
<1>4. OrderedWasAsked
    BY DEF Init, OrderedWasAsked
<1>5. FreezesCount /\ FailureIsReported /\ SendingIsSettled
    BY DEF Init, FreezesCount, FailureIsReported, SendingIsSettled, HasStatus, None
<1>. QED
    BY <1>2, <1>3, <1>4, <1>5 DEF IInv

-----------------------------------------------------------------------------
(* Types                                                                    *)

LEMMA ItemsAfterType ==
    ASSUME TypeOK, NEW v \in Dispatches, NEW result \in {"SUCCEEDED", "RETRYABLE", "FAILED"}
    PROVE  ItemsAfter(v, result) \in [Items -> Status]
BY DEF ItemsAfter, Following, TypeOK, Status

\* What a claim and an end write into a delivery is a delivery.
LEMMA DeliveryType ==
    ASSUME NEW x \in Delivery, NEW n \in Nat, NEW due \in BOOLEAN,
           NEW status \in Unfinished \cup {"SUCCEEDED", "FAILED"}
    PROVE  /\ [x EXCEPT !.status = status, !.attempts = n, !.lease = n, !.expired = FALSE] \in Delivery
           /\ [x EXCEPT !.status = status, !.due = due, !.lease = 0, !.expired = FALSE] \in Delivery
BY DEF Delivery

\* What an answer writes into a worker is a worker.
LEMMA FinishingType ==
    ASSUME NEW x \in Work, NEW result \in {"SUCCEEDED", "RETRYABLE", "FAILED"}
    PROVE  [x EXCEPT !.phase = "finishing", !.result = result] \in Work
BY DEF Work, Phase

LEMMA AnswerType ==
    ASSUME TypeOK, WorkersHaveDeliveries, NEW w \in Workers, NEW delivered \in BOOLEAN,
           NEW result \in {"SUCCEEDED", "RETRYABLE", "FAILED"}, Answer(w, delivered, result)
    PROVE  TypeOK'
<1>1. worker' \in [Workers -> Work]
  <2>1. [worker[w] EXCEPT !.phase = "finishing", !.result = result] \in Work
    BY FinishingType DEF TypeOK
  <2>. QED
    BY <2>1 DEF Answer, TypeOK
<1>2. got' \in [Dispatches -> Nat]
    BY DEF Answer, TypeOK, WorkersHaveDeliveries
<1>. QED
    BY <1>1, <1>2 DEF Answer, TypeOK

LEMMA TypeStep == IInv /\ [Next]_vars => TypeOK'
<1>. SUFFICES ASSUME TypeOK, WorkersHaveDeliveries, FinishingHasResult, [Next]_vars PROVE TypeOK'
    BY DEF IInv
<1>1. ASSUME NEW v \in Dispatches, QueueSupplierOrder(v) PROVE TypeOK'
  <2>1. [None EXCEPT !.status = "PENDING", !.due = TRUE] \in Delivery
    BY DEF None, Delivery, Unfinished
  <2>2. item' \in [Items -> Status]
    BY <1>1 DEF QueueSupplierOrder, TypeOK, Status
  <2>3. taken' \in [Dispatches -> SUBSET Items]
    BY <1>1 DEF QueueSupplierOrder, TypeOK
  <2>. QED
    BY <1>1, <2>1, <2>2, <2>3 DEF QueueSupplierOrder, TypeOK, Wake
<1>2. ASSUME NEW v \in Dispatches, QueueAgain(v) PROVE TypeOK'
    BY <1>2 DEF QueueAgain, TypeOK, Wake
<1>3. ASSUME NEW v \in Dispatches, Reconcile(v) PROVE TypeOK'
    BY <1>3 DEF Reconcile, TypeOK
<1>4. ASSUME NEW v \in Dispatches, BecomeDue(v) PROVE TypeOK'
  <2>1. [delivery[v] EXCEPT !.due = TRUE] \in Delivery
    BY DEF TypeOK, Delivery
  <2>. QED
    BY <1>4, <2>1 DEF BecomeDue, TypeOK
<1>5. ASSUME NEW v \in Dispatches, ExpireLease(v) PROVE TypeOK'
  <2>1. [delivery[v] EXCEPT !.expired = TRUE] \in Delivery
    BY DEF TypeOK, Delivery
  <2>2. stalls' \in Nat
    BY <1>5 DEF ExpireLease, TypeOK
  <2>. QED
    BY <1>5, <2>1, <2>2 DEF ExpireLease, TypeOK
<1>6. ASSUME NEW w \in Workers, NEW v \in Dispatches, FailFrozen(w, v) PROVE TypeOK'
  <2>1. [delivery[v] EXCEPT !.status = "FAILED", !.lease = 0, !.expired = FALSE] \in Delivery
    BY DEF TypeOK, Delivery
  <2>. QED
    BY <1>6, <2>1 DEF FailFrozen, TakesJob, TypeOK
<1>7. ASSUME NEW w \in Workers, NEW v \in Dispatches, Claim(w, v) PROVE TypeOK'
  <2>. DEFINE claim == delivery[v].attempts + 1
  <2>0. claim \in Nat
    BY DEF TypeOK, Delivery
  <2>1. delivery' \in [Dispatches -> Delivery]
    <3>1. [delivery[v] EXCEPT !.status = "PROCESSING", !.attempts = claim, !.lease = claim,
                              !.expired = FALSE] \in Delivery
        BY <2>0, DeliveryType DEF TypeOK, Unfinished
    <3>. QED
        BY <1>7, <3>1 DEF Claim, TypeOK
  <2>2. worker' \in [Workers -> Work]
    BY <1>7, <2>0 DEF Claim, TypeOK, Work, Phase
  <2>. QED
    BY <1>7, <2>1, <2>2 DEF Claim, TakesJob, TypeOK
<1>8. ASSUME NEW w \in Workers, NEW v \in Dispatches, Ignore(w, v) PROVE TypeOK'
    BY <1>8 DEF Ignore, TakesJob, TypeOK
<1>9. ASSUME NEW w \in Workers, SendAccepted(w) PROVE TypeOK'
    BY <1>9, AnswerType DEF SendAccepted
<1>10. ASSUME NEW w \in Workers, SendRateLimited(w) PROVE TypeOK'
    BY <1>10, AnswerType DEF SendRateLimited
<1>11. ASSUME NEW w \in Workers, SendFailed(w) PROVE TypeOK'
    BY <1>11, AnswerType DEF SendFailed
<1>12. ASSUME NEW w \in Workers, Finish(w) PROVE TypeOK'
  <2>. DEFINE v == worker[w].version
              result == worker[w].result
  <2>1. v \in Dispatches /\ result \in {"SUCCEEDED", "RETRYABLE", "FAILED"}
    BY <1>12 DEF Finish, TypeOK, Work, WorkersHaveDeliveries, FinishingHasResult
  <2>2. worker' \in [Workers -> Work]
    BY <1>12 DEF Finish, TypeOK, Work, Idle, Phase
  <2>3. CASE Fenced(w)
    <3>1. delivery' \in [Dispatches -> Delivery]
      <4>1. [delivery[v] EXCEPT !.status = result, !.due = (result # "RETRYABLE"),
                                !.lease = 0, !.expired = FALSE] \in Delivery
        <5>1. delivery[v] \in Delivery /\ (result # "RETRYABLE") \in BOOLEAN
            BY <2>1 DEF TypeOK
        <5>2. result \in Unfinished \cup {"SUCCEEDED", "FAILED"}
            BY <2>1 DEF Unfinished
        <5>. QED
            BY <5>1, <5>2, DeliveryType
      <4>. QED
        BY <1>12, <2>1, <2>3, <4>1 DEF Finish, TypeOK
    <3>2. item' \in [Items -> Status]
        BY <1>12, <2>1, <2>3, ItemsAfterType DEF Finish
    <3>3. alerted' \subseteq Dispatches
        BY <1>12, <2>1, <2>3 DEF Finish, TypeOK, AlertsAfter
    <3>. QED
        BY <1>12, <2>2, <3>1, <3>2, <3>3 DEF Finish, TypeOK
  <2>4. CASE ~Fenced(w)
    BY <1>12, <2>2, <2>4 DEF Finish, TypeOK
  <2>. QED
    BY <2>3, <2>4
<1>13. ASSUME NEW w \in Workers, Redeliver(w) PROVE TypeOK'
    BY <1>13 DEF Redeliver, TypeOK, WorkersHaveDeliveries
<1>14. ASSUME NEW w \in Workers, Crash(w) PROVE TypeOK'
    BY <1>14 DEF Crash, TypeOK, Work, Idle, Phase
<1>15. ASSUME NEW i \in Items, NEW decision \in {"TO_ORDER", "OTHER"}, Reassess(i, decision) PROVE TypeOK'
    BY <1>15 DEF Reassess, TypeOK, Status
<1>16. CASE Freeze
    BY <1>16 DEF Freeze, TypeOK
<1>17. CASE Unfreeze
    BY <1>17 DEF Unfreeze, TypeOK
<1>18. CASE UNCHANGED vars
    BY <1>18 DEF vars, TypeOK
<1>. QED
    BY <1>1, <1>2, <1>3, <1>4, <1>5, <1>6, <1>7, <1>8, <1>9, <1>10, <1>11, <1>12, <1>13,
       <1>14, <1>15, <1>16, <1>17, <1>18 DEF Next, WorkerStep, DeliveryStep

-----------------------------------------------------------------------------
(* Workers and their answers                                                *)

LEMMA WorkersStep ==
    IInv /\ [Next]_vars => (WorkersHaveDeliveries /\ SuccessWasSent /\ FinishingHasResult)'
<1>. SUFFICES ASSUME IInv, [Next]_vars
              PROVE  (WorkersHaveDeliveries /\ SuccessWasSent /\ FinishingHasResult)'
    OBVIOUS
<1>. USE DEF IInv, TypeOK, WorkersHaveDeliveries, SuccessWasSent, FinishingHasResult
<1>1. ASSUME NEW w \in Workers, NEW delivered \in BOOLEAN,
             NEW result \in {"SUCCEEDED", "RETRYABLE", "FAILED"},
             Answer(w, delivered, result), result = "SUCCEEDED" => delivered
      PROVE  (WorkersHaveDeliveries /\ SuccessWasSent /\ FinishingHasResult)'
  <2>1. \A u \in Dispatches : got[u] > 0 => got'[u] > 0
    BY <1>1 DEF Answer
  <2>2. delivered => got'[worker[w].version] > 0
    BY <1>1 DEF Answer
  <2>. QED
    BY <1>1, <2>1, <2>2 DEF Answer, Work
<1>2. ASSUME NEW w \in Workers, NEW v \in Dispatches, Claim(w, v)
      PROVE  (WorkersHaveDeliveries /\ SuccessWasSent /\ FinishingHasResult)'
    BY <1>2 DEF Claim, Work
<1>3. ASSUME NEW w \in Workers, worker' = [worker EXCEPT ![w] = Idle], UNCHANGED got
      PROVE  (WorkersHaveDeliveries /\ SuccessWasSent /\ FinishingHasResult)'
    BY <1>3 DEF Idle, Work
<1>4. CASE UNCHANGED <<worker, got>>
    BY <1>4
<1>5. ASSUME NEW w \in Workers, SendAccepted(w) \/ SendRateLimited(w) \/ SendFailed(w)
      PROVE  (WorkersHaveDeliveries /\ SuccessWasSent /\ FinishingHasResult)'
    BY <1>1, <1>5 DEF SendAccepted, SendRateLimited, SendFailed
<1>6. ASSUME NEW w \in Workers, Finish(w) \/ Crash(w)
      PROVE  (WorkersHaveDeliveries /\ SuccessWasSent /\ FinishingHasResult)'
    BY <1>3, <1>6 DEF Finish, Crash
<1>7. ASSUME NEW v \in Dispatches, QueueSupplierOrder(v) \/ QueueAgain(v) \/ DeliveryStep(v)
      PROVE  UNCHANGED <<worker, got>>
    BY <1>7 DEF QueueSupplierOrder, QueueAgain, DeliveryStep, Reconcile, BecomeDue, ExpireLease
<1>8. ASSUME NEW w \in Workers, NEW v \in Dispatches, FailFrozen(w, v) \/ Ignore(w, v)
      PROVE  UNCHANGED <<worker, got>>
    BY <1>8 DEF FailFrozen, Ignore
<1>9. ASSUME NEW w \in Workers, Redeliver(w) PROVE UNCHANGED <<worker, got>>
    BY <1>9 DEF Redeliver
<1>10. ASSUME NEW i \in Items, NEW decision \in {"TO_ORDER", "OTHER"}, Reassess(i, decision)
       PROVE  UNCHANGED <<worker, got>>
    BY <1>10 DEF Reassess
<1>11. CASE Freeze \/ Unfreeze \/ UNCHANGED vars
    BY <1>4, <1>11 DEF Freeze, Unfreeze, vars
<1>. HIDE DEF IInv, TypeOK, WorkersHaveDeliveries, SuccessWasSent, FinishingHasResult
<1>. QED
    BY <1>2, <1>4, <1>5, <1>6, <1>7, <1>8, <1>9, <1>10, <1>11 DEF Next, WorkerStep

-----------------------------------------------------------------------------
(* What an item that is ordered rests on                                    *)

\* A worker that still has its lease writes its result.
LEMMA FencedFinish ==
    ASSUME IInv, NEW w \in Workers, Finish(w), Fenced(w)
    PROVE  LET v == worker[w].version IN
           /\ v \in Dispatches /\ worker[w].result \in {"SUCCEEDED", "RETRYABLE", "FAILED"}
           /\ delivery[v].status = "PROCESSING"
           /\ delivery'[v].status = worker[w].result /\ delivery'[v].attempts = delivery[v].attempts
           /\ \A u \in Dispatches : u # v => delivery'[u] = delivery[u]
<1>. DEFINE v == worker[w].version
            result == worker[w].result
            settled == [delivery[v] EXCEPT !.status = result, !.due = (result # "RETRYABLE"),
                                           !.lease = 0, !.expired = FALSE]
<1>1. v \in Dispatches /\ result \in {"SUCCEEDED", "RETRYABLE", "FAILED"}
    BY DEF Finish, IInv, TypeOK, Work, WorkersHaveDeliveries, FinishingHasResult
<1>2. delivery' = [delivery EXCEPT ![v] = settled]
    BY DEF Finish
<1>3. settled.status = result /\ settled.attempts = delivery[v].attempts
    BY <1>1 DEF IInv, TypeOK, Delivery
<1>4. delivery[v].status = "PROCESSING"
    BY DEF Fenced, HasStatus
<1>. QED
    BY <1>1, <1>2, <1>3, <1>4 DEF IInv, TypeOK

\* A delivery that has been used keeps its items; one that succeeded stays so.
LEMMA SucceededStays ==
    ASSUME IInv, [Next]_vars, NEW v \in Dispatches, delivery[v].status = "SUCCEEDED"
    PROVE  delivery'[v].status = "SUCCEEDED" /\ taken'[v] = taken[v]
<1>. USE DEF IInv, TypeOK, HasStatus
<1>1. ASSUME NEW u \in Dispatches, QueueSupplierOrder(u) \/ QueueAgain(u) \/ DeliveryStep(u)
      PROVE  delivery'[v].status = "SUCCEEDED" /\ taken'[v] = taken[v]
    BY <1>1 DEF QueueSupplierOrder, QueueAgain, DeliveryStep, Reconcile, BecomeDue, ExpireLease
<1>2. ASSUME NEW w \in Workers, NEW u \in Dispatches, FailFrozen(w, u) \/ Claim(w, u) \/ Ignore(w, u)
      PROVE  delivery'[v].status = "SUCCEEDED" /\ taken'[v] = taken[v]
    BY <1>2 DEF FailFrozen, Claim, Claimable, Due, Ignore, Unfinished
<1>3. ASSUME NEW w \in Workers, SendAccepted(w) \/ SendRateLimited(w) \/ SendFailed(w)
      PROVE  delivery'[v].status = "SUCCEEDED" /\ taken'[v] = taken[v]
    BY <1>3 DEF SendAccepted, SendRateLimited, SendFailed, Answer
<1>4. ASSUME NEW w \in Workers, Finish(w)
      PROVE  delivery'[v].status = "SUCCEEDED" /\ taken'[v] = taken[v]
    BY <1>4 DEF Finish, Fenced
<1>5. ASSUME NEW w \in Workers, Redeliver(w) \/ Crash(w)
      PROVE  delivery'[v].status = "SUCCEEDED" /\ taken'[v] = taken[v]
    BY <1>5 DEF Redeliver, Crash
<1>6. ASSUME NEW i \in Items, NEW decision \in {"TO_ORDER", "OTHER"}, Reassess(i, decision)
      PROVE  delivery'[v].status = "SUCCEEDED" /\ taken'[v] = taken[v]
    BY <1>6 DEF Reassess
<1>7. CASE Freeze \/ Unfreeze \/ UNCHANGED vars
    BY <1>7 DEF Freeze, Unfreeze, vars
<1>. QED
    BY <1>1, <1>2, <1>3, <1>4, <1>5, <1>6, <1>7 DEF Next, WorkerStep

LEMMA GotStays ==
    ASSUME IInv, [Next]_vars, NEW v \in Dispatches, got[v] > 0
    PROVE  got'[v] > 0
<1>. USE DEF IInv, TypeOK
<1>1. ASSUME NEW w \in Workers, SendAccepted(w) \/ SendRateLimited(w) \/ SendFailed(w) PROVE got'[v] > 0
    BY <1>1 DEF SendAccepted, SendRateLimited, SendFailed, Answer
<1>2. CASE UNCHANGED got
    BY <1>2
<1>. QED
    BY <1>1, <1>2 DEF Next, WorkerStep, DeliveryStep, QueueSupplierOrder, QueueAgain, Reconcile, BecomeDue,
        ExpireLease, FailFrozen, Claim, Ignore, Finish, Redeliver, Crash, Reassess, Freeze, Unfreeze, vars

\* An item becomes ORDERED only with the delivery that names it.
LEMMA OrderedByFinish ==
    ASSUME IInv, [Next]_vars, NEW i \in Items, item'[i] = "ORDERED", item[i] # "ORDERED"
    PROVE  \E w \in Workers :
              /\ Finish(w) /\ Fenced(w)
              /\ worker[w].result = "SUCCEEDED" /\ i \in taken[worker[w].version]
<1>. USE DEF IInv, TypeOK
<1>1. ASSUME NEW w \in Workers, Finish(w) PROVE Fenced(w) /\ worker[w].result = "SUCCEEDED" /\ i \in taken[worker[w].version]
  <2>1. item' = ItemsAfter(worker[w].version, worker[w].result) /\ Fenced(w)
    BY <1>1 DEF Finish
  <2>2. worker[w].result \in {"SUCCEEDED", "RETRYABLE", "FAILED"}
    BY <1>1 DEF Finish, FinishingHasResult, Work
  <2>. QED
    BY <2>1, <2>2 DEF ItemsAfter, Following
<1>2. ASSUME NEW v \in Dispatches, QueueSupplierOrder(v) PROVE FALSE
    BY <1>2 DEF QueueSupplierOrder
<1>3. ASSUME NEW j \in Items, NEW decision \in {"TO_ORDER", "OTHER"}, Reassess(j, decision) PROVE FALSE
    BY <1>3 DEF Reassess
<1>4. ~(UNCHANGED item)
    OBVIOUS
<1>. QED
    BY <1>1, <1>2, <1>3, <1>4 DEF Next, WorkerStep, DeliveryStep, QueueAgain, Reconcile, BecomeDue,
        ExpireLease, FailFrozen, Claim, Ignore, SendAccepted, SendRateLimited, SendFailed, Answer, Redeliver,
        Crash, Freeze, Unfreeze, vars

LEMMA OrderedStep == IInv /\ [Next]_vars => OrderedWasAsked'
<1>. SUFFICES ASSUME IInv, [Next]_vars, NEW i \in Items, item'[i] = "ORDERED"
              PROVE  \E v \in Dispatches :
                        i \in taken'[v] /\ delivery'[v].status = "SUCCEEDED" /\ got'[v] > 0
    BY DEF OrderedWasAsked, HasStatus
<1>1. CASE item[i] = "ORDERED"
  <2>1. PICK v \in Dispatches : i \in taken[v] /\ delivery[v].status = "SUCCEEDED" /\ got[v] > 0
    BY <1>1 DEF IInv, OrderedWasAsked, HasStatus
  <2>. QED
    BY <2>1, SucceededStays, GotStays
<1>2. CASE item[i] # "ORDERED"
  <2>1. PICK w \in Workers : /\ Finish(w) /\ Fenced(w)
                             /\ worker[w].result = "SUCCEEDED" /\ i \in taken[worker[w].version]
    BY <1>2, OrderedByFinish
  <2>. DEFINE v == worker[w].version
  <2>2. v \in Dispatches /\ got[v] > 0
    BY <2>1 DEF IInv, Finish, WorkersHaveDeliveries, SuccessWasSent
  <2>3. taken' = taken /\ got' = got /\ delivery'[v].status = "SUCCEEDED"
    BY <2>1, FencedFinish DEF Finish
  <2>. QED
    BY <2>1, <2>2, <2>3
<1>. QED
    BY <1>1, <1>2

-----------------------------------------------------------------------------
(* Failures and freezes                                                     *)

LEMMA FreezesStep == TypeOK /\ FreezesCount /\ [Next]_vars => FreezesCount'
<1>. SUFFICES ASSUME TypeOK, FreezesCount, [Next]_vars PROVE FreezesCount'
    OBVIOUS
<1>1. CASE Freeze
    BY <1>1 DEF Freeze, FreezesCount, TypeOK
<1>2. CASE Unfreeze
    BY <1>2 DEF Unfreeze, FreezesCount
<1>3. CASE UNCHANGED <<frozen, freezes>>
    BY <1>3 DEF FreezesCount
<1>. QED
    BY <1>1, <1>2, <1>3 DEF Next, WorkerStep, DeliveryStep, QueueSupplierOrder, QueueAgain, Reconcile,
        BecomeDue, ExpireLease, FailFrozen, Claim, Ignore, SendAccepted, SendRateLimited, SendFailed, Answer,
        Finish, Redeliver, Crash, Reassess, vars

\* The end of a delivery alerts if it failed, and alerts of no other.
LEMMA FinishAlerts ==
    ASSUME IInv, NEW w \in Workers, Finish(w), Fenced(w)
    PROVE  LET v == worker[w].version IN
           /\ v \notin alerted
           /\ \A u \in Dispatches : u \in alerted' <=> (u \in alerted \/ (u = v /\ worker[w].result = "FAILED"))
<1>. DEFINE v == worker[w].version
<1>1. v \in Dispatches /\ delivery[v].status = "PROCESSING"
    BY FencedFinish
<1>2. v \notin alerted
    BY <1>1 DEF IInv, FailureIsReported, HasStatus
<1>3. alerted' = AlertsAfter(v, worker[w].result)
    BY DEF Finish
<1>. QED
    BY <1>2, <1>3 DEF AlertsAfter

\* A status other than FAILED, or the same one, needs no new alert.
LEMMA ReportedStays ==
    ASSUME IInv, FreezesCount', freezes' = freezes, alerted' = alerted,
           \A v \in Dispatches :
               \/ delivery'[v].status = delivery[v].status
               \/ delivery[v].status # "FAILED" /\ (delivery'[v].status # "FAILED" \/ frozen)
    PROVE  FailureIsReported'
<1>. SUFFICES ASSUME NEW v \in Dispatches
              PROVE  /\ v \in alerted => delivery'[v].status = "FAILED"
                     /\ delivery'[v].status = "FAILED" => v \in alerted \/ freezes > 0
    BY DEF FailureIsReported, HasStatus
<1>1. /\ v \in alerted => delivery[v].status = "FAILED"
      /\ delivery[v].status = "FAILED" => v \in alerted \/ freezes > 0
    BY DEF IInv, FailureIsReported, HasStatus
<1>. QED
    BY <1>1 DEF IInv, FreezesCount

LEMMA ReportedStep == IInv /\ [Next]_vars => FailureIsReported'
<1>. SUFFICES ASSUME IInv, [Next]_vars PROVE FailureIsReported'
    OBVIOUS
<1>. USE DEF HasStatus
<1>0. FreezesCount'
    BY FreezesStep DEF IInv
<1>1. ASSUME NEW w \in Workers, Finish(w) PROVE FailureIsReported'
  <2>1. CASE Fenced(w)
    <3>1. /\ delivery'[worker[w].version].status = worker[w].result
          /\ \A u \in Dispatches : u # worker[w].version => delivery'[u] = delivery[u]
        BY <1>1, <2>1, FencedFinish
    <3>2. \A u \in Dispatches : u \in alerted' <=>
              (u \in alerted \/ (u = worker[w].version /\ worker[w].result = "FAILED"))
        BY <1>1, <2>1, FinishAlerts
    <3>3. worker[w].version \notin alerted /\ freezes' = freezes
        BY <1>1, <2>1, FinishAlerts DEF Finish
    <3>. QED
        BY <3>1, <3>2, <3>3 DEF IInv, FailureIsReported
  <2>2. CASE ~Fenced(w)
    BY <1>1, <2>2 DEF Finish, IInv, FailureIsReported
  <2>. QED
    BY <2>1, <2>2
<1>2. ASSUME NEW v \in Dispatches, QueueSupplierOrder(v) \/ BecomeDue(v) \/ ExpireLease(v)
      PROVE  FailureIsReported'
  <2>1. alerted' = alerted /\ freezes' = freezes
    BY <1>2 DEF QueueSupplierOrder, BecomeDue, ExpireLease
  <2>2. \A u \in Dispatches :
            \/ delivery'[u].status = delivery[u].status
            \/ delivery[u].status # "FAILED" /\ delivery'[u].status # "FAILED"
    <3>1. CASE QueueSupplierOrder(v)
      <4>1. \A u \in Dispatches : u # v => delivery'[u] = delivery[u]
        BY <3>1 DEF QueueSupplierOrder, IInv, TypeOK
      <4>2. delivery[v].status = "NONE" /\ delivery'[v].status = "PENDING"
        BY <3>1 DEF QueueSupplierOrder, IInv, TypeOK, None
      <4>. QED
        BY <4>1, <4>2
    <3>2. CASE BecomeDue(v)
        BY <3>2 DEF BecomeDue, IInv, TypeOK, Delivery
    <3>3. CASE ExpireLease(v)
        BY <3>3 DEF ExpireLease, IInv, TypeOK, Delivery
    <3>. QED
        BY <1>2, <3>1, <3>2, <3>3
  <2>. QED
    BY <1>0, <2>1, <2>2, ReportedStays
<1>3. ASSUME NEW w \in Workers, NEW v \in Dispatches, Claim(w, v) \/ FailFrozen(w, v)
      PROVE  FailureIsReported'
  <2>1. alerted' = alerted /\ freezes' = freezes
    BY <1>3 DEF Claim, FailFrozen
  <2>2. \A u \in Dispatches : u # v => delivery'[u].status = delivery[u].status
    <3>1. CASE Claim(w, v)
        BY <3>1 DEF Claim, IInv, TypeOK
    <3>2. CASE FailFrozen(w, v)
        BY <3>2 DEF FailFrozen, IInv, TypeOK
    <3>. QED
        BY <1>3, <3>1, <3>2
  <2>3. delivery[v].status # "FAILED" /\ (delivery'[v].status # "FAILED" \/ frozen)
    <3>1. CASE Claim(w, v)
      <4>1. delivery[v].status # "FAILED"
        BY <3>1 DEF Claim, Claimable, Due
      <4>2. delivery'[v].status = "PROCESSING"
        BY <3>1 DEF Claim, IInv, TypeOK, Delivery
      <4>. QED
        BY <4>1, <4>2
    <3>2. CASE FailFrozen(w, v)
        BY <3>2 DEF FailFrozen, Unfinished
    <3>. QED
        BY <1>3, <3>1, <3>2
  <2>. QED
    BY <1>0, <2>1, <2>2, <2>3, ReportedStays
<1>4. CASE Freeze
    BY <1>4 DEF Freeze, IInv, TypeOK, FailureIsReported
<1>5. CASE UNCHANGED <<delivery, alerted, freezes>>
    BY <1>5 DEF IInv, FailureIsReported
<1>. QED
    BY <1>1, <1>2, <1>3, <1>4, <1>5 DEF Next, WorkerStep, DeliveryStep, QueueAgain, Reconcile, Ignore,
        SendAccepted, SendRateLimited, SendFailed, Answer, Redeliver, Crash, Reassess, Unfreeze, vars

-----------------------------------------------------------------------------
(* Refinement: deliveries implement SupplierOrder                           *)

\* Of a delivery only the status matters, and whether it was alerted.
LEMMA OutcomeIs ==
    outcome = [v \in Dispatches |->
        CASE delivery[v].status \in Unfinished    -> "open"
          [] delivery[v].status \in {"SUCCEEDED"} -> "succeeded"
          [] delivery[v].status \in {"FAILED"}    -> IF v \in alerted THEN "failed" ELSE "abandoned"
          [] OTHER                                -> "none"]
BY DEF outcome, Active, HasStatus

LEMMA OutcomeStays ==
    ASSUME alerted' = alerted, \A v \in Dispatches : delivery'[v].status = delivery[v].status
    PROVE  outcome' = outcome
<1>1. outcome' = [v \in Dispatches |->
        CASE delivery'[v].status \in Unfinished    -> "open"
          [] delivery'[v].status \in {"SUCCEEDED"} -> "succeeded"
          [] delivery'[v].status \in {"FAILED"}    -> IF v \in alerted' THEN "failed" ELSE "abandoned"
          [] OTHER                                 -> "none"]
    BY DEF outcome, Active, HasStatus, Unfinished
<1>. QED
    BY <1>1, OutcomeIs

\* A step that touches one delivery changes the outcome of that one only.
LEMMA OutcomeElsewhere ==
    ASSUME NEW v \in Dispatches, NEW new \in {"open", "succeeded", "failed", "abandoned"},
           \A u \in Dispatches : u # v => /\ delivery'[u].status = delivery[u].status
                                          /\ u \in alerted' <=> u \in alerted,
           outcome'[v] = new
    PROVE  outcome' = [outcome EXCEPT ![v] = new]
<1>1. \A u \in Dispatches : u # v => outcome'[u] = outcome[u]
    BY DEF outcome, Active, HasStatus, Unfinished
<1>2. outcome = [u \in Dispatches |-> outcome[u]] /\ outcome' = [u \in Dispatches |-> outcome'[u]]
    BY DEF outcome
<1>. QED
    BY <1>1, <1>2

LEMMA InitMaps == Init => Abstract!Init
BY DEF Init, Abstract!Init, outcome, Active, HasStatus, Unfinished, None

LEMMA QueueMaps ==
    ASSUME TypeOK, NEW v \in Dispatches, QueueSupplierOrder(v)
    PROVE  Abstract!Dispatch(v)
<1>1. \A u \in Dispatches : outcome[u] # "open"
    BY DEF QueueSupplierOrder, outcome
<1>2. outcome[v] = "none"
    BY DEF QueueSupplierOrder, outcome, Active, HasStatus, Unfinished
<1>3. outcome' = [outcome EXCEPT ![v] = "open"]
  <2>1. \A u \in Dispatches : u # v => delivery'[u] = delivery[u]
    BY DEF QueueSupplierOrder, TypeOK
  <2>2. delivery'[v].status = "PENDING" /\ alerted' = alerted
    BY DEF QueueSupplierOrder, TypeOK, None
  <2>3. outcome'[v] = "open"
    BY <2>2 DEF outcome, Active, HasStatus, Unfinished
  <2>. QED
    BY <2>1, <2>2, <2>3, OutcomeElsewhere
<1>. QED
    BY <1>1, <1>2, <1>3 DEF QueueSupplierOrder, Abstract!Dispatch

LEMMA AbandonMaps ==
    ASSUME IInv, NEW w \in Workers, NEW v \in Dispatches, FailFrozen(w, v)
    PROVE  Abstract!Abandon(v)
<1>1. delivery[v].status \in Unfinished
    BY DEF FailFrozen, HasStatus
<1>2. outcome[v] = "open"
    BY <1>1 DEF outcome, Active, HasStatus, Unfinished
<1>3. \A u \in Dispatches : u # v => delivery'[u].status = delivery[u].status
    BY DEF FailFrozen, IInv, TypeOK
<1>4. delivery'[v].status = "FAILED" /\ alerted' = alerted
    BY DEF FailFrozen, IInv, TypeOK, Delivery
<1>5. v \notin alerted
    BY <1>1 DEF IInv, FailureIsReported, HasStatus, Unfinished
<1>6. outcome'[v] = "abandoned"
    BY <1>4, <1>5 DEF outcome, Active, HasStatus, Unfinished
<1>7. outcome' = [outcome EXCEPT ![v] = "abandoned"]
    BY <1>3, <1>4, <1>6, OutcomeElsewhere
<1>. QED
    BY <1>2, <1>7 DEF FailFrozen, Abstract!Abandon

LEMMA FinishMaps ==
    ASSUME IInv, NEW w \in Workers, Finish(w)
    PROVE  \/ \E v \in Dispatches, result \in {"succeeded", "failed"} : Abstract!Settle(v, result)
           \/ UNCHANGED <<item, taken, outcome>>
<1>. DEFINE v == worker[w].version
            result == worker[w].result
<1>1. v \in Dispatches /\ result \in {"SUCCEEDED", "RETRYABLE", "FAILED"}
    BY DEF Finish, IInv, TypeOK, Work, WorkersHaveDeliveries, FinishingHasResult
<1>2. taken' = taken
    BY DEF Finish
<1>3. CASE Fenced(w)
  <2>1. /\ outcome[v] = "open"
        /\ item' = ItemsAfter(v, result)
        /\ \A u \in Dispatches : u # v => delivery'[u] = delivery[u]
        /\ delivery'[v].status = result
    BY <1>3, FencedFinish DEF Finish, outcome, Active, HasStatus, Unfinished
  <2>2. /\ v \notin alerted
        /\ \A u \in Dispatches : u \in alerted' <=> (u \in alerted \/ (u = v /\ result = "FAILED"))
    BY <1>3, FinishAlerts
  <2>3. ASSUME NEW new \in {"open", "succeeded", "failed"}, outcome'[v] = new
        PROVE  outcome' = [outcome EXCEPT ![v] = new]
    BY <1>1, <2>1, <2>2, <2>3, OutcomeElsewhere
  <2>4. CASE result = "RETRYABLE"
    <3>1. item' = item
        BY <2>1, <2>4 DEF ItemsAfter, Following, IInv, TypeOK
    <3>2. outcome'[v] = "open"
        BY <1>1, <2>1, <2>4 DEF outcome, Active, HasStatus, Unfinished
    <3>3. outcome' = outcome
        BY <2>1, <2>3, <3>2 DEF outcome
    <3>. QED
        BY <1>2, <3>1, <3>3
  <2>5. CASE result = "SUCCEEDED"
    <3>1. outcome'[v] = "succeeded"
        BY <1>1, <2>1, <2>5 DEF outcome, Active, HasStatus, Unfinished
    <3>2. Abstract!Settle(v, "succeeded")
        BY <1>2, <2>1, <2>3, <2>5, <3>1 DEF Abstract!Settle, ItemsAfter, Following
    <3>. QED
        BY <1>1, <3>2
  <2>6. CASE result = "FAILED"
    <3>1. outcome'[v] = "failed"
        BY <1>1, <2>1, <2>2, <2>6 DEF outcome, Active, HasStatus, Unfinished
    <3>2. Abstract!Settle(v, "failed")
        BY <1>2, <2>1, <2>3, <2>6, <3>1 DEF Abstract!Settle, ItemsAfter, Following
    <3>. QED
        BY <1>1, <3>2
  <2>. QED
    BY <1>1, <2>4, <2>5, <2>6
<1>4. CASE ~Fenced(w)
  <2>1. UNCHANGED <<item, delivery, alerted>>
    BY <1>4 DEF Finish
  <2>. QED
    BY <1>2, <2>1, OutcomeStays
<1>. QED
    BY <1>3, <1>4

LEMMA StepMaps == IInv /\ [Next]_vars => [Abstract!Next]_<<item, taken, outcome>>
<1>. SUFFICES ASSUME IInv, [Next]_vars PROVE [Abstract!Next]_<<item, taken, outcome>>
    OBVIOUS
<1>. DEFINE Stutter == UNCHANGED <<item, taken, outcome>>
            Quiet == UNCHANGED <<item, taken, delivery, alerted>>
<1>1. ASSUME NEW v \in Dispatches, QueueSupplierOrder(v) PROVE Abstract!Next
    BY <1>1, QueueMaps DEF IInv, Abstract!Next
<1>2. ASSUME NEW w \in Workers, Finish(w) PROVE Abstract!Next \/ Stutter
    BY <1>2, FinishMaps DEF Abstract!Next
<1>3. ASSUME NEW i \in Items, NEW decision \in {"TO_ORDER", "OTHER"}, Reassess(i, decision)
      PROVE  Abstract!Next
  <2>1. outcome' = outcome
    BY <1>3, OutcomeStays DEF Reassess
  <2>. QED
    BY <1>3, <2>1 DEF Reassess, Abstract!Reassess, Abstract!Next
<1>4. CASE Quiet
    BY <1>4, OutcomeStays
<1>5. ASSUME NEW v \in Dispatches, BecomeDue(v) \/ ExpireLease(v) PROVE Stutter
  <2>1. \A u \in Dispatches : delivery'[u].status = delivery[u].status
    BY <1>5 DEF BecomeDue, ExpireLease, IInv, TypeOK, Delivery
  <2>. QED
    BY <1>5, <2>1, OutcomeStays DEF BecomeDue, ExpireLease
<1>6. ASSUME NEW w \in Workers, NEW v \in Dispatches, Claim(w, v) PROVE Stutter
  <2>1. \A u \in Dispatches : u # v => delivery'[u].status = delivery[u].status
    BY <1>6 DEF Claim, IInv, TypeOK
  <2>2. delivery'[v].status = "PROCESSING" /\ delivery[v].status \in Unfinished
    BY <1>6 DEF Claim, Claimable, Due, HasStatus, Unfinished, IInv, TypeOK, Delivery
  <2>3. UNCHANGED <<item, taken, alerted>>
    BY <1>6 DEF Claim
  <2>4. outcome[v] = "open" /\ outcome'[v] = "open"
    BY <2>2 DEF outcome, Active, HasStatus, Unfinished
  <2>5. outcome' = [outcome EXCEPT ![v] = "open"]
    BY <2>1, <2>3, <2>4, OutcomeElsewhere
  <2>6. outcome' = outcome
    BY <2>4, <2>5 DEF outcome
  <2>. QED
    BY <2>3, <2>6
<1>7. ASSUME NEW w \in Workers, NEW v \in Dispatches, FailFrozen(w, v) PROVE Abstract!Next
    BY <1>7, AbandonMaps DEF Abstract!Next
<1>8. ASSUME NEW v \in Dispatches, QueueAgain(v) \/ Reconcile(v) PROVE Quiet
    BY <1>8 DEF QueueAgain, Reconcile
<1>9. ASSUME NEW w \in Workers, SendAccepted(w) \/ SendRateLimited(w) \/ SendFailed(w) \/ Redeliver(w) \/ Crash(w)
      PROVE  Quiet
    BY <1>9 DEF SendAccepted, SendRateLimited, SendFailed, Answer, Redeliver, Crash
<1>10. ASSUME NEW w \in Workers, NEW v \in Dispatches, Ignore(w, v) PROVE Quiet
    BY <1>10 DEF Ignore
<1>11. CASE Freeze \/ Unfreeze \/ UNCHANGED vars
    BY <1>4, <1>11 DEF Freeze, Unfreeze, vars
<1>. QED
    BY <1>1, <1>2, <1>3, <1>4, <1>5, <1>6, <1>7, <1>8, <1>9, <1>10, <1>11 DEF Next, WorkerStep, DeliveryStep

-----------------------------------------------------------------------------
(* Items that wait for a dispatch: shown of SupplierOrder's steps           *)

LEMMA SendingStep ==
    IInv /\ [Abstract!Next]_<<item, taken, outcome>> => SendingIsSettled'
<1>. SUFFICES ASSUME IInv, [Abstract!Next]_<<item, taken, outcome>>,
                     NEW i \in Items, item'[i] = "SENDING"
              PROVE  \E v \in Dispatches : i \in taken'[v] /\ outcome'[v] \in {"open", "abandoned"}
    BY DEF SendingIsSettled
<1>. USE DEF IInv, TypeOK
<1>1. item[i] = "SENDING" => \E v \in Dispatches : i \in taken[v] /\ outcome[v] \in {"open", "abandoned"}
    BY DEF SendingIsSettled
<1>2. DOMAIN outcome = Dispatches
    BY DEF outcome
<1>3. ASSUME NEW v \in Dispatches, Abstract!Dispatch(v)
      PROVE  \E u \in Dispatches : i \in taken'[u] /\ outcome'[u] \in {"open", "abandoned"}
  <2>1. outcome'[v] = "open" /\ \A u \in Dispatches : u # v => outcome'[u] = outcome[u] /\ taken'[u] = taken[u]
    BY <1>2, <1>3 DEF Abstract!Dispatch
  <2>2. CASE item[i] = "TO_ORDER"
    BY <1>3, <2>1, <2>2 DEF Abstract!Dispatch
  <2>3. CASE item[i] # "TO_ORDER"
    <3>1. item[i] = "SENDING"
        BY <1>3, <2>3 DEF Abstract!Dispatch
    <3>2. PICK u \in Dispatches : i \in taken[u] /\ outcome[u] \in {"open", "abandoned"}
        BY <1>1, <3>1
    <3>3. u # v
        BY <1>3, <3>2 DEF Abstract!Dispatch
    <3>. QED
        BY <2>1, <3>2, <3>3
  <2>. QED
    BY <2>2, <2>3
<1>4. ASSUME NEW v \in Dispatches, NEW result \in {"succeeded", "failed"}, Abstract!Settle(v, result)
      PROVE  \E u \in Dispatches : i \in taken'[u] /\ outcome'[u] \in {"open", "abandoned"}
  <2>1. item[i] = "SENDING" /\ i \notin taken[v]
    BY <1>4 DEF Abstract!Settle
  <2>2. PICK u \in Dispatches : i \in taken[u] /\ outcome[u] \in {"open", "abandoned"}
    BY <1>1, <2>1
  <2>3. u # v /\ taken' = taken
    BY <1>4, <2>1, <2>2 DEF Abstract!Settle
  <2>. QED
    BY <1>2, <1>4, <2>2, <2>3 DEF Abstract!Settle
<1>5. ASSUME NEW v \in Dispatches, Abstract!Abandon(v)
      PROVE  \E u \in Dispatches : i \in taken'[u] /\ outcome'[u] \in {"open", "abandoned"}
    BY <1>1, <1>2, <1>5 DEF Abstract!Abandon
<1>6. ASSUME NEW j \in Items, NEW decision \in {"TO_ORDER", "OTHER"}, Abstract!Reassess(j, decision)
      PROVE  \E u \in Dispatches : i \in taken'[u] /\ outcome'[u] \in {"open", "abandoned"}
    BY <1>1, <1>6 DEF Abstract!Reassess
<1>. QED
    BY <1>1, <1>3, <1>4, <1>5, <1>6 DEF Abstract!Next

-----------------------------------------------------------------------------
(* How often the supplier gets a delivery.  Each worker that is sending it   *)
(* may still deliver it once, and so may whoever claims it next; together    *)
(* with the times it was delivered they are never more than one for the      *)
(* delivery and one for each claim that was lost.                            *)

Sending(v) == {w \in Workers : worker[w].phase = "sending" /\ worker[w].version = v}

\* The lease of a worker is one of the claims made, and nobody else's.
LeasesAreClaims ==
    /\ \A v \in Dispatches : HasStatus(v, {"NONE"}) => delivery[v].attempts = 0
    /\ \A w \in Workers : worker[w].phase # "idle" =>
            worker[w].lease > 0 /\ worker[w].lease <= delivery[worker[w].version].attempts
    /\ \A u, w \in Workers :
            (/\ u # w /\ worker[u].phase # "idle" /\ worker[w].phase # "idle"
             /\ worker[u].version = worker[w].version) => worker[u].lease # worker[w].lease

\* A claim is still to come that no lost claim pays for.
MayBeClaimed(v) ==
    \/ HasStatus(v, {"NONE", "PENDING", "RETRYABLE"})
    \/ /\ HasStatus(v, {"PROCESSING"})
       /\ \/ delivery[v].expired
          \/ \A w \in Workers : Holds(w, v) => worker[w].phase = "finishing" /\ worker[w].result = "RETRYABLE"

Chances(v) == Cardinality(Sending(v)) + (IF MayBeClaimed(v) THEN 1 ELSE 0)

SendsAreCounted ==
    \A v \in Dispatches : IsFiniteSet(Sending(v)) /\ got[v] + Chances(v) <= 1 + stalls

LEMMA LeasesStay ==
    ASSUME WorkersHaveDeliveries, LeasesAreClaims,
           \A v \in Dispatches : /\ delivery'[v].attempts = delivery[v].attempts
                                 /\ delivery'[v].status = "NONE" => delivery[v].status = "NONE",
           \A w \in Workers : worker'[w].phase # "idle" =>
                /\ worker[w].phase # "idle"
                /\ worker'[w].version = worker[w].version /\ worker'[w].lease = worker[w].lease
    PROVE  LeasesAreClaims'
<1>1. \A v \in Dispatches : HasStatus(v, {"NONE"})' => delivery'[v].attempts = 0
    BY DEF LeasesAreClaims, HasStatus
<1>2. \A w \in Workers : worker'[w].phase # "idle" =>
            worker'[w].lease > 0 /\ worker'[w].lease <= delivery'[worker'[w].version].attempts
    BY DEF LeasesAreClaims, WorkersHaveDeliveries
<1>3. \A u, w \in Workers :
            (/\ u # w /\ worker'[u].phase # "idle" /\ worker'[w].phase # "idle"
             /\ worker'[u].version = worker'[w].version) => worker'[u].lease # worker'[w].lease
    BY DEF LeasesAreClaims
<1>. QED
    BY <1>1, <1>2, <1>3 DEF LeasesAreClaims

\* What Claim writes.
Claims(w, v, claim) ==
    /\ claim \in Nat /\ claim > 0 /\ claim = delivery[v].attempts + 1 /\ worker[w].phase = "idle"
    /\ delivery'[v].status = "PROCESSING" /\ delivery'[v].attempts = claim
    /\ delivery'[v].lease = claim /\ delivery'[v].expired = FALSE
    /\ \A u \in Dispatches : u # v => delivery'[u] = delivery[u]
    /\ worker'[w].phase = "sending" /\ worker'[w].version = v /\ worker'[w].lease = claim
    /\ \A x \in Workers : x # w => worker'[x] = worker[x]
    /\ UNCHANGED <<got, stalls>>

LEMMA ClaimWrites ==
    ASSUME TypeOK, NEW w \in Workers, NEW v \in Dispatches, Claim(w, v)
    PROVE  \E claim \in Nat : Claims(w, v, claim)
<1>. DEFINE claim == delivery[v].attempts + 1
<1>1. claim \in Nat /\ claim > 0
    BY DEF TypeOK, Delivery
<1>2. Claims(w, v, claim)
    BY <1>1 DEF Claims, Claim, TakesJob, TypeOK, Delivery
<1>. QED
    BY <1>1, <1>2

LEMMA LeasesAfterClaim ==
    ASSUME TypeOK, WorkersHaveDeliveries, LeasesAreClaims,
           NEW w \in Workers, NEW v \in Dispatches, Claim(w, v)
    PROVE  LeasesAreClaims'
<1>0. PICK claim \in Nat : Claims(w, v, claim)
    BY ClaimWrites
<1>1. /\ claim \in Nat /\ claim > 0
      /\ delivery'[v].status = "PROCESSING" /\ delivery'[v].attempts = claim
      /\ \A u \in Dispatches : u # v => delivery'[u] = delivery[u]
      /\ worker'[w].version = v /\ worker'[w].lease = claim
      /\ \A x \in Workers : x # w => worker'[x] = worker[x]
    BY <1>0 DEF Claims
<1>2. ASSUME NEW x \in Workers, x # w, worker[x].phase # "idle"
      PROVE  /\ worker[x].lease > 0 /\ worker[x].lease <= delivery'[worker[x].version].attempts
             /\ worker[x].version = v => worker[x].lease # claim
  <2>1. /\ worker[x].lease > 0 /\ worker[x].lease <= delivery[worker[x].version].attempts
        /\ worker[x].version \in Dispatches
    BY <1>2 DEF LeasesAreClaims, WorkersHaveDeliveries
  <2>2. worker[x].lease \in Nat /\ delivery[v].attempts \in Nat /\ claim = delivery[v].attempts + 1
    BY <1>0 DEF Claims, TypeOK, Work, Delivery
  <2>. QED
    BY <1>1, <2>1, <2>2
<1>3. \A u \in Dispatches : HasStatus(u, {"NONE"})' => delivery'[u].attempts = 0
    BY <1>1 DEF LeasesAreClaims, HasStatus
<1>4. ASSUME NEW x \in Workers, worker'[x].phase # "idle"
      PROVE  worker'[x].lease > 0 /\ worker'[x].lease <= delivery'[worker'[x].version].attempts
    BY <1>1, <1>2, <1>4
<1>5. ASSUME NEW x \in Workers, NEW y \in Workers, x # y, worker'[x].phase # "idle",
             worker'[y].phase # "idle", worker'[x].version = worker'[y].version
      PROVE  worker'[x].lease # worker'[y].lease
  <2>1. CASE x = w
    BY <1>1, <1>2, <1>5, <2>1
  <2>2. CASE y = w
    BY <1>1, <1>2, <1>5, <2>2
  <2>3. CASE x # w /\ y # w
    BY <1>1, <1>5, <2>3 DEF LeasesAreClaims
  <2>. QED
    BY <2>1, <2>2, <2>3
<1>. QED
    BY <1>3, <1>4, <1>5 DEF LeasesAreClaims

LEMMA LeasesStep == IInv /\ LeasesAreClaims /\ [Next]_vars => LeasesAreClaims'
<1>. SUFFICES ASSUME IInv, LeasesAreClaims, [Next]_vars PROVE LeasesAreClaims'
    OBVIOUS
<1>. DEFINE SameClaims == \A v \in Dispatches : /\ delivery'[v].attempts = delivery[v].attempts
                                                /\ delivery'[v].status = "NONE" => delivery[v].status = "NONE"
            SameWork == \A w \in Workers : worker'[w].phase # "idle" =>
                /\ worker[w].phase # "idle"
                /\ worker'[w].version = worker[w].version /\ worker'[w].lease = worker[w].lease
<1>1. SameClaims /\ SameWork => LeasesAreClaims'
    BY LeasesStay DEF IInv
<1>2. ASSUME UNCHANGED delivery PROVE SameClaims
    BY <1>2
<1>3. ASSUME UNCHANGED worker PROVE SameWork
    BY <1>3
<1>4. ASSUME NEW v \in Dispatches, QueueSupplierOrder(v) PROVE LeasesAreClaims'
  <2>1. delivery'[v].attempts = 0 /\ delivery'[v].status = "PENDING"
    BY <1>4 DEF QueueSupplierOrder, IInv, TypeOK, None
  <2>2. \A u \in Dispatches : u # v => delivery'[u] = delivery[u]
    BY <1>4 DEF QueueSupplierOrder, IInv, TypeOK
  <2>3. delivery[v].attempts = 0
    BY <1>4 DEF QueueSupplierOrder, LeasesAreClaims
  <2>. QED
    BY <1>1, <1>3, <1>4, <2>1, <2>2, <2>3 DEF QueueSupplierOrder
<1>5. ASSUME NEW v \in Dispatches, BecomeDue(v) \/ ExpireLease(v) PROVE LeasesAreClaims'
  <2>0. delivery \in [Dispatches -> Delivery]
    BY DEF IInv, TypeOK
  <2>1. SameClaims
    <3>1. CASE BecomeDue(v)
      BY <2>0, <3>1 DEF BecomeDue, Delivery
    <3>2. CASE ExpireLease(v)
      BY <2>0, <3>2 DEF ExpireLease, Delivery
    <3>. QED BY <1>5, <3>1, <3>2
  <2>. QED
    BY <1>1, <1>3, <1>5, <2>1 DEF BecomeDue, ExpireLease
<1>6. ASSUME NEW w \in Workers, NEW v \in Dispatches, FailFrozen(w, v) PROVE LeasesAreClaims'
  <2>1. SameClaims
    BY <1>6 DEF FailFrozen, IInv, TypeOK, Delivery
  <2>. QED
    BY <1>1, <1>3, <1>6, <2>1 DEF FailFrozen
<1>7. ASSUME NEW w \in Workers, NEW v \in Dispatches, Claim(w, v) PROVE LeasesAreClaims'
    BY <1>7, LeasesAfterClaim DEF IInv
<1>8. ASSUME NEW w \in Workers, NEW delivered \in BOOLEAN, NEW result \in {"SUCCEEDED", "RETRYABLE", "FAILED"},
             Answer(w, delivered, result)
      PROVE  LeasesAreClaims'
  <2>1. SameWork
    BY <1>8 DEF Answer, IInv, TypeOK, Work
  <2>. QED
    BY <1>1, <1>2, <1>8, <2>1 DEF Answer
<1>9. ASSUME NEW w \in Workers, Finish(w) PROVE LeasesAreClaims'
  <2>1. SameWork
    BY <1>9 DEF Finish, Idle, IInv, TypeOK
  <2>2. SameClaims
    <3>1. CASE Fenced(w)
        BY <1>9, <3>1, FencedFinish
    <3>2. CASE ~Fenced(w)
        BY <1>2, <1>9, <3>2 DEF Finish
    <3>. QED
        BY <3>1, <3>2
  <2>. QED
    BY <1>1, <2>1, <2>2
<1>10. ASSUME NEW w \in Workers, Crash(w) PROVE LeasesAreClaims'
  <2>1. SameWork
    BY <1>10 DEF Crash, Idle, IInv, TypeOK
  <2>. QED
    BY <1>1, <1>2, <1>10, <2>1 DEF Crash
<1>11. CASE UNCHANGED <<delivery, worker>>
    BY <1>1, <1>2, <1>3, <1>11
<1>12. ASSUME NEW w \in Workers, SendAccepted(w) \/ SendRateLimited(w) \/ SendFailed(w)
       PROVE  LeasesAreClaims'
    BY <1>8, <1>12 DEF SendAccepted, SendRateLimited, SendFailed
<1>. QED
    BY <1>4, <1>5, <1>6, <1>7, <1>9, <1>10, <1>11, <1>12
       DEF Next, WorkerStep, DeliveryStep, QueueAgain, Reconcile, Ignore, Redeliver, Reassess, Freeze,
           Unfreeze, vars

\* No delivery and no new claim: nothing is spent.
LEMMA CountStays ==
    ASSUME TypeOK, TypeOK', NEW v \in Dispatches,
           IsFiniteSet(Sending(v)), got[v] + Chances(v) <= 1 + stalls,
           Sending(v)' \subseteq Sending(v), got'[v] = got[v], stalls' >= stalls,
           MayBeClaimed(v)' => MayBeClaimed(v) \/ stalls' > stalls
    PROVE  IsFiniteSet(Sending(v))' /\ (got[v] + Chances(v) <= 1 + stalls)'
<1>1. /\ IsFiniteSet(Sending(v)')
      /\ Cardinality(Sending(v)') <= Cardinality(Sending(v))
      /\ Cardinality(Sending(v)) \in Nat /\ Cardinality(Sending(v)') \in Nat
    BY FS_Subset, FS_CardinalityType
<1>2. got[v] \in Nat /\ stalls \in Nat /\ stalls' \in Nat
    BY DEF TypeOK
<1>3. got[v] + Cardinality(Sending(v)) + (IF MayBeClaimed(v) THEN 1 ELSE 0) <= 1 + stalls
    BY <1>1, <1>2 DEF Chances
<1>4. got'[v] + Cardinality(Sending(v)') + (IF MayBeClaimed(v)' THEN 1 ELSE 0) <= 1 + stalls'
    BY <1>1, <1>2, <1>3
<1>. QED
    BY <1>1, <1>2, <1>4 DEF Chances

\* A claim spends the claim that was still to come.
LEMMA CountAtClaim ==
    ASSUME TypeOK, TypeOK', NEW v \in Dispatches, NEW w \in Workers,
           IsFiniteSet(Sending(v)), got[v] + Chances(v) <= 1 + stalls,
           Sending(v)' = Sending(v) \cup {w}, w \notin Sending(v), got'[v] = got[v], stalls' = stalls,
           MayBeClaimed(v), ~MayBeClaimed(v)'
    PROVE  IsFiniteSet(Sending(v))' /\ (got[v] + Chances(v) <= 1 + stalls)'
<1>1. /\ IsFiniteSet(Sending(v)')
      /\ Cardinality(Sending(v)') = Cardinality(Sending(v)) + 1
      /\ Cardinality(Sending(v)) \in Nat
    BY FS_AddElement, FS_CardinalityType
<1>2. got[v] \in Nat /\ stalls \in Nat
    BY DEF TypeOK
<1>. QED
    BY <1>1, <1>2 DEF Chances

\* An answer spends the worker's own chance; if nothing was delivered, the
\* delivery may be claimed again.
LEMMA CountAtAnswer ==
    ASSUME TypeOK, TypeOK', NEW v \in Dispatches, NEW w \in Sending(v),
           IsFiniteSet(Sending(v)), got[v] + Chances(v) <= 1 + stalls,
           Sending(v)' = Sending(v) \ {w}, stalls' = stalls,
           \/ got'[v] = got[v]
           \/ got'[v] = got[v] + 1 /\ (MayBeClaimed(v)' => MayBeClaimed(v))
    PROVE  IsFiniteSet(Sending(v))' /\ (got[v] + Chances(v) <= 1 + stalls)'
<1>1. /\ IsFiniteSet(Sending(v)')
      /\ Cardinality(Sending(v)') = Cardinality(Sending(v)) - 1
      /\ Cardinality(Sending(v)) \in Nat
    BY FS_RemoveElement, FS_CardinalityType
<1>2. got[v] \in Nat /\ stalls \in Nat
    BY DEF TypeOK
<1>. QED
    BY <1>1, <1>2 DEF Chances

\* What a step leaves of a delivery that it does not touch.
LEMMA UntouchedStays ==
    ASSUME NEW v \in Dispatches, delivery'[v] = delivery[v],
           \A w \in Workers : (worker[w].version = v \/ worker'[w].version = v) => worker'[w] = worker[w]
    PROVE  Sending(v)' = Sending(v) /\ (MayBeClaimed(v)' <=> MayBeClaimed(v))
<1>1. Sending(v)' = Sending(v)
    BY DEF Sending
<1>2. \A w \in Workers : Holds(w, v)' <=> Holds(w, v)
    BY DEF Holds
<1>3. \A w \in Workers : Holds(w, v) => worker'[w] = worker[w]
    BY DEF Holds
<1>. QED
    BY <1>1, <1>2, <1>3 DEF MayBeClaimed, HasStatus

\* The worker that writes its result is the only one that holds the delivery.
LEMMA CountAtFinish ==
    ASSUME IInv, LeasesAreClaims, NEW w \in Workers, Finish(w), NEW v \in Dispatches
    PROVE  Sending(v)' \subseteq Sending(v) /\ (MayBeClaimed(v)' => MayBeClaimed(v))
<1>1. /\ worker[w].phase = "finishing" /\ worker'[w].phase = "idle"
      /\ \A x \in Workers : x # w => worker'[x] = worker[x]
    BY DEF Finish, Idle, IInv, TypeOK
<1>2. Sending(v)' \subseteq Sending(v)
    BY <1>1 DEF Sending
<1>3. CASE ~(v = worker[w].version /\ Fenced(w))
  <2>1. delivery'[v] = delivery[v]
    <3>1. CASE Fenced(w)
        BY <1>3, <3>1, FencedFinish
    <3>2. CASE ~Fenced(w)
        BY <3>2 DEF Finish
    <3>. QED
        BY <3>1, <3>2
  <2>2. HasStatus(v, {"PROCESSING"}) => ~Holds(w, v)
    BY <1>3 DEF Fenced, Holds
  <2>3. \A x \in Workers : HasStatus(v, {"PROCESSING"}) /\ Holds(x, v) => worker'[x] = worker[x] /\ Holds(x, v)'
    BY <1>1, <2>1, <2>2 DEF Holds
  <2>. QED
    BY <1>2, <2>1, <2>3 DEF MayBeClaimed, HasStatus
<1>4. CASE v = worker[w].version /\ Fenced(w)
  <2>1. /\ delivery[v].status = "PROCESSING"
        /\ delivery'[v].status = worker[w].result
        /\ worker[w].result \in {"SUCCEEDED", "RETRYABLE", "FAILED"}
    BY <1>4, FencedFinish
  <2>2. MayBeClaimed(v)' => worker[w].result = "RETRYABLE"
    BY <2>1 DEF MayBeClaimed, HasStatus
  <2>3. \A x \in Workers : Holds(x, v) => x = w
    BY <1>1, <1>4 DEF Fenced, Holds, LeasesAreClaims
  <2>4. worker[w].result = "RETRYABLE" => MayBeClaimed(v)
    BY <1>1, <2>1, <2>3 DEF MayBeClaimed, HasStatus
  <2>. QED
    BY <1>2, <2>2, <2>4
<1>. QED
    BY <1>3, <1>4

LEMMA CountStep ==
    ASSUME IInv, LeasesAreClaims, SendsAreCounted, [Next]_vars
    PROVE  SendsAreCounted'
<1>. SUFFICES ASSUME NEW v \in Dispatches
              PROVE  IsFiniteSet(Sending(v))' /\ (got[v] + Chances(v) <= 1 + stalls)'
    BY DEF SendsAreCounted
<1>. DEFINE Counted == IsFiniteSet(Sending(v))' /\ (got[v] + Chances(v) <= 1 + stalls)'
<1>1. /\ TypeOK /\ TypeOK' /\ IsFiniteSet(Sending(v)) /\ got[v] + Chances(v) <= 1 + stalls
      /\ stalls \in Nat
    BY TypeStep DEF IInv, SendsAreCounted, TypeOK
<1>2. ASSUME Sending(v)' \subseteq Sending(v), got'[v] = got[v], stalls' = stalls,
             MayBeClaimed(v)' => MayBeClaimed(v)
      PROVE  Counted
    BY <1>1, <1>2, CountStays
<1>3. ASSUME UNCHANGED <<delivery, worker, got, stalls>> PROVE Counted
  <2>1. Sending(v)' = Sending(v) /\ (MayBeClaimed(v)' <=> MayBeClaimed(v))
    BY <1>3, UntouchedStays
  <2>. QED
    BY <1>2, <1>3, <2>1
<1>4. ASSUME NEW u \in Dispatches, QueueSupplierOrder(u) \/ BecomeDue(u) PROVE Counted
  <2>1. UNCHANGED <<worker, got, stalls>> /\ \A x \in Dispatches : x # u => delivery'[x] = delivery[x]
    BY <1>1, <1>4 DEF QueueSupplierOrder, BecomeDue, TypeOK
  <2>2. Sending(v)' = Sending(v)
    BY <2>1 DEF Sending
  <2>3. delivery[u].status \in {"NONE", "RETRYABLE"}
    BY <1>4 DEF QueueSupplierOrder, BecomeDue, HasStatus
  <2>4. MayBeClaimed(v)' => MayBeClaimed(v)
    <3>1. CASE v = u
        BY <2>3, <3>1 DEF MayBeClaimed, HasStatus
    <3>2. CASE v # u
        BY <2>1, <3>2, UntouchedStays
    <3>. QED
        BY <3>1, <3>2
  <2>. QED
    BY <1>2, <2>1, <2>2, <2>4
<1>5. ASSUME NEW u \in Dispatches, ExpireLease(u) PROVE Counted
  <2>1. UNCHANGED <<worker, got>> /\ \A x \in Dispatches : x # u => delivery'[x] = delivery[x]
    BY <1>1, <1>5 DEF ExpireLease, TypeOK
  <2>2. Sending(v)' = Sending(v)
    BY <2>1 DEF Sending
  <2>3. CASE \E w \in Workers : Holds(w, u)
    <3>1. stalls' > stalls /\ stalls' >= stalls
        BY <1>1, <1>5, <2>3 DEF ExpireLease
    <3>2. got'[v] = got[v] /\ (MayBeClaimed(v)' => MayBeClaimed(v) \/ stalls' > stalls)
        BY <2>1, <3>1
    <3>. QED
        BY <1>1, <2>2, <3>1, <3>2, CountStays
  <2>4. CASE ~ \E w \in Workers : Holds(w, u)
    <3>1. stalls' = stalls
        BY <1>5, <2>4 DEF ExpireLease
    <3>2. MayBeClaimed(u)
        BY <1>5, <2>4 DEF ExpireLease, MayBeClaimed
    <3>3. MayBeClaimed(v)' => MayBeClaimed(v)
      <4>1. CASE v = u
        BY <3>2, <4>1
      <4>2. CASE v # u
        BY <2>1, <4>2, UntouchedStays
      <4>. QED
        BY <4>1, <4>2
    <3>. QED
        BY <1>2, <2>1, <2>2, <3>1, <3>3
  <2>. QED
    BY <2>3, <2>4
<1>6. ASSUME NEW w \in Workers, NEW u \in Dispatches, FailFrozen(w, u) PROVE Counted
  <2>1. /\ UNCHANGED <<worker, got, stalls>>
        /\ delivery'[u].status = "FAILED"
        /\ \A x \in Dispatches : x # u => delivery'[x] = delivery[x]
    BY <1>1, <1>6 DEF FailFrozen, TypeOK, Delivery
  <2>2. Sending(v)' = Sending(v)
    BY <2>1 DEF Sending
  <2>3. MayBeClaimed(v)' => MayBeClaimed(v)
    <3>1. CASE v = u
        BY <2>1, <3>1 DEF MayBeClaimed, HasStatus
    <3>2. CASE v # u
        BY <2>1, <3>2, UntouchedStays
    <3>. QED
        BY <3>1, <3>2
  <2>. QED
    BY <1>2, <2>1, <2>2, <2>3
<1>7. ASSUME NEW w \in Workers, NEW u \in Dispatches, Claim(w, u) PROVE Counted
  <2>0. PICK claim \in Nat : Claims(w, u, claim)
    BY <1>1, <1>7, ClaimWrites
  <2>1. /\ worker[w].phase = "idle"
        /\ delivery'[u].status = "PROCESSING" /\ delivery'[u].lease = claim /\ delivery'[u].expired = FALSE
        /\ \A x \in Dispatches : x # u => delivery'[x] = delivery[x]
        /\ worker'[w].phase = "sending" /\ worker'[w].version = u /\ worker'[w].lease = claim
        /\ \A x \in Workers : x # w => worker'[x] = worker[x]
        /\ UNCHANGED <<got, stalls>>
    BY <2>0 DEF Claims
  <2>2. CASE v # u
    <3>1. Sending(v)' = Sending(v)
        BY <2>1, <2>2 DEF Sending
    <3>2. \A x \in Workers : (Holds(x, v)' <=> Holds(x, v)) /\ (Holds(x, v) => worker'[x] = worker[x])
        BY <2>1, <2>2 DEF Holds
    <3>3. MayBeClaimed(v)' => MayBeClaimed(v)
        BY <2>1, <2>2, <3>2 DEF MayBeClaimed, HasStatus
    <3>. QED
        BY <1>2, <2>1, <3>1, <3>3
  <2>3. CASE v = u
    <3>1. Sending(v)' = Sending(v) \cup {w} /\ w \notin Sending(v)
        BY <2>1, <2>3 DEF Sending
    <3>2. MayBeClaimed(v)
        BY <1>7, <2>3 DEF Claim, Claimable, Due, MayBeClaimed, HasStatus
    <3>3. ~MayBeClaimed(v)'
        BY <2>1, <2>3 DEF MayBeClaimed, HasStatus, Holds
    <3>. QED
        BY <1>1, <2>1, <3>1, <3>2, <3>3, CountAtClaim
  <2>. QED
    BY <2>2, <2>3
<1>8. ASSUME NEW w \in Workers, NEW delivered \in BOOLEAN, NEW result \in {"SUCCEEDED", "RETRYABLE", "FAILED"},
             Answer(w, delivered, result), delivered => result # "RETRYABLE"
      PROVE  Counted
  <2>1. /\ worker[w].phase = "sending" /\ worker'[w].phase = "finishing" /\ worker'[w].result = result
        /\ worker'[w].version = worker[w].version /\ worker'[w].lease = worker[w].lease
        /\ \A x \in Workers : x # w => worker'[x] = worker[x]
        /\ UNCHANGED <<delivery, stalls>>
    BY <1>1, <1>8 DEF Answer, TypeOK, Work
  <2>2. CASE v # worker[w].version
    <3>1. Sending(v)' = Sending(v) /\ (MayBeClaimed(v)' <=> MayBeClaimed(v))
        BY <2>1, <2>2, UntouchedStays
    <3>2. got'[v] = got[v]
        BY <1>1, <1>8, <2>2 DEF Answer, TypeOK
    <3>. QED
        BY <1>2, <2>1, <3>1, <3>2
  <2>3. CASE v = worker[w].version
    <3>1. w \in Sending(v) /\ Sending(v)' = Sending(v) \ {w}
        BY <2>1, <2>3 DEF Sending
    <3>2. got'[v] = IF delivered THEN got[v] + 1 ELSE got[v]
        BY <1>1, <1>8, <2>3 DEF Answer, TypeOK
    <3>3. \A x \in Workers : Holds(x, v)' <=> Holds(x, v)
        BY <2>1 DEF Holds
    <3>4. delivered /\ MayBeClaimed(v)' => MayBeClaimed(v)
        BY <1>8, <2>1, <3>3 DEF MayBeClaimed, HasStatus
    <3>. QED
        BY <1>1, <2>1, <3>1, <3>2, <3>4, CountAtAnswer
  <2>. QED
    BY <2>2, <2>3
<1>9. ASSUME NEW w \in Workers, SendAccepted(w) \/ SendRateLimited(w) \/ SendFailed(w) PROVE Counted
    BY <1>8, <1>9 DEF SendAccepted, SendRateLimited, SendFailed
<1>10. ASSUME NEW w \in Workers, Finish(w) PROVE Counted
  <2>1. Sending(v)' \subseteq Sending(v) /\ (MayBeClaimed(v)' => MayBeClaimed(v))
    BY <1>10, CountAtFinish
  <2>2. got'[v] = got[v] /\ stalls' = stalls
    BY <1>10 DEF Finish
  <2>. QED
    BY <1>2, <2>1, <2>2
<1>11. ASSUME NEW w \in Workers, Crash(w) PROVE Counted
  <2>1. /\ worker'[w].phase = "idle" /\ \A x \in Workers : x # w => worker'[x] = worker[x]
        /\ stalls' = stalls + 1 /\ got'[v] = got[v]
    BY <1>1, <1>11 DEF Crash, Idle, TypeOK
  <2>2. Sending(v)' \subseteq Sending(v)
    BY <2>1 DEF Sending
  <2>3. stalls' > stalls /\ stalls' >= stalls
    BY <1>1, <2>1
  <2>. QED
    BY <1>1, <2>1, <2>2, <2>3, CountStays
<1>. QED
    BY <1>3, <1>4, <1>5, <1>6, <1>7, <1>9, <1>10, <1>11
       DEF Next, WorkerStep, DeliveryStep, QueueAgain, Reconcile, Ignore, Redeliver, Reassess, Freeze,
           Unfreeze, vars

-----------------------------------------------------------------------------
(* Theorems                                                                 *)

\* The inductive invariant holds in every reachable state.
LEMMA Invariance == Spec => []IInv
<1>1. IInv /\ [Next]_vars => IInv'
    BY TypeStep, WorkersStep, OrderedStep, FreezesStep, ReportedStep, StepMaps, SendingStep DEF IInv
<1>. QED
    BY Initially, <1>1, PTL DEF Spec

\* Deliveries, workers and items keep their shape.
THEOREM TypeCorrect == Spec => []TypeOK
BY Invariance, PTL DEF IInv

\* The supplier gets a delivery once, and once more for each claim that was
\* lost to a crash or outlived its lease: whatever is retried, taken over or
\* answered late in between (TelegramDeliveryService.process and finish).
THEOREM OnlyLostClaimsResend == Spec => []ResendsOnlyAfterStall
<1>. DEFINE SendsInv == LeasesAreClaims /\ SendsAreCounted
<1>1. Init => SendsInv
  <2>. SUFFICES ASSUME Init PROVE SendsInv
    OBVIOUS
  <2>1. LeasesAreClaims
    BY DEF Init, LeasesAreClaims, None, Idle, HasStatus
  <2>2. \A v \in Dispatches : Sending(v) = {} /\ got[v] = 0
    BY DEF Init, Sending, Idle
  <2>3. stalls = 0 /\ IsFiniteSet({}) /\ Cardinality({}) = 0
    BY FS_EmptySet DEF Init
  <2>. QED
    BY <2>1, <2>2, <2>3 DEF SendsAreCounted, Chances
<1>2. IInv /\ SendsInv /\ [Next]_vars => SendsInv'
    BY LeasesStep, CountStep
<1>3. IInv /\ SendsInv => ResendsOnlyAfterStall
  <2>. SUFFICES ASSUME IInv, SendsInv, NEW v \in Dispatches PROVE got[v] <= 1 + stalls
    BY DEF ResendsOnlyAfterStall
  <2>1. got[v] \in Nat /\ stalls \in Nat
    BY DEF IInv, TypeOK
  <2>2. Cardinality(Sending(v)) \in Nat /\ got[v] + Chances(v) <= 1 + stalls
    BY FS_CardinalityType DEF SendsAreCounted
  <2>. QED
    BY <2>1, <2>2 DEF Chances
<1>. QED
    BY <1>1, <1>2, <1>3, Invariance, PTL DEF Spec

\* An item becomes ORDERED only with a delivery that succeeded after the
\* supplier had got it, whoever claims, crashes, retries or answers late
\* (TelegramDeliveryService.process and finish).
THEOREM OrderedItemsWereAskedFor == Spec => []OrderedWasAsked
BY Invariance, PTL DEF IInv

\* Managers hear of a delivery only if it failed, and of every one that failed
\* while its tenant had never been frozen (TelegramDeliveryService.finish).
THEOREM FailuresAreReported == Spec => []FailureIsReported
BY Invariance, PTL DEF IInv

\* An item waits in SENDING only for a delivery that is under way or was given
\* up in a freeze: every other end of a delivery has moved it on.
THEOREM SendingItemsAreSettled == Spec => []SendingIsSettled
BY Invariance, PTL DEF IInv

\* Leases, retries, lost claims, repeated jobs and freezes cannot be told
\* apart, from the order's items, from a dispatch that is opened once, and
\* settled or given up once.
THEOREM DeliveriesImplementSupplierOrder == Spec => ImplementsSupplierOrder
<1>1. Init => Abstract!Init
    BY InitMaps
<1>2. IInv /\ [Next]_vars => [Abstract!Next]_<<item, taken, outcome>>
    BY StepMaps
<1>. QED
    BY <1>1, <1>2, Invariance, PTL DEF Spec, ImplementsSupplierOrder, Abstract!Spec, Abstract!vars
=============================================================================
