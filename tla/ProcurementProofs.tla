------------------------- MODULE ProcurementProofs -------------------------
(***************************************************************************)
(* Proofs about Procurement, for every catalogue, every set of orders and  *)
(* items, every number of concurrent requests and every duty.              *)
(***************************************************************************)
EXTENDS Procurement, FiniteSetTheorems, WellFoundedInduction, TLAPS

-----------------------------------------------------------------------------
(* Reservations                                                             *)

\* The units held in a set of lines are finitely many.
LEMMA HeldType ==
    ASSUME NEW lines, NEW S \in SUBSET Items, NEW p
    PROVE  IsFiniteSet(HeldUnits(lines, S, p)) /\ Held(lines, S, p) \in Nat
<1>1. IsFiniteSet(S)
    BY ProcurementAssumption, FS_Subset
<1>2. IsFiniteSet(Quantity)
    BY ProcurementAssumption, FS_Interval DEF Quantity
<1>3. IsFiniteSet(S \X Quantity)
    BY <1>1, <1>2, FS_Product
<1>4. HeldUnits(lines, S, p) \in SUBSET (S \X Quantity)
    BY DEF HeldUnits
<1>. QED
    BY <1>3, <1>4, FS_Subset, FS_CardinalityType DEF Held

LEMMA HoldType ==
    /\ Released \in Hold
    /\ Consumed \in Hold
    /\ \A hold \in Hold : Release(hold) \in Hold
    /\ \A line \in Line : line.product \in Products => Reserve(line) \in Hold
BY ProcurementAssumption DEF Released, Consumed, Hold, Release, Reserve, Line, Quantity

\* What a request may have read, and the job it becomes.
LEMMA SnapshotType ==
    ASSUME TypeOK, NEW S \in SUBSET Items
    PROVE  Snapshot(S) \in SomeLines /\ DOMAIN Snapshot(S) = S
<1>1. Snapshot(S) \in [S -> Line]
    BY DEF TypeOK, Snapshot
<1>. QED
    BY <1>1 DEF SomeLines

LEMMA IdleType == TypeOK => Idle \in Job
BY SnapshotType DEF Idle, Job, Phase

-----------------------------------------------------------------------------
(* The inductive invariant                                                  *)

\* A request works on one order and has read items of that order only.
JobsOfOneOrder ==
    \A r \in Process :
        job[r].phase # "idle" =>
            /\ job[r].order \in Orders
            /\ DOMAIN job[r].seen \subseteq ItemsOf(job[r].order)

IInv ==
    /\ TypeOK
    /\ JobsOfOneOrder
    /\ SendingIsDispatched

LEMMA Initially == Init => IInv
<1>. SUFFICES ASSUME Init PROVE IInv
    OBVIOUS
<1>1. \A i \in Items : item[i] \in Line /\ item[i].status = "UNASSESSED" /\ item[i].hold = Released
    BY HoldType DEF Init, Line, ProcurementStatus
<1>2. TypeOK
  <2>1. item \in [Items -> Line]
    BY <1>1 DEF Init
  <2>2. job \in [Process -> Job]
    <3>1. Snapshot({}) \in [{} -> Line]
        BY DEF Snapshot
    <3>2. Snapshot({}) \in SomeLines
        BY <3>1 DEF SomeLines
    <3>. QED
        BY <3>2 DEF Init, Idle, Job, Phase
  <2>3. stock \in [Products -> Int]
    BY ProcurementAssumption DEF Init
  <2>. QED
    BY <2>1, <2>2, <2>3 DEF Init, TypeOK, ProcurementSummary
<1>3. JobsOfOneOrder
    BY DEF Init, JobsOfOneOrder, Idle
<1>4. SendingIsDispatched
    BY <1>1 DEF SendingIsDispatched
<1>. QED
    BY <1>2, <1>3, <1>4 DEF IInv

-----------------------------------------------------------------------------
(* Type correctness                                                         *)

\* Taking up a request, moving on in it and putting it down keep the jobs typed.
LEMMA BecomeType ==
    ASSUME TypeOK, NEW r \in Process, NEW phase \in Phase, NEW o \in Orders,
           NEW target \in ManualTarget \cup {"UNASSESSED"}, NEW seen \in SomeLines,
           Become(r, phase, o, target, seen)
    PROVE  job' \in [Process -> Job]
BY DEF TypeOK, Become, Job

LEMMA BeginType ==
    ASSUME TypeOK, NEW r \in Process, NEW phase \in Phase, NEW o \in Orders,
           NEW seen \in SomeLines, Begin(r, phase, o, seen)
    PROVE  job' \in [Process -> Job]
BY BecomeType DEF Begin

LEMMA FinishType ==
    ASSUME TypeOK, NEW r \in Process, Finish(r)
    PROVE  job' \in [Process -> Job]
BY IdleType DEF TypeOK, Finish

\* Lines whose reservation or status changes stay lines.
LEMMA LineType ==
    ASSUME NEW line \in Line
    PROVE  /\ \A hold \in Hold : [line EXCEPT !.hold = hold] \in Line
           /\ \A status \in ProcurementStatus : [line EXCEPT !.status = status] \in Line
           /\ [line EXCEPT !.hold = Release(@)] = [line EXCEPT !.hold = Release(line.hold)]
           /\ line.hold \in Hold
           /\ line.product \in Products \cup {NoProduct}
           /\ line.quantity \in Quantity
BY DEF Line

LEMMA SeenType ==
    ASSUME TypeOK, NEW r \in Process
    PROVE  /\ DOMAIN job[r].seen \in SUBSET Items
           /\ \A i \in DOMAIN job[r].seen : job[r].seen[i] \in Line
           /\ job[r].target \in ManualTarget \cup {"UNASSESSED"}
BY DEF TypeOK, Job, SomeLines

\* The assessment grants only items whose product is in the catalogue, so the
\* reservations it makes are typed.
LEMMA GrantsType ==
    ASSUME TypeOK, NEW r \in Process, NEW G \in Grants(job[r].seen), NEW i \in Items
    PROVE  G \subseteq DOMAIN job[r].seen /\ WithGrants(job[r].seen, G)[i] \in Line
<1>. DEFINE seen == job[r].seen
<1>1. G \subseteq DOMAIN seen /\ DOMAIN seen \subseteq Items
    BY SeenType DEF Grants
<1>2. CASE i \in G
  <2>1. seen[i].product \in Products
    BY <1>1, <1>2 DEF Grants, CanReserve
  <2>2. Reserve(seen[i]) \in Hold
    BY <2>1, <1>1, <1>2, SeenType, HoldType
  <2>. QED
    BY <1>1, <1>2, <2>2, LineType DEF WithGrants, TypeOK
<1>3. CASE i \notin G
  <2>1. item[i] \in Line
    BY DEF TypeOK
  <2>2. Release(item[i].hold) \in Hold
    BY <2>1, LineType, HoldType
  <2>. QED
    BY <1>1, <1>3, <2>1, <2>2, LineType DEF WithGrants
<1>. QED
    BY <1>1, <1>2, <1>3

\* What an assessment leaves of the lines.
LEMMA AssessEffect ==
    ASSUME TypeOK, NEW r \in Process, AssessCommit(r)
    PROVE  \E G \in Grants(job[r].seen) :
              /\ item' \in [Items -> Line]
              /\ \A i \in Items :
                    /\ i \notin DOMAIN job[r].seen => item'[i] = item[i]
                    /\ i \in DOMAIN job[r].seen => item'[i].status = Decide(i, G)
                    /\ item'[i].hold = WithGrants(job[r].seen, G)[i].hold
<1>. DEFINE seen == job[r].seen
<1>1. PICK G \in Grants(seen) :
        item' = [i \in Items |->
                IF i \in DOMAIN seen
                THEN [WithGrants(seen, G)[i] EXCEPT !.status = Decide(i, G)]
                ELSE item[i]]
    BY DEF AssessCommit
<1>2. ASSUME NEW i \in Items
      PROVE  /\ item'[i] \in Line
             /\ i \notin DOMAIN seen => item'[i] = item[i]
             /\ i \in DOMAIN seen => item'[i].status = Decide(i, G)
             /\ item'[i].hold = WithGrants(seen, G)[i].hold
  <2>1. WithGrants(seen, G)[i] \in Line /\ G \subseteq DOMAIN seen
    BY <1>1, GrantsType
  <2>2. CASE i \notin DOMAIN seen
    BY <1>1, <2>1, <2>2 DEF TypeOK, WithGrants
  <2>3. CASE i \in DOMAIN seen
    <3>1. Decide(i, G) \in {"IN_STOCK", "TO_ORDER"}
        BY DEF Decide
    <3>. QED
        BY <1>1, <2>1, <2>3, <3>1 DEF Line, ProcurementStatus
  <2>. QED
    BY <2>2, <2>3
<1>. QED
    BY <1>1, <1>2

\* Every line of the order keeps its type when its reservation is released.
LEMMA ReleaseType ==
    ASSUME TypeOK, NEW i \in Items
    PROVE  /\ item[i] \in Line
           /\ Release(item[i].hold) \in Hold
           /\ [item[i] EXCEPT !.hold = Release(@)] \in Line
<1>1. item[i] \in Line
    BY DEF TypeOK
<1>2. Release(item[i].hold) \in Hold
    BY <1>1, LineType, HoldType
<1>. QED
    BY <1>1, <1>2, LineType

LEMMA CorrectType ==
    ASSUME TypeOK, NEW m \in Managers, CorrectCommit(m)
    PROVE  item' \in [Items -> Line]
<1>. DEFINE o == job[m].order
            Corrected(c, p, q) ==
                [i \in Items |->
                  IF OrderOf[i] # o THEN item[i]
                  ELSE [status   |-> "UNASSESSED",
                        product  |-> IF i = c THEN p ELSE item[i].product,
                        quantity |-> IF i = c THEN q ELSE item[i].quantity,
                        hold     |-> Release(item[i].hold)]]
<1>1. PICK c \in ItemsOf(o), p \in Products \cup {NoProduct}, q \in Quantity :
        item' = Corrected(c, p, q)
    BY DEF CorrectCommit
<1>2. ASSUME NEW i \in Items PROVE Corrected(c, p, q)[i] \in Line
  <2>1. item[i] \in Line /\ Release(item[i].hold) \in Hold
    BY ReleaseType
  <2>2. item[i].product \in Products \cup {NoProduct} /\ item[i].quantity \in Quantity
    BY <2>1, LineType
  <2>3. "UNASSESSED" \in ProcurementStatus
    BY DEF ProcurementStatus
  <2>. QED
    BY <2>1, <2>2, <2>3 DEF Line
<1>. QED
    BY <1>1, <1>2

LEMMA SetItemType ==
    ASSUME TypeOK, NEW m \in Managers, SetItemCommit(m)
    PROVE  item' \in [Items -> Line]
<1>. DEFINE seen == job[m].seen
            target == job[m].target
<1>1. PICK i \in DOMAIN seen :
        CASE target = "IN_STOCK" -> SetInStock(i, seen[i])
          [] target \in {"TO_ORDER", "UNAVAILABLE"} -> SetNotInStock(i, seen[i], target)
          [] OTHER -> item' = [item EXCEPT ![i].status = target]
    BY DEF SetItemCommit
<1>2. i \in Items /\ seen[i] \in Line /\ target \in ProcurementStatus
    BY SeenType DEF ManualTarget, ProcurementStatus, Process
<1>3. CASE target = "IN_STOCK"
  <2>1. SetInStock(i, seen[i])
    BY <1>1, <1>3
  <2>2. Reserve(seen[i]) \in Hold
    BY <2>1, <1>2, HoldType DEF SetInStock, CanReserve
  <2>. QED
    BY <2>1, <2>2, <1>2 DEF SetInStock, TypeOK, Line, ProcurementStatus
<1>4. CASE target \in {"TO_ORDER", "UNAVAILABLE"}
  <2>1. PICK finds \in {seen[i].hold.state, item[i].hold.state} :
            item' = [item EXCEPT ![i].status = target,
                                 ![i].hold = IF finds = "ACTIVE" THEN Release(@) ELSE @]
    BY <1>1, <1>4 DEF SetNotInStock
  <2>2. (IF finds = "ACTIVE" THEN Release(item[i].hold) ELSE item[i].hold) \in Hold
    BY <1>2, ReleaseType, LineType
  <2>. QED
    BY <2>1, <2>2, <1>2 DEF TypeOK, Line
<1>5. CASE target \notin {"IN_STOCK", "TO_ORDER", "UNAVAILABLE"}
  <2>1. item' = [item EXCEPT ![i].status = target]
    BY <1>1, <1>5
  <2>. QED
    BY <2>1, <1>2 DEF TypeOK, Line
<1>. QED
    BY <1>3, <1>4, <1>5

LEMMA HandOffType ==
    ASSUME TypeOK, NEW m \in Managers, HandOffCommit(m)
    PROVE  stock' \in [Products -> Int] /\ item' \in [Items -> Line]
<1>. DEFINE seen == job[m].seen
<1>1. ASSUME NEW p \in Products PROVE stock[p] - Taken(seen, p) \in Int
    BY SeenType, HeldType DEF Taken, TypeOK, Process
<1>2. ASSUME NEW i \in Items PROVE [item[i] EXCEPT !.hold = Consumed] \in Line
    BY HoldType, LineType DEF TypeOK
<1>. QED
    BY <1>1, <1>2 DEF HandOffCommit, TypeOK

\* Whatever is resorted, the sort key remains a summary.
LEMMA SummaryType ==
    \A statuses, isHandedOff : procurementSummaryFor(statuses, isHandedOff) \in ProcurementSummary
BY DEF procurementSummaryFor, ProcurementSummary

LEMMA ResortType ==
    ASSUME TypeOK, NEW o, NEW isHandedOff, Resort(o, isHandedOff)
    PROVE  sorted' \in [Orders -> ProcurementSummary]
BY SummaryType DEF Resort, TypeOK

LEMMA TypeStep == TypeOK /\ JobsOfOneOrder /\ [Next]_vars => TypeOK'
<1>. SUFFICES ASSUME TypeOK, JobsOfOneOrder, [Next]_vars PROVE TypeOK'
    OBVIOUS
<1>. USE DEF Process
<1>1. ASSUME NEW m \in Managers, NEW o \in Orders, ApproveRead(m, o) PROVE TypeOK'
    BY <1>1, SnapshotType, BeginType DEF ApproveRead, TypeOK, Phase
<1>2. ASSUME NEW m \in Managers, ApproveTransition(m) PROVE TypeOK'
    BY <1>2, SnapshotType, BeginType DEF ApproveTransition, TypeOK, Phase, JobsOfOneOrder
<1>3. ASSUME NEW o \in Orders, Backfill(o) PROVE TypeOK'
    BY <1>3, SnapshotType, BeginType DEF Backfill, TypeOK, Phase
<1>4. ASSUME NEW r \in Process, AssessRead(r) PROVE TypeOK'
  <2>. DEFINE o == job[r].order
              read == [i \in ItemsOf(o) |-> [item[i] EXCEPT !.status = "UNASSESSED", !.hold = Released]]
  <2>1. o \in Orders
    BY <1>4 DEF AssessRead, JobsOfOneOrder
  <2>2. read \in SomeLines
    <3>1. ItemsOf(o) \in SUBSET Items
        BY DEF ItemsOf
    <3>2. read \in [ItemsOf(o) -> Line]
        BY HoldType DEF TypeOK, Line, ProcurementStatus, ItemsOf
    <3>. QED
        BY <3>1, <3>2 DEF SomeLines
  <2>. QED
    BY <1>4, <2>1, <2>2, BeginType, FinishType DEF AssessRead, TypeOK, Phase
<1>5. ASSUME NEW r \in Process, AssessCommit(r) PROVE TypeOK'
    BY <1>5, AssessEffect, ResortType, FinishType DEF AssessCommit, TypeOK
<1>6. ASSUME NEW m \in Managers, NEW o \in Orders, CancelTransition(m, o) PROVE TypeOK'
    BY <1>6, SnapshotType, BeginType DEF CancelTransition, TypeOK, Phase, ProcurementSummary
<1>7. ASSUME NEW m \in Managers, ReleaseOrderReservations(m) PROVE TypeOK'
  <2>1. item' \in [Items -> Line]
    BY <1>7, ReleaseType DEF ReleaseOrderReservations
  <2>. QED
    BY <1>7, <2>1, FinishType DEF ReleaseOrderReservations, TypeOK
<1>8. ASSUME NEW m \in Managers, NEW o \in Orders, CorrectRead(m, o) PROVE TypeOK'
    BY <1>8, SnapshotType, BeginType DEF CorrectRead, TypeOK, Phase
<1>9. ASSUME NEW m \in Managers, CorrectCommit(m) PROVE TypeOK'
    BY <1>9, CorrectType, FinishType DEF CorrectCommit, TypeOK, ProcurementSummary
<1>10. ASSUME NEW m \in Managers, NEW i \in Items, NEW target \in ManualTarget, SetItemRead(m, i, target)
       PROVE  TypeOK'
    BY <1>10, SnapshotType, BecomeType, ProcurementAssumption DEF SetItemRead, TypeOK, Phase
<1>11. ASSUME NEW m \in Managers, SetItemCommit(m) PROVE TypeOK'
    BY <1>11, SetItemType, ResortType, FinishType DEF SetItemCommit, TypeOK
<1>12. ASSUME NEW m \in Managers, NEW o \in Orders, HandOffRead(m, o) PROVE TypeOK'
    BY <1>12, SnapshotType, BeginType DEF HandOffRead, TypeOK, Phase, ItemsOf
<1>13. ASSUME NEW m \in Managers, HandOffCommit(m) PROVE TypeOK'
    BY <1>13, HandOffType, FinishType DEF HandOffCommit, TypeOK, ProcurementSummary
<1>14. ASSUME NEW m \in Managers, NEW o \in Orders, QueueSupplierOrder(m, o) PROVE TypeOK'
  <2>1. item' \in [Items -> Line]
    BY <1>14, LineType DEF QueueSupplierOrder, TypeOK, ProcurementStatus
  <2>. QED
    BY <1>14, <2>1 DEF QueueSupplierOrder, TypeOK, ItemsOf, ProcurementSummary
<1>15. ASSUME NEW o \in Orders, NEW outcome \in {"ORDERED", "TO_ORDER"}, SettleDelivery(o, outcome)
       PROVE  TypeOK'
  <2>1. item' \in [Items -> Line]
    BY <1>15, LineType DEF SettleDelivery, TypeOK, ProcurementStatus
  <2>. QED
    BY <1>15, <2>1, ResortType DEF SettleDelivery, TypeOK
<1>16. ASSUME NEW m \in Managers, NEW p \in Products, ImportProduct(m, p) PROVE TypeOK'
    BY <1>16, ProcurementAssumption DEF ImportProduct, TypeOK
<1>17. ASSUME NEW r \in Process, Abort(r) PROVE TypeOK'
    BY <1>17, FinishType DEF Abort, TypeOK
<1>18. ASSUME NEW m \in Managers, NEW o \in Orders, ShipmentRead(m, o) PROVE TypeOK'
    BY <1>18, SnapshotType, BeginType DEF ShipmentRead, TypeOK, Phase
<1>19. ASSUME NEW m \in Managers, ShipmentCommit(m) PROVE TypeOK'
    BY <1>19, FinishType DEF ShipmentCommit, TypeOK
<1>20. CASE UNCHANGED vars
    BY <1>20 DEF vars, TypeOK
<1>. QED
    BY <1>1, <1>2, <1>3, <1>4, <1>5, <1>6, <1>7, <1>8, <1>9, <1>10, <1>11, <1>12, <1>13,
       <1>14, <1>15, <1>16, <1>17, <1>18, <1>19, <1>20 DEF Next, ManagerStep, ProcessStep

-----------------------------------------------------------------------------
(* Jobs                                                                     *)

\* A job that is replaced by a proper one, or put down, stays within its order.
LEMMA BecomeJobs ==
    ASSUME TypeOK, JobsOfOneOrder, NEW r \in Process, NEW phase, NEW o \in Orders, NEW target,
           NEW S \in SUBSET Items, NEW seen, DOMAIN seen = S, S \subseteq ItemsOf(o),
           Become(r, phase, o, target, seen)
    PROVE  JobsOfOneOrder'
<1>1. ASSUME NEW q \in Process, job'[q].phase # "idle"
      PROVE  job'[q].order \in Orders /\ DOMAIN job'[q].seen \subseteq ItemsOf(job'[q].order)
  <2>1. CASE q = r
    BY <2>1 DEF Become, TypeOK
  <2>2. CASE q # r
    BY <1>1, <2>2 DEF Become, TypeOK, JobsOfOneOrder
  <2>. QED
    BY <2>1, <2>2
<1>. QED
    BY <1>1 DEF JobsOfOneOrder, ItemsOf

LEMMA BeginJobs ==
    ASSUME TypeOK, JobsOfOneOrder, NEW r \in Process, NEW phase, NEW o \in Orders,
           NEW S \in SUBSET Items, S \subseteq ItemsOf(o), Begin(r, phase, o, Snapshot(S))
    PROVE  JobsOfOneOrder'
BY SnapshotType, BecomeJobs DEF Begin

LEMMA FinishJobs ==
    ASSUME TypeOK, JobsOfOneOrder, NEW r \in Process, Finish(r)
    PROVE  JobsOfOneOrder'
<1>1. ASSUME NEW q \in Process, job'[q].phase # "idle"
      PROVE  job'[q] = job[q]
    BY <1>1 DEF Finish, TypeOK, Idle
<1>. QED
    BY <1>1 DEF JobsOfOneOrder, ItemsOf

LEMMA JobsStep == TypeOK /\ JobsOfOneOrder /\ [Next]_vars => JobsOfOneOrder'
<1>. SUFFICES ASSUME TypeOK, JobsOfOneOrder, [Next]_vars PROVE JobsOfOneOrder'
    OBVIOUS
<1>. USE DEF Process
<1>1. ASSUME NEW m \in Managers, NEW o \in Orders,
             ApproveRead(m, o) \/ CancelTransition(m, o) \/ CorrectRead(m, o) \/ ShipmentRead(m, o)
      PROVE  JobsOfOneOrder'
    BY <1>1, BeginJobs DEF ApproveRead, CancelTransition, CorrectRead, ShipmentRead
<1>2. ASSUME NEW m \in Managers, ApproveTransition(m) PROVE JobsOfOneOrder'
  <2>1. job[m].order \in Orders
    BY <1>2 DEF ApproveTransition, JobsOfOneOrder
  <2>. QED
    BY <1>2, <2>1, BeginJobs DEF ApproveTransition
<1>3. ASSUME NEW o \in Orders, Backfill(o) PROVE JobsOfOneOrder'
    BY <1>3, BeginJobs DEF Backfill
<1>4. ASSUME NEW r \in Process, AssessRead(r) PROVE JobsOfOneOrder'
  <2>. DEFINE o == job[r].order
              read == [i \in ItemsOf(o) |-> [item[i] EXCEPT !.status = "UNASSESSED", !.hold = Released]]
  <2>1. o \in Orders /\ ItemsOf(o) \in SUBSET Items
    BY <1>4 DEF AssessRead, JobsOfOneOrder, ItemsOf
  <2>2. CASE Finish(r)
    BY <2>2, FinishJobs
  <2>3. CASE Begin(r, "assessing", o, read)
    <3>1. DOMAIN read = ItemsOf(o)
        OBVIOUS
    <3>. QED
        BY <2>1, <2>3, <3>1, BecomeJobs DEF Begin
  <2>. QED
    BY <1>4, <2>2, <2>3 DEF AssessRead
<1>5. ASSUME NEW r \in Process, AssessCommit(r) \/ Abort(r) PROVE JobsOfOneOrder'
    BY <1>5, FinishJobs DEF AssessCommit, Abort
<1>6. ASSUME NEW m \in Managers,
             \/ ReleaseOrderReservations(m) \/ CorrectCommit(m) \/ SetItemCommit(m)
             \/ HandOffCommit(m) \/ ShipmentCommit(m)
      PROVE  JobsOfOneOrder'
    BY <1>6, FinishJobs DEF ReleaseOrderReservations, CorrectCommit, SetItemCommit, HandOffCommit, ShipmentCommit
<1>7. ASSUME NEW m \in Managers, NEW i \in Items, NEW target \in ManualTarget, SetItemRead(m, i, target)
      PROVE  JobsOfOneOrder'
  <2>1. OrderOf[i] \in Orders /\ {i} \subseteq ItemsOf(OrderOf[i])
    BY ProcurementAssumption DEF ItemsOf
  <2>2. DOMAIN Snapshot({i}) = {i}
    BY DEF Snapshot
  <2>3. Become(m, "setItem", OrderOf[i], target, Snapshot({i}))
    BY <1>7 DEF SetItemRead
  <2>. QED
    BY <2>1, <2>2, <2>3, BecomeJobs
<1>8. ASSUME NEW m \in Managers, NEW o \in Orders, HandOffRead(m, o) PROVE JobsOfOneOrder'
    BY <1>8, BeginJobs DEF HandOffRead, ItemsOf
<1>9. CASE UNCHANGED job
    BY <1>9 DEF JobsOfOneOrder, ItemsOf
<1>. QED
    BY <1>1, <1>2, <1>3, <1>4, <1>5, <1>6, <1>7, <1>8, <1>9
    DEF Next, ManagerStep, ProcessStep, vars, QueueSupplierOrder, ImportProduct, SettleDelivery

-----------------------------------------------------------------------------
(* No item is stranded in SENDING                                           *)

\* Apart from a dispatch, no step makes an item SENDING, and only the end of a
\* delivery takes items out of the delivery.
LEMMA SendingStep == TypeOK /\ SendingIsDispatched /\ [Next]_vars => SendingIsDispatched'
<1>. SUFFICES ASSUME TypeOK, SendingIsDispatched, [Next]_vars PROVE SendingIsDispatched'
    OBVIOUS
<1>. DEFINE NoNewSending == \A i \in Items : item'[i].status = "SENDING" => item[i].status = "SENDING"
<1>1. NoNewSending /\ UNCHANGED delivery => SendingIsDispatched'
    BY DEF SendingIsDispatched
<1>2. ASSUME NEW r \in Process, AssessCommit(r) PROVE SendingIsDispatched'
  <2>1. NoNewSending
    BY <1>2, AssessEffect DEF Decide
  <2>. QED
    BY <1>1, <1>2, <2>1 DEF AssessCommit
<1>3. ASSUME NEW m \in Managers, ReleaseOrderReservations(m) PROVE SendingIsDispatched'
    BY <1>1, <1>3 DEF ReleaseOrderReservations, TypeOK, Line
<1>4. ASSUME NEW m \in Managers, CorrectCommit(m) PROVE SendingIsDispatched'
  <2>1. \A i \in Items : item'[i] = item[i] \/ item'[i].status = "UNASSESSED"
    BY <1>4 DEF CorrectCommit
  <2>. QED
    BY <1>1, <1>4, <2>1 DEF CorrectCommit
<1>5. ASSUME NEW m \in Managers, SetItemCommit(m) PROVE SendingIsDispatched'
  <2>1. job[m].target # "SENDING" /\ DOMAIN job[m].seen \subseteq Items
    BY SeenType DEF ManualTarget, Process
  <2>2. PICK i \in DOMAIN job[m].seen :
        CASE job[m].target = "IN_STOCK" -> SetInStock(i, job[m].seen[i])
          [] job[m].target \in {"TO_ORDER", "UNAVAILABLE"} -> SetNotInStock(i, job[m].seen[i], job[m].target)
          [] OTHER -> item' = [item EXCEPT ![i].status = job[m].target]
    BY <1>5 DEF SetItemCommit
  <2>3. \A j \in Items : j # i => item'[j] = item[j]
    BY <2>1, <2>2 DEF SetInStock, SetNotInStock, TypeOK
  <2>4. item'[i].status = job[m].target
    BY <2>1, <2>2 DEF SetInStock, SetNotInStock, TypeOK, Line
  <2>. QED
    BY <1>1, <1>5, <2>1, <2>3, <2>4 DEF SetItemCommit
<1>6. ASSUME NEW m \in Managers, HandOffCommit(m) PROVE SendingIsDispatched'
    BY <1>1, <1>6 DEF HandOffCommit, TypeOK, Line
<1>7. ASSUME NEW m \in Managers, NEW o \in Orders, QueueSupplierOrder(m, o) PROVE SendingIsDispatched'
    BY <1>7 DEF QueueSupplierOrder, HasActiveDelivery, SendingIsDispatched, TypeOK, ItemsOf
<1>8. ASSUME NEW o \in Orders, NEW outcome \in {"ORDERED", "TO_ORDER"}, SettleDelivery(o, outcome)
      PROVE  SendingIsDispatched'
  <2>1. \A i \in Items : item'[i].status = "SENDING" => item[i].status = "SENDING" /\ i \notin delivery[o]
    BY <1>8 DEF SettleDelivery, TypeOK, Line
  <2>2. \A q \in Orders : q # o => delivery'[q] = delivery[q]
    BY <1>8 DEF SettleDelivery, TypeOK
  <2>3. \A i \in Items : OrderOf[i] \in Orders
    BY ProcurementAssumption
  <2>. QED
    BY <2>1, <2>2, <2>3 DEF SendingIsDispatched
<1>9. CASE UNCHANGED <<item, delivery>>
    BY <1>9 DEF SendingIsDispatched
<1>. QED
    BY <1>2, <1>3, <1>4, <1>5, <1>6, <1>7, <1>8, <1>9
    DEF Next, ManagerStep, ProcessStep, vars, ApproveRead, ApproveTransition, Backfill, AssessRead,
        CancelTransition, CorrectRead, SetItemRead, HandOffRead, ShipmentRead, ShipmentCommit, ImportProduct, Abort

-----------------------------------------------------------------------------
(* No oversell                                                              *)

\* A non-empty set of items has a last one.
LEMMA LastItem ==
    ASSUME NEW T \in SUBSET Items, T # {}
    PROVE  \E k \in T : \A j \in T : ~(k < j)
<1>. DEFINE After(k) == {j \in T : k < j}
            Tails == {After(k) : k \in T}
<1>1. IsFiniteSet(Items)
    BY ProcurementAssumption
<1>2. Tails \subseteq FiniteSubsetsOf(Items)
    BY <1>1, FS_Subset DEF FiniteSubsetsOf
<1>3. IsWellFoundedOn(StrictSubsetOrdering(Items), FiniteSubsetsOf(Items))
    BY FS_StrictSubsetOrderingWellFounded
<1>4. Tails # {}
    OBVIOUS
<1>5. PICK A \in Tails : \A B \in Tails : ~(<<B, A>> \in StrictSubsetOrdering(Items))
  <2>. HIDE DEF Tails
  <2>. QED
    BY <1>2, <1>3, <1>4, WFMin
<1>6. PICK k \in T : A = After(k)
    BY <1>5
<1>7. ASSUME NEW j \in T, k < j PROVE FALSE
  <2>1. After(j) \subseteq After(k) /\ j \in After(k) /\ j \notin After(j)
    <3>1. T \subseteq Int
        BY ProcurementAssumption
    <3>2. k \in Int /\ j \in Int /\ k < j
        BY <1>7, <3>1
    <3>3. ASSUME NEW x \in T, j < x PROVE k < x
        BY <3>1, <3>2, <3>3
    <3>4. ~(j < j)
        BY <3>2
    <3>. QED
        BY <1>7, <3>3, <3>4
  <2>2. After(j) \in Tails
    OBVIOUS
  <2>. QED
    BY <1>5, <1>6, <2>1, <2>2 DEF StrictSubsetOrdering
<1>. QED
    BY <1>7

\* A reservation of q units adds q to what is held of the product, if for that
\* product nothing else changes.
LEMMA HeldAdds ==
    ASSUME NEW S \in SUBSET Items, NEW i \in S, NEW p, NEW q \in Quantity, NEW before, NEW after,
           after[i].hold.state = "ACTIVE", after[i].hold.product = p, after[i].hold.quantity = q,
           ~(before[i].hold.state = "ACTIVE" /\ before[i].hold.product = p),
           \A j \in S \ {i} :
              /\ (after[j].hold.state = "ACTIVE" /\ after[j].hold.product = p)
                    <=> (before[j].hold.state = "ACTIVE" /\ before[j].hold.product = p)
              /\ (after[j].hold.state = "ACTIVE" /\ after[j].hold.product = p)
                    => after[j].hold.quantity = before[j].hold.quantity
    PROVE  Held(after, S, p) = Held(before, S, p) + q
<1>. DEFINE new == {i} \X (1..q)
            old == HeldUnits(before, S, p)
<1>1. q \in Nat /\ 1..q \subseteq Quantity /\ \A n \in Quantity : n <= q <=> n \in 1..q
    BY ProcurementAssumption DEF Quantity
<1>2. HeldUnits(after, S, p) = old \cup new
  <2>1. ASSUME NEW j \in S, NEW n \in Quantity
        PROVE  <<j, n>> \in HeldUnits(after, S, p) <=> <<j, n>> \in old \cup new
    <3>1. CASE j = i
        BY <1>1, <3>1 DEF HeldUnits
    <3>2. CASE j # i
        BY <3>2 DEF HeldUnits
    <3>. QED
        BY <3>1, <3>2
  <2>2. HeldUnits(after, S, p) \subseteq S \X Quantity /\ old \cup new \subseteq S \X Quantity
    BY <1>1 DEF HeldUnits
  <2>. QED
    BY <2>1, <2>2
<1>3. old \cap new = {}
    BY DEF HeldUnits
<1>4. IsFiniteSet(new) /\ Cardinality(new) = q
  <2>1. IsFiniteSet({i}) /\ Cardinality({i}) = 1
    BY FS_Singleton
  <2>2. IsFiniteSet(1..q) /\ Cardinality(1..q) = q
    BY <1>1, FS_Interval
  <2>3. IsFiniteSet({i} \X (1..q)) /\ Cardinality({i} \X (1..q)) = Cardinality({i}) * Cardinality(1..q)
    BY <2>1, <2>2, FS_Product, Zenon
  <2>. QED
    BY <1>1, <2>1, <2>2, <2>3
<1>5. IsFiniteSet(old) /\ Cardinality(old) \in Nat
    BY HeldType DEF Held
<1>6. Cardinality(old \cup new) = Cardinality(old) + Cardinality(new) - Cardinality({})
    BY <1>3, <1>4, <1>5, FS_Union
<1>. QED
    BY <1>1, <1>2, <1>4, <1>5, <1>6, FS_EmptySet DEF Held

\* Of the items an assessment grants of a product, the last one was checked
\* against all the others.
LEMMA AssessStaysBelow ==
    ASSUME TypeOK, NEW r \in Process, AssessCommit(r), NEW i \in Items, NEW p \in Products,
           item'[i].hold # item[i].hold, item'[i].hold.state = "ACTIVE", item'[i].hold.product = p
    PROVE  Held(item', Items, p) <= stock[p]
<1>. DEFINE seen == job[r].seen
<1>1. PICK G \in Grants(seen) :
        /\ item' \in [Items -> Line]
        /\ \A j \in Items : item'[j].hold = WithGrants(seen, G)[j].hold
    BY AssessEffect
<1>2. G \subseteq DOMAIN seen /\ DOMAIN seen \subseteq Items /\ \A j \in DOMAIN seen : seen[j] \in Line
    BY <1>1, SeenType DEF Grants
<1>. DEFINE Gp == {j \in G : seen[j].product = p}
            Before(k) == WithGrants(seen, {j \in G : j < k})
<1>3. \A j \in Items : item[j] \in Line
    BY DEF TypeOK
\* What the three kinds of lines hold.
<1>4. \A j \in G : item'[j].hold = Reserve(seen[j])
    BY <1>1, <1>2, <1>3 DEF WithGrants, Line
<1>5. \A j \in (DOMAIN seen) \ G : item'[j].hold = Release(item[j].hold)
    BY <1>1, <1>2, <1>3 DEF WithGrants, Line
<1>6. \A j \in Items \ DOMAIN seen : item'[j].hold = item[j].hold
    BY <1>1, <1>2 DEF WithGrants
<1>7. i \in Gp
  <2>1. i \in DOMAIN seen
    BY <1>6
  <2>2. i \in G
    BY <2>1, <1>5 DEF Release, Released
  <2>3. item'[i].hold = Reserve(seen[i])
    BY <2>2, <1>4
  <2>. QED
    BY <2>2, <2>3 DEF Reserve
<1>8. PICK k \in Gp : \A j \in Gp : ~(k < j)
    BY <1>2, <1>7, LastItem
<1>9. k \in Items /\ k \in G /\ seen[k].product = p /\ seen[k].quantity \in Quantity
    BY <1>2, <1>8 DEF Line
<1>10. Held(Before(k), Items, p) + seen[k].quantity <= stock[p]
    BY <1>2, <1>9 DEF Grants, CanReserve
<1>11. Held(item', Items, p) = Held(Before(k), Items, p) + seen[k].quantity
  <2>1. item'[k].hold = Reserve(seen[k])
    BY <1>4, <1>9
  <2>2. Before(k)[k].hold = Release(item[k].hold)
    <3>1. k \notin {j \in G : j < k}
        BY <1>9, ProcurementAssumption
    <3>. QED
        BY <1>2, <1>3, <1>9, <3>1 DEF WithGrants, Line
  <2>3. ASSUME NEW j \in Items \ {k}
        PROVE  \/ item'[j].hold = Before(k)[j].hold
               \/ /\ ~(item'[j].hold.state = "ACTIVE" /\ item'[j].hold.product = p)
                  /\ ~(Before(k)[j].hold.state = "ACTIVE" /\ Before(k)[j].hold.product = p)
    <3>1. CASE j \in G /\ j < k
        BY <1>2, <1>3, <1>4, <3>1 DEF WithGrants, Line
    <3>2. CASE j \in G /\ ~(j < k)
      <4>1. k < j
        BY <1>2, <1>9, <3>2, ProcurementAssumption
      <4>2. seen[j].product # p
        BY <1>8, <4>1, <3>2
      <4>3. Before(k)[j].hold = Release(item[j].hold)
        BY <1>2, <1>3, <3>2 DEF WithGrants, Line
      <4>4. item'[j].hold = Reserve(seen[j])
        BY <1>4, <3>2
      <4>. QED
        BY <4>2, <4>3, <4>4 DEF Reserve, Release, Released
    <3>3. CASE j \in DOMAIN seen /\ j \notin G
        BY <1>2, <1>3, <1>5, <3>3 DEF WithGrants, Line
    <3>4. CASE j \notin DOMAIN seen
        BY <1>2, <1>6, <3>4 DEF WithGrants
    <3>. QED
        BY <3>1, <3>2, <3>3, <3>4
  <2>4. /\ item'[k].hold.state = "ACTIVE" /\ item'[k].hold.product = p
        /\ item'[k].hold.quantity = seen[k].quantity
    BY <2>1, <1>9 DEF Reserve
  <2>5. ~(Before(k)[k].hold.state = "ACTIVE" /\ Before(k)[k].hold.product = p)
    BY <2>2 DEF Release, Released
  <2>6. \A j \in Items \ {k} :
              /\ (item'[j].hold.state = "ACTIVE" /\ item'[j].hold.product = p)
                    <=> (Before(k)[j].hold.state = "ACTIVE" /\ Before(k)[j].hold.product = p)
              /\ (item'[j].hold.state = "ACTIVE" /\ item'[j].hold.product = p)
                    => item'[j].hold.quantity = Before(k)[j].hold.quantity
    BY <2>3
  <2>. HIDE DEF Before
  <2>. QED
    BY <1>9, <2>4, <2>5, <2>6, HeldAdds
<1>. QED
    BY <1>10, <1>11

\* A manual IN_STOCK decision is checked against all other reservations.
LEMMA SetInStockStaysBelow ==
    ASSUME TypeOK, NEW i \in Items, NEW line \in Line, SetInStock(i, line), NEW p \in Products,
           line.product = p
    PROVE  Held(item', Items, p) <= stock[p]
<1>. DEFINE others == [item EXCEPT ![i].hold = Released]
<1>1. \A j \in Items : item[j] \in Line
    BY DEF TypeOK
<1>2. Held(others, Items, p) + line.quantity <= stock[p]
    BY DEF SetInStock, CanReserve
<1>3. item'[i].hold = Reserve(line) /\ others[i].hold = Released
    BY <1>1 DEF SetInStock, TypeOK, Line
<1>4. \A j \in Items \ {i} : item'[j].hold = others[j].hold
    BY DEF SetInStock, TypeOK
<1>5. /\ item'[i].hold.state = "ACTIVE" /\ item'[i].hold.product = p
      /\ item'[i].hold.quantity = line.quantity
      /\ line.quantity \in Quantity
    BY <1>3, LineType DEF Reserve
<1>6. others[i].hold.state # "ACTIVE"
    BY <1>3 DEF Released
<1>7. Held(item', Items, p) = Held(others, Items, p) + line.quantity
  <2>. HIDE DEF others
  <2>. QED
    BY <1>4, <1>5, <1>6, HeldAdds
<1>. QED
    BY <1>2, <1>7

LEMMA NoOversellHolds == TypeOK /\ [Next]_vars => NoOversellStep
<1>. SUFFICES ASSUME TypeOK, [Next]_vars,
                     NEW i \in Items, NEW p \in Products,
                     item'[i].hold # item[i].hold,
                     item'[i].hold.state = "ACTIVE", item'[i].hold.product = p
              PROVE  Reserved(p)' <= stock'[p]
    BY DEF NoOversellStep
<1>. DEFINE Holds == \A j \in Items :
                item'[j].hold = item[j].hold \/ item'[j].hold = Released \/ item'[j].hold = Consumed
<1>1. \A hold : Release(hold) = hold \/ Release(hold) = Released
    BY DEF Release
<1>2. ~Holds
    BY DEF Released, Consumed
<1>3. ASSUME NEW r \in Process, AssessCommit(r) PROVE Reserved(p)' <= stock'[p]
    BY <1>3, AssessStaysBelow DEF Reserved, AssessCommit
<1>4. ASSUME NEW m \in Managers, SetItemCommit(m) PROVE Reserved(p)' <= stock'[p]
  <2>. DEFINE seen == job[m].seen
              target == job[m].target
  <2>1. DOMAIN seen \subseteq Items /\ \A j \in DOMAIN seen : seen[j] \in Line
    BY SeenType DEF Process
  <2>2. PICK j \in DOMAIN seen :
        CASE target = "IN_STOCK" -> SetInStock(j, seen[j])
          [] target \in {"TO_ORDER", "UNAVAILABLE"} -> SetNotInStock(j, seen[j], target)
          [] OTHER -> item' = [item EXCEPT ![j].status = target]
    BY <1>4 DEF SetItemCommit
  <2>3. SetInStock(j, seen[j])
    <3>1. CASE target \in {"TO_ORDER", "UNAVAILABLE"}
        BY <1>1, <1>2, <2>1, <2>2, <3>1 DEF SetNotInStock, TypeOK, Line
    <3>2. CASE target \notin {"IN_STOCK", "TO_ORDER", "UNAVAILABLE"}
        BY <1>2, <2>1, <2>2, <3>2 DEF TypeOK, Line
    <3>. QED
        BY <2>2, <3>1, <3>2
  <2>4. seen[j].product = p
    <3>1. i = j
        BY <2>1, <2>3 DEF SetInStock, TypeOK
    <3>2. item'[i].hold = Reserve(seen[j])
        BY <2>1, <2>3, <3>1 DEF SetInStock, TypeOK, Line
    <3>. QED
        BY <3>2 DEF Reserve
  <2>. QED
    BY <1>4, <2>1, <2>3, <2>4, SetInStockStaysBelow DEF Reserved, SetItemCommit
<1>5. ASSUME NEW m \in Managers, ReleaseOrderReservations(m) PROVE Holds
    BY <1>1, <1>5 DEF ReleaseOrderReservations, TypeOK, Line
<1>6. ASSUME NEW m \in Managers, CorrectCommit(m) PROVE Holds
  <2>1. \A j \in Items : item'[j].hold = item[j].hold \/ item'[j].hold = Release(item[j].hold)
    BY <1>6 DEF CorrectCommit
  <2>. QED
    BY <1>1, <2>1
<1>7. ASSUME NEW m \in Managers, HandOffCommit(m) PROVE Holds
    BY <1>7 DEF HandOffCommit, TypeOK, Line
<1>8. ASSUME NEW m \in Managers, NEW o \in Orders, QueueSupplierOrder(m, o) PROVE Holds
    BY <1>8 DEF QueueSupplierOrder, TypeOK, Line
<1>9. ASSUME NEW o \in Orders, NEW outcome \in {"ORDERED", "TO_ORDER"}, SettleDelivery(o, outcome)
      PROVE  Holds
    BY <1>9 DEF SettleDelivery, TypeOK, Line
<1>10. CASE UNCHANGED item
    BY <1>2, <1>10
<1>. QED
    BY <1>2, <1>3, <1>4, <1>5, <1>6, <1>7, <1>8, <1>9, <1>10
    DEF Next, ManagerStep, ProcessStep, vars, ApproveRead, ApproveTransition, Backfill, AssessRead,
        CancelTransition, CorrectRead, SetItemRead, HandOffRead, ShipmentRead, ShipmentCommit, ImportProduct, Abort

-----------------------------------------------------------------------------
(* One request at a time                                                    *)

\* What races between requests can break, and the violation runs show broken,
\* is shown for requests that do not overlap.  They still die between any two
\* of their transactions, and the Telegram worker settles deliveries meanwhile.
OneAtATime == \A r, s \in Process : (Duty[r] # {} /\ Duty[s] # {}) => r = s

NoImports == \A r \in Process : "import" \notin Duty[r]

\* Only who has a duty works.
IdleWithoutDuty == \A r \in Process : Duty[r] = {} => job[r].phase = "idle"

\* What a decision or a hand-off has read is still so.
SeenIsCurrent ==
    \A r \in Process : job[r].phase \in {"setItem", "handOff"} =>
        \A i \in DOMAIN job[r].seen : item[i] = job[r].seen[i]

TargetIsAllowed ==
    \A r \in Process : job[r].phase = "setItem" =>
        \A i \in DOMAIN job[r].seen :
            /\ item[i].status # "SENDING"
            /\ job[r].target = item[i].status \/ job[r].target \in allowedTransitions[item[i].status]

HandOffIsReady ==
    \A r \in Process : job[r].phase = "handOff" =>
        /\ DOMAIN job[r].seen = ItemsOf(job[r].order)
        /\ procurementSummaryFor(StatusesOf(job[r].order), FALSE) = "READY"

SerialInv ==
    /\ IdleWithoutDuty
    /\ SeenIsCurrent
    /\ TargetIsAllowed
    /\ HandOffIsReady

\* The process that works, and the job it then has.
LEMMA Alone ==
    ASSUME TypeOK, OneAtATime, IdleWithoutDuty, NEW r \in Process,
           Duty[r] # {} \/ job[r].phase # "idle",
           \A s \in Process : s # r => job'[s] = job[s]
    PROVE  /\ \A s \in Process : s # r => Duty[s] = {} /\ job[s].phase = "idle" /\ job'[s].phase = "idle"
           /\ IdleWithoutDuty'
<1>1. Duty[r] # {}
    BY DEF IdleWithoutDuty
<1>2. \A s \in Process : s # r => Duty[s] = {}
    BY <1>1 DEF OneAtATime
<1>3. \A s \in Process : s # r => job[s].phase = "idle"
    BY <1>2 DEF IdleWithoutDuty
<1>. QED
    BY <1>1, <1>2, <1>3 DEF IdleWithoutDuty

\* A job that rests on nothing it has read.
LEMMA QuietJob ==
    ASSUME TypeOK, OneAtATime, SerialInv, NEW r \in Process,
           Duty[r] # {} \/ job[r].phase # "idle",
           \A s \in Process : s # r => job'[s] = job[s],
           job'[r].phase \notin {"setItem", "handOff"}
    PROVE  SerialInv'
<1>1. /\ \A s \in Process : s # r => job'[s].phase = "idle"
      /\ IdleWithoutDuty'
    BY Alone DEF SerialInv
<1>2. \A s \in Process : job'[s].phase \notin {"setItem", "handOff"}
    BY <1>1
<1>. QED
    BY <1>1, <1>2 DEF SerialInv, SeenIsCurrent, TargetIsAllowed, HandOffIsReady

LEMMA ReadyStatuses ==
    ASSUME NEW statuses, procurementSummaryFor(statuses, FALSE) = "READY"
    PROVE  statuses \subseteq Ready
BY DEF procurementSummaryFor

LEMMA NothingFromSending ==
    ASSUME NEW target \in ManualTarget,
           target = "SENDING" \/ target \in allowedTransitions["SENDING"]
    PROVE  FALSE
BY DEF ManualTarget, allowedTransitions, ProcurementStatus

LEMMA FinishWrites ==
    ASSUME TypeOK, NEW r \in Process, Finish(r)
    PROVE  job'[r].phase = "idle" /\ \A s \in Process : s # r => job'[s] = job[s]
BY DEF TypeOK, Finish, Idle

\* The end of a delivery moves SENDING items only, and nobody has read those.
LEMMA SettleKeepsSerial ==
    ASSUME TypeOK, JobsOfOneOrder, SerialInv,
           NEW o \in Orders, NEW outcome \in {"ORDERED", "TO_ORDER"}, SettleDelivery(o, outcome)
    PROVE  SerialInv'
<1>1. \A i \in Items : item[i].status # "SENDING" => item'[i] = item[i]
    BY DEF SettleDelivery
<1>2. UNCHANGED job
    BY DEF SettleDelivery
<1>3. IdleWithoutDuty'
    BY <1>2 DEF SerialInv, IdleWithoutDuty
<1>4. ASSUME NEW r \in Process, job[r].phase = "handOff"
      PROVE  \A i \in ItemsOf(job[r].order) : item'[i] = item[i]
  <2>1. StatusesOf(job[r].order) \subseteq Ready
    BY <1>4, ReadyStatuses DEF SerialInv, HandOffIsReady
  <2>2. \A i \in ItemsOf(job[r].order) : i \in Items /\ item[i].status \in Ready
    BY <2>1 DEF StatusesOf, ItemsOf
  <2>. QED
    BY <1>1, <2>2 DEF Ready
<1>5. ASSUME NEW r \in Process, job[r].phase = "setItem", NEW i \in DOMAIN job[r].seen
      PROVE  item'[i] = item[i]
  <2>1. i \in Items
    BY SeenType
  <2>. QED
    BY <1>1, <1>5, <2>1 DEF SerialInv, TargetIsAllowed
<1>6. SeenIsCurrent'
  <2>1. ASSUME NEW r \in Process, job[r].phase \in {"setItem", "handOff"}, NEW i \in DOMAIN job[r].seen
        PROVE  item'[i] = job[r].seen[i]
    <3>1. item[i] = job[r].seen[i]
        BY <2>1 DEF SerialInv, SeenIsCurrent
    <3>2. item'[i] = item[i]
        BY <1>4, <1>5, <2>1 DEF SerialInv, HandOffIsReady
    <3>. QED
        BY <3>1, <3>2
  <2>. QED
    BY <1>2, <2>1 DEF SeenIsCurrent
<1>7. TargetIsAllowed'
  <2>1. ASSUME NEW r \in Process, job[r].phase = "setItem", NEW i \in DOMAIN job[r].seen
        PROVE  /\ item'[i].status # "SENDING"
               /\ job[r].target = item'[i].status \/ job[r].target \in allowedTransitions[item'[i].status]
    BY <1>5, <2>1 DEF SerialInv, TargetIsAllowed
  <2>. QED
    BY <1>2, <2>1 DEF TargetIsAllowed
<1>8. HandOffIsReady'
  <2>1. ASSUME NEW r \in Process, job[r].phase = "handOff"
        PROVE  StatusesOf(job[r].order)' = StatusesOf(job[r].order)
    BY <1>2, <1>4, <2>1 DEF StatusesOf, ItemsOf
  <2>. QED
    BY <1>2, <2>1 DEF SerialInv, HandOffIsReady, ItemsOf
<1>. QED
    BY <1>3, <1>6, <1>7, <1>8 DEF SerialInv

LEMMA SerialStep ==
    ASSUME OneAtATime, TypeOK, JobsOfOneOrder, SerialInv, [Next]_vars
    PROVE  SerialInv'
<1>. USE DEF Process
<1>1. ASSUME NEW r \in Process, Finish(r), job[r].phase # "idle" PROVE SerialInv'
  <2>1. job'[r].phase = "idle" /\ \A s \in Process : s # r => job'[s] = job[s]
    BY <1>1, FinishWrites
  <2>. QED
    BY <1>1, <2>1, QuietJob
<1>2. ASSUME NEW r \in Process, NEW phase \in {"approve", "assess", "assessing", "release", "correct", "ship"}, NEW o, NEW seen,
             Begin(r, phase, o, seen), Duty[r] # {} \/ job[r].phase # "idle"
      PROVE  SerialInv'
  <2>1. job'[r].phase = phase /\ \A s \in Process : s # r => job'[s] = job[s]
    BY <1>2 DEF Begin, Become, TypeOK
  <2>. QED
    BY <1>2, <2>1, QuietJob
<1>3. ASSUME NEW r \in Process, NEW request, Takes(r, request), UNCHANGED job PROVE SerialInv'
  <2>1. job'[r].phase = "idle" /\ Duty[r] # {}
    BY <1>3 DEF Takes
  <2>. QED
    BY <1>3, <2>1, QuietJob
<1>4. ASSUME NEW m \in Managers, NEW o \in Orders,
             ApproveRead(m, o) \/ CancelTransition(m, o) \/ CorrectRead(m, o) \/ ShipmentRead(m, o)
      PROVE  SerialInv'
    BY <1>2, <1>4 DEF ApproveRead, CancelTransition, CorrectRead, ShipmentRead, Takes
<1>5. ASSUME NEW m \in Managers, ApproveTransition(m) PROVE SerialInv'
    BY <1>2, <1>5 DEF ApproveTransition
<1>6. ASSUME NEW o \in Orders, Backfill(o) PROVE SerialInv'
    BY <1>2, <1>6 DEF Backfill, Takes
<1>7. ASSUME NEW r \in Process, AssessRead(r) PROVE SerialInv'
  <2>. DEFINE o == job[r].order
              read == [i \in ItemsOf(o) |-> [item[i] EXCEPT !.status = "UNASSESSED", !.hold = Released]]
  <2>1. job[r].phase = "assess"
    BY <1>7, Zenon DEF AssessRead
  <2>2. CASE Finish(r)
    BY <1>1, <2>1, <2>2
  <2>3. CASE Begin(r, "assessing", o, read)
    <3>. HIDE DEF read
    <3>. QED
        BY <1>2, <2>1, <2>3
  <2>. QED
    BY <1>7, <2>2, <2>3, Zenon DEF AssessRead
<1>8. ASSUME NEW r \in Process, AssessCommit(r) \/ Abort(r) PROVE SerialInv'
    BY <1>1, <1>8 DEF AssessCommit, Abort
<1>9. ASSUME NEW m \in Managers,
             \/ ReleaseOrderReservations(m) \/ CorrectCommit(m) \/ SetItemCommit(m)
             \/ HandOffCommit(m) \/ ShipmentCommit(m)
      PROVE  SerialInv'
    BY <1>1, <1>9 DEF ReleaseOrderReservations, CorrectCommit, SetItemCommit, HandOffCommit, ShipmentCommit
<1>11. ASSUME NEW m \in Managers, NEW i \in Items, NEW target \in ManualTarget, SetItemRead(m, i, target)
       PROVE  SerialInv'
  <2>1. /\ job'[m].phase = "setItem" /\ job'[m].target = target /\ job'[m].seen = Snapshot({i})
        /\ \A s \in Process : s # m => job'[s] = job[s]
        /\ item' = item
    BY <1>11 DEF SetItemRead, Become, TypeOK
  <2>2. /\ \A s \in Process : s # m => job'[s].phase = "idle"
        /\ IdleWithoutDuty'
    BY <1>11, <2>1, Alone DEF SetItemRead, Takes, SerialInv
  <2>3. DOMAIN Snapshot({i}) = {i} /\ Snapshot({i})[i] = item[i]
    BY DEF Snapshot
  <2>4. target = item[i].status \/ target \in allowedTransitions[item[i].status]
    BY <1>11 DEF SetItemRead
  <2>5. item[i].status # "SENDING"
    BY <2>4, NothingFromSending
  <2>6. SeenIsCurrent'
    BY <2>1, <2>2, <2>3 DEF SeenIsCurrent
  <2>7. TargetIsAllowed'
    BY <2>1, <2>2, <2>3, <2>4, <2>5 DEF TargetIsAllowed
  <2>8. HandOffIsReady'
    BY <2>1, <2>2 DEF HandOffIsReady
  <2>. QED
    BY <2>2, <2>6, <2>7, <2>8 DEF SerialInv
<1>12. ASSUME NEW m \in Managers, NEW o \in Orders, HandOffRead(m, o) PROVE SerialInv'
  <2>1. /\ job'[m].phase = "handOff" /\ job'[m].order = o /\ job'[m].seen = Snapshot(ItemsOf(o))
        /\ \A s \in Process : s # m => job'[s] = job[s]
        /\ item' = item
    BY <1>12 DEF HandOffRead, Begin, Become, TypeOK
  <2>2. /\ \A s \in Process : s # m => job'[s].phase = "idle"
        /\ IdleWithoutDuty'
    BY <1>12, <2>1, Alone DEF HandOffRead, Takes, SerialInv
  <2>3. DOMAIN Snapshot(ItemsOf(o)) = ItemsOf(o) /\ \A i \in ItemsOf(o) : Snapshot(ItemsOf(o))[i] = item[i]
    BY DEF Snapshot
  <2>4. procurementSummaryFor(StatusesOf(o)', FALSE) = "READY"
    BY <1>12, <2>1 DEF HandOffRead, StatusesOf, ItemsOf
  <2>5. SeenIsCurrent'
    BY <2>1, <2>2, <2>3 DEF SeenIsCurrent
  <2>6. HandOffIsReady'
    BY <2>1, <2>2, <2>3, <2>4 DEF HandOffIsReady, ItemsOf
  <2>7. TargetIsAllowed'
    BY <2>1, <2>2 DEF TargetIsAllowed
  <2>. QED
    BY <2>2, <2>5, <2>6, <2>7 DEF SerialInv
<1>13. ASSUME NEW m \in Managers, NEW o \in Orders, QueueSupplierOrder(m, o) PROVE SerialInv'
    BY <1>3, <1>13 DEF QueueSupplierOrder
<1>14. ASSUME NEW m \in Managers, NEW p \in Products, ImportProduct(m, p) PROVE SerialInv'
    BY <1>3, <1>14 DEF ImportProduct
<1>15. ASSUME NEW o \in Orders, NEW outcome \in {"ORDERED", "TO_ORDER"}, SettleDelivery(o, outcome)
       PROVE  SerialInv'
    BY <1>15, SettleKeepsSerial
<1>16. CASE UNCHANGED vars
  <2>1. item' = item /\ job' = job
    BY <1>16 DEF vars
  <2>2. IdleWithoutDuty' /\ SeenIsCurrent' /\ TargetIsAllowed'
    BY <2>1 DEF SerialInv, IdleWithoutDuty, SeenIsCurrent, TargetIsAllowed
  <2>3. HandOffIsReady'
    BY <2>1 DEF SerialInv, HandOffIsReady, StatusesOf, ItemsOf
  <2>. QED
    BY <2>2, <2>3 DEF SerialInv
<1>17. ASSUME NEW m \in Managers, ManagerStep(m) PROVE SerialInv'
  <2>1. CASE \E o \in Orders : ApproveRead(m, o) \/ CancelTransition(m, o) \/ CorrectRead(m, o) \/ ShipmentRead(m, o)
    BY <1>4, <2>1
  <2>2. CASE \E o \in Orders : HandOffRead(m, o) \/ QueueSupplierOrder(m, o)
    BY <1>12, <1>13, <2>2
  <2>3. CASE \E i \in Items, target \in ManualTarget : SetItemRead(m, i, target)
    BY <1>11, <2>3
  <2>4. CASE \E p \in Products : ImportProduct(m, p)
    BY <1>14, <2>4
  <2>. QED
    BY <1>5, <1>9, <1>17, <2>1, <2>2, <2>3, <2>4 DEF ManagerStep
<1>18. ASSUME NEW r \in Process, ProcessStep(r) PROVE SerialInv'
    BY <1>7, <1>8, <1>18, Zenon DEF ProcessStep
<1>. QED
    BY <1>6, <1>15, <1>16, <1>17, <1>18, Zenon DEF Next

\* A reservation is made with the decision IN_STOCK, and every other decision
\* on the item drops it.
LEMMA ActiveStep ==
    ASSUME TypeOK, JobsOfOneOrder, SerialInv, ActiveIsInStock, [Next]_vars
    PROVE  ActiveIsInStock'
<1>. USE DEF Process
<1>. DEFINE Kept == \A i \in Items : item'[i].hold.state = "ACTIVE" =>
                        item'[i].hold = item[i].hold /\ item'[i].status = item[i].status
<1>1. Kept => ActiveIsInStock'
    BY DEF ActiveIsInStock
<1>2. \A hold : Release(hold).state # "ACTIVE"
    BY DEF Release, Released
<1>3. ASSUME NEW r \in Process, AssessCommit(r) PROVE ActiveIsInStock'
  <2>1. PICK G \in Grants(job[r].seen) :
            \A i \in Items :
                /\ i \notin DOMAIN job[r].seen => item'[i] = item[i]
                /\ i \in DOMAIN job[r].seen => item'[i].status = Decide(i, G)
                /\ item'[i].hold = WithGrants(job[r].seen, G)[i].hold
    BY <1>3, AssessEffect
  <2>2. ASSUME NEW i \in Items, i \in DOMAIN job[r].seen, i \notin G PROVE item'[i].hold.state # "ACTIVE"
    BY <1>2, <2>1, <2>2 DEF WithGrants, TypeOK, Line
  <2>3. ASSUME NEW i \in Items, item'[i].hold.state = "ACTIVE" PROVE item'[i].status = "IN_STOCK"
    <3>1. CASE i \in DOMAIN job[r].seen
        BY <2>1, <2>2, <2>3, <3>1 DEF Decide
    <3>2. CASE i \notin DOMAIN job[r].seen
        BY <2>1, <2>3, <3>2 DEF ActiveIsInStock
    <3>. QED
        BY <3>1, <3>2
  <2>. QED
    BY <2>3 DEF ActiveIsInStock
<1>4. ASSUME NEW m \in Managers, ReleaseOrderReservations(m) PROVE Kept
    BY <1>2, <1>4 DEF ReleaseOrderReservations, TypeOK, Line
<1>5. ASSUME NEW m \in Managers, CorrectCommit(m) PROVE Kept
  <2>1. \A i \in Items : item'[i] = item[i] \/ item'[i].hold = Release(item[i].hold)
    BY <1>5 DEF CorrectCommit
  <2>. QED
    BY <1>2, <2>1
<1>6. ASSUME NEW m \in Managers, SetItemCommit(m) PROVE ActiveIsInStock'
  <2>. DEFINE seen == job[m].seen
              target == job[m].target
  <2>1. DOMAIN seen \subseteq Items /\ job[m].phase = "setItem" /\ target \in ManualTarget \cup {"UNASSESSED"}
    BY <1>6, SeenType DEF SetItemCommit
  <2>2. PICK i \in DOMAIN seen :
        CASE target = "IN_STOCK" -> SetInStock(i, seen[i])
          [] target \in {"TO_ORDER", "UNAVAILABLE"} -> SetNotInStock(i, seen[i], target)
          [] OTHER -> item' = [item EXCEPT ![i].status = target]
    BY <1>6 DEF SetItemCommit
  <2>3. i \in Items /\ item[i] \in Line /\ seen[i] = item[i]
    BY <2>1, <2>2 DEF SerialInv, SeenIsCurrent, TypeOK
  <2>4. \A j \in Items : j # i => item'[j] = item[j]
    BY <2>1, <2>2 DEF SetInStock, SetNotInStock, TypeOK
  <2>5. item'[i].hold.state = "ACTIVE" => item'[i].status = "IN_STOCK"
    <3>1. CASE target = "IN_STOCK"
        BY <2>2, <2>3, <3>1 DEF SetInStock, TypeOK, Line
    <3>2. CASE target \in {"TO_ORDER", "UNAVAILABLE"}
      <4>1. item' = [item EXCEPT ![i].status = target,
                                 ![i].hold = IF item[i].hold.state = "ACTIVE" THEN Release(@) ELSE @]
        BY <2>2, <2>3, <3>2 DEF SetNotInStock
      <4>. QED
        BY <1>2, <2>3, <4>1 DEF TypeOK, Line
    <3>3. CASE target \notin {"IN_STOCK", "TO_ORDER", "UNAVAILABLE"}
      <4>1. item'[i].hold = item[i].hold
        BY <2>2, <2>3, <3>3 DEF TypeOK, Line
      <4>2. target = item[i].status \/ target \in allowedTransitions[item[i].status]
        BY <2>1 DEF SerialInv, TargetIsAllowed
      <4>3. allowedTransitions["IN_STOCK"] = {"TO_ORDER", "UNAVAILABLE"}
        BY DEF allowedTransitions, ProcurementStatus
      <4>4. item[i].status # "IN_STOCK"
        BY <3>3, <4>2, <4>3
      <4>. QED
        BY <2>3, <4>1, <4>4 DEF ActiveIsInStock
    <3>. QED
        BY <3>1, <3>2, <3>3
  <2>. QED
    BY <2>4, <2>5 DEF ActiveIsInStock
<1>7. ASSUME NEW m \in Managers, HandOffCommit(m) PROVE Kept
    BY <1>7 DEF HandOffCommit, TypeOK, Line, Consumed
<1>8. ASSUME NEW m \in Managers, NEW o \in Orders, QueueSupplierOrder(m, o) PROVE Kept
  <2>1. \A i \in Items : /\ item'[i].hold = item[i].hold
                         /\ item'[i].status = item[i].status \/ item[i].status = "TO_ORDER"
    BY <1>8 DEF QueueSupplierOrder, TypeOK, Line
  <2>. QED
    BY <2>1 DEF ActiveIsInStock
<1>9. ASSUME NEW o \in Orders, NEW outcome \in {"ORDERED", "TO_ORDER"}, SettleDelivery(o, outcome)
      PROVE  Kept
  <2>1. \A i \in Items : /\ item'[i].hold = item[i].hold
                         /\ item'[i].status = item[i].status \/ item[i].status = "SENDING"
    BY <1>9 DEF SettleDelivery, TypeOK, Line
  <2>. QED
    BY <2>1 DEF ActiveIsInStock
<1>10. CASE UNCHANGED item
    BY <1>1, <1>10
<1>. QED
    BY <1>1, <1>3, <1>4, <1>5, <1>6, <1>7, <1>8, <1>9, <1>10
    DEF Next, ManagerStep, ProcessStep, vars, ApproveRead, ApproveTransition, Backfill, AssessRead,
        CancelTransition, CorrectRead, SetItemRead, HandOffRead, ShipmentRead, ShipmentCommit, ImportProduct, Abort

\* What is held of a product does not grow while no reservation of it changes.
LEMMA HeldShrinks ==
    ASSUME NEW S \in SUBSET Items, NEW p, NEW before, NEW after,
           \A j \in S : (after[j].hold.state = "ACTIVE" /\ after[j].hold.product = p)
                            => after[j].hold = before[j].hold
    PROVE  Held(after, S, p) <= Held(before, S, p)
<1>1. HeldUnits(after, S, p) \subseteq HeldUnits(before, S, p)
    BY DEF HeldUnits
<1>. QED
    BY <1>1, HeldType, FS_Subset DEF Held

\* A hand-off that has read what is still so uses up exactly what it takes
\* from the stock.
LEMMA HandOffTakes ==
    ASSUME TypeOK, SerialInv, NEW m \in Managers, HandOffCommit(m), NEW p \in Products
    PROVE  /\ Reserved(p) - Reserved(p)' = stock[p] - stock'[p]
           /\ Taken(job[m].seen, p) \in Nat /\ stock'[p] = stock[p] - Taken(job[m].seen, p)
<1>. DEFINE seen == job[m].seen
            taken == HeldUnits(seen, DOMAIN seen, p)
<1>1. DOMAIN seen \in SUBSET Items /\ \A i \in DOMAIN seen : seen[i] = item[i]
    BY SeenType DEF SerialInv, SeenIsCurrent, HandOffCommit, Process
<1>2. \A i \in Items : item'[i] = IF i \in DOMAIN seen /\ item[i].hold.state = "ACTIVE"
                                 THEN [item[i] EXCEPT !.hold = Consumed] ELSE item[i]
    BY <1>1 DEF HandOffCommit
<1>3. \A i \in Items : item'[i].hold = IF i \in DOMAIN seen /\ item[i].hold.state = "ACTIVE"
                                      THEN Consumed ELSE item[i].hold
    BY <1>2 DEF TypeOK, Line
<1>4. taken \subseteq HeldUnits(item, Items, p)
    BY <1>1 DEF HeldUnits
<1>5. HeldUnits(item', Items, p) = HeldUnits(item, Items, p) \ taken
  <2>1. ASSUME NEW i \in Items, NEW n \in Quantity
        PROVE  <<i, n>> \in HeldUnits(item', Items, p)
                    <=> <<i, n>> \in HeldUnits(item, Items, p) /\ <<i, n>> \notin taken
    BY <1>1, <1>3 DEF HeldUnits, Consumed
  <2>2. HeldUnits(item', Items, p) \subseteq Items \X Quantity /\ HeldUnits(item, Items, p) \subseteq Items \X Quantity
    BY DEF HeldUnits
  <2>. QED
    BY <2>1, <2>2
<1>6. IsFiniteSet(HeldUnits(item, Items, p)) /\ Cardinality(HeldUnits(item, Items, p)) \in Nat
    BY HeldType DEF Held
<1>7. IsFiniteSet(taken) /\ Cardinality(taken) \in Nat
    BY <1>1, HeldType DEF Held
<1>8. Cardinality(HeldUnits(item', Items, p)) = Cardinality(HeldUnits(item, Items, p)) - Cardinality(taken)
  <2>1. HeldUnits(item, Items, p) \cap taken = taken
    BY <1>4
  <2>. HIDE DEF taken
  <2>. QED
    BY <1>5, <1>6, <2>1, FS_Difference
<1>9. stock'[p] = stock[p] - Cardinality(taken)
    BY DEF HandOffCommit, Taken, Held
<1>10. Reserved(p)' = Cardinality(HeldUnits(item', Items, p)) /\ Reserved(p) = Cardinality(HeldUnits(item, Items, p))
    BY DEF Reserved, Held
<1>11. stock[p] \in Int
    BY DEF TypeOK
<1>. QED
    BY <1>6, <1>7, <1>8, <1>9, <1>10, <1>11 DEF Taken, Held

\* Apart from an import, only a hand-off changes the stock.
LEMMA StockStays ==
    ASSUME NoImports, [Next]_vars
    PROVE  stock' = stock \/ \E m \in Managers : HandOffCommit(m)
<1>1. ASSUME NEW m \in Managers, NEW p \in Products, ImportProduct(m, p) PROVE FALSE
    BY <1>1 DEF ImportProduct, Takes, NoImports, Process
<1>2. ASSUME NEW r \in Process, AssessRead(r) PROVE stock' = stock
    BY <1>2, Zenon DEF AssessRead
<1>. QED
    BY <1>1, <1>2 DEF Next, ManagerStep, ProcessStep, vars, ApproveRead, ApproveTransition, Backfill,
        AssessCommit, CancelTransition, CorrectRead, CorrectCommit, SetItemRead, SetItemCommit, HandOffRead,
        ReleaseOrderReservations, ShipmentRead, ShipmentCommit, QueueSupplierOrder, SettleDelivery, Abort

LEMMA CoversStep ==
    ASSUME NoImports, TypeOK, SerialInv, StockCoversReservations, [Next]_vars
    PROVE  StockCoversReservations'
<1>. SUFFICES ASSUME NEW p \in Products PROVE Reserved(p)' <= stock'[p]
    BY DEF StockCoversReservations
<1>1. Reserved(p) <= stock[p] /\ stock[p] \in Int /\ Reserved(p) \in Nat /\ Reserved(p)' \in Nat
    BY HeldType DEF StockCoversReservations, TypeOK, Reserved
<1>2. CASE \E m \in Managers : HandOffCommit(m)
  <2>1. PICK m \in Managers : HandOffCommit(m)
    BY <1>2
  <2>2. /\ Reserved(p) - Reserved(p)' = stock[p] - stock'[p]
        /\ stock'[p] \in Int
    BY <1>1, <2>1, HandOffTakes
  <2>. QED
    BY <1>1, <2>2
<1>3. CASE stock' = stock
  <2>1. CASE \E i \in Items : /\ item'[i].hold # item[i].hold
                              /\ item'[i].hold.state = "ACTIVE" /\ item'[i].hold.product = p
    BY <2>1, NoOversellHolds DEF NoOversellStep
  <2>2. CASE \A i \in Items : (item'[i].hold.state = "ACTIVE" /\ item'[i].hold.product = p)
                                  => item'[i].hold = item[i].hold
    <3>1. Held(item', Items, p) <= Held(item, Items, p)
        BY <2>2, HeldShrinks
    <3>. QED
        BY <1>1, <1>3, <3>1 DEF Reserved
  <2>. QED
    BY <2>1, <2>2
<1>. QED
    BY <1>2, <1>3, StockStays

\* The filter of the order list and the summary it shows, of an order that is
\* handed off or of any statuses of assessed items.
LEMMA SummaryIsListed ==
    ASSUME NEW statuses \in SUBSET ProcurementStatus, NEW isHandedOff \in BOOLEAN,
           isHandedOff \/ "UNASSESSED" \notin statuses,
           NEW s \in ProcurementSummary
    PROVE  procurementWhere(s, "APPROVED", statuses, isHandedOff)
               <=> s = procurementSummaryFor(statuses, isHandedOff)
<1>. DEFINE shown == procurementSummaryFor(statuses, isHandedOff)
            Listed(x) == procurementWhere(x, "APPROVED", statuses, isHandedOff)
\* The condition of each filter.
<1>1. Listed("HANDED_OFF") <=> isHandedOff
    BY DEF procurementWhere
<1>2. Listed("UNASSESSED") <=> ~isHandedOff /\ statuses = {}
    BY DEF procurementWhere
<1>3. Listed("BLOCKED") <=> ~isHandedOff /\ "UNAVAILABLE" \in statuses
    BY DEF procurementWhere
<1>4. Listed("SENDING") <=> ~isHandedOff /\ "SENDING" \in statuses /\ "UNAVAILABLE" \notin statuses
    BY DEF procurementWhere
<1>5. Listed("READY") <=> ~isHandedOff /\ statuses # {} /\ statuses \subseteq Ready
    BY DEF procurementWhere
<1>6. Listed("NEEDS_ORDER") <=> ~isHandedOff /\ statuses = {"TO_ORDER"}
    BY DEF procurementWhere
<1>7. Listed("AWAITING_SUPPLIER") <=> ~isHandedOff /\ statuses # {} /\ statuses \subseteq AwaitingSupplier
    BY DEF procurementWhere
<1>8. Listed("PARTIALLY_READY") <=>
            /\ ~isHandedOff
            /\ "UNAVAILABLE" \notin statuses /\ "SENDING" \notin statuses
            /\ \/ statuses \cap Ready # {} /\ statuses \cap ({"TO_ORDER"} \cup AwaitingSupplier) # {}
               \/ "TO_ORDER" \in statuses /\ statuses \cap AwaitingSupplier # {}
    BY DEF procurementWhere
\* The summary shown.
<1>9. isHandedOff => shown = "HANDED_OFF"
    BY DEF procurementSummaryFor
<1>10. ~isHandedOff /\ statuses = {} => shown = "UNASSESSED"
    BY DEF procurementSummaryFor
<1>11. ~isHandedOff /\ "UNAVAILABLE" \in statuses => shown = "BLOCKED"
    BY DEF procurementSummaryFor
<1>12. ~isHandedOff /\ "UNAVAILABLE" \notin statuses /\ "SENDING" \in statuses => shown = "SENDING"
    BY DEF procurementSummaryFor
<1>13. ASSUME ~isHandedOff, statuses # {}, "UNAVAILABLE" \notin statuses, "SENDING" \notin statuses
       PROVE  /\ statuses \subseteq Ready => shown = "READY"
              /\ statuses \cap Ready # {} /\ ~(statuses \subseteq Ready) => shown = "PARTIALLY_READY"
              /\ statuses \cap Ready = {} =>
                    /\ statuses = {"TO_ORDER"} => shown = "NEEDS_ORDER"
                    /\ "TO_ORDER" \notin statuses => shown = "AWAITING_SUPPLIER"
                    /\ statuses # {"TO_ORDER"} /\ "TO_ORDER" \in statuses => shown = "PARTIALLY_READY"
    BY <1>13 DEF procurementSummaryFor, Ready
\* The statuses that are left.
<1>14. ASSUME ~isHandedOff, "UNAVAILABLE" \notin statuses, "SENDING" \notin statuses
       PROVE  \A x \in statuses : x \in Ready \/ x = "TO_ORDER" \/ x \in AwaitingSupplier
    BY <1>14 DEF ProcurementStatus, Ready, AwaitingSupplier
<1>15. /\ \A x \in Ready : x \notin AwaitingSupplier /\ x # "TO_ORDER" /\ x # "UNAVAILABLE" /\ x # "SENDING"
       /\ \A x \in AwaitingSupplier : x # "TO_ORDER" /\ x # "UNAVAILABLE" /\ x # "SENDING"
    BY DEF Ready, AwaitingSupplier
<1>. HIDE DEF shown, Listed
<1>16. CASE isHandedOff
    BY <1>1, <1>2, <1>3, <1>4, <1>5, <1>6, <1>7, <1>8, <1>9, <1>16 DEF ProcurementSummary, Listed, shown
<1>17. CASE ~isHandedOff /\ statuses = {}
  <2>1. Listed(s) <=> s = "UNASSESSED"
    BY <1>1, <1>2, <1>3, <1>4, <1>5, <1>6, <1>7, <1>8, <1>17 DEF ProcurementSummary
  <2>. QED
    BY <1>10, <1>17, <2>1 DEF Listed, shown
<1>18. CASE ~isHandedOff /\ "UNAVAILABLE" \in statuses
  <2>1. Listed(s) <=> s = "BLOCKED"
    BY <1>1, <1>2, <1>3, <1>4, <1>5, <1>6, <1>7, <1>8, <1>15, <1>18 DEF ProcurementSummary
  <2>. QED
    BY <1>11, <1>18, <2>1 DEF Listed, shown
<1>19. CASE ~isHandedOff /\ "UNAVAILABLE" \notin statuses /\ "SENDING" \in statuses
  <2>1. Listed(s) <=> s = "SENDING"
    BY <1>1, <1>2, <1>3, <1>4, <1>5, <1>6, <1>7, <1>8, <1>15, <1>19 DEF ProcurementSummary
  <2>. QED
    BY <1>12, <1>19, <2>1 DEF Listed, shown
<1>20. CASE ~isHandedOff /\ statuses # {} /\ "UNAVAILABLE" \notin statuses /\ "SENDING" \notin statuses
  <2>1. CASE statuses \subseteq Ready
    <3>1. Listed(s) <=> s = "READY"
        BY <1>1, <1>2, <1>3, <1>4, <1>5, <1>6, <1>7, <1>8, <1>15, <1>20, <2>1 DEF ProcurementSummary
    <3>. QED
        BY <1>13, <1>20, <2>1, <3>1 DEF Listed, shown
  <2>2. CASE statuses \cap Ready # {} /\ ~(statuses \subseteq Ready)
    <3>1. Listed(s) <=> s = "PARTIALLY_READY"
        BY <1>1, <1>2, <1>3, <1>4, <1>5, <1>6, <1>7, <1>8, <1>14, <1>15, <1>20, <2>2 DEF ProcurementSummary
    <3>. QED
        BY <1>13, <1>20, <2>2, <3>1 DEF Listed, shown
  <2>3. CASE statuses = {"TO_ORDER"}
    <3>1. Listed(s) <=> s = "NEEDS_ORDER"
        BY <1>1, <1>2, <1>3, <1>4, <1>5, <1>6, <1>7, <1>8, <1>15, <1>20, <2>3 DEF ProcurementSummary
    <3>2. statuses \cap Ready = {}
        BY <1>15, <2>3
    <3>. QED
        BY <1>13, <1>20, <2>3, <3>1, <3>2 DEF Listed, shown
  <2>4. CASE statuses \cap Ready = {} /\ "TO_ORDER" \notin statuses
    <3>1. Listed(s) <=> s = "AWAITING_SUPPLIER"
        BY <1>1, <1>2, <1>3, <1>4, <1>5, <1>6, <1>7, <1>8, <1>14, <1>15, <1>20, <2>4 DEF ProcurementSummary
    <3>. QED
        BY <1>13, <1>20, <2>4, <3>1 DEF Listed, shown
  <2>5. CASE statuses \cap Ready = {} /\ "TO_ORDER" \in statuses /\ statuses # {"TO_ORDER"}
    <3>1. Listed(s) <=> s = "PARTIALLY_READY"
        BY <1>1, <1>2, <1>3, <1>4, <1>5, <1>6, <1>7, <1>8, <1>14, <1>15, <1>20, <2>5 DEF ProcurementSummary
    <3>. QED
        BY <1>13, <1>20, <2>5, <3>1 DEF Listed, shown
  <2>. QED
    BY <1>20, <2>1, <2>2, <2>3, <2>4, <2>5
<1>. QED
    BY <1>16, <1>17, <1>18, <1>19, <1>20

\* An order that is not approved is found by its hand-off only.
LEMMA UnapprovedIsFound ==
    ASSUME NEW status, status # "APPROVED", NEW statuses, NEW isHandedOff \in BOOLEAN
    PROVE  {s \in ProcurementSummary : procurementWhere(s, status, statuses, isHandedOff)} =
               IF isHandedOff THEN {"HANDED_OFF"} ELSE {"UNASSESSED"}
<1>1. ASSUME NEW s \in ProcurementSummary
      PROVE  procurementWhere(s, status, statuses, isHandedOff)
                 <=> s = IF isHandedOff THEN "HANDED_OFF" ELSE "UNASSESSED"
    BY DEF procurementWhere, ProcurementSummary
<1>. QED
    BY <1>1 DEF ProcurementSummary

\* An approved order with an unassessed item is found as UNASSESSED, and under
\* no other summary unless another item is unavailable or being sent.
LEMMA UnassessedIsFound ==
    ASSUME NEW statuses \in SUBSET ProcurementStatus, "UNASSESSED" \in statuses,
           NEW isHandedOff \in BOOLEAN, ~isHandedOff
    PROVE  {s \in ProcurementSummary : procurementWhere(s, "APPROVED", statuses, isHandedOff)} = {"UNASSESSED"}
               <=> statuses \cap {"UNAVAILABLE", "SENDING"} = {}
<1>. DEFINE Listed(s) == procurementWhere(s, "APPROVED", statuses, isHandedOff)
<1>1. Listed("UNASSESSED") /\ ~Listed("HANDED_OFF")
    BY DEF procurementWhere
<1>2. /\ ~Listed("READY") /\ ~Listed("NEEDS_ORDER")
      /\ ~Listed("AWAITING_SUPPLIER") /\ ~Listed("PARTIALLY_READY")
    BY DEF procurementWhere, Ready, AwaitingSupplier
<1>3. /\ Listed("BLOCKED") <=> "UNAVAILABLE" \in statuses
      /\ Listed("SENDING") <=> "SENDING" \in statuses /\ "UNAVAILABLE" \notin statuses
    BY DEF procurementWhere
<1>4. {s \in ProcurementSummary : Listed(s)} = {"UNASSESSED"} <=> ~Listed("BLOCKED") /\ ~Listed("SENDING")
  <2>. HIDE DEF Listed
  <2>. QED
    BY <1>1, <1>2 DEF ProcurementSummary
<1>5. ~Listed("BLOCKED") /\ ~Listed("SENDING") <=> statuses \cap {"UNAVAILABLE", "SENDING"} = {}
  <2>. HIDE DEF Listed
  <2>. QED
    BY <1>3
<1>. QED
    BY <1>4, <1>5

-----------------------------------------------------------------------------
(* Theorems                                                                 *)

\* The inductive invariant holds in every reachable state.
LEMMA Invariance == Spec => []IInv
<1>1. IInv /\ [Next]_vars => IInv'
    BY TypeStep, JobsStep, SendingStep DEF IInv
<1>. QED
    BY Initially, <1>1, PTL DEF Spec

\* The state of procurement keeps its shape: in particular no reservation is
\* active without a catalogue product and a quantity an order can ask for.
THEOREM TypeCorrect == Spec => []TypeOK
BY Invariance, PTL DEF IInv

\* However decisions, dispatches, corrections and the Telegram worker
\* interleave, an item in SENDING belongs to an unfinished delivery of its own
\* order, whose end moves it on (ProcurementStore.setItemStatus,
\* TelegramService.queueSupplierOrder, TelegramDeliveryService.finish).
THEOREM NothingStrandedInSending == Spec => []SendingIsDispatched
BY Invariance, PTL DEF IInv

\* ProcurementStore.assessApprovedOrder and setItemStatus never reserve more of
\* a product than there is, for any number of concurrent requests, although
\* both decide on an order and items they have not locked.
THEOREM ReservesNoMoreThanThereIs == Spec => NoOversell
<1>1. TypeOK /\ [Next]_vars => [NoOversellStep]_vars
    BY NoOversellHolds
<1>. QED
    BY TypeCorrect, <1>1, PTL DEF Spec, NoOversell

\* The filter of the order list and the summary the list shows are two
\* definitions of one classification (procurementWhere and
\* procurementSummaryFor).  They agree on every order, approved or not and with
\* every mix of statuses, but for two kinds, on which they always disagree: an
\* order reopened after its hand-off, and an approved one that has an
\* unassessed item beside an UNAVAILABLE or SENDING one.
THEOREM FiltersAgree == Spec => []ListedOnce
<1>1. TypeOK => ListedOnce
  <2>. SUFFICES ASSUME TypeOK, NEW o \in Orders
                PROVE  FoundUnder(o) = {Summary(o)} <=> ~(HandedOffAndReopened(o) \/ FoundTwice(o))
    BY DEF ListedOnce
  <2>1. /\ StatusesOf(o) \in SUBSET ProcurementStatus
        /\ ostatus[o] \in {"NEEDS_REVIEW", "APPROVED", "CANCELLED"}
        /\ handedOff[o] \in BOOLEAN
    BY DEF TypeOK, StatusesOf, ItemsOf, Line
  <2>2. CASE ostatus[o] # "APPROVED"
    <3>1. Summary(o) = "UNASSESSED"
        BY <2>2 DEF Summary
    <3>2. FoundUnder(o) = IF handedOff[o] THEN {"HANDED_OFF"} ELSE {"UNASSESSED"}
        BY <2>1, <2>2, UnapprovedIsFound DEF FoundUnder, ListedUnder
    <3>. QED
        BY <2>1, <2>2, <3>1, <3>2 DEF HandedOffAndReopened, FoundTwice
  <2>3. CASE ostatus[o] = "APPROVED"
    <3>1. Summary(o) = procurementSummaryFor(StatusesOf(o), handedOff[o])
        BY <2>3 DEF Summary
    <3>2. FoundUnder(o) = {s \in ProcurementSummary : procurementWhere(s, "APPROVED", StatusesOf(o), handedOff[o])}
        BY <2>3 DEF FoundUnder, ListedUnder
    <3>3. CASE handedOff[o] \/ "UNASSESSED" \notin StatusesOf(o)
      <4>1. \A s \in ProcurementSummary :
                procurementWhere(s, "APPROVED", StatusesOf(o), handedOff[o]) <=> s = Summary(o)
        BY <2>1, <3>1, <3>3, SummaryIsListed
      <4>2. FoundUnder(o) = {Summary(o)}
        BY <3>1, <3>2, <4>1, SummaryType
      <4>. QED
        BY <2>3, <3>3, <4>2 DEF HandedOffAndReopened, FoundTwice
    <3>4. CASE ~handedOff[o] /\ "UNASSESSED" \in StatusesOf(o)
      <4>1. Summary(o) = "UNASSESSED"
        BY <3>1, <3>4 DEF procurementSummaryFor
      <4>2. FoundUnder(o) = {"UNASSESSED"} <=> StatusesOf(o) \cap {"UNAVAILABLE", "SENDING"} = {}
        BY <2>1, <3>2, <3>4, UnassessedIsFound
      <4>. QED
        BY <2>3, <3>4, <4>1, <4>2 DEF HandedOffAndReopened, FoundTwice
    <3>. QED
        BY <3>3, <3>4, <2>1
  <2>. QED
    BY <2>2, <2>3
<1>. QED
    BY TypeCorrect, <1>1, PTL

\* Without overlapping requests the facts the requests rely on hold throughout.
LEMMA SerialInitially == Init => SerialInv /\ ActiveIsInStock /\ StockCoversReservations
<1>. SUFFICES ASSUME Init PROVE SerialInv /\ ActiveIsInStock /\ StockCoversReservations
    OBVIOUS
<1>1. SerialInv
    BY DEF Init, SerialInv, IdleWithoutDuty, SeenIsCurrent, TargetIsAllowed, HandOffIsReady, Idle, Process
<1>2. \A i \in Items : item[i].hold.state # "ACTIVE"
    BY DEF Init, Released
<1>3. ASSUME NEW p \in Products PROVE Reserved(p) <= stock[p]
  <2>1. HeldUnits(item, Items, p) = {}
    BY <1>2 DEF HeldUnits
  <2>. QED
    BY <2>1, FS_EmptySet DEF Init, Reserved, Held
<1>. QED
    BY <1>1, <1>2, <1>3 DEF ActiveIsInStock, StockCoversReservations

LEMMA SerialInvariance ==
    ASSUME OneAtATime
    PROVE  Spec => [](IInv /\ SerialInv /\ ActiveIsInStock)
<1>1. IInv /\ SerialInv /\ ActiveIsInStock /\ [Next]_vars => SerialInv' /\ ActiveIsInStock'
    BY SerialStep, ActiveStep DEF IInv
<1>. QED
    BY Invariance, SerialInitially, <1>1, PTL DEF Spec

\* As long as requests do not overlap, only an item decided IN_STOCK holds
\* stock, however assessments, decisions, corrections and the end of supplier
\* deliveries follow each other and wherever a request dies
\* (ProcurementStore.setItemStatus, OrderStore.correct,
\* TelegramDeliveryService.finish).
THEOREM SerialReservesInStock ==
    ASSUME OneAtATime
    PROVE  Spec => []ActiveIsInStock
BY SerialInvariance, PTL

\* ... and, while no import counts the stock anew, what is reserved is there.
THEOREM SerialStockCoversReservations ==
    ASSUME OneAtATime, NoImports
    PROVE  Spec => []StockCoversReservations
<1>1. TypeOK /\ SerialInv /\ StockCoversReservations /\ [Next]_vars => StockCoversReservations'
    BY CoversStep
<1>. QED
    BY SerialInvariance, SerialInitially, <1>1, PTL DEF Spec, IInv

\* ... and every unit that leaves the stock of a product is one that was
\* reserved and is so no more: a hand-off takes it once.
THEOREM SerialStockFallsByConsumption ==
    ASSUME OneAtATime, NoImports
    PROVE  Spec => StockFallsByConsumption
<1>1. ASSUME TypeOK, SerialInv, [Next]_vars, NEW p \in Products, stock'[p] # stock[p]
      PROVE  FallsByConsumption(p)
  <2>1. PICK m \in Managers : HandOffCommit(m)
    BY <1>1, StockStays
  <2>. QED
    BY <1>1, <2>1, HandOffTakes DEF FallsByConsumption
<1>2. TypeOK /\ SerialInv /\ [Next]_vars => [\A p \in Products : stock'[p] # stock[p] => FallsByConsumption(p)]_vars
    BY <1>1
<1>. QED
    BY SerialInvariance, <1>2, PTL DEF Spec, StockFallsByConsumption, IInv
=============================================================================
