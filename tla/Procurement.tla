---------------------------- MODULE Procurement ----------------------------
(***************************************************************************)
(* Procurement of approved orders: packages/database/src/procurement-store *)
(* and the handlers of apps/api OrdersService and TelegramService and of   *)
(* apps/worker ProcurementBackfillReconciler that call it.                 *)
(*                                                                         *)
(* PostgreSQL runs every transaction of these handlers at READ COMMITTED.  *)
(* A handler is cut into one action per transaction, and a transaction     *)
(* into two actions where it decides on rows it has read without locking   *)
(* them: the first takes the snapshot, the second locks the product rows   *)
(* (FOR UPDATE), reads what is read under that lock and commits.  Between  *)
(* two actions of a process every other process may run, and the process   *)
(* itself may die or throw (Abort).                                        *)
(*                                                                         *)
(* Data is abstracted as follows.  APPROVED stands for APPROVED and        *)
(* AUTO_APPROVED, which procurement never tells apart.  A product that has *)
(* no known stock is not "active": neither can be reserved.  An item with  *)
(* no reservation row is RELEASED: the upsert makes the two alike.         *)
(***************************************************************************)
EXTENDS Integers, FiniteSets

CONSTANTS
    Products, NoProduct,      \* catalogue rows; an item's catalogId may be NULL
    Orders, NoOrder,
    Items,                    \* order item ids, in the order the code sorts them
    OrderOf,                  \* the order an item belongs to
    MaxQuantity, MaxStock,    \* bounds on the quantities and on imported stock
    Managers,                 \* concurrent API requests
    Worker,                   \* the timer of the procurement backfill
    Duty                      \* the requests each process is given: a bound

Request == {"approve", "cancel", "correct", "setItem", "handOff", "dispatch", "ship", "import", "backfill"}

ASSUME ProcurementAssumption ==
    /\ Items \subseteq Nat /\ IsFiniteSet(Items)
    /\ OrderOf \in [Items -> Orders]
    /\ NoProduct \notin Products
    /\ NoOrder \notin Orders
    /\ MaxQuantity \in Nat \ {0}
    /\ MaxStock \in Nat
    /\ Worker \notin Managers
    /\ Duty \in [Managers \cup {Worker} -> SUBSET Request]

VARIABLES
    stock,        \* products.stock_quantity
    active,       \* products.active, with a known stock
    ostatus,      \* orders.status
    handedOff,    \* orders.procurement_handed_off_at IS NOT NULL
    sorted,       \* orders.sort_procurement, the key the order list sorts by
    item,         \* order_items joined with inventory_reservations
    delivery,     \* items of the order's unfinished supplier delivery
    dispatched,   \* the order has a supplier delivery or a shipment, finished or not
    job           \* the request or timer run each process is executing

vars == <<stock, active, ostatus, handedOff, sorted, item, delivery, dispatched, job>>

-----------------------------------------------------------------------------
ProcurementSummary == {"UNASSESSED", "READY", "PARTIALLY_READY", "NEEDS_ORDER",
                       "SENDING", "AWAITING_SUPPLIER", "BLOCKED", "HANDED_OFF"}

ProcurementStatus == {"UNASSESSED", "IN_STOCK", "TO_ORDER", "SENDING",
                      "ORDERED", "SUPPLIER_CONFIRMED", "RECEIVED", "UNAVAILABLE"}

\* The statuses the procurement endpoint accepts.
ManualTarget == {"IN_STOCK", "TO_ORDER", "SUPPLIER_CONFIRMED", "RECEIVED", "UNAVAILABLE"}

allowedTransitions ==
    [s \in ProcurementStatus |->
        CASE s = "UNASSESSED"         -> {"IN_STOCK", "TO_ORDER", "UNAVAILABLE"}
          [] s = "IN_STOCK"           -> {"TO_ORDER", "UNAVAILABLE"}
          [] s = "TO_ORDER"           -> {"IN_STOCK", "UNAVAILABLE"}
          [] s = "ORDERED"            -> {"SUPPLIER_CONFIRMED", "UNAVAILABLE"}
          [] s = "SUPPLIER_CONFIRMED" -> {"RECEIVED", "UNAVAILABLE"}
          [] s = "UNAVAILABLE"        -> {"TO_ORDER", "IN_STOCK"}
          [] OTHER                    -> {}]

Ready == {"IN_STOCK", "RECEIVED"}
AwaitingSupplierOrdered == {"ORDERED"}
AwaitingSupplier == {"ORDERED", "SUPPLIER_CONFIRMED"}

\* procurementSummaryFor: the summary of a non-empty set of item statuses.
\* The filters and counts of the code only ask whether a class is empty or
\* is everything, which the set of statuses tells.
procurementSummaryFor(statuses, isHandedOff) ==
    IF isHandedOff THEN "HANDED_OFF"
    ELSE IF statuses = {} \/ "UNASSESSED" \in statuses THEN "UNASSESSED"
    ELSE IF "UNAVAILABLE" \in statuses THEN "BLOCKED"
    ELSE IF "SENDING" \in statuses THEN "SENDING"
    ELSE IF statuses \subseteq Ready THEN "READY"
    ELSE IF statuses \cap Ready # {} THEN "PARTIALLY_READY"
    ELSE IF statuses = {"TO_ORDER"} THEN "NEEDS_ORDER"
    ELSE IF "TO_ORDER" \notin statuses THEN "AWAITING_SUPPLIER"
    ELSE "PARTIALLY_READY"

\* procurementWhere: the condition by which the order list selects a summary,
\* a second definition of the same classification, in SQL terms.
procurementWhere(summary, status, statuses, isHandedOff) ==
    LET Some(S) == statuses \cap S # {}
        Every(S) == Some(S) /\ statuses \subseteq S
        approved == status = "APPROVED" /\ ~isHandedOff
    IN  CASE summary = "HANDED_OFF" -> isHandedOff
          [] summary = "UNASSESSED" ->
                ~isHandedOff /\ (status # "APPROVED" \/ statuses = {} \/ Some({"UNASSESSED"}))
          [] summary = "BLOCKED" -> approved /\ Some({"UNAVAILABLE"})
          [] summary = "SENDING" -> approved /\ Some({"SENDING"}) /\ ~Some({"UNAVAILABLE"})
          [] summary = "READY" -> approved /\ Every(Ready)
          [] summary = "NEEDS_ORDER" -> approved /\ Every({"TO_ORDER"})
          [] summary = "AWAITING_SUPPLIER" -> approved /\ Every(AwaitingSupplier)
          [] summary = "PARTIALLY_READY" ->
                /\ approved
                /\ ~Some({"UNASSESSED", "UNAVAILABLE", "SENDING"})
                /\ \/ Some(Ready) /\ Some({"TO_ORDER"} \cup AwaitingSupplier)
                   \/ Some({"TO_ORDER"}) /\ Some(AwaitingSupplier)

Quantity == 1..MaxQuantity

Hold == [state : {"RELEASED", "ACTIVE", "CONSUMED"},
         product : Products \cup {NoProduct}, quantity : 0..MaxQuantity]

\* Product and quantity of a reservation are read only while it is ACTIVE.
Released == [state |-> "RELEASED", product |-> NoProduct, quantity |-> 0]
Consumed == [state |-> "CONSUMED", product |-> NoProduct, quantity |-> 0]
ReserveOneMore(line) ==
    [state |-> "ACTIVE", product |-> line.product, quantity |-> line.quantity + 1]
Reserve(line) == [state |-> "ACTIVE", product |-> line.product, quantity |-> line.quantity]
Release(hold) == IF hold.state = "ACTIVE" THEN Released ELSE hold

Line == [status : ProcurementStatus, product : Products \cup {NoProduct},
         quantity : Quantity, hold : Hold]

ItemsOf(o) == {i \in Items : OrderOf[i] = o}
StatusesOf(o) == {item[i].status : i \in ItemsOf(o)}
\* OrdersService.map: what the list and the order page show.
Summary(o) ==
    IF ostatus[o] = "APPROVED" THEN procurementSummaryFor(StatusesOf(o), handedOff[o]) ELSE "UNASSESSED"
ListedUnder(summary, o) == procurementWhere(summary, ostatus[o], StatusesOf(o), handedOff[o])
Snapshot(S) == [i \in S |-> item[i]]

\* The sort key of o is set to the summary of the items as they now are.
Resort(o, isHandedOff) ==
    sorted' = [sorted EXCEPT ![o] =
                  procurementSummaryFor({item'[i].status : i \in ItemsOf(o)}, isHandedOff)]

\* The units of p that the lines of S hold, as pairs <<item, n-th unit>>.
HeldUnits(lines, S, p) ==
    {u \in S \X Quantity : LET h == lines[u[1]].hold
                           IN  h.state = "ACTIVE" /\ h.product = p /\ u[2] <= h.quantity}
Held(lines, S, p) == Cardinality(HeldUnits(lines, S, p))

Phase == {"idle", "approve", "assess", "assessing", "release", "correct", "setItem", "handOff", "ship"}
Process == Managers \cup {Worker}
Idle == [phase |-> "idle", order |-> NoOrder, target |-> "UNASSESSED", seen |-> Snapshot({})]
SomeLines == UNION {[S -> Line] : S \in SUBSET Items}
Job == [phase : Phase, order : Orders \cup {NoOrder}, target : ManualTarget \cup {"UNASSESSED"},
        seen : SomeLines]

Become(r, phase, o, target, seen) ==
    job' = [job EXCEPT ![r] = [phase |-> phase, order |-> o, target |-> target, seen |-> seen]]
Begin(r, phase, o, seen) == Become(r, phase, o, "UNASSESSED", seen)
Finish(r) == job' = [job EXCEPT ![r] = Idle]
Takes(r, request) == job[r].phase = "idle" /\ request \in Duty[r]

-----------------------------------------------------------------------------
(* OrdersService.approve: the order is found and validated, set APPROVED    *)
(* whatever its status is by then, and assessed in a third transaction.     *)

ApproveRead(m, o) ==
    /\ Takes(m, "approve")
    /\ \A i \in ItemsOf(o) : item[i].product # NoProduct
    /\ Begin(m, "approve", o, Snapshot({}))
    /\ UNCHANGED <<stock, active, ostatus, handedOff, sorted, item, delivery, dispatched>>

ApproveTransition(m) ==
    /\ job[m].phase = "approve"
    /\ ostatus' = [ostatus EXCEPT ![job[m].order] = "APPROVED"]
    /\ Begin(m, "assess", job[m].order, Snapshot({}))
    /\ UNCHANGED <<stock, active, handedOff, sorted, item, delivery, dispatched>>

\* ProcurementBackfillReconciler.reconcile picks approved orders with an
\* item nobody assessed: the assessment after an approval was lost.
Backfill(o) ==
    /\ Takes(Worker, "backfill")
    /\ ostatus[o] = "APPROVED"
    /\ "UNASSESSED" \in StatusesOf(o)
    /\ Begin(Worker, "assess", o, Snapshot({}))
    /\ UNCHANGED <<stock, active, ostatus, handedOff, sorted, item, delivery, dispatched>>

\* ProcurementStore.assessApprovedOrder reads the order and its items and
\* throws ProcurementOrderNotApprovedError unless the order is approved.  Of
\* an item it uses the product and the quantity only.
AssessRead(r) ==
    /\ job[r].phase = "assess"
    /\ LET o == job[r].order IN
        IF ostatus[o] = "APPROVED"
        THEN Begin(r, "assessing", o, [i \in ItemsOf(o) |->
                 [item[i] EXCEPT !.status = "UNASSESSED", !.hold = Released]])
        ELSE Finish(r)
    /\ UNCHANGED <<stock, active, ostatus, handedOff, sorted, item, delivery, dispatched>>

\* The lines once the order's own active reservations are released and the
\* items of G hold what the snapshot says they need.
WithGrants(seen, G) ==
    [i \in Items |->
        IF i \in G THEN [item[i] EXCEPT !.hold = Reserve(seen[i])]
        ELSE IF i \in DOMAIN seen THEN [item[i] EXCEPT !.hold = Release(@)]
        ELSE item[i]]

CanReserveAlone(lines, line) ==
    /\ line.product \in Products
    /\ active[line.product]
    /\ line.quantity <= stock[line.product]
CanReserve(lines, line) ==
    /\ line.product \in Products
    /\ active[line.product]
    /\ Held(lines, Items, line.product) + line.quantity <= stock[line.product]

\* The loop over the items in the order of their ids grants an item exactly
\* when what is left after the items before it is enough.
GrantsWithoutCarry(seen) ==
    {G \in SUBSET DOMAIN seen :
        \A i \in DOMAIN seen : i \in G <=> CanReserve(WithGrants(seen, {}), seen[i])}
Grants(seen) ==
    {G \in SUBSET DOMAIN seen :
        \A i \in DOMAIN seen :
            i \in G <=> CanReserve(WithGrants(seen, {j \in G : j < i}), seen[i])}

DecideGranted(i, G) == IF i \in G THEN "IN_STOCK" ELSE "UNASSESSED"
Decide(i, G) == IF i \in G THEN "IN_STOCK" ELSE "TO_ORDER"

AssessCommit(r) ==
    /\ job[r].phase = "assessing"
    /\ LET seen == job[r].seen IN
        \E G \in Grants(seen) :
            item' = [i \in Items |->
                IF i \in DOMAIN seen
                THEN [WithGrants(seen, G)[i] EXCEPT !.status = Decide(i, G)]
                ELSE item[i]]
    /\ Resort(job[r].order, FALSE)
    /\ Finish(r)
    /\ UNCHANGED <<stock, active, ostatus, handedOff, delivery, dispatched>>

-----------------------------------------------------------------------------
(* OrdersService.cancel: two transactions.                                  *)

CancelTransition(m, o) ==
    /\ Takes(m, "cancel")
    /\ ostatus' = [ostatus EXCEPT ![o] = "CANCELLED"]
    /\ sorted' = [sorted EXCEPT ![o] = "UNASSESSED"]
    /\ Begin(m, "release", o, Snapshot({}))
    /\ UNCHANGED <<stock, active, handedOff, item, delivery, dispatched>>

\* ProcurementStore.releaseOrderReservations
ReleaseOrderReservations(m) ==
    /\ job[m].phase = "release"
    /\ item' = [i \in Items |->
                   IF OrderOf[i] = job[m].order THEN [item[i] EXCEPT !.hold = Release(@)] ELSE item[i]]
    /\ Finish(m)
    /\ UNCHANGED <<stock, active, ostatus, handedOff, sorted, delivery, dispatched>>

-----------------------------------------------------------------------------
(* OrdersService.update: refused once the order is handed off, sent to the  *)
(* supplier or shipped; the correction is a second transaction that does    *)
(* not look again.                                                          *)

CorrectRead(m, o) ==
    /\ Takes(m, "correct")
    /\ ~handedOff[o] /\ ~dispatched[o]
    /\ Begin(m, "correct", o, Snapshot({}))
    /\ UNCHANGED <<stock, active, ostatus, handedOff, sorted, item, delivery, dispatched>>

\* One item gets a product and a quantity (possibly its own); every item of
\* the order loses its assessment and its active reservation.
CorrectCommit(m) ==
    /\ job[m].phase = "correct"
    /\ LET o == job[m].order IN
        /\ \E c \in ItemsOf(o), p \in Products \cup {NoProduct}, q \in Quantity :
              item' = [i \in Items |->
                  IF OrderOf[i] # o THEN item[i]
                  ELSE [status   |-> "UNASSESSED",
                        product  |-> IF i = c THEN p ELSE item[i].product,
                        quantity |-> IF i = c THEN q ELSE item[i].quantity,
                        hold     |-> Release(item[i].hold)]]
        /\ ostatus' = [ostatus EXCEPT ![o] = "NEEDS_REVIEW"]
        /\ sorted' = [sorted EXCEPT ![o] = "UNASSESSED"]
    /\ Finish(m)
    /\ UNCHANGED <<stock, active, handedOff, delivery, dispatched>>

-----------------------------------------------------------------------------
(* ProcurementStore.setItemStatus                                           *)

SetItemRead(m, i, target) ==
    /\ Takes(m, "setItem")
    /\ target = item[i].status \/ target \in allowedTransitions[item[i].status]
    /\ Become(m, "setItem", OrderOf[i], target, Snapshot({i}))
    /\ UNCHANGED <<stock, active, ostatus, handedOff, sorted, item, delivery, dispatched>>

\* IN_STOCK: with the product row locked, what the other items hold is
\* subtracted from the stock; too little throws ProcurementOrderNotReadyError,
\* which is an Abort.
SetInStock(i, line) ==
    /\ CanReserve([item EXCEPT ![i].hold = Released], line)
    /\ item' = [item EXCEPT ![i].status = "IN_STOCK", ![i].hold = Reserve(line)]

\* TO_ORDER and UNAVAILABLE release an active reservation.  The update that
\* does so may run before a concurrent transaction commits one, and then it
\* finds what the snapshot has.
SetNotInStockKeepingHold(i, line, target) == item' = [item EXCEPT ![i].status = target]
SetNotInStock(i, line, target) ==
    \E finds \in {line.hold.state, item[i].hold.state} :
        item' = [item EXCEPT
            ![i].status = target,
            ![i].hold = IF finds = "ACTIVE" THEN Release(@) ELSE @]

SetItemCommit(m) ==
    /\ job[m].phase = "setItem"
    /\ LET seen == job[m].seen
           target == job[m].target
       IN  \E i \in DOMAIN seen :
              CASE target = "IN_STOCK" -> SetInStock(i, seen[i])
                [] target \in {"TO_ORDER", "UNAVAILABLE"} -> SetNotInStock(i, seen[i], target)
                [] OTHER -> item' = [item EXCEPT ![i].status = target]
    /\ Resort(job[m].order, handedOff[job[m].order])
    /\ Finish(m)
    /\ UNCHANGED <<stock, active, ostatus, handedOff, delivery, dispatched>>

-----------------------------------------------------------------------------
(* ProcurementStore.handOffOrder: neither read nor write locks the order.   *)

HandOffRead(m, o) ==
    /\ Takes(m, "handOff")
    /\ ~handedOff[o]
    /\ procurementSummaryFor(StatusesOf(o), FALSE) = "READY"
    /\ Begin(m, "handOff", o, Snapshot(ItemsOf(o)))
    /\ UNCHANGED <<stock, active, ostatus, handedOff, sorted, item, delivery, dispatched>>

\* quantityByProduct: the units of p that the order's active reservations hold.
TakenWithReceived(seen, p) ==
    Cardinality({u \in (DOMAIN seen) \X Quantity :
                    seen[u[1]].product = p /\ u[2] <= seen[u[1]].quantity})
Taken(seen, p) == Held(seen, DOMAIN seen, p)

\* The stock loses what the snapshot held; the reservations that were active
\* in the snapshot and still are become CONSUMED, however many those are.
HandOffCommit(m) ==
    /\ job[m].phase = "handOff"
    /\ LET seen == job[m].seen IN
        /\ stock' = [p \in Products |-> stock[p] - Taken(seen, p)]
        /\ item' = [i \in Items |->
               IF i \in DOMAIN seen /\ seen[i].hold.state = "ACTIVE" /\ item[i].hold.state = "ACTIVE"
               THEN [item[i] EXCEPT !.hold = Consumed]
               ELSE item[i]]
    /\ handedOff' = [handedOff EXCEPT ![job[m].order] = TRUE]
    /\ sorted' = [sorted EXCEPT ![job[m].order] = "HANDED_OFF"]
    /\ Finish(m)
    /\ UNCHANGED <<active, ostatus, delivery, dispatched>>

-----------------------------------------------------------------------------
(* Supplier dispatch, seen from the order.                                  *)

\* TelegramService.queueSupplierOrder holds the order row for the whole
\* transaction and re-checks the status of the items it takes.
ActiveDeliveryIgnored(o) == FALSE
HasActiveDelivery(o) == delivery[o] # {}

QueueSupplierOrder(m, o) ==
    /\ Takes(m, "dispatch")
    /\ ~HasActiveDelivery(o)
    /\ ostatus[o] = "APPROVED"
    /\ LET taken == {i \in ItemsOf(o) : item[i].status = "TO_ORDER"} IN
        /\ taken # {}
        /\ delivery' = [delivery EXCEPT ![o] = taken]
        /\ item' = [i \in Items |-> IF i \in taken THEN [item[i] EXCEPT !.status = "SENDING"] ELSE item[i]]
    /\ dispatched' = [dispatched EXCEPT ![o] = TRUE]
    /\ sorted' = [sorted EXCEPT ![o] = "SENDING"]
    /\ UNCHANGED <<stock, active, ostatus, handedOff, job>>

\* TelegramDeliveryService.finish, SUCCEEDED or FAILED: the items of the
\* delivery that are still SENDING follow it.
SettleDelivery(o, outcome) ==
    /\ delivery[o] # {}
    /\ item' = [i \in Items |->
           IF i \in delivery[o] /\ item[i].status = "SENDING"
           THEN [item[i] EXCEPT !.status = outcome]
           ELSE item[i]]
    /\ delivery' = [delivery EXCEPT ![o] = {}]
    /\ Resort(o, handedOff[o])
    /\ UNCHANGED <<stock, active, ostatus, handedOff, dispatched, job>>

-----------------------------------------------------------------------------
(* DeliveryService.saveShipmentDraft: shipmentReadiness is asked of the     *)
(* order as it is read, and the draft is created in a later transaction.    *)

ShipmentRead(m, o) ==
    /\ Takes(m, "ship")
    /\ ostatus[o] = "APPROVED"
    /\ StatusesOf(o) \subseteq Ready
    /\ Begin(m, "ship", o, Snapshot({}))
    /\ UNCHANGED <<stock, active, ostatus, handedOff, sorted, item, delivery, dispatched>>

ShipmentCommit(m) ==
    /\ job[m].phase = "ship"
    /\ dispatched' = [dispatched EXCEPT ![job[m].order] = TRUE]
    /\ Finish(m)
    /\ UNCHANGED <<stock, active, ostatus, handedOff, sorted, item, delivery>>

-----------------------------------------------------------------------------
\* A catalogue import or a manager's product edit overwrites the stock.
ImportProduct(m, p) ==
    /\ Takes(m, "import")
    /\ \E s \in 0..MaxStock : stock' = [stock EXCEPT ![p] = s]
    /\ \E a \in BOOLEAN : active' = [active EXCEPT ![p] = a]
    /\ UNCHANGED <<ostatus, handedOff, sorted, item, delivery, dispatched, job>>

\* A process stops between two transactions, or one of them throws.
Abort(r) ==
    /\ job[r].phase # "idle"
    /\ Finish(r)
    /\ UNCHANGED <<stock, active, ostatus, handedOff, sorted, item, delivery, dispatched>>

-----------------------------------------------------------------------------
\* Auto-approved orders start out approved: recognition approves an order only
\* when every item is matched to the catalogue.
Init ==
    /\ stock \in [Products -> 0..MaxStock]
    /\ active = [p \in Products |-> TRUE]
    /\ ostatus \in [Orders -> {"NEEDS_REVIEW", "APPROVED"}]
    /\ handedOff = [o \in Orders |-> FALSE]
    /\ sorted = [o \in Orders |-> "UNASSESSED"]
    /\ item \in [Items -> [status : {"UNASSESSED"}, product : Products \cup {NoProduct},
                           quantity : Quantity, hold : {Released}]]
    /\ \A i \in Items : ostatus[OrderOf[i]] = "APPROVED" => item[i].product # NoProduct
    /\ delivery = [o \in Orders |-> {}]
    /\ dispatched = [o \in Orders |-> FALSE]
    /\ job = [r \in Process |-> Idle]

ManagerStep(m) ==
    \/ \E o \in Orders : \/ ApproveRead(m, o)
                         \/ CancelTransition(m, o)
                         \/ CorrectRead(m, o)
                         \/ HandOffRead(m, o)
                         \/ QueueSupplierOrder(m, o)
                         \/ ShipmentRead(m, o)
    \/ ApproveTransition(m)
    \/ ReleaseOrderReservations(m)
    \/ CorrectCommit(m)
    \/ \E i \in Items, target \in ManualTarget : SetItemRead(m, i, target)
    \/ SetItemCommit(m)
    \/ HandOffCommit(m)
    \/ ShipmentCommit(m)
    \/ \E p \in Products : ImportProduct(m, p)

ProcessStep(r) == AssessRead(r) \/ AssessCommit(r) \/ Abort(r)

Next ==
    \/ \E m \in Managers : ManagerStep(m)
    \/ \E o \in Orders : Backfill(o)
    \/ \E r \in Process : ProcessStep(r)
    \/ \E o \in Orders, outcome \in {"ORDERED", "TO_ORDER"} : SettleDelivery(o, outcome)

Spec == Init /\ [][Next]_vars

\* The backfill runs every five seconds over the 25 orders that wait longest,
\* one after the other, and an assessment that fails is tried again on the next
\* run: as long as fewer than 25 orders wait, no approved one is passed over
\* for ever.
BackfillFairness ==
    \A o \in Orders :
        /\ SF_vars(Backfill(o))
        /\ SF_vars(job[Worker].order = o /\ AssessRead(Worker))
        /\ SF_vars(job[Worker].order = o /\ AssessCommit(Worker))

FairSpec == Spec /\ BackfillFairness

-----------------------------------------------------------------------------
(* Properties                                                               *)

TypeOK ==
    /\ stock \in [Products -> Int]
    /\ active \in [Products -> BOOLEAN]
    /\ ostatus \in [Orders -> {"NEEDS_REVIEW", "APPROVED", "CANCELLED"}]
    /\ handedOff \in [Orders -> BOOLEAN]
    /\ sorted \in [Orders -> ProcurementSummary]
    /\ item \in [Items -> Line]
    /\ delivery \in [Orders -> SUBSET Items]
    /\ dispatched \in [Orders -> BOOLEAN]
    /\ job \in [Process -> Job]

Reserved(p) == Held(item, Items, p)

\* "The availability check and the reservation run in one transaction under a
\* lock": whatever runs concurrently, a step that makes a reservation active
\* (or changes an active one) leaves no more of the product reserved than
\* there is.  An import may lower the stock under the reservations later on.
NoOversellStep ==
    \A i \in Items, p \in Products :
        LET hold == item'[i].hold
        IN  (hold # item[i].hold /\ hold.state = "ACTIVE" /\ hold.product = p)
                => Reserved(p)' <= stock'[p]
NoOversell == [][NoOversellStep]_vars

\* An item the supplier is being asked for belongs to an unfinished delivery
\* of its own order, so that the end of that delivery moves it on: no race
\* between managers and the Telegram worker strands an item in SENDING.
SendingIsDispatched ==
    \A i \in Items : item[i].status = "SENDING" => i \in delivery[OrderOf[i]]

\* Every reservation belongs to an item whose decision is IN_STOCK, so that
\* no item is both taken from the shelf and ordered from the supplier.
ActiveIsInStock ==
    \A i \in Items : item[i].hold.state = "ACTIVE" => item[i].status = "IN_STOCK"

\* While no import lowers the stock, what is reserved is there.
StockCoversReservations == \A p \in Products : Reserved(p) <= stock[p]

\* Procurement lowers the stock of a product only by the units that cease to
\* be reserved in the same step: a unit leaves the shelf once.
FallsByConsumption(p) == stock[p] - stock'[p] = Reserved(p) - Reserved(p)'
StockFallsByConsumption ==
    [][\A p \in Products : stock'[p] # stock[p] => FallsByConsumption(p)]_vars

\* The filter of the order list finds an order under the summary the list shows
\* for it and under no other, whatever its status and the mix of its items',
\* with exactly two exceptions.  An order that is cancelled or corrected after
\* its hand-off is found as HANDED_OFF and shown as UNASSESSED; and an approved
\* order with an item nobody assessed is shown as UNASSESSED, and found as
\* BLOCKED or SENDING as well when another item is UNAVAILABLE or SENDING.
FoundUnder(o) == {s \in ProcurementSummary : ListedUnder(s, o)}
HandedOffAndReopened(o) == handedOff[o] /\ ostatus[o] # "APPROVED"
FoundTwice(o) ==
    /\ ostatus[o] = "APPROVED" /\ ~handedOff[o]
    /\ "UNASSESSED" \in StatusesOf(o)
    /\ StatusesOf(o) \cap {"UNAVAILABLE", "SENDING"} # {}
ListedOnce ==
    \A o \in Orders :
        FoundUnder(o) = {Summary(o)} <=> ~(HandedOffAndReopened(o) \/ FoundTwice(o))

\* "The reservations of stock items become CONSUMED and the stock goes down in
\* the same transaction": no item is handed off from stock without a
\* reservation that the hand-off takes from the stock.
HandOffTakesReservedStock ==
    [][\A m \in Managers : HandOffCommit(m) =>
          \A i \in DOMAIN job[m].seen :
              job[m].seen[i].status = "IN_STOCK" => job[m].seen[i].hold.state = "ACTIVE"]_vars

\* "Cancelling an order releases its active reservations": once no request
\* is working on it, a cancelled order holds nothing.
CancelledHoldsNothing ==
    \A o \in Orders :
        (ostatus[o] = "CANCELLED" /\ \A r \in Process : job[r].phase = "idle")
            => \A i \in ItemsOf(o) : item[i].hold.state # "ACTIVE"

\* "Order cannot be corrected after external fulfillment has started."
CorrectedBeforeFulfilment ==
    [][\A m \in Managers :
          CorrectCommit(m) => LET o == job[m].order IN ~handedOff[o] /\ ~dispatched[o]]_vars

\* An approval whose assessment was lost to a crash is made good: an approved
\* order does not keep an unassessed item for ever.
Unassessed(o) == ostatus[o] = "APPROVED" /\ "UNASSESSED" \in StatusesOf(o)
ApprovedIsAssessed == \A o \in Orders : Unassessed(o) ~> ~Unassessed(o)
=============================================================================
