---------------------------- MODULE SheetsExport ----------------------------
(***************************************************************************)
(* The row of an order in the tenant's Google spreadsheet.  OrdersService  *)
(* of apps/api approves the order and asks for an export; pollExports of   *)
(* apps/worker claims what is pending, and GoogleSheetsSyncProcessor       *)
(* writes the row.  An export has no lease, its worker is not recorded and *)
(* nothing compares what was written with the order as it has become.      *)
(*                                                                         *)
(* What a row says of the order is the number of its correction, once for  *)
(* the order and once for its items: the processor reads the two in two    *)
(* statements, and a correction may be committed in between.  Orders do    *)
(* not interact here, so that there is one; nor do destinations, and the   *)
(* export's attempts, row number and notification only inform.             *)
(***************************************************************************)
EXTENDS Integers, Sequences

CONSTANTS
    Workers,         \* worker processes: each polls and exports one at a time
    MaxCorrections,  \* bound: corrections of the order
    MaxFaults,       \* bound: crashes and failed calls
    MaxFreezes,      \* bound: times the tenant's data deletion is requested
    MaxRenewed       \* bound: exports asked for while one is under way

VARIABLES
    order,     \* orders.status, and the corrections so far
    export,    \* order_exports.status, NONE if there is none
    asking,    \* requests of managers that have done their first transaction
    poll,      \* what each worker's poll is doing
    table,     \* external: the order's rows in the spreadsheet, by what they say
    frozen,    \* the tenant has an open request to delete its data
    freezes,
    faults,
    renewed,   \* ghost: exports asked for while one was under way
    approved,  \* ghost: corrections that a manager or the worker approved
    torn       \* ghost: rows read half before a correction and half after it

vars == <<order, export, asking, poll, table, frozen, freezes, faults, renewed, approved, torn>>
outside == <<frozen, freezes, faults>>

-----------------------------------------------------------------------------
ExportStatus == {"NONE", "PENDING", "PROCESSING", "SUCCEEDED", "FAILED"}
Edits == 0..MaxCorrections
Row == [details : Edits, items : Edits]
RowOf(details, items) == [details |-> details, items |-> items]
Phase == {"idle", "claimed", "reading", "joining", "finding", "writing", "settling"}
\* The row it has found is 0 if there is none; details and items are as it read them.
Poll == [phase : Phase, details : Edits, items : Edits, row : Nat, result : {"NONE", "SUCCEEDED", "FAILED"}]
Idle == [phase |-> "idle", details |-> 0, items |-> 0, row |-> 0, result |-> "NONE"]

Goes(w, phase) == poll' = [poll EXCEPT ![w].phase = phase]
Ends(w, result) == poll' = [poll EXCEPT ![w].phase = "settling", ![w].result = result]

\* An export that some worker still is about, or one that a dead worker left.
UnderWay == export = "PROCESSING" \/ \E w \in Workers : poll[w].phase # "idle"

Renews ==
    /\ (~frozen /\ UnderWay) => renewed < MaxRenewed
    /\ renewed' = IF ~frozen /\ UnderWay THEN renewed + 1 ELSE renewed

-----------------------------------------------------------------------------
(* OrdersService                                                            *)

\* approve commits the status first; TriggeredOrderProcessor does the same.
Approve ==
    /\ ~frozen
    /\ order' = [order EXCEPT !.status = "APPROVED"]
    /\ approved' = approved \cup {order.edits}
    /\ asking' = asking \cup {"export"}
    /\ UNCHANGED <<export, poll, table, renewed, torn, outside>>

\* ensurePendingExport, unless the tenant is frozen; CrashApi is for an
\* assessment in between that fails, too.
AskOnce == IF export = "NONE" THEN "PENDING" ELSE export
AskAgain == "PENDING"

EnsurePendingExport ==
    /\ "export" \in asking
    /\ asking' = asking \ {"export"}
    /\ export' = IF frozen THEN export ELSE AskAgain
    /\ Renews
    /\ UNCHANGED <<order, poll, table, approved, torn, outside>>

Correct ==
    /\ ~frozen /\ order.edits < MaxCorrections
    /\ order' = [status |-> "NEEDS_REVIEW", edits |-> order.edits + 1]
    /\ torn' = torn \cup {RowOf(poll[w].details, order.edits + 1) : w \in {v \in Workers : poll[v].phase = "joining"}}
    /\ UNCHANGED <<export, asking, poll, table, renewed, approved, outside>>

Cancel ==
    /\ ~frozen
    /\ order' = [order EXCEPT !.status = "CANCELLED"]
    /\ UNCHANGED <<export, asking, poll, table, renewed, approved, torn, outside>>

\* retrySheetsExport reads the export, and writes it without looking again.
RetryRead ==
    /\ export = "FAILED"
    /\ asking' = asking \cup {"retry"}
    /\ UNCHANGED <<order, export, poll, table, renewed, approved, torn, outside>>

RetryWrite ==
    /\ "retry" \in asking
    /\ asking' = asking \ {"retry"}
    /\ export' = IF frozen THEN export ELSE "PENDING"
    /\ Renews
    /\ UNCHANGED <<order, poll, table, approved, torn, outside>>

-----------------------------------------------------------------------------
(* pollExports and GoogleSheetsSyncProcessor                                *)

Claim(w) ==
    /\ poll[w].phase = "idle" /\ export = "PENDING"
    /\ export' = "PROCESSING"
    /\ Goes(w, "claimed")
    /\ UNCHANGED <<order, asking, table, renewed, approved, torn, outside>>

\* process takes the export for its own, whatever has become of it.
Start(w) ==
    /\ poll[w].phase = "claimed"
    /\ export' = IF frozen THEN "FAILED" ELSE "PROCESSING"
    /\ IF frozen THEN poll' = [poll EXCEPT ![w] = Idle] ELSE Goes(w, "reading")
    /\ UNCHANGED <<order, asking, table, renewed, approved, torn, outside>>

\* The order and its status are read first, then its items.  READ COMMITTED, so
\* that the second statement sees what was committed since; an order that was not
\* approved at the first is not exported, whatever the second finds.
Exportable == order.status = "APPROVED"

ReadOrder(w) ==
    /\ poll[w].phase = "reading"
    /\ IF Exportable
       THEN poll' = [poll EXCEPT ![w].phase = "joining", ![w].details = order.edits]
       ELSE Ends(w, "FAILED")
    /\ UNCHANGED <<order, export, asking, table, renewed, approved, torn, outside>>

ReadItems(w) ==
    /\ poll[w].phase = "joining"
    /\ poll' = [poll EXCEPT ![w].phase = "finding", ![w].items = order.edits]
    /\ UNCHANGED <<order, export, asking, table, renewed, approved, torn, outside>>

\* upsertRow reads the ids of all rows, and takes the first of the order's ...
FoundNever == 0
Found == IF table = <<>> THEN 0 ELSE 1

FindRow(w) ==
    /\ poll[w].phase = "finding"
    /\ poll' = [poll EXCEPT ![w].phase = "writing", ![w].row = Found]
    /\ UNCHANGED <<order, export, asking, table, renewed, approved, torn, outside>>

\* ... and writes over that row, or appends one, wherever they have got since.
Written(w) ==
    LET row == RowOf(poll[w].details, poll[w].items)
    IN  IF poll[w].row = 0 THEN Append(table, row) ELSE [table EXCEPT ![poll[w].row] = row]

WriteRow(w) ==
    /\ poll[w].phase = "writing"
    /\ table' = Written(w)
    /\ Ends(w, "SUCCEEDED")
    /\ UNCHANGED <<order, export, asking, renewed, approved, torn, outside>>

\* A call fails; the row may have been written all the same.
CallFails(w) ==
    /\ poll[w].phase \in {"finding", "writing"}
    /\ faults < MaxFaults
    /\ faults' = faults + 1
    /\ \/ UNCHANGED table
       \/ poll[w].phase = "writing" /\ table' = Written(w)
    /\ Ends(w, "FAILED")
    /\ UNCHANGED <<order, export, asking, renewed, approved, torn, frozen, freezes>>

Settle(w) ==
    /\ poll[w].phase = "settling"
    /\ export' = poll[w].result
    /\ poll' = [poll EXCEPT ![w] = Idle]
    /\ UNCHANGED <<order, asking, table, renewed, approved, torn, outside>>

-----------------------------------------------------------------------------
(* Failures, and the freeze of the tenant                                   *)

CrashWorker(w) ==
    /\ poll[w].phase # "idle"
    /\ faults < MaxFaults
    /\ faults' = faults + 1
    /\ poll' = [poll EXCEPT ![w] = Idle]
    /\ UNCHANGED <<order, export, asking, table, renewed, approved, torn, frozen, freezes>>

CrashApi ==
    /\ asking # {}
    /\ faults < MaxFaults
    /\ faults' = faults + 1
    /\ asking' = {}
    /\ UNCHANGED <<order, export, poll, table, renewed, approved, torn, frozen, freezes>>

Freeze ==
    /\ frozen \/ freezes < MaxFreezes
    /\ frozen' = ~frozen
    /\ freezes' = IF frozen THEN freezes ELSE freezes + 1
    /\ UNCHANGED <<order, export, asking, poll, table, renewed, approved, torn, faults>>

-----------------------------------------------------------------------------
Init ==
    /\ order = [status |-> "NEEDS_REVIEW", edits |-> 0]
    /\ export = "NONE"
    /\ asking = {}
    /\ poll = [w \in Workers |-> Idle]
    /\ table = <<>>
    /\ frozen = FALSE
    /\ freezes = 0
    /\ faults = 0
    /\ renewed = 0
    /\ approved = {}
    /\ torn = {}

WorkerStep(w) ==
    \/ Claim(w) \/ Start(w) \/ ReadOrder(w) \/ ReadItems(w) \/ FindRow(w) \/ WriteRow(w)
    \/ CallFails(w) \/ Settle(w)

Next ==
    \/ Approve \/ EnsurePendingExport \/ Correct \/ Cancel \/ RetryRead \/ RetryWrite
    \/ \E w \in Workers : WorkerStep(w) \/ CrashWorker(w)
    \/ CrashApi \/ Freeze

Spec == Init /\ [][Next]_vars

-----------------------------------------------------------------------------
(* Properties                                                               *)

TypeOK ==
    /\ order \in [status : {"NEEDS_REVIEW", "APPROVED", "CANCELLED"}, edits : Edits]
    /\ export \in ExportStatus
    /\ asking \subseteq {"export", "retry"}
    /\ poll \in [Workers -> Poll]
    /\ table \in Seq(Row)
    /\ frozen \in BOOLEAN
    /\ {freezes, faults, renewed} \subseteq Nat
    /\ approved \subseteq Edits
    /\ torn \subseteq Row

\* "An approved order creates or updates exactly one row": another row is made
\* only if an export was asked for while one was under way, so that two workers
\* could look for the row before either had written it.
OneRowUnlessRenewed == Len(table) <= 1 + renewed

\* "Only approved orders can be exported": what the rows say of the order was
\* approved, and what they say of its items is of the same correction, unless a
\* correction was committed while a worker had read the one and not the other.
\* What an export that has succeeded wrote is the order's latest approved
\* correction, unless an export was asked for while one was under way, something
\* failed, or the tenant was frozen.
Shows(n) == \E i \in DOMAIN table : table[i] = RowOf(n, n)
ExportIsCurrent ==
    /\ \A i \in DOMAIN table :
            /\ table[i].details \in approved
            /\ table[i].items = table[i].details \/ table[i] \in torn
    /\ (export = "SUCCEEDED" /\ order.status = "APPROVED" /\ "export" \notin asking) =>
            Shows(order.edits) \/ renewed > 0 \/ faults > 0 \/ freezes > 0

=============================================================================
