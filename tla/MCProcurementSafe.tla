------------------------- MODULE MCProcurementSafe -------------------------
(* One order of two items.  "focus" says whether one manager makes every     *)
(* request, one after the other, with several units of an item; or two       *)
(* managers' requests interleave, with one unit.                             *)
EXTENDS MCProcurement

VARIABLE focus

Focused ==
    /\ focus = "Serial" => job[M2] = Idle
    /\ focus = "Together" => \A i \in Items : item[i].quantity = 1

SafeInit == focus \in {"Serial", "Together"} /\ Init /\ Focused
SafeNext == Next /\ UNCHANGED focus /\ Focused'
SafeSpec == SafeInit /\ [][SafeNext]_<<vars, focus>>

-----------------------------------------------------------------------------
(* What holds as long as requests do not overlap.                           *)

\* What is reserved is there.
SerialStockCovers == focus = "Serial" => StockCoversReservations

\* No item is both taken from the shelf and ordered from the supplier.
SerialReservesInStock == focus = "Serial" => ActiveIsInStock

\* A unit leaves the stock once, and it is one that was reserved.
SerialStockFalls ==
    [][focus = "Serial" => \A p \in Products : stock'[p] # stock[p] => FallsByConsumption(p)]_<<vars, focus>>
=============================================================================
