--------------------------- MODULE MCProcurement ---------------------------
(* Small instances of Procurement: the requests that each process makes.   *)
EXTENDS Procurement, TLC

CONSTANTS P1, O1, M1, M2, W

MCOrderOf == [i \in Items |-> O1]

MCHandOffDuty == (M1 :> {"handOff"}) @@ (M2 :> {"handOff", "setItem"}) @@ (W :> {})
MCCancelDuty == (M1 :> {"cancel"}) @@ (M2 :> {"approve"}) @@ (W :> {})
MCCorrectDuty == (M1 :> {"correct"}) @@ (M2 :> {"setItem", "dispatch"}) @@ (W :> {})
MCSerialDuty == (M1 :> Request \ {"import", "backfill"}) @@ (M2 :> {}) @@ (W :> {})
MCSafeDuty == (M1 :> Request \ {"import", "backfill"}) @@ (M2 :> {"handOff", "approve", "cancel"}) @@ (W :> {})
=============================================================================
