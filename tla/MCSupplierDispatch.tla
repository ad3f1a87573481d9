------------------------ MODULE MCSupplierDispatch ------------------------
(* Small instances of SupplierDispatch.                                    *)
EXTENDS SupplierDispatch, TLC

CONSTANTS W1, W2, I1, I2, MaxFaults

\* A bound: a claim is lost or the tenant is frozen, MaxFaults times in all.
FewFaults == stalls' + freezes' <= MaxFaults
FewFaultsSpec == Init /\ [][Next /\ FewFaults]_vars

\* Items and workers are alike; every property of the run is one of safety.
Symmetry == Permutations(Items) \cup Permutations(Workers)
=============================================================================
