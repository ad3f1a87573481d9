------------------------- MODULE MCTikTokDelivery -------------------------
(* Small instances of TikTokDelivery.                                      *)
EXTENDS TikTokDelivery

CONSTANTS M1, W1, W2, R1, R2
=============================================================================
