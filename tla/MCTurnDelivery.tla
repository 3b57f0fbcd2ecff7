--------------------------- MODULE MCTurnDelivery ---------------------------
(* TLC instance of TurnDelivery; the configurations give the constants. *)
EXTENDS TurnDelivery, TLC
=============================================================================
