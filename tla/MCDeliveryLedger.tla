------------------------- MODULE MCDeliveryLedger ---------------------------
(* A small instance of DeliveryLedger: delays and retention of one tick. *)
EXTENDS DeliveryLedger

CONSTANTS a, b        \* two message identities

UnitDelay == [n \in 1..MaxAttempts |-> 1]
=============================================================================
