------------------------------ MODULE MCCheckIn ------------------------------
(* Small instances of CheckIn for TLC; the bus is instantiated as in MCHandoffBus. *)
EXTENDS MCHandoffBus, CheckIn
===============================================================================
