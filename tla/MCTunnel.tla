------------------------------ MODULE MCTunnel ------------------------------
(* Every fault. *)
EXTENDS Tunnel

AllFaults == FaultNames
=============================================================================
