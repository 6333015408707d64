------------------------------ MODULE MCServer ------------------------------
(* One department, one employee. *)
EXTENDS Server, TLC

BothKeys == ("dep" :> {"d1"}) @@ ("sotr" :> {"s1"})
=============================================================================
