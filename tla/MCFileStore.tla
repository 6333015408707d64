---------------------------- MODULE MCFileStore ----------------------------
(* Instances of FileStore for TLC. *)
EXTENDS FileStore, TLC

TwoDeps == ("dep" :> {"d1", "d2"}) @@ ("sotr" :> {})
TwoSotrs == ("dep" :> {}) @@ ("sotr" :> {"s1", "s2"})
===========================================================================
