----------------------------- MODULE MCAvatars -----------------------------
(* One avatar that two employees share; two versions of different length. *)
EXTENDS Avatars, TLC

Lengths == ("a" :> 2) @@ ("b" :> 1)
Shared == ("k" :> 2)
=============================================================================
