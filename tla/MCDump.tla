------------------------------ MODULE MCDump ------------------------------
(* Instances of Dump for TLC. *)
EXTENDS Dump, TLC

CONSTANTS r, d1, d2, d3, d4, d5, d6, s1, s2

\* A root with a department and an employee, one employee below.
SmallDeps == {r, d1}
SmallSotrs == {s1, s2}
SmallKids == (r :> {d1, s1}) @@ (d1 :> {s2})

\* A chain of departments.
ChainDeps == {r, d1, d2}
ChainSotrs == {s1}
ChainKids == (r :> {d1}) @@ (d1 :> {d2}) @@ (d2 :> {s1})

\* A fork and two chains, an employee at the end of one.
ForkDeps == {r, d1, d2, d3, d4, d5, d6}
ForkSotrs == {s1}
ForkKids == [d \in ForkDeps |-> CASE d = r -> {d1, d2}
                                  [] d = d1 -> {d3} [] d = d3 -> {d5}
                                  [] d = d2 -> {d4} [] d = d4 -> {d6}
                                  [] d = d5 -> {s1} [] OTHER -> {}]
===========================================================================
