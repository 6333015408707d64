------------------------------- MODULE Tree -------------------------------
(***************************************************************************)
(* The organisation tree the dump walks, as the web source serves it.  A   *)
(* node is a department (its JSON element has children = true) or an       *)
(* employee (children = false); asking for a department lists its direct   *)
(* children.  The names of nodes are opaque: the crawler only compares,    *)
(* queues and forwards them.                                               *)
(***************************************************************************)
EXTENDS FiniteSets

CONSTANTS
    Deps,    \* departments: elements whose GetChildren() is true
    Sotrs,   \* employees: elements whose GetChildren() is false
    Root,    \* the section the dump starts from (RootRazd)
    Kids     \* Kids[d]: what the source holds directly under department d

Nodes == Deps \cup Sotrs

\* A finite tree: the root is nobody's child, and nobody has two parents.
ASSUME TreeAssumption ==
    /\ Deps \cap Sotrs = {}
    /\ Root \in Deps
    /\ Kids \in [Deps -> SUBSET Nodes]
    /\ \A d \in Deps : Root \notin Kids[d]
    /\ \A d, e \in Deps : d # e => Kids[d] \cap Kids[e] = {}
    /\ IsFiniteSet(Nodes)

\* What the answers to the departments of A have listed.
Listed(A) == UNION {Kids[d] : d \in A}

\* The departments known once those of A have answered.
Known(A) == {Root} \cup (Listed(A) \cap Deps)
===========================================================================
