------------------------------- MODULE MCSync -------------------------------
(* Dumps for TLC: the department of s1 changes, his mobile from one too    *)
(* short to be rendered, and one of his phones goes; a department is       *)
(* renamed and gets an employee without e-mail; one e-mail is malformed.   *)
EXTENDS Sync, TLC

Dep(idr, text) == [idr |-> idr, text |-> text]
Sotr(tabnum, parent, email, phones, mobiles) ==
    [tabnum |-> tabnum, parent |-> parent, email |-> email, rest |-> "r",
     phone |-> phones, mobile |-> mobiles]

ThreeDumps ==
    [old |-> [dep |-> <<Dep("d1", "a")>>,
              sotr |-> <<Sotr("s1", "d1", "e", <<"p1", "p2">>, <<1234>>)>>],
     new |-> [dep |-> <<Dep("d2", "b")>>,
              sotr |-> <<Sotr("s2", "d2", "at", <<>>, <<>>),
                         Sotr("s1", "d2", "f", <<"p2">>, <<77011>>)>>],
     bare |-> [dep |-> <<Dep("d1", "c")>>,
               sotr |-> <<Sotr("s2", "d1", "", <<>>, <<>>)>>]]

\* Clients differ in nothing but their names.
Interchangeable == Permutations(Clients)
=============================================================================
