------------------------------- MODULE Crawl -------------------------------
(***************************************************************************)
(* What the dump promises, with its workers, queues, channels and retries  *)
(* hidden: departments are visited from the root downwards, each answer is *)
(* used once, and every element an answer lists reaches the storage at     *)
(* most once, never before its department has answered.  The walk may stop *)
(* at any point (operation timeout, limit, error), so nothing here says    *)
(* that the dump is complete.                                              *)
(***************************************************************************)
EXTENDS Tree, Naturals

VARIABLES
    answered,   \* departments whose answer has been used
    saved       \* saved[n]: how often element n was handed to the storage

crawlVars == <<answered, saved>>

Init == answered = {} /\ saved = [n \in Nodes |-> 0]

\* A department nobody has used the answer of is answered; the root is known
\* from the configuration, every other one from its parent's answer.
Answer(d) ==
    /\ d \in Known(answered) \ answered
    /\ answered' = answered \cup {d}
    /\ UNCHANGED saved

\* A listed element is stored, once.
Save(n) ==
    /\ n \in Listed(answered)
    /\ saved[n] = 0
    /\ saved' = [saved EXCEPT ![n] = 1]
    /\ UNCHANGED answered

Next ==
    \/ \E d \in Deps : Answer(d)
    \/ \E n \in Nodes : Save(n)

Spec == Init /\ [][Next]_crawlVars
===========================================================================
