---------------------------- MODULE ConnectionLimit ----------------------------
(***************************************************************************)
(* What connection_semaphore promises to the rest of the manager: tasks    *)
(* hold a connection slot one entry and one exit at a time, and never more *)
(* than Limit of them at once.                                             *)
(***************************************************************************)
EXTENDS Naturals, FiniteSets

CONSTANTS Task, Limit

VARIABLE holders

Init == holders = {}

Enter(t) ==
    /\ t \notin holders
    /\ Cardinality(holders) < Limit
    /\ holders' = holders \cup {t}

Leave(t) ==
    /\ t \in holders
    /\ holders' = holders \ {t}

Next == \E t \in Task : Enter(t) \/ Leave(t)

Spec == Init /\ [][Next]_holders

\* At most Limit dials and accepted sockets are served at the same time.
LimitKept == holders \subseteq Task /\ Cardinality(holders) <= Limit
=============================================================================
