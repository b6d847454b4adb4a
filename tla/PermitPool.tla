----------------------------- MODULE PermitPool -----------------------------
(***************************************************************************)
(* What threading.Semaphore(max_concurrent) promises the orchestrator: a   *)
(* set of holders that never exceeds the limit and that changes by one     *)
(* holder at a time.  VivadoSession implements it with its processes as    *)
(* holders.                                                                *)
(***************************************************************************)
EXTENDS Naturals, FiniteSets

CONSTANTS Users, Limit

VARIABLE holders

Init == holders = {}

Take(u) == u \notin holders /\ Cardinality(holders) < Limit /\ holders' = holders \cup {u}
Give(u) == u \in holders /\ holders' = holders \ {u}

Next == \E u \in Users : Take(u) \/ Give(u)

Spec == Init /\ [][Next]_holders
=============================================================================
