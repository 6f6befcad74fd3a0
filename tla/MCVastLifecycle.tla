---------------------------- MODULE MCVastLifecycle ----------------------------
(* Small instances of VastLifecycle for TLC. *)
EXTENDS VastLifecycle, TLC

Symmetry == Permutations(Job) \cup Permutations(Instance) \cup Permutations(Sweeper)

\* Rentals come to an end, in Vast's books and in the rows.
RentalsEnd == EveryInstanceEnds /\ FailedDestroyEnds
================================================================================
