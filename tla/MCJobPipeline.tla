----------------------------- MODULE MCJobPipeline -----------------------------
(* Small instances of JobPipeline for TLC. *)
EXTENDS JobPipeline, TLC

CONSTANTS v1, p1

MCResolve == [k \in Pending |-> v1]
Interchangeable == Permutations(Worker) \cup Permutations(Request) \cup Permutations(Text)
================================================================================
