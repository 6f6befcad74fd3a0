---------------------------- MODULE MCUploadArchive ----------------------------
(* Instances of UploadArchive for TLC: the workers are alike, and the contents. *)
EXTENDS UploadArchive, TLC

Symmetry == Permutations(Worker) \cup Permutations(Content)
================================================================================
