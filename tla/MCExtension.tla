----------------------------- MODULE MCExtension -----------------------------
(* A YouTube video, the YouTube home page, and a page of Scribe's own. *)
EXTENDS Extension, TLC

CONSTANTS watch, home, own

MCVerdict ==
    [u \in Url |-> CASE u = watch -> "submit" [] u = home -> "confirm" [] OTHER -> "local"]

\* Handlers are alike.
Handlers == Permutations(FlowId)
=============================================================================
