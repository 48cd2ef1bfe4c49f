----------------------------- MODULE MCRunLock -----------------------------
EXTENDS RunLock

CONSTANTS a, b, c

(* Three processes on one machine. *)
OneHost == [p \in {a, b, c} |-> "local"]
=============================================================================
