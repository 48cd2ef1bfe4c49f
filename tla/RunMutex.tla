----------------------------- MODULE RunMutex -----------------------------
(***************************************************************************)
(* What the run lock promises to the commands above it: at any moment at    *)
(* most one process owns the run, and ownership passes from one process to  *)
(* another only through a moment at which nobody owns it.                   *)
(***************************************************************************)
CONSTANTS Proc, None

VARIABLE owner      \* the process inside a command on the run, or None

Init == owner = None

Grant(p) == owner = None /\ owner' = p

(* The owner leaves: it released the lock, or it died. *)
Leave(p) == owner = p /\ owner' = None

Next == \E p \in Proc : Grant(p) \/ Leave(p)

Spec == Init /\ [][Next]_owner
=============================================================================
