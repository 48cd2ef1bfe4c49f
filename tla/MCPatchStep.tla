---------------------------- MODULE MCPatchStep ----------------------------
(* Three patches, two kept revisions and one fallback profile: enough for a  *)
(* completion past the number of revisions the state keeps.                  *)
EXTENDS PatchStep, TLC

Changes == Permutations(Change)

(* A user who reverts a change while a patch is applied lets it be recorded  *)
(* again, without end.                                                       *)
Bounded == Len(completed) <= IF meddled THEN 2 ELSE 3
=============================================================================
