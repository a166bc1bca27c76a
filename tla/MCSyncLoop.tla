----------------------------- MODULE MCSyncLoop -----------------------------
(* Two peers: one of them two blocks ahead of the other, or both level. *)
EXTENDS SyncLoop, TLC

CONSTANTS p, q

Uneven == (p :> 3) @@ (q :> 1)
Fresh == {[anchor |-> 0, saved |-> {0}]}
Resumed == Fresh \cup {[anchor |-> 1, saved |-> {0, 1}], [anchor |-> 2, saved |-> {0, 1, 2}]}
Fallback == {[anchor |-> 0, saved |-> {0, 1, 2}]}
Level == (p :> 3) @@ (q :> 3)
=============================================================================
