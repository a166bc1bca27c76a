---------------------------- MODULE MCLifecycle ----------------------------
(* Small instances of Lifecycle. *)
EXTENDS Lifecycle
=============================================================================
