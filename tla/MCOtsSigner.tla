---------------------------- MODULE MCOtsSigner -----------------------------
(* Two seeds are interchangeable: no definition of OtsSigner tells them apart. *)
EXTENDS OtsSigner, TLC

Symmetry == Permutations(Seeds)
=============================================================================
