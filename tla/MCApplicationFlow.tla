-------------------------- MODULE MCApplicationFlow --------------------------
(* Small instances of ApplicationFlow for TLC. *)
EXTENDS ApplicationFlow, TLC

(* Requests are interchangeable. *)
MCSymmetry == Permutations(Requests)
=============================================================================
