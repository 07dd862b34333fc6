----------------------------- MODULE MCViewStats -----------------------------
(* Small instances of ViewStats for TLC. *)
EXTENDS ViewStats, TLC

(* Jobs and batches are interchangeable. *)
MCSymmetry == Permutations(Jobs) \cup Permutations(Batches)
=============================================================================
