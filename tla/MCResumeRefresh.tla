---------------------------- MODULE MCResumeRefresh ----------------------------
(* Small instances of ResumeRefresh for TLC. *)
EXTENDS ResumeRefresh, TLC

(* Requests are interchangeable. *)
MCSymmetry == Permutations(Requests)
=============================================================================
