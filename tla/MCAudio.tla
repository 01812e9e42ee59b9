------------------------------ MODULE MCAudio ------------------------------
(* Audio for TLC: channels are interchangeable. *)
EXTENDS Audio, TLC

Symmetry == Permutations(Channel)
=============================================================================
