----------------------------- MODULE MCCapture -----------------------------
(* Two captures, two reads in flight: the instances of Capture TLC checks. *)
EXTENDS Capture, TLC

Symmetry == Permutations(Session) \cup Permutations(Caller)
=============================================================================
