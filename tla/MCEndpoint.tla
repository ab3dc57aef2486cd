----------------------------- MODULE MCEndpoint -----------------------------
(* Instances of Endpoint for TLC.                                          *)
EXTENDS Endpoint, TLC

MCSymmetry == Permutations(Procs) \cup Permutations(Msgs)

=============================================================================
