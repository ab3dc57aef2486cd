-------------------------------- MODULE MCCap --------------------------------
(* Small instances of CapManager for TLC: an object with its type code, and *)
(* rights with (GRANT) and without ("modify") a bit in the token.  Process   *)
(* slots are interchangeable.                                                *)
EXTENDS CapManager, TLC

MCObjects == {"memory"}
MCTypeCode == [o \in MCObjects |-> 0]
MCRights == {"grant", "modify"}
MCFlagRights == {"grant"}
MCMinted == {{"grant"}, {"grant", "modify"}}
MCShared == {{"grant", "modify"}}

ProcSymmetry == Permutations(Procs)
=============================================================================
