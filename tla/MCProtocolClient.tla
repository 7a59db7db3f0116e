-------------------------- MODULE MCProtocolClient --------------------------
(* Small instances of ProtocolClient.                                      *)
EXTENDS ProtocolClient, TLC

CONSTANTS c1, c2    \* calls

MCRanges == {{0}, {1}, {0, 1}, {}}

MCSymmetry == Permutations(Calls)
=============================================================================
