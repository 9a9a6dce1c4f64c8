----------------------------- MODULE MCUdpRelay -----------------------------
(* Instances of UdpRelay for TLC: names are interchangeable in the run     *)
(* that checks invariants only.                                            *)
EXTENDS UdpRelay, TLC

Symmetry == Permutations(Names)
=============================================================================
