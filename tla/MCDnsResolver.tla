---------------------------- MODULE MCDnsResolver ----------------------------
(* Instances of DnsResolver for TLC: names, requests and transaction ids   *)
(* are interchangeable in runs that check invariants only.                 *)
EXTENDS DnsResolver, TLC

Symmetry ==
  Permutations(Names) \cup Permutations(Requests) \cup Permutations(Txids)
=============================================================================
