------------------------------ MODULE MCTraffic ------------------------------
(* Symmetry for the run of Traffic.                                           *)
EXTENDS Traffic, TLC

TrafficSymmetry == Permutations(Clients) \cup Permutations(Servers)

=============================================================================
