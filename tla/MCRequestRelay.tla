--------------------------- MODULE MCRequestRelay ---------------------------
(* RequestRelay with interchangeable pool threads and tunnels. *)
EXTENDS RequestRelay, TLC

\* No two requests read the same.
MCText == [i \in 0..MaxUnits |-> i]

Symmetry == Permutations(Threads) \cup Permutations(Tunnels)
=============================================================================
