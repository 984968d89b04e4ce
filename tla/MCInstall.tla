------------------------------ MODULE MCInstall ------------------------------
(* Symmetry for the safety runs of Install: submissions are interchangeable.  *)
(* The key of payload padded, where there is one, has blanks around it.       *)
EXTENDS Install, TLC

CONSTANTS padded, trimmed

MCKeys == Payloads \cup {trimmed}
MCTrim == [p \in Payloads |-> IF p = padded THEN trimmed ELSE p]

RequestSymmetry == Permutations(Requests)

=============================================================================
