----------------------------- MODULE MCTransfers ------------------------------
(* Model checking of Transfers: who may be exchanged with whom.            *)
EXTENDS Transfers, TLC

\* Requests without the gesture that contradicts the property of the run.
Unqualified == AllOperations \ {"qualify"}
Linking == {"import", "kind", "withdraw", "link", "adjust"}

LineSymmetry == Permutations(Lines)
Symmetry == LineSymmetry \cup Permutations(Requests)
===============================================================================
