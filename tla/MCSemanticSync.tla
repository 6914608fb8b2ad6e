--------------------------- MODULE MCSemanticSync ---------------------------
(* Instances of SemanticSync for TLC. *)
EXTENDS SemanticSync, TLC

SymManagers == Permutations(Manager)
=============================================================================
