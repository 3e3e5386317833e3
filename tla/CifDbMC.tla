------------------------------ MODULE CifDbMC ------------------------------
(* Instances of CifDb for model checking.                                  *)
EXTENDS CifDb, TLC

\* Keys differ in nothing but their names, nor do thread identifiers.
Symmetric == Permutations(Keys) \cup Permutations(Idents)

=============================================================================
