------------------------------ MODULE RouterMC ------------------------------
(* Instances of Router for model checking: the API key records in play.    *)
EXTENDS Router, TLC

Good     == [revoked |-> FALSE, expires |-> 0]
Expiring == [revoked |-> FALSE, expires |-> 1]

OnlyGood    == {Good}
OnlyExpiring == {Expiring}

Symmetric == Permutations(Clients) \cup Permutations(Keys)

=============================================================================
