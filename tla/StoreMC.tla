------------------------------ MODULE StoreMC ------------------------------
(* Instances of Store for model checking: what documents mention.          *)
EXTENDS Store

CONSTANTS addr1, addr2, addr6

Mentions == <<{<<addr1, addr2>>}, {<<addr1, addr6>>}, {<<addr2, addr1>>}>>

=============================================================================
