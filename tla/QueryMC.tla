------------------------------ MODULE QueryMC ------------------------------
(* Instances of Query for model checking: the default registry, documents  *)
(* and queries.                                                            *)
EXTENDS Query

DefaultEnum ==
    [n \in {"ipv4", "ipv6", "domain", "url", "email", "search", "malware", "asn"} |->
        CASE n = "ipv4"  -> 0 [] n = "ipv6"   -> 1 [] n = "domain"  -> 2 [] n = "url" -> 3
          [] n = "email" -> 4 [] n = "search" -> 5 [] n = "malware" -> 6 [] n = "asn" -> 7]
DefaultGroups == [n \in {"infrastructure"} |-> <<"ipv4", "ipv6">>]
TwoSecondaries == <<"botnet", "scan">>

A(kind, value) == [kind |-> kind, value |-> value]
ip   == A("ipv4", <<"10.10", "1">>)
ip2  == A("ipv4", <<"10.10", "2">>)
net  == A("ipv4", <<"10.10">>)
ip6  == A("ipv6", <<"::1">>)
dom  == A("domain", <<"x", "example", ".", "com">>)
url  == A("url", <<"http://a", "/b">>)
sha1 == A("malware", <<"sha1", "x">>)

\* Two addresses, a name and an address, one that cannot be indexed whole, and a hash in a
\* report of a type that is not configured.
SomeDocuments ==
    {[type |-> "botnet", content |-> <<ip, ip2>>], [type |-> "botnet", content |-> <<dom, ip>>],
     [type |-> "scan", content |-> <<url, ip6, ip>>],
     [type |-> "other", content |-> <<sha1>>]}
Q(pri, sec, lim) == [pri |-> pri, sec |-> sec, lim |-> lim]
SomeQueries ==
    {Q("infrastructure", "botnet", NoLimiter), Q("url", "scan", NoLimiter),
     Q("", "", A("domain", <<"example", ".", "com">>)), Q("", "", A("url", <<"http://a">>)),
     Q("infrastructure", "botnet", ip), Q("", "", ip2), Q("", "", net), Q("malware", "other", NoLimiter),
     Q("url", "botnet", ip), Q("", "", A("malware", <<"md5", "x">>)),
     Q("", "", A("domain", <<"www", ".", "example", ".", "com">>))}

NetworkDocuments == {[type |-> "botnet", content |-> <<ip>>], [type |-> "botnet", content |-> <<net>>]}
NetworkQueries   == {Q("", "", net)}

=============================================================================
