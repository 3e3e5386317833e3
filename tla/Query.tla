------------------------------- MODULE Query -------------------------------
(***************************************************************************)
(* A CIF_QUERY_REQUEST in cif-db: the handler of db/src/poc-db.py with     *)
(* DB/Query.py, which decodes a query and scans the index tables, server   *)
(* by server, while the Indexer puts rows into them and the Purger and     *)
(* db-fsck delete rows.                                                    *)
(*                                                                         *)
(* Text is a sequence of pieces: <<"example", ".", "com">>,                *)
(* <<"http://a", "/b">>, <<"sha1", "x">>.  An IPv4 address is              *)
(* <<network, host>>, a network <<network>>.  A rowkey is a record instead *)
(* of packed bytes, its fields being of fixed width but for the last.      *)
(***************************************************************************)
EXTENDS Integers, SequencesExt

CONSTANTS
    Enum,          \* index.primary.* of the registry: name -> number ...
    Groups,        \* ... or, for a group, name -> its members' names
    Secondaries,   \* index.secondary: a sequence of names
    NumServers,    \* hadoop.num_servers
    BatchSize,     \* puts an Indexer's batch collects before it is sent
    Documents,     \* documents in cif_objs: [type, content]
    Queries,       \* bound: the queries asked
    MaxQueries,    \* bound: queries in the request
    MaxIndexings,  \* bound: documents handed to the Indexer, again ones included
    MaxDeletes,    \* bound: rows deleted
    MaxFaults      \* bound: HBase calls of the handler that raise

ASSUME SecondariesAssumption == Secondaries \in Seq(STRING)
ASSUME SizesAssumption == NumServers \in Nat \ {0} /\ BatchSize \in Nat \ {0}
ASSUME EnumAssumption ==
    /\ {"ipv4", "ipv6", "domain", "url", "malware", "search"} \subseteq DOMAIN Enum
    /\ \A m, n \in DOMAIN Enum : Enum[m] \in Nat /\ (Enum[m] = Enum[n] => m = n)

\* infrastructure = ipv4, ipv6: the only group of the default registry.  A range of two
\* neighbours is what a query can scan.
ASSUME GroupsAssumption ==
    \A g \in DOMAIN Groups :
        /\ g \notin DOMAIN Enum
        /\ Groups[g] \in Seq(DOMAIN Enum) /\ Len(Groups[g]) = 2
        /\ Enum[Groups[g][2]] = Enum[Groups[g][1]] + 1

\* An address has a category of the registry.
Address ==
    {a \in [kind : DOMAIN Enum, value : Seq(STRING)] : a.kind = "ipv4" => Len(a.value) \in 1..2}
NoLimiter == [kind |-> "", value |-> <<>>]

ASSUME DocumentsAssumption == \A d \in Documents : d.content \in Seq(Address)
\* A query names an index or is a limiter.
ASSUME QueriesAssumption ==
    \A q \in Queries : /\ q.lim = NoLimiter \/ q.lim \in Address
                       /\ q.pri = "" => q.lim # NoLimiter

VARIABLES
    tables,        \* index tables that exist, by the name of the secondary index
    rows,          \* their rows: [table, server, type, key, doc]
    batch,         \* the batch of the Indexer of each secondary index
    salt,          \* and its salt
    indexed,       \* how often a document was indexed (history)
    deletes,       \* rows deleted
    pc,            \* where the handler is
    request,       \* the queries it has not answered yet
    status,        \* of the reply
    responses,     \* of the reply: [query, found, lasting]; lasting is a history
    failed,        \* queries that raised (history)
    available,     \* Query.available_tables
    todo,          \* scans left: <<server, secondary>>
    found,         \* rows whose documents are in the response so far
    lasting,       \* rows in the tables ever since the query began (history)
    faults         \* HBase calls that raised

index   == <<tables, rows, batch, salt, indexed, deletes>>
handler == <<pc, request, status, responses, failed, available, todo, found, faults>>
vars    == <<index, handler, lasting>>

Types      == {d.type : d \in Documents}
NoDoc      == [type |-> "None", content |-> <<>>]    \* the string "None"

Init ==
    /\ tables = {} /\ rows = {} /\ deletes = 0
    /\ batch = [t \in Types |-> <<>>] /\ salt = [t \in Types |-> 0]
    /\ indexed = [d \in Documents |-> 0]
    /\ pc = "idle" /\ request = <<>> /\ status = "" /\ responses = <<>> /\ failed = {}
    /\ available = {} /\ todo = <<>> /\ found = {} /\ lasting = {} /\ faults = 0

-----------------------------------------------------------------------------
(* Names and rowkeys.                                                      *)

EnumOf(name) ==
    CASE name \in DOMAIN Enum   -> <<Enum[name]>>
      [] name \in DOMAIN Groups -> [i \in DOMAIN Groups[name] |-> Enum[Groups[name][i]]]
      [] OTHER                  -> <<>>

SecondaryExists(name) == name \in ToSet(Secondaries)

\* A network packs to its first address, a name is reversed.
Pack(kind, v) ==
    CASE kind = "ipv4" /\ Len(v) = 1   -> Append(v, "0")
      [] kind \in {"domain", "email"} -> Reverse(v)
      [] OTHER                        -> v

\* ipv6.pack names a variable it does not have, and asn.pack is given a string.
PackRaises(kind) == kind \in {"ipv6", "asn"}

-----------------------------------------------------------------------------
(* The Indexer, the Purger and db-fsck.                                    *)

\* ASNs are packed as IPv6 addresses; for an e-mail address, as for any other category
\* with a number, extract() takes the length of the number.
IndexRaises(kind) == PackRaises(kind) \/ kind \in {"email", "search"}

\* The addresses of a document up to the first one that raises.
Committed(content) ==
    SelectInSubSeq(content, 1, Len(content), LAMBDA a : IndexRaises(a.kind))
Addresses(content) ==
    IF Committed(content) = 0 THEN content ELSE SubSeq(content, 1, Committed(content) - 1)

\* Mutated: salts are numbered from one.
SaltFromOne(t, packed) == 1 + ((salt[t] + 2 * packed + NumServers - 1) % NumServers)

\* extract() draws a salt and drops it, the packing of the rowkey draws another.
SaltAfter(t, packed) == (salt[t] + 2 * packed) % NumServers

\* Mutated: commit() does not reset the rowkey of the document.
PutsNoReset(d) ==
    LET as == Addresses(d.content)
    IN [i \in DOMAIN as |->
           [table |-> d.type, server |-> SaltAfter(d.type, i), type |-> Enum[as[i].kind],
            key |-> Pack(as[i].kind, as[i].value), doc |-> d]]

\* commit() ends with reset(): the row of a second address is about no document.
Puts(d) ==
    LET as == Addresses(d.content)
    IN [i \in DOMAIN as |->
           [table |-> d.type, server |-> SaltAfter(d.type, i), type |-> Enum[as[i].kind],
            key |-> Pack(as[i].kind, as[i].value), doc |-> IF i = 1 THEN d ELSE NoDoc]]

\* A failing ipv6 or asn has drawn its salts.
Packed(d) ==
    LET n == Committed(d.content)
    IN IF n # 0 /\ PackRaises(d.content[n].kind) THEN n ELSE Len(Addresses(d.content))

SameKey(r, s) == r.table = s.table /\ r.server = s.server /\ r.type = s.type /\ r.key = s.key

\* Rows after the first n puts of a sequence: a put replaces the row with its rowkey.
RowsAfter(puts, n) ==
    {r \in rows : \A i \in 1..n : ~ SameKey(r, puts[i])}
    \cup {puts[i] : i \in {j \in 1..n : \A k \in (j+1)..n : ~ SameKey(puts[j], puts[k])}}

\* The Exploder hands a document to the Indexer of its type, which creates the table.
Index(d) ==
    LET puts == batch[d.type] \o Puts(d)
        sent == (Len(puts) \div BatchSize) * BatchSize
    IN /\ FoldFunction(+, 0, indexed) < MaxIndexings
       /\ indexed' = [indexed EXCEPT ![d] = @ + 1]
       /\ tables' = tables \cup {d.type}
       /\ rows' = RowsAfter(puts, sent) /\ lasting' = lasting \cap rows'
       /\ batch' = [batch EXCEPT ![d.type] = SubSeq(puts, sent + 1, Len(puts))]
       /\ salt' = [salt EXCEPT ![d.type] = SaltAfter(d.type, Packed(d))]
       /\ UNCHANGED <<deletes, handler>>

Delete(r) ==
    /\ deletes < MaxDeletes /\ deletes' = deletes + 1
    /\ rows' = rows \ {r} /\ lasting' = lasting \ {r}
    /\ UNCHANGED <<tables, batch, salt, indexed, handler>>

\* The Purger walks through the configured indexes and all servers; ages are in Store.
Purge(r) == SecondaryExists(r.table) /\ Delete(r)

\* db-fsck -f deletes the rows whose document does not exist.
Repair(r) == r.doc = NoDoc /\ Delete(r)

-----------------------------------------------------------------------------
(* Query.decode_query.                                                     *)

\* What a limiter is taken for.  IPy reads 32 hexadecimal digits as an IPv6 address; the
\* expression for domain names knows names of two labels.
GuessTypeOf(l) ==
    CASE l.kind = "malware" /\ l.value[1] = "md5" -> "ipv6"
      [] l.kind = "domain" /\ Cardinality({i \in DOMAIN l.value : l.value[i] = "."}) # 1 -> "search"
      [] OTHER -> l.kind

Limited(q) == q.lim # NoLimiter

\* "Limiter mismatched with primary index".
Mismatched(q) ==
    q.pri # "" /\ Limited(q) /\ Enum[GuessTypeOf(q.lim)] \notin ToSet(EnumOf(q.pri))

\* Mutated: a group has no number.
DecodedNoGroups(q) == q.pri = "" \/ (q.pri \in DOMAIN Enum /\ SecondaryExists(q.sec))

\* With an unknown name decode_query returns a dictionary with nothing in it.
Decoded(q) == q.pri = "" \/ (EnumOf(q.pri) # <<>> /\ SecondaryExists(q.sec))

PrimariesOf(q)  == IF Limited(q) THEN <<Enum[GuessTypeOf(q.lim)]>> ELSE EnumOf(q.pri)
SecondariesOf(q) == IF q.pri # "" /\ Decoded(q) THEN <<q.sec>> ELSE Secondaries

\* Mutated: range(1, num_servers).
ScansFromOne(q) ==
    [n \in 1..(NumServers - 1) * Len(SecondariesOf(q)) |->
        <<1 + ((n - 1) \div Len(SecondariesOf(q))),
          SecondariesOf(q)[1 + ((n - 1) % Len(SecondariesOf(q)))]>>]

\* The two loops: servers outside, secondaries inside.
Scans(q) ==
    [n \in 1..NumServers * Len(SecondariesOf(q)) |->
        <<(n - 1) \div Len(SecondariesOf(q)),
          SecondariesOf(q)[1 + ((n - 1) % Len(SecondariesOf(q)))]>>]

-----------------------------------------------------------------------------
(* The handler.                                                            *)

Receive(queries) ==
    /\ pc = "idle" /\ pc' = "open"
    /\ request' = queries /\ status' = "SUCCESS"
    /\ UNCHANGED <<index, responses, failed, available, todo, found, lasting, faults>>

\* execqr raised: no response for this query, on with the next.
Fail ==
    /\ status' = "FAILED" /\ failed' = failed \cup {Head(request)}
    /\ request' = Tail(request) /\ pc' = "open"
    /\ UNCHANGED <<responses, todo, found, lasting>>

\* Query() and decode_query().
Open ==
    /\ pc = "open" /\ request # <<>>
    /\ available' = tables
    /\ IF Mismatched(Head(request)) THEN Fail
       ELSE /\ pc' = "scan" /\ todo' = Scans(Head(request))
            /\ found' = {} /\ lasting' = rows
            /\ UNCHANGED <<request, status, responses, failed>>
    /\ UNCHANGED <<index, faults>>

\* A prefix for one primary, a range without its end for two, no scan for any other number.
InRange(q, type) ==
    LET p == PrimariesOf(q)
    IN CASE Len(p) = 1 -> type = p[1]
         [] Len(p) = 2 -> p[1] <= type /\ type < p[2]
         [] OTHER      -> FALSE

\* Mutated: the prefix ends before the limiter.
ScannedUnlimited(q, server, secondary) ==
    {r \in rows : r.table = secondary /\ r.server = server /\ InRange(q, r.type)}

Scanned(q, server, secondary) ==
    {r \in rows : /\ r.table = secondary /\ r.server = server /\ InRange(q, r.type)
                  /\ Limited(q) => IsPrefix(Pack(GuessTypeOf(q.lim), q.lim.value), r.key)}

\* The scan and the rows of cif_objs it leads to, of which the columns that are no
\* references are taken; there is no row "None".  Rows come in few and are fetched at once.
Scan ==
    LET q == Head(request)  next == Head(todo)
    IN /\ pc = "scan" /\ todo # <<>>
       /\ \/ /\ next[2] \notin available
             /\ UNCHANGED found
          \/ /\ next[2] \in available /\ Decoded(q)
             /\ Limited(q) => ~ PackRaises(GuessTypeOf(q.lim))
             /\ found' = found \cup {r \in Scanned(q, next[1], next[2]) : r.doc # NoDoc}
       /\ todo' = Tail(todo)
       /\ UNCHANGED <<index, pc, request, status, responses, failed, available, lasting, faults>>

\* decoded_query['primary'] is not there, or the limiter cannot be packed.
ScanRaises ==
    LET q == Head(request)
    IN /\ pc = "scan" /\ todo # <<>> /\ Head(todo)[2] \in available
       /\ ~ Decoded(q) \/ (Limited(q) /\ PackRaises(GuessTypeOf(q.lim)))
       /\ Fail /\ UNCHANGED <<index, available, faults>>

Respond ==
    /\ pc = "scan" /\ todo = <<>>
    /\ responses' = Append(responses, [query |-> Head(request), found |-> found, lasting |-> lasting])
    /\ request' = Tail(request) /\ pc' = "open"
    /\ UNCHANGED <<index, status, failed, available, todo, found, lasting, faults>>

Send ==
    /\ pc = "open" /\ request = <<>> /\ pc' = "sent"
    /\ UNCHANGED <<index, request, status, responses, failed, available, todo, found, lasting, faults>>

\* An HBase call raises: within execqr, or in Query(), which nobody guards.
ScanFails ==
    /\ pc = "scan" /\ todo # <<>> /\ faults < MaxFaults /\ faults' = faults + 1
    /\ Fail /\ UNCHANGED <<index, available>>
OpenDies ==
    /\ pc = "open" /\ request # <<>> /\ faults < MaxFaults /\ faults' = faults + 1
    /\ pc' = "dead"
    /\ UNCHANGED <<index, request, status, responses, failed, available, todo, found, lasting>>

-----------------------------------------------------------------------------

Work == Open \/ Scan \/ ScanRaises \/ Respond \/ Send \/ ScanFails \/ OpenDies

Next ==
    \/ \E d \in Documents : Index(d)
    \/ \E r \in rows : Purge(r) \/ Repair(r)
    \/ \E queries \in UNION {[1..n -> Queries] : n \in 1..MaxQueries} : Receive(queries)
    \/ Work

Spec == Init /\ [][Next]_vars

-----------------------------------------------------------------------------
(* Properties.                                                             *)

Row == [table : Types, server : 0..(NumServers - 1), type : {Enum[n] : n \in DOMAIN Enum},
        key : {Pack(a.kind, a.value) : a \in UNION {ToSet(d.content) : d \in Documents}},
        doc : Documents \cup {NoDoc}]

TypeOK ==
    /\ tables \subseteq Types /\ rows \subseteq Row
    /\ \A t \in Types : batch[t] \in Seq(Row) /\ salt[t] \in 0..(NumServers - 1)
    /\ indexed \in [Documents -> Nat] /\ deletes \in Nat /\ faults \in Nat
    /\ pc \in {"idle", "open", "scan", "sent", "dead"}
    /\ request \in Seq(Queries) /\ failed \subseteq Queries
    /\ status \in {"", "SUCCESS", "FAILED"}
    /\ available \subseteq tables /\ found \subseteq Row /\ lasting \subseteq Row
    /\ todo \in Seq((0..(NumServers - 1)) \X (ToSet(Secondaries) \cup {q.sec : q \in Queries}))
    /\ responses \in Seq([query : Queries, found : SUBSET Row, lasting : SUBSET Row])

\* What a query asks for, told from the addresses in documents and not from rowkeys.  A
\* limiter covers an address that it begins (a network, a URL), or ends (a domain).
Covers(l, a) ==
    l.kind = a.kind /\ IF l.kind = "domain" THEN IsSuffix(l.value, a.value)
                                            ELSE IsPrefix(l.value, a.value)
Members(name)   == IF name \in DOMAIN Groups THEN ToSet(Groups[name]) ELSE {name}
InIndex(q, r)   == /\ q.pri # "" => r.doc.content[1].kind \in Members(q.pri) /\ r.table = q.sec
                   /\ SecondaryExists(r.table)
AsksFor(q, r)   == InIndex(q, r) /\ (Limited(q) => Covers(q.lim, r.doc.content[1]))

\* Nobody gets a report they did not ask for: the first address of each document in a
\* response is one the query asks for, or a network that the limiter is in.
AnswersMatch ==
    \A i \in DOMAIN responses : \A r \in responses[i].found :
        LET q == responses[i].query
        IN AsksFor(q, r) \/ (InIndex(q, r) /\ Covers(r.doc.content[1], q.lim))

\* A row that is in the table from the beginning of a query to its end is in the response
\* if the query asks for the address its document reports, whatever else is put and
\* deleted meanwhile.  It holds for limiters that are taken for what they are, and are no
\* networks.
Understood(q) ==
    Limited(q) => GuessTypeOf(q.lim) = q.lim.kind /\ (q.lim.kind = "ipv4" => Len(q.lim.value) = 2)
Complete(q, resp) == {r \in resp.lasting : r.doc # NoDoc /\ AsksFor(q, r)} \subseteq resp.found
AnswersComplete ==
    \A i \in DOMAIN responses :
        Understood(responses[i].query) => Complete(responses[i].query, responses[i])

\* "pack 10.10.0.0 onto the start and 10.10.255.255 onto the end rowkey": the same for a
\* limiter that is a network.
NetworksComplete ==
    \A i \in DOMAIN responses :
        LET q == responses[i].query
        IN Limited(q) /\ q.lim.kind = "ipv4" => Complete(q, responses[i])

\* The servers are scanned one after the other and have rows of their own, but a document
\* that is in a response twice was also indexed twice.
TwiceOnlyIfIndexedTwice ==
    \A i \in DOMAIN responses : \A r, s \in responses[i].found :
        r # s /\ r.doc = s.doc => indexed[r.doc] > 1

\* A query gets no response only if HBase raised or the query is to blame: it names an index
\* that is not configured, or its limiter is, or is taken for, something else than the index
\* holds, an IPv6 address or an ASN.
FailsForAReason ==
    \A q \in failed :
        \/ faults > 0
        \/ q.pri # "" /\ (Members(q.pri) \cap DOMAIN Enum = {} \/ ~ SecondaryExists(q.sec))
        \/ Limited(q) /\ GuessTypeOf(q.lim) \in {"ipv6", "asn"}
        \/ Limited(q) /\ q.pri # "" /\ GuessTypeOf(q.lim) \notin Members(q.pri)

=============================================================================
