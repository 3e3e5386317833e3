------------------------------- MODULE Router -------------------------------
(***************************************************************************)
(* The event loop of cif-router (router/poc/cif-router.py) with the tables *)
(* it keeps: the registered clients, the two wait maps of clients whose    *)
(* API key is being looked up, and the publishers it subscribed to.        *)
(*                                                                         *)
(* The loop is one thread, so each handler is one action; a request is     *)
(* received and handled in the same step, since a message may be delayed   *)
(* for any time before it is received.  The mini client is taken at its    *)
(* promise, module KeyLookup, whose variables this module shares.          *)
(***************************************************************************)
EXTENDS Integers, Sequences, FiniteSets

CONSTANTS
    Clients,        \* names of the ordinary clients; a name is also a zmq identity
    Keys,           \* the API keys they present
    Records,        \* API key records cif-db may hold: [revoked, expires]
    Ports,          \* ports publishers bind
    Commands,       \* bound: the commands clients send
    MaxRequests,    \* bound: requests the router receives
    MaxDbStarts,    \* bound: times cif-db registers
    MaxTime,        \* bound: last clock reading
    Lossy           \* TRUE: a lookup may come to nothing

ASSUME RecordsAssumption ==
    \A r \in Records : r.revoked \in BOOLEAN /\ r.expires \in Nat
ASSUME BoundsAssumption == MaxRequests \in Nat /\ MaxDbStarts \in Nat /\ MaxTime \in Nat \ {0}
ASSUME NamesAssumption == {"cif-db", "cif-router-miniclient"} \cap Clients = {}

VARIABLES
    open_for_business,
    miniclient,           \* "none", "started" or "registered"
    db_starts,            \* how often cif-db has registered
    clients,              \* client name -> API key it registered with
    register_wait_map,    \* API key -> request waiting for its record
    unregister_wait_map,  \* likewise
    publishers,           \* client name -> ports the router's xsub connected to
    stats,                \* counters of RouterStats
    log,                  \* the requests received, each with the answers sent
    now,
    asked, outstanding, pending, held    \* of KeyLookup

lookupVars == <<asked, outstanding, pending, held>>
waitMaps   == <<register_wait_map, unregister_wait_map>>
vars == <<open_for_business, miniclient, db_starts, clients, waitMaps, publishers, stats, log,
          now, lookupVars>>

Lookup == INSTANCE KeyLookup

-----------------------------------------------------------------------------
(* Messages.                                                               *)

SUCCESS      == 1
FAILED       == 2
UNAUTHORIZED == 3     \* which is also SUCCESS | FAILED
Status       == {SUCCESS, FAILED, UNAUTHORIZED}

\* Mutated: the statuses are added.
StatusSum(a, b) == a + b

\* Bitwise or of two statuses.
StatusOr(a, b) == IF a = b THEN a ELSE UNAUTHORIZED

Command == {"REGISTER", "UNREGISTER", "LISTCLIENTS", "STATS", "THREADS_LIST", "PING",
            "IPUBLISH", "FORWARD"}
ASSUME CommandsAssumption == Commands \subseteq Command \cup {"UNUSABLE"}
Counters == [controls : Nat, bad : Nat, bad_version : Nat]
NoPort  == 0
Answer  == [status : Status, at : 0..MaxTime]
Request == [cmd : Command, src : Clients, key : Keys, port : Ports \cup {NoPort},
            noted : BOOLEAN, answers : Seq(Answer)]

With(table, k, v) == [x \in DOMAIN table \cup {k} |-> IF x = k THEN v ELSE table[x]]
Without(table, k) == [x \in DOMAIN table \ {k} |-> table[x]]
Empty == [x \in {} |-> x]

\* The sequence id of the request being received, and the request logged with the
\* answer given on the spot, or none.
Seq0 == Len(log) + 1
AnswerNow(status) == <<[status |-> status, at |-> now]>>
NoAnswer == <<>>

Receive(cmd, c, k, port, noted, answers) ==
    /\ Len(log) + stats.bad + stats.bad_version < MaxRequests /\ cmd \in Commands
    /\ log' = Append(log, [cmd |-> cmd, src |-> c, key |-> k, port |-> port,
                           noted |-> noted, answers |-> answers])
    /\ stats' = IF cmd = "FORWARD" THEN stats ELSE [stats EXCEPT !.controls = @ + 1]

\* A late answer to request i.
Reply(i, status) ==
    log' = [log EXCEPT ![i].answers = Append(@, [status |-> status, at |-> now])]

\* The router's own test of a record.
Valid(r, t) == ~r.revoked /\ (r.expires = 0 \/ r.expires >= t)

Init ==
    /\ open_for_business = FALSE /\ miniclient = "none" /\ db_starts = 0
    /\ clients = Empty /\ register_wait_map = Empty /\ unregister_wait_map = Empty
    /\ publishers = Empty
    /\ stats = [controls |-> 0, bad |-> 0, bad_version |-> 0]
    /\ log = <<>> /\ now = 1
    /\ Lookup!Idle /\ held \in [Keys -> {{r} : r \in Records} \cup {{}}]

-----------------------------------------------------------------------------
(* cif-db and the mini client.                                             *)

\* REGISTER of cif-db: the router opens and starts a new mini client, whatever the
\* one before was doing.
DbRegister ==
    /\ db_starts < MaxDbStarts
    /\ db_starts' = db_starts + 1
    /\ clients' = With(clients, "cif-db", "dbkey")
    /\ open_for_business' = TRUE
    /\ miniclient' = "started"
    /\ Lookup!Restart
    /\ stats' = [stats EXCEPT !.controls = @ + 1]
    /\ UNCHANGED <<waitMaps, publishers, log, now>>

\* UNREGISTER of cif-db: Clients.unregister does nothing.
DbUnregister ==
    /\ open_for_business
    /\ open_for_business' = FALSE
    /\ stats' = [stats EXCEPT !.controls = @ + 1]
    /\ UNCHANGED <<miniclient, db_starts, clients, waitMaps, publishers, log, now, lookupVars>>

\* REGISTER of the mini client, over the same socket as everybody else.
MiniClientRegister ==
    /\ miniclient = "started"
    /\ miniclient' = "registered"
    /\ clients' = With(clients, "cif-router-miniclient", "routerkey")
    /\ stats' = [stats EXCEPT !.controls = @ + 1]
    /\ UNCHANGED <<open_for_business, db_starts, waitMaps, publishers, log, now, lookupVars>>

-----------------------------------------------------------------------------
(* REGISTER and UNREGISTER of ordinary clients.                            *)

\* While open the request is noted under its key and the key looked up; while closed
\* there is neither.
Register(c, k) ==
    /\ Receive("REGISTER", c, k, NoPort, open_for_business, NoAnswer)
    /\ IF open_for_business
       THEN /\ Lookup!Ask(k)
            /\ register_wait_map' = With(register_wait_map, k, Seq0)
       ELSE UNCHANGED <<lookupVars, register_wait_map>>
    /\ UNCHANGED <<open_for_business, miniclient, db_starts, clients, unregister_wait_map,
                   publishers, now>>

Unregister(c, k) ==
    /\ Receive("UNREGISTER", c, k, NoPort, open_for_business, NoAnswer)
    /\ IF open_for_business
       THEN /\ Lookup!Ask(k)
            /\ unregister_wait_map' = With(unregister_wait_map, k, Seq0)
       ELSE UNCHANGED <<lookupVars, unregister_wait_map>>
    /\ UNCHANGED <<open_for_business, miniclient, db_starts, clients, register_wait_map,
                   publishers, now>>

\* Mutated: the expiry is not looked at.
VerdictOnRevokedOnly(k) == IF pending[k].revoked THEN FAILED ELSE SUCCESS

\* handle_miniclient_reply for one pending key: whoever registers with it is served,
\* else whoever unregisters, else nobody; the result is dropped in every case.
Verdict(k) == IF Valid(pending[k], now) THEN SUCCESS ELSE FAILED

\* Mutated: the request stays in the wait map.
ReplyToRegisterKeepsEntry(k) ==
    /\ k \in DOMAIN pending /\ k \in DOMAIN register_wait_map
    /\ Reply(register_wait_map[k], Verdict(k))
    /\ clients' = IF Verdict(k) = SUCCESS
                  THEN With(clients, log[register_wait_map[k]].src, k) ELSE clients
    /\ Lookup!Take(k)
    /\ UNCHANGED <<open_for_business, miniclient, db_starts, waitMaps, publishers, stats, now>>

\* Mutated: the client is registered whatever the verdict.
ReplyToRegisterAnyway(k) ==
    /\ k \in DOMAIN pending /\ k \in DOMAIN register_wait_map
    /\ Reply(register_wait_map[k], Verdict(k))
    /\ clients' = With(clients, log[register_wait_map[k]].src, k)
    /\ register_wait_map' = Without(register_wait_map, k)
    /\ Lookup!Take(k)
    /\ UNCHANGED <<open_for_business, miniclient, db_starts, unregister_wait_map, publishers,
                   stats, now>>

ReplyToRegister(k) ==
    /\ k \in DOMAIN pending /\ k \in DOMAIN register_wait_map
    /\ Reply(register_wait_map[k], Verdict(k))
    /\ clients' = IF Verdict(k) = SUCCESS
                  THEN With(clients, log[register_wait_map[k]].src, k) ELSE clients
    /\ register_wait_map' = Without(register_wait_map, k)
    /\ Lookup!Take(k)
    /\ UNCHANGED <<open_for_business, miniclient, db_starts, unregister_wait_map, publishers,
                   stats, now>>

\* Mutated: the entry of the wrong map is deleted.
ReplyToUnregisterWrongMap(k) ==
    /\ k \in DOMAIN pending
    /\ k \notin DOMAIN register_wait_map /\ k \in DOMAIN unregister_wait_map
    /\ Reply(unregister_wait_map[k], Verdict(k))
    /\ register_wait_map' = Without(register_wait_map, k)
    /\ Lookup!Take(k)
    /\ UNCHANGED <<open_for_business, miniclient, db_starts, clients, unregister_wait_map,
                   publishers, stats, now>>

ReplyToUnregister(k) ==
    /\ k \in DOMAIN pending
    /\ k \notin DOMAIN register_wait_map /\ k \in DOMAIN unregister_wait_map
    /\ Reply(unregister_wait_map[k], Verdict(k))
    /\ unregister_wait_map' = Without(unregister_wait_map, k)
    /\ Lookup!Take(k)
    /\ UNCHANGED <<open_for_business, miniclient, db_starts, clients, register_wait_map,
                   publishers, stats, now>>

\* Mutated: a result is dropped although a client waits for it.
DropAnyResult(k) ==
    /\ k \in DOMAIN pending
    /\ Lookup!Take(k)
    /\ UNCHANGED <<open_for_business, miniclient, db_starts, clients, waitMaps, publishers,
                   stats, log, now>>

DropResult(k) ==
    /\ k \in DOMAIN pending
    /\ k \notin DOMAIN register_wait_map \cup DOMAIN unregister_wait_map
    /\ Lookup!Take(k)
    /\ UNCHANGED <<open_for_business, miniclient, db_starts, clients, waitMaps, publishers,
                   stats, log, now>>

-----------------------------------------------------------------------------
(* The other commands for the router.                                      *)

IsRegistered(c, k) == c \in DOMAIN clients /\ clients[c] = k

\* A status the sender leaves unset reads as the enumeration's first value, SUCCESS.
ListClientsStatus(registered) ==
    LET failed == StatusOr(SUCCESS, FAILED)
    IN IF registered THEN StatusOr(failed, SUCCESS) ELSE failed

ListClients(c, k) ==
    /\ Receive("LISTCLIENTS", c, k, NoPort, FALSE,
               IF open_for_business
               THEN AnswerNow(ListClientsStatus(IsRegistered(c, k))) ELSE NoAnswer)
    /\ UNCHANGED <<open_for_business, miniclient, db_starts, clients, waitMaps, publishers,
                   now, lookupVars>>

Stats(c, k) ==
    /\ Receive("STATS", c, k, NoPort, FALSE,
               IF open_for_business THEN AnswerNow(SUCCESS) ELSE NoAnswer)
    /\ UNCHANGED <<open_for_business, miniclient, db_starts, clients, waitMaps, publishers,
                   now, lookupVars>>

\* THREADS_LIST and PING are answered even while closed.
AlwaysAnswered(c, k) ==
    /\ \E cmd \in {"THREADS_LIST", "PING"} :
          Receive(cmd, c, k, NoPort, FALSE, AnswerNow(SUCCESS))
    /\ UNCHANGED <<open_for_business, miniclient, db_starts, clients, waitMaps, publishers,
                   now, lookupVars>>

\* PubSubMgr.dosubscribe: a publisher seen before keeps its old connection, a registered
\* one with its own key is connected to, anyone else fails.
Known(c) == c \in DOMAIN publishers

IPublish(c, k, port) ==
    /\ LET ok == Known(c) \/ IsRegistered(c, k)
       IN Receive("IPUBLISH", c, k, port, FALSE,
                  IF open_for_business
                  THEN AnswerNow(IF ok THEN SUCCESS ELSE FAILED) ELSE NoAnswer)
    /\ publishers' = IF open_for_business /\ ~Known(c) /\ IsRegistered(c, k)
                     THEN With(publishers, c, port) ELSE publishers
    /\ UNCHANGED <<open_for_business, miniclient, db_starts, clients, waitMaps, now, lookupVars>>

\* A message for somebody else is passed on if its destination is in the clients table
\* and dropped otherwise; the router's state stays.
Forward(c, k) ==
    /\ Receive("FORWARD", c, k, NoPort, FALSE, NoAnswer)
    /\ UNCHANGED <<open_for_business, miniclient, db_starts, clients, waitMaps, publishers,
                   now, lookupVars>>

\* Not a protobuf, or of another version.  (One without source or key changes nothing.)
Unusable ==
    /\ "UNUSABLE" \in Commands /\ Len(log) + stats.bad + stats.bad_version < MaxRequests
    /\ \E field \in {"bad", "bad_version"} : stats' = [stats EXCEPT ![field] = @ + 1]
    /\ UNCHANGED <<open_for_business, miniclient, db_starts, clients, waitMaps, publishers,
                   log, now, lookupVars>>

-----------------------------------------------------------------------------
(* The lookup service, cif-db's key table and the clock.                   *)

LookupUnchanged == UNCHANGED <<open_for_business, miniclient, db_starts, clients, waitMaps,
                               publishers, stats, log, now>>

LookupResult(k, r) == Lookup!Produce(k, r) /\ LookupUnchanged
LookupLost(k)      == Lossy /\ Lookup!Lose(k) /\ LookupUnchanged
KeyUpdate(k, r)    == r \notin held[k] /\ Lookup!Update(k, r) /\ LookupUnchanged

Tick ==
    /\ now < MaxTime /\ now' = now + 1
    /\ UNCHANGED <<open_for_business, miniclient, db_starts, clients, waitMaps, publishers,
                   stats, log, lookupVars>>

-----------------------------------------------------------------------------

HandlePending(k) == ReplyToRegister(k) \/ ReplyToUnregister(k) \/ DropResult(k)
SomeResult(k)    == \E r \in Records : LookupResult(k, r)

Next ==
    \/ DbRegister \/ DbUnregister \/ MiniClientRegister
    \/ \E c \in Clients, k \in Keys :
          \/ Register(c, k) \/ Unregister(c, k) \/ ListClients(c, k) \/ Stats(c, k)
          \/ AlwaysAnswered(c, k) \/ Forward(c, k)
          \/ \E port \in Ports : IPublish(c, k, port)
    \/ Unusable \/ Tick
    \/ \E k \in Keys : HandlePending(k) \/ SomeResult(k) \/ LookupLost(k)
                       \/ \E r \in Records : KeyUpdate(k, r)

\* The loop polls the mini client at least once a second, and a lookup that is neither
\* lost nor without a record yields its result.  Requests, restarts, updates and the
\* clock are not fair.
Fairness == \A k \in Keys : WF_vars(HandlePending(k)) /\ WF_vars(SomeResult(k))

Spec     == Init /\ [][Next]_vars
FairSpec == Spec /\ Fairness

-----------------------------------------------------------------------------
(* Properties.                                                             *)

Names == Clients \cup {"cif-db", "cif-router-miniclient"}

TypeOK ==
    /\ open_for_business \in BOOLEAN
    /\ miniclient \in {"none", "started", "registered"}
    /\ db_starts \in 0..MaxDbStarts
    /\ DOMAIN clients \subseteq Names
    /\ \A c \in DOMAIN clients \cap Clients : clients[c] \in Keys
    /\ DOMAIN register_wait_map \subseteq Keys /\ DOMAIN unregister_wait_map \subseteq Keys
    /\ \A k \in DOMAIN register_wait_map : register_wait_map[k] \in DOMAIN log
    /\ \A k \in DOMAIN unregister_wait_map : unregister_wait_map[k] \in DOMAIN log
    /\ DOMAIN publishers \subseteq Clients /\ \A c \in DOMAIN publishers : publishers[c] \in Ports
    /\ stats \in Counters
    /\ log \in Seq(Request)
    /\ now \in 0..MaxTime
    /\ Lookup!TypeOK

\* No key is accepted on the mini client's word alone: behind each SUCCESS sent to a
\* client that registers or unregisters there is a record cif-db holds or held for that
\* very key, not revoked, and not expired when the answer was sent.
VerdictsHaveGrounds ==
    \A i \in DOMAIN log : \A n \in DOMAIN log[i].answers :
        /\ log[i].cmd \in {"REGISTER", "UNREGISTER"}
        /\ log[i].answers[n].status = SUCCESS
        => \E r \in held[log[i].key] : Valid(r, log[i].answers[n].at)

\* However lookups of one key overtake, merge and overwrite each other, no request is
\* answered twice.
AnsweredAtMostOnce == \A i \in DOMAIN log : Len(log[i].answers) <= 1

\* A client in the clients table was told so: it sent a REGISTER with the key the table
\* has for it, and that request was answered with SUCCESS.
WasAccepted(c, k) ==
    \E i \in DOMAIN log :
        /\ log[i].cmd = "REGISTER" /\ log[i].src = c /\ log[i].key = k
        /\ \E n \in DOMAIN log[i].answers : log[i].answers[n].status = SUCCESS
RegisteredWereAccepted == \A c \in DOMAIN clients \cap Clients : WasAccepted(c, clients[c])

\* "We allow only the db to register with us while we are not open_for_business": until
\* cif-db has come once, no client is registered, waits, or had a key looked up.
NobodyBeforeDb ==
    db_starts = 0 => /\ DOMAIN clients = {} /\ DOMAIN publishers = {} /\ asked = 0
                     /\ DOMAIN register_wait_map = {} /\ DOMAIN unregister_wait_map = {}

\* What a wait map holds under a key is an unanswered request of its kind made with that
\* key, so a verdict on the key is a verdict on the request it is sent to.
WaitingFor(cmd, i, k) ==
    log[i].cmd = cmd /\ log[i].key = k /\ log[i].noted /\ log[i].answers = <<>>
WaitMapsFaithful ==
    /\ \A k \in DOMAIN register_wait_map : WaitingFor("REGISTER", register_wait_map[k], k)
    /\ \A k \in DOMAIN unregister_wait_map : WaitingFor("UNREGISTER", unregister_wait_map[k], k)

\* Only a client that was accepted is subscribed to.
PublishersWereAccepted == \A c \in DOMAIN publishers : \E k \in Keys : WasAccepted(c, k)

\* "if we see the same client more than once, we dont call connect() again": a second
\* connection would deliver each of its messages twice.
ConnectedOnce ==
    [][\A c \in DOMAIN publishers :
         c \in DOMAIN publishers' /\ publishers'[c] = publishers[c]]_vars

\* Every request handed to the mini client with a key cif-db knows is answered, unless it
\* meets another one with its key: the wait maps have one place for each key and kind, and
\* one result answers one request.  (While cif-db stays and no lookup is lost.)
Noted(i)     == i \in DOMAIN log /\ log[i].noted /\ held[log[i].key] # {}
Answered(i)  == i \in DOMAIN log /\ log[i].answers # <<>>
Meets(i)     == i \in DOMAIN log /\ \E j \in DOMAIN log \ {i} :
                    /\ log[j].key = log[i].key /\ log[j].noted
                    /\ j > i \/ log[j].answers = <<>>
NotedIsAnswered == \A i \in 1..MaxRequests : <>Noted(i) => <>(Answered(i) \/ Meets(i))

=============================================================================
