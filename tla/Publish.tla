------------------------------- MODULE Publish -------------------------------
(***************************************************************************)
(* How a submission travels from a publishing client to the writer of      *)
(* cif-db.  A client (CIF::Client over CIFPublisher) binds a PUB socket,   *)
(* registers with the router and announces itself; the router's SUB socket *)
(* connects back, and the relay thread of PubSubMgr passes what it hears   *)
(* on to its own PUB socket, to which cif-db subscribes.                   *)
(*                                                                         *)
(* PUB sockets neither wait nor keep: what is sent while nobody is         *)
(* connected is gone, and the sender is told SUCCESS.  The lookup of an    *)
(* API key, module KeyLookup, is one step here, which may come to nothing. *)
(***************************************************************************)
EXTENDS Integers, Sequences, FiniteSets

CONSTANTS
    Clients,        \* names of the publishing clients, each with an API key of its own
    Endpoints,      \* addresses with a port that clients may be configured to bind
    Nobody,         \* no client
    MaxStarts,      \* bound: starts of client programs
    MaxDbStarts,    \* bound: starts of cif-db
    MaxSends,       \* bound: submissions sent
    MaxGarbage,     \* bound: messages sent that are no submissions
    MaxFailures     \* bound: failing HBase calls of the writer

ASSUME NobodyAssumption == Nobody \notin Clients
ASSUME BoundsAssumption ==
    {MaxStarts, MaxDbStarts, MaxSends, MaxGarbage, MaxFailures} \subseteq Nat

VARIABLES
    client,        \* client -> [pc, at]: what its program does, the endpoint it is to bind
    bound,         \* endpoint -> client whose socket is bound there, or Nobody
    valid,         \* clients whose key cif-db holds, unrevoked
    open_for_business,
    cached,        \* clients whose key the mini client found valid and remembers
    clients,       \* the router's table of registered clients
    publishers,    \* client -> endpoint the router connected to for it
    conns,         \* endpoint -> how often xsub.connect was called for it
    links,         \* endpoint -> how many of these connections are established
    chan,          \* endpoint -> what is on its way to the router's relay
    db,            \* cif-db: "off", "registered", "running", or "stopped"
    dblink,        \* whether cif-db's subscription at the router is in effect
    dbq,           \* what is on its way to cif-db's writer
    sent,          \* submissions sent: [src, at, copies, times, fates] (history)
    counts         \* of what is bounded

routerVars == <<open_for_business, cached, clients, publishers, conns>>
dbVars     == <<db, dblink, dbq>>
vars == <<client, bound, valid, routerVars, links, chan, dbVars, sent, counts>>

Garbage == 0          \* anything that does not parse as a submission
Message == 0..MaxSends
Fate    == {"missed", "lost", "refused", "stored"}

Off     == [pc |-> "off", at |-> Nobody]

Count(what) == counts' = [counts EXCEPT ![what] = @ + 1]

Init ==
    /\ client = [c \in Clients |-> Off]
    /\ bound = [e \in Endpoints |-> Nobody] /\ valid = Clients
    /\ open_for_business = FALSE /\ cached = {} /\ clients = {}
    /\ publishers = [c \in {} |-> c] /\ conns = [e \in Endpoints |-> 0]
    /\ links = [e \in Endpoints |-> 0] /\ chan = [e \in Endpoints |-> <<>>]
    /\ db = "off" /\ dblink = FALSE /\ dbq = <<>> /\ sent = <<>>
    /\ counts = [starts |-> 0, db_starts |-> 0, garbage |-> 0, failures |-> 0]

\* Every submission in the set ids meets the fate f.
Meets(ids, f) == [i \in DOMAIN sent |-> IF i \in ids THEN [sent[i] EXCEPT !.fates = @ \cup {f}]
                                                     ELSE sent[i]]
Elements(s) == {s[n] : n \in DOMAIN s}

-----------------------------------------------------------------------------
(* A client program.                                                       *)

\* The result of zmq_bind is not looked at: on a taken endpoint the program has none.
Bind(c, e) == bound' = IF bound[e] = Nobody THEN [bound EXCEPT ![e] = c] ELSE bound

\* CIFPublisher.new: it binds, sends REGISTER and waits for the answer.
Start(c, e) ==
    /\ client[c].pc = "off" /\ counts.starts < MaxStarts
    /\ client' = [client EXCEPT ![c] = [pc |-> "register", at |-> e]]
    /\ Bind(c, e)
    /\ Count("starts")
    /\ UNCHANGED <<valid, routerVars, links, chan, dbVars, sent>>

\* The program ends, at any point.  Nothing is said to the router: __DESTROY__ is no name
\* Perl calls.  Its connections break, and of what is on its way an end may be lost.
Leave(c) ==
    LET e == client[c].at
    IN /\ client' = [client EXCEPT ![c] = Off]
       /\ IF bound[e] = c
          THEN \E n \in 0..Len(chan[e]) :
                  /\ bound' = [bound EXCEPT ![e] = Nobody] /\ links' = [links EXCEPT ![e] = 0]
                  /\ chan' = [chan EXCEPT ![e] = SubSeq(@, 1, n)]
                  /\ sent' = Meets(Elements(SubSeq(chan[e], n + 1, Len(chan[e]))), "lost")
          ELSE UNCHANGED <<bound, links, chan, sent>>

Exit(c) ==
    /\ client[c].pc # "off" /\ Leave(c)
    /\ UNCHANGED <<valid, routerVars, dbVars, counts>>

\* Client.submit and CIFPublisher.send: one copy for each established connection, and
\* SUCCESS whatever their number.
Send(c) ==
    LET e      == client[c].at
        copies == IF bound[e] = c THEN links[e] ELSE 0
        id     == Len(sent) + 1
    IN /\ client[c].pc = "ready" /\ Len(sent) < MaxSends
       /\ chan' = [chan EXCEPT ![e] = @ \o [n \in 1..copies |-> id]]
       /\ sent' = Append(sent, [src |-> c, at |-> e, copies |-> copies, times |-> 0,
                                fates |-> {}])
       /\ UNCHANGED <<client, bound, valid, routerVars, links, dbVars, counts>>

\* What a bound program sends is no submission.
SendGarbage(e) ==
    /\ bound[e] # Nobody /\ links[e] > 0 /\ counts.garbage < MaxGarbage
    /\ chan' = [chan EXCEPT ![e] = Append(@, Garbage)]
    /\ Count("garbage")
    /\ UNCHANGED <<client, bound, valid, routerVars, links, dbVars, sent>>

-----------------------------------------------------------------------------
(* The router: its two answers to a client, its connections, its relay.    *)

GoOn(c, pc) == client' = [client EXCEPT ![c].pc = pc]

\* REGISTER.  Closed, the router does not answer, and the program waits for ever; so it
\* does if the lookup comes to nothing.  A key found valid once is believed from then on.
Found(c)    == c \in cached \/ (db # "off" /\ c \in valid)
NotFound(c) == c \notin cached /\ db # "off" /\ c \notin valid

HandleRegister(c) ==
    /\ client[c].pc = "register"
    /\ \/ GoOn(c, "stuck") /\ UNCHANGED <<clients, cached>>
       \/ /\ open_for_business /\ Found(c) /\ GoOn(c, "ipublish")
          /\ clients' = clients \cup {c} /\ cached' = cached \cup {c}
       \/ /\ open_for_business /\ NotFound(c) /\ GoOn(c, "ipublish")
          /\ UNCHANGED <<clients, cached>>
    /\ UNCHANGED <<bound, valid, open_for_business, publishers, conns, links, chan, dbVars,
                   sent, counts>>

\* Mutated: publishers seen before are connected to again.
KnownNever(c) == FALSE /\ c \in DOMAIN publishers

\* dosubscribe: seen before.
Known(c) == c \in DOMAIN publishers

With(table, k, v) == [x \in DOMAIN table \cup {k} |-> IF x = k THEN v ELSE table[x]]

\* Mutated: the client is noted as a publisher and not connected to.
NoteOnly(c) == publishers' = With(publishers, c, client[c].at) /\ UNCHANGED conns

Connect(c) ==
    /\ publishers' = With(publishers, c, client[c].at)
    /\ conns' = [conns EXCEPT ![client[c].at] = @ + 1]

\* Mutated: a refused client goes on.
HandleIPublishNoConfess(c) ==
    /\ client[c].pc = "ipublish" /\ GoOn(c, IF open_for_business THEN "ready" ELSE "stuck")
    /\ IF open_for_business /\ ~Known(c) /\ c \in clients
       THEN Connect(c) ELSE UNCHANGED <<publishers, conns>>
    /\ UNCHANGED <<bound, valid, open_for_business, cached, clients, links, chan, dbVars, sent,
                   counts>>

\* IPUBLISH, which follows whatever REGISTER was answered.  A publisher seen before is told
\* SUCCESS wherever it is now; a registered one is connected to; at FAILED the client
\* confesses, and its sockets go with it.
HandleIPublish(c) ==
    /\ client[c].pc = "ipublish"
    /\ \/ /\ ~open_for_business /\ GoOn(c, "stuck")
          /\ UNCHANGED <<bound, publishers, conns, links, chan, sent>>
       \/ /\ open_for_business /\ Known(c) /\ GoOn(c, "ready")
          /\ UNCHANGED <<bound, publishers, conns, links, chan, sent>>
       \/ /\ open_for_business /\ ~Known(c) /\ c \in clients /\ GoOn(c, "ready")
          /\ Connect(c)
          /\ UNCHANGED <<bound, links, chan, sent>>
       \/ /\ open_for_business /\ ~Known(c) /\ c \notin clients
          /\ Leave(c)
          /\ UNCHANGED <<publishers, conns>>
    /\ UNCHANGED <<valid, open_for_business, cached, clients, dbVars, counts>>

\* zmq establishes a connection in its own time, and again when the endpoint comes back.
Establish(e) ==
    /\ bound[e] # Nobody /\ links[e] < conns[e]
    /\ links' = [links EXCEPT ![e] = @ + 1]
    /\ UNCHANGED <<client, bound, valid, routerVars, chan, dbVars, sent, counts>>

\* What the relay puts on the router's PUB socket reaches cif-db if it is subscribed.
Forwarded(id) ==
    /\ dbq' = IF dblink THEN Append(dbq, id) ELSE dbq
    /\ sent' = IF id = Garbage THEN sent
               ELSE [sent EXCEPT ![id].times = @ + 1,
                                 ![id].fates = @ \cup (IF dblink THEN {} ELSE {"missed"})]

\* Mutated: the relay passes on what it has not looked at.
RelayUnseen(e) ==
    /\ chan[e] # <<>> /\ chan' = [chan EXCEPT ![e] = Tail(@)] /\ Forwarded(Head(chan[e]))
    /\ UNCHANGED <<client, bound, valid, routerVars, links, db, dblink, counts>>

\* Mutated: what does not parse ends the relay.
RelayDies(e) ==
    /\ \A f \in Endpoints : chan[f] # <<>> => Head(chan[f]) # Garbage
    /\ chan[e] # <<>> /\ chan' = [chan EXCEPT ![e] = Tail(@)] /\ Forwarded(Head(chan[e]))
    /\ UNCHANGED <<client, bound, valid, routerVars, links, db, dblink, counts>>

\* One turn of myrelay: what does not parse raises, and is dropped.
Relay(e) ==
    /\ chan[e] # <<>> /\ chan' = [chan EXCEPT ![e] = Tail(@)]
    /\ IF Head(chan[e]) = Garbage THEN UNCHANGED <<dbq, sent>> ELSE Forwarded(Head(chan[e]))
    /\ UNCHANGED <<client, bound, valid, routerVars, links, db, dblink, counts>>

-----------------------------------------------------------------------------
(* cif-db's main thread.                                                   *)

\* Foundation.register, the answer awaited: the router opens, with a new mini client.
DbRegister ==
    /\ db = "off" /\ counts.db_starts < MaxDbStarts
    /\ db' = "registered" /\ open_for_business' = TRUE /\ cached' = {}
    /\ Count("db_starts")
    /\ UNCHANGED <<client, bound, valid, clients, publishers, conns, links, chan, dblink, dbq, sent>>

\* subscribersocket() comes after it, and takes effect later still.
DbSubscribe ==
    /\ db = "registered" /\ db' = "running"
    /\ UNCHANGED <<client, bound, valid, routerVars, links, chan, dblink, dbq, sent, counts>>

DbLinkUp ==
    /\ db \in {"running", "stopped"} /\ ~dblink /\ dblink' = TRUE
    /\ UNCHANGED <<client, bound, valid, routerVars, links, chan, db, dbq, sent, counts>>

\* One turn of the writer.  What does not parse, and an HBase call that fails while the key
\* is looked up or the document put, raise out of the loop: main ends, its handlers do not.
Unreadable(id) == id = Garbage
Receive ==
    /\ db = "running" /\ dbq # <<>> /\ dbq' = Tail(dbq)
    /\ LET id == Head(dbq)
       IN \/ /\ Unreadable(id) /\ db' = "stopped" /\ UNCHANGED <<sent, counts>>
          \/ /\ ~Unreadable(id) /\ sent[id].src \in valid
             /\ sent' = Meets({id}, "stored") /\ UNCHANGED <<db, counts>>
          \/ /\ ~Unreadable(id) /\ sent[id].src \notin valid
             /\ sent' = Meets({id}, "refused") /\ UNCHANGED <<db, counts>>
          \/ /\ ~Unreadable(id) /\ counts.failures < MaxFailures /\ Count("failures")
             /\ sent' = Meets({id}, "lost") /\ db' = "stopped"
    /\ UNCHANGED <<client, bound, valid, routerVars, links, chan, dblink>>

\* The process ends: interrupted while it runs, it unregisters, and the router closes;
\* killed, it does not.
DbEnd ==
    /\ db # "off" /\ db' = "off" /\ dblink' = FALSE /\ dbq' = <<>>
    /\ sent' = Meets(Elements(dbq), "missed")
    /\ open_for_business' \in IF db = "running" THEN {FALSE, open_for_business}
                                               ELSE {open_for_business}
    /\ UNCHANGED <<client, bound, valid, cached, clients, publishers, conns, links, chan, counts>>

Revoke(c) ==
    /\ c \in valid /\ valid' = valid \ {c}
    /\ UNCHANGED <<client, bound, routerVars, links, chan, dbVars, sent, counts>>

-----------------------------------------------------------------------------

Next ==
    \/ \E c \in Clients :
          \/ \E e \in Endpoints : Start(c, e)
          \/ HandleRegister(c) \/ HandleIPublish(c) \/ Send(c) \/ Exit(c) \/ Revoke(c)
    \/ \E e \in Endpoints : SendGarbage(e) \/ Establish(e) \/ Relay(e)
    \/ DbRegister \/ DbSubscribe \/ DbLinkUp \/ Receive \/ DbEnd

\* The router polls and relays, zmq connects what is there, cif-db's main thread goes on.
\* That programs start, send, end, fail or are revoked is not fair.
Fairness ==
    /\ \A c \in Clients : WF_vars(HandleRegister(c)) /\ WF_vars(HandleIPublish(c))
    /\ \A e \in Endpoints : WF_vars(Establish(e)) /\ WF_vars(Relay(e))
    /\ WF_vars(DbSubscribe) /\ WF_vars(DbLinkUp) /\ WF_vars(Receive)

Spec     == Init /\ [][Next]_vars
FairSpec == Spec /\ Fairness

-----------------------------------------------------------------------------
(* Properties.                                                             *)

Submission == [src : Clients, at : Endpoints, copies : Nat, times : Nat, fates : SUBSET Fate]

Program == [pc : {"register", "ipublish", "ready", "stuck"}, at : Endpoints] \cup {Off}

TypeOK ==
    /\ client \in [Clients -> Program]
    /\ bound \in [Endpoints -> Clients \cup {Nobody}]
    /\ valid \subseteq Clients /\ open_for_business \in BOOLEAN /\ cached \subseteq Clients
    /\ clients \subseteq Clients
    /\ DOMAIN publishers \subseteq Clients
    /\ publishers \in [DOMAIN publishers -> Endpoints]
    /\ conns \in [Endpoints -> Nat] /\ links \in [Endpoints -> Nat]
    /\ sent \in Seq(Submission)
    /\ chan \in [Endpoints -> Seq(0..Len(sent))] /\ dbq \in Seq(1..Len(sent))
    /\ db \in {"off", "registered", "running", "stopped"} /\ dblink \in BOOLEAN
    /\ counts \in [{"starts", "db_starts", "garbage", "failures"} -> Nat]

\* A client whose register() has returned was accepted with a valid key at some time and
\* the router connected to an endpoint for it, although the client ignores that REGISTER
\* failed and learns of it only through the answer to IPUBLISH.
ReadyIsSubscribed ==
    \A c \in Clients : client[c].pc = "ready" =>
        c \in clients /\ c \in DOMAIN publishers /\ conns[publishers[c]] > 0

\* "we track who we've connected to and if we see the same client more than once, we dont
\* call connect() again": whatever restarts and reconnections there are, a submission is
\* relayed twice only if two clients of different names had the endpoint it was sent from.
TwiceOnlyIfShared ==
    \A i \in DOMAIN sent : sent[i].times > 1 =>
        \E c, d \in DOMAIN publishers :
            c # d /\ publishers[c] = sent[i].at /\ publishers[d] = sent[i].at

\* The writer's loop ends of a failing HBase call only: nothing a client sends ends it,
\* because the relay keeps back what does not parse.
StopsOfFailureOnly == db = "stopped" => counts.failures > 0

\* A submission sent over an established connection comes to an end that can be named: it
\* is stored, refused, missed by a cif-db that is not subscribed, or lost with a program
\* that ended; only a writer that has stopped leaves it waiting.
HeardIsSettled ==
    \A i \in 1..MaxSends :
        i \in DOMAIN sent /\ sent[i].copies > 0
            ~> i \in DOMAIN sent /\ (sent[i].fates # {} \/ db = "stopped")

\* A client that is ready where the router first found it is connected to in the end, also
\* after its program, or cif-db, was started again.
Waiting(c) ==
    /\ client[c].pc = "ready" /\ bound[client[c].at] = c /\ publishers[c] = client[c].at
    /\ links[client[c].at] = 0
ReadyGetsConnected == \A c \in Clients : Waiting(c) ~> ~Waiting(c)

=============================================================================
