---------------------------- MODULE PublishProofs ----------------------------
(* Theorems about Publish, for any clients, endpoints and bounds.          *)
EXTENDS Publish, TLAPS

\* Two clients of different names were connected to at e.
Shared(e) == \E c, d \in DOMAIN publishers : c # d /\ publishers[c] = e /\ publishers[d] = e

\* The router has a connection for each publisher, whom it accepted before.
PublishersConnected ==
    \A c \in DOMAIN publishers : c \in clients /\ conns[publishers[c]] > 0

\* connect() was called for a publisher each time, twice only for two of them.
ConnsHavePublishers ==
    \A e \in Endpoints :
        /\ conns[e] > 0 => \E c \in DOMAIN publishers : publishers[c] = e
        /\ conns[e] > 1 => Shared(e)

LinksAreConns == \A e \in Endpoints : links[e] <= conns[e]

\* A submission sent from an endpoint that is not shared is under way or was relayed once.
OnlyOnce(i) ==
    /\ sent[i].times <= 1
    /\ \A e \in Endpoints : \A n \in DOMAIN chan[e] : chan[e][n] = i =>
          /\ sent[i].times = 0
          /\ \A f \in Endpoints : \A m \in DOMAIN chan[f] : chan[f][m] = i => f = e /\ m = n
UnsharedOnce == \A i \in DOMAIN sent : ~Shared(sent[i].at) => OnlyOnce(i)

IInv ==
    /\ TypeOK /\ ReadyIsSubscribed /\ StopsOfFailureOnly
    /\ PublishersConnected /\ ConnsHavePublishers /\ LinksAreConns /\ UnsharedOnce

-----------------------------------------------------------------------------
(* Lemmas about the helpers.                                               *)

\* Recording a fate changes no submission but for its fates.
LEMMA MeetsKeeps ==
    ASSUME TypeOK, NEW ids, NEW f \in Fate
    PROVE  /\ Meets(ids, f) \in Seq(Submission)
           /\ Len(Meets(ids, f)) = Len(sent)
           /\ DOMAIN Meets(ids, f) = DOMAIN sent
           /\ \A i \in DOMAIN sent : /\ Meets(ids, f)[i].times = sent[i].times
                                     /\ Meets(ids, f)[i].at = sent[i].at
                                     /\ Meets(ids, f)[i].copies = sent[i].copies
<1>1. sent \in Seq(Submission) /\ DOMAIN sent = 1..Len(sent) /\ Len(sent) \in Nat
  BY DEF TypeOK
<1>2. \A i \in DOMAIN sent : Meets(ids, f)[i] \in Submission
  <2>1. SUFFICES ASSUME NEW i \in DOMAIN sent PROVE Meets(ids, f)[i] \in Submission
    OBVIOUS
  <2>2. sent[i] \in Submission
    BY <1>1
  <2>3. Meets(ids, f)[i] = IF i \in ids THEN [sent[i] EXCEPT !.fates = @ \cup {f}] ELSE sent[i]
    BY DEF Meets
  <2>4. QED
    BY <2>2, <2>3 DEF Submission
<1>3. Meets(ids, f) \in [1..Len(sent) -> Submission]
  BY <1>1, <1>2 DEF Meets
<1>4. Meets(ids, f) \in Seq(Submission) /\ Len(Meets(ids, f)) = Len(sent)
  BY <1>1, <1>3
<1>5. ASSUME NEW i \in DOMAIN sent
      PROVE  /\ Meets(ids, f)[i].times = sent[i].times /\ Meets(ids, f)[i].at = sent[i].at
             /\ Meets(ids, f)[i].copies = sent[i].copies
  <2>1. sent[i] \in Submission
    BY <1>1
  <2>2. QED
    BY <2>1 DEF Meets, Submission
<1>6. QED
  BY <1>1, <1>3, <1>4, <1>5

\* Counters stay naturals and do not decrease.
LEMMA Counted ==
    ASSUME TypeOK, NEW what \in {"starts", "db_starts", "garbage", "failures"}, Count(what)
    PROVE  /\ counts' \in [{"starts", "db_starts", "garbage", "failures"} -> Nat]
           /\ counts.failures > 0 \/ what = "failures" => counts'.failures > 0
<1>1. counts \in [{"starts", "db_starts", "garbage", "failures"} -> Nat]
  BY DEF TypeOK
<1>2. counts' = [counts EXCEPT ![what] = counts[what] + 1] /\ counts[what] + 1 \in Nat \ {0}
  BY <1>1 DEF Count
<1> QED
  BY <1>1, <1>2

\* What is on its way to the router stays a sequence of messages when its head is taken,
\* when its end is lost, and when it is added to; none appears that was not there.
LEMMA Shortened ==
    ASSUME NEW S, NEW s \in Seq(S), NEW k \in 0..Len(s)
    PROVE  /\ SubSeq(s, 1, k) \in Seq(S)
           /\ DOMAIN SubSeq(s, 1, k) = 1..k /\ 1..k \subseteq DOMAIN s
           /\ \A n \in 1..k : SubSeq(s, 1, k)[n] = s[n]
  BY SMT

LEMMA Beheaded ==
    ASSUME NEW S, NEW s \in Seq(S), s # <<>>
    PROVE  /\ Tail(s) \in Seq(S) /\ Head(s) \in S /\ Head(s) = s[1] /\ 1 \in DOMAIN s
           /\ \A n \in DOMAIN Tail(s) : n + 1 \in DOMAIN s /\ Tail(s)[n] = s[n + 1] /\ n \in Nat \ {0}
  BY SMT

\* Who is a publisher stays one, where the router first found it.
PublishersStay ==
    \A c \in DOMAIN publishers : c \in DOMAIN publishers' /\ publishers'[c] = publishers[c]

LEMMA SharedStays ==
    ASSUME PublishersStay PROVE \A e : Shared(e) => Shared(e)'
  BY DEF PublishersStay, Shared

\* Whatever keeps what was relayed, and puts nothing but garbage under way, keeps
\* UnsharedOnce.
TimesStay ==
    /\ DOMAIN sent' = DOMAIN sent
    /\ \A i \in DOMAIN sent : sent'[i].times = sent[i].times /\ sent'[i].at = sent[i].at
NothingNew ==
    \A e \in Endpoints : \A n \in DOMAIN chan'[e] :
        chan'[e][n] = Garbage \/ (n \in DOMAIN chan[e] /\ chan'[e][n] = chan[e][n])

LEMMA OnceKept ==
    ASSUME TypeOK, UnsharedOnce, PublishersStay, TimesStay, NothingNew
    PROVE  UnsharedOnce'
<1> SUFFICES ASSUME NEW i \in DOMAIN sent, ~Shared(sent[i].at)' PROVE OnlyOnce(i)'
  BY DEF UnsharedOnce, TimesStay
<1>1. OnlyOnce(i)
  BY SharedStays DEF UnsharedOnce, TimesStay
<1>2. i # Garbage
  BY DEF TypeOK, Garbage
<1> QED
  BY <1>1, <1>2 DEF OnlyOnce, NothingNew, TimesStay

\* A step that leaves the router's connections alone, and starts none that was not asked
\* for, keeps what IInv says of them.
LEMMA LinksKept ==
    ASSUME ConnsHavePublishers, LinksAreConns, UNCHANGED <<publishers, conns>>, TypeOK,
           \A e \in Endpoints : links'[e] = links[e] \/ links'[e] <= conns[e]
    PROVE  ConnsHavePublishers' /\ LinksAreConns'
  BY DEF ConnsHavePublishers, LinksAreConns, Shared

-----------------------------------------------------------------------------
(* The initial states.                                                     *)

LEMMA InitIInv == Init => IInv
<1> SUFFICES ASSUME Init PROVE IInv
  OBVIOUS
<1>1. TypeOK
  <2>1. publishers \in [DOMAIN publishers -> Endpoints] /\ DOMAIN publishers \subseteq Clients
    BY DEF Init
  <2>2. sent \in Seq(Submission) /\ chan \in [Endpoints -> Seq(0..Len(sent))]
        /\ dbq \in Seq(1..Len(sent))
    BY DEF Init
  <2>3. counts \in [{"starts", "db_starts", "garbage", "failures"} -> Nat]
    BY DEF Init
  <2>4. /\ conns \in [Endpoints -> Nat] /\ links \in [Endpoints -> Nat]
        /\ client \in [Clients -> Program] /\ bound \in [Endpoints -> Clients \cup {Nobody}]
    BY DEF Init, Program
  <2> QED
    BY <2>1, <2>2, <2>3, <2>4 DEF Init, TypeOK
<1>2. ReadyIsSubscribed /\ StopsOfFailureOnly
  BY DEF Init, ReadyIsSubscribed, StopsOfFailureOnly, Off
<1>3. PublishersConnected /\ ConnsHavePublishers /\ LinksAreConns /\ UnsharedOnce
  BY DEF Init, PublishersConnected, ConnsHavePublishers, LinksAreConns, UnsharedOnce
<1> QED
  BY <1>1, <1>2, <1>3 DEF IInv

-----------------------------------------------------------------------------
(* The client programs.                                                    *)

LEMMA StartIInv ==
    ASSUME IInv, NEW c \in Clients, NEW e \in Endpoints, Start(c, e) PROVE IInv'
<1> USE DEF IInv
<1>1. TypeOK'
  BY Counted DEF TypeOK, Program, Start, Bind, Off, routerVars, dbVars
<1>2. ReadyIsSubscribed' /\ StopsOfFailureOnly' /\ PublishersConnected'
  BY Counted DEF TypeOK, Start, routerVars, dbVars, ReadyIsSubscribed, StopsOfFailureOnly,
                 PublishersConnected
<1>3. PublishersStay /\ TimesStay /\ NothingNew
  BY DEF Start, routerVars, PublishersStay, TimesStay, NothingNew
<1>4. ConnsHavePublishers' /\ LinksAreConns'
  BY LinksKept DEF Start, routerVars
<1> QED
  BY <1>1, <1>2, <1>3, <1>4, OnceKept

\* The end of a program, whoever brings it about.
LEMMA LeaveKeeps ==
    ASSUME IInv, NEW c \in Clients, client[c].pc # "off", Leave(c)
    PROVE  /\ client' = [client EXCEPT ![c] = Off]
           /\ bound' \in [Endpoints -> Clients \cup {Nobody}]
           /\ links' \in [Endpoints -> Nat]
           /\ \A e \in Endpoints : links'[e] = links[e] \/ links'[e] <= conns[e]
           /\ sent' \in Seq(Submission) /\ Len(sent') = Len(sent)
           /\ chan' \in [Endpoints -> Seq(0..Len(sent))]
           /\ TimesStay /\ NothingNew
<1> USE DEF IInv
<1> DEFINE e == client[c].at
<1>1. client' = [client EXCEPT ![c] = Off]
  BY DEF Leave
<1>2. CASE bound[e] # c
  BY <1>1, <1>2 DEF Leave, TypeOK, TimesStay, NothingNew
<1>3. CASE bound[e] = c
  <2>1. e \in Endpoints
    BY DEF TypeOK, Program, Off
  <2>2. PICK n \in 0..Len(chan[e]) :
           /\ bound' = [bound EXCEPT ![e] = Nobody] /\ links' = [links EXCEPT ![e] = 0]
           /\ chan' = [chan EXCEPT ![e] = SubSeq(@, 1, n)]
           /\ sent' = Meets(Elements(SubSeq(chan[e], n + 1, Len(chan[e]))), "lost")
    BY <1>3 DEF Leave
  <2>3. sent' \in Seq(Submission) /\ Len(sent') = Len(sent) /\ TimesStay
    BY <2>2, MeetsKeeps DEF TimesStay, Fate
  <2>4. chan[e] \in Seq(0..Len(sent)) /\ n \in 0..Len(chan[e])
    BY <2>1 DEF TypeOK
  <2>5. chan' \in [Endpoints -> Seq(0..Len(sent))] /\ NothingNew
    <3>1. /\ SubSeq(chan[e], 1, n) \in Seq(0..Len(sent))
          /\ DOMAIN SubSeq(chan[e], 1, n) = 1..n /\ 1..n \subseteq DOMAIN chan[e]
          /\ \A m \in 1..n : SubSeq(chan[e], 1, n)[m] = chan[e][m]
      <4> HIDE DEF e
      <4> DEFINE S == 0..Len(sent)  s == chan[e]
      <4>1. s \in Seq(S) /\ n \in 0..Len(s)
        BY <2>4
      <4> HIDE DEF S, s
      <4>2. /\ SubSeq(s, 1, n) \in Seq(S)
            /\ DOMAIN SubSeq(s, 1, n) = 1..n /\ 1..n \subseteq DOMAIN s
            /\ \A m \in 1..n : SubSeq(s, 1, n)[m] = s[m]
        BY <4>1, Shortened
      <4> QED
        BY <4>2 DEF S, s
    <3> QED
      BY <2>1, <2>2, <3>1 DEF TypeOK, NothingNew
  <2>6. /\ links' \in [Endpoints -> Nat] /\ bound' \in [Endpoints -> Clients \cup {Nobody}]
        /\ \A f \in Endpoints : links'[f] = links[f] \/ links'[f] <= conns[f]
    BY <2>1, <2>2 DEF TypeOK
  <2> QED
    BY <1>1, <2>3, <2>5, <2>6
<1> QED
  BY <1>2, <1>3

LEMMA ExitIInv == ASSUME IInv, NEW c \in Clients, Exit(c) PROVE IInv'
<1> USE DEF IInv
<1>1. /\ client[c].pc # "off" /\ Leave(c)
      /\ UNCHANGED <<valid, routerVars, dbVars, counts>>
  BY DEF Exit
<1>2. /\ client' = [client EXCEPT ![c] = Off]
      /\ bound' \in [Endpoints -> Clients \cup {Nobody}]
      /\ links' \in [Endpoints -> Nat]
      /\ \A e \in Endpoints : links'[e] = links[e] \/ links'[e] <= conns[e]
      /\ sent' \in Seq(Submission) /\ Len(sent') = Len(sent)
      /\ chan' \in [Endpoints -> Seq(0..Len(sent))]
      /\ TimesStay /\ NothingNew
  BY <1>1, LeaveKeeps
<1>3. TypeOK'
  BY <1>1, <1>2 DEF TypeOK, Program, routerVars, dbVars
<1>4. ReadyIsSubscribed' /\ StopsOfFailureOnly' /\ PublishersConnected'
  BY <1>1, <1>2 DEF TypeOK, routerVars, dbVars, ReadyIsSubscribed, StopsOfFailureOnly,
                    PublishersConnected, Off
<1>5. ConnsHavePublishers' /\ LinksAreConns'
  BY <1>1, <1>2, LinksKept DEF routerVars
<1>6. PublishersStay
  BY <1>1 DEF routerVars, PublishersStay
<1> QED
  BY <1>2, <1>3, <1>4, <1>5, <1>6, OnceKept

LEMMA SendIInv == ASSUME IInv, NEW c \in Clients, Send(c) PROVE IInv'
<1> USE DEF IInv
<1> DEFINE e      == client[c].at
           copies == IF bound[e] = c THEN links[e] ELSE 0
           id     == Len(sent) + 1
           new    == [src |-> c, at |-> e, copies |-> copies, times |-> 0, fates |-> {}]
<1>1. /\ client[c].pc = "ready"
      /\ chan' = [chan EXCEPT ![e] = @ \o [n \in 1..copies |-> id]]
      /\ sent' = Append(sent, new)
      /\ UNCHANGED <<client, bound, valid, routerVars, links, dbVars, counts>>
  BY DEF Send
<1>2. /\ e \in Endpoints /\ copies \in Nat /\ copies <= conns[e] /\ new \in Submission
      /\ chan[e] \in Seq(0..Len(sent)) /\ sent \in Seq(Submission) /\ Len(sent) \in Nat
  BY <1>1 DEF TypeOK, Program, Off, LinksAreConns, Submission
<1> HIDE DEF e, copies, new
<1>3. /\ sent' \in Seq(Submission) /\ Len(sent') = id
      /\ DOMAIN sent' = DOMAIN sent \cup {id} /\ id \notin DOMAIN sent
      /\ sent'[id] = new /\ \A i \in DOMAIN sent : sent'[i] = sent[i]
  BY <1>1, <1>2
<1>4. /\ chan'[e] \in Seq(0..id)
      /\ \A n \in DOMAIN chan'[e] :
            IF n <= Len(chan[e]) THEN n \in DOMAIN chan[e] /\ chan'[e][n] = chan[e][n]
            ELSE n \in Len(chan[e]) + 1..Len(chan[e]) + copies /\ chan'[e][n] = id
  <2> DEFINE tail == [n \in 1..copies |-> id]
  <2>1. tail \in Seq(0..id) /\ Len(tail) = copies /\ \A n \in 1..copies : tail[n] = id
    BY <1>2
  <2>2. chan[e] \in Seq(0..id)
    BY <1>2
  <2>3. chan'[e] = chan[e] \o tail
    BY <1>1, <1>2 DEF TypeOK
  <2> HIDE DEF tail
  <2> QED
    BY <1>2, <2>1, <2>2, <2>3
<1>5. \A f \in Endpoints : f # e => chan'[f] = chan[f]
  BY <1>1, <1>2 DEF TypeOK
<1>6. TypeOK'
  <2>1. chan' \in [Endpoints -> Seq(0..id)]
    <3>1. \A f \in Endpoints : chan[f] \in Seq(0..id)
      BY <1>2 DEF TypeOK
    <3> QED
      BY <1>1, <1>4, <1>5, <3>1 DEF TypeOK
  <2>2. dbq \in Seq(1..id)
    BY <1>2 DEF TypeOK
  <2> QED
    BY <1>1, <1>3, <2>1, <2>2 DEF TypeOK, routerVars, dbVars
<1>7. ReadyIsSubscribed' /\ StopsOfFailureOnly' /\ PublishersConnected' /\ PublishersStay
  BY <1>1 DEF routerVars, dbVars, ReadyIsSubscribed, StopsOfFailureOnly, PublishersConnected,
              PublishersStay
<1>8. ConnsHavePublishers' /\ LinksAreConns'
  BY <1>1, LinksKept DEF routerVars
<1>9. ASSUME NEW i \in DOMAIN sent', ~Shared(sent[i].at)' PROVE OnlyOnce(i)'
  <2>1. ~Shared(sent'[i].at)
    BY <1>1, <1>9 DEF Shared, routerVars
  <2>2. CASE i \in DOMAIN sent
    <3>1. OnlyOnce(i) /\ i # id
      BY <1>3, <2>1, <2>2 DEF UnsharedOnce
    <3>2. ASSUME NEW f \in Endpoints, NEW n \in DOMAIN chan'[f], chan'[f][n] = i
          PROVE  n \in DOMAIN chan[f] /\ chan[f][n] = i
      <4>1. CASE f = e
        BY <1>4, <3>1, <3>2, <4>1
      <4>2. CASE f # e
        BY <1>5, <3>2, <4>2
      <4> QED
        BY <4>1, <4>2
    <3>3. sent'[i].times = sent[i].times
      BY <1>3, <2>2
    <3> HIDE DEF id, IInv
    <3> QED
      BY <3>1, <3>2, <3>3 DEF OnlyOnce
  <2>3. CASE i = id
    <3>1. \A f \in Endpoints : \A n \in DOMAIN chan[f] : chan[f][n] # id
      BY <1>2 DEF TypeOK
    <3>2. copies <= 1
      BY <1>2, <1>3, <2>1, <2>3 DEF ConnsHavePublishers, TypeOK, new
    <3>3. \A f \in Endpoints : \A n \in DOMAIN chan'[f] :
             chan'[f][n] = id => f = e /\ n = Len(chan[e]) + 1
      <4>1. SUFFICES ASSUME NEW f \in Endpoints, NEW n \in DOMAIN chan'[f], chan'[f][n] = id
                     PROVE  f = e /\ n = Len(chan[e]) + 1
        OBVIOUS
      <4>2. f = e
        BY <1>5, <3>1, <4>1
      <4>3. n > Len(chan[e]) /\ n \in Len(chan[e]) + 1..Len(chan[e]) + copies
        BY <1>2, <1>4, <3>1, <4>1, <4>2
      <4> QED
        BY <1>2, <3>2, <4>2, <4>3
    <3> QED
      BY <1>3, <2>3, <3>3 DEF OnlyOnce, new
  <2> QED
    BY <1>3, <2>2, <2>3
<1> QED
  BY <1>6, <1>7, <1>8, <1>9 DEF UnsharedOnce

LEMMA SendGarbageIInv == ASSUME IInv, NEW e \in Endpoints, SendGarbage(e) PROVE IInv'
<1> USE DEF IInv
<1>1. /\ chan' = [chan EXCEPT ![e] = Append(@, Garbage)] /\ Count("garbage")
      /\ UNCHANGED <<client, bound, valid, routerVars, links, dbVars, sent>>
  BY DEF SendGarbage
<1>2. chan[e] \in Seq(0..Len(sent)) /\ Len(sent) \in Nat /\ Garbage \in 0..Len(sent)
  BY DEF TypeOK, Garbage
<1>3. /\ Append(chan[e], Garbage) \in Seq(0..Len(sent))
      /\ \A n \in DOMAIN Append(chan[e], Garbage) :
            \/ Append(chan[e], Garbage)[n] = Garbage
            \/ n \in DOMAIN chan[e] /\ Append(chan[e], Garbage)[n] = chan[e][n]
  BY <1>2
<1>4. chan' \in [Endpoints -> Seq(0..Len(sent))] /\ NothingNew
  BY <1>1, <1>3 DEF TypeOK, NothingNew
<1>5. TypeOK'
  BY <1>1, <1>4, Counted DEF TypeOK, routerVars, dbVars
<1>6. ReadyIsSubscribed' /\ StopsOfFailureOnly' /\ PublishersConnected' /\ PublishersStay
  BY <1>1, Counted DEF routerVars, dbVars, ReadyIsSubscribed, StopsOfFailureOnly,
                       PublishersConnected, PublishersStay
<1>7. ConnsHavePublishers' /\ LinksAreConns' /\ TimesStay
  BY <1>1, LinksKept DEF routerVars, TimesStay
<1> QED
  BY <1>4, <1>5, <1>6, <1>7, OnceKept

-----------------------------------------------------------------------------
(* The router.                                                             *)

\* A step that touches neither connections nor what is under way.
LEMMA QuietIInv ==
    ASSUME IInv, UNCHANGED <<publishers, conns, links, chan>>, clients \subseteq clients',
           TypeOK', TimesStay, ReadyIsSubscribed', StopsOfFailureOnly'
    PROVE  IInv'
<1> USE DEF IInv
<1>1. PublishersConnected' /\ PublishersStay /\ NothingNew
  BY DEF PublishersConnected, PublishersStay, NothingNew
<1>2. ConnsHavePublishers' /\ LinksAreConns'
  BY LinksKept
<1> QED
  BY <1>1, <1>2, OnceKept

\* The program of c goes on to pc, the others stay where they are.
LEMMA Goes ==
    ASSUME TypeOK, NEW c \in Clients, client[c].pc # "off",
           NEW pc \in {"register", "ipublish", "ready", "stuck"}, GoOn(c, pc)
    PROVE  /\ client' \in [Clients -> Program] /\ client'[c].pc = pc
           /\ \A d \in Clients : d # c => client'[d] = client[d]
<1> DEFINE r == [client[c] EXCEPT !.pc = pc]
<1>1. client \in [Clients -> Program] /\ client' = [client EXCEPT ![c] = r]
  BY DEF TypeOK, GoOn
<1>2. client[c] \in [pc : {"register", "ipublish", "ready", "stuck"}, at : Endpoints]
  BY <1>1 DEF Program, Off
<1>3. r \in Program /\ r.pc = pc
  BY <1>2 DEF Program
<1> HIDE DEF r
<1> QED
  BY <1>1, <1>3

LEMMA HandleRegisterIInv == ASSUME IInv, NEW c \in Clients, HandleRegister(c) PROVE IInv'
<1> USE DEF IInv
<1>1. /\ client[c].pc = "register"
      /\ GoOn(c, "stuck") \/ GoOn(c, "ipublish")
      /\ clients \subseteq clients' /\ clients' \subseteq clients \cup {c}
      /\ cached' \subseteq cached \cup {c}
      /\ UNCHANGED <<bound, valid, open_for_business, publishers, conns, links, chan, dbVars,
                     sent, counts>>
  BY DEF HandleRegister
<1>2. /\ client' \in [Clients -> Program] /\ client'[c].pc # "ready"
      /\ \A d \in Clients : d # c => client'[d] = client[d]
  BY <1>1, Goes
<1>3. TypeOK'
  BY <1>1, <1>2 DEF TypeOK, dbVars
<1>4. ReadyIsSubscribed' /\ StopsOfFailureOnly' /\ TimesStay
  BY <1>1, <1>2 DEF dbVars, ReadyIsSubscribed, StopsOfFailureOnly, TimesStay
<1> QED
  BY <1>1, <1>3, <1>4, QuietIInv

\* connect() for a publisher not seen before.
LEMMA ConnectIInv ==
    ASSUME IInv, NEW c \in clients, client[c].pc = "ipublish", c \notin DOMAIN publishers,
           GoOn(c, "ready"), Connect(c),
           UNCHANGED <<bound, links, chan, sent, valid, open_for_business, cached, clients,
                       dbVars, counts>>
    PROVE  IInv'
<1> USE DEF IInv
<1> DEFINE e == client[c].at
<1>1. c \in Clients /\ e \in Endpoints
  BY DEF TypeOK, Program, Off
<1>2. /\ conns' \in [Endpoints -> Nat] /\ conns'[e] = conns[e] + 1
      /\ \A f \in Endpoints : conns[f] \in Nat /\ (f # e => conns'[f] = conns[f])
  <2>1. conns \in [Endpoints -> Nat] /\ conns' = [conns EXCEPT ![e] = conns[e] + 1]
    BY DEF Connect, TypeOK
  <2> HIDE DEF e
  <2>2. conns[e] + 1 \in Nat
    BY <1>1, <2>1
  <2> QED
    BY <1>1, <2>1, <2>2
<1> HIDE DEF e
<1>3. /\ DOMAIN publishers' = DOMAIN publishers \cup {c} /\ publishers'[c] = e
      /\ \A d \in DOMAIN publishers : publishers'[d] = publishers[d]
      /\ publishers' \in [DOMAIN publishers' -> Endpoints]
  BY <1>1 DEF Connect, With, TypeOK, e
<1>0. /\ client' \in [Clients -> Program]
      /\ \A d \in Clients : d # c => client'[d] = client[d]
  BY <1>1, Goes
<1>4. TypeOK'
  BY <1>0, <1>1, <1>2, <1>3 DEF TypeOK, dbVars
<1>5. PublishersStay /\ TimesStay /\ NothingNew
  BY <1>3 DEF PublishersStay, TimesStay, NothingNew
<1>9. PublishersConnected'
  <2>1. SUFFICES ASSUME NEW d \in DOMAIN publishers'
                 PROVE  d \in clients /\ conns'[publishers'[d]] > 0
    BY DEF PublishersConnected
  <2>2. CASE d = c
    BY <1>1, <1>2, <1>3, <2>2
  <2>3. CASE d # c
    <3>1. d \in clients /\ publishers[d] \in Endpoints /\ conns[publishers[d]] > 0
      BY <1>3, <2>3 DEF PublishersConnected, TypeOK
    <3> QED
      BY <1>2, <1>3, <2>3, <3>1
  <2> QED
    BY <2>2, <2>3
<1>6. ReadyIsSubscribed' /\ StopsOfFailureOnly'
  BY <1>0, <1>3, <1>9 DEF dbVars, ReadyIsSubscribed, PublishersConnected, StopsOfFailureOnly
<1>7. LinksAreConns'
  <2>1. \A f \in Endpoints : links[f] \in Nat /\ conns[f] <= conns'[f]
    <3>1. \A f \in Endpoints : links[f] \in Nat
      BY DEF TypeOK
    <3>2. \A f \in Endpoints : f = e => conns'[f] = conns[f] + 1
      BY <1>2
    <3> QED
      BY <1>2, <3>1, <3>2
  <2> QED
    BY <1>2, <2>1 DEF LinksAreConns
<1>8. ConnsHavePublishers'
  <2>1. SUFFICES ASSUME NEW f \in Endpoints
                 PROVE  /\ conns'[f] > 0 => \E d \in DOMAIN publishers' : publishers'[d] = f
                        /\ conns'[f] > 1 => Shared(f)'
    BY DEF ConnsHavePublishers
  <2>2. CASE f # e
    BY <1>2, <1>3, <2>2 DEF ConnsHavePublishers, Shared
  <2>3. CASE f = e
    <3>1. conns'[f] > 1 => \E d \in DOMAIN publishers : publishers[d] = f
      BY <1>2, <2>3 DEF ConnsHavePublishers
    <3> QED
      BY <1>3, <2>3, <3>1 DEF Shared
  <2> QED
    BY <2>2, <2>3
<1> QED
  BY <1>4, <1>5, <1>6, <1>7, <1>8, <1>9, OnceKept

LEMMA HandleIPublishIInv == ASSUME IInv, NEW c \in Clients, HandleIPublish(c) PROVE IInv'
<1> USE DEF IInv
<1>1. /\ client[c].pc = "ipublish"
      /\ UNCHANGED <<valid, open_for_business, cached, clients, dbVars, counts>>
  BY DEF HandleIPublish
<1>2. client[c].at \in Endpoints
  BY <1>1 DEF TypeOK, Program, Off
<1>3. CASE /\ \/ GoOn(c, "stuck")
              \/ Known(c) /\ GoOn(c, "ready")
           /\ UNCHANGED <<bound, publishers, conns, links, chan, sent>>
  <2>3. /\ client' \in [Clients -> Program]
        /\ client'[c].pc = "ready" => Known(c)
        /\ \A d \in Clients : d # c => client'[d] = client[d]
    BY <1>1, <1>3, Goes
  <2>1. TypeOK'
    BY <1>1, <1>3, <2>3 DEF TypeOK, dbVars
  <2>2. ReadyIsSubscribed' /\ StopsOfFailureOnly' /\ TimesStay
    BY <1>1, <1>3, <2>3 DEF dbVars, ReadyIsSubscribed, StopsOfFailureOnly, TimesStay, Known,
                            PublishersConnected
  <2> QED
    BY <1>1, <1>3, <2>1, <2>2, QuietIInv
<1>4. CASE /\ ~Known(c) /\ c \in clients /\ GoOn(c, "ready") /\ Connect(c)
           /\ UNCHANGED <<bound, links, chan, sent>>
  BY <1>1, <1>4, ConnectIInv DEF Known
<1>5. CASE Leave(c) /\ UNCHANGED <<publishers, conns>>
  <2>1. Exit(c)
    BY <1>1, <1>5 DEF Exit, routerVars
  <2> QED
    BY <2>1, ExitIInv
<1> QED
  BY <1>3, <1>4, <1>5 DEF HandleIPublish

LEMMA EstablishIInv == ASSUME IInv, NEW e \in Endpoints, Establish(e) PROVE IInv'
<1> USE DEF IInv
<1>1. /\ links[e] < conns[e] /\ links' = [links EXCEPT ![e] = @ + 1]
      /\ UNCHANGED <<client, bound, valid, routerVars, chan, dbVars, sent, counts>>
  BY DEF Establish
<1>2. TypeOK'
  <2>1. links \in [Endpoints -> Nat] /\ links[e] + 1 \in Nat
    BY DEF TypeOK
  <2>2. links' \in [Endpoints -> Nat]
    BY <1>1, <2>1
  <2> QED
    BY <1>1, <2>2 DEF TypeOK, routerVars, dbVars
<1>3. ReadyIsSubscribed' /\ StopsOfFailureOnly' /\ PublishersConnected'
  BY <1>1 DEF routerVars, dbVars, ReadyIsSubscribed, StopsOfFailureOnly, PublishersConnected
<1>4. PublishersStay /\ TimesStay /\ NothingNew
  BY <1>1 DEF routerVars, PublishersStay, TimesStay, NothingNew
<1>5. \A f \in Endpoints : links'[f] = links[f] \/ links'[f] <= conns[f]
  BY <1>1 DEF TypeOK
<1>6. ConnsHavePublishers' /\ LinksAreConns'
  BY <1>1, <1>5, LinksKept DEF routerVars
<1> QED
  BY <1>2, <1>3, <1>4, <1>6, OnceKept

\* One turn of the relay: a submission passed on is no longer under way.
LEMMA RelayIInv == ASSUME IInv, NEW e \in Endpoints, Relay(e) PROVE IInv'
<1> USE DEF IInv
<1> DEFINE id == Head(chan[e])
<1>1. /\ chan[e] # <<>> /\ chan' = [chan EXCEPT ![e] = Tail(@)]
      /\ UNCHANGED <<client, bound, valid, routerVars, links, db, dblink, counts>>
      /\ \/ id = Garbage /\ UNCHANGED <<dbq, sent>>
         \/ id # Garbage /\ Forwarded(id)
  BY DEF Relay
<1>2. /\ Tail(chan[e]) \in Seq(0..Len(sent)) /\ id \in 0..Len(sent)
      /\ id = chan[e][1] /\ 1 \in DOMAIN chan[e]
      /\ \A n \in DOMAIN Tail(chan[e]) :
            n + 1 \in DOMAIN chan[e] /\ Tail(chan[e])[n] = chan[e][n + 1] /\ n \in Nat \ {0}
  <2> DEFINE S == 0..Len(sent)  s == chan[e]
  <2>1. s \in Seq(S) /\ s # <<>>
    BY <1>1 DEF TypeOK
  <2> HIDE DEF S, s
  <2>2. /\ Tail(s) \in Seq(S) /\ Head(s) \in S /\ Head(s) = s[1] /\ 1 \in DOMAIN s
        /\ \A n \in DOMAIN Tail(s) :
              n + 1 \in DOMAIN s /\ Tail(s)[n] = s[n + 1] /\ n \in Nat \ {0}
    BY <2>1, Beheaded
  <2> QED
    BY <2>2 DEF S, s
<1> HIDE DEF id
<1>3. /\ chan' \in [Endpoints -> Seq(0..Len(sent))] /\ chan'[e] = Tail(chan[e])
      /\ \A f \in Endpoints : f # e => chan'[f] = chan[f]
  BY <1>1, <1>2 DEF TypeOK
<1>4. sent \in Seq(Submission) /\ DOMAIN sent = 1..Len(sent) /\ Len(sent) \in Nat
  BY DEF TypeOK
<1> DEFINE Before(f, n) == IF f = e THEN n + 1 ELSE n
<1>7. \A f \in Endpoints : \A n \in DOMAIN chan'[f] :
         /\ n \in Nat \ {0} /\ Before(f, n) \in DOMAIN chan[f]
         /\ chan[f][Before(f, n)] = chan'[f][n]
  <2>1. SUFFICES ASSUME NEW f \in Endpoints, NEW n \in DOMAIN chan'[f]
                 PROVE  /\ n \in Nat \ {0} /\ Before(f, n) \in DOMAIN chan[f]
                        /\ chan[f][Before(f, n)] = chan'[f][n]
    OBVIOUS
  <2>2. CASE f = e
    <3>1. n \in DOMAIN Tail(chan[e]) /\ chan'[f][n] = Tail(chan[e])[n]
      BY <1>3, <2>2
    <3> QED
      BY <1>2, <2>2, <3>1
  <2>3. CASE f # e
    <3>1. chan'[f] = chan[f] /\ chan[f] \in Seq(0..Len(sent))
      BY <1>3, <2>3 DEF TypeOK
    <3>2. n \in 1..Len(chan[f]) /\ Len(chan[f]) \in Nat
      BY <3>1
    <3> QED
      BY <2>3, <3>1, <3>2
  <2> QED
    BY <2>2, <2>3
<1>8. ASSUME NEW f \in Endpoints, NEW n \in DOMAIN chan'[f],
             NEW g \in Endpoints, NEW m \in DOMAIN chan'[g],
             Before(f, n) = Before(g, m), f = g
      PROVE  m = n
  BY <1>7, <1>8
<1> HIDE DEF Before
<1>9. ASSUME NEW i \in DOMAIN sent, OnlyOnce(i), sent'[i] = sent[i]
      PROVE  OnlyOnce(i)'
  <2>1. sent'[i].times <= 1
    BY <1>9 DEF OnlyOnce
  <2>2. ASSUME NEW f \in Endpoints, NEW n \in DOMAIN chan'[f], chan'[f][n] = i
        PROVE  sent'[i].times = 0
    BY <1>7, <1>9, <2>2 DEF OnlyOnce
  <2>3. ASSUME NEW f \in Endpoints, NEW n \in DOMAIN chan'[f], chan'[f][n] = i,
               NEW g \in Endpoints, NEW m \in DOMAIN chan'[g], chan'[g][m] = i
        PROVE  g = f /\ m = n
    <3>1. /\ Before(f, n) \in DOMAIN chan[f] /\ chan[f][Before(f, n)] = i
          /\ Before(g, m) \in DOMAIN chan[g] /\ chan[g][Before(g, m)] = i
      BY <1>7, <2>3
    <3>2. g = f /\ Before(g, m) = Before(f, n)
      BY <1>9, <3>1 DEF OnlyOnce
    <3> QED
      BY <1>8, <3>2
  <2> QED
    BY <2>1, <2>2, <2>3 DEF OnlyOnce
<1>5. CASE id # Garbage
  <2> DEFINE r == [sent[id] EXCEPT !.times = @ + 1,
                                   !.fates = @ \cup (IF dblink THEN {} ELSE {"missed"})]
  <2>1. /\ sent' = [sent EXCEPT ![id] = r]
        /\ dbq' = IF dblink THEN Append(dbq, id) ELSE dbq
    BY <1>1, <1>5 DEF Forwarded
  <2>2. id \in DOMAIN sent
    BY <1>2, <1>4, <1>5 DEF Garbage
  <2> HIDE DEF r
  <2>3. r \in Submission /\ r.times = sent[id].times + 1 /\ r.at = sent[id].at
        /\ sent[id].times \in Nat
    <3>1. sent[id] \in Submission
      BY <1>4, <2>2
    <3> DEFINE F == sent[id].fates \cup (IF dblink THEN {} ELSE {"missed"})
    <3>2. F \in SUBSET Fate /\ r = [sent[id] EXCEPT !.times = sent[id].times + 1, !.fates = F]
      BY <3>1 DEF Submission, Fate, r
    <3> HIDE DEF F
    <3>3. r = [src |-> sent[id].src, at |-> sent[id].at, copies |-> sent[id].copies,
               times |-> sent[id].times + 1, fates |-> F]
      BY <3>1, <3>2 DEF Submission
    <3>4. /\ sent[id].src \in Clients /\ sent[id].at \in Endpoints /\ sent[id].copies \in Nat
          /\ sent[id].times \in Nat /\ sent[id].times + 1 \in Nat
      BY <3>1 DEF Submission
    <3> QED
      BY <3>2, <3>3, <3>4 DEF Submission
  <2> HIDE DEF r
  <2>4. /\ sent' \in Seq(Submission) /\ Len(sent') = Len(sent) /\ DOMAIN sent' = DOMAIN sent
        /\ sent'[id] = r /\ \A i \in DOMAIN sent : i # id => sent'[i] = sent[i]
    BY <1>4, <2>1, <2>2, <2>3
  <2>5. dbq' \in Seq(1..Len(sent))
    <3>1. dbq \in Seq(1..Len(sent)) /\ id \in 1..Len(sent)
      BY <1>4, <2>2 DEF TypeOK
    <3> DEFINE T == 1..Len(sent)
    <3>2. dbq \in Seq(T) /\ id \in T
      BY <3>1
    <3> HIDE DEF T
    <3>3. dbq' \in Seq(T)
      BY <2>1, <3>2
    <3> QED
      BY <3>3 DEF T
  <2>6. TypeOK'
    BY <1>1, <1>3, <2>4, <2>5 DEF TypeOK, routerVars
  <2>7. ASSUME NEW i \in DOMAIN sent', ~Shared(sent[i].at)' PROVE OnlyOnce(i)'
    <3>1. i \in DOMAIN sent /\ sent'[i].at = sent[i].at
      BY <2>3, <2>4
    <3>2. ~Shared(sent[i].at)
      BY <1>1, <2>7, <3>1 DEF Shared, routerVars
    <3>3. OnlyOnce(i)
      BY <3>1, <3>2 DEF UnsharedOnce
    <3>4. CASE i = id
      <4>1. sent[i].times = 0 /\ sent'[i].times = 1
        BY <1>2, <2>3, <2>4, <3>3, <3>4 DEF OnlyOnce
      <4>2. \A f \in Endpoints : \A n \in DOMAIN chan'[f] : chan'[f][n] # id
        <5>1. SUFFICES ASSUME NEW f \in Endpoints, NEW n \in DOMAIN chan'[f], chan'[f][n] = id
                       PROVE  FALSE
          OBVIOUS
        <5>2. CASE f # e
          BY <1>2, <1>7, <3>3, <3>4, <5>1, <5>2 DEF OnlyOnce, Before
        <5>3. CASE f = e
          <6>1. n + 1 \in DOMAIN chan[e] /\ chan[e][n + 1] = id /\ n + 1 # 1
            BY <1>7, <5>1, <5>3 DEF Before
          <6> QED
            BY <1>2, <3>3, <3>4, <6>1 DEF OnlyOnce
        <5> QED
          BY <5>2, <5>3
      <4> QED
        BY <3>4, <4>1, <4>2 DEF OnlyOnce
    <3>5. CASE i # id
      <4>1. sent'[i] = sent[i]
        BY <2>4, <3>1, <3>5
      <4> QED
        BY <1>9, <3>1, <3>3, <4>1
    <3> QED
      BY <3>4, <3>5
  <2>8. ReadyIsSubscribed' /\ StopsOfFailureOnly' /\ PublishersConnected'
    BY <1>1 DEF routerVars, ReadyIsSubscribed, StopsOfFailureOnly, PublishersConnected
  <2>9. ConnsHavePublishers' /\ LinksAreConns'
    BY <1>1, LinksKept DEF routerVars
  <2> QED
    BY <2>6, <2>7, <2>8, <2>9 DEF UnsharedOnce
<1>6. CASE id = Garbage
  <2>1. UNCHANGED <<dbq, sent>>
    BY <1>1, <1>6
  <2>2. TypeOK'
    BY <1>1, <1>3, <2>1 DEF TypeOK, routerVars
  <2>3. ASSUME NEW i \in DOMAIN sent', ~Shared(sent[i].at)' PROVE OnlyOnce(i)'
    <3>1. i \in DOMAIN sent /\ OnlyOnce(i)
      BY <1>1, <2>1, <2>3 DEF Shared, routerVars, UnsharedOnce
    <3> QED
      BY <1>9, <2>1, <3>1
  <2>4. ReadyIsSubscribed' /\ StopsOfFailureOnly' /\ PublishersConnected'
    BY <1>1 DEF routerVars, ReadyIsSubscribed, StopsOfFailureOnly, PublishersConnected
  <2>5. ConnsHavePublishers' /\ LinksAreConns'
    BY <1>1, LinksKept DEF routerVars
  <2> QED
    BY <2>2, <2>3, <2>4, <2>5 DEF UnsharedOnce
<1> QED
  BY <1>5, <1>6

-----------------------------------------------------------------------------
(* cif-db, and the keys.                                                   *)

LEMMA DbStepsIInv ==
    ASSUME IInv, DbRegister \/ DbSubscribe \/ DbLinkUp \/ \E c \in Clients : Revoke(c)
    PROVE  IInv'
<1> USE DEF IInv
<1>1. CASE DbRegister
  <2>1. TypeOK'
    BY <1>1, Counted DEF DbRegister, TypeOK
  <2>2. ReadyIsSubscribed' /\ StopsOfFailureOnly' /\ TimesStay
    BY <1>1 DEF DbRegister, ReadyIsSubscribed, StopsOfFailureOnly, TimesStay
  <2> QED
    BY <1>1, <2>1, <2>2, QuietIInv DEF DbRegister
<1>2. CASE DbSubscribe \/ DbLinkUp \/ \E c \in Clients : Revoke(c)
  <2>1. /\ UNCHANGED <<client, bound, routerVars, links, chan, dbq, sent, counts>>
        /\ valid' \subseteq valid /\ dblink' \in BOOLEAN
        /\ db' = db \/ db' = "running"
    BY <1>2 DEF DbSubscribe, DbLinkUp, Revoke, dbVars, TypeOK
  <2>2. TypeOK'
    BY <2>1 DEF TypeOK, routerVars
  <2>3. ReadyIsSubscribed' /\ StopsOfFailureOnly' /\ TimesStay
    BY <2>1 DEF routerVars, ReadyIsSubscribed, StopsOfFailureOnly, TimesStay
  <2> QED
    BY <2>1, <2>2, <2>3, QuietIInv DEF routerVars
<1> QED
  BY <1>1, <1>2

\* The writer never meets a message it cannot read, whose reading would end its loop.
LEMMA ReceiveIInv == ASSUME IInv, Receive PROVE IInv'
<1> USE DEF IInv
<1> DEFINE id == Head(dbq)
<1>1. /\ dbq # <<>> /\ dbq' = Tail(dbq)
      /\ UNCHANGED <<client, bound, valid, routerVars, links, chan, dblink>>
  BY DEF Receive
<1>2. dbq' \in Seq(1..Len(sent)) /\ id \in 1..Len(sent)
  <2> DEFINE S == 1..Len(sent)
  <2>1. dbq \in Seq(S)
    BY DEF TypeOK
  <2> HIDE DEF S
  <2>2. Tail(dbq) \in Seq(S) /\ Head(dbq) \in S
    BY <1>1, <2>1
  <2> QED
    BY <1>1, <2>2 DEF S
<1>3. ~Unreadable(id)
  BY <1>2 DEF Unreadable, Garbage
<1>4. /\ \/ db' = db /\ UNCHANGED counts
         \/ db' = "stopped" /\ Count("failures")
      /\ sent' = Meets({id}, "stored") \/ sent' = Meets({id}, "refused")
            \/ sent' = Meets({id}, "lost")
  BY <1>3 DEF Receive
<1>5. sent' \in Seq(Submission) /\ Len(sent') = Len(sent) /\ TimesStay
  BY <1>4, MeetsKeeps DEF Fate, TimesStay
<1>6. /\ counts' \in [{"starts", "db_starts", "garbage", "failures"} -> Nat]
      /\ StopsOfFailureOnly'
  BY <1>4, Counted DEF TypeOK, StopsOfFailureOnly
<1>7. TypeOK'
  BY <1>1, <1>2, <1>4, <1>5, <1>6 DEF TypeOK, routerVars
<1>8. ReadyIsSubscribed'
  BY <1>1 DEF routerVars, ReadyIsSubscribed
<1> QED
  BY <1>1, <1>5, <1>6, <1>7, <1>8, QuietIInv DEF routerVars

LEMMA DbEndIInv == ASSUME IInv, DbEnd PROVE IInv'
<1> USE DEF IInv
<1>1. /\ db' = "off" /\ dblink' = FALSE /\ dbq' = <<>> /\ sent' = Meets(Elements(dbq), "missed")
      /\ open_for_business' \in BOOLEAN
      /\ UNCHANGED <<client, bound, valid, cached, clients, publishers, conns, links, chan,
                     counts>>
  BY DEF DbEnd, TypeOK
<1>2. sent' \in Seq(Submission) /\ Len(sent') = Len(sent) /\ TimesStay
  BY <1>1, MeetsKeeps DEF Fate, TimesStay
<1>3. TypeOK'
  <2>1. dbq' \in Seq(1..Len(sent))
    BY <1>1
  <2>2. chan' \in [Endpoints -> Seq(0..Len(sent'))] /\ dbq' \in Seq(1..Len(sent'))
    BY <1>1, <1>2, <2>1 DEF TypeOK
  <2> QED
    BY <1>1, <1>2, <2>2 DEF TypeOK
<1>4. ReadyIsSubscribed' /\ StopsOfFailureOnly'
  BY <1>1 DEF ReadyIsSubscribed, StopsOfFailureOnly
<1> QED
  BY <1>1, <1>2, <1>3, <1>4, QuietIInv

-----------------------------------------------------------------------------
(* The theorems.                                                           *)

LEMMA NextIInv == IInv /\ [Next]_vars => IInv'
<1> SUFFICES ASSUME IInv, [Next]_vars PROVE IInv'
  OBVIOUS
<1>1. ASSUME NEW c \in Clients, NEW e \in Endpoints, Start(c, e) PROVE IInv'
  BY <1>1, StartIInv
<1>2. ASSUME NEW c \in Clients,
             HandleRegister(c) \/ HandleIPublish(c) \/ Send(c) \/ Exit(c)
      PROVE  IInv'
  BY <1>2, HandleRegisterIInv, HandleIPublishIInv, SendIInv, ExitIInv
<1>3. ASSUME NEW e \in Endpoints, SendGarbage(e) \/ Establish(e) \/ Relay(e) PROVE IInv'
  BY <1>3, SendGarbageIInv, EstablishIInv, RelayIInv
<1>4. CASE DbRegister \/ DbSubscribe \/ DbLinkUp \/ \E c \in Clients : Revoke(c)
  BY <1>4, DbStepsIInv
<1>5. CASE Receive
  BY <1>5, ReceiveIInv
<1>6. CASE DbEnd
  BY <1>6, DbEndIInv
<1>7. CASE UNCHANGED vars
  <2>1. /\ UNCHANGED <<client, bound, valid, open_for_business, cached, clients, publishers,
                       conns, links, chan, db, dblink, dbq, sent, counts>>
    BY <1>7 DEF vars, routerVars, dbVars
  <2>2. TypeOK'
    BY <2>1 DEF IInv, TypeOK
  <2>3. ReadyIsSubscribed' /\ StopsOfFailureOnly' /\ TimesStay
    BY <2>1 DEF IInv, ReadyIsSubscribed, StopsOfFailureOnly, TimesStay
  <2> QED
    BY <2>1, <2>2, <2>3, QuietIInv
<1> QED
  BY <1>1, <1>2, <1>3, <1>4, <1>5, <1>6, <1>7 DEF Next

THEOREM Invariance == Spec => []IInv
  BY InitIInv, NextIInv, PTL DEF Spec

\* Every state has the declared types; in particular nothing that is no submission is on
\* its way to cif-db.
THEOREM TypeCorrect == Spec => []TypeOK
<1>1. IInv => TypeOK
  BY DEF IInv
<1> QED
  BY <1>1, Invariance, PTL

\* Whoever's register() returned was accepted, and the router connected to it.
THEOREM ReadySubscribed == Spec => []ReadyIsSubscribed
<1>1. IInv => ReadyIsSubscribed
  BY DEF IInv
<1> QED
  BY <1>1, Invariance, PTL

\* The writer's loop ends only because an HBase call failed.
THEOREM WriterEndsOfFailure == Spec => []StopsOfFailureOnly
<1>1. IInv => StopsOfFailureOnly
  BY DEF IInv
<1> QED
  BY <1>1, Invariance, PTL

\* No submission is relayed twice unless two clients share the endpoint it comes from.
THEOREM RelayedTwiceOnlyIfShared == Spec => []TwiceOnlyIfShared
<1>1. IInv => TwiceOnlyIfShared
  <2>1. SUFFICES ASSUME IInv, NEW i \in DOMAIN sent, sent[i].times > 1 PROVE Shared(sent[i].at)
    BY DEF TwiceOnlyIfShared, Shared
  <2>2. sent[i].times \in Nat
    <3>1. sent \in Seq(Submission)
      BY <2>1 DEF IInv, TypeOK
    <3>2. sent[i] \in Submission
      BY <3>1
    <3> QED
      BY <3>2 DEF Submission
  <2> QED
    BY <2>1, <2>2 DEF IInv, UnsharedOnce, OnlyOnce
<1> QED
  BY <1>1, Invariance, PTL

=============================================================================
