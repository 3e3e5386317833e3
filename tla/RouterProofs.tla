---------------------------- MODULE RouterProofs ----------------------------
(***************************************************************************)
(* The safety of the router's event loop, for any clients, keys, records   *)
(* and number of requests: who is accepted, who is answered, and what the  *)
(* wait maps stand for.                                                    *)
(***************************************************************************)
EXTENDS Router, SequenceTheorems, TLAPS

-----------------------------------------------------------------------------
(* The inductive invariant.                                                *)

\* Before cif-db the router is closed and there is no mini client.
ClosedBeforeDb == db_starts = 0 => ~open_for_business /\ miniclient = "none"

\* A result waiting to be taken is a record its key was found to have.
PendingWereHeld == \A k \in DOMAIN pending : pending[k] \in held[k]

IInv == /\ TypeOK /\ ClosedBeforeDb /\ NobodyBeforeDb /\ PendingWereHeld
        /\ WaitMapsFaithful /\ AnsweredAtMostOnce /\ VerdictsHaveGrounds
        /\ RegisteredWereAccepted /\ PublishersWereAccepted

-----------------------------------------------------------------------------
(* Counters and the log.                                                   *)

LEMMA CountersExcept ==
    ASSUME NEW s \in Counters
    PROVE  /\ [s EXCEPT !.controls = @ + 1] \in Counters
           /\ [s EXCEPT !.bad = @ + 1] \in Counters
           /\ [s EXCEPT !.bad_version = @ + 1] \in Counters
BY DEF Counters

LEMMA AnswersExcept ==
    ASSUME NEW q \in Request, NEW s \in Seq(Answer)
    PROVE  LET r == [q EXCEPT !.answers = s]
           IN  /\ r \in Request /\ r.cmd = q.cmd /\ r.src = q.src /\ r.key = q.key
               /\ r.noted = q.noted /\ r.answers = s
BY DEF Request

\* A request received is a new last entry of the log.
LEMMA Received ==
    ASSUME TypeOK, NEW cmd \in Command, NEW c \in Clients, NEW k \in Keys,
           NEW port \in Ports \cup {NoPort}, NEW noted \in BOOLEAN,
           NEW answers \in Seq(Answer), Receive(cmd, c, k, port, noted, answers)
    PROVE  /\ log' \in Seq(Request)
           /\ DOMAIN log' = DOMAIN log \cup {Seq0} /\ Seq0 \notin DOMAIN log
           /\ log'[Seq0] = [cmd |-> cmd, src |-> c, key |-> k, port |-> port,
                            noted |-> noted, answers |-> answers]
           /\ \A j \in DOMAIN log : log'[j] = log[j]
           /\ stats' \in Counters
<1> DEFINE r == [cmd |-> cmd, src |-> c, key |-> k, port |-> port,
                 noted |-> noted, answers |-> answers]
<1>1. r \in Request /\ log \in Seq(Request) /\ log' = Append(log, r)
  BY DEF Receive, Request, TypeOK
<1>2. stats' \in Counters
  BY CountersExcept DEF Receive, TypeOK
<1> HIDE DEF r
<1>3. /\ log' \in Seq(Request)
      /\ DOMAIN log' = DOMAIN log \cup {Seq0} /\ Seq0 \notin DOMAIN log
      /\ log'[Seq0] = r
      /\ \A j \in DOMAIN log : log'[j] = log[j]
  BY <1>1 DEF Seq0
<1> QED
  BY <1>2, <1>3 DEF r

\* A reply adds an answer to its request and changes nothing else in the log.
LEMMA Replied ==
    ASSUME TypeOK, NEW i \in DOMAIN log, NEW status \in Status, Reply(i, status)
    PROVE  /\ log' \in Seq(Request) /\ DOMAIN log' = DOMAIN log
           /\ log'[i].cmd = log[i].cmd /\ log'[i].src = log[i].src
           /\ log'[i].key = log[i].key /\ log'[i].noted = log[i].noted
           /\ log'[i].answers = Append(log[i].answers, [status |-> status, at |-> now])
           /\ \A j \in DOMAIN log : j # i => log'[j] = log[j]
<1> DEFINE a == [status |-> status, at |-> now]
           r == [log[i] EXCEPT !.answers = Append(@, a)]
<1>1. log \in Seq(Request) /\ log[i] \in Request /\ a \in Answer
  BY DEF TypeOK, Answer
<1>2. /\ log' = [log EXCEPT ![i] = r]
  BY DEF Reply
<1>3. /\ r \in Request /\ r.cmd = log[i].cmd /\ r.src = log[i].src /\ r.key = log[i].key
      /\ r.noted = log[i].noted /\ r.answers = Append(log[i].answers, a)
  <2>1. Append(log[i].answers, a) \in Seq(Answer)
    BY <1>1 DEF Request
  <2> QED
    BY <1>1, <2>1, AnswersExcept
<1> HIDE DEF r
<1>4. /\ log' \in Seq(Request) /\ DOMAIN log' = DOMAIN log /\ log'[i] = r
      /\ \A j \in DOMAIN log : j # i => log'[j] = log[j]
  BY <1>1, <1>2, <1>3, ExceptSeq
<1> QED
  BY <1>3, <1>4

\* What a growing log keeps: who was accepted stays so.
Grows ==
    \A j \in DOMAIN log :
        /\ j \in DOMAIN log'
        /\ log'[j].cmd = log[j].cmd /\ log'[j].src = log[j].src /\ log'[j].key = log[j].key
        /\ \A n \in DOMAIN log[j].answers :
              n \in DOMAIN log'[j].answers /\ log'[j].answers[n] = log[j].answers[n]

LEMMA AcceptedStays ==
    ASSUME Grows PROVE \A c, k : WasAccepted(c, k) => WasAccepted(c, k)'
BY DEF Grows, WasAccepted

\* Answers of a request that has at most one, and of one that has none.
LEMMA FirstAnswer ==
    ASSUME NEW a
    PROVE  Len(Append(<<>>, a)) = 1 /\ DOMAIN Append(<<>>, a) = {1} /\ Append(<<>>, a)[1] = a
OBVIOUS

-----------------------------------------------------------------------------
(* The initial states, and one lemma for each group of steps.              *)

LEMMA InitIInv == Init => IInv
<1> SUFFICES ASSUME Init PROVE IInv
  OBVIOUS
<1>1. TypeOK
  <2>1. /\ log \in Seq(Request) /\ stats \in Counters /\ now \in 0..MaxTime
        /\ db_starts \in 0..MaxDbStarts
    BY BoundsAssumption DEF Init, Counters
  <2>2. Lookup!TypeOK
    BY DEF Init, Lookup!Idle, Lookup!TypeOK
  <2> QED
    BY <2>1, <2>2 DEF Init, TypeOK, Empty
<1>2. ClosedBeforeDb /\ NobodyBeforeDb /\ PendingWereHeld
  BY DEF Init, ClosedBeforeDb, NobodyBeforeDb, PendingWereHeld, Empty, Lookup!Idle
<1>3. WaitMapsFaithful /\ AnsweredAtMostOnce /\ VerdictsHaveGrounds
  BY DEF Init, WaitMapsFaithful, AnsweredAtMostOnce, VerdictsHaveGrounds, Empty
<1>4. RegisteredWereAccepted /\ PublishersWereAccepted
  BY DEF Init, RegisteredWereAccepted, PublishersWereAccepted, Empty
<1> QED
  BY <1>1, <1>2, <1>3, <1>4 DEF IInv

\* A request that is answered at once, if at all: the tables stay, but for the
\* publishers when it is the IPUBLISH of a registered client.
LEMMA QuietIInv ==
    ASSUME IInv, NEW cmd \in Command \ {"REGISTER", "UNREGISTER"}, NEW c \in Clients,
           NEW k \in Keys, NEW port \in Ports \cup {NoPort},
           NEW answers \in Seq(Answer), Len(answers) <= 1,
           Receive(cmd, c, k, port, FALSE, answers),
           \/ UNCHANGED publishers
           \/ /\ open_for_business /\ IsRegistered(c, k) /\ port \in Ports
              /\ publishers' = With(publishers, c, port),
           UNCHANGED <<open_for_business, miniclient, db_starts, clients, waitMaps, now,
                       lookupVars>>
    PROVE  IInv'
<1>1. /\ log' \in Seq(Request)
      /\ DOMAIN log' = DOMAIN log \cup {Seq0} /\ Seq0 \notin DOMAIN log
      /\ log'[Seq0] = [cmd |-> cmd, src |-> c, key |-> k, port |-> port,
                       noted |-> FALSE, answers |-> answers]
      /\ \A j \in DOMAIN log : log'[j] = log[j]
      /\ stats' \in Counters
  BY Received DEF IInv
<1>2. /\ DOMAIN With(publishers, c, port) = DOMAIN publishers \cup {c}
      /\ With(publishers, c, port)[c] = port
      /\ \A x \in DOMAIN publishers : x # c => With(publishers, c, port)[x] = publishers[x]
  BY DEF With
<1>3. \A x, y : WasAccepted(x, y) => WasAccepted(x, y)'
  BY <1>1, AcceptedStays DEF Grows
<1>4. TypeOK'
  <2>1. Lookup!TypeOK'
    BY DEF IInv, TypeOK, Lookup!TypeOK, lookupVars
  <2>2. DOMAIN publishers' \subseteq Clients /\ \A x \in DOMAIN publishers' : publishers'[x] \in Ports
    BY <1>2 DEF IInv, TypeOK
  <2> QED
    BY <1>1, <2>1, <2>2 DEF IInv, TypeOK, waitMaps
<1>5. ClosedBeforeDb' /\ NobodyBeforeDb' /\ PendingWereHeld'
  BY DEF IInv, ClosedBeforeDb, NobodyBeforeDb, PendingWereHeld, waitMaps, lookupVars
<1>6. WaitMapsFaithful'
  BY <1>1 DEF IInv, TypeOK, WaitMapsFaithful, WaitingFor, waitMaps
<1>7. AnsweredAtMostOnce'
  BY <1>1 DEF IInv, AnsweredAtMostOnce
<1>8. VerdictsHaveGrounds'
  BY <1>1 DEF IInv, VerdictsHaveGrounds, lookupVars
<1>9. RegisteredWereAccepted'
  BY <1>3 DEF IInv, RegisteredWereAccepted, WasAccepted
<1>10. PublishersWereAccepted'
  <2>1. IsRegistered(c, k) => WasAccepted(c, k)
    BY DEF IInv, RegisteredWereAccepted, IsRegistered
  <2>2. \A x \in DOMAIN publishers' : \E y \in Keys : WasAccepted(x, y)
    BY <1>2, <2>1 DEF IInv, PublishersWereAccepted
  <2> QED
    BY <1>3, <2>2 DEF PublishersWereAccepted
<1> QED
  BY <1>4, <1>5, <1>6, <1>7, <1>8, <1>9, <1>10 DEF IInv

\* The quiet requests by name.
LEMMA CommandStepIInv ==
    ASSUME IInv, NEW c \in Clients, NEW k \in Keys,
           \/ ListClients(c, k) \/ Stats(c, k) \/ AlwaysAnswered(c, k) \/ Forward(c, k)
           \/ \E port \in Ports : IPublish(c, k, port)
    PROVE  IInv'
<1> USE DEF Command, NoPort
<1>1. NoAnswer \in Seq(Answer) /\ Len(NoAnswer) <= 1
  BY DEF NoAnswer
<1>2. \A status \in Status :
         AnswerNow(status) \in Seq(Answer) /\ Len(AnswerNow(status)) <= 1
  BY DEF AnswerNow, Answer, IInv, TypeOK
<1>3. SUCCESS \in Status /\ FAILED \in Status /\ \A b : ListClientsStatus(b) \in Status
  BY DEF Status, SUCCESS, FAILED, UNAUTHORIZED, ListClientsStatus, StatusOr
<1>4. CASE ListClients(c, k)
  <2> DEFINE answers == IF open_for_business
                        THEN AnswerNow(ListClientsStatus(IsRegistered(c, k))) ELSE NoAnswer
  <2>1. answers \in Seq(Answer) /\ Len(answers) <= 1
    BY <1>1, <1>2, <1>3
  <2>2. Receive("LISTCLIENTS", c, k, NoPort, FALSE, answers)
    BY <1>4 DEF ListClients
  <2> HIDE DEF answers
  <2> QED
    BY <1>4, <2>1, <2>2, QuietIInv DEF ListClients
<1>5. CASE Stats(c, k)
  <2> DEFINE answers == IF open_for_business THEN AnswerNow(SUCCESS) ELSE NoAnswer
  <2>1. answers \in Seq(Answer) /\ Len(answers) <= 1
    BY <1>1, <1>2, <1>3
  <2>2. Receive("STATS", c, k, NoPort, FALSE, answers)
    BY <1>5 DEF Stats
  <2> HIDE DEF answers
  <2> QED
    BY <1>5, <2>1, <2>2, QuietIInv DEF Stats
<1>6. CASE AlwaysAnswered(c, k)
  <2>1. PICK cmd \in {"THREADS_LIST", "PING"} :
           Receive(cmd, c, k, NoPort, FALSE, AnswerNow(SUCCESS))
    BY <1>6 DEF AlwaysAnswered
  <2>2. AnswerNow(SUCCESS) \in Seq(Answer) /\ Len(AnswerNow(SUCCESS)) <= 1
    BY <1>2, <1>3
  <2> QED
    BY <1>6, <2>1, <2>2, QuietIInv DEF AlwaysAnswered
<1>7. CASE Forward(c, k)
  BY <1>1, <1>7, QuietIInv DEF Forward
<1>8. ASSUME NEW port \in Ports, IPublish(c, k, port) PROVE IInv'
  <2> DEFINE ok == Known(c) \/ IsRegistered(c, k)
             answers == IF open_for_business
                        THEN AnswerNow(IF ok THEN SUCCESS ELSE FAILED) ELSE NoAnswer
  <2>1. answers \in Seq(Answer) /\ Len(answers) <= 1
    BY <1>1, <1>2, <1>3
  <2>2. Receive("IPUBLISH", c, k, port, FALSE, answers)
    BY <1>8 DEF IPublish
  <2> HIDE DEF answers
  <2>3. \/ UNCHANGED publishers
        \/ /\ open_for_business /\ IsRegistered(c, k)
           /\ publishers' = With(publishers, c, port)
    BY <1>8 DEF IPublish
  <2> QED
    BY <1>8, <2>1, <2>2, <2>3, QuietIInv DEF IPublish
<1> QED
  BY <1>4, <1>5, <1>6, <1>7, <1>8

\* The steps of the lookup service keep its types.
LEMMA LookupTypes ==
    ASSUME Lookup!TypeOK, NEW k \in Keys,
           \/ Lookup!Ask(k) \/ Lookup!Lose(k) \/ Lookup!Take(k)
           \/ \E r \in Records : Lookup!Produce(k, r) \/ Lookup!Update(k, r)
    PROVE  Lookup!TypeOK'
<1> USE DEF Lookup!TypeOK
<1>1. CASE Lookup!Ask(k)
  BY <1>1 DEF Lookup!Ask
<1>2. CASE Lookup!Lose(k)
  BY <1>2 DEF Lookup!Lose
<1>3. CASE Lookup!Take(k)
  BY <1>3 DEF Lookup!Take, Lookup!Without
<1>4. ASSUME NEW r \in Records, Lookup!Produce(k, r) PROVE Lookup!TypeOK'
  BY <1>4 DEF Lookup!Produce, Lookup!With
<1>5. ASSUME NEW r \in Records, Lookup!Update(k, r) PROVE Lookup!TypeOK'
  BY <1>5 DEF Lookup!Update
<1> QED
  BY <1>1, <1>2, <1>3, <1>4, <1>5

\* A REGISTER or UNREGISTER: the log grows by an unanswered request, and a wait map may
\* hold it under its key.
LEMMA NotedIInv ==
    ASSUME IInv, NEW c \in Clients, NEW k \in Keys, Register(c, k) \/ Unregister(c, k)
    PROVE  IInv'
<1>1. PICK cmd \in {"REGISTER", "UNREGISTER"} :
         /\ Receive(cmd, c, k, NoPort, open_for_business, NoAnswer)
         /\ cmd = "REGISTER" => Register(c, k)
         /\ cmd = "UNREGISTER" => Unregister(c, k)
  BY DEF Register, Unregister
<1>2. /\ log' \in Seq(Request)
      /\ DOMAIN log' = DOMAIN log \cup {Seq0} /\ Seq0 \notin DOMAIN log
      /\ log'[Seq0] = [cmd |-> cmd, src |-> c, key |-> k, port |-> NoPort,
                       noted |-> open_for_business, answers |-> <<>>]
      /\ \A j \in DOMAIN log : log'[j] = log[j]
      /\ stats' \in Counters
  <2>1. open_for_business \in BOOLEAN /\ NoAnswer \in Seq(Answer) /\ cmd \in Command
    BY DEF IInv, TypeOK, NoAnswer, Command
  <2> QED
    BY <1>1, <2>1, Received DEF IInv, NoAnswer
<1>3. /\ UNCHANGED <<open_for_business, miniclient, db_starts, clients, publishers, now,
                     pending, held>>
      /\ \/ UNCHANGED <<waitMaps, asked, outstanding>>
         \/ open_for_business /\ Lookup!Ask(k)
  BY <1>1 DEF Register, Unregister, Lookup!Ask, lookupVars, waitMaps
<1>4. /\ \/ UNCHANGED register_wait_map
         \/ /\ cmd = "REGISTER" /\ open_for_business
            /\ register_wait_map' = With(register_wait_map, k, Seq0)
      /\ \/ UNCHANGED unregister_wait_map
         \/ /\ cmd = "UNREGISTER" /\ open_for_business
            /\ unregister_wait_map' = With(unregister_wait_map, k, Seq0)
  BY <1>1 DEF Register, Unregister
<1>5. \A x, y : WasAccepted(x, y) => WasAccepted(x, y)'
  BY <1>2, AcceptedStays DEF Grows
<1>6. TypeOK'
  <2>1. Lookup!TypeOK'
    <3>1. CASE UNCHANGED <<waitMaps, asked, outstanding>>
      BY <1>3, <3>1 DEF IInv, TypeOK, Lookup!TypeOK
    <3>2. CASE Lookup!Ask(k)
      BY <3>2, LookupTypes DEF IInv, TypeOK
    <3> QED
      BY <1>3, <3>1, <3>2
  <2>2. /\ DOMAIN register_wait_map' \subseteq Keys
        /\ \A x \in DOMAIN register_wait_map' : register_wait_map'[x] \in DOMAIN log'
    BY <1>2, <1>4 DEF IInv, TypeOK, With
  <2>3. /\ DOMAIN unregister_wait_map' \subseteq Keys
        /\ \A x \in DOMAIN unregister_wait_map' : unregister_wait_map'[x] \in DOMAIN log'
    BY <1>2, <1>4 DEF IInv, TypeOK, With
  <2> QED
    BY <1>2, <1>3, <2>1, <2>2, <2>3 DEF IInv, TypeOK
<1>7. ClosedBeforeDb' /\ NobodyBeforeDb' /\ PendingWereHeld'
  BY <1>3 DEF IInv, ClosedBeforeDb, NobodyBeforeDb, PendingWereHeld, waitMaps
<1>8. WaitMapsFaithful'
  <2>1. \A x \in DOMAIN register_wait_map' :
           LET i == register_wait_map'[x]
           IN log'[i].cmd = "REGISTER" /\ log'[i].key = x /\ log'[i].noted /\ log'[i].answers = <<>>
    BY <1>2, <1>4 DEF IInv, TypeOK, WaitMapsFaithful, WaitingFor, With
  <2>2. \A x \in DOMAIN unregister_wait_map' :
           LET i == unregister_wait_map'[x]
           IN log'[i].cmd = "UNREGISTER" /\ log'[i].key = x /\ log'[i].noted /\ log'[i].answers = <<>>
    BY <1>2, <1>4 DEF IInv, TypeOK, WaitMapsFaithful, WaitingFor, With
  <2> QED
    BY <2>1, <2>2 DEF WaitMapsFaithful, WaitingFor
<1>9. AnsweredAtMostOnce'
  BY <1>2 DEF IInv, AnsweredAtMostOnce
<1>10. VerdictsHaveGrounds'
  BY <1>2, <1>3 DEF IInv, VerdictsHaveGrounds
<1>11. RegisteredWereAccepted'
  BY <1>3, <1>5 DEF IInv, RegisteredWereAccepted, WasAccepted
<1>12. PublishersWereAccepted'
  BY <1>3, <1>5 DEF IInv, PublishersWereAccepted
<1> QED
  BY <1>6, <1>7, <1>8, <1>9, <1>10, <1>11, <1>12 DEF IInv

\* The result for a key a request waits for: it is answered, its first time, and on
\* success of a REGISTER its sender enters the clients table.
LEMMA ReplyIInv ==
    ASSUME IInv, NEW k \in Keys, ReplyToRegister(k) \/ ReplyToUnregister(k)
    PROVE  IInv'
<1>1. PICK i \in DOMAIN log :
         /\ Reply(i, Verdict(k))
         /\ log[i].key = k /\ log[i].answers = <<>>
         /\ \/ /\ log[i].cmd = "REGISTER" /\ ReplyToRegister(k)
               /\ i = register_wait_map[k]
            \/ /\ log[i].cmd = "UNREGISTER" /\ ReplyToUnregister(k)
               /\ i = unregister_wait_map[k]
  BY DEF ReplyToRegister, ReplyToUnregister, IInv, TypeOK, WaitMapsFaithful, WaitingFor
<1> DEFINE a == [status |-> Verdict(k), at |-> now]
<1>2. /\ k \in DOMAIN pending /\ Lookup!Take(k)
      /\ UNCHANGED <<open_for_business, miniclient, db_starts, publishers, stats, now, held>>
      /\ \/ UNCHANGED register_wait_map
         \/ log[i].cmd = "REGISTER" /\ register_wait_map' = Without(register_wait_map, k)
      /\ \/ UNCHANGED unregister_wait_map
         \/ log[i].cmd = "UNREGISTER" /\ unregister_wait_map' = Without(unregister_wait_map, k)
      /\ \/ UNCHANGED clients
         \/ /\ log[i].cmd = "REGISTER" /\ Verdict(k) = SUCCESS
            /\ clients' = With(clients, log[i].src, k)
  BY <1>1 DEF ReplyToRegister, ReplyToUnregister, Lookup!Take
<1>3. Verdict(k) \in Status
  BY DEF Verdict, Status
<1>4. /\ log' \in Seq(Request) /\ DOMAIN log' = DOMAIN log
      /\ log'[i].cmd = log[i].cmd /\ log'[i].src = log[i].src
      /\ log'[i].key = log[i].key /\ log'[i].noted = log[i].noted
      /\ log'[i].answers = Append(<<>>, a)
      /\ \A j \in DOMAIN log : j # i => log'[j] = log[j]
  BY <1>1, <1>3, Replied DEF IInv
<1>5. Len(log'[i].answers) = 1 /\ DOMAIN log'[i].answers = {1} /\ log'[i].answers[1] = a
  BY <1>4, FirstAnswer
<1>6. log[i].src \in Clients
  <2>1. log \in Seq(Request) /\ log[i] \in Request
    BY DEF IInv, TypeOK
  <2> QED
    BY <2>1 DEF Request
<1>7. \A x, y : WasAccepted(x, y) => WasAccepted(x, y)'
  BY <1>1, <1>4, AcceptedStays DEF Grows
<1> HIDE DEF a
<1>8. a.status = Verdict(k) /\ a.at = now
  BY DEF a
<1>9. TypeOK'
  <2>1. Lookup!TypeOK'
    BY <1>2, LookupTypes DEF IInv, TypeOK
  <2>2. DOMAIN clients' \subseteq Names /\ \A c \in DOMAIN clients' \cap Clients : clients'[c] \in Keys
    BY <1>2, <1>6 DEF IInv, TypeOK, With, Names
  <2>3. /\ DOMAIN register_wait_map' \subseteq Keys /\ DOMAIN unregister_wait_map' \subseteq Keys
        /\ \A x \in DOMAIN register_wait_map' : register_wait_map'[x] \in DOMAIN log'
        /\ \A x \in DOMAIN unregister_wait_map' : unregister_wait_map'[x] \in DOMAIN log'
    BY <1>2, <1>4 DEF IInv, TypeOK, Without
  <2> QED
    BY <1>2, <1>4, <2>1, <2>2, <2>3 DEF IInv, TypeOK
<1>10. ClosedBeforeDb' /\ NobodyBeforeDb'
  BY <1>1, <1>2 DEF IInv, ClosedBeforeDb, NobodyBeforeDb, ReplyToRegister, ReplyToUnregister
<1>11. PendingWereHeld'
  BY <1>2 DEF IInv, PendingWereHeld, Lookup!Take, Lookup!Without
<1>12. WaitMapsFaithful'
  <2>1. \A x \in DOMAIN register_wait_map' :
           LET j == register_wait_map'[x]
           IN j # i /\ j \in DOMAIN log /\ log[j].cmd = "REGISTER" /\ log[j].key = x
              /\ log[j].noted /\ log[j].answers = <<>>
    BY <1>1, <1>2 DEF IInv, TypeOK, WaitMapsFaithful, WaitingFor, Without, ReplyToRegister
  <2>2. \A x \in DOMAIN unregister_wait_map' :
           LET j == unregister_wait_map'[x]
           IN j # i /\ j \in DOMAIN log /\ log[j].cmd = "UNREGISTER" /\ log[j].key = x
              /\ log[j].noted /\ log[j].answers = <<>>
    BY <1>1, <1>2 DEF IInv, TypeOK, WaitMapsFaithful, WaitingFor, Without, ReplyToUnregister
  <2> QED
    BY <1>4, <2>1, <2>2 DEF WaitMapsFaithful, WaitingFor
<1>13. AnsweredAtMostOnce'
  <2>1. \A j \in DOMAIN log : j # i => Len(log'[j].answers) <= 1
    BY <1>4 DEF IInv, AnsweredAtMostOnce
  <2>2. Len(log'[i].answers) <= 1
    BY <1>5
  <2> QED
    BY <1>4, <2>1, <2>2 DEF AnsweredAtMostOnce
<1>14. VerdictsHaveGrounds'
  <2>1. Verdict(k) = SUCCESS => pending[k] \in held[k] /\ Valid(pending[k], now)
    BY <1>2 DEF IInv, PendingWereHeld, Verdict, SUCCESS, FAILED
  <2> QED
    BY <1>1, <1>2, <1>4, <1>5, <1>8, <2>1 DEF IInv, VerdictsHaveGrounds
<1>15. RegisteredWereAccepted'
  <2> SUFFICES ASSUME NEW c \in DOMAIN clients' \cap Clients
               PROVE  \E j \in DOMAIN log' :
                         /\ log'[j].cmd = "REGISTER" /\ log'[j].src = c
                         /\ log'[j].key = clients'[c]
                         /\ \E n \in DOMAIN log'[j].answers :
                               log'[j].answers[n].status = SUCCESS
    BY DEF RegisteredWereAccepted, WasAccepted
  <2>1. CASE c \in DOMAIN clients /\ clients'[c] = clients[c]
    BY <1>7, <2>1 DEF IInv, RegisteredWereAccepted, WasAccepted
  <2>2. CASE /\ log[i].cmd = "REGISTER" /\ Verdict(k) = SUCCESS
             /\ c = log[i].src /\ clients'[c] = k
    BY <1>1, <1>4, <1>5, <1>8, <2>2
  <2> QED
    BY <1>2, <2>1, <2>2 DEF With
<1>16. PublishersWereAccepted'
  BY <1>2, <1>7 DEF IInv, PublishersWereAccepted
<1> QED
  BY <1>9, <1>10, <1>11, <1>12, <1>13, <1>14, <1>15, <1>16 DEF IInv

\* Steps that touch neither log nor wait maps nor publishers, and of the clients table
\* at most the two rows that are not ordinary clients.
LEMMA OtherStepIInv ==
    ASSUME IInv,
           \/ DbRegister \/ DbUnregister \/ MiniClientRegister \/ Unusable \/ Tick
           \/ \E k \in Keys : \/ DropResult(k) \/ SomeResult(k) \/ LookupLost(k)
                              \/ \E r \in Records : KeyUpdate(k, r)
    PROVE  IInv'
<1>1. /\ UNCHANGED <<log, register_wait_map, unregister_wait_map, publishers>>
      /\ \/ UNCHANGED clients
         \/ clients' = With(clients, "cif-db", "dbkey") /\ db_starts' > 0
         \/ /\ clients' = With(clients, "cif-router-miniclient", "routerkey")
            /\ miniclient = "started" /\ UNCHANGED db_starts
      /\ held' = held \/ \E k \in Keys, r \in Records : Lookup!Update(k, r)
  BY DEF DbRegister, DbUnregister, MiniClientRegister, Unusable, Tick, DropResult, SomeResult,
         LookupResult, LookupLost, KeyUpdate, LookupUnchanged, waitMaps, lookupVars,
         Lookup!Take, Lookup!Produce, Lookup!Lose, Lookup!Restart, IInv, TypeOK
<1>2. /\ \/ db_starts' = db_starts
         \/ db_starts < MaxDbStarts /\ db_starts' = db_starts + 1
      /\ db_starts' # db_starts + 1 =>
            /\ open_for_business' = open_for_business \/ open_for_business' = FALSE
            /\ miniclient' = miniclient \/ miniclient = "started"
      /\ now' = now \/ (now < MaxTime /\ now' = now + 1)
      /\ asked' = asked
  BY DEF DbRegister, DbUnregister, MiniClientRegister, Unusable, Tick, DropResult, SomeResult,
         LookupResult, LookupLost, KeyUpdate, LookupUnchanged, lookupVars,
         Lookup!Take, Lookup!Produce, Lookup!Lose, Lookup!Restart, Lookup!Update
<1>3. \A k \in Keys : held[k] \subseteq held'[k]
  BY <1>1 DEF Lookup!Update, IInv, TypeOK, Lookup!TypeOK
<1>4. /\ DOMAIN clients' \cap Clients = DOMAIN clients \cap Clients
      /\ DOMAIN clients' \subseteq Names
      /\ \A c \in DOMAIN clients \cap Clients : clients'[c] = clients[c]
  BY <1>1, NamesAssumption DEF With, Names, IInv, TypeOK
<1>5. TypeOK'
  <2>1. Lookup!TypeOK'
    <3>1. CASE UNCHANGED lookupVars
      BY <3>1 DEF lookupVars, IInv, TypeOK, Lookup!TypeOK
    <3>2. CASE Lookup!Restart
      BY <3>2 DEF IInv, TypeOK, Lookup!TypeOK, Lookup!Restart
    <3>3. ASSUME NEW k \in Keys, Lookup!Take(k) \/ Lookup!Lose(k) PROVE Lookup!TypeOK'
      BY <3>3, LookupTypes DEF IInv, TypeOK
    <3>4. ASSUME NEW k \in Keys, NEW r \in Records, Lookup!Produce(k, r) \/ Lookup!Update(k, r)
          PROVE  Lookup!TypeOK'
      BY <3>4, LookupTypes DEF IInv, TypeOK
    <3> QED
      BY <3>1, <3>2, <3>3, <3>4 DEF DbRegister, DbUnregister, MiniClientRegister, Unusable,
         Tick, DropResult, SomeResult, LookupResult, LookupLost, KeyUpdate
  <2>2. stats' \in Counters
    BY CountersExcept DEF DbRegister, DbUnregister, MiniClientRegister, Unusable, Tick,
       DropResult, SomeResult, LookupResult, LookupLost, KeyUpdate, LookupUnchanged, IInv, TypeOK
  <2>3. open_for_business' \in BOOLEAN /\ miniclient' \in {"none", "started", "registered"}
    BY Zenon DEF DbRegister, DbUnregister, MiniClientRegister, Unusable, Tick, DropResult,
       SomeResult, LookupResult, LookupLost, KeyUpdate, LookupUnchanged, IInv, TypeOK
  <2>4. db_starts \in 0..MaxDbStarts /\ now \in 0..MaxTime
    BY DEF IInv, TypeOK
  <2>5. db_starts' \in 0..MaxDbStarts /\ now' \in 0..MaxTime
    BY <1>2, <2>4, BoundsAssumption
  <2> QED
    BY <1>1, <1>4, <2>1, <2>2, <2>3, <2>5 DEF IInv, TypeOK
<1>6. ClosedBeforeDb' /\ NobodyBeforeDb'
  <2> SUFFICES ASSUME db_starts' = 0
               PROVE  /\ ~open_for_business' /\ miniclient' = "none"
                      /\ DOMAIN clients' = {} /\ DOMAIN publishers' = {} /\ asked' = 0
                      /\ DOMAIN register_wait_map' = {} /\ DOMAIN unregister_wait_map' = {}
    BY DEF ClosedBeforeDb, NobodyBeforeDb
  <2>1. db_starts \in Nat
    BY BoundsAssumption DEF IInv, TypeOK
  <2>2. UNCHANGED db_starts /\ db_starts = 0
    BY <1>2, <2>1
  <2>3. ~open_for_business /\ miniclient = "none"
    BY <2>2 DEF IInv, ClosedBeforeDb
  <2>4. ~open_for_business' /\ miniclient' = "none"
    <3>1. db_starts' # db_starts + 1
      BY <2>1, <2>2
    <3> QED
      BY <1>2, <2>3, <3>1
  <2>5. UNCHANGED clients
    BY <1>1, <2>2, <2>3
  <2> QED
    BY <1>1, <1>2, <2>2, <2>4, <2>5 DEF IInv, NobodyBeforeDb
<1>7. PendingWereHeld'
  <2> USE DEF IInv, PendingWereHeld
  <2>1. CASE UNCHANGED lookupVars
    BY <2>1 DEF lookupVars
  <2>2. CASE Lookup!Restart
    BY <2>2 DEF Lookup!Restart
  <2>3. ASSUME NEW k \in Keys, Lookup!Take(k) \/ Lookup!Lose(k) PROVE PendingWereHeld'
    BY <2>3 DEF Lookup!Take, Lookup!Without, Lookup!Lose
  <2>4. ASSUME NEW k \in Keys, NEW r \in Records, Lookup!Produce(k, r) PROVE PendingWereHeld'
    BY <2>4 DEF Lookup!Produce, Lookup!With
  <2>5. ASSUME NEW k \in Keys, NEW r \in Records, Lookup!Update(k, r) PROVE PendingWereHeld'
    BY <1>3, <2>5 DEF Lookup!Update, TypeOK, Lookup!TypeOK
  <2> QED
    BY <2>1, <2>2, <2>3, <2>4, <2>5 DEF DbRegister, DbUnregister, MiniClientRegister, Unusable,
       Tick, DropResult, SomeResult, LookupResult, LookupLost, KeyUpdate
<1>8. WaitMapsFaithful' /\ AnsweredAtMostOnce'
  BY <1>1 DEF IInv, WaitMapsFaithful, WaitingFor, AnsweredAtMostOnce
<1>9. VerdictsHaveGrounds'
  <2>1. \A j \in DOMAIN log : log[j].key \in Keys
    <3>1. \A j \in DOMAIN log : log[j] \in Request
      BY DEF IInv, TypeOK
    <3> QED
      BY <3>1 DEF Request
  <2> QED
    BY <1>1, <1>3, <2>1 DEF IInv, VerdictsHaveGrounds
<1>10. RegisteredWereAccepted' /\ PublishersWereAccepted'
  BY <1>1, <1>4 DEF IInv, RegisteredWereAccepted, PublishersWereAccepted, WasAccepted
<1> QED
  BY <1>5, <1>6, <1>7, <1>8, <1>9, <1>10 DEF IInv

LEMMA StepIInv == IInv /\ [Next]_vars => IInv'
<1> SUFFICES ASSUME IInv, [Next]_vars PROVE IInv'
  OBVIOUS
<1>1. ASSUME NEW c \in Clients, NEW k \in Keys,
             \/ Register(c, k) \/ Unregister(c, k) \/ ListClients(c, k) \/ Stats(c, k)
             \/ AlwaysAnswered(c, k) \/ Forward(c, k)
             \/ \E port \in Ports : IPublish(c, k, port)
      PROVE  IInv'
  BY <1>1, NotedIInv, CommandStepIInv
<1>2. ASSUME NEW k \in Keys, ReplyToRegister(k) \/ ReplyToUnregister(k) PROVE IInv'
  BY <1>2, ReplyIInv
<1>3. CASE UNCHANGED vars
  BY <1>3 DEF vars, waitMaps, lookupVars, IInv, TypeOK, Lookup!TypeOK, ClosedBeforeDb,
     NobodyBeforeDb, PendingWereHeld, WaitMapsFaithful, WaitingFor, AnsweredAtMostOnce,
     VerdictsHaveGrounds, RegisteredWereAccepted, PublishersWereAccepted, WasAccepted
<1> QED
  BY <1>1, <1>2, <1>3, OtherStepIInv DEF Next, HandlePending

-----------------------------------------------------------------------------
(* The theorems.                                                           *)

THEOREM Invariance == Spec => []IInv
<1> QED
  BY InitIInv, StepIInv, PTL DEF Spec

\* Every variable of the router keeps its type, for any clients, keys and requests.
THEOREM TypeCorrect == Spec => []TypeOK
<1>1. IInv => TypeOK
  BY DEF IInv
<1> QED
  BY <1>1, Invariance, PTL

\* What a wait map holds under a key is an unanswered request made with that key: a
\* verdict reaches only requests it is about.
THEOREM VerdictsReachTheirRequests == Spec => []WaitMapsFaithful
<1>1. IInv => WaitMapsFaithful
  BY DEF IInv
<1> QED
  BY <1>1, Invariance, PTL

\* No request is answered twice, however lookups of a key overtake and merge.
THEOREM OneAnswer == Spec => []AnsweredAtMostOnce
<1>1. IInv => AnsweredAtMostOnce
  BY DEF IInv
<1> QED
  BY <1>1, Invariance, PTL

\* Behind each SUCCESS there is a valid record cif-db held for the key presented.
THEOREM SuccessIsGrounded == Spec => []VerdictsHaveGrounds
<1>1. IInv => VerdictsHaveGrounds
  BY DEF IInv
<1> QED
  BY <1>1, Invariance, PTL

\* Whoever is in the clients table was told that its REGISTER succeeded.
THEOREM ClientsWereTold == Spec => []RegisteredWereAccepted
<1>1. IInv => RegisteredWereAccepted
  BY DEF IInv
<1> QED
  BY <1>1, Invariance, PTL

\* The router subscribes only to clients it accepted.
THEOREM OnlyAcceptedPublish == Spec => []PublishersWereAccepted
<1>1. IInv => PublishersWereAccepted
  BY DEF IInv
<1> QED
  BY <1>1, Invariance, PTL

\* Nothing is registered, noted, looked up or subscribed to before cif-db has come.
THEOREM DbComesFirst == Spec => []NobodyBeforeDb
<1>1. IInv => NobodyBeforeDb
  BY DEF IInv
<1> QED
  BY <1>1, Invariance, PTL

\* A publisher is connected to once and for ever: no step, of any command, changes or
\* removes its row.
LEMMA PublisherStep ==
    ASSUME [Next]_vars, NEW x \in DOMAIN publishers
    PROVE  x \in DOMAIN publishers' /\ publishers'[x] = publishers[x]
<1>1. ASSUME NEW c \in Clients, NEW k \in Keys, NEW port \in Ports, IPublish(c, k, port)
      PROVE  x \in DOMAIN publishers' /\ publishers'[x] = publishers[x]
  <2>1. \/ UNCHANGED publishers
        \/ c \notin DOMAIN publishers /\ publishers' = With(publishers, c, port)
    BY <1>1 DEF IPublish, Known
  <2> QED
    BY <2>1 DEF With
<1>2. ASSUME NEW c \in Clients, NEW k \in Keys,
             \/ Register(c, k) \/ Unregister(c, k) \/ ListClients(c, k) \/ Stats(c, k)
             \/ AlwaysAnswered(c, k) \/ Forward(c, k)
      PROVE  UNCHANGED publishers
  BY <1>2 DEF Register, Unregister, ListClients, Stats, AlwaysAnswered, Forward
<1>3. ASSUME NEW k \in Keys,
             \/ HandlePending(k) \/ SomeResult(k) \/ LookupLost(k)
             \/ \E r \in Records : KeyUpdate(k, r)
      PROVE  UNCHANGED publishers
  BY <1>3 DEF HandlePending, ReplyToRegister, ReplyToUnregister, DropResult, SomeResult,
     LookupResult, LookupLost, KeyUpdate, LookupUnchanged
<1>4. CASE DbRegister \/ DbUnregister \/ MiniClientRegister \/ Unusable \/ Tick
           \/ UNCHANGED vars
  BY <1>4 DEF DbRegister, DbUnregister, MiniClientRegister, Unusable, Tick, vars
<1> QED
  BY <1>1, <1>2, <1>3, <1>4 DEF Next

THEOREM PublishersStay == Spec => ConnectedOnce
<1>1. [Next]_vars =>
        [\A c \in DOMAIN publishers :
            c \in DOMAIN publishers' /\ publishers'[c] = publishers[c]]_vars
  BY PublisherStep
<1> QED
  BY <1>1, PTL DEF Spec, ConnectedOnce

=============================================================================
