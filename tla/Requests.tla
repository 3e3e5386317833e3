------------------------------ MODULE Requests ------------------------------
(***************************************************************************)
(* A program that talks to cif-router through libcif/lib/CIF/Foundation.py *)
(* and the client of that kind the repository has, ui/src/cli.py: its main *)
(* thread, which sends requests, Foundation's event loop, which receives   *)
(* what the router sends and starts a callback thread for it, and those    *)
(* threads.  They share callback_registry under its lock.                  *)
(*                                                                         *)
(* A request is known by its sequence id, an MD5 of the message: here the  *)
(* fields that tell messages of one client apart.  Of the router and what  *)
(* is behind it there is whether a request is answered, and when.          *)
(***************************************************************************)
EXTENDS Integers, Sequences, FiniteSets

CONSTANTS
    Commands,      \* bound: what the user types: [cmd, dst, qty]
    Answering,     \* peers that answer commands: cif-db
    MaxRequests,   \* bound: requests sent
    MaxFaults      \* bound: times cif-db comes, goes or fails, or a thread cannot be started

ASSUME CommandsAssumption ==
    \A c \in Commands : /\ c.cmd \in {"LISTCLIENTS", "STATS", "THREADS_LIST", "PING"}
                        /\ c.qty \in Nat \ {0}
ASSUME BoundsAssumption == MaxRequests \in Nat \ {0} /\ MaxFaults \in Nat

VARIABLES
    pc,                     \* where the main thread is
    pings,                  \* pings it still has to send
    requests,               \* what it gave to sendmsg: [seq, stage]
    callback_registry,      \* sequence ids with a callback
    lock,                   \* whether callback_registry_lock is held
    elpc,                   \* where the event loop is
    msgid,                  \* the sequence id whose entry it has to delete
    inbox,                  \* numbers of requests whose answers it has yet to receive
    register_synchronizer,
    unregister_synchronizer,
    heard,                  \* requests whose caller was called back since (history)
    open_for_business,      \* of the router
    registered,             \* whether this client is in the router's clients table
    key,                    \* what cif-db holds of the client's API key
    faults

main      == <<pc, pings>>
foundation == <<callback_registry, lock, elpc, msgid>>
syncs     == <<register_synchronizer, unregister_synchronizer>>
router    == <<open_for_business, registered, key>>
vars == <<main, requests, foundation, inbox, syncs, heard, router, faults>>

Me     == "cli"
Router == "cif-router"
Names  == {Me, Router} \cup Answering \cup {c.dst : c \in Commands}
Seqs   == [cmd : {"REGISTER", "UNREGISTER", "LISTCLIENTS", "STATS", "THREADS_LIST", "PING"},
           dst : Names, pingseq : 0..MaxRequests]
NoSeq  == [cmd |-> "REGISTER", dst |-> Router, pingseq |-> 0]   \* a variable not assigned yet
Stage  == {"noted", "sent", "looked_up", "at_peer", "answered", "called", "done", "discarded", "lost"}

Init ==
    /\ pc = "start" /\ pings = 0 /\ requests = <<>>
    /\ callback_registry = {} /\ lock = FALSE /\ elpc = "recv" /\ msgid = NoSeq /\ inbox = <<>>
    /\ register_synchronizer = 0 /\ unregister_synchronizer = 0 /\ heard = {}
    /\ open_for_business \in BOOLEAN /\ registered = FALSE
    /\ key \in {"valid", "revoked", "unknown"} /\ faults = 0

\* Request i is at a stage from now on.
At(i, stage) == requests' = [requests EXCEPT ![i].stage = stage]

-----------------------------------------------------------------------------
(* The main thread.                                                        *)

\* Only a ping has a number and the time in it.
SeqOf(cmd, dst) ==
    [cmd |-> cmd, dst |-> dst, pingseq |-> IF cmd = "PING" THEN Len(requests) + 1 ELSE 0]

\* Mutated: the lock is not taken.
NoteUnlocked(seq) ==
    /\ callback_registry' = callback_registry \cup {seq}
    /\ requests' = Append(requests, [seq |-> seq, stage |-> "noted"])
    /\ pc' = "send"

\* sendmsg, first half: the callback is registered.
Note(seq) ==
    /\ lock = FALSE
    /\ callback_registry' = callback_registry \cup {seq}
    /\ requests' = Append(requests, [seq |-> seq, stage |-> "noted"])
    /\ pc' = "send"

Register ==
    /\ pc = "start" /\ Note(SeqOf("REGISTER", Router))
    /\ UNCHANGED <<pings, lock, elpc, msgid, inbox, syncs, heard, router, faults>>

\* The last request is kept for UNREGISTER.
Type(c) ==
    /\ pc = "prompt" /\ Len(requests) + 1 < MaxRequests
    /\ Note(SeqOf(c.cmd, c.dst)) /\ pings' = c.qty - 1
    /\ UNCHANGED <<lock, elpc, msgid, inbox, syncs, heard, router, faults>>

PingAgain ==
    /\ pc = "sleep" /\ pings > 0 /\ Len(requests) + 1 < MaxRequests
    /\ Note(SeqOf("PING", requests[Len(requests)].seq.dst)) /\ pings' = pings - 1
    /\ UNCHANGED <<lock, elpc, msgid, inbox, syncs, heard, router, faults>>

\* A ping that would go past MaxRequests is left out.
Wake ==
    /\ pc = "sleep" /\ (pings = 0 \/ Len(requests) + 1 = MaxRequests) /\ pc' = "prompt"
    /\ UNCHANGED <<pings, requests, foundation, inbox, syncs, heard, router, faults>>

\* "exit", or a keyboard interrupt.
Unregister ==
    /\ pc \in {"prompt", "sleep"} /\ Len(requests) < MaxRequests
    /\ Note(SeqOf("UNREGISTER", Router)) /\ pings' = 0
    /\ UNCHANGED <<lock, elpc, msgid, inbox, syncs, heard, router, faults>>

\* Second half: the message is on its way.  register() and unregister() go on to wait.
Send ==
    /\ pc = "send"
    /\ At(Len(requests), "sent")
    /\ pc' = CASE requests[Len(requests)].seq.cmd = "REGISTER"   -> "registering"
               [] requests[Len(requests)].seq.cmd = "UNREGISTER" -> "unregistering"
               [] requests[Len(requests)].seq.cmd = "PING"       -> "sleep"
               [] OTHER                                          -> "prompt"
    /\ UNCHANGED <<pings, foundation, inbox, syncs, heard, router, faults>>

\* Registered or not, the prompt comes.
RegisterReturns ==
    /\ pc = "registering" /\ register_synchronizer > 0
    /\ register_synchronizer' = register_synchronizer - 1 /\ pc' = "prompt"
    /\ UNCHANGED <<pings, requests, foundation, inbox, unregister_synchronizer, heard, router, faults>>

\* The end of the program.
UnregisterReturns ==
    /\ pc = "unregistering" /\ unregister_synchronizer > 0
    /\ unregister_synchronizer' = unregister_synchronizer - 1 /\ pc' = "ended"
    /\ UNCHANGED <<pings, requests, foundation, inbox, register_synchronizer, heard, router, faults>>

-----------------------------------------------------------------------------
(* The event loop and the callback threads.                                *)

\* The caller of request i hears of its own answer, or of that to an equal request.
SameSeq(i) == {j \in DOMAIN requests : requests[j].seq = requests[i].seq}

Receive ==
    /\ pc # "ended" /\ elpc = "recv" /\ lock = FALSE /\ inbox # <<>>
    /\ inbox' = Tail(inbox)

\* A callback is registered: it is called in a thread of its own.
Call ==
    LET i == Head(inbox)
    IN /\ Receive /\ requests[i].seq \in callback_registry
       /\ At(i, "called") /\ heard' = heard \cup SameSeq(i)
       /\ lock' = TRUE /\ elpc' = "forget" /\ msgid' = requests[i].seq
       /\ UNCHANGED <<main, callback_registry, syncs, router, faults>>

\* Neither that nor a default callback.
Discard ==
    LET i == Head(inbox)
    IN /\ Receive /\ requests[i].seq \notin callback_registry
       /\ At(i, "discarded")
       /\ UNCHANGED <<main, foundation, syncs, heard, router, faults>>

\* start() raises, which is caught, with the lock held.
CallFails ==
    LET i == Head(inbox)
    IN /\ Receive /\ requests[i].seq \in callback_registry
       /\ faults < MaxFaults /\ faults' = faults + 1
       /\ At(i, "lost") /\ lock' = TRUE
       /\ UNCHANGED <<main, callback_registry, elpc, msgid, syncs, heard, router>>

\* Mutated: every entry is deleted.
RemainingNone == {}

\* What is left of the registry.
Remaining == callback_registry \ {msgid}

\* msgid is not read again before its next assignment.
Forget ==
    /\ pc # "ended" /\ elpc = "forget"
    /\ callback_registry' = Remaining
    /\ lock' = FALSE /\ elpc' = "recv" /\ msgid' = NoSeq
    /\ UNCHANGED <<main, requests, inbox, syncs, heard, router, faults>>

\* Mutated: one callback for everything.
ReleasesAny(cmd, name) == 1

\* Which synchronizer a callback releases: registerFinished, unregisterFinished.
Releases(cmd, name) == IF cmd = name THEN 1 ELSE 0

Callback(i) ==
    /\ i \in DOMAIN requests /\ requests[i].stage = "called" /\ At(i, "done")
    /\ register_synchronizer' = register_synchronizer + Releases(requests[i].seq.cmd, "REGISTER")
    /\ unregister_synchronizer' = unregister_synchronizer + Releases(requests[i].seq.cmd, "UNREGISTER")
    /\ UNCHANGED <<main, foundation, inbox, heard, router, faults>>

-----------------------------------------------------------------------------
(* The router, the lookup of the API key and the peers.                    *)

Answer(i) == At(i, "answered") /\ inbox' = Append(inbox, i)
Lose(i)   == At(i, "lost") /\ UNCHANGED inbox

\* Requests arrive in the order they were sent.  REGISTER and UNREGISTER wait for the key;
\* what is for somebody else is passed on, a message to oneself comes back as it is.
Route(i) ==
    LET seq == requests[i].seq
    IN /\ i \in DOMAIN requests /\ requests[i].stage = "sent"
       /\ \A j \in 1..(i - 1) : requests[j].stage # "sent"
       /\ CASE seq.dst \in Answering ->
                  IF open_for_business THEN At(i, "at_peer") /\ UNCHANGED inbox ELSE Lose(i)
            [] seq.dst = Me -> IF registered THEN Answer(i) ELSE Lose(i)
            [] seq.dst = Router /\ seq.cmd \in {"PING", "THREADS_LIST"} -> Answer(i)
            [] seq.dst = Router /\ seq.cmd \in {"LISTCLIENTS", "STATS"} ->
                  IF open_for_business THEN Answer(i) ELSE Lose(i)
            [] seq.dst = Router /\ seq.cmd \in {"REGISTER", "UNREGISTER"} ->
                  IF open_for_business THEN At(i, "looked_up") /\ UNCHANGED inbox ELSE Lose(i)
            [] OTHER -> Lose(i)
       /\ UNCHANGED <<main, foundation, syncs, heard, router, faults>>

\* Nobody is answered about an unknown key.
LookupEnds(i) ==
    /\ i \in DOMAIN requests /\ requests[i].stage = "looked_up"
    /\ IF key = "unknown" THEN Lose(i) ELSE Answer(i)
    /\ registered' = (registered \/ (key = "valid" /\ requests[i].seq.cmd = "REGISTER"))
    /\ UNCHANGED <<main, foundation, syncs, heard, open_for_business, key, faults>>

\* A thread for each command, so in any order.  The router has no way to a client that is
\* not registered.
PeerAnswers(i) ==
    /\ i \in DOMAIN requests /\ requests[i].stage = "at_peer"
    /\ IF registered THEN Answer(i) ELSE Lose(i)
    /\ UNCHANGED <<main, foundation, syncs, heard, router, faults>>

\* The peer's handler raises.
PeerFails(i) ==
    /\ i \in DOMAIN requests /\ requests[i].stage = "at_peer" /\ At(i, "lost")
    /\ faults < MaxFaults /\ faults' = faults + 1
    /\ UNCHANGED <<main, foundation, inbox, syncs, heard, router>>

\* cif-db ends, with its handlers.
DbLeaves ==
    /\ open_for_business /\ faults < MaxFaults /\ faults' = faults + 1
    /\ open_for_business' = FALSE
    /\ requests' = [i \in DOMAIN requests |->
                      IF requests[i].stage = "at_peer" THEN [requests[i] EXCEPT !.stage = "lost"] ELSE requests[i]]
    /\ UNCHANGED <<main, foundation, inbox, syncs, heard, registered, key>>

\* cif-db registers: the router starts another mini client, which knows of no lookup.
DbComes ==
    /\ faults < MaxFaults /\ faults' = faults + 1
    /\ open_for_business' = TRUE
    /\ requests' = [i \in DOMAIN requests |->
                      IF requests[i].stage = "looked_up" THEN [requests[i] EXCEPT !.stage = "lost"] ELSE requests[i]]
    /\ UNCHANGED <<main, foundation, inbox, syncs, heard, registered, key>>

-----------------------------------------------------------------------------

MainStep == Register \/ PingAgain \/ Wake \/ Send \/ RegisterReturns \/ UnregisterReturns
LoopStep == Call \/ Discard \/ CallFails \/ Forget
Service(i) == Route(i) \/ LookupEnds(i) \/ PeerAnswers(i)

Next ==
    \/ MainStep \/ LoopStep \/ Unregister \/ DbLeaves \/ DbComes
    \/ \E c \in Commands : Type(c)
    \/ \E i \in DOMAIN requests : Service(i) \/ Callback(i) \/ PeerFails(i)

\* Threads are scheduled, the router and what is behind it work.  The user types or not.
Fairness ==
    /\ WF_vars(MainStep) /\ WF_vars(LoopStep)
    /\ \A i \in 1..MaxRequests : WF_vars(Service(i)) /\ WF_vars(Callback(i))

Spec     == Init /\ [][Next]_vars
FairSpec == Spec /\ Fairness

-----------------------------------------------------------------------------
(* Properties.                                                             *)

TypeOK ==
    /\ pc \in {"start", "send", "registering", "prompt", "sleep", "unregistering", "ended"}
    /\ pings \in Nat
    /\ requests \in Seq([seq : Seqs, stage : Stage])
    /\ callback_registry \subseteq Seqs /\ lock \in BOOLEAN /\ elpc \in {"recv", "forget"}
    /\ msgid \in Seqs /\ inbox \in Seq(DOMAIN requests)
    /\ register_synchronizer \in 0..1 /\ unregister_synchronizer \in 0..1
    /\ heard \subseteq DOMAIN requests
    /\ open_for_business \in BOOLEAN /\ registered \in BOOLEAN
    /\ key \in {"valid", "revoked", "unknown"} /\ faults \in 0..MaxFaults

\* An answer is thrown away only when an equal request was sent as well, and the caller
\* was called back with the answer to that one: no answer overtakes the registration of
\* its callback, and no entry is deleted under a request that has just been noted.
DiscardedWasHeard ==
    \A i \in DOMAIN requests :
        requests[i].stage = "discarded" =>
            i \in heard /\ \E j \in SameSeq(i) \ {i} : requests[j].stage \in {"called", "done"}

\* "If a callback is specified, it will be called when a reply is received", and register()
\* and unregister() return: unless the request or its answer is lost, the event loop can no
\* longer start a thread, or the program ends first.
Waits(i) == pc \in {"registering", "unregistering"} /\ i = Len(requests)
Lost(i)  == i \in DOMAIN requests /\ requests[i].stage = "lost"
Stuck    == lock /\ elpc = "recv"
CallersHear ==
    \A i \in 1..MaxRequests :
        i \in DOMAIN requests ~> (i \in heard /\ ~ Waits(i)) \/ Lost(i) \/ Stuck \/ pc = "ended"

=============================================================================
