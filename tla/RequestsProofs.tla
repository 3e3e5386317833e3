--------------------------- MODULE RequestsProofs ---------------------------
(***************************************************************************)
(* Foundation's callback registry, for any commands, peers and number of   *)
(* requests: the semaphores of register() and unregister() are released    *)
(* once, and an answer is thrown away only when its caller was called back *)
(* with the answer to an equal request.                                    *)
(***************************************************************************)
EXTENDS Requests, SequenceTheorems, TLAPS

-----------------------------------------------------------------------------
(* The inductive invariant.                                                *)

Request == [seq : Seqs, stage : Stage]

\* Requests whose answer may still come.
Pending == {"noted", "sent", "looked_up", "at_peer", "answered"}

\* Entries the event loop is not about to delete.
Live == callback_registry \ (IF elpc = "forget" THEN {msgid} ELSE {})

WasHeard(i) == i \in heard /\ \E j \in SameSeq(i) \ {i} : requests[j].stage \in {"called", "done"}

\* The event loop owns the lock while it has an entry to delete.
LoopHoldsLock == elpc = "forget" => lock

\* The inbox has answers that were not received yet, each once.
InboxFresh ==
    /\ \A n \in DOMAIN inbox : requests[inbox[n]].stage = "answered"
    /\ \A m, n \in DOMAIN inbox : inbox[m] = inbox[n] => m = n

\* REGISTER comes first, UNREGISTER last, and each releases its semaphore once.
FirstAndLast ==
    /\ pc = "start" => requests = <<>> /\ register_synchronizer = 0
    /\ pc # "start" => requests # <<>>
    /\ pc = "send" => requests[Len(requests)].stage = "noted"
    /\ \A i \in DOMAIN requests :
          /\ requests[i].seq.cmd = "REGISTER" =>
                i = 1 /\ (requests[i].stage # "done" => register_synchronizer = 0)
          /\ requests[i].seq.cmd = "UNREGISTER" =>
                /\ i = Len(requests) /\ pc \in {"send", "unregistering", "ended"}
                /\ requests[i].stage # "done" => unregister_synchronizer = 0
    /\ unregister_synchronizer = 1 => \E i \in DOMAIN requests : requests[i].seq.cmd = "UNREGISTER"

\* Whoever waits for an answer has an entry in the registry, or has heard already.
EntryOrHeard ==
    \A i \in DOMAIN requests :
        requests[i].stage \in Pending => requests[i].seq \in Live \/ WasHeard(i)

\* DiscardedWasHeard with WasHeard in its place.
Heard == \A i \in DOMAIN requests : requests[i].stage = "discarded" => WasHeard(i)

IInv == /\ TypeOK /\ Len(requests) <= MaxRequests /\ LoopHoldsLock /\ InboxFresh
        /\ FirstAndLast /\ EntryOrHeard /\ Heard

-----------------------------------------------------------------------------
(* What the steps do to requests.                                          *)

\* One request gets another stage.
LEMMA Moved ==
    ASSUME TypeOK, NEW i \in DOMAIN requests, NEW s \in Stage, At(i, s)
    PROVE  /\ requests' \in Seq(Request) /\ Len(requests') = Len(requests)
           /\ DOMAIN requests' = DOMAIN requests
           /\ requests'[i].stage = s /\ \A j \in DOMAIN requests : requests'[j].seq = requests[j].seq
           /\ \A j \in DOMAIN requests : j # i => requests'[j] = requests[j]
<1> DEFINE r == [requests[i] EXCEPT !.stage = s]
<1>0. requests \in Seq(Request)
  BY DEF TypeOK, Request
<1>1. requests \in Seq(Request) /\ requests[i] \in Request /\ requests' = [requests EXCEPT ![i] = r]
  BY <1>0 DEF At
<1>2. r \in Request /\ r.seq = requests[i].seq /\ r.stage = s
  BY <1>1 DEF Request
<1> HIDE DEF r
<1>3. /\ requests' \in Seq(Request) /\ DOMAIN requests' = DOMAIN requests /\ requests'[i] = r
      /\ Len(requests') = Len(requests)
      /\ \A j \in DOMAIN requests : j # i => requests'[j] = requests[j]
  BY <1>1, <1>2, ExceptSeq
<1> QED
  BY <1>2, <1>3

\* A request is added to those there are.
LEMMA Added ==
    ASSUME TypeOK, NEW seq \in Seqs, Note(seq)
    PROVE  /\ requests' \in Seq(Request) /\ Len(requests') = Len(requests) + 1
           /\ DOMAIN requests' = DOMAIN requests \cup {Len(requests) + 1}
           /\ Len(requests) + 1 \notin DOMAIN requests /\ Len(requests) \in Nat
           /\ requests'[Len(requests) + 1] = [seq |-> seq, stage |-> "noted"]
           /\ \A j \in DOMAIN requests : requests'[j] = requests[j]
<1> DEFINE r == [seq |-> seq, stage |-> "noted"]
<1>1. requests \in Seq(Request) /\ r \in Request /\ requests' = Append(requests, r)
  BY DEF TypeOK, Request, Note, Stage
<1> HIDE DEF r
<1>2. /\ requests' \in Seq(Request) /\ Len(requests') = Len(requests) + 1
      /\ DOMAIN requests' = DOMAIN requests \cup {Len(requests) + 1}
      /\ Len(requests) + 1 \notin DOMAIN requests /\ Len(requests) \in Nat
      /\ requests'[Len(requests) + 1] = r
      /\ \A j \in DOMAIN requests : requests'[j] = requests[j]
  BY <1>1
<1> QED
  BY <1>2 DEF r

\* Who was called back stays so.
LEMMA HeardStays ==
    ASSUME heard \subseteq heard',
           \A j \in DOMAIN requests :
               /\ j \in DOMAIN requests' /\ requests'[j].seq = requests[j].seq
               /\ requests[j].stage \in {"called", "done"} => requests'[j].stage \in {"called", "done"}
    PROVE  \A j \in DOMAIN requests : WasHeard(j) => WasHeard(j)'
BY DEF WasHeard, SameSeq

-----------------------------------------------------------------------------
(* The initial states, and one lemma for each group of steps.              *)

LEMMA InitIInv == Init => IInv
<1> SUFFICES ASSUME Init PROVE IInv
  OBVIOUS
<1>1. TypeOK
  <2>1. NoSeq \in Seqs
    BY BoundsAssumption DEF NoSeq, Seqs, Names
  <2>2. requests \in Seq([seq : Seqs, stage : Stage]) /\ inbox \in Seq(DOMAIN requests)
    BY DEF Init
  <2>3. faults \in 0..MaxFaults /\ pings \in Nat /\ register_synchronizer \in 0..1
        /\ unregister_synchronizer \in 0..1
    BY BoundsAssumption DEF Init
  <2>4. lock \in BOOLEAN /\ registered \in BOOLEAN /\ open_for_business \in BOOLEAN
    BY DEF Init
  <2>5. heard \subseteq DOMAIN requests /\ callback_registry \subseteq Seqs
    BY DEF Init
  <2> QED
    BY <2>1, <2>2, <2>3, <2>4, <2>5, Zenon DEF Init, TypeOK
<1>2. requests = <<>> /\ inbox = <<>> /\ Len(requests) <= MaxRequests
  BY BoundsAssumption DEF Init
<1>3. LoopHoldsLock /\ InboxFresh /\ FirstAndLast
  BY <1>2 DEF Init, LoopHoldsLock, InboxFresh, FirstAndLast
<1>4. EntryOrHeard /\ Heard
  BY <1>2 DEF EntryOrHeard, Heard
<1> QED
  BY <1>1, <1>2, <1>3, <1>4 DEF IInv

\* sendmsg, first half, whoever calls it.
LEMMA NoteIInv ==
    ASSUME IInv, NEW seq \in Seqs, Note(seq), Len(requests) + 1 <= MaxRequests, pings' \in Nat,
           seq.cmd = "REGISTER" => pc = "start",
           pc \in {"start", "prompt", "sleep"},
           UNCHANGED <<lock, elpc, msgid, inbox, syncs, heard, router, faults>>
    PROVE  IInv'
<1> DEFINE new == Len(requests) + 1
<1>0. TypeOK
  BY DEF IInv
<1>1. /\ requests' \in Seq(Request) /\ Len(requests') = new
      /\ DOMAIN requests' = DOMAIN requests \cup {new}
      /\ new \notin DOMAIN requests /\ Len(requests) \in Nat
      /\ requests'[new] = [seq |-> seq, stage |-> "noted"]
      /\ \A j \in DOMAIN requests : requests'[j] = requests[j]
  BY <1>0, Added
<1>2. /\ pc' = "send" /\ callback_registry' = callback_registry \cup {seq} /\ ~ lock
      /\ elpc = "recv" /\ UNCHANGED <<lock, elpc, msgid, inbox, register_synchronizer,
                                      unregister_synchronizer, heard, router, faults>>
  BY <1>0 DEF Note, IInv, LoopHoldsLock, TypeOK, syncs
<1> HIDE DEF new
<1>3. TypeOK'
  <2>1. inbox \in Seq(DOMAIN requests')
    BY <1>0, <1>1 DEF TypeOK
  <2> QED
    BY <1>0, <1>1, <1>2, <2>1 DEF TypeOK, Request, router
<1>4. LoopHoldsLock' /\ Len(requests') <= MaxRequests
  BY <1>1, <1>2 DEF LoopHoldsLock, new
<1>5. InboxFresh'
  <2>1. \A n \in DOMAIN inbox : inbox[n] \in DOMAIN requests
    BY <1>0 DEF TypeOK
  <2> QED
    BY <1>1, <1>2, <2>1 DEF IInv, InboxFresh
<1>6. FirstAndLast'
  <2>1. \A i \in DOMAIN requests : requests[i].seq.cmd # "UNREGISTER"
    BY DEF IInv, FirstAndLast
  <2>2. unregister_synchronizer = 0
    BY <1>0, <2>1 DEF IInv, FirstAndLast, TypeOK
  <2>3. seq.cmd = "REGISTER" => new = 1 /\ register_synchronizer = 0
    BY DEF IInv, FirstAndLast, new
  <2>4. requests' # <<>>
    BY <1>1
  <2> QED
    BY <1>1, <1>2, <2>1, <2>2, <2>3, <2>4 DEF IInv, FirstAndLast
<1>7. \A j \in DOMAIN requests : WasHeard(j) => WasHeard(j)'
  BY <1>1, <1>2, HeardStays
<1>8. EntryOrHeard'
  BY <1>1, <1>2, <1>7 DEF IInv, EntryOrHeard, Live
<1>9. Heard'
  BY <1>1, <1>7 DEF IInv, Heard
<1> QED
  BY <1>3, <1>4, <1>5, <1>6, <1>8, <1>9 DEF IInv

\* A request on its way goes on, is answered or lost.
LEMMA OnIInv ==
    ASSUME IInv, NEW i \in DOMAIN requests, requests[i].stage \in {"sent", "looked_up", "at_peer"},
           NEW s \in {"looked_up", "at_peer", "answered", "lost"}, At(i, s),
           IF s = "answered" THEN inbox' = Append(inbox, i) ELSE inbox' = inbox,
           registered' \in BOOLEAN, faults' \in 0..MaxFaults,
           UNCHANGED <<main, foundation, syncs, heard, open_for_business, key>>
    PROVE  IInv'
<1>0. TypeOK
  BY DEF IInv
<1>1. /\ requests' \in Seq(Request) /\ Len(requests') = Len(requests)
      /\ DOMAIN requests' = DOMAIN requests
      /\ requests'[i].stage = s /\ \A j \in DOMAIN requests : requests'[j].seq = requests[j].seq
      /\ \A j \in DOMAIN requests : j # i => requests'[j] = requests[j]
  BY <1>0, Moved DEF Stage
<1>2. UNCHANGED <<pc, pings, callback_registry, lock, elpc, msgid, register_synchronizer,
                  unregister_synchronizer, heard, open_for_business, key>>
  BY DEF main, foundation, syncs
<1>3. /\ inbox \in Seq(DOMAIN requests) /\ inbox' \in Seq(DOMAIN requests)
      /\ \A n \in DOMAIN inbox : inbox[n] \in DOMAIN requests /\ inbox[n] # i
  <2>1. inbox \in Seq(DOMAIN requests)
    BY <1>0 DEF TypeOK
  <2>2. \A n \in DOMAIN inbox : inbox[n] \in DOMAIN requests
    BY <2>1
  <2>3. \A n \in DOMAIN inbox : inbox[n] # i
    BY <2>2 DEF IInv, InboxFresh
  <2> HIDE DEF IInv
  <2> QED
    BY <2>1, <2>2, <2>3
<1>4. TypeOK'
  BY <1>0, <1>1, <1>2, <1>3 DEF TypeOK, Request
<1>5. LoopHoldsLock' /\ Len(requests') <= MaxRequests
  BY <1>1, <1>2 DEF IInv, LoopHoldsLock
<1>6. InboxFresh'
  <2>1. CASE s = "answered"
    <3>1. /\ DOMAIN inbox' = DOMAIN inbox \cup {Len(inbox) + 1} /\ inbox'[Len(inbox) + 1] = i
          /\ Len(inbox) + 1 \notin DOMAIN inbox
          /\ \A n \in DOMAIN inbox : inbox'[n] = inbox[n]
      BY <1>3, <2>1
    <3>2. \A n \in DOMAIN inbox : requests[inbox[n]].stage = "answered"
      BY DEF IInv, InboxFresh
    <3>3. \A m, n \in DOMAIN inbox : inbox[m] = inbox[n] => m = n
      BY DEF IInv, InboxFresh
    <3>4. \A n \in DOMAIN inbox' : requests'[inbox'[n]].stage = "answered"
      BY <1>1, <1>3, <2>1, <3>1, <3>2
    <3>5. \A m, n \in DOMAIN inbox' : inbox'[m] = inbox'[n] => m = n
      BY <1>3, <3>1, <3>3
    <3> QED
      BY <3>4, <3>5 DEF InboxFresh
  <2>2. CASE s # "answered"
    BY <1>1, <1>3, <2>2 DEF IInv, InboxFresh
  <2> QED
    BY <2>1, <2>2
<1>7. FirstAndLast'
  <2>1. requests # <<>> /\ requests' # <<>> /\ Len(requests) \in DOMAIN requests
    BY <1>0, <1>1 DEF TypeOK
  <2>2. pc = "send" => requests'[Len(requests)].stage = "noted"
    BY <1>1, <2>1 DEF IInv, FirstAndLast
  <2> QED
    BY <1>1, <1>2, <2>1, <2>2 DEF IInv, FirstAndLast
<1>8. \A j \in DOMAIN requests : WasHeard(j) => WasHeard(j)'
  BY <1>1, <1>2, HeardStays
<1>9. EntryOrHeard'
  BY <1>1, <1>2, <1>8 DEF IInv, EntryOrHeard, Live, Pending
<1>10. Heard'
  BY <1>1, <1>8 DEF IInv, Heard
<1> QED
  BY <1>4, <1>5, <1>6, <1>7, <1>9, <1>10 DEF IInv

\* cif-db leaves or comes, and some requests are lost.
LEMMA FaultIInv ==
    ASSUME IInv, NEW from \in {"at_peer", "looked_up"},
           requests' = [i \in DOMAIN requests |->
                          IF requests[i].stage = from THEN [requests[i] EXCEPT !.stage = "lost"]
                                                      ELSE requests[i]],
           open_for_business' \in BOOLEAN, faults' \in 0..MaxFaults,
           UNCHANGED <<main, foundation, inbox, syncs, heard, registered, key>>
    PROVE  IInv'
<1>0. TypeOK
  BY DEF IInv
<1>1. requests \in Seq(Request)
  BY <1>0 DEF TypeOK, Request
<1>2. \A j \in DOMAIN requests :
         /\ requests'[j] \in Request /\ requests'[j].seq = requests[j].seq
         /\ requests'[j].stage = IF requests[j].stage = from THEN "lost" ELSE requests[j].stage
  <2> TAKE j \in DOMAIN requests
  <2>1. requests[j] \in Request
    BY <1>1
  <2> QED
    BY <2>1 DEF Request, Stage
<1>3. /\ DOMAIN requests' = DOMAIN requests /\ Len(requests') = Len(requests)
      /\ requests' \in Seq(Request)
  BY <1>1, <1>2
<1>4. UNCHANGED <<pc, pings, callback_registry, lock, elpc, msgid, inbox, register_synchronizer,
                  unregister_synchronizer, heard, registered, key>>
  BY DEF main, foundation, syncs
<1>5. TypeOK'
  BY <1>0, <1>3, <1>4 DEF TypeOK, Request
<1>6. LoopHoldsLock' /\ Len(requests') <= MaxRequests
  BY <1>3, <1>4 DEF IInv, LoopHoldsLock
<1>7. InboxFresh'
  <2>1. \A n \in DOMAIN inbox : inbox[n] \in DOMAIN requests
    BY <1>0 DEF TypeOK
  <2> QED
    BY <1>2, <1>4, <2>1 DEF IInv, InboxFresh
<1>8. FirstAndLast'
  <2>1. requests' = <<>> <=> requests = <<>>
    BY <1>1, <1>3
  <2>2. pc = "send" => Len(requests) \in DOMAIN requests
    BY <1>1 DEF IInv, FirstAndLast
  <2> QED
    BY <1>2, <1>3, <1>4, <2>1, <2>2 DEF IInv, FirstAndLast
<1>9. \A j \in DOMAIN requests : WasHeard(j) => WasHeard(j)'
  BY <1>2, <1>3, <1>4, HeardStays
<1>10. EntryOrHeard'
  BY <1>2, <1>3, <1>4, <1>9 DEF IInv, EntryOrHeard, Live, Pending
<1>11. Heard'
  BY <1>2, <1>3, <1>9 DEF IInv, Heard
<1> QED
  BY <1>5, <1>6, <1>7, <1>8, <1>10, <1>11 DEF IInv

\* The main thread moves and the last request may be sent; no request is added.
LEMMA MainIInv ==
    ASSUME IInv, Send \/ Wake \/ RegisterReturns \/ UnregisterReturns
    PROVE  IInv'
<1>0. TypeOK
  BY DEF IInv
<1>1. CASE Send
  <2> DEFINE i == Len(requests)
  <2>1. i \in DOMAIN requests /\ requests[i].stage = "noted"
    BY <1>0, <1>1 DEF Send, TypeOK, IInv, FirstAndLast
  <2>2. At(i, "sent") /\ "sent" \in Stage
    BY <1>1 DEF Send, Stage
  <2>3. /\ requests' \in Seq(Request) /\ Len(requests') = Len(requests)
        /\ DOMAIN requests' = DOMAIN requests /\ requests'[i].stage = "sent"
        /\ \A j \in DOMAIN requests : requests'[j].seq = requests[j].seq
        /\ \A j \in DOMAIN requests : j # i => requests'[j] = requests[j]
    BY <1>0, <2>1, <2>2, Moved
  <2>4. /\ pc = "send" /\ pc' \in {"registering", "unregistering", "sleep", "prompt"}
        /\ requests[i].seq.cmd = "UNREGISTER" => pc' = "unregistering"
    BY <1>1 DEF Send
  <2>5. UNCHANGED <<pings, callback_registry, lock, elpc, msgid, inbox, register_synchronizer,
                    unregister_synchronizer, heard, router, faults>>
    BY <1>1 DEF Send, foundation, syncs
  <2>6. TypeOK'
    BY <1>0, <2>3, <2>4, <2>5 DEF TypeOK, Request, router
  <2>7. LoopHoldsLock' /\ Len(requests') <= MaxRequests
    BY <2>3, <2>5 DEF IInv, LoopHoldsLock
  <2>8. InboxFresh'
    <3>1. \A n \in DOMAIN inbox : inbox[n] \in DOMAIN requests
      BY <1>0 DEF TypeOK
    <3> QED
      BY <2>1, <2>3, <2>5, <3>1 DEF IInv, InboxFresh
  <2>9. FirstAndLast'
    <3>1. requests' # <<>>
      BY <2>1, <2>3
    <3> QED
      BY <2>1, <2>3, <2>4, <2>5, <3>1 DEF IInv, FirstAndLast
  <2>10. \A j \in DOMAIN requests : WasHeard(j) => WasHeard(j)'
    BY <2>1, <2>3, <2>5, HeardStays
  <2>11. EntryOrHeard'
    BY <2>1, <2>3, <2>5, <2>10 DEF IInv, EntryOrHeard, Live, Pending
  <2>12. Heard'
    BY <2>3, <2>10 DEF IInv, Heard
  <2> QED
    BY <2>6, <2>7, <2>8, <2>9, <2>11, <2>12 DEF IInv
<1>2. CASE Wake \/ RegisterReturns \/ UnregisterReturns
  <2>1. /\ pc \in {"sleep", "registering", "unregistering"}
        /\ pc' \in {"prompt", "ended"} /\ (pc = "unregistering" => pc' = "ended")
        /\ register_synchronizer' \in 0..register_synchronizer
        /\ unregister_synchronizer' \in 0..unregister_synchronizer
    BY <1>0, <1>2 DEF Wake, RegisterReturns, UnregisterReturns, TypeOK, syncs
  <2>2. UNCHANGED <<pings, requests, callback_registry, lock, elpc, msgid, inbox, heard, router, faults>>
    BY <1>2 DEF Wake, RegisterReturns, UnregisterReturns, foundation
  <2>3. TypeOK'
    BY <1>0, <2>1, <2>2 DEF TypeOK, router
  <2>4. LoopHoldsLock' /\ InboxFresh' /\ EntryOrHeard' /\ Heard' /\ Len(requests') <= MaxRequests
    BY <2>2 DEF IInv, LoopHoldsLock, InboxFresh, EntryOrHeard, Heard, Live, WasHeard, SameSeq
  <2>5. FirstAndLast'
    BY <1>0, <2>1, <2>2 DEF IInv, FirstAndLast, TypeOK
  <2> QED
    BY <2>3, <2>4, <2>5 DEF IInv
<1> QED
  BY <1>1, <1>2

\* The answer at the head of the inbox is one to a request that was not heard of yet.
LEMMA HeadOfInbox ==
    ASSUME IInv, Receive
    PROVE  /\ Head(inbox) \in DOMAIN requests /\ requests[Head(inbox)].stage = "answered"
           /\ elpc = "recv" /\ ~ lock /\ inbox' \in Seq(DOMAIN requests)
           /\ \A n \in DOMAIN inbox' : /\ n + 1 \in DOMAIN inbox /\ inbox'[n] = inbox[n + 1]
                                      /\ inbox'[n] # Head(inbox)
<1>1. inbox \in Seq(DOMAIN requests) /\ inbox # <<>> /\ inbox' = Tail(inbox)
      /\ elpc = "recv" /\ ~ lock
  BY DEF IInv, TypeOK, Receive
<1>2. /\ 1 \in DOMAIN inbox /\ Head(inbox) = inbox[1] /\ inbox[1] \in DOMAIN requests
      /\ inbox' \in Seq(DOMAIN requests)
  BY <1>1
<1>3. \A n \in DOMAIN inbox' : n + 1 \in DOMAIN inbox /\ inbox'[n] = inbox[n + 1] /\ n + 1 # 1
  BY <1>1
<1> QED
  BY <1>1, <1>2, <1>3 DEF IInv, InboxFresh

\* The event loop receives, whatever it makes of the answer.
LEMMA ReceiveIInv ==
    ASSUME IInv, Call \/ Discard \/ CallFails
    PROVE  IInv'
<1>0. TypeOK
  BY DEF IInv
<1>1. Receive
  BY DEF Call, Discard, CallFails
<1>2. PICK i \in DOMAIN requests :
      /\ i = Head(inbox) /\ requests[i].stage = "answered" /\ elpc = "recv" /\ ~ lock
      /\ inbox' \in Seq(DOMAIN requests)
      /\ \A n \in DOMAIN inbox' : /\ n + 1 \in DOMAIN inbox /\ inbox'[n] = inbox[n + 1]
                                 /\ inbox'[n] # i
  BY <1>1, HeadOfInbox
<1>3. PICK s \in {"called", "discarded", "lost"} :
         /\ At(i, s)
         /\ s = "called" => /\ requests[i].seq \in callback_registry /\ heard' = heard \cup SameSeq(i)
                            /\ lock' = TRUE /\ elpc' = "forget" /\ msgid' = requests[i].seq
                            /\ UNCHANGED faults
         /\ s = "discarded" => /\ requests[i].seq \notin callback_registry
                               /\ UNCHANGED <<lock, elpc, msgid, heard, faults>>
         /\ s = "lost" => /\ lock' = TRUE /\ faults' \in 0..MaxFaults
                          /\ UNCHANGED <<elpc, msgid, heard>>
  <2>1. CASE Call
    BY <1>2, <2>1 DEF Call
  <2>2. CASE Discard
    BY <1>2, <2>2 DEF Discard, foundation
  <2>3. CASE CallFails
    <3>1. faults' \in 0..MaxFaults
      BY <1>0, <2>3, BoundsAssumption DEF CallFails, TypeOK
    <3> QED
      BY <1>2, <2>3, <3>1 DEF CallFails
  <2> QED
    BY <2>1, <2>2, <2>3
<1>4. UNCHANGED <<pc, pings, callback_registry, register_synchronizer, unregister_synchronizer, router>>
  BY DEF Call, Discard, CallFails, main, foundation, syncs
<1>5. /\ requests' \in Seq(Request) /\ Len(requests') = Len(requests)
      /\ DOMAIN requests' = DOMAIN requests
      /\ requests'[i].stage = s /\ \A j \in DOMAIN requests : requests'[j].seq = requests[j].seq
      /\ \A j \in DOMAIN requests : j # i => requests'[j] = requests[j]
  BY <1>0, <1>2, <1>3, Moved DEF Stage
<1>6. /\ heard \subseteq heard' /\ heard' \subseteq DOMAIN requests
      /\ lock' \in BOOLEAN /\ elpc' \in {"recv", "forget"} /\ msgid' \in Seqs
      /\ faults' \in 0..MaxFaults
  <2>1. requests[i].seq \in Seqs
    <3>1. requests \in Seq(Request)
      BY <1>0 DEF TypeOK, Request
    <3>2. requests[i] \in Request
      BY <3>1
    <3> QED
      BY <3>2 DEF Request
  <2> QED
    BY <1>0, <1>2, <1>3, <2>1 DEF TypeOK, SameSeq
<1>7. TypeOK'
  BY <1>0, <1>2, <1>4, <1>5, <1>6 DEF TypeOK, Request, router
<1>8. LoopHoldsLock' /\ Len(requests') <= MaxRequests
  BY <1>2, <1>3, <1>5 DEF IInv, LoopHoldsLock
<1>9. InboxFresh'
  <2>1. \A n \in DOMAIN inbox : inbox[n] \in DOMAIN requests /\ requests[inbox[n]].stage = "answered"
    BY <1>0 DEF TypeOK, IInv, InboxFresh
  <2>2. \A m, n \in DOMAIN inbox : inbox[m] = inbox[n] => m = n
    BY DEF IInv, InboxFresh
  <2>3. \A n \in DOMAIN inbox' : requests'[inbox'[n]].stage = "answered"
    BY <1>2, <1>5, <2>1
  <2>4. \A m, n \in DOMAIN inbox' : inbox'[m] = inbox'[n] => m = n
    <3> TAKE m, n \in DOMAIN inbox'
    <3> HAVE inbox'[m] = inbox'[n]
    <3>1. m + 1 = n + 1 /\ m \in Nat /\ n \in Nat
      BY <1>2, <2>2
    <3> QED
      BY <3>1
  <2> QED
    BY <2>3, <2>4 DEF InboxFresh
<1>10. FirstAndLast'
  <2>1. (requests' = <<>> <=> requests = <<>>) /\ (requests # <<>> => Len(requests) \in DOMAIN requests)
    BY <1>0, <1>5 DEF TypeOK
  <2>2. pc = "send" => requests'[Len(requests)].stage = "noted"
    BY <1>2, <1>5, <2>1 DEF IInv, FirstAndLast
  <2>3. \A j \in DOMAIN requests : requests'[j].stage # "done" => requests[j].stage # "done"
    BY <1>2, <1>5
  <2> QED
    BY <1>4, <1>5, <2>1, <2>2, <2>3 DEF IInv, FirstAndLast
<1>11. \A j \in DOMAIN requests : WasHeard(j) => WasHeard(j)'
  BY <1>2, <1>5, <1>6, HeardStays
<1>12. \A j \in DOMAIN requests : requests[j].stage \in Pending =>
          requests[j].seq \in callback_registry \/ WasHeard(j)
  BY DEF IInv, EntryOrHeard, Live
<1>13. EntryOrHeard'
  <2> SUFFICES ASSUME NEW j \in DOMAIN requests, requests'[j].stage \in Pending
               PROVE  requests'[j].seq \in Live' \/ WasHeard(j)'
    BY <1>5 DEF EntryOrHeard
  <2>1. j # i /\ requests'[j] = requests[j]
    BY <1>3, <1>5 DEF Pending
  <2>2. CASE s = "called" /\ requests[j].seq = requests[i].seq
    <3>1. j \in heard' /\ i \in SameSeq(j)' \ {j}
      BY <1>2, <1>3, <1>5, <2>1, <2>2 DEF SameSeq
    <3> QED
      BY <1>5, <2>2, <3>1 DEF WasHeard
  <2>3. CASE s = "called" /\ requests[j].seq # requests[i].seq
    BY <1>3, <1>4, <1>11, <1>12, <2>1, <2>3 DEF Live
  <2>4. CASE s # "called"
    <3>1. elpc' = "recv" /\ Live' = callback_registry
      BY <1>2, <1>3, <1>4, <2>4 DEF Live
    <3> QED
      BY <1>11, <1>12, <2>1, <3>1
  <2> QED
    BY <2>2, <2>3, <2>4
<1>14. Heard'
  <2>1. s = "discarded" => WasHeard(i)'
    BY <1>2, <1>3, <1>11, <1>12 DEF Pending
  <2> QED
    BY <1>3, <1>5, <1>11, <2>1 DEF IInv, Heard
<1> QED
  BY <1>7, <1>8, <1>9, <1>10, <1>13, <1>14 DEF IInv

\* The event loop deletes the entry of the request it has just called back.
LEMMA ForgetIInv == ASSUME IInv, Forget PROVE IInv'
<1>0. TypeOK
  BY DEF IInv
<1>1. /\ elpc = "forget" /\ elpc' = "recv" /\ lock' = FALSE /\ msgid' = NoSeq
      /\ callback_registry' = callback_registry \ {msgid}
      /\ UNCHANGED <<pc, pings, requests, inbox, register_synchronizer, unregister_synchronizer,
                     heard, router, faults>>
  BY DEF Forget, Remaining, main, syncs
<1>2. NoSeq \in Seqs
  BY BoundsAssumption DEF NoSeq, Seqs, Names
<1>3. TypeOK'
  BY <1>0, <1>1, <1>2 DEF TypeOK, router
<1>4. Live' = Live
  BY <1>1 DEF Live
<1>5. EntryOrHeard' /\ Heard'
  BY <1>1, <1>4 DEF IInv, EntryOrHeard, Heard, WasHeard, SameSeq
<1> QED
  BY <1>1, <1>3, <1>5 DEF IInv, LoopHoldsLock, InboxFresh, FirstAndLast

\* A callback runs, and releases the semaphore of the one who waits.
LEMMA CallbackIInv == ASSUME IInv, NEW i \in DOMAIN requests, Callback(i) PROVE IInv'
<1>0. TypeOK
  BY DEF IInv
<1>1. /\ requests' \in Seq(Request) /\ Len(requests') = Len(requests)
      /\ DOMAIN requests' = DOMAIN requests
      /\ requests'[i].stage = "done" /\ \A j \in DOMAIN requests : requests'[j].seq = requests[j].seq
      /\ \A j \in DOMAIN requests : j # i => requests'[j] = requests[j]
  BY <1>0, Moved DEF Callback, Stage
<1>2. /\ requests[i].stage = "called"
      /\ UNCHANGED <<pc, pings, callback_registry, lock, elpc, msgid, inbox, heard, router, faults>>
  BY DEF Callback, main, foundation
<1>3. /\ register_synchronizer' =
            IF requests[i].seq.cmd = "REGISTER" THEN register_synchronizer + 1 ELSE register_synchronizer
      /\ unregister_synchronizer' =
            IF requests[i].seq.cmd = "UNREGISTER" THEN unregister_synchronizer + 1 ELSE unregister_synchronizer
  BY <1>0 DEF Callback, Releases, TypeOK
<1>4. /\ requests[i].seq.cmd = "REGISTER" => register_synchronizer = 0
      /\ requests[i].seq.cmd = "UNREGISTER" => unregister_synchronizer = 0
  BY <1>2 DEF IInv, FirstAndLast
<1>5. TypeOK'
  BY <1>0, <1>1, <1>2, <1>3, <1>4 DEF TypeOK, Request, router
<1>6. LoopHoldsLock' /\ Len(requests') <= MaxRequests
  BY <1>1, <1>2 DEF IInv, LoopHoldsLock
<1>7. InboxFresh'
  <2>1. \A n \in DOMAIN inbox : inbox[n] \in DOMAIN requests /\ inbox[n] # i
    BY <1>0, <1>2 DEF TypeOK, IInv, InboxFresh
  <2> QED
    BY <1>1, <1>2, <2>1 DEF IInv, InboxFresh
<1>8. FirstAndLast'
  <2>1. requests # <<>> /\ requests' # <<>> /\ Len(requests) \in DOMAIN requests
    BY <1>0, <1>1 DEF TypeOK
  <2>2. pc # "start" /\ (pc = "send" => requests'[Len(requests)].stage = "noted")
    BY <1>1, <1>2, <2>1 DEF IInv, FirstAndLast
  <2>3. ASSUME NEW j \in DOMAIN requests, requests[j].seq.cmd = "REGISTER"
        PROVE  j = 1 /\ (requests'[j].stage # "done" => register_synchronizer' = 0)
    BY <1>1, <1>2, <1>3, <2>3 DEF IInv, FirstAndLast
  <2>4. ASSUME NEW j \in DOMAIN requests, requests[j].seq.cmd = "UNREGISTER"
        PROVE  /\ j = Len(requests) /\ pc \in {"send", "unregistering", "ended"}
               /\ requests'[j].stage # "done" => unregister_synchronizer' = 0
    BY <1>1, <1>2, <1>3, <2>4 DEF IInv, FirstAndLast
  <2>5. unregister_synchronizer' = 1 =>
            \E j \in DOMAIN requests : requests[j].seq.cmd = "UNREGISTER"
    BY <1>3 DEF IInv, FirstAndLast
  <2> QED
    BY <1>1, <1>2, <2>1, <2>2, <2>3, <2>4, <2>5 DEF FirstAndLast
<1>9. \A j \in DOMAIN requests : WasHeard(j) => WasHeard(j)'
  BY <1>1, <1>2, HeardStays
<1>10. EntryOrHeard'
  BY <1>1, <1>2, <1>9 DEF IInv, EntryOrHeard, Live, Pending
<1>11. Heard'
  BY <1>1, <1>9 DEF IInv, Heard
<1> QED
  BY <1>5, <1>6, <1>7, <1>8, <1>10, <1>11 DEF IInv

\* Every step keeps the invariant.
LEMMA NextIInv == IInv /\ [Next]_vars => IInv'
<1> SUFFICES ASSUME IInv, [Next]_vars PROVE IInv'
  OBVIOUS
<1>0. TypeOK
  BY DEF IInv
<1>a. \A i \in DOMAIN requests : requests[i].seq \in Seqs
  <2>1. requests \in Seq(Request)
    BY <1>0 DEF TypeOK, Request
  <2>2. \A i \in DOMAIN requests : requests[i] \in Request
    BY <2>1
  <2> QED
    BY <2>2 DEF Request
<1>b. Len(requests) \in Nat /\ Len(requests) <= MaxRequests /\ MaxRequests \in Nat \ {0}
  BY <1>0, BoundsAssumption DEF IInv, TypeOK
<1>1. CASE Register
  <2>1. SeqOf("REGISTER", Router) \in Seqs /\ SeqOf("REGISTER", Router).cmd = "REGISTER"
    BY <1>b DEF SeqOf, Seqs, Names
  <2>2. pc = "start" /\ Len(requests) = 0 /\ pings' \in Nat
    BY <1>0, <1>1 DEF Register, IInv, FirstAndLast, TypeOK
  <2> QED
    BY <1>1, <1>b, <2>1, <2>2, NoteIInv DEF Register
<1>2. CASE PingAgain
  <2> DEFINE dst == requests[Len(requests)].seq.dst
  <2>1. Len(requests) \in DOMAIN requests
    BY <1>0, <1>2 DEF PingAgain, IInv, FirstAndLast, TypeOK
  <2>2. dst \in Names
    BY <1>a, <2>1 DEF Seqs
  <2> HIDE DEF dst
  <2>3. SeqOf("PING", dst) \in Seqs /\ SeqOf("PING", dst).cmd = "PING"
    BY <1>2, <1>b, <2>2 DEF PingAgain, SeqOf, Seqs
  <2>4. pc = "sleep" /\ pings' \in Nat /\ Len(requests) + 1 < MaxRequests /\ Note(SeqOf("PING", dst))
    BY <1>0, <1>2 DEF PingAgain, TypeOK, dst
  <2> QED
    BY <1>2, <1>b, <2>3, <2>4, NoteIInv DEF PingAgain
<1>3. CASE Unregister
  <2>1. SeqOf("UNREGISTER", Router) \in Seqs /\ SeqOf("UNREGISTER", Router).cmd = "UNREGISTER"
    BY <1>b DEF SeqOf, Seqs, Names
  <2>2. pc \in {"prompt", "sleep"} /\ pings' \in Nat
    BY <1>3 DEF Unregister
  <2>3. Len(requests) + 1 <= MaxRequests
    BY <1>3, <1>b DEF Unregister
  <2> QED
    BY <1>3, <2>1, <2>2, <2>3, NoteIInv DEF Unregister
<1>4. ASSUME NEW c \in Commands, Type(c) PROVE IInv'
  <2>1. c.cmd \in {"LISTCLIENTS", "STATS", "THREADS_LIST", "PING"} /\ c.qty \in Nat \ {0}
    BY CommandsAssumption
  <2>2. SeqOf(c.cmd, c.dst) \in Seqs /\ SeqOf(c.cmd, c.dst).cmd # "REGISTER"
    BY <1>4, <1>b, <2>1 DEF Type, SeqOf, Seqs, Names
  <2>3. pc = "prompt" /\ pings' \in Nat /\ Len(requests) + 1 < MaxRequests
    BY <1>4, <2>1 DEF Type
  <2> QED
    BY <1>4, <1>b, <2>2, <2>3, NoteIInv DEF Type
<1>5. CASE Send \/ Wake \/ RegisterReturns \/ UnregisterReturns
  BY <1>5, MainIInv
<1>6. CASE Call \/ Discard \/ CallFails
  BY <1>6, ReceiveIInv
<1>7. CASE Forget
  BY <1>7, ForgetIInv
<1>8. ASSUME NEW i \in DOMAIN requests, Callback(i) PROVE IInv'
  BY <1>8, CallbackIInv
<1>9. ASSUME NEW i \in DOMAIN requests, Service(i) \/ PeerFails(i) PROVE IInv'
  <2>1. /\ requests[i].stage \in {"sent", "looked_up", "at_peer"}
        /\ UNCHANGED <<main, foundation, syncs, heard, open_for_business, key>>
    BY <1>9 DEF Service, Route, LookupEnds, PeerAnswers, PeerFails, router
  <2>3. registered' \in BOOLEAN
    <3>1. registered \in BOOLEAN
      BY <1>0 DEF TypeOK
    <3> QED
      BY <1>9, <3>1 DEF Service, Route, LookupEnds, PeerAnswers, PeerFails, router
  <2>4. faults' \in 0..MaxFaults
    <3>1. faults \in 0..MaxFaults /\ MaxFaults \in Nat
      BY <1>0, BoundsAssumption DEF TypeOK
    <3>2. UNCHANGED faults \/ (faults < MaxFaults /\ faults' = faults + 1)
      BY <1>9 DEF Service, Route, LookupEnds, PeerAnswers, PeerFails
    <3> QED
      BY <3>1, <3>2
  <2>2. PICK s \in {"looked_up", "at_peer", "answered", "lost"} :
           At(i, s) /\ IF s = "answered" THEN inbox' = Append(inbox, i) ELSE inbox' = inbox
    BY <1>9 DEF Service, Route, LookupEnds, PeerAnswers, PeerFails, Answer, Lose
  <2> QED
    BY <2>1, <2>2, <2>3, <2>4, OnIInv
<1>10. CASE DbLeaves
  <2>1. open_for_business' \in BOOLEAN
    BY <1>10 DEF DbLeaves
  <2>2. faults' \in 0..MaxFaults
    BY <1>0, <1>10, BoundsAssumption DEF DbLeaves, TypeOK
  <2> QED
    BY <1>10, <2>1, <2>2, FaultIInv DEF DbLeaves
<1>11. CASE DbComes
  <2>1. open_for_business' \in BOOLEAN
    BY <1>11 DEF DbComes
  <2>2. faults' \in 0..MaxFaults
    BY <1>0, <1>11, BoundsAssumption DEF DbComes, TypeOK
  <2> QED
    BY <1>11, <2>1, <2>2, FaultIInv DEF DbComes
<1>12. CASE UNCHANGED vars
  BY <1>12 DEF vars, main, foundation, syncs, router, IInv, TypeOK, LoopHoldsLock, InboxFresh,
               FirstAndLast, EntryOrHeard, Heard, Live, WasHeard, SameSeq
<1> QED
  BY <1>1, <1>2, <1>3, <1>4, <1>5, <1>6, <1>7, <1>8, <1>9, <1>10, <1>11, <1>12
     DEF Next, MainStep, LoopStep

\* IInv holds in every reachable state of a client.
LEMMA Invariance == Spec => []IInv
BY InitIInv, NextIInv, PTL DEF Spec

-----------------------------------------------------------------------------
(* The theorems.                                                           *)

\* Variables keep their types; in particular the semaphores of register() and unregister()
\* are released once at most.
THEOREM TypeCorrect == Spec => []TypeOK
<1>1. IInv => TypeOK
  BY DEF IInv
<1> QED
  BY <1>1, Invariance, PTL

\* An answer without an entry in the registry is one whose caller was called back with the
\* answer to an equal request: for any commands, peers, faults and number of requests.
THEOREM NothingThrownAway == Spec => []DiscardedWasHeard
<1>1. IInv => DiscardedWasHeard
  BY DEF IInv, Heard, WasHeard, DiscardedWasHeard
<1> QED
  BY <1>1, Invariance, PTL

\* Nobody waits in vain for an entry: a request whose answer may still come has its entry
\* in the registry, or its caller has heard.
THEOREM WaitersHaveEntries == Spec => []EntryOrHeard
<1>1. IInv => EntryOrHeard
  BY DEF IInv
<1> QED
  BY <1>1, Invariance, PTL

=============================================================================
