---------------------------- MODULE CifDbProofs ----------------------------
(***************************************************************************)
(* The command handlers of cif-db, for any keys, aliases, thread idents,   *)
(* commands and number of failures: who can leave the tracker locked, that *)
(* every change is answered, and that the two tables of API keys agree as  *)
(* long as changes of one key do not overlap.                              *)
(***************************************************************************)
EXTENDS CifDb, SequenceTheorems, TLAPS

-----------------------------------------------------------------------------
(* The inductive invariant of the tracker.                                 *)

Pc == {"start", "work", "list", "list_time", "read_alias", "put_key", "put_alias", "take_back",
       "del_alias", "del_key", "remove", "done", "dead"}

Handler == [cmd : Command, key : Keys \cup {""}, alias : Aliases \cup {NoAlias}, ident : Idents,
            pc : Pc, seen : SUBSET Row, todo : SUBSET Idents, entry : Idents \cup {Nobody},
            reply : {"none", "SUCCESS", "FAILED"}]

\* A handler has answered when it goes to leave the tracker, and not before; only commands
\* that read die.
Answered(h) ==
    /\ h.reply = "none" <=> h.pc \notin {"remove", "done"}
    /\ h.pc = "dead" => h.cmd \notin Changing
    /\ h.cmd \in {"APIKEY_ADD", "APIKEY_UPDATE"} => h.key \in Keys

\* Idents are used again only when their thread has ended ...
IdentsDiffer ==
    \A i, j \in DOMAIN handlers : Alive(i) /\ Alive(j) /\ handlers[i].ident = handlers[j].ident => i = j

\* ... so that nobody else takes a handler's entry away.
AliveTracked ==
    \A i \in DOMAIN handlers : Alive(i) /\ handlers[i].pc # "start" => handlers[i].ident \in track

\* The type of the two tables.
TablesOK ==
    /\ DOMAIN key_rows \subseteq Keys /\ \A k \in DOMAIN key_rows : key_rows[k] \in Row
    /\ DOMAIN alias_rows \subseteq Aliases /\ \A a \in DOMAIN alias_rows : alias_rows[a] \in Keys

IInv == /\ TypeOK /\ (\A i \in DOMAIN handlers : Answered(handlers[i]))
        /\ IdentsDiffer /\ AliveTracked /\ LockLeftByListersOnly

-----------------------------------------------------------------------------
(* What the steps do to the handlers.                                      *)

\* One handler becomes h, the others stay.
LEMMA Moved ==
    ASSUME TypeOK, NEW i \in DOMAIN handlers, NEW h \in Handler, handlers' = [handlers EXCEPT ![i] = h]
    PROVE  /\ handlers' \in Seq(Handler) /\ DOMAIN handlers' = DOMAIN handlers /\ handlers'[i] = h
           /\ \A j \in DOMAIN handlers : j # i => handlers'[j] = handlers[j]
<1>1. handlers \in Seq(Handler)
  BY DEF TypeOK, Handler, Pc
<1> QED
  BY <1>1, ExceptSeq

\* Each handler is a record.
LEMMA Records ==
    ASSUME TypeOK, NEW i \in DOMAIN handlers
    PROVE  handlers[i] \in Handler
<1>1. handlers \in Seq(Handler)
  BY DEF TypeOK, Handler, Pc
<1> QED
  BY <1>1

\* One handler more.
LEMMA Added ==
    ASSUME handlers \in Seq(Handler), NEW h \in Handler, handlers' = Append(handlers, h)
    PROVE  LET n == Len(handlers) + 1
           IN /\ handlers' \in Seq(Handler) /\ DOMAIN handlers' = DOMAIN handlers \cup {n}
              /\ handlers'[n] = h /\ n \notin DOMAIN handlers
              /\ \A i \in DOMAIN handlers : handlers'[i] = handlers[i]
<1>1. /\ handlers' \in Seq(Handler) /\ Len(handlers') = Len(handlers) + 1 /\ Len(handlers) \in Nat
      /\ DOMAIN handlers = 1..Len(handlers) /\ DOMAIN handlers' = 1..Len(handlers')
      /\ \A i \in 1..Len(handlers) : handlers'[i] = handlers[i]
      /\ handlers'[Len(handlers) + 1] = h
  BY AppendProperties
<1> QED
  BY <1>1

\* What a command asks for does not change.
Same(g, h) == g.cmd = h.cmd /\ g.key = h.key /\ g.alias = h.alias /\ g.ident = h.ident

\* A move to another program counter.
LEMMA Goes ==
    ASSUME TypeOK, NEW i \in DOMAIN handlers, NEW pc \in Pc, Goto(i, pc)
    PROVE  \E h \in Handler :
              /\ handlers' = [handlers EXCEPT ![i] = h]
              /\ h.pc = pc /\ Same(h, handlers[i]) /\ h.seen = handlers[i].seen
              /\ h.reply = handlers[i].reply
<1> DEFINE h == [handlers[i] EXCEPT !.pc = pc]
<1>1. h \in Handler
  BY Records DEF Handler
<1>2. handlers' = [handlers EXCEPT ![i] = h]
  BY DEF Goto
<1>3. /\ h.pc = pc /\ Same(h, handlers[i]) /\ h.seen = handlers[i].seen
      /\ h.reply = handlers[i].reply
  BY Records DEF Handler, Same
<1> HIDE DEF h
<1> QED
  BY <1>1, <1>2, <1>3

\* An answer.
LEMMA Answers ==
    ASSUME TypeOK, NEW i \in DOMAIN handlers, NEW status \in {"SUCCESS", "FAILED"}, Answer(i, status)
    PROVE  \E h \in Handler :
              /\ handlers' = [handlers EXCEPT ![i] = h]
              /\ h.pc = "remove" /\ Same(h, handlers[i]) /\ h.reply = status
<1> DEFINE h == [handlers[i] EXCEPT !.pc = "remove", !.reply = status,
                                    !.seen = {}, !.todo = {}, !.entry = Nobody]
<1>1. h \in Handler
  BY Records DEF Handler, Pc
<1>2. handlers' = [handlers EXCEPT ![i] = h]
  BY DEF Answer
<1>3. h.pc = "remove" /\ Same(h, handlers[i]) /\ h.reply = status
  BY Records DEF Handler, Same
<1> HIDE DEF h
<1> QED
  BY <1>1, <1>2, <1>3

-----------------------------------------------------------------------------
(* The tracker: the initial states, a step of a handler, a new handler.    *)

LEMMA InitIInv == Init => IInv
<1> SUFFICES ASSUME Init PROVE IInv
  OBVIOUS
<1>1. handlers = <<>> /\ DOMAIN handlers = {}
  BY DEF Init
<1>2. TablesOK
  <2>1. key_rows \in InitialRows
    BY DEF Init
  <2>2. PICK ks \in SUBSET Keys : key_rows \in [ks -> [alias : Aliases \cup {NoAlias}, revoked : {FALSE}]]
    BY <2>1 DEF InitialRows
  <2>3. DOMAIN key_rows \subseteq Keys /\ \A k \in DOMAIN key_rows : key_rows[k] \in Row
    BY <2>2 DEF Row
  <2>4. DOMAIN alias_rows = {key_rows[k].alias : k \in DOMAIN key_rows} \ {NoAlias}
    BY DEF Init
  <2>5. DOMAIN alias_rows \subseteq Aliases
    BY <2>3, <2>4 DEF Row
  <2>6. ASSUME NEW a \in DOMAIN alias_rows PROVE alias_rows[a] \in Keys
    <3>1. \E k \in DOMAIN key_rows : key_rows[k].alias = a
      BY <2>4
    <3>2. alias_rows[a] = CHOOSE k \in DOMAIN key_rows : key_rows[k].alias = a
      BY <2>4, <2>6 DEF Init
    <3> QED
      BY <2>3, <3>1, <3>2
  <2> QED
    BY <2>3, <2>5, <2>6 DEF TablesOK
<1>3. failures \in 0..MaxFailures
  BY BoundsAssumption DEF Init
<1> QED
  BY <1>1, <1>2, <1>3
     DEF Init, IInv, TypeOK, TablesOK, IdentsDiffer, AliveTracked, LockLeftByListersOnly, Alive, Nobody

\* A step of a living handler, whatever it does to the tables: its own entry is the only one
\* it takes away, and if it leaves the lock it is a lister.
LEMMA StepIInv ==
    ASSUME IInv, NEW i \in DOMAIN handlers, NEW h \in Handler, handlers' = [handlers EXCEPT ![i] = h],
           h.ident = handlers[i].ident, h.cmd = handlers[i].cmd, Answered(h), Alive(i),
           h.pc # "start",
           track \ {h.ident} \subseteq track', track' \subseteq Idents,
           h.pc \notin {"done", "dead"} => h.ident \in track',
           \/ lock' = lock
           \/ lock' = h.ident /\ h.cmd = "THREADS_LIST" /\ h.pc = "dead",
           TablesOK', failures' \in 0..MaxFailures
    PROVE  IInv'
<1>0. TypeOK
  BY DEF IInv
<1>1. /\ handlers' \in Seq(Handler) /\ DOMAIN handlers' = DOMAIN handlers /\ handlers'[i] = h
      /\ \A j \in DOMAIN handlers : j # i => handlers'[j] = handlers[j]
  BY <1>0, Moved
<1>2. TypeOK'
  <2>1. lock' \in Idents \cup {Nobody}
    BY <1>0 DEF TypeOK, Handler
  <2> QED
    BY <1>1, <2>1 DEF TypeOK, TablesOK, Handler, Pc
<1>3. \A j \in DOMAIN handlers' : Answered(handlers'[j])
  BY <1>1 DEF IInv
<1>4. IdentsDiffer'
  BY <1>1 DEF IInv, IdentsDiffer, Alive
<1>5. AliveTracked'
  <2> SUFFICES ASSUME NEW j \in DOMAIN handlers, Alive(j)', handlers'[j].pc # "start"
               PROVE  handlers'[j].ident \in track'
    BY <1>1 DEF AliveTracked
  <2>1. CASE j = i
    BY <1>1, <2>1 DEF Alive
  <2>2. CASE j # i
    <3>1. handlers'[j] = handlers[j] /\ Alive(j)
      BY <1>1, <2>2 DEF Alive
    <3>2. handlers[j].ident # h.ident /\ handlers[j].ident \in track
      BY <2>2, <3>1 DEF IInv, IdentsDiffer, AliveTracked
    <3> QED
      BY <3>1, <3>2
  <2> QED
    BY <2>1, <2>2
<1>6. LockLeftByListersOnly'
  <2>1. CASE lock' = Nobody
    BY <2>1 DEF LockLeftByListersOnly
  <2>2. CASE lock' = lock /\ lock # Nobody
    <3>1. PICK j \in DOMAIN handlers : /\ At(j, "THREADS_LIST", "dead") /\ handlers[j].ident = lock
                                       /\ handlers[j].reply = "none"
      BY <2>2 DEF IInv, LockLeftByListersOnly, LockLeftByLister
    <3>2. j # i
      BY <3>1 DEF At, Alive
    <3> QED
      BY <1>1, <2>2, <3>1, <3>2 DEF At, LockLeftByListersOnly, LockLeftByLister
  <2>3. CASE lock' = h.ident /\ h.cmd = "THREADS_LIST" /\ h.pc = "dead"
    BY <1>1, <2>3 DEF Answered, At, LockLeftByListersOnly, LockLeftByLister
  <2> QED
    BY <2>1, <2>2, <2>3
<1> QED
  BY <1>2, <1>3, <1>4, <1>5, <1>6 DEF IInv

\* A new handler.
LEMMA StartIInv ==
    ASSUME IInv, NEW cmd \in Command, NEW k \in Keys \cup {""}, NEW a \in Aliases \cup {NoAlias},
           cmd \in {"APIKEY_ADD", "APIKEY_UPDATE"} => k \in Keys, Start(cmd, k, a)
    PROVE  IInv'
<1>0. TypeOK
  BY DEF IInv
<1>1. PICK id \in Idents :
        /\ \A i \in DOMAIN handlers : Alive(i) => handlers[i].ident # id
        /\ handlers' = Append(handlers, [cmd |-> cmd, key |-> k, alias |-> a, ident |-> id,
                                         pc |-> "start", seen |-> {}, todo |-> {},
                                         entry |-> Nobody, reply |-> "none"])
  BY DEF Start
<1> DEFINE h == [cmd |-> cmd, key |-> k, alias |-> a, ident |-> id, pc |-> "start", seen |-> {},
                 todo |-> {}, entry |-> Nobody, reply |-> "none"]
           n == Len(handlers) + 1
<1>2. h \in Handler /\ h.ident = id /\ h.pc = "start" /\ Answered(h)
  BY DEF Handler, Pc, Answered
<1> HIDE DEF h
<1>3. /\ handlers' \in Seq(Handler) /\ DOMAIN handlers' = DOMAIN handlers \cup {n}
      /\ handlers'[n] = h /\ n \notin DOMAIN handlers
      /\ \A i \in DOMAIN handlers : handlers'[i] = handlers[i]
  <2>1. handlers \in Seq(Handler) /\ handlers' = Append(handlers, h)
    BY <1>0, <1>1 DEF TypeOK, Handler, Pc, h
  <2> QED
    BY <1>2, <2>1, Added
<1> HIDE DEF n
<1>4. UNCHANGED <<track, lock, key_rows, alias_rows, failures>>
  BY DEF Start, tracker, table
<1>5. TypeOK'
  BY <1>0, <1>3, <1>4 DEF TypeOK, Handler, Pc
<1>6. \A i \in DOMAIN handlers' : Answered(handlers'[i])
  BY <1>2, <1>3 DEF IInv
<1>7. IdentsDiffer'
  <2>1. \A i \in DOMAIN handlers : Alive(i) => handlers[i].ident # id
    BY <1>1
  <2> QED
    BY <2>1, <1>2, <1>3 DEF IInv, IdentsDiffer, Alive
<1>8. AliveTracked'
  BY <1>2, <1>3, <1>4 DEF IInv, AliveTracked, Alive
<1>9. LockLeftByListersOnly'
  BY <1>3, <1>4 DEF IInv, LockLeftByListersOnly, LockLeftByLister, At
<1> QED
  BY <1>5, <1>6, <1>7, <1>8, <1>9 DEF IInv

-----------------------------------------------------------------------------
(* One lemma for each group of steps.                                      *)

\* A handler that is at work, and the HBase call it makes.
Working(i) == i \in DOMAIN handlers /\ handlers[i].pc \notin {"start", "remove", "done", "dead"}
Calls      == failures' = failures \/ Raises

LEMMA CallsTyped == TypeOK /\ Calls => failures' \in 0..MaxFailures
<1>1. TypeOK => failures \in 0..MaxFailures
  BY DEF TypeOK
<1> QED
  BY <1>1, BoundsAssumption DEF Calls, Raises

\* It moves on ...
LEMMA GoIInv ==
    ASSUME IInv, NEW i, Working(i), NEW pc \in Pc \ {"start", "remove", "done"}, Goto(i, pc),
           pc = "dead" => handlers[i].cmd \notin Changing, UNCHANGED track,
           \/ UNCHANGED lock
           \/ lock' = handlers[i].ident /\ handlers[i].cmd = "THREADS_LIST" /\ pc = "dead",
           TablesOK', Calls
    PROVE  IInv'
<1>0. TypeOK /\ i \in DOMAIN handlers /\ handlers[i] \in Handler
  BY Records DEF IInv, Working
<1>1. PICK h \in Handler : /\ handlers' = [handlers EXCEPT ![i] = h]
                           /\ h.pc = pc /\ Same(h, handlers[i])
                           /\ h.reply = handlers[i].reply
  BY <1>0, Goes
<1>2. /\ h.ident = handlers[i].ident /\ h.cmd = handlers[i].cmd /\ h.pc = pc
      /\ h.reply = handlers[i].reply /\ h.key = handlers[i].key
  BY <1>1 DEF Same
<1>3. Answered(handlers[i]) /\ Alive(i) /\ handlers[i].ident \in track /\ track \subseteq Idents
  BY <1>0 DEF IInv, AliveTracked, Alive, Working, TypeOK
<1>4. Answered(h)
  BY <1>2, <1>3 DEF Answered, Working
<1>5. failures' \in 0..MaxFailures
  BY <1>0, CallsTyped
<1> QED
  BY <1>0, <1>1, <1>2, <1>3, <1>4, <1>5, StepIInv

\* ... or answers.
LEMMA AnswerIInv ==
    ASSUME IInv, NEW i, Working(i), NEW status \in {"SUCCESS", "FAILED"}, Answer(i, status),
           UNCHANGED tracker, TablesOK', Calls
    PROVE  IInv'
<1>0. TypeOK /\ i \in DOMAIN handlers /\ handlers[i] \in Handler
  BY Records DEF IInv, Working
<1>1. PICK h \in Handler :
        /\ handlers' = [handlers EXCEPT ![i] = h]
        /\ h.pc = "remove" /\ Same(h, handlers[i]) /\ h.reply = status
  BY <1>0, Answers
<1>2. /\ h.ident = handlers[i].ident /\ h.cmd = handlers[i].cmd /\ h.pc = "remove"
      /\ h.reply = status /\ h.key = handlers[i].key
  BY <1>1 DEF Same
<1>3. Answered(handlers[i]) /\ Alive(i) /\ handlers[i].ident \in track /\ track \subseteq Idents
  BY <1>0 DEF IInv, AliveTracked, Alive, Working, TypeOK
<1>4. Answered(h)
  BY <1>2, <1>3 DEF Answered
<1>5. failures' \in 0..MaxFailures
  BY <1>0, CallsTyped
<1> QED
  BY <1>0, <1>1, <1>2, <1>3, <1>4, <1>5, StepIInv DEF tracker

\* Into the tracker and out of it: a handler finds its entry.
LEMMA AddToTrackerIInv ==
    ASSUME IInv, NEW i, AddToTracker(i)
    PROVE  IInv'
<1>0. TypeOK /\ i \in DOMAIN handlers /\ handlers[i] \in Handler /\ Goto(i, "work")
  BY Records DEF IInv, AddToTracker
<1>1. PICK h \in Handler : /\ handlers' = [handlers EXCEPT ![i] = h]
                           /\ h.pc = "work" /\ Same(h, handlers[i])
                           /\ h.reply = handlers[i].reply
  BY <1>0, Goes DEF Pc
<1>2. /\ h.ident = handlers[i].ident /\ h.cmd = handlers[i].cmd /\ h.pc = "work"
      /\ h.reply = handlers[i].reply /\ h.key = handlers[i].key
  BY <1>1 DEF Same
<1>3. Answered(handlers[i]) /\ handlers[i].pc = "start" /\ Alive(i) /\ track \subseteq Idents
  BY <1>0 DEF IInv, AddToTracker, Alive, TypeOK
<1>4. Answered(h)
  BY <1>2, <1>3 DEF Answered
<1>5. /\ track' = track \cup {handlers[i].ident} /\ UNCHANGED <<lock, key_rows, alias_rows, failures>>
      /\ handlers[i].ident \in Idents
  BY <1>0 DEF AddToTracker, table, Handler
<1>6. TablesOK' /\ failures' \in 0..MaxFailures
  BY <1>0, <1>5 DEF TypeOK, TablesOK
<1> QED
  BY <1>0, <1>1, <1>2, <1>3, <1>4, <1>5, <1>6, StepIInv

LEMMA RemoveFromTrackerIInv ==
    ASSUME IInv, NEW i, RemoveFromTracker(i)
    PROVE  IInv'
<1>0. TypeOK /\ i \in DOMAIN handlers /\ handlers[i] \in Handler
  BY Records DEF IInv, RemoveFromTracker
<1>1. Alive(i) /\ handlers[i].pc = "remove" /\ handlers[i].ident \in track /\ track \subseteq Idents
  BY <1>0 DEF IInv, RemoveFromTracker, AliveTracked, Alive, TypeOK
<1>2. /\ Goto(i, "done") /\ track' = track \ {handlers[i].ident}
      /\ UNCHANGED <<lock, key_rows, alias_rows, failures>>
  BY <1>1 DEF RemoveFromTracker, table
<1>3. PICK h \in Handler : /\ handlers' = [handlers EXCEPT ![i] = h]
                           /\ h.pc = "done" /\ Same(h, handlers[i])
                           /\ h.reply = handlers[i].reply
  BY <1>0, <1>2, Goes DEF Pc
<1>4. /\ h.ident = handlers[i].ident /\ h.cmd = handlers[i].cmd /\ h.pc = "done"
      /\ h.reply = handlers[i].reply /\ h.key = handlers[i].key
  BY <1>3 DEF Same
<1>5. Answered(h)
  BY <1>0, <1>1, <1>4 DEF IInv, Answered
<1>6. TablesOK' /\ failures' \in 0..MaxFailures
  BY <1>0, <1>2 DEF TypeOK, TablesOK
<1> QED
  BY <1>0, <1>1, <1>2, <1>3, <1>4, <1>5, <1>6, StepIInv

\* The reads that tell a handler what to do next.
LEMMA ProceedIInv ==
    ASSUME IInv, NEW i, Working(i), NEW h \in Handler, handlers' = [handlers EXCEPT ![i] = h],
           h.cmd = handlers[i].cmd, h.ident = handlers[i].ident, h.reply = handlers[i].reply,
           h.pc \notin {"start", "remove", "done", "dead"},
           h.cmd \in {"APIKEY_ADD", "APIKEY_UPDATE"} => h.key = handlers[i].key,
           UNCHANGED <<tracker, table>>, Calls
    PROVE  IInv'
<1>0. TypeOK /\ i \in DOMAIN handlers /\ handlers[i] \in Handler
  BY Records DEF IInv, Working
<1>1. Answered(handlers[i]) /\ Alive(i) /\ handlers[i].ident \in track /\ track \subseteq Idents
  BY <1>0 DEF IInv, AliveTracked, Alive, Working, TypeOK
<1>2. Answered(h)
  BY <1>1 DEF Answered, Working
<1>3. failures' \in 0..MaxFailures
  BY <1>0, CallsTyped
<1>4. TablesOK'
  BY <1>0 DEF TypeOK, TablesOK, table
<1> QED
  BY <1>0, <1>1, <1>2, <1>3, <1>4, StepIInv DEF tracker

\* Commands that read.
LEMMA ReadIInv ==
    ASSUME IInv, NEW i, Read(i) \/ ListThreads(i) \/ ListTime(i) \/ ListDone(i) \/ \E id \in Idents : ListEntry(i, id)
    PROVE  IInv'
<1>0. TypeOK /\ TablesOK
  BY DEF IInv, TypeOK, TablesOK
<1>1. CASE Read(i)
  <2>1. Working(i) /\ Calls /\ UNCHANGED <<tracker, table>> /\ handlers[i].cmd \notin Changing
    BY <1>1 DEF Read, At, Working, Calls, Works, Changing
  <2>2. TablesOK'
    BY <1>0, <2>1 DEF TablesOK, table
  <2>3. Goto(i, "dead") \/ \E status \in {"SUCCESS", "FAILED"} : Answer(i, status)
    BY <1>1 DEF Read
  <2> QED
    BY <2>1, <2>2, <2>3, GoIInv, AnswerIInv DEF Pc, tracker
<1>2. CASE ListThreads(i)
  <2> DEFINE h == [handlers[i] EXCEPT !.pc = "list", !.todo = track]
  <2>1. Working(i) /\ Calls /\ UNCHANGED <<tracker, table>> /\ handlers' = [handlers EXCEPT ![i] = h]
    BY <1>2 DEF ListThreads, At, Working, Calls
  <2>2. handlers[i] \in Handler /\ track \subseteq Idents
    BY <1>0, <2>1, Records DEF Working, TypeOK
  <2>3. h \in Handler /\ h.pc = "list" /\ h.reply = handlers[i].reply /\ Same(h, handlers[i])
    BY <2>2 DEF Handler, Pc, Same
  <2> HIDE DEF h
  <2> QED
    BY <2>1, <2>3, ProceedIInv DEF Same
<1>3. CASE ListTime(i)
  <2>1. Working(i) /\ Calls /\ UNCHANGED <<tracker, table>> /\ handlers[i].cmd \notin Changing
    BY <1>3 DEF ListTime, At, Working, Calls, Changing
  <2>2. TablesOK'
    BY <1>0, <2>1 DEF TablesOK, table
  <2>3. \E pc \in {"list", "dead"} : Goto(i, pc)
    BY <1>3 DEF ListTime
  <2> QED
    BY <2>1, <2>2, <2>3, GoIInv DEF Pc, tracker
<1>4. CASE ListDone(i)
  <2>1. Working(i) /\ Calls /\ UNCHANGED <<tracker, table>> /\ Answer(i, "SUCCESS")
    BY <1>4 DEF ListDone, At, Working, Calls
  <2>2. TablesOK'
    BY <1>0, <2>1 DEF TablesOK, table
  <2> QED
    BY <2>1, <2>2, AnswerIInv
<1>5. ASSUME NEW id \in Idents, ListEntry(i, id) PROVE IInv'
  <2>1. /\ Working(i) /\ Calls /\ UNCHANGED <<track, table>>
        /\ handlers[i].cmd = "THREADS_LIST" /\ "THREADS_LIST" \notin Changing
    BY <1>5 DEF ListEntry, At, Working, Calls, Changing
  <2>2. TablesOK'
    BY <1>0, <2>1 DEF TablesOK, table
  <2>3. CASE id \in track
    <3> DEFINE h == [handlers[i] EXCEPT !.pc = "list_time", !.todo = @ \ {id}, !.entry = id]
    <3>1. handlers' = [handlers EXCEPT ![i] = h] /\ UNCHANGED lock
      BY <1>5, <2>3 DEF ListEntry
    <3>2. handlers[i] \in Handler
      BY <1>0, <2>1, Records DEF Working
    <3>3. h \in Handler /\ h.pc = "list_time" /\ h.reply = handlers[i].reply /\ Same(h, handlers[i])
      BY <3>2 DEF Handler, Pc, Same
    <3> HIDE DEF h
    <3> QED
      BY <2>1, <3>1, <3>3, ProceedIInv DEF Same, tracker
  <2>4. CASE id \notin track
    <3>1. Goto(i, "dead") /\ lock' = handlers[i].ident
      BY <1>5, <2>4 DEF ListEntry
    <3> QED
      BY <2>1, <2>2, <3>1, GoIInv DEF Pc
  <2> QED
    BY <2>3, <2>4
<1> QED
  BY <1>1, <1>2, <1>3, <1>4, <1>5

\* Rows come into the tables, and go.
LEMMA PutTyped ==
    ASSUME TablesOK
    PROVE  /\ \A k \in Keys, r \in Row :
                 key_rows' = With(key_rows, k, r) /\ alias_rows' = alias_rows => TablesOK'
           /\ \A a \in Aliases, k \in Keys :
                 alias_rows' = With(alias_rows, a, k) /\ key_rows' = key_rows => TablesOK'
BY DEF TablesOK, With

LEMMA DeleteTyped ==
    ASSUME TablesOK, NEW k,
           \/ key_rows' = Without(key_rows, k) /\ alias_rows' = alias_rows
           \/ alias_rows' = Without(alias_rows, k) /\ key_rows' = key_rows
           \/ UNCHANGED table
    PROVE  TablesOK'
BY DEF TablesOK, Without, table

\* Commands that change a key.
LEMMA AddIInv ==
    ASSUME IInv, NEW i,
           AddReadKey(i) \/ AddReadAlias(i) \/ AddPutKey(i) \/ AddPutAlias(i) \/ AddTakeBack(i)
    PROVE  IInv'
<1>0. TypeOK /\ TablesOK
  BY DEF IInv, TypeOK, TablesOK
<1>1. /\ Working(i) /\ Calls /\ UNCHANGED tracker /\ handlers[i] \in Handler
      /\ handlers[i].key \in Keys /\ handlers[i].alias \in Aliases \cup {NoAlias}
  <2>1. Working(i) /\ Calls /\ UNCHANGED tracker /\ handlers[i].cmd = "APIKEY_ADD"
    BY DEF AddReadKey, AddReadAlias, AddPutKey, AddPutAlias, AddTakeBack, At, Working, Calls, Works
  <2>2. handlers[i] \in Handler
    BY <1>0, <2>1, Records DEF Working
  <2> QED
    BY <2>1, <2>2 DEF IInv, Answered, Working, Handler
<1>2. \/ \E pc \in {"read_alias", "put_key", "put_alias", "take_back"} : Goto(i, pc)
      \/ \E status \in {"SUCCESS", "FAILED"} : Answer(i, status)
  BY DEF AddReadKey, AddReadAlias, AddPutKey, AddPutAlias, AddTakeBack
<1>3. TablesOK'
  <2>1. CASE AddReadKey(i) \/ AddReadAlias(i)
    BY <1>0, <2>1, DeleteTyped DEF AddReadKey, AddReadAlias
  <2>2. CASE AddPutKey(i)
    <3>1. [alias |-> handlers[i].alias, revoked |-> FALSE] \in Row
      BY <1>1 DEF Row
    <3> QED
      BY <1>0, <1>1, <2>2, <3>1, PutTyped, DeleteTyped DEF AddPutKey, table
  <2>3. CASE AddPutAlias(i)
    BY <1>0, <1>1, <2>3, PutTyped, DeleteTyped DEF AddPutAlias, table
  <2>4. CASE AddTakeBack(i)
    BY <1>0, <2>4, DeleteTyped DEF AddTakeBack, table
  <2> QED
    BY <2>1, <2>2, <2>3, <2>4
<1> QED
  BY <1>1, <1>2, <1>3, GoIInv, AnswerIInv DEF Pc, tracker

LEMMA UpdateIInv ==
    ASSUME IInv, NEW i, UpdateRead(i) \/ UpdatePut(i)
    PROVE  IInv'
<1>0. TypeOK /\ TablesOK
  BY DEF IInv, TypeOK, TablesOK
<1>1. /\ Working(i) /\ Calls /\ UNCHANGED tracker /\ handlers[i] \in Handler /\ handlers[i].key \in Keys
  <2>1. Working(i) /\ Calls /\ UNCHANGED tracker /\ handlers[i].cmd = "APIKEY_UPDATE"
    BY DEF UpdateRead, UpdatePut, At, Working, Calls, Works
  <2>2. handlers[i] \in Handler
    BY <1>0, <2>1, Records DEF Working
  <2> QED
    BY <2>1, <2>2 DEF IInv, Answered, Working, Handler
<1>2. CASE Answer(i, "FAILED")
  <2>1. TablesOK'
    <3>1. CASE UpdateRead(i)
      BY <1>0, <3>1, DeleteTyped DEF UpdateRead
    <3>2. CASE UpdatePut(i)
      <4>1. CASE UNCHANGED table
        BY <1>0, <4>1, DeleteTyped
      <4>2. ASSUME NEW r \in handlers[i].seen, UNCHANGED alias_rows,
                   key_rows' = With(key_rows, handlers[i].key, [r EXCEPT !.revoked = TRUE])
            PROVE  TablesOK'
        <5>1. r \in Row
          BY <1>1, <4>2 DEF Handler
        <5>2. [r EXCEPT !.revoked = TRUE] \in Row
          BY <5>1 DEF Row
        <5> QED
          BY <1>0, <1>1, <4>2, <5>2, PutTyped
      <4> QED
        BY <3>2, <4>1, <4>2 DEF UpdatePut, table
    <3> QED
      BY <3>1, <3>2
  <2> QED
    BY <1>1, <1>2, <2>1, AnswerIInv
<1>3. CASE UpdateRead(i) /\ ~ Answer(i, "FAILED")
  <2> DEFINE row == KeyRow(handlers[i].key)
             h   == [handlers[i] EXCEPT !.pc = "put_key", !.seen = row]
  <2>1. handlers' = [handlers EXCEPT ![i] = h] /\ UNCHANGED <<tracker, table>>
    BY <1>3 DEF UpdateRead
  <2>2. row \subseteq Row
    BY <1>0 DEF TablesOK, KeyRow
  <2>3. h \in Handler /\ h.pc = "put_key" /\ h.reply = handlers[i].reply /\ Same(h, handlers[i])
    BY <1>1, <2>2 DEF Handler, Pc, Same
  <2> HIDE DEF h
  <2> QED
    BY <1>1, <2>1, <2>3, ProceedIInv DEF Same
<1> QED
  BY <1>2, <1>3 DEF UpdatePut

LEMMA DelIInv ==
    ASSUME IInv, NEW i, DelReadAlias(i) \/ DelReadKey(i) \/ DelAlias(i) \/ DelKey(i)
    PROVE  IInv'
<1>0. TypeOK /\ TablesOK
  BY DEF IInv, TypeOK, TablesOK
<1>1. Working(i) /\ Calls /\ UNCHANGED tracker /\ handlers[i].cmd = "APIKEY_DEL"
  BY DEF DelReadAlias, DelReadKey, DelAlias, DelKey, At, Working, Calls, Works
<1>2. handlers[i] \in Handler
  BY <1>0, <1>1, Records DEF Working
<1>3. TablesOK'
  BY <1>0, DeleteTyped DEF DelReadAlias, DelReadKey, DelAlias, DelKey, table
<1>4. CASE Goto(i, "del_key") \/ \E status \in {"SUCCESS", "FAILED"} : Answer(i, status)
  BY <1>1, <1>3, <1>4, GoIInv, AnswerIInv DEF Pc, tracker
<1>5. CASE DelReadAlias(i) /\ ~ \E status \in {"SUCCESS", "FAILED"} : Answer(i, status)
  <2> DEFINE h == [handlers[i] EXCEPT !.key = alias_rows[handlers[i].alias]]
  <2>1. /\ handlers' = [handlers EXCEPT ![i] = h] /\ UNCHANGED <<tracker, table>>
        /\ handlers[i].alias \in DOMAIN alias_rows /\ handlers[i].pc = "work"
    BY <1>5 DEF DelReadAlias, At
  <2>2. alias_rows[handlers[i].alias] \in Keys
    BY <1>0, <2>1 DEF TablesOK
  <2>3. /\ h \in Handler /\ h.pc = "work" /\ h.reply = handlers[i].reply
        /\ h.cmd = handlers[i].cmd /\ h.ident = handlers[i].ident
    BY <1>2, <2>1, <2>2 DEF Handler
  <2> HIDE DEF h
  <2> QED
    BY <1>1, <2>1, <2>3, ProceedIInv
<1>6. CASE DelReadKey(i) /\ ~ \E status \in {"SUCCESS", "FAILED"} : Answer(i, status)
  <2> DEFINE row == KeyRow(handlers[i].key)
             pc  == IF \E r \in row : r.alias # NoAlias THEN "del_alias" ELSE "del_key"
             h   == [handlers[i] EXCEPT !.seen = row, !.pc = pc]
  <2>1. handlers' = [handlers EXCEPT ![i] = h] /\ UNCHANGED <<tracker, table>>
    BY <1>6 DEF DelReadKey
  <2>2. row \subseteq Row /\ pc \in {"del_alias", "del_key"}
    BY <1>0 DEF TablesOK, KeyRow
  <2> HIDE DEF pc
  <2>3. h \in Handler /\ h.pc = pc /\ h.reply = handlers[i].reply /\ Same(h, handlers[i])
    BY <1>2, <2>2 DEF Handler, Pc, Same
  <2> HIDE DEF h
  <2> QED
    BY <1>1, <2>1, <2>2, <2>3, ProceedIInv DEF Same
<1> QED
  BY <1>4, <1>5, <1>6 DEF DelAlias, DelKey

\* Every step keeps the invariant.
LEMMA NextIInv == IInv /\ [Next]_vars => IInv'
<1> SUFFICES ASSUME IInv, [Next]_vars PROVE IInv'
  OBVIOUS
<1>1. CASE Receive
  <2>1. ASSUME NEW k \in Keys, NEW a \in Aliases \cup {NoAlias},
               NEW cmd \in {"APIKEY_ADD", "APIKEY_UPDATE"}, Start(cmd, k, a)
        PROVE  IInv'
    BY <2>1, StartIInv DEF Command
  <2>2. ASSUME NEW k \in Keys, NEW cmd \in {"APIKEY_DEL", "APIKEY_GET"}, Start(cmd, k, NoAlias)
        PROVE  IInv'
    BY <2>2, StartIInv DEF Command
  <2>3. ASSUME NEW a \in Aliases, Start("APIKEY_DEL", "", a) PROVE IInv'
    BY <2>3, StartIInv DEF Command
  <2>4. ASSUME NEW cmd \in Command \ (Changing \cup {"APIKEY_GET"}), Start(cmd, "", NoAlias)
        PROVE  IInv'
    BY <2>4, StartIInv DEF Changing
  <2> QED
    BY <1>1, <2>1, <2>2, <2>3, <2>4 DEF Receive
<1>2. ASSUME NEW i \in 1..MaxRequests, HandlerStep(i) PROVE IInv'
  BY <1>2, AddToTrackerIInv, RemoveFromTrackerIInv, ReadIInv, AddIInv, UpdateIInv, DelIInv
     DEF HandlerStep, Work
<1>3. CASE UNCHANGED vars
  BY <1>3 DEF vars, tracker, table, IInv, TypeOK, Answered, IdentsDiffer, AliveTracked, Alive,
              LockLeftByListersOnly, LockLeftByLister, At
<1> QED
  BY <1>1, <1>2, <1>3 DEF Next

\* IInv holds in every reachable state of cif-db.
LEMMA Invariance == Spec => []IInv
BY InitIInv, NextIInv, PTL DEF Spec

-----------------------------------------------------------------------------
(* The theorems about the tracker.                                         *)

\* Variables keep their types.
THEOREM TypeCorrect == Spec => []TypeOK
<1>1. IInv => TypeOK
  BY DEF IInv
<1> QED
  BY <1>1, Invariance, PTL

\* Only a THREADS_LIST that died over an entry leaves the tracker locked: for any idents,
\* commands and failures.
THEOREM OnlyListersLeaveTheLock == Spec => []LockLeftByListersOnly
<1>1. IInv => LockLeftByListersOnly
  BY DEF IInv
<1> QED
  BY <1>1, Invariance, PTL

\* Every change of a key is answered, whichever HBase calls raise.
THEOREM ChangesAnswered == Spec => []EndsAnswered
<1>1. IInv => EndsAnswered
  BY DEF IInv, Answered, EndsAnswered, Changes, Alive
<1> QED
  BY <1>1, Invariance, PTL

-----------------------------------------------------------------------------
(* The two tables, when changes of a key do not overlap: what the handler  *)
(* that changes a key may rely on between its calls.                       *)

Named(k) == \E a \in DOMAIN alias_rows : alias_rows[a] = k

Relies(h) ==
    /\ h.cmd = "APIKEY_ADD" /\ h.pc \in {"read_alias", "put_key"} => h.key \notin DOMAIN key_rows
    /\ h.cmd = "APIKEY_ADD" /\ h.pc = "put_alias" =>
          h.key \in DOMAIN key_rows /\ key_rows[h.key].alias = h.alias
    /\ h.cmd = "APIKEY_ADD" /\ h.pc \in {"put_alias", "take_back"} => ~ Named(h.key)
    /\ h.cmd = "APIKEY_UPDATE" /\ h.pc = "put_key" =>
          h.key \in DOMAIN key_rows /\ h.seen = {key_rows[h.key]}
    /\ h.cmd = "APIKEY_DEL" /\ h.pc = "del_alias" =>
          h.key \in DOMAIN key_rows /\ h.seen = {key_rows[h.key]}
    /\ h.cmd = "APIKEY_DEL" /\ h.pc = "del_key" => ~ Named(h.key)

\* What Start of an exclusive command sees to stays so.
ChangesApart ==
    \A i, j \in DOMAIN handlers :
        i # j /\ Alive(i) /\ Alive(j) /\ Changes(i) /\ Changes(j) => ~ SameKey(handlers[i].key, handlers[j].key)

TInv == /\ IInv /\ ChangesApart /\ (\A i \in DOMAIN handlers : Relies(handlers[i]))
        /\ NoDanglingAlias

\* Only rows of key k change.
OnlyRowsOf(k) ==
    /\ \A l \in Keys \ {k} : /\ l \in DOMAIN key_rows' <=> l \in DOMAIN key_rows
                             /\ l \in DOMAIN key_rows => key_rows'[l] = key_rows[l]
    /\ \A a \in DOMAIN alias_rows' :
          alias_rows'[a] = k \/ (a \in DOMAIN alias_rows /\ alias_rows'[a] = alias_rows[a])

\* What the others rely on stays.
LEMMA OthersRely ==
    ASSUME NEW k, NEW h \in Handler, OnlyRowsOf(k), h.key \in Keys \ {k}, Relies(h)
    PROVE  Relies(h)'
<1>1. Named(h.key)' => Named(h.key)
  BY DEF OnlyRowsOf, Named
<1> QED
  BY <1>1 DEF Relies, OnlyRowsOf

LEMMA StepTInv ==
    ASSUME TInv, NEW i \in DOMAIN handlers, NEW h \in Handler, handlers' = [handlers EXCEPT ![i] = h],
           h.cmd = handlers[i].cmd, Alive(i),
           h.key = handlers[i].key \/ handlers[i].key = "",
           UNCHANGED table \/ (Changes(i) /\ OnlyRowsOf(h.key) /\ h.key = handlers[i].key),
           Relies(h)', IInv', NoDanglingAlias'
    PROVE  TInv'
<1>0. TypeOK
  BY DEF TInv, IInv
<1>1. /\ DOMAIN handlers' = DOMAIN handlers /\ handlers'[i] = h
      /\ \A j \in DOMAIN handlers : j # i => handlers'[j] = handlers[j]
  BY <1>0, Moved
<1>2. \A j \in DOMAIN handlers : j # i /\ Alive(j) /\ Changes(j) /\ Changes(i) =>
          /\ handlers[j].key # handlers[i].key /\ handlers[j].key # "" /\ handlers[i].key # ""
          /\ handlers[j].key \in Keys
  <2>1. \A j \in DOMAIN handlers : handlers[j].key \in Keys \cup {""}
    BY <1>0, Records DEF Handler
  <2> QED
    BY <2>1 DEF TInv, ChangesApart, SameKey
<1>3. ChangesApart'
  <2> SUFFICES ASSUME NEW a \in DOMAIN handlers, NEW b \in DOMAIN handlers, a # b,
                      Alive(a)', Alive(b)', Changes(a)', Changes(b)'
               PROVE  ~ SameKey(handlers'[a].key, handlers'[b].key)
    BY <1>1 DEF ChangesApart
  <2>1. Alive(a) /\ Alive(b) /\ Changes(a) /\ Changes(b)
    BY <1>1 DEF Alive, Changes
  <2>2. CASE a # i /\ b # i
    BY <1>1, <2>1, <2>2 DEF TInv, ChangesApart
  <2>3. CASE a = i \/ b = i
    BY <1>1, <1>2, <2>1, <2>3 DEF SameKey
  <2> QED
    BY <2>2, <2>3
<1>4. ASSUME NEW j \in DOMAIN handlers' PROVE Relies(handlers[j])'
  <2>1. CASE j = i
    BY <1>1, <2>1 DEF Relies, Named
  <2>2. CASE j # i
    <3>1. PICK g \in Handler : g = handlers[j] /\ handlers'[j] = g /\ Relies(g)
      BY <1>0, <1>1, <2>2, Records DEF TInv
    <3>2. Relies(g)'
      <4>1. CASE UNCHANGED table
        BY <3>1, <4>1 DEF Relies, Named, table
      <4>2. CASE ~ (Alive(j) /\ Changes(j))
        BY <3>1, <4>2 DEF Relies, Alive, Changes, Changing
      <4>3. CASE Changes(i) /\ OnlyRowsOf(h.key) /\ h.key = handlers[i].key /\ Alive(j) /\ Changes(j)
        <5>1. g.key \in Keys \ {h.key}
          BY <1>1, <1>2, <2>2, <3>1, <4>3
        <5> QED
          BY <3>1, <4>3, <5>1, OthersRely
      <4> QED
        BY <4>1, <4>2, <4>3
    <3> QED
      BY <3>1, <3>2 DEF Relies, Named
  <2> QED
    BY <2>1, <2>2
<1> QED
  BY <1>3, <1>4 DEF TInv

\* An answer relies on nothing.
LEMMA AnswerTInv ==
    ASSUME TInv, IInv', NEW i, Working(i), NEW status \in {"SUCCESS", "FAILED"}, Answer(i, status),
           UNCHANGED table \/ (Changes(i) /\ OnlyRowsOf(handlers[i].key)), NoDanglingAlias'
    PROVE  TInv'
<1>1. TypeOK /\ i \in DOMAIN handlers /\ Alive(i)
  BY DEF TInv, IInv, Working, Alive
<1>2. PICK h \in Handler :
        /\ handlers' = [handlers EXCEPT ![i] = h]
        /\ h.pc = "remove" /\ Same(h, handlers[i]) /\ h.reply = status
  BY <1>1, Answers
<1>3. h.cmd = handlers[i].cmd /\ h.key = handlers[i].key
  BY <1>2 DEF Same
<1>4. Relies(h)'
  BY <1>2 DEF Relies
<1> QED
  BY <1>1, <1>2, <1>3, <1>4, StepTInv

\* Who goes on must find what it relies on.
LEMMA GoTInv ==
    ASSUME TInv, IInv', NEW i, Working(i), NEW pc \in Pc, Goto(i, pc),
           UNCHANGED table \/ (Changes(i) /\ OnlyRowsOf(handlers[i].key)), NoDanglingAlias',
           \A h \in Handler :
               h.pc = pc /\ Same(h, handlers[i]) /\ h.seen = handlers[i].seen => Relies(h)'
    PROVE  TInv'
<1>1. TypeOK /\ i \in DOMAIN handlers /\ Alive(i)
  BY DEF TInv, IInv, Working, Alive
<1>2. PICK h \in Handler :
        /\ handlers' = [handlers EXCEPT ![i] = h]
        /\ h.pc = pc /\ Same(h, handlers[i]) /\ h.seen = handlers[i].seen
  BY <1>1, Goes
<1>3. h.cmd = handlers[i].cmd /\ h.key = handlers[i].key
  BY <1>2 DEF Same
<1>4. Relies(h)'
  BY <1>2
<1> QED
  BY <1>1, <1>2, <1>3, <1>4, StepTInv

\* A step that leaves the tables alone.
LEMMA QuietTInv ==
    ASSUME TInv, IInv', NEW i \in DOMAIN handlers, Alive(i), NEW h \in Handler,
           handlers' = [handlers EXCEPT ![i] = h], h.cmd = handlers[i].cmd,
           h.key = handlers[i].key \/ handlers[i].key = "", UNCHANGED table, Relies(h)
    PROVE  TInv'
<1>1. Relies(h)'
  BY DEF Relies, Named, table
<1>2. NoDanglingAlias'
  BY DEF TInv, NoDanglingAlias, table
<1> QED
  BY <1>1, <1>2, StepTInv

LEMMA ReaderTInv ==
    ASSUME TInv, IInv', NEW i,
           \/ AddToTracker(i) \/ RemoveFromTracker(i)
           \/ Read(i) \/ ListThreads(i) \/ ListTime(i) \/ ListDone(i) \/ \E id \in Idents : ListEntry(i, id)
    PROVE  TInv'
<1>1. /\ TypeOK /\ i \in DOMAIN handlers /\ Alive(i) /\ UNCHANGED table
      /\ handlers[i].cmd \in Changing => AddToTracker(i) \/ RemoveFromTracker(i)
  BY DEF TInv, IInv, AddToTracker, RemoveFromTracker, Read, ListThreads, ListTime, ListDone, ListEntry,
         At, Alive, Changing
<1>2. /\ handlers[i] \in Handler /\ track \subseteq Idents
  BY <1>1, Records DEF TypeOK
<1>3. PICK h \in Handler : /\ handlers' = [handlers EXCEPT ![i] = h]
                           /\ h.cmd = handlers[i].cmd /\ h.key = handlers[i].key
                           /\ AddToTracker(i) \/ RemoveFromTracker(i) => h.pc \in {"work", "done", "dead"}
  <2>1. CASE \E pc \in {"work", "done", "dead", "list"} : Goto(i, pc) /\ (pc = "list" => ~ (AddToTracker(i) \/ RemoveFromTracker(i)))
    <3>1. PICK pc \in {"work", "done", "dead", "list"} : Goto(i, pc) /\ (pc = "list" => ~ (AddToTracker(i) \/ RemoveFromTracker(i)))
      BY <2>1
    <3> QED
      BY <1>1, <3>1, Goes DEF Pc, Same
  <2>2. CASE /\ \E status \in {"SUCCESS", "FAILED"} : Answer(i, status)
             /\ ~ (AddToTracker(i) \/ RemoveFromTracker(i))
    BY <1>1, <2>2, Answers DEF Same
  <2>3. CASE ListThreads(i) \/ \E id \in Idents : ListEntry(i, id) /\ ~ Goto(i, "dead")
    <3>1. ~ (AddToTracker(i) \/ RemoveFromTracker(i))
      BY <2>3 DEF ListThreads, ListEntry, AddToTracker, RemoveFromTracker, At
    <3>2. CASE ListThreads(i)
      <4> DEFINE h == [handlers[i] EXCEPT !.pc = "list", !.todo = track]
      <4>1. handlers' = [handlers EXCEPT ![i] = h]
        BY <3>2 DEF ListThreads
      <4>2. h \in Handler /\ h.cmd = handlers[i].cmd /\ h.key = handlers[i].key
        BY <1>2 DEF Handler, Pc
      <4> HIDE DEF h
      <4> QED
        BY <3>1, <4>1, <4>2
    <3>3. ASSUME NEW id \in Idents, ListEntry(i, id), ~ Goto(i, "dead")
          PROVE  \E h \in Handler : /\ handlers' = [handlers EXCEPT ![i] = h]
                                    /\ h.cmd = handlers[i].cmd /\ h.key = handlers[i].key
      <4> DEFINE h == [handlers[i] EXCEPT !.pc = "list_time", !.todo = @ \ {id}, !.entry = id]
      <4>1. handlers' = [handlers EXCEPT ![i] = h]
        BY <3>3 DEF ListEntry
      <4>2. h \in Handler /\ h.cmd = handlers[i].cmd /\ h.key = handlers[i].key
        BY <1>2 DEF Handler, Pc
      <4> HIDE DEF h
      <4> QED
        BY <4>1, <4>2
    <3> QED
      BY <2>3, <3>1, <3>2, <3>3
  <2>4. Read(i) \/ ListTime(i) \/ ListDone(i) => ~ (AddToTracker(i) \/ RemoveFromTracker(i))
    BY DEF Read, ListTime, ListDone, AddToTracker, RemoveFromTracker, At
  <2> QED
    BY <2>1, <2>2, <2>3, <2>4 DEF AddToTracker, RemoveFromTracker, Read, ListTime, ListDone
<1>4. Relies(h)
  BY <1>1, <1>3 DEF Relies, Changing
<1> QED
  BY <1>1, <1>3, <1>4, QuietTInv

\* A row of key k is put or deleted.
LEMMA PutOnly ==
    ASSUME TablesOK, NEW k \in Keys
    PROVE  /\ \A r : key_rows' = With(key_rows, k, r) /\ alias_rows' = alias_rows => OnlyRowsOf(k)
           /\ \A a : alias_rows' = With(alias_rows, a, k) /\ key_rows' = key_rows => OnlyRowsOf(k)
BY DEF OnlyRowsOf, With

LEMMA DeleteOnly ==
    ASSUME NEW k,
           \/ key_rows' = Without(key_rows, k) /\ alias_rows' = alias_rows
           \/ \E a : alias_rows' = Without(alias_rows, a) /\ key_rows' = key_rows
    PROVE  OnlyRowsOf(k)
BY DEF OnlyRowsOf, Without

\* APIKEY_ADD.
LEMMA AddTInv ==
    ASSUME TInv, IInv', NEW i,
           AddReadKey(i) \/ AddReadAlias(i) \/ AddPutKey(i) \/ AddPutAlias(i) \/ AddTakeBack(i)
    PROVE  TInv'
<1> DEFINE k == handlers[i].key
           a == handlers[i].alias
<1>0. TypeOK /\ TablesOK /\ NoDanglingAlias
  BY DEF TInv, IInv, TypeOK, TablesOK
<1>1. Working(i) /\ handlers[i].cmd = "APIKEY_ADD"
  BY DEF AddReadKey, AddReadAlias, AddPutKey, AddPutAlias, AddTakeBack, At, Working
<1>2. /\ i \in DOMAIN handlers /\ Changes(i) /\ Relies(handlers[i]) /\ k \in Keys
      /\ handlers[i] \in Handler
  BY <1>0, <1>1, Records DEF Working, Changes, Changing, TInv, IInv, Answered
<1>3. UNCHANGED table => NoDanglingAlias'
  BY <1>0 DEF NoDanglingAlias, table
<1>4. ASSUME NEW status \in {"SUCCESS", "FAILED"}, Answer(i, status), UNCHANGED table PROVE TInv'
  BY <1>1, <1>3, <1>4, AnswerTInv
<1>5. CASE AddReadKey(i) /\ ~ \E status \in {"SUCCESS", "FAILED"} : Answer(i, status)
  <2>1. KeyRow(k) = {} /\ Goto(i, "read_alias") /\ UNCHANGED table
    BY <1>5 DEF AddReadKey
  <2>2. k \notin DOMAIN key_rows
    BY <2>1 DEF KeyRow
  <2>3. \A h \in Handler : h.pc = "read_alias" /\ Same(h, handlers[i]) => Relies(h)'
    BY <1>1, <2>1, <2>2 DEF Relies, Same, table
  <2> QED
    BY <1>1, <1>3, <2>1, <2>3, GoTInv DEF Pc
<1>6. CASE AddReadAlias(i) /\ ~ \E status \in {"SUCCESS", "FAILED"} : Answer(i, status)
  <2>1. Goto(i, "put_key") /\ UNCHANGED table /\ handlers[i].pc = "read_alias"
    BY <1>6 DEF AddReadAlias, At
  <2>2. \A h \in Handler : h.pc = "put_key" /\ Same(h, handlers[i]) => Relies(h)'
    BY <1>1, <1>2, <2>1 DEF Relies, Same, table
  <2> QED
    BY <1>1, <1>3, <2>1, <2>2, GoTInv DEF Pc
<1>7. CASE AddPutKey(i)
  <2>1. handlers[i].pc = "put_key" /\ k \notin DOMAIN key_rows
    BY <1>1, <1>2, <1>7 DEF AddPutKey, At, Relies
  <2>2. ~ Named(k)
    BY <1>0, <2>1 DEF NoDanglingAlias, Named
  <2>3. CASE Goto(i, "take_back") /\ UNCHANGED table
    <3>1. \A h \in Handler : h.pc = "take_back" /\ Same(h, handlers[i]) => Relies(h)'
      BY <1>1, <2>2, <2>3 DEF Relies, Named, Same, table
    <3> QED
      BY <1>1, <1>3, <2>3, <3>1, GoTInv DEF Pc
  <2>4. CASE /\ Goto(i, "put_alias") /\ UNCHANGED alias_rows
             /\ key_rows' = With(key_rows, k, [alias |-> a, revoked |-> FALSE])
    <3>1. OnlyRowsOf(k)
      BY <1>0, <1>2, <2>4, PutOnly
    <3>2. /\ k \in DOMAIN key_rows' /\ key_rows'[k].alias = a
          /\ \A b \in DOMAIN alias_rows' : alias_rows'[b] # k
      BY <2>2, <2>4 DEF With, Named
    <3>3. NoDanglingAlias'
      BY <1>0, <2>2, <2>4, <3>1 DEF NoDanglingAlias, Named, OnlyRowsOf, TablesOK
    <3>4. \A h \in Handler : h.pc = "put_alias" /\ Same(h, handlers[i]) => Relies(h)'
      BY <1>1, <3>2 DEF Relies, Named, Same
    <3> QED
      BY <1>1, <1>2, <2>4, <3>1, <3>3, <3>4, GoTInv DEF Pc
  <2> QED
    BY <1>7, <2>3, <2>4 DEF AddPutKey, table
<1>8. CASE AddPutAlias(i)
  <2>1. /\ handlers[i].pc = "put_alias" /\ ~ Named(k)
        /\ k \in DOMAIN key_rows /\ key_rows[k].alias = a
    BY <1>1, <1>2, <1>8 DEF AddPutAlias, At, Relies
  <2>2. CASE Goto(i, "take_back") /\ UNCHANGED table
    <3>1. \A h \in Handler : h.pc = "take_back" /\ Same(h, handlers[i]) => Relies(h)'
      BY <1>1, <2>1, <2>2 DEF Relies, Named, Same, table
    <3> QED
      BY <1>1, <1>3, <2>2, <3>1, GoTInv DEF Pc
  <2>3. CASE Answer(i, "SUCCESS") /\ alias_rows' = With(alias_rows, a, k) /\ UNCHANGED key_rows
    <3>1. OnlyRowsOf(k)
      BY <1>0, <1>2, <2>3, PutOnly
    <3>2. NoDanglingAlias'
      BY <1>0, <2>1, <2>3 DEF NoDanglingAlias, With
    <3> QED
      BY <1>1, <1>2, <2>3, <3>1, <3>2, AnswerTInv
  <2> QED
    BY <1>4, <1>8, <2>2, <2>3 DEF AddPutAlias, table
<1>9. CASE AddTakeBack(i)
  <2>1. ~ Named(k) /\ Answer(i, "FAILED")
    BY <1>1, <1>2, <1>9 DEF AddTakeBack, At, Relies
  <2>2. CASE key_rows' = Without(key_rows, k) /\ UNCHANGED alias_rows
    <3>1. OnlyRowsOf(k)
      BY <2>2, DeleteOnly
    <3>2. NoDanglingAlias'
      BY <1>0, <2>1, <2>2 DEF NoDanglingAlias, Named, Without
    <3> QED
      BY <1>1, <1>2, <2>1, <3>1, <3>2, AnswerTInv
  <2> QED
    BY <1>4, <1>9, <2>1, <2>2 DEF AddTakeBack, table
<1> QED
  BY <1>4, <1>5, <1>6, <1>7, <1>8, <1>9 DEF AddReadKey, AddReadAlias

\* APIKEY_UPDATE: the row that is put back is the one that was read.
LEMMA UpdateTInv ==
    ASSUME TInv, IInv', NEW i, UpdateRead(i) \/ UpdatePut(i)
    PROVE  TInv'
<1> DEFINE k == handlers[i].key
<1>0. TypeOK /\ TablesOK /\ NoDanglingAlias
  BY DEF TInv, IInv, TypeOK, TablesOK
<1>1. Working(i) /\ handlers[i].cmd = "APIKEY_UPDATE"
  BY DEF UpdateRead, UpdatePut, At, Working
<1>2. /\ i \in DOMAIN handlers /\ Changes(i) /\ Alive(i) /\ Relies(handlers[i]) /\ k \in Keys
      /\ handlers[i] \in Handler
  BY <1>0, <1>1, Records DEF Working, Changes, Changing, Alive, TInv, IInv, Answered
<1>3. UNCHANGED table => NoDanglingAlias'
  BY <1>0 DEF NoDanglingAlias, table
<1>4. CASE Answer(i, "FAILED") /\ UNCHANGED table
  BY <1>1, <1>3, <1>4, AnswerTInv
<1>5. CASE UpdateRead(i) /\ ~ Answer(i, "FAILED")
  <2> DEFINE row == KeyRow(k)
             h   == [handlers[i] EXCEPT !.pc = "put_key", !.seen = row]
  <2>1. handlers' = [handlers EXCEPT ![i] = h] /\ UNCHANGED table /\ row # {}
    BY <1>5 DEF UpdateRead
  <2>2. k \in DOMAIN key_rows /\ row = {key_rows[k]} /\ row \subseteq Row
    BY <1>0, <2>1 DEF KeyRow, TablesOK
  <2>3. h \in Handler /\ h.pc = "put_key" /\ h.seen = row /\ Same(h, handlers[i])
    BY <1>2, <2>2 DEF Handler, Pc, Same
  <2> HIDE DEF h, row
  <2>4. Relies(h)
    BY <1>1, <2>2, <2>3 DEF Relies, Same
  <2> QED
    BY <1>2, <2>1, <2>3, <2>4, QuietTInv DEF Same
<1>6. ASSUME NEW r \in handlers[i].seen, UpdatePut(i), UNCHANGED alias_rows,
             key_rows' = With(key_rows, k, [r EXCEPT !.revoked = TRUE])
      PROVE  TInv'
  <2>1. r = key_rows[k] /\ k \in DOMAIN key_rows /\ Answer(i, "FAILED")
    BY <1>1, <1>2, <1>6 DEF UpdatePut, At, Relies
  <2>2. OnlyRowsOf(k)
    BY <1>0, <1>2, <1>6, PutOnly
  <2>3. [r EXCEPT !.revoked = TRUE].alias = key_rows[k].alias
    BY <1>0, <2>1 DEF TablesOK, Row
  <2>4. \A l \in DOMAIN key_rows : l \in DOMAIN key_rows' /\ key_rows'[l].alias = key_rows[l].alias
    BY <1>6, <2>3 DEF With
  <2>5. NoDanglingAlias'
    BY <1>0, <1>6, <2>4 DEF NoDanglingAlias
  <2> QED
    BY <1>1, <1>2, <2>1, <2>2, <2>5, AnswerTInv
<1> QED
  BY <1>4, <1>5, <1>6 DEF UpdateRead, UpdatePut, table

\* APIKEY_DEL: the row of the alias goes first.
LEMMA DelTInv ==
    ASSUME TInv, IInv', NEW i, DelReadAlias(i) \/ DelReadKey(i) \/ DelAlias(i) \/ DelKey(i)
    PROVE  TInv'
<1> DEFINE k == handlers[i].key
<1>0. TypeOK /\ TablesOK /\ NoDanglingAlias
  BY DEF TInv, IInv, TypeOK, TablesOK
<1>1. Working(i) /\ handlers[i].cmd = "APIKEY_DEL"
  BY DEF DelReadAlias, DelReadKey, DelAlias, DelKey, At, Working
<1>2. /\ i \in DOMAIN handlers /\ Changes(i) /\ Alive(i) /\ Relies(handlers[i])
      /\ handlers[i] \in Handler
  BY <1>0, <1>1, Records DEF Working, Changes, Changing, Alive, TInv
<1>3. UNCHANGED table => NoDanglingAlias'
  BY <1>0 DEF NoDanglingAlias, table
<1>4. ASSUME NEW status \in {"SUCCESS", "FAILED"}, Answer(i, status), UNCHANGED table PROVE TInv'
  BY <1>1, <1>3, <1>4, AnswerTInv
<1>5. CASE DelReadAlias(i) /\ ~ \E status \in {"SUCCESS", "FAILED"} : Answer(i, status)
  <2> DEFINE h == [handlers[i] EXCEPT !.key = alias_rows[handlers[i].alias]]
  <2>1. /\ handlers' = [handlers EXCEPT ![i] = h] /\ UNCHANGED table /\ k = ""
        /\ handlers[i].alias \in DOMAIN alias_rows /\ handlers[i].pc = "work"
    BY <1>5 DEF DelReadAlias, At
  <2>2. alias_rows[handlers[i].alias] \in Keys
    BY <1>0, <2>1 DEF TablesOK
  <2>3. h \in Handler /\ h.pc = "work" /\ h.cmd = handlers[i].cmd
    BY <1>2, <2>1, <2>2 DEF Handler
  <2> HIDE DEF h
  <2>4. Relies(h)
    BY <2>3 DEF Relies
  <2> QED
    BY <1>2, <2>1, <2>3, <2>4, QuietTInv
<1>6. CASE DelReadKey(i) /\ ~ \E status \in {"SUCCESS", "FAILED"} : Answer(i, status)
  <2> DEFINE row == KeyRow(k)
             pc  == IF \E r \in row : r.alias # NoAlias THEN "del_alias" ELSE "del_key"
             h   == [handlers[i] EXCEPT !.seen = row, !.pc = pc]
  <2>1. handlers' = [handlers EXCEPT ![i] = h] /\ UNCHANGED table /\ row # {}
    BY <1>6 DEF DelReadKey
  <2>2. k \in DOMAIN key_rows /\ row = {key_rows[k]} /\ row \subseteq Row
    BY <1>0, <2>1 DEF KeyRow, TablesOK
  <2>3. pc = "del_alias" \/ (pc = "del_key" /\ key_rows[k].alias = NoAlias)
    BY <2>2
  <2>4. key_rows[k].alias = NoAlias => ~ Named(k)
    BY <1>0, NamesAssumption DEF NoDanglingAlias, Named, TablesOK, NoAlias
  <2>5. pc \in {"del_alias", "del_key"}
    OBVIOUS
  <2> HIDE DEF pc
  <2>6. h \in Handler /\ h.pc = pc /\ h.seen = row /\ Same(h, handlers[i])
    BY <1>2, <2>2, <2>5 DEF Handler, Pc, Same
  <2> HIDE DEF h, row
  <2>7. Relies(h)
    BY <1>1, <2>2, <2>3, <2>4, <2>5, <2>6 DEF Relies, Same
  <2> QED
    BY <1>2, <2>1, <2>6, <2>7, QuietTInv DEF Same
<1>7. ASSUME NEW r \in handlers[i].seen, DelAlias(i), alias_rows' = Without(alias_rows, r.alias),
             Goto(i, "del_key"), UNCHANGED key_rows
      PROVE  TInv'
  <2>1. r = key_rows[k] /\ k \in DOMAIN key_rows
    BY <1>1, <1>2, <1>7 DEF DelAlias, At, Relies
  <2>2. \A b \in DOMAIN alias_rows' : alias_rows'[b] = alias_rows[b] /\ b \in DOMAIN alias_rows /\ alias_rows[b] # k
    BY <1>0, <1>7, <2>1 DEF Without, NoDanglingAlias
  <2>3. \A h \in Handler : h.pc = "del_key" /\ Same(h, handlers[i]) => Relies(h)'
    BY <1>1, <2>2 DEF Relies, Named, Same
  <2>4. OnlyRowsOf(k)
    BY <1>7, DeleteOnly
  <2>5. NoDanglingAlias'
    BY <1>0, <1>7, <2>2 DEF NoDanglingAlias
  <2> QED
    BY <1>1, <1>2, <1>7, <2>3, <2>4, <2>5, GoTInv DEF Pc
<1>8. CASE DelKey(i) /\ Answer(i, "SUCCESS") /\ key_rows' = Without(key_rows, k) /\ UNCHANGED alias_rows
  <2>1. ~ Named(k)
    BY <1>1, <1>2, <1>8 DEF DelKey, At, Relies
  <2>2. OnlyRowsOf(k)
    BY <1>8, DeleteOnly
  <2>3. NoDanglingAlias'
    BY <1>0, <1>8, <2>1 DEF NoDanglingAlias, Named, Without
  <2> QED
    BY <1>1, <1>2, <1>8, <2>2, <2>3, AnswerTInv
<1> QED
  BY <1>4, <1>5, <1>6, <1>7, <1>8 DEF DelReadAlias, DelReadKey, DelAlias, DelKey, table

\* A new command comes only when no other changes the same key.
LEMMA StartTInv ==
    ASSUME Exclusive, TInv, IInv', NEW cmd, NEW k, NEW a, Start(cmd, k, a)
    PROVE  TInv'
<1>1. PICK id \in Idents :
        handlers' = Append(handlers, [cmd |-> cmd, key |-> k, alias |-> a, ident |-> id,
                                      pc |-> "start", seen |-> {}, todo |-> {},
                                      entry |-> Nobody, reply |-> "none"])
  BY DEF Start
<1> DEFINE h == [cmd |-> cmd, key |-> k, alias |-> a, ident |-> id, pc |-> "start", seen |-> {},
                 todo |-> {}, entry |-> Nobody, reply |-> "none"]
           n == Len(handlers) + 1
<1>2. h.cmd = cmd /\ h.key = k /\ h.pc = "start" /\ handlers' = Append(handlers, h)
  BY <1>1
<1> HIDE DEF h
<1>3. handlers \in Seq(Handler) /\ handlers' \in Seq(Handler)
  BY DEF TInv, IInv, TypeOK, Handler, Pc
<1>4. n \in DOMAIN handlers' /\ handlers'[n] = h
  BY <1>2, <1>3
<1>5. h \in Handler
  BY <1>3, <1>4
<1>6. /\ DOMAIN handlers' = DOMAIN handlers \cup {n} /\ n \notin DOMAIN handlers
      /\ \A i \in DOMAIN handlers : handlers'[i] = handlers[i]
  BY <1>2, <1>3, <1>5, Added
<1> HIDE DEF n
<1>7. UNCHANGED table
  BY DEF Start
<1>8. \A i \in DOMAIN handlers : Alive(i) /\ Changes(i) /\ cmd \in Changing => ~ SameKey(k, handlers[i].key)
  BY DEF Start, Changes
<1>9. ChangesApart'
  <2> SUFFICES ASSUME NEW i \in DOMAIN handlers', NEW j \in DOMAIN handlers', i # j,
                      Alive(i)', Alive(j)', Changes(i)', Changes(j)'
               PROVE  ~ SameKey(handlers'[i].key, handlers'[j].key)
    BY DEF ChangesApart
  <2>1. \A l \in DOMAIN handlers : (Alive(l)' => Alive(l)) /\ (Changes(l)' => Changes(l))
    BY <1>6 DEF Alive, Changes
  <2>2. CASE i \in DOMAIN handlers /\ j \in DOMAIN handlers
    BY <1>6, <2>1, <2>2 DEF TInv, ChangesApart
  <2>3. CASE i = n /\ j \in DOMAIN handlers
    BY <1>2, <1>4, <1>6, <1>8, <2>1, <2>3 DEF Changes
  <2>4. CASE j = n /\ i \in DOMAIN handlers
    BY <1>2, <1>4, <1>6, <1>8, <2>1, <2>4 DEF Changes, SameKey
  <2> QED
    BY <1>6, <2>2, <2>3, <2>4
<1>10. ASSUME NEW j \in DOMAIN handlers' PROVE Relies(handlers[j])'
  BY <1>2, <1>4, <1>6, <1>7 DEF TInv, Relies, Named, table
<1>11. NoDanglingAlias'
  BY <1>7 DEF TInv, NoDanglingAlias, table
<1> QED
  BY <1>9, <1>10, <1>11 DEF TInv

LEMMA InitTInv == Init => TInv
<1> SUFFICES ASSUME Init PROVE TInv
  OBVIOUS
<1>1. DOMAIN handlers = {} /\ IInv
  BY InitIInv DEF Init
<1>2. NoDanglingAlias
  <2> SUFFICES ASSUME NEW a \in DOMAIN alias_rows
               PROVE  alias_rows[a] \in DOMAIN key_rows /\ key_rows[alias_rows[a]].alias = a
    BY DEF NoDanglingAlias
  <2>1. DOMAIN alias_rows = {key_rows[k].alias : k \in DOMAIN key_rows} \ {NoAlias}
    BY DEF Init
  <2>2. \E k \in DOMAIN key_rows : key_rows[k].alias = a
    BY <2>1
  <2>3. alias_rows[a] = CHOOSE k \in DOMAIN key_rows : key_rows[k].alias = a
    BY <2>1 DEF Init
  <2> QED
    BY <2>2, <2>3
<1> QED
  BY <1>1, <1>2 DEF TInv, ChangesApart

LEMMA NextTInv == Exclusive /\ TInv /\ [Next]_vars => TInv'
<1> SUFFICES ASSUME Exclusive, TInv, [Next]_vars PROVE TInv'
  OBVIOUS
<1>0. IInv'
  BY NextIInv DEF TInv
<1>1. CASE Receive
  <2>1. PICK cmd, k, a : Start(cmd, k, a)
    BY <1>1 DEF Receive
  <2> QED
    BY <1>0, <2>1, StartTInv
<1>2. ASSUME NEW i \in 1..MaxRequests, HandlerStep(i) PROVE TInv'
  BY <1>0, <1>2, ReaderTInv, AddTInv, UpdateTInv, DelTInv DEF HandlerStep, Work
<1>3. CASE UNCHANGED vars
  <2>1. UNCHANGED <<handlers, key_rows, alias_rows>>
    BY <1>3 DEF vars, table
  <2>2. ChangesApart'
    BY <2>1 DEF TInv, ChangesApart, Alive, Changes
  <2>3. \A i \in DOMAIN handlers' : Relies(handlers[i])'
    BY <2>1 DEF TInv, Relies, Named
  <2>4. NoDanglingAlias'
    BY <2>1 DEF TInv, NoDanglingAlias
  <2> QED
    BY <1>0, <2>2, <2>3, <2>4 DEF TInv
<1> QED
  BY <1>1, <1>2, <1>3 DEF Next

LEMMA TablesInvariance ==
    ASSUME Exclusive
    PROVE  Spec => []TInv
BY Exclusive, InitTInv, NextTInv, PTL DEF Spec

-----------------------------------------------------------------------------
(* The theorems about the tables.                                          *)

\* The row of an alias names a row that is there and is called so, whichever HBase calls
\* raise, for any keys and aliases, as long as changes of a key do not overlap.
THEOREM TablesAgree ==
    ASSUME Exclusive
    PROVE  Spec => []NoDanglingAlias
<1>1. TInv => NoDanglingAlias
  BY DEF TInv
<1> QED
  BY <1>1, TablesInvariance, PTL

\* A step of one handler leaves the others alone.
LEMMA OthersStay ==
    ASSUME NEW j, HandlerStep(j), NEW i \in DOMAIN handlers, i # j
    PROVE  handlers'[i] = handlers[i]
<1>1. \A pc : Goto(j, pc) => handlers'[i] = handlers[i]
  BY DEF Goto
<1>2. \A status : Answer(j, status) => handlers'[i] = handlers[i]
  BY DEF Answer
<1>3. CASE AddToTracker(j) \/ RemoveFromTracker(j)
  BY <1>1, <1>3 DEF AddToTracker, RemoveFromTracker
<1>4. CASE Read(j) \/ ListTime(j) \/ ListDone(j)
  BY <1>1, <1>2, <1>4 DEF Read, ListTime, ListDone
<1>5. CASE ListThreads(j) \/ \E id \in Idents : ListEntry(j, id)
  BY <1>1, <1>5 DEF ListThreads, ListEntry
<1>6. CASE AddReadKey(j) \/ AddReadAlias(j) \/ AddPutKey(j) \/ AddPutAlias(j) \/ AddTakeBack(j)
  BY <1>1, <1>2, <1>6 DEF AddReadKey, AddReadAlias, AddPutKey, AddPutAlias, AddTakeBack
<1>7. CASE UpdateRead(j) \/ UpdatePut(j)
  BY <1>1, <1>2, <1>7 DEF UpdateRead, UpdatePut
<1>8. CASE DelReadAlias(j) \/ DelReadKey(j) \/ DelAlias(j) \/ DelKey(j)
  BY <1>1, <1>2, <1>8 DEF DelReadAlias, DelReadKey, DelAlias, DelKey
<1> QED
  BY <1>3, <1>4, <1>5, <1>6, <1>7, <1>8 DEF HandlerStep, Work

\* What an ADD leaves behind when it is answered.
Whole(i) ==
    LET h == handlers[i]  status == handlers'[i].reply
    IN h.cmd = "APIKEY_ADD" /\ h.reply = "none" /\ h.pc # "work" =>
         /\ status = "SUCCESS" =>
               /\ h.key \in DOMAIN key_rows' /\ key_rows'[h.key].alias = h.alias
               /\ h.alias # NoAlias =>
                     h.alias \in DOMAIN alias_rows' /\ alias_rows'[h.alias] = h.key
         /\ status = "FAILED" => \/ h.key \notin DOMAIN key_rows'
                                 \/ h.pc = "take_back" /\ failures' > failures

LEMMA FailuresCounted == TypeOK => failures \in Int
<1>1. TypeOK => failures \in 0..MaxFailures
  BY DEF TypeOK
<1> QED
  BY <1>1, BoundsAssumption

\* An ADD is answered by four of its steps: after the first look only by the other three.
LEMMA AnswerIsWhole ==
    ASSUME TInv, NEW i \in DOMAIN handlers, HandlerStep(i)
    PROVE  Whole(i)
<1> DEFINE k == handlers[i].key
           a == handlers[i].alias
<1> SUFFICES ASSUME handlers[i].cmd = "APIKEY_ADD", handlers[i].reply = "none",
                    handlers[i].pc # "work"
             PROVE  Whole(i)
  BY DEF Whole
<1>0. /\ TypeOK /\ handlers[i] \in Handler /\ Relies(handlers[i]) /\ Answered(handlers[i])
      /\ failures \in Int
  <2>1. TypeOK /\ Relies(handlers[i]) /\ Answered(handlers[i])
    BY DEF TInv, IInv
  <2>2. failures \in Int
    BY <2>1, FailuresCounted
  <2> QED
    BY <2>1, <2>2, Records
<1>1. \A pc \in Pc : Goto(i, pc) => handlers'[i].reply = "none"
  <2> SUFFICES ASSUME NEW pc \in Pc, Goto(i, pc) PROVE handlers'[i].reply = "none"
    OBVIOUS
  <2>1. PICK h \in Handler : handlers' = [handlers EXCEPT ![i] = h] /\ h.reply = handlers[i].reply
    BY <1>0, Goes
  <2> QED
    BY <1>0, <2>1, Moved
<1>2. \A status \in {"SUCCESS", "FAILED"} : Answer(i, status) => handlers'[i].reply = status
  <2> SUFFICES ASSUME NEW status \in {"SUCCESS", "FAILED"}, Answer(i, status)
               PROVE  handlers'[i].reply = status
    OBVIOUS
  <2>1. PICK h \in Handler : handlers' = [handlers EXCEPT ![i] = h] /\ h.reply = status
    BY <1>0, Answers
  <2> QED
    BY <1>0, <2>1, Moved
<1>3. CASE \E pc \in Pc : Goto(i, pc)
  BY <1>1, <1>3 DEF Whole
<1>4. CASE AddReadAlias(i) /\ Answer(i, "FAILED")
  <2>1. k \notin DOMAIN key_rows' /\ handlers[i].pc = "read_alias"
    BY <1>0, <1>4 DEF AddReadAlias, At, Relies, table
  <2> QED
    BY <1>2, <1>4, <2>1 DEF Whole
<1>5. CASE AddPutAlias(i) /\ Answer(i, "SUCCESS")
  <2>1. k \in DOMAIN key_rows' /\ key_rows'[k].alias = a
    BY <1>0, <1>5 DEF AddPutAlias, At, Relies
  <2>2. a # NoAlias => a \in DOMAIN alias_rows' /\ alias_rows'[a] = k
    <3>1. CASE Goto(i, "take_back")
      BY <1>1, <1>2, <1>5, <3>1 DEF Pc
    <3>2. CASE a # NoAlias /\ alias_rows' = With(alias_rows, a, k)
      BY <3>2 DEF With
    <3> QED
      BY <1>5, <3>1, <3>2 DEF AddPutAlias
  <2> QED
    BY <1>2, <1>5, <2>1, <2>2 DEF Whole
<1>6. CASE AddTakeBack(i)
  <2>1. Answer(i, "FAILED") /\ handlers[i].pc = "take_back"
    BY <1>6 DEF AddTakeBack, At
  <2>2. k \notin DOMAIN key_rows' \/ failures' > failures
    BY <1>0, <1>6 DEF AddTakeBack, Without, Raises
  <2> QED
    BY <1>2, <2>1, <2>2 DEF Whole
<1>7. ~ RemoveFromTracker(i)
  BY <1>0 DEF RemoveFromTracker, Answered
<1>8. CASE AddToTracker(i) \/ Work(i)
  <2>1. ~ (Read(i) \/ ListThreads(i) \/ ListTime(i) \/ ListDone(i) \/ \E id \in Idents : ListEntry(i, id))
    BY DEF Read, ListThreads, ListTime, ListDone, ListEntry, At
  <2>2. ~ (UpdateRead(i) \/ UpdatePut(i) \/ DelReadAlias(i) \/ DelReadKey(i) \/ DelAlias(i) \/ DelKey(i))
    BY DEF UpdateRead, UpdatePut, DelReadAlias, DelReadKey, DelAlias, DelKey, At
  <2>3. ~ AddReadKey(i)
    BY DEF AddReadKey, At
  <2>4. CASE AddToTracker(i) \/ AddPutKey(i)
    BY <1>3, <2>4 DEF AddToTracker, AddPutKey, Pc
  <2>5. CASE AddReadAlias(i)
    BY <1>3, <1>4, <2>5 DEF AddReadAlias, Pc
  <2>6. CASE AddPutAlias(i)
    BY <1>3, <1>5, <2>6 DEF AddPutAlias, Pc
  <2> QED
    BY <1>6, <1>8, <2>1, <2>2, <2>3, <2>4, <2>5, <2>6 DEF Work
<1> QED
  BY <1>7, <1>8 DEF HandlerStep

\* An ADD leaves both rows or no row, unless what takes the row back raises as well: again
\* for any keys and aliases, and changes that do not overlap.
THEOREM AddWholeOrNot ==
    ASSUME Exclusive
    PROVE  Spec => AddAllOrNothing
<1>1. ASSUME TInv, [Next]_vars PROVE [\A i \in DOMAIN handlers : Whole(i)]_vars
  <2>1. ASSUME NEW i \in DOMAIN handlers, handlers'[i] = handlers[i] PROVE Whole(i)
    BY <2>1 DEF Whole
  <2>2. CASE Receive
    <3>1. PICK h : handlers' = Append(handlers, h)
      BY <2>2 DEF Receive, Start
    <3>2. handlers \in Seq(Handler)
      BY <1>1 DEF TInv, IInv, TypeOK, Handler, Pc
    <3>3. \A i \in DOMAIN handlers : handlers'[i] = handlers[i]
      BY <3>1, <3>2
    <3> QED
      BY <2>1, <3>3
  <2>3. ASSUME NEW j \in 1..MaxRequests, HandlerStep(j) PROVE \A i \in DOMAIN handlers : Whole(i)
    <3>1. ASSUME NEW i \in DOMAIN handlers, i # j PROVE Whole(i)
      BY <2>1, <2>3, <3>1, OthersStay
    <3>2. ASSUME j \in DOMAIN handlers PROVE Whole(j)
      BY <1>1, <2>3, <3>2, AnswerIsWhole
    <3> QED
      BY <3>1, <3>2
  <2> QED
    BY <1>1, <2>2, <2>3 DEF Next
<1>2. TInv /\ [Next]_vars =>
        [\A i \in DOMAIN handlers :
           LET h == handlers[i]  status == handlers'[i].reply
           IN h.cmd = "APIKEY_ADD" /\ h.reply = "none" /\ h.pc # "work" =>
                /\ status = "SUCCESS" =>
                      /\ h.key \in DOMAIN key_rows' /\ key_rows'[h.key].alias = h.alias
                      /\ h.alias # NoAlias =>
                            h.alias \in DOMAIN alias_rows' /\ alias_rows'[h.alias] = h.key
                /\ status = "FAILED" => \/ h.key \notin DOMAIN key_rows'
                                        \/ h.pc = "take_back" /\ failures' > failures]_vars
  BY <1>1 DEF Whole
<1> QED
  BY <1>2, TablesInvariance, PTL DEF Spec, AddAllOrNothing

=============================================================================
