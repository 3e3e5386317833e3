------------------------------- MODULE CifDb -------------------------------
(***************************************************************************)
(* The command handlers of cif-db (db/src/poc-db.py).  Foundation's event  *)
(* loop starts one thread for each command; the threads share the thread   *)
(* tracker (libcif CIF/CtrlCommands/ThreadTracker.py) under its lock, and  *)
(* the apikeys table (db/src/DB/APIKeys.py) under none.                    *)
(*                                                                         *)
(* One action is one access to the tracker under its lock, or one HBase    *)
(* call.  An HBase call may raise, in which case it has not taken effect.  *)
(***************************************************************************)
EXTENDS Integers, Sequences, FiniteSets

CONSTANTS
    Keys,          \* API keys, rowkeys of the apikeys table
    Aliases,       \* their aliases, rowkeys of the same table
    Idents,        \* thread identifiers, which the system uses again
    Commands,      \* bound: the commands clients send
    MaxRequests,   \* bound: how many
    MaxFailures,   \* bound: HBase calls that raise
    Exclusive      \* TRUE: commands on one key do not overlap

ASSUME BoundsAssumption == MaxRequests \in Nat /\ MaxFailures \in Nat
ASSUME NamesAssumption == Keys \cap Aliases = {} /\ "" \notin Keys \cup Aliases
ASSUME NobodyAssumption == "nobody" \notin Idents

VARIABLES
    handlers,      \* the handler threads, in the order they were started
    track,         \* the thread tracker's table: idents with an entry
    lock,          \* owner of the tracker's RLock
    key_rows,      \* rows of keys: key -> [alias, revoked]
    alias_rows,    \* rows of aliases: alias -> key
    failures       \* HBase calls that have raised

vars    == <<handlers, track, lock, key_rows, alias_rows, failures>>
tracker == <<track, lock>>
table   == <<key_rows, alias_rows>>

Nobody  == "nobody"
NoAlias == ""
Row     == [alias : Aliases \cup {NoAlias}, revoked : BOOLEAN]

Command == {"APIKEY_ADD", "APIKEY_UPDATE", "APIKEY_DEL", "APIKEY_GET", "APIKEY_LIST",
            "PING", "CIF_QUERY_REQUEST", "THREADS_LIST"}
Changing == {"APIKEY_ADD", "APIKEY_UPDATE", "APIKEY_DEL"}
ASSUME CommandsAssumption == Commands \subseteq Command

With(f, k, v) == [x \in DOMAIN f \cup {k} |-> IF x = k THEN v ELSE f[x]]
Without(f, k) == [x \in DOMAIN f \ {k} |-> f[x]]

\* table.row(): the empty set stands for the empty dict.
KeyRow(k) == IF k \in DOMAIN key_rows THEN {key_rows[k]} ELSE {}

Alive(i) == handlers[i].pc \notin {"done", "dead"}

\* Keys with distinct aliases, or none.
InitialRows ==
    {f \in UNION {[ks -> [alias : Aliases \cup {NoAlias}, revoked : {FALSE}]] : ks \in SUBSET Keys} :
        \A k, l \in DOMAIN f : k # l /\ f[k].alias = f[l].alias => f[k].alias = NoAlias}

Init ==
    /\ handlers = <<>> /\ track = {} /\ lock = Nobody /\ failures = 0
    /\ key_rows \in InitialRows
    /\ alias_rows = [a \in {key_rows[k].alias : k \in DOMAIN key_rows} \ {NoAlias} |->
                       CHOOSE k \in DOMAIN key_rows : key_rows[k].alias = a]

-----------------------------------------------------------------------------
(* Moves of one handler.                                                   *)

Goto(i, pc) == handlers' = [handlers EXCEPT ![i].pc = pc]

\* The reply is sent (cf.sendmsg takes no lock without a callback); what the handler has
\* read is no longer used.
Answer(i, status) ==
    handlers' = [handlers EXCEPT ![i].pc = "remove", ![i].reply = status,
                                 ![i].seen = {}, ![i].todo = {}, ![i].entry = Nobody]

\* An HBase call that raises, and one that does not.
Raises == failures < MaxFailures /\ failures' = failures + 1
Works  == UNCHANGED failures

\* The lock is re-entrant and knows its owner by ident only.
CanLock(i) == lock \in {Nobody, handlers[i].ident}

At(i, cmd, pc) == i \in DOMAIN handlers /\ handlers[i].cmd = cmd /\ handlers[i].pc = pc

-----------------------------------------------------------------------------
(* Start and end of a handler.                                             *)

\* Two commands that may be on one key; a DEL by alias may be on any.
SameKey(k, l) == k = l \/ "" \in {k, l}

Start(cmd, k, a) ==
    /\ Len(handlers) < MaxRequests
    /\ Exclusive /\ cmd \in Changing =>
          \A i \in DOMAIN handlers :
              Alive(i) /\ handlers[i].cmd \in Changing => ~SameKey(k, handlers[i].key)
    /\ \E id \in Idents :
          /\ \A i \in DOMAIN handlers : Alive(i) => handlers[i].ident # id
          /\ handlers' = Append(handlers, [cmd |-> cmd, key |-> k, alias |-> a, ident |-> id,
                                           pc |-> "start", seen |-> {}, todo |-> {},
                                           entry |-> Nobody, reply |-> "none"])
    /\ UNCHANGED <<tracker, table, failures>>

\* Which command carries which parameters.
Receive ==
    \/ \E k \in Keys, a \in Aliases \cup {NoAlias}, cmd \in {"APIKEY_ADD", "APIKEY_UPDATE"} \cap Commands :
          Start(cmd, k, a)
    \/ \E k \in Keys, cmd \in {"APIKEY_DEL", "APIKEY_GET"} \cap Commands : Start(cmd, k, NoAlias)
    \/ \E a \in Aliases, cmd \in {"APIKEY_DEL"} \cap Commands : Start(cmd, "", a)
    \/ \E cmd \in (Command \ (Changing \cup {"APIKEY_GET"})) \cap Commands : Start(cmd, "", NoAlias)

AddToTracker(i) ==
    /\ i \in DOMAIN handlers /\ handlers[i].pc = "start" /\ CanLock(i)
    /\ track' = track \cup {handlers[i].ident}
    /\ Goto(i, "work")
    /\ UNCHANGED <<lock, table, failures>>

\* `del self.track[_id]` of an entry that is gone raises with the lock held.
RemoveFromTracker(i) ==
    /\ i \in DOMAIN handlers /\ handlers[i].pc = "remove" /\ CanLock(i)
    /\ IF handlers[i].ident \in track
       THEN track' = track \ {handlers[i].ident} /\ Goto(i, "done") /\ UNCHANGED lock
       ELSE lock' = handlers[i].ident /\ Goto(i, "dead") /\ UNCHANGED track
    /\ UNCHANGED <<table, failures>>

-----------------------------------------------------------------------------
(* Commands that read.  An exception outside a try ends the thread, which  *)
(* then neither answers nor leaves the tracker.                            *)

\* A query catches whatever is raised.
Read(i) ==
    /\ \E cmd \in {"PING", "APIKEY_GET", "APIKEY_LIST", "CIF_QUERY_REQUEST"} : At(i, cmd, "work")
    /\ \/ /\ Works
          /\ Answer(i, IF handlers[i].cmd = "APIKEY_GET" /\ KeyRow(handlers[i].key) = {}
                       THEN "FAILED" ELSE "SUCCESS")
       \/ /\ handlers[i].cmd # "PING" /\ Raises
          /\ IF handlers[i].cmd = "CIF_QUERY_REQUEST" THEN Answer(i, "FAILED") ELSE Goto(i, "dead")
    /\ UNCHANGED <<tracker, table>>

\* THREADS_LIST.  The keys are read without the lock ...
ListThreads(i) ==
    /\ At(i, "THREADS_LIST", "work")
    /\ handlers' = [handlers EXCEPT ![i].pc = "list", ![i].todo = track]
    /\ UNCHANGED <<tracker, table, failures>>

\* ... then of each entry user, host, command, state and info, each under the lock: the
\* entry may be gone by then, which raises with the lock held ...
ListEntry(i, id) ==
    /\ At(i, "THREADS_LIST", "list") /\ id \in handlers[i].todo /\ CanLock(i)
    /\ IF id \in track
       THEN /\ handlers' = [handlers EXCEPT ![i].pc = "list_time", ![i].todo = @ \ {id},
                                             ![i].entry = id]
            /\ UNCHANGED lock
       ELSE Goto(i, "dead") /\ lock' = handlers[i].ident
    /\ UNCHANGED <<track, table, failures>>

\* ... then its time, without the lock.
ListTime(i) ==
    /\ At(i, "THREADS_LIST", "list_time")
    /\ Goto(i, IF handlers[i].entry \in track THEN "list" ELSE "dead")
    /\ UNCHANGED <<tracker, table, failures>>

\* Mutated: the handler leaves the tracker as soon as it has answered, and then again.
ListDoneRemoved(i) ==
    /\ At(i, "THREADS_LIST", "list") /\ handlers[i].todo = {}
    /\ Answer(i, "SUCCESS")
    /\ track' = track \ {handlers[i].ident}
    /\ UNCHANGED <<lock, table, failures>>

ListDone(i) ==
    /\ At(i, "THREADS_LIST", "list") /\ handlers[i].todo = {}
    /\ Answer(i, "SUCCESS")
    /\ UNCHANGED <<tracker, table, failures>>

-----------------------------------------------------------------------------
(* APIKEY_ADD: two reads, two puts, and the first put taken back when the  *)
(* second raises.                                                          *)

AddReadKey(i) ==
    /\ At(i, "APIKEY_ADD", "work")
    /\ \/ Works /\ KeyRow(handlers[i].key) = {} /\ Goto(i, "read_alias")
       \/ Works /\ KeyRow(handlers[i].key) # {} /\ Answer(i, "FAILED")
       \/ Raises /\ Answer(i, "FAILED")
    /\ UNCHANGED <<tracker, table>>

AddReadAlias(i) ==
    /\ At(i, "APIKEY_ADD", "read_alias")
    /\ \/ Works /\ handlers[i].alias \notin DOMAIN alias_rows /\ Goto(i, "put_key")
       \/ Works /\ handlers[i].alias \in DOMAIN alias_rows /\ Answer(i, "FAILED")
       \/ Raises /\ Answer(i, "FAILED")
    /\ UNCHANGED <<tracker, table>>

\* A put that raises is followed by a delete of the row.
AddPutKey(i) ==
    /\ At(i, "APIKEY_ADD", "put_key")
    /\ \/ /\ Works /\ Goto(i, "put_alias")
          /\ key_rows' = With(key_rows, handlers[i].key,
                              [alias |-> handlers[i].alias, revoked |-> FALSE])
       \/ /\ Raises /\ Goto(i, "take_back") /\ UNCHANGED key_rows
    /\ UNCHANGED <<tracker, alias_rows>>

\* Mutated: the row of the key is not taken back.
AddPutAliasOnly(i) ==
    /\ At(i, "APIKEY_ADD", "put_alias")
    /\ IF handlers[i].alias = NoAlias
       THEN Works /\ Answer(i, "SUCCESS") /\ UNCHANGED alias_rows
       ELSE \/ /\ Works /\ Answer(i, "SUCCESS")
               /\ alias_rows' = With(alias_rows, handlers[i].alias, handlers[i].key)
            \/ Raises /\ Answer(i, "FAILED") /\ UNCHANGED alias_rows
    /\ UNCHANGED <<tracker, key_rows>>

\* Mutated: key and alias are swapped in the second put.
AddPutAliasSwapped(i) ==
    /\ At(i, "APIKEY_ADD", "put_alias")
    /\ Works /\ Answer(i, "SUCCESS")
    /\ alias_rows' = With(alias_rows, handlers[i].key, handlers[i].alias)
    /\ UNCHANGED <<tracker, key_rows>>

AddPutAlias(i) ==
    /\ At(i, "APIKEY_ADD", "put_alias")
    /\ IF handlers[i].alias = NoAlias
       THEN Works /\ Answer(i, "SUCCESS") /\ UNCHANGED alias_rows
       ELSE \/ /\ Works /\ Answer(i, "SUCCESS")
               /\ alias_rows' = With(alias_rows, handlers[i].alias, handlers[i].key)
            \/ Raises /\ Goto(i, "take_back") /\ UNCHANGED alias_rows
    /\ UNCHANGED <<tracker, key_rows>>

\* Should the delete raise too, its exception is the one reported.
AddTakeBack(i) ==
    /\ At(i, "APIKEY_ADD", "take_back") /\ Answer(i, "FAILED")
    /\ \/ Works /\ key_rows' = Without(key_rows, handlers[i].key)
       \/ Raises /\ UNCHANGED key_rows
    /\ UNCHANGED <<tracker, alias_rows>>

-----------------------------------------------------------------------------
(* APIKEY_UPDATE (here: revoke).  The row is read, merged and put back     *)
(* whole; update_key then raises whatever happened.  A new alias meets an  *)
(* unbound name and raises before anything is written.                     *)

UpdateRead(i) ==
    /\ At(i, "APIKEY_UPDATE", "work")
    /\ \/ /\ Works
          /\ LET row == KeyRow(handlers[i].key)
             IN IF \E r \in row : handlers[i].alias \in {NoAlias, r.alias}
                THEN handlers' = [handlers EXCEPT ![i].pc = "put_key", ![i].seen = row]
                ELSE Answer(i, "FAILED")
       \/ Raises /\ Answer(i, "FAILED")
    /\ UNCHANGED <<tracker, table>>

\* Mutated: the try ends before the put.
UpdatePutUncaught(i) ==
    /\ At(i, "APIKEY_UPDATE", "put_key")
    /\ \/ /\ Works /\ Answer(i, "FAILED")
          /\ \E r \in handlers[i].seen :
                key_rows' = With(key_rows, handlers[i].key, [r EXCEPT !.revoked = TRUE])
       \/ Raises /\ Goto(i, "dead") /\ UNCHANGED key_rows
    /\ UNCHANGED <<tracker, alias_rows>>

UpdatePut(i) ==
    /\ At(i, "APIKEY_UPDATE", "put_key") /\ Answer(i, "FAILED")
    /\ \/ /\ Works
          /\ \E r \in handlers[i].seen :
                key_rows' = With(key_rows, handlers[i].key, [r EXCEPT !.revoked = TRUE])
       \/ Raises /\ UNCHANGED key_rows
    /\ UNCHANGED <<tracker, alias_rows>>

-----------------------------------------------------------------------------
(* APIKEY_DEL by key or by alias; a key that is not there is no error.     *)

DelReadAlias(i) ==
    /\ At(i, "APIKEY_DEL", "work") /\ handlers[i].key = ""
    /\ \/ /\ Works
          /\ IF handlers[i].alias \in DOMAIN alias_rows
             THEN handlers' = [handlers EXCEPT ![i].key = alias_rows[handlers[i].alias]]
             ELSE Answer(i, "SUCCESS")
       \/ Raises /\ Answer(i, "FAILED")
    /\ UNCHANGED <<tracker, table>>

\* Mutated: the row of the key is deleted first.
DelReadKeyStraight(i) ==
    /\ At(i, "APIKEY_DEL", "work") /\ handlers[i].key # "" /\ Works
    /\ handlers' = [handlers EXCEPT ![i].pc = "del_key"]
    /\ UNCHANGED <<tracker, table>>

DelReadKey(i) ==
    /\ At(i, "APIKEY_DEL", "work") /\ handlers[i].key # ""
    /\ \/ /\ Works
          /\ LET row == KeyRow(handlers[i].key)
             IN IF row = {} THEN Answer(i, "SUCCESS")
                ELSE handlers' = [handlers EXCEPT
                       ![i].seen = row,
                       ![i].pc = IF \E r \in row : r.alias # NoAlias THEN "del_alias"
                                 ELSE "del_key"]
       \/ Raises /\ Answer(i, "FAILED")
    /\ UNCHANGED <<tracker, table>>

DelAlias(i) ==
    /\ At(i, "APIKEY_DEL", "del_alias")
    /\ \/ /\ Works /\ Goto(i, "del_key")
          /\ \E r \in handlers[i].seen : alias_rows' = Without(alias_rows, r.alias)
       \/ Raises /\ Answer(i, "FAILED") /\ UNCHANGED alias_rows
    /\ UNCHANGED <<tracker, key_rows>>

DelKey(i) ==
    /\ At(i, "APIKEY_DEL", "del_key")
    /\ \/ Works /\ Answer(i, "SUCCESS") /\ key_rows' = Without(key_rows, handlers[i].key)
       \/ Raises /\ Answer(i, "FAILED") /\ UNCHANGED key_rows
    /\ UNCHANGED <<tracker, alias_rows>>

-----------------------------------------------------------------------------

Work(i) ==
    \/ Read(i)
    \/ ListThreads(i) \/ ListTime(i) \/ ListDone(i) \/ \E id \in Idents : ListEntry(i, id)
    \/ AddReadKey(i) \/ AddReadAlias(i) \/ AddPutKey(i) \/ AddPutAlias(i) \/ AddTakeBack(i)
    \/ UpdateRead(i) \/ UpdatePut(i)
    \/ DelReadAlias(i) \/ DelReadKey(i) \/ DelAlias(i) \/ DelKey(i)

HandlerStep(i) == AddToTracker(i) \/ Work(i) \/ RemoveFromTracker(i)

Next == Receive \/ \E i \in 1..MaxRequests : HandlerStep(i)

\* Every thread is scheduled.  A lock passes between the waiting threads in no order,
\* but each holds it for one step and there are finitely many requests.
Fairness == \A i \in 1..MaxRequests : WF_vars(HandlerStep(i))

Spec     == Init /\ [][Next]_vars
FairSpec == Spec /\ Fairness

-----------------------------------------------------------------------------
(* Properties.                                                             *)

TypeOK ==
    /\ handlers \in Seq([cmd : Command, key : Keys \cup {""}, alias : Aliases \cup {NoAlias},
                         ident : Idents,
                         pc : {"start", "work", "list", "list_time", "read_alias", "put_key",
                               "put_alias", "take_back", "del_alias", "del_key", "remove",
                               "done", "dead"},
                         seen : SUBSET Row, todo : SUBSET Idents, entry : Idents \cup {Nobody},
                         reply : {"none", "SUCCESS", "FAILED"}])
    /\ track \subseteq Idents /\ lock \in Idents \cup {Nobody}
    /\ DOMAIN key_rows \subseteq Keys /\ \A k \in DOMAIN key_rows : key_rows[k] \in Row
    /\ DOMAIN alias_rows \subseteq Aliases /\ \A a \in DOMAIN alias_rows : alias_rows[a] \in Keys
    /\ failures \in 0..MaxFailures

\* get_by_alias never names a key that is not there or is no longer called so: the row of
\* an alias is written after the row of its key and goes before it, also when calls raise
\* between, as long as no two commands change one key at a time.
NoDanglingAlias ==
    \A a \in DOMAIN alias_rows :
        alias_rows[a] \in DOMAIN key_rows /\ key_rows[alias_rows[a]].alias = a

\* An ADD answered SUCCESS has left both rows, one answered FAILED after its first look
\* at the key has left no row of the key, unless taking the row back raised as well: one
\* call that raises does not leave half a key.
AddAllOrNothing ==
    [][\A i \in DOMAIN handlers :
         LET h == handlers[i]  status == handlers'[i].reply
         IN h.cmd = "APIKEY_ADD" /\ h.reply = "none" /\ h.pc # "work" =>
              /\ status = "SUCCESS" =>
                    /\ h.key \in DOMAIN key_rows' /\ key_rows'[h.key].alias = h.alias
                    /\ h.alias # NoAlias =>
                          h.alias \in DOMAIN alias_rows' /\ alias_rows'[h.alias] = h.key
              /\ status = "FAILED" => \/ h.key \notin DOMAIN key_rows'
                                      \/ h.pc = "take_back" /\ failures' > failures]_vars

\* The tracker's lock is free between the steps, unless a THREADS_LIST died over an entry
\* that went while it listed.  No other handler finds its entry missing, although idents
\* are used again and a handler that raised has left its entry behind.
LockLeftByLister ==
    \E i \in DOMAIN handlers : /\ At(i, "THREADS_LIST", "dead") /\ handlers[i].ident = lock
                               /\ handlers[i].reply = "none"
LockLeftByListersOnly == lock = Nobody \/ LockLeftByLister

\* Every command that changes a key is answered before its thread goes on to leave the
\* tracker, whichever HBase call raises; only a GET, a LIST or a THREADS_LIST may die
\* without an answer.
Changes(i) == handlers[i].cmd \in Changing
EndsAnswered ==
    \A i \in DOMAIN handlers :
        handlers[i].pc \in {"remove", "done"} \/ (Changes(i) /\ ~Alive(i)) => handlers[i].reply # "none"

\* What Foundation's event loop says of the threads it starts: "these threads should be
\* short lived".
Started(i) == i \in DOMAIN handlers
Ended(i)   == Started(i) /\ ~Alive(i)
ThreadsShortLived == \A i \in 1..MaxRequests : Started(i) ~> Ended(i)

=============================================================================
