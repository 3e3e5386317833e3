----------------------------- MODULE MiniClient -----------------------------
(***************************************************************************)
(* The embedded client of cif-router (router/poc/CIFRouter/MiniClient.py), *)
(* at the granularity of its locks.                                        *)
(*                                                                         *)
(* Four kinds of thread meet here.  The router's event loop asks for API   *)
(* keys with lookup_apikey and polls for results; the run thread serves    *)
(* the work queue; Foundation's event loop starts one callback thread for  *)
(* each answer of cif-db; and cif-db itself answers each request in a      *)
(* thread of its own.  They share a work queue under _lock, a condition    *)
(* variable that says work has arrived, and two tables, the pending        *)
(* replies and the key cache, each under a lock of its own.                *)
(***************************************************************************)
EXTENDS Integers, Sequences, FiniteSets

CONSTANTS
    Keys,          \* the API keys clients present to the router
    KnownKeys,     \* those of them cif-db has a record of
    MaxLookups     \* bound: how many lookups the router asks for

ASSUME KeysAssumption == KnownKeys \subseteq Keys /\ Keys # {}
ASSUME BoundAssumption == MaxLookups \in Nat

VARIABLES
    rpc,           \* where the router's event loop is
    asked,         \* how many lookups it has started (bounded by MaxLookups)
    asking,        \* the key of the lookup_apikey call in progress
    awaited,       \* the keys in the router's wait maps
    snapshot,      \* the keys handle_miniclient_reply still has to visit
    mpc,           \* where the run thread is
    current,       \* the key of the work item it is serving
    work_queue,    \* the deque of keys, served from its right end
    lock,          \* owner of _lock
    condition,     \* owner of the condition's own lock
    pending_lock,  \* owner of pending_apikey_replies_lock
    cache_lock,    \* owner of apikey_cache_lock
    pending,       \* pending_apikey_replies: key -> record
    cache,         \* apikey_cache: key -> record
    registry,      \* keys whose request has an entry in callback_registry
    fetches,       \* the APIKEY_GET exchanges begun so far, in order
    db             \* cif-db's record of each key

routerVars == <<rpc, asked, asking, awaited, snapshot>>
runVars    == <<mpc, current>>
lockVars   == <<lock, condition, pending_lock, cache_lock>>
tables     == <<pending, cache>>
netVars    == <<registry, fetches>>
vars == <<routerVars, runVars, work_queue, lockVars, tables, netVars, db>>

-----------------------------------------------------------------------------
(* Records, threads and stages.                                            *)

NoRecord == "none"
Record   == {"valid", "revoked"}

Nobody       == 0        \* owner of a free lock
RouterThread == -1
RunThread    == -2
Callback     == 1..MaxLookups   \* callback thread i carries answer i
Owner        == {Nobody, RouterThread, RunThread} \cup Callback

\* The life of one APIKEY_GET: to the router, to cif-db, its answer back at the
\* router, at the mini client, then in a callback thread.
Stage == {"to_router", "to_db", "answered", "to_miniclient",
          "cb_start", "cb_pending_locked", "done"}

AnyKey == CHOOSE k \in Keys : TRUE   \* a local variable not assigned yet

Without(table, k) == [x \in DOMAIN table \ {k} |-> table[x]]
With(table, k, r) == [x \in DOMAIN table \cup {k} |-> IF x = k THEN r ELSE table[x]]

Init ==
    /\ rpc = "poll" /\ asked = 0 /\ awaited = {} /\ snapshot = {}
    /\ mpc = "starting" /\ work_queue = <<>>
    /\ asking = AnyKey /\ current = AnyKey
    /\ lock = Nobody /\ condition = Nobody
    /\ pending_lock = Nobody /\ cache_lock = Nobody
    /\ pending = [k \in {} |-> NoRecord] /\ cache = [k \in {} |-> NoRecord]
    /\ registry = {} /\ fetches = <<>>
    /\ db = [k \in Keys |-> IF k \in KnownKeys THEN "valid" ELSE NoRecord]

-----------------------------------------------------------------------------
(* The router's event loop.                                                *)

\* Top of the loop: pending(), then pending_apikey_lookups() if there is any.
Poll ==
    /\ rpc = "poll" /\ pending_lock = Nobody
    /\ snapshot' = DOMAIN pending
    /\ rpc' = IF DOMAIN pending = {} THEN "recv" ELSE "handle"
    /\ UNCHANGED <<asked, asking, awaited, runVars, work_queue, lockVars, tables, netVars, db>>

\* One key of handle_miniclient_reply: get_pending_apikey, answer whoever waits.
HandleReply(k) ==
    /\ rpc = "handle" /\ k \in snapshot
    /\ IF k \in awaited
       THEN /\ pending_lock = Nobody
            /\ pending' = Without(pending, k)
            /\ awaited' = awaited \ {k}
       ELSE UNCHANGED <<pending, awaited>>
    /\ snapshot' = snapshot \ {k}
    /\ asking' = k
    /\ rpc' = "remove"
    /\ UNCHANGED <<asked, runVars, work_queue, lockVars, cache, netVars, db>>

\* remove_pending_apikey for the same key, a second critical section.
RemovePending ==
    /\ rpc = "remove" /\ pending_lock = Nobody
    /\ pending' = Without(pending, asking)
    /\ rpc' = IF snapshot = {} THEN "recv" ELSE "handle"
    /\ UNCHANGED <<asked, asking, awaited, snapshot, runVars, work_queue, lockVars,
                   cache, netVars, db>>

\* No message within the poll's timeout.
PollTimeout ==
    /\ rpc = "recv" /\ rpc' = "poll"
    /\ UNCHANGED <<asked, asking, awaited, snapshot, runVars, work_queue, lockVars,
                   tables, netVars, db>>

\* A client's REGISTER or UNREGISTER: lookup_apikey takes _lock, appends the work.
LookupApikey(k) ==
    /\ rpc = "recv" /\ asked < MaxLookups
    /\ asking' = k /\ asked' = asked + 1
    /\ rpc' = "lookup"
    /\ UNCHANGED <<awaited, snapshot, runVars, work_queue, lockVars, tables, netVars, db>>

\* Mutated: a key with a cached record wakes the thread but is not queued.
LookupAppendUncached ==
    /\ rpc = "lookup" /\ lock = Nobody
    /\ lock' = RouterThread
    /\ work_queue' = IF asking \in DOMAIN cache THEN work_queue ELSE Append(work_queue, asking)
    /\ rpc' = "notify"
    /\ UNCHANGED <<asked, asking, awaited, snapshot, runVars, condition, pending_lock,
                   cache_lock, tables, netVars, db>>

LookupAppend ==
    /\ rpc = "lookup" /\ lock = Nobody
    /\ lock' = RouterThread
    /\ work_queue' = Append(work_queue, asking)
    /\ rpc' = "notify"
    /\ UNCHANGED <<asked, asking, awaited, snapshot, runVars, condition, pending_lock,
                   cache_lock, tables, netVars, db>>

\* Still holding _lock it takes the condition, notifies and releases both; only a
\* thread already inside wait() hears a notify.  The wait map is written next.
LookupNotify ==
    /\ rpc = "notify" /\ condition = Nobody
    /\ mpc' = IF mpc = "waiting" THEN "notified" ELSE mpc
    /\ rpc' = "release"
    /\ UNCHANGED <<asked, asking, awaited, snapshot, current, work_queue, lockVars,
                   tables, netVars, db>>

LookupRelease ==
    /\ rpc = "release"
    /\ lock' = Nobody
    /\ awaited' = awaited \cup {asking}
    /\ rpc' = "poll"
    /\ UNCHANGED <<asked, asking, snapshot, runVars, work_queue, condition, pending_lock,
                   cache_lock, tables, netVars, db>>

\* The router also carries the mini client's own traffic with cif-db.
Forward(i) ==
    /\ rpc = "recv" /\ i \in DOMAIN fetches
    /\ \/ /\ fetches[i].stage = "to_router"
          /\ fetches' = [fetches EXCEPT ![i].stage = "to_db"]
       \/ /\ fetches[i].stage = "answered"
          /\ fetches' = [fetches EXCEPT ![i].stage = "to_miniclient"]
    /\ rpc' = "poll"
    /\ UNCHANGED <<asked, asking, awaited, snapshot, runVars, work_queue, lockVars,
                   tables, registry, db>>

-----------------------------------------------------------------------------
(* The run thread.                                                         *)

\* register() has returned: take the condition and enter wait(), which frees it.
Started ==
    /\ mpc = "starting" /\ condition = Nobody
    /\ mpc' = "waiting"
    /\ UNCHANGED <<routerVars, current, work_queue, lockVars, tables, netVars, db>>

\* wait() returns once the condition is free again.
WaitReturns ==
    /\ mpc = "notified" /\ condition = Nobody
    /\ condition' = RunThread
    /\ mpc' = "got_work"
    /\ UNCHANGED <<routerVars, current, work_queue, lock, pending_lock, cache_lock,
                   tables, netVars, db>>

\* Mutated: the newest item is read but stays in the deque.
PeekWork ==
    /\ mpc = "got_work" /\ lock = Nobody /\ work_queue # <<>>
    /\ current' = work_queue[Len(work_queue)]
    /\ mpc' = "lookup"
    /\ UNCHANGED <<routerVars, work_queue, lockVars, tables, netVars, db>>

\* The newest item is popped; an empty deque raises IndexError, which leaves the
\* loop with _lock still held.
PopWork ==
    /\ mpc = "got_work" /\ lock = Nobody
    /\ IF work_queue = <<>>
       THEN /\ mpc' = "dead" /\ lock' = RunThread /\ condition' = Nobody
            /\ UNCHANGED <<current, work_queue>>
       ELSE /\ current' = work_queue[Len(work_queue)]
            /\ work_queue' = SubSeq(work_queue, 1, Len(work_queue) - 1)
            /\ mpc' = "lookup"
            /\ UNCHANGED <<lock, condition>>
    /\ UNCHANGED <<routerVars, pending_lock, cache_lock, tables, netVars, db>>

\* do_lookup_apikey: hold the cache lock, see whether the key is cached.
LockCache ==
    /\ mpc = "lookup" /\ cache_lock = Nobody
    /\ cache_lock' = RunThread
    /\ mpc' = IF current \in DOMAIN cache THEN "hit" ELSE "miss"
    /\ UNCHANGED <<routerVars, current, work_queue, lock, condition, pending_lock,
                   tables, netVars, db>>

\* Back to wait(), which frees the condition, with the cache lock released.
BackToWait ==
    /\ mpc' = "waiting" /\ condition' = Nobody /\ cache_lock' = Nobody

\* Mutated: a hit is not handed to the router.
CacheHitKept ==
    /\ mpc = "hit" /\ pending_lock = Nobody
    /\ BackToWait
    /\ UNCHANGED <<routerVars, current, work_queue, lock, pending_lock, tables, netVars, db>>

CacheHit ==
    /\ mpc = "hit" /\ pending_lock = Nobody
    /\ pending' = With(pending, current, cache[current])
    /\ BackToWait
    /\ UNCHANGED <<routerVars, current, work_queue, lock, pending_lock, cache, netVars, db>>

\* fetch_apikey: equal requests have equal sequence ids, so one registry entry.
CacheMiss ==
    /\ mpc = "miss"
    /\ registry' = registry \cup {current}
    /\ fetches' = Append(fetches, [key |-> current, stage |-> "to_router", rec |-> NoRecord])
    /\ BackToWait
    /\ UNCHANGED <<routerVars, current, work_queue, lock, pending_lock, tables, db>>

-----------------------------------------------------------------------------
(* Foundation's event loop and the callback threads.                       *)

Deliver(i) ==
    /\ i \in DOMAIN fetches /\ fetches[i].stage = "to_miniclient"
    /\ fetches' = [fetches EXCEPT ![i].stage =
                     IF fetches[i].key \in registry THEN "cb_start" ELSE "done"]
    /\ registry' = registry \ {fetches[i].key}
    /\ UNCHANGED <<routerVars, runVars, work_queue, lockVars, tables, db>>

\* Mutated: the status of the answer is not looked at.
CallbackLockPendingAnyStatus(i) ==
    /\ i \in DOMAIN fetches /\ fetches[i].stage = "cb_start"
    /\ pending_lock = Nobody
    /\ pending_lock' = i
    /\ fetches' = [fetches EXCEPT ![i].stage = "cb_pending_locked"]
    /\ UNCHANGED <<routerVars, runVars, work_queue, lock, condition, cache_lock, tables,
                   registry, db>>

\* fetch_apikey_finished ignores a FAILED answer, and otherwise takes the pending
\* lock first and the cache lock second.
CallbackLockPending(i) ==
    /\ i \in DOMAIN fetches /\ fetches[i].stage = "cb_start"
    /\ IF fetches[i].rec = NoRecord
       THEN /\ fetches' = [fetches EXCEPT ![i].stage = "done"]
            /\ UNCHANGED pending_lock
       ELSE /\ pending_lock = Nobody
            /\ pending_lock' = i
            /\ fetches' = [fetches EXCEPT ![i].stage = "cb_pending_locked"]
    /\ UNCHANGED <<routerVars, runVars, work_queue, lock, condition, cache_lock, tables,
                   registry, db>>

\* Mutated: a record already cached is kept.
CallbackStoreFirst(i) ==
    /\ i \in DOMAIN fetches /\ fetches[i].stage = "cb_pending_locked"
    /\ cache_lock = Nobody
    /\ pending' = With(pending, fetches[i].key, fetches[i].rec)
    /\ cache' = IF fetches[i].key \in DOMAIN cache THEN cache
                ELSE With(cache, fetches[i].key, fetches[i].rec)
    /\ pending_lock' = Nobody
    /\ fetches' = [fetches EXCEPT ![i].stage = "done"]
    /\ UNCHANGED <<routerVars, runVars, work_queue, lock, condition, cache_lock, registry, db>>

\* Mutated: the pending lock is not released.
CallbackStoreHolding(i) ==
    /\ i \in DOMAIN fetches /\ fetches[i].stage = "cb_pending_locked"
    /\ cache_lock = Nobody
    /\ pending' = With(pending, fetches[i].key, fetches[i].rec)
    /\ cache' = With(cache, fetches[i].key, fetches[i].rec)
    /\ fetches' = [fetches EXCEPT ![i].stage = "done"]
    /\ UNCHANGED <<routerVars, runVars, work_queue, lockVars, registry, db>>

CallbackStore(i) ==
    /\ i \in DOMAIN fetches /\ fetches[i].stage = "cb_pending_locked"
    /\ cache_lock = Nobody
    /\ pending' = With(pending, fetches[i].key, fetches[i].rec)
    /\ cache' = With(cache, fetches[i].key, fetches[i].rec)
    /\ pending_lock' = Nobody
    /\ fetches' = [fetches EXCEPT ![i].stage = "done"]
    /\ UNCHANGED <<routerVars, runVars, work_queue, lock, condition, cache_lock, registry, db>>

-----------------------------------------------------------------------------
(* cif-db: each request is answered in a thread of its own; keys get revoked. *)

DbAnswer(i) ==
    /\ i \in DOMAIN fetches /\ fetches[i].stage = "to_db"
    /\ fetches' = [fetches EXCEPT ![i].stage = "answered", ![i].rec = db[fetches[i].key]]
    /\ UNCHANGED <<routerVars, runVars, work_queue, lockVars, tables, registry, db>>

Revoke(k) ==
    /\ db[k] = "valid"
    /\ db' = [db EXCEPT ![k] = "revoked"]
    /\ UNCHANGED <<routerVars, runVars, work_queue, lockVars, tables, netVars>>

-----------------------------------------------------------------------------

RouterStep == Poll \/ RemovePending \/ PollTimeout \/ LookupAppend \/ LookupNotify
              \/ LookupRelease \/ (\E k \in Keys : HandleReply(k))
RunStep    == Started \/ WaitReturns \/ PopWork \/ LockCache \/ CacheHit \/ CacheMiss
AnswerStep(i) == Deliver(i) \/ CallbackLockPending(i) \/ CallbackStore(i) \/ DbAnswer(i)

Next ==
    \/ RouterStep
    \/ RunStep
    \/ \E k \in Keys : LookupApikey(k) \/ Revoke(k)
    \/ \E i \in 1..MaxLookups : Forward(i) \/ AnswerStep(i)

\* Every thread is scheduled; the ROUTER socket fair-queues its peers, so a message
\* that stays readable is eventually the one the loop receives.  Clients ask when
\* they like and keys are revoked or not: neither is fair.
Fairness ==
    /\ WF_vars(RouterStep)
    /\ WF_vars(RunStep)
    /\ \A i \in 1..MaxLookups : SF_vars(Forward(i)) /\ SF_vars(AnswerStep(i))

Spec     == Init /\ [][Next]_vars
FairSpec == Spec /\ Fairness

-----------------------------------------------------------------------------
(* Properties.                                                             *)

TypeOK ==
    /\ rpc \in {"poll", "handle", "remove", "recv", "lookup", "notify", "release"}
    /\ asked \in 0..MaxLookups /\ asking \in Keys
    /\ awaited \subseteq Keys /\ snapshot \subseteq Keys
    /\ mpc \in {"starting", "waiting", "notified", "got_work", "lookup", "hit", "miss", "dead"}
    /\ current \in Keys
    /\ work_queue \in Seq(Keys)
    /\ {lock, condition, pending_lock, cache_lock} \subseteq Owner
    /\ DOMAIN pending \subseteq Keys /\ DOMAIN cache \subseteq Keys
    /\ \A k \in DOMAIN pending : pending[k] \in Record
    /\ \A k \in DOMAIN cache : cache[k] \in Record
    /\ registry \subseteq Keys
    /\ fetches \in Seq([key : Keys, stage : Stage, rec : Record \cup {NoRecord}])
    /\ db \in [Keys -> Record \cup {NoRecord}]

\* The run thread never finds the deque empty after a wake-up: the IndexError branch
\* of run(), which would end the thread with _lock held, is never taken.  Every
\* notify follows an append made under the same _lock, and wait() returns once per
\* notify, however lookups and wake-ups interleave.
RunThreadSurvives == mpc # "dead"

\* A pending reply is the record the cache holds for that key.  Replies arrive in
\* callback threads in any order, and a cache hit copies an older reply; the two
\* tables still never disagree on a key the router has yet to read.
PendingAgreesWithCache ==
    \A k \in DOMAIN pending : k \in DOMAIN cache /\ pending[k] = cache[k]

\* While _lock or the condition is held there is one holder that will free it, and
\* the other thread is at the acquire, not inside: the state of the two program
\* counters and the owners of all four locks agree.
LockOwners ==
    /\ lock = (IF rpc \in {"notify", "release"} THEN RouterThread ELSE Nobody)
    /\ condition = (IF mpc \in {"got_work", "lookup", "hit", "miss"} THEN RunThread ELSE Nobody)
    /\ cache_lock = (IF mpc \in {"hit", "miss"} THEN RunThread ELSE Nobody)
    /\ pending_lock \in {Nobody} \cup DOMAIN fetches
    /\ \A i \in DOMAIN fetches :
          fetches[i].stage = "cb_pending_locked" <=> pending_lock = i

\* The two ways the locks can close a circle.  lookup_apikey takes _lock, then the
\* condition; run() takes _lock while it holds the condition.  A callback takes the
\* pending lock, then the cache lock; do_lookup_apikey takes them the other way round.
QueueCycle == rpc = "notify" /\ mpc = "got_work"
TableCycle == mpc = "hit" /\ \E i \in DOMAIN fetches : fetches[i].stage = "cb_pending_locked"

\* The router's loop comes round for ever, unless one of those two circles has closed:
\* the four locks allow no other deadlock and no thread is starved.
LoopStopsOnlyInCycle == []<>(rpc = "poll") \/ <>[](QueueCycle \/ TableCycle)

\* A client that asks with a key cif-db knows is answered, however lookups, answers and
\* wake-ups interleave, with two exceptions that both last for ever: one of the circles
\* has closed, or a notify came while the run thread was not yet back in wait(), and the
\* item it was for stays in the deque.
LeftBehind(k) == mpc = "waiting" /\ \E j \in DOMAIN work_queue : work_queue[j] = k
KnownKeyAnswered ==
    \A k \in KnownKeys :
        (k \in awaited ~> k \notin awaited) \/ <>[](QueueCycle \/ TableCycle \/ LeftBehind(k))

\* The comment in the REGISTER and UNREGISTER handlers says of every request handed to
\* the mini client: "We will poll the MC to see if the lookup has finished".
WillPoll == []<>(rpc = "poll")

-----------------------------------------------------------------------------
(* The mini client implements the lookup service the router relies on.     *)

\* The requests for a key that may still yield a result.
OutstandingFor(k) ==
    Cardinality({j \in DOMAIN work_queue : work_queue[j] = k})
    + (IF mpc \in {"lookup", "hit", "miss"} /\ current = k THEN 1 ELSE 0)
    + Cardinality({i \in DOMAIN fetches : fetches[i].key = k /\ fetches[i].stage # "done"})

HeldFor(k) == IF db[k] = NoRecord THEN {} ELSE {"valid", db[k]}

Service == INSTANCE KeyLookup WITH
    Records <- Record,
    asked <- IF rpc = "lookup" THEN asked - 1 ELSE asked,
    outstanding <- [k \in Keys |-> OutstandingFor(k)],
    held <- [k \in Keys |-> HeldFor(k)]

\* At most one result per request, and only records cif-db held for that key.
ImplementsKeyLookup == Service!Spec

=============================================================================
