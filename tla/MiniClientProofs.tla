-------------------------- MODULE MiniClientProofs --------------------------
(***************************************************************************)
(* The safety of the mini client, for any set of keys and any number of    *)
(* lookups: its types, the owners of its locks, the run thread's survival, *)
(* the agreement of its two tables, and that it implements KeyLookup.      *)
(***************************************************************************)
EXTENDS MiniClient, FiniteSetTheorems, SequenceTheorems, TLAPS

-----------------------------------------------------------------------------
(* The inductive invariant.                                                *)

\* Every wake-up that is under way has an item of its own in the deque: a notify
\* about to be given, and one given that the run thread has yet to act on.
WakeUps == (IF rpc = "notify" THEN 1 ELSE 0)
           + (IF mpc \in {"notified", "got_work"} THEN 1 ELSE 0)
WorkForEveryWakeUp == WakeUps <= Len(work_queue)

\* What CacheHit copies is there.
HitIsCached == mpc = "hit" => current \in DOMAIN cache

\* An answer that reached a callback with a lock held carries a record.
LockedAnswerHasRecord ==
    \A i \in DOMAIN fetches : fetches[i].stage = "cb_pending_locked" => fetches[i].rec \in Record

IInv == /\ TypeOK /\ LockOwners /\ RunThreadSurvives /\ WorkForEveryWakeUp
        /\ HitIsCached /\ LockedAnswerHasRecord /\ PendingAgreesWithCache

-----------------------------------------------------------------------------
(* The two operators on tables.                                            *)

LEMMA WithFacts ==
    ASSUME NEW t, NEW k, NEW r
    PROVE  /\ DOMAIN With(t, k, r) = DOMAIN t \cup {k}
           /\ With(t, k, r)[k] = r
           /\ \A x \in DOMAIN t : x # k => With(t, k, r)[x] = t[x]
BY DEF With

LEMMA WithoutFacts ==
    ASSUME NEW t, NEW k
    PROVE  /\ DOMAIN Without(t, k) = DOMAIN t \ {k}
           /\ \A x \in DOMAIN t \ {k} : Without(t, k)[x] = t[x]
BY DEF Without

\* Changing fields of one exchange keeps the others and the length.
Fetch == [key : Keys, stage : Stage, rec : Record \cup {NoRecord}]

LEMMA ExceptFetch ==
    ASSUME NEW s \in Seq(Fetch), NEW i \in DOMAIN s, NEW e \in Fetch
    PROVE  /\ [s EXCEPT ![i] = e] \in Seq(Fetch)
           /\ DOMAIN [s EXCEPT ![i] = e] = DOMAIN s
           /\ [s EXCEPT ![i] = e][i] = e
           /\ \A j \in DOMAIN s : j # i => [s EXCEPT ![i] = e][j] = s[j]
BY ExceptSeq

LEMMA AppendFetch ==
    ASSUME NEW s \in Seq(Fetch), NEW e \in Fetch
    PROVE  /\ Append(s, e) \in Seq(Fetch)
           /\ DOMAIN Append(s, e) = DOMAIN s \cup {Len(s) + 1}
           /\ Append(s, e)[Len(s) + 1] = e
           /\ \A j \in DOMAIN s : Append(s, e)[j] = s[j]
           /\ Len(s) + 1 \notin DOMAIN s
OBVIOUS

\* A prefix is as long as it says.
LEMMA SubSeqUpTo ==
    ASSUME NEW S, NEW q \in Seq(S), NEW n \in Nat, n < Len(q)
    PROVE  SubSeq(q, 1, n) \in Seq(S) /\ Len(SubSeq(q, 1, n)) = n
OBVIOUS

-----------------------------------------------------------------------------
(* The initial states, and one lemma for each group of threads.            *)

LEMMA InitIInv == Init => IInv
<1> SUFFICES ASSUME Init PROVE IInv
  OBVIOUS
<1>1. AnyKey \in Keys
  BY KeysAssumption DEF AnyKey
<1>2. TypeOK
  BY <1>1, BoundAssumption DEF Init, TypeOK, Owner, Nobody, Record, Stage
<1>3. LockOwners /\ RunThreadSurvives /\ WorkForEveryWakeUp /\ HitIsCached
  BY DEF Init, LockOwners, RunThreadSurvives, WorkForEveryWakeUp, WakeUps, HitIsCached, Nobody
<1>4. LockedAnswerHasRecord /\ PendingAgreesWithCache
  BY DEF Init, LockedAnswerHasRecord, PendingAgreesWithCache
<1> QED
  BY <1>2, <1>3, <1>4 DEF IInv

\* Steps that leave tables, exchanges and locks alone but for _lock and the queue.
LEMMA RouterStepIInv ==
    ASSUME IInv, RouterStep \/ (\E k \in Keys : LookupApikey(k)) PROVE IInv'
<1> USE DEF IInv, TypeOK, LockOwners, RunThreadSurvives, WorkForEveryWakeUp, WakeUps,
        HitIsCached, LockedAnswerHasRecord, PendingAgreesWithCache,
        lockVars, runVars, tables, netVars, Nobody, RouterThread, RunThread, Owner, Callback
<1>1. CASE Poll
  BY <1>1 DEF Poll
<1>2. ASSUME NEW k \in Keys, HandleReply(k) PROVE IInv'
  <2>1. /\ DOMAIN Without(pending, k) = DOMAIN pending \ {k}
        /\ \A x \in DOMAIN pending \ {k} : Without(pending, k)[x] = pending[x]
    BY WithoutFacts
  <2> QED
    BY <1>2, <2>1 DEF HandleReply
<1>3. CASE RemovePending
  <2>1. /\ DOMAIN Without(pending, asking) = DOMAIN pending \ {asking}
        /\ \A x \in DOMAIN pending \ {asking} : Without(pending, asking)[x] = pending[x]
    BY WithoutFacts
  <2> QED
    BY <1>3, <2>1 DEF RemovePending
<1>4. CASE PollTimeout
  BY <1>4 DEF PollTimeout
<1>5. ASSUME NEW k \in Keys, LookupApikey(k) PROVE IInv'
  BY <1>5, BoundAssumption DEF LookupApikey
<1>6. CASE LookupAppend
  BY <1>6 DEF LookupAppend
<1>7. CASE LookupNotify
  BY <1>7 DEF LookupNotify
<1>8. CASE LookupRelease
  BY <1>8 DEF LookupRelease
<1> QED
  BY <1>1, <1>2, <1>3, <1>4, <1>5, <1>6, <1>7, <1>8 DEF RouterStep

\* The run thread: the deque shrinks only after a wake-up, and what is copied or
\* fetched is the key popped.
LEMMA RunStepIInv == ASSUME IInv, RunStep PROVE IInv'
<1> USE DEF IInv, TypeOK, LockOwners, RunThreadSurvives, WorkForEveryWakeUp, WakeUps,
        HitIsCached, LockedAnswerHasRecord, PendingAgreesWithCache,
        lockVars, routerVars, tables, netVars, Nobody, RouterThread, RunThread, Owner, Callback
<1>1. CASE Started
  BY <1>1 DEF Started
<1>2. CASE WaitReturns
  BY <1>2 DEF WaitReturns
<1>3. CASE PopWork
  <2>1. Len(work_queue) >= 1
    <3>1. WakeUps >= 1
      BY <1>3 DEF PopWork
    <3>2. WakeUps \in Int /\ Len(work_queue) \in Nat
      OBVIOUS
    <3> QED
      BY <3>1, <3>2
  <2>2. work_queue[Len(work_queue)] \in Keys
    BY <2>1
  <2>3. /\ SubSeq(work_queue, 1, Len(work_queue) - 1) \in Seq(Keys)
        /\ Len(SubSeq(work_queue, 1, Len(work_queue) - 1)) = Len(work_queue) - 1
    <3>1. Len(work_queue) - 1 \in Nat /\ Len(work_queue) - 1 < Len(work_queue)
      BY <2>1
    <3> QED
      BY <3>1, SubSeqUpTo
  <2>4. work_queue # <<>>
    BY <2>1
  <2>5. /\ work_queue' \in Seq(Keys) /\ Len(work_queue') = Len(work_queue) - 1
        /\ current' \in Keys /\ mpc = "got_work" /\ mpc' = "lookup"
        /\ UNCHANGED <<routerVars, lockVars, tables, netVars, db>>
    BY <1>3, <2>2, <2>3, <2>4 DEF PopWork
  <2>6. WorkForEveryWakeUp'
    BY <2>1, <2>5
  <2> QED
    BY <2>5, <2>6
<1>4. CASE LockCache
  BY <1>4 DEF LockCache
<1>5. CASE CacheHit
  <2>1. /\ DOMAIN With(pending, current, cache[current]) = DOMAIN pending \cup {current}
        /\ With(pending, current, cache[current])[current] = cache[current]
        /\ \A x \in DOMAIN pending :
             x # current => With(pending, current, cache[current])[x] = pending[x]
    BY DEF With
  <2>2. /\ pending' = With(pending, current, cache[current]) /\ cache' = cache
        /\ current \in DOMAIN cache
    BY <1>5 DEF CacheHit
  <2>3. PendingAgreesWithCache'
    BY <2>1, <2>2
  <2>4. DOMAIN pending' \subseteq Keys /\ \A k \in DOMAIN pending' : pending'[k] \in Record
    BY <2>1, <2>2
  <2> QED
    BY <1>5, <2>2, <2>3, <2>4 DEF CacheHit, BackToWait
<1>6. CASE CacheMiss
  <2> DEFINE e == [key |-> current, stage |-> "to_router", rec |-> NoRecord]
  <2>1. fetches \in Seq(Fetch) /\ e \in Fetch
    BY DEF Fetch, Stage
  <2>2. /\ Append(fetches, e) \in Seq(Fetch)
        /\ DOMAIN Append(fetches, e) = DOMAIN fetches \cup {Len(fetches) + 1}
        /\ Append(fetches, e)[Len(fetches) + 1] = e
        /\ \A j \in DOMAIN fetches : Append(fetches, e)[j] = fetches[j]
        /\ Len(fetches) + 1 \notin DOMAIN fetches
    BY <2>1, AppendFetch
  <2>3. fetches' = Append(fetches, e) /\ pending_lock # Len(fetches) + 1
    BY <1>6, <2>2 DEF CacheMiss
  <2> HIDE DEF e
  <2>4. e.stage = "to_router"
    BY DEF e
  <2> QED
    BY <1>6, <2>2, <2>3, <2>4 DEF CacheMiss, BackToWait, Fetch
<1> QED
  BY <1>1, <1>2, <1>3, <1>4, <1>5, <1>6 DEF RunStep

\* A step of one exchange that touches neither lock nor table: its stage moves, and
\* the records of the others stay.
LEMMA ExchangeIInv ==
    ASSUME IInv, NEW i \in DOMAIN fetches, NEW e \in Fetch,
           fetches[i].stage # "cb_pending_locked", e.stage # "cb_pending_locked",
           fetches' = [fetches EXCEPT ![i] = e],
           registry' \in SUBSET Keys,
           rpc' = rpc \/ (rpc = "recv" /\ rpc' = "poll"),
           UNCHANGED <<asked, asking, awaited, snapshot, runVars, work_queue, lockVars, tables, db>>
    PROVE  IInv'
<1>1. fetches \in Seq(Fetch)
  BY DEF IInv, TypeOK, Fetch
<1>2. /\ fetches' \in Seq(Fetch)
      /\ DOMAIN fetches' = DOMAIN fetches
      /\ fetches'[i] = e
      /\ \A j \in DOMAIN fetches : j # i => fetches'[j] = fetches[j]
  BY <1>1, ExceptFetch
<1>3. (TypeOK /\ RunThreadSurvives /\ WorkForEveryWakeUp /\ HitIsCached)'
  BY <1>2 DEF IInv, TypeOK, RunThreadSurvives, WorkForEveryWakeUp, WakeUps, HitIsCached,
              lockVars, runVars, tables, Fetch
<1>4. LockOwners'
  BY <1>2 DEF IInv, LockOwners, lockVars, runVars
<1>5. (LockedAnswerHasRecord /\ PendingAgreesWithCache)'
  BY <1>2 DEF IInv, LockedAnswerHasRecord, PendingAgreesWithCache, tables
<1> QED
  BY <1>3, <1>4, <1>5 DEF IInv

\* The steps of one exchange.
LEMMA AnswerStepIInv ==
    ASSUME IInv, NEW i \in 1..MaxLookups, Forward(i) \/ AnswerStep(i) PROVE IInv'
<1>0. fetches \in Seq(Fetch) /\ registry \in SUBSET Keys
  BY DEF IInv, TypeOK, Fetch
<1>1. ASSUME NEW st \in Stage, i \in DOMAIN fetches
      PROVE  LET e == [fetches[i] EXCEPT !.stage = st]
             IN e \in Fetch /\ e.stage = st /\ e.rec = fetches[i].rec
  <2>1. fetches[i] \in Fetch
    BY <1>0, <1>1
  <2> QED
    BY <2>1 DEF Fetch
<1>2. CASE Forward(i)
  <2>1. PICK st \in {"to_db", "to_miniclient"} :
          /\ i \in DOMAIN fetches /\ fetches[i].stage \in {"to_router", "answered"}
          /\ fetches' = [fetches EXCEPT ![i] = [fetches[i] EXCEPT !.stage = st]]
    BY <1>2 DEF Forward
  <2>2. st \in Stage
    BY DEF Stage
  <2> QED
    BY <1>0, <1>1, <1>2, <2>1, <2>2, ExchangeIInv DEF Forward
<1>3. CASE Deliver(i)
  <2>1. PICK st \in {"cb_start", "done"} :
          /\ i \in DOMAIN fetches /\ fetches[i].stage = "to_miniclient"
          /\ fetches' = [fetches EXCEPT ![i] = [fetches[i] EXCEPT !.stage = st]]
    BY <1>3 DEF Deliver
  <2>2. st \in Stage
    BY DEF Stage
  <2> QED
    BY <1>0, <1>1, <1>3, <2>1, <2>2, ExchangeIInv DEF Deliver, routerVars
<1>4. CASE DbAnswer(i)
  <2> DEFINE e == [fetches[i] EXCEPT !.stage = "answered", !.rec = db[fetches[i].key]]
  <2>1. fetches[i] \in Fetch /\ i \in DOMAIN fetches /\ fetches[i].stage = "to_db"
    BY <1>0, <1>4 DEF DbAnswer
  <2>2. e \in Fetch /\ e.stage = "answered"
    BY <2>1 DEF Fetch, Stage, IInv, TypeOK
  <2> QED
    BY <1>0, <1>4, <2>1, <2>2, ExchangeIInv DEF DbAnswer, routerVars
<1>5. CASE CallbackLockPending(i)
  <2>1. i \in DOMAIN fetches /\ fetches[i].stage = "cb_start"
    BY <1>5 DEF CallbackLockPending
  <2>2. CASE fetches[i].rec = NoRecord
    <3>1. "done" \in Stage
      BY DEF Stage
    <3> QED
      BY <1>0, <1>1, <1>5, <2>1, <2>2, <3>1, ExchangeIInv
         DEF CallbackLockPending, routerVars, lockVars
  <2>3. CASE fetches[i].rec # NoRecord
    <3> DEFINE e == [fetches[i] EXCEPT !.stage = "cb_pending_locked"]
    <3>1. /\ fetches' = [fetches EXCEPT ![i] = e]
          /\ pending_lock = Nobody /\ pending_lock' = i
      BY <1>5, <2>3 DEF CallbackLockPending
    <3>2. e \in Fetch /\ e.stage = "cb_pending_locked" /\ e.rec \in Record
      <4>1. fetches[i] \in Fetch
        BY <1>0, <2>1
      <4> QED
        BY <2>3, <4>1 DEF Fetch, Stage
    <3>3. /\ fetches' \in Seq(Fetch) /\ DOMAIN fetches' = DOMAIN fetches
          /\ fetches'[i] = e
          /\ \A j \in DOMAIN fetches : j # i => fetches'[j] = fetches[j]
      BY <1>0, <2>1, <3>1, <3>2, ExceptFetch
    <3> HIDE DEF e
    <3>4. (TypeOK /\ RunThreadSurvives /\ WorkForEveryWakeUp /\ HitIsCached)'
      BY <1>5, <3>1, <3>3 DEF CallbackLockPending, IInv, TypeOK, RunThreadSurvives,
         WorkForEveryWakeUp, WakeUps, HitIsCached, routerVars, runVars, tables, Fetch,
         Owner, Callback
    <3>5. 0 \notin DOMAIN fetches
      BY <1>0
    <3>6. LockOwners'
      BY <1>5, <2>1, <3>1, <3>2, <3>3, <3>5
         DEF CallbackLockPending, IInv, LockOwners, routerVars, runVars, Nobody
    <3>7. (LockedAnswerHasRecord /\ PendingAgreesWithCache)'
      BY <1>5, <3>2, <3>3
         DEF CallbackLockPending, IInv, LockedAnswerHasRecord, PendingAgreesWithCache, tables
    <3> QED
      BY <3>4, <3>6, <3>7 DEF IInv
  <2> QED
    BY <2>2, <2>3
<1>6. CASE CallbackStore(i)
  <2> DEFINE e == [fetches[i] EXCEPT !.stage = "done"]
             k == fetches[i].key
             r == fetches[i].rec
  <2>1. /\ i \in DOMAIN fetches /\ fetches[i].stage = "cb_pending_locked"
        /\ fetches' = [fetches EXCEPT ![i] = e]
        /\ pending' = With(pending, k, r) /\ cache' = With(cache, k, r)
        /\ pending_lock' = Nobody
    BY <1>6 DEF CallbackStore
  <2>2. k \in Keys /\ r \in Record /\ e \in Fetch /\ e.stage = "done"
    <3>1. fetches[i] \in Fetch
      BY <1>0, <2>1
    <3> QED
      BY <2>1, <3>1 DEF Fetch, Stage, IInv, LockedAnswerHasRecord
  <2>3. /\ fetches' \in Seq(Fetch) /\ DOMAIN fetches' = DOMAIN fetches
        /\ fetches'[i] = e
        /\ \A j \in DOMAIN fetches : j # i => fetches'[j] = fetches[j]
    BY <1>0, <2>1, <2>2, ExceptFetch
  <2>4. /\ DOMAIN pending' = DOMAIN pending \cup {k} /\ pending'[k] = r
        /\ \A x \in DOMAIN pending : x # k => pending'[x] = pending[x]
        /\ DOMAIN cache' = DOMAIN cache \cup {k} /\ cache'[k] = r
        /\ \A x \in DOMAIN cache : x # k => cache'[x] = cache[x]
    BY <2>1 DEF With
  <2> HIDE DEF e, k, r
  <2>5. TypeOK'
    BY <1>6, <2>1, <2>2, <2>3, <2>4
       DEF CallbackStore, IInv, TypeOK, routerVars, runVars, Fetch, Owner
  <2>6. (RunThreadSurvives /\ WorkForEveryWakeUp /\ HitIsCached)'
    BY <1>6, <2>4 DEF CallbackStore, IInv, RunThreadSurvives, WorkForEveryWakeUp, WakeUps,
                      HitIsCached, routerVars, runVars
  <2>7. LockOwners'
    <3>1. 0 \notin DOMAIN fetches
      BY <1>0
    <3> QED
      BY <1>6, <2>1, <2>2, <2>3, <3>1
         DEF CallbackStore, IInv, LockOwners, routerVars, runVars, Nobody
  <2>8. (LockedAnswerHasRecord /\ PendingAgreesWithCache)'
    BY <2>2, <2>3, <2>4 DEF IInv, LockedAnswerHasRecord, PendingAgreesWithCache
  <2> QED
    BY <2>5, <2>6, <2>7, <2>8 DEF IInv
<1> QED
  BY <1>2, <1>3, <1>4, <1>5, <1>6 DEF AnswerStep

LEMMA RevokeIInv == ASSUME IInv, NEW k \in Keys, Revoke(k) PROVE IInv'
BY DEF Revoke, IInv, TypeOK, LockOwners, RunThreadSurvives, WorkForEveryWakeUp, WakeUps,
       HitIsCached, LockedAnswerHasRecord, PendingAgreesWithCache,
       lockVars, routerVars, runVars, tables, netVars, Record

-----------------------------------------------------------------------------
(* The theorems.                                                           *)

LEMMA NextIInv == IInv /\ [Next]_vars => IInv'
<1> SUFFICES ASSUME IInv, [Next]_vars PROVE IInv'
  OBVIOUS
<1>1. CASE UNCHANGED vars
  BY <1>1 DEF vars, IInv, TypeOK, LockOwners, RunThreadSurvives, WorkForEveryWakeUp, WakeUps,
              HitIsCached, LockedAnswerHasRecord, PendingAgreesWithCache,
              lockVars, routerVars, runVars, tables, netVars
<1>2. CASE RouterStep \/ (\E k \in Keys : LookupApikey(k))
  BY <1>2, RouterStepIInv
<1>3. CASE RunStep
  BY <1>3, RunStepIInv
<1>4. CASE \E i \in 1..MaxLookups : Forward(i) \/ AnswerStep(i)
  BY <1>4, AnswerStepIInv
<1>5. CASE \E k \in Keys : Revoke(k)
  BY <1>5, RevokeIInv
<1> QED
  BY <1>1, <1>2, <1>3, <1>4, <1>5 DEF Next

\* IInv is an invariant of every behaviour of MiniClient.
THEOREM Invariance == Spec => []IInv
BY InitIInv, NextIInv, PTL DEF Spec

\* The types of all variables, whatever the keys and the number of lookups.
THEOREM TypeCorrect == Spec => []TypeOK
<1>1. IInv => TypeOK
  BY DEF IInv
<1> QED
  BY <1>1, Invariance, PTL

\* run() never pops an empty deque: its IndexError exit, which would keep _lock for
\* ever, is out of reach for any number of lookups in any order.
THEOREM RunThreadNeverDies == Spec => []RunThreadSurvives
<1>1. IInv => RunThreadSurvives
  BY DEF IInv
<1> QED
  BY <1>1, Invariance, PTL

\* The four locks are held exactly where the program counters say.
THEOREM LocksOwned == Spec => []LockOwners
<1>1. IInv => LockOwners
  BY DEF IInv
<1> QED
  BY <1>1, Invariance, PTL

\* A reply the router has yet to read is what the cache holds for its key.
THEOREM TablesAgree == Spec => []PendingAgreesWithCache
<1>1. IInv => PendingAgreesWithCache
  BY DEF IInv
<1> QED
  BY <1>1, Invariance, PTL

-----------------------------------------------------------------------------
(* The mini client implements the lookup service: what the requests for a  *)
(* key that may still yield a result are.                                  *)

Queued(k)   == {j \in DOMAIN work_queue : work_queue[j] = k}
Serving(k)  == IF mpc \in {"lookup", "hit", "miss"} /\ current = k THEN 1 ELSE 0
Fetching(k) == {i \in DOMAIN fetches : fetches[i].key = k /\ fetches[i].stage # "done"}

LEMMA CountsAre ==
    ASSUME TypeOK, NEW k
    PROVE  /\ IsFiniteSet(Queued(k)) /\ IsFiniteSet(Fetching(k))
           /\ Cardinality(Queued(k)) \in Nat /\ Cardinality(Fetching(k)) \in Nat
           /\ OutstandingFor(k) = Cardinality(Queued(k)) + Serving(k) + Cardinality(Fetching(k))
           /\ OutstandingFor(k) \in Nat /\ Serving(k) \in Nat
<1>1. /\ DOMAIN work_queue = 1..Len(work_queue) /\ Len(work_queue) \in Nat
      /\ DOMAIN fetches = 1..Len(fetches) /\ Len(fetches) \in Nat
  BY LenProperties DEF TypeOK
<1>2. IsFiniteSet(DOMAIN work_queue) /\ IsFiniteSet(DOMAIN fetches)
  BY <1>1, FS_Interval
<1>3. IsFiniteSet(Queued(k)) /\ IsFiniteSet(Fetching(k))
  BY <1>2, FS_Subset DEF Queued, Fetching
<1>4. Cardinality(Queued(k)) \in Nat /\ Cardinality(Fetching(k)) \in Nat
  BY <1>3, FS_CardinalityType
<1>5. OutstandingFor(k) = Cardinality(Queued(k)) + Serving(k) + Cardinality(Fetching(k))
  BY DEF OutstandingFor, Queued, Serving, Fetching
<1>6. Serving(k) \in Nat
  BY DEF Serving
<1> QED
  BY <1>3, <1>4, <1>5, <1>6

\* A request that is under way counts.
LEMMA CountedIfThere ==
    ASSUME TypeOK, NEW k, Serving(k) = 1 \/ Fetching(k) # {}
    PROVE  OutstandingFor(k) > 0
<1>1. /\ Cardinality(Queued(k)) \in Nat /\ Cardinality(Fetching(k)) \in Nat /\ Serving(k) \in Nat
      /\ OutstandingFor(k) = Cardinality(Queued(k)) + Serving(k) + Cardinality(Fetching(k))
  BY CountsAre
<1>2. Fetching(k) # {} => Cardinality(Fetching(k)) # 0
  BY CountsAre, FS_EmptySet
<1> QED
  BY <1>1, <1>2

\* Work appended to the deque, and work popped.
LEMMA QueuedAppended ==
    ASSUME TypeOK, NEW k \in Keys, work_queue' = Append(work_queue, k), NEW x \in Keys
    PROVE  Cardinality(Queued(x)') = Cardinality(Queued(x)) + (IF x = k THEN 1 ELSE 0)
<1> DEFINE n == Len(work_queue) + 1
<1>1. /\ work_queue \in Seq(Keys) /\ Len(work_queue) \in Nat /\ DOMAIN work_queue = 1..Len(work_queue)
      /\ work_queue' \in Seq(Keys) /\ Len(work_queue') = n /\ DOMAIN work_queue' = 1..n
      /\ \A j \in 1..Len(work_queue) : work_queue'[j] = work_queue[j]
      /\ work_queue'[n] = k
  BY AppendProperties, LenProperties DEF TypeOK
<1>2. n \notin Queued(x)
  BY <1>1 DEF Queued
<1>3. Queued(x)' = IF x = k THEN Queued(x) \cup {n} ELSE Queued(x)
  BY <1>1 DEF Queued
<1> HIDE DEF n
<1>4. IsFiniteSet(Queued(x)) /\ Cardinality(Queued(x)) \in Nat
  BY CountsAre
<1>5. Cardinality(Queued(x) \cup {n}) = Cardinality(Queued(x)) + 1
  BY <1>2, <1>4, FS_AddElement
<1> QED
  BY <1>3, <1>4, <1>5

LEMMA QueuedPopped ==
    ASSUME TypeOK, work_queue # <<>>, NEW x \in Keys,
           work_queue' = SubSeq(work_queue, 1, Len(work_queue) - 1)
    PROVE  Cardinality(Queued(x)) = Cardinality(Queued(x)') + (IF x = work_queue[Len(work_queue)] THEN 1 ELSE 0)
<1> DEFINE n == Len(work_queue)
<1>1. /\ work_queue \in Seq(Keys) /\ n \in Nat \ {0} /\ DOMAIN work_queue = 1..n
  BY LenProperties, EmptySeq DEF TypeOK
<1>2. /\ work_queue' \in Seq(Keys) /\ Len(work_queue') = n - 1
      /\ \A j \in 1..(n - 1) : work_queue'[j] = work_queue[j]
  <2>1. 1 \in Int /\ n - 1 \in Int /\ \A j \in 1..(n - 1) : work_queue[j] \in Keys
    BY <1>1, ElementOfSeq
  <2>2. /\ SubSeq(work_queue, 1, n - 1) \in Seq(Keys)
        /\ Len(SubSeq(work_queue, 1, n - 1)) = IF 1 <= n - 1 THEN (n - 1) - 1 + 1 ELSE 0
        /\ \A j \in 1..((n - 1) - 1 + 1) : SubSeq(work_queue, 1, n - 1)[j] = work_queue[1 + j - 1]
    BY <2>1, SubSeqProperties
  <2>3. (n - 1) - 1 + 1 = n - 1 /\ (1 <= n - 1 \/ n - 1 = 0) /\ \A j \in 1..(n - 1) : 1 + j - 1 = j
    BY <1>1
  <2> QED
    BY <2>2, <2>3
<1>3. DOMAIN work_queue' = 1..(n - 1)
  BY <1>2, LenProperties
<1>4. n \notin Queued(x)'
  BY <1>1, <1>3 DEF Queued
<1>5. Queued(x) = IF x = work_queue[n] THEN Queued(x)' \cup {n} ELSE Queued(x)'
  BY <1>1, <1>2, <1>3 DEF Queued
<1>6. IsFiniteSet(Queued(x)')
  <2>1. Queued(x)' \subseteq 1..(n - 1)
    BY <1>3 DEF Queued
  <2>2. IsFiniteSet(1..(n - 1))
    BY <1>1, FS_Interval
  <2> QED
    BY <2>1, <2>2, FS_Subset
<1> HIDE DEF n
<1> DEFINE Q == Queued(x)'
<1>7. IsFiniteSet(Q) /\ n \notin Q
  BY <1>4, <1>6
<1> HIDE DEF Q
<1>8. Cardinality(Q) \in Nat /\ Cardinality(Q \cup {n}) = Cardinality(Q) + 1
  BY <1>7, FS_AddElement, FS_CardinalityType
<1>9. Queued(x) = IF x = work_queue[n] THEN Q \cup {n} ELSE Q
  BY <1>5 DEF Q
<1> QED
  BY <1>8, <1>9 DEF Q, n

\* An exchange begun, and one that ends; those that go on count as before.
LEMMA FetchBegun ==
    ASSUME TypeOK, NEW e \in Fetch, e.stage # "done", fetches' = Append(fetches, e), NEW x \in Keys
    PROVE  Cardinality(Fetching(x)') = Cardinality(Fetching(x)) + (IF x = e.key THEN 1 ELSE 0)
<1> DEFINE n == Len(fetches) + 1
<1>1. fetches \in Seq(Fetch)
  BY DEF TypeOK, Fetch
<1>2. /\ DOMAIN fetches' = DOMAIN fetches \cup {n} /\ n \notin DOMAIN fetches
      /\ fetches'[n] = e /\ \A j \in DOMAIN fetches : fetches'[j] = fetches[j]
  BY <1>1, AppendFetch
<1>3. Fetching(x)' = IF x = e.key THEN Fetching(x) \cup {n} ELSE Fetching(x)
  BY <1>2 DEF Fetching
<1>4. n \notin Fetching(x)
  BY <1>2 DEF Fetching
<1> HIDE DEF n
<1>5. IsFiniteSet(Fetching(x)) /\ Cardinality(Fetching(x)) \in Nat
  BY CountsAre
<1>6. Cardinality(Fetching(x) \cup {n}) = Cardinality(Fetching(x)) + 1
  BY <1>4, <1>5, FS_AddElement
<1> QED
  BY <1>3, <1>5, <1>6

LEMMA FetchMoved ==
    ASSUME TypeOK, NEW i \in DOMAIN fetches, NEW e \in Fetch, e.key = fetches[i].key,
           fetches[i].stage # "done", fetches' = [fetches EXCEPT ![i] = e], NEW x \in Keys
    PROVE  Cardinality(Fetching(x)') =
               Cardinality(Fetching(x)) - (IF x = e.key /\ e.stage = "done" THEN 1 ELSE 0)
<1>1. fetches \in Seq(Fetch)
  BY DEF TypeOK, Fetch
<1>2. /\ DOMAIN fetches' = DOMAIN fetches /\ fetches'[i] = e
      /\ \A j \in DOMAIN fetches : j # i => fetches'[j] = fetches[j]
  BY <1>1, ExceptFetch
<1>3. IsFiniteSet(Fetching(x)) /\ Cardinality(Fetching(x)) \in Nat
  BY CountsAre
<1>4. CASE x = e.key /\ e.stage = "done"
  <2>1. Fetching(x)' = Fetching(x) \ {i} /\ i \in Fetching(x)
    BY <1>2, <1>4 DEF Fetching
  <2>2. Cardinality(Fetching(x) \ {i}) = Cardinality(Fetching(x)) - 1
    BY <1>3, <2>1, FS_RemoveElement
  <2> QED
    BY <1>4, <2>1, <2>2
<1>5. CASE ~ (x = e.key /\ e.stage = "done")
  <2>1. Fetching(x)' = Fetching(x)
    BY <1>2, <1>5 DEF Fetching
  <2> QED
    BY <1>3, <1>5, <2>1
<1> QED
  BY <1>4, <1>5

-----------------------------------------------------------------------------
(* The steps of the lookup service, told from what they change.            *)

Asked == IF rpc = "lookup" THEN asked - 1 ELSE asked

LEMMA StuttersWhen ==
    ASSUME pending' = pending, Asked' = Asked, \A x \in Keys : HeldFor(x)' = HeldFor(x),
           \A x \in Keys : OutstandingFor(x)' = OutstandingFor(x)
    PROVE  UNCHANGED Service!vars
  BY DEF Service!vars, Asked

LEMMA AsksWhen ==
    ASSUME NEW k \in Keys,
           pending' = pending, Asked' = Asked + 1, \A x \in Keys : HeldFor(x)' = HeldFor(x),
           \A x \in Keys : OutstandingFor(x)' = IF x = k THEN OutstandingFor(x) + 1 ELSE OutstandingFor(x)
    PROVE  Service!Next
<1>1. Service!Ask(k)
  BY DEF Service!Ask, Asked
<1> QED
  BY <1>1 DEF Service!Next

LEMMA ProducesWhen ==
    ASSUME NEW k \in Keys, NEW r \in Record, OutstandingFor(k) > 0, r \in HeldFor(k),
           pending' = With(pending, k, r), Asked' = Asked, \A x \in Keys : HeldFor(x)' = HeldFor(x),
           \A x \in Keys : OutstandingFor(x)' = IF x = k THEN OutstandingFor(x) - 1 ELSE OutstandingFor(x)
    PROVE  Service!Next
<1>1. Service!Produce(k, r)
  BY DEF Service!Produce, Service!With, With, Asked
<1> QED
  BY <1>1 DEF Service!Next

LEMMA LosesWhen ==
    ASSUME NEW k \in Keys, OutstandingFor(k) > 0,
           pending' = pending, Asked' = Asked, \A x \in Keys : HeldFor(x)' = HeldFor(x),
           \A x \in Keys : OutstandingFor(x)' = IF x = k THEN OutstandingFor(x) - 1 ELSE OutstandingFor(x)
    PROVE  Service!Next
<1>1. Service!Lose(k)
  BY DEF Service!Lose, Asked
<1> QED
  BY <1>1 DEF Service!Next

\* Taking what is not there takes nothing.
LEMMA TakesWhen ==
    ASSUME NEW k \in Keys, pending = [x \in DOMAIN pending |-> pending[x]],
           pending' = Without(pending, k), Asked' = Asked, \A x \in Keys : HeldFor(x)' = HeldFor(x),
           \A x \in Keys : OutstandingFor(x)' = OutstandingFor(x)
    PROVE  Service!Next \/ UNCHANGED Service!vars
<1>1. CASE k \in DOMAIN pending
  <2>1. Service!Take(k)
    BY <1>1 DEF Service!Take, Service!Without, Without, Asked
  <2> QED
    BY <2>1 DEF Service!Next
<1>2. CASE k \notin DOMAIN pending
  <2>1. DOMAIN pending \ {k} = DOMAIN pending
    BY <1>2
  <2>2. pending' = pending
    BY <2>1 DEF Without
  <2> QED
    BY <2>2, StuttersWhen
<1> QED
  BY <1>1, <1>2

LEMMA UpdatesWhen ==
    ASSUME NEW k \in Keys, NEW r \in Record,
           pending' = pending, Asked' = Asked,
           \A x \in Keys : HeldFor(x)' = IF x = k THEN HeldFor(x) \cup {r} ELSE HeldFor(x),
           \A x \in Keys : OutstandingFor(x)' = OutstandingFor(x)
    PROVE  Service!Next
<1>1. Service!Update(k, r)
  BY DEF Service!Update, Asked
<1> QED
  BY <1>1 DEF Service!Next

-----------------------------------------------------------------------------
(* What the tables and the answers hold, cif-db held for that very key.    *)

HeldInv ==
    /\ \A k \in DOMAIN cache : cache[k] \in HeldFor(k)
    /\ \A i \in DOMAIN fetches :
          fetches[i].rec # NoRecord => fetches[i].rec \in HeldFor(fetches[i].key)
    /\ pending = [k \in DOMAIN pending |-> pending[k]]

LEMMA TablesOf ==
    ASSUME NEW t, NEW k, NEW r
    PROVE  /\ With(t, k, r) = [x \in DOMAIN With(t, k, r) |-> With(t, k, r)[x]]
           /\ Without(t, k) = [x \in DOMAIN Without(t, k) |-> Without(t, k)[x]]
  BY DEF With, Without

\* Nothing of it changes but by the run thread's misses, the exchanges and cif-db.
LEMMA HeldKept ==
    ASSUME HeldInv, UNCHANGED <<cache, fetches, db>>,
           \/ pending' = pending
           \/ \E k : pending' = Without(pending, k)
           \/ \E k, r : pending' = With(pending, k, r)
    PROVE  HeldInv' /\ \A x \in Keys : HeldFor(x)' = HeldFor(x)
<1>1. \A x : HeldFor(x)' = HeldFor(x)
  BY DEF HeldFor
<1>2. pending' = [k \in DOMAIN pending' |-> pending'[k]]
  BY TablesOf DEF HeldInv
<1> QED
  BY <1>1, <1>2 DEF HeldInv

\* An exchange that moves on, its record kept or asked of cif-db.
LEMMA HeldMoved ==
    ASSUME HeldInv, fetches \in Seq(Fetch), NEW i \in DOMAIN fetches, NEW e \in Fetch,
           e.key = fetches[i].key, e.rec \in {fetches[i].rec, db[e.key]},
           fetches' = [fetches EXCEPT ![i] = e], UNCHANGED <<pending, cache, db>>
    PROVE  HeldInv' /\ \A x \in Keys : HeldFor(x)' = HeldFor(x)
<1>1. \A x : HeldFor(x)' = HeldFor(x)
  BY DEF HeldFor
<1>2. /\ DOMAIN fetches' = DOMAIN fetches /\ fetches'[i] = e
      /\ \A j \in DOMAIN fetches : j # i => fetches'[j] = fetches[j]
  BY ExceptFetch
<1>3. e.rec # NoRecord => e.rec \in HeldFor(e.key)
  <2>1. CASE e.rec = fetches[i].rec
    BY <2>1 DEF HeldInv
  <2>2. CASE e.rec = db[e.key]
    BY <2>2 DEF HeldFor
  <2> QED
    BY <2>1, <2>2
<1> QED
  BY <1>1, <1>2, <1>3 DEF HeldInv

LEMMA HeldInit == Init => HeldInv
  BY DEF Init, HeldInv

\* The counts in the next state, from those of its parts.
LEMMA Counts ==
    TypeOK => \A x \in Keys :
        /\ Cardinality(Queued(x)) \in Nat /\ Cardinality(Fetching(x)) \in Nat /\ Serving(x) \in Nat
        /\ OutstandingFor(x) = Cardinality(Queued(x)) + Serving(x) + Cardinality(Fetching(x))
  BY CountsAre

LEMMA CountsNext ==
    TypeOK' => \A x \in Keys :
        /\ Cardinality(Queued(x)') \in Nat /\ Cardinality(Fetching(x)') \in Nat /\ Serving(x)' \in Nat
        /\ OutstandingFor(x)' = Cardinality(Queued(x)') + Serving(x)' + Cardinality(Fetching(x)')
<1>1. (TypeOK => \A x \in Keys :
        /\ Cardinality(Queued(x)) \in Nat /\ Cardinality(Fetching(x)) \in Nat /\ Serving(x) \in Nat
        /\ OutstandingFor(x) = Cardinality(Queued(x)) + Serving(x) + Cardinality(Fetching(x)))'
  BY Counts, PTL
<1> QED
  BY <1>1

LEMMA CountsSame ==
    ASSUME work_queue' = work_queue, fetches' = fetches, \A x \in Keys : Serving(x)' = Serving(x)
    PROVE  \A x \in Keys : OutstandingFor(x)' = OutstandingFor(x)
  BY DEF OutstandingFor, Serving

-----------------------------------------------------------------------------
(* Every step is one of the service, or none.                              *)

LEMMA RouterRefines ==
    ASSUME IInv, IInv', HeldInv, RouterStep \/ (\E k \in Keys : LookupApikey(k))
    PROVE  HeldInv' /\ (Service!Next \/ UNCHANGED Service!vars)
<1> USE DEF runVars, tables, netVars, lockVars
<1>1. ASSUME UNCHANGED <<pending, cache, work_queue, fetches, db>>, Asked' = Asked,
             \A x \in Keys : Serving(x)' = Serving(x)
      PROVE  HeldInv' /\ UNCHANGED Service!vars
  BY <1>1, HeldKept, CountsSame, StuttersWhen
<1>2. ASSUME NEW k \in Keys, pending' = Without(pending, k), Asked' = Asked,
             UNCHANGED <<cache, work_queue, fetches, db, mpc, current>>
      PROVE  HeldInv' /\ (Service!Next \/ UNCHANGED Service!vars)
  <2>1. HeldInv' /\ \A x \in Keys : HeldFor(x)' = HeldFor(x)
    BY <1>2, HeldKept
  <2>2. \A x \in Keys : OutstandingFor(x)' = OutstandingFor(x)
    BY <1>2, CountsSame DEF Serving
  <2>3. pending = [x \in DOMAIN pending |-> pending[x]]
    BY DEF HeldInv
  <2> QED
    BY <1>2, <2>1, <2>2, <2>3, TakesWhen
<1>3. CASE Poll \/ PollTimeout \/ LookupRelease
  <2>1. UNCHANGED <<pending, cache, work_queue, fetches, db, mpc, current>> /\ Asked' = Asked
    BY <1>3 DEF Poll, PollTimeout, LookupRelease, Asked
  <2> QED
    BY <1>1, <2>1 DEF Serving
<1>4. ASSUME NEW k \in Keys, HandleReply(k)
      PROVE  HeldInv' /\ (Service!Next \/ UNCHANGED Service!vars)
  <2>1. UNCHANGED <<cache, work_queue, fetches, db, mpc, current>> /\ Asked' = Asked
    BY <1>4 DEF HandleReply, Asked
  <2>2. pending' = Without(pending, k) \/ pending' = pending
    BY <1>4 DEF HandleReply
  <2> QED
    BY <1>1, <1>2, <2>1, <2>2 DEF Serving
<1>5. CASE RemovePending
  <2>1. UNCHANGED <<cache, work_queue, fetches, db, mpc, current>> /\ Asked' = Asked
        /\ pending' = Without(pending, asking)
    BY <1>5 DEF RemovePending, Asked
  <2>2. asking \in Keys
    BY DEF IInv, TypeOK
  <2> QED
    BY <1>2, <2>1, <2>2
<1>6. ASSUME NEW k \in Keys, LookupApikey(k)
      PROVE  HeldInv' /\ UNCHANGED Service!vars
  <2>1. UNCHANGED <<pending, cache, work_queue, fetches, db, mpc, current>>
    BY <1>6 DEF LookupApikey
  <2>2. Asked' = Asked
    <3>1. asked \in Nat /\ asked' = asked + 1 /\ rpc = "recv" /\ rpc' = "lookup"
      BY <1>6, BoundAssumption DEF LookupApikey, IInv, TypeOK
    <3> QED
      BY <3>1 DEF Asked
  <2> QED
    BY <1>1, <2>1, <2>2 DEF Serving
<1>7. CASE LookupNotify
  <2>1. UNCHANGED <<pending, cache, work_queue, fetches, db, current>> /\ Asked' = Asked
    BY <1>7 DEF LookupNotify, Asked
  <2>2. \A x \in Keys : Serving(x)' = Serving(x)
    <3>1. current' = current /\ (mpc' = mpc \/ (mpc = "waiting" /\ mpc' = "notified"))
      BY <1>7 DEF LookupNotify
    <3> QED
      BY <3>1 DEF Serving
  <2> QED
    BY <1>1, <2>1, <2>2
<1>8. CASE LookupAppend
  <2>1. UNCHANGED <<pending, cache, fetches, db, mpc, current>> /\ work_queue' = Append(work_queue, asking)
    BY <1>8 DEF LookupAppend
  <2>2. Asked' = Asked + 1
    <3>1. asked \in Nat /\ asked' = asked /\ rpc = "lookup" /\ rpc' = "notify"
      BY <1>8, BoundAssumption DEF LookupAppend, IInv, TypeOK
    <3> QED
      BY <3>1 DEF Asked
  <2>3. HeldInv' /\ \A x \in Keys : HeldFor(x)' = HeldFor(x)
    BY <2>1, HeldKept
  <2>4. asking \in Keys /\ TypeOK /\ TypeOK'
    BY DEF IInv, TypeOK
  <2>5. \A x \in Keys : Cardinality(Queued(x)') = Cardinality(Queued(x)) + (IF x = asking THEN 1 ELSE 0)
    BY <2>1, <2>4, QueuedAppended
  <2>6. \A x \in Keys : Serving(x)' = Serving(x) /\ Fetching(x)' = Fetching(x)
    BY <2>1 DEF Serving, Fetching
  <2>7. \A x \in Keys :
          OutstandingFor(x)' = IF x = asking THEN OutstandingFor(x) + 1 ELSE OutstandingFor(x)
    <3> SUFFICES ASSUME NEW x \in Keys
                 PROVE  OutstandingFor(x)' = IF x = asking THEN OutstandingFor(x) + 1 ELSE OutstandingFor(x)
      OBVIOUS
    <3>1. /\ Cardinality(Queued(x)) \in Nat /\ Cardinality(Fetching(x)) \in Nat /\ Serving(x) \in Nat
          /\ OutstandingFor(x) = Cardinality(Queued(x)) + Serving(x) + Cardinality(Fetching(x))
      BY <2>4, Counts
    <3>2. OutstandingFor(x)' = Cardinality(Queued(x)') + Serving(x)' + Cardinality(Fetching(x)')
      BY <2>4, CountsNext
    <3>3. Cardinality(Fetching(x)') = Cardinality(Fetching(x)) /\ Serving(x)' = Serving(x)
      BY <2>6
    <3> QED
      BY <2>5, <3>1, <3>2, <3>3
  <2> QED
    BY <2>1, <2>2, <2>3, <2>4, <2>7, AsksWhen
<1> QED
  BY <1>3, <1>4, <1>5, <1>6, <1>7, <1>8 DEF RouterStep

LEMMA RunRefines ==
    ASSUME IInv, IInv', HeldInv, RunStep
    PROVE  HeldInv' /\ (Service!Next \/ UNCHANGED Service!vars)
<1> USE DEF routerVars, tables, netVars, lockVars
<1>0. TypeOK /\ TypeOK' /\ current \in Keys
  BY DEF IInv, TypeOK
<1>1. CASE Started \/ WaitReturns \/ LockCache
  <2>1. UNCHANGED <<pending, cache, work_queue, fetches, db, rpc, asked>>
    BY <1>1 DEF Started, WaitReturns, LockCache
  <2>2. \A x \in Keys : Serving(x)' = Serving(x)
    BY <1>1 DEF Started, WaitReturns, LockCache, Serving
  <2> QED
    BY <2>1, <2>2, HeldKept, CountsSame, StuttersWhen DEF Asked
<1>2. CASE PopWork
  <2>1. work_queue # <<>>
    BY <1>2 DEF PopWork, IInv, RunThreadSurvives
  <2>2. /\ mpc = "got_work" /\ mpc' = "lookup" /\ current' = work_queue[Len(work_queue)]
        /\ work_queue' = SubSeq(work_queue, 1, Len(work_queue) - 1)
        /\ UNCHANGED <<pending, cache, fetches, db, rpc, asked>>
    BY <1>2, <2>1 DEF PopWork
  <2>3. HeldInv' /\ \A x \in Keys : HeldFor(x)' = HeldFor(x)
    BY <2>2, HeldKept
  <2>4. ASSUME NEW x \in Keys
        PROVE  OutstandingFor(x)' = OutstandingFor(x)
    <3>1. Cardinality(Queued(x)) = Cardinality(Queued(x)') + (IF x = work_queue[Len(work_queue)] THEN 1 ELSE 0)
      BY <1>0, <2>1, <2>2, QueuedPopped
    <3>2. Serving(x) = 0 /\ Serving(x)' = IF x = work_queue[Len(work_queue)] THEN 1 ELSE 0
      BY <2>2 DEF Serving
    <3>3. Fetching(x)' = Fetching(x)
      BY <2>2 DEF Fetching
    <3>4. /\ Cardinality(Fetching(x)) \in Nat /\ Cardinality(Queued(x)') \in Nat
          /\ OutstandingFor(x) = Cardinality(Queued(x)) + Serving(x) + Cardinality(Fetching(x))
          /\ OutstandingFor(x)' = Cardinality(Queued(x)') + Serving(x)' + Cardinality(Fetching(x)')
      BY <1>0, Counts, CountsNext
    <3>5. Cardinality(Fetching(x)') = Cardinality(Fetching(x))
      BY <3>3
    <3> QED
      BY <3>1, <3>2, <3>4, <3>5
  <2> QED
    BY <2>2, <2>3, <2>4, StuttersWhen DEF Asked
<1>3. CASE CacheHit
  <2>1. /\ mpc = "hit" /\ mpc' = "waiting" /\ pending' = With(pending, current, cache[current])
        /\ UNCHANGED <<cache, fetches, db, rpc, asked, work_queue, current>>
    BY <1>3 DEF CacheHit, BackToWait
  <2>2. HeldInv' /\ \A x \in Keys : HeldFor(x)' = HeldFor(x)
    BY <2>1, HeldKept
  <2>3. current \in DOMAIN cache /\ cache[current] \in HeldFor(current) /\ cache[current] \in Record
    BY <2>1 DEF IInv, HitIsCached, HeldInv, TypeOK
  <2>4. Serving(current) = 1
    BY <2>1 DEF Serving
  <2>5. OutstandingFor(current) > 0
    BY <1>0, <2>4, CountedIfThere
  <2>6. ASSUME NEW x \in Keys
        PROVE  OutstandingFor(x)' = IF x = current THEN OutstandingFor(x) - 1 ELSE OutstandingFor(x)
    <3>1. Serving(x) = (IF x = current THEN 1 ELSE 0) /\ Serving(x)' = 0
      BY <2>1 DEF Serving
    <3>2. Fetching(x)' = Fetching(x) /\ Queued(x)' = Queued(x)
      BY <2>1 DEF Fetching, Queued
    <3>3. /\ Cardinality(Fetching(x)) \in Nat /\ Cardinality(Queued(x)) \in Nat
          /\ OutstandingFor(x) = Cardinality(Queued(x)) + Serving(x) + Cardinality(Fetching(x))
          /\ OutstandingFor(x)' = Cardinality(Queued(x)') + Serving(x)' + Cardinality(Fetching(x)')
      BY <1>0, Counts, CountsNext
    <3>4. Cardinality(Fetching(x)') = Cardinality(Fetching(x)) /\ Cardinality(Queued(x)') = Cardinality(Queued(x))
      BY <3>2
    <3> QED
      BY <3>1, <3>3, <3>4
  <2>7. Asked' = Asked
    BY <2>1 DEF Asked
  <2> QED
    BY <1>0, <2>1, <2>2, <2>3, <2>5, <2>6, <2>7, ProducesWhen
<1>4. CASE CacheMiss
  <2> DEFINE e == [key |-> current, stage |-> "to_router", rec |-> NoRecord]
  <2>1. /\ mpc = "miss" /\ mpc' = "waiting" /\ fetches' = Append(fetches, e)
        /\ UNCHANGED <<pending, cache, db, rpc, asked, work_queue, current>>
    BY <1>4 DEF CacheMiss, BackToWait
  <2>2. e \in Fetch /\ e.stage # "done" /\ e.key = current /\ e.rec = NoRecord
    BY <1>0 DEF Fetch, Stage
  <2> HIDE DEF e
  <2>3. fetches \in Seq(Fetch)
    BY <1>0 DEF TypeOK, Fetch
  <2>4. /\ DOMAIN fetches' = DOMAIN fetches \cup {Len(fetches) + 1}
        /\ fetches'[Len(fetches) + 1] = e
        /\ \A j \in DOMAIN fetches : fetches'[j] = fetches[j]
    BY <2>1, <2>2, <2>3, AppendFetch
  <2>5. \A x \in Keys : HeldFor(x)' = HeldFor(x)
    BY <2>1 DEF HeldFor
  <2>6. HeldInv'
    BY <2>1, <2>2, <2>4 DEF HeldInv, HeldFor
  <2>7. ASSUME NEW x \in Keys
        PROVE  OutstandingFor(x)' = OutstandingFor(x)
    <3>1. Cardinality(Fetching(x)') = Cardinality(Fetching(x)) + (IF x = current THEN 1 ELSE 0)
      BY <1>0, <2>1, <2>2, FetchBegun
    <3>2. Serving(x) = (IF x = current THEN 1 ELSE 0) /\ Serving(x)' = 0
      BY <2>1 DEF Serving
    <3>3. Queued(x)' = Queued(x)
      BY <2>1 DEF Queued
    <3>4. /\ Cardinality(Fetching(x)) \in Nat /\ Cardinality(Queued(x)) \in Nat
          /\ OutstandingFor(x) = Cardinality(Queued(x)) + Serving(x) + Cardinality(Fetching(x))
          /\ OutstandingFor(x)' = Cardinality(Queued(x)') + Serving(x)' + Cardinality(Fetching(x)')
      BY <1>0, Counts, CountsNext
    <3>5. Cardinality(Queued(x)') = Cardinality(Queued(x))
      BY <3>3
    <3> QED
      BY <3>1, <3>2, <3>4, <3>5
  <2> QED
    BY <2>1, <2>5, <2>6, <2>7, StuttersWhen DEF Asked
<1> QED
  BY <1>1, <1>2, <1>3, <1>4 DEF RunStep

\* An exchange that moves on counts until it ends.
LEMMA ExchangeCounts ==
    ASSUME IInv, IInv', NEW i \in DOMAIN fetches, NEW e \in Fetch, e.key = fetches[i].key,
           fetches[i].stage # "done", fetches' = [fetches EXCEPT ![i] = e],
           UNCHANGED <<work_queue, mpc, current>>
    PROVE  /\ e.key \in Keys /\ OutstandingFor(e.key) > 0
           /\ \A x \in Keys : OutstandingFor(x)' =
                 IF x = e.key /\ e.stage = "done" THEN OutstandingFor(x) - 1 ELSE OutstandingFor(x)
<1>1. TypeOK /\ TypeOK' /\ e.key \in Keys
  BY DEF IInv, Fetch
<1>2. i \in Fetching(e.key)
  BY DEF Fetching
<1>3. OutstandingFor(e.key) > 0
  BY <1>1, <1>2, CountedIfThere
<1>4. ASSUME NEW x \in Keys
      PROVE  OutstandingFor(x)' =
                 IF x = e.key /\ e.stage = "done" THEN OutstandingFor(x) - 1 ELSE OutstandingFor(x)
  <2>1. Cardinality(Fetching(x)') =
            Cardinality(Fetching(x)) - (IF x = e.key /\ e.stage = "done" THEN 1 ELSE 0)
    BY <1>1, FetchMoved
  <2>2. Serving(x)' = Serving(x) /\ Queued(x)' = Queued(x)
    BY DEF Serving, Queued
  <2>3. /\ Cardinality(Fetching(x)) \in Nat /\ Cardinality(Queued(x)) \in Nat /\ Serving(x) \in Nat
        /\ OutstandingFor(x) = Cardinality(Queued(x)) + Serving(x) + Cardinality(Fetching(x))
        /\ OutstandingFor(x)' = Cardinality(Queued(x)') + Serving(x)' + Cardinality(Fetching(x)')
    BY <1>1, Counts, CountsNext
  <2>4. Cardinality(Queued(x)') = Cardinality(Queued(x))
    BY <2>2
  <2> QED
    BY <2>1, <2>2, <2>3, <2>4
<1> QED
  BY <1>1, <1>3, <1>4

\* It ends without a result, or goes on.
LEMMA ExchangeRefines ==
    ASSUME IInv, IInv', HeldInv, NEW i \in DOMAIN fetches, NEW e \in Fetch, e.key = fetches[i].key,
           e.rec \in {fetches[i].rec, db[e.key]},
           fetches[i].stage # "done", fetches' = [fetches EXCEPT ![i] = e],
           UNCHANGED <<work_queue, mpc, current, pending, cache, db>>, Asked' = Asked
    PROVE  HeldInv' /\ (Service!Next \/ UNCHANGED Service!vars)
<1>1. /\ e.key \in Keys /\ OutstandingFor(e.key) > 0
      /\ \A x \in Keys : OutstandingFor(x)' =
            IF x = e.key /\ e.stage = "done" THEN OutstandingFor(x) - 1 ELSE OutstandingFor(x)
  BY ExchangeCounts
<1>2. HeldInv' /\ \A x \in Keys : HeldFor(x)' = HeldFor(x)
  <2>1. fetches \in Seq(Fetch)
    BY DEF IInv, TypeOK, Fetch
  <2> QED
    BY <2>1, HeldMoved
<1>3. CASE e.stage = "done"
  <2>1. \A x \in Keys : OutstandingFor(x)' = IF x = e.key THEN OutstandingFor(x) - 1 ELSE OutstandingFor(x)
    BY <1>1, <1>3
  <2> QED
    BY <1>1, <1>2, <2>1, LosesWhen
<1>4. CASE e.stage # "done"
  <2>1. \A x \in Keys : OutstandingFor(x)' = OutstandingFor(x)
    BY <1>1, <1>4
  <2> QED
    BY <1>2, <2>1, StuttersWhen
<1> QED
  BY <1>3, <1>4

LEMMA AnswerRefines ==
    ASSUME IInv, IInv', HeldInv, NEW i \in 1..MaxLookups, Forward(i) \/ AnswerStep(i)
    PROVE  HeldInv' /\ (Service!Next \/ UNCHANGED Service!vars)
<1> USE DEF routerVars, runVars, tables
<1>0. fetches \in Seq(Fetch) /\ i \in DOMAIN fetches /\ fetches[i] \in Fetch
  <2>1. fetches \in Seq(Fetch)
    BY DEF IInv, TypeOK, Fetch
  <2>2. i \in DOMAIN fetches
    BY DEF Forward, AnswerStep, Deliver, CallbackLockPending, CallbackStore, DbAnswer
  <2> QED
    BY <2>1, <2>2
<1>1. ASSUME NEW st \in Stage
      PROVE  LET e == [fetches[i] EXCEPT !.stage = st]
             IN e \in Fetch /\ e.stage = st /\ e.key = fetches[i].key /\ e.rec = fetches[i].rec
  BY <1>0 DEF Fetch
<1>2. ASSUME NEW st \in Stage, fetches[i].stage # "done", Asked' = Asked,
             fetches' = [fetches EXCEPT ![i] = [fetches[i] EXCEPT !.stage = st]],
             UNCHANGED <<work_queue, mpc, current, pending, cache, db>>
      PROVE  HeldInv' /\ (Service!Next \/ UNCHANGED Service!vars)
  BY <1>0, <1>1, <1>2, ExchangeRefines
<1>3. CASE Forward(i)
  <2>1. PICK st \in {"to_db", "to_miniclient"} :
          /\ fetches[i].stage \in {"to_router", "answered"}
          /\ fetches' = [fetches EXCEPT ![i] = [fetches[i] EXCEPT !.stage = st]]
    BY <1>3 DEF Forward
  <2>2. st \in Stage /\ Asked' = Asked /\ UNCHANGED <<work_queue, mpc, current, pending, cache, db>>
    BY <1>3 DEF Forward, Stage, Asked
  <2> QED
    BY <1>2, <2>1, <2>2
<1>4. CASE Deliver(i)
  <2>1. PICK st \in {"cb_start", "done"} :
          /\ fetches[i].stage = "to_miniclient"
          /\ fetches' = [fetches EXCEPT ![i] = [fetches[i] EXCEPT !.stage = st]]
    BY <1>4 DEF Deliver
  <2>2. st \in Stage /\ Asked' = Asked /\ UNCHANGED <<work_queue, mpc, current, pending, cache, db>>
    BY <1>4 DEF Deliver, Stage, Asked
  <2> QED
    BY <1>2, <2>1, <2>2
<1>5. CASE CallbackLockPending(i)
  <2>1. PICK st \in {"done", "cb_pending_locked"} :
          /\ fetches[i].stage = "cb_start"
          /\ fetches' = [fetches EXCEPT ![i] = [fetches[i] EXCEPT !.stage = st]]
    BY <1>5 DEF CallbackLockPending
  <2>2. st \in Stage /\ Asked' = Asked /\ UNCHANGED <<work_queue, mpc, current, pending, cache, db>>
    BY <1>5 DEF CallbackLockPending, Stage, Asked
  <2> QED
    BY <1>2, <2>1, <2>2
<1>6. CASE DbAnswer(i)
  <2> DEFINE e == [fetches[i] EXCEPT !.stage = "answered", !.rec = db[fetches[i].key]]
  <2>1. fetches[i].stage = "to_db" /\ fetches' = [fetches EXCEPT ![i] = e]
    BY <1>0, <1>6 DEF DbAnswer
  <2>2. e \in Fetch /\ e.key = fetches[i].key /\ e.rec = db[e.key]
    BY <1>0 DEF Fetch, Stage, IInv, TypeOK
  <2>3. Asked' = Asked /\ UNCHANGED <<work_queue, mpc, current, pending, cache, db>>
    BY <1>6 DEF DbAnswer, Asked
  <2> HIDE DEF e
  <2> QED
    BY <1>0, <2>1, <2>2, <2>3, ExchangeRefines
<1>7. CASE CallbackStore(i)
  <2> DEFINE e == [fetches[i] EXCEPT !.stage = "done"]
             k == fetches[i].key
             r == fetches[i].rec
  <2>1. /\ fetches[i].stage = "cb_pending_locked" /\ fetches' = [fetches EXCEPT ![i] = e]
        /\ pending' = With(pending, k, r) /\ cache' = With(cache, k, r) /\ Asked' = Asked
        /\ UNCHANGED <<work_queue, mpc, current, db>>
    BY <1>7 DEF CallbackStore, Asked
  <2>2. e \in Fetch /\ e.stage = "done" /\ e.key = k /\ e.rec = r
    <3>1. "done" \in Stage
      BY DEF Stage
    <3> QED
      BY <1>1, <3>1
  <2>3. r \in Record /\ r \in HeldFor(k)
    <3>1. r \in Record
      BY <1>0, <2>1 DEF IInv, LockedAnswerHasRecord
    <3>2. r # NoRecord
      BY <3>1 DEF Record, NoRecord
    <3> QED
      BY <1>0, <3>1, <3>2 DEF HeldInv
  <2> HIDE DEF e, k, r
  <2>4. /\ k \in Keys /\ OutstandingFor(k) > 0
        /\ \A x \in Keys : OutstandingFor(x)' = IF x = k THEN OutstandingFor(x) - 1 ELSE OutstandingFor(x)
    <3>1. e.key = fetches[i].key
      BY <2>2 DEF k
    <3>2. fetches[i].stage # "done"
      BY <2>1
    <3>3. /\ e.key \in Keys /\ OutstandingFor(e.key) > 0
          /\ \A x \in Keys : OutstandingFor(x)' =
                IF x = e.key /\ e.stage = "done" THEN OutstandingFor(x) - 1 ELSE OutstandingFor(x)
      BY <1>0, <2>1, <2>2, <3>1, <3>2, ExchangeCounts
    <3> QED
      BY <2>2, <3>3
  <2>5. \A x : HeldFor(x)' = HeldFor(x)
    BY <2>1 DEF HeldFor
  <2>6. HeldInv'
    <3>1. /\ DOMAIN fetches' = DOMAIN fetches /\ fetches'[i] = e
          /\ \A j \in DOMAIN fetches : j # i => fetches'[j] = fetches[j]
      BY <1>0, <2>1, <2>2, ExceptFetch
    <3>2. /\ DOMAIN cache' = DOMAIN cache \cup {k} /\ cache'[k] = r
          /\ \A x \in DOMAIN cache : x # k => cache'[x] = cache[x]
      <4>1. /\ DOMAIN With(cache, k, r) = DOMAIN cache \cup {k} /\ With(cache, k, r)[k] = r
            /\ \A x \in DOMAIN cache : x # k => With(cache, k, r)[x] = cache[x]
        BY DEF With
      <4>2. cache' = With(cache, k, r)
        BY <2>1
      <4> QED
        BY <4>1, <4>2
    <3>3. pending' = [x \in DOMAIN pending' |-> pending'[x]]
      BY <2>1, TablesOf
    <3>4. \A x \in DOMAIN cache' : cache'[x] \in HeldFor(x)
      BY <2>3, <3>2 DEF HeldInv
    <3>5. \A j \in DOMAIN fetches' :
             fetches'[j].rec # NoRecord => fetches'[j].rec \in HeldFor(fetches'[j].key)
      BY <2>2, <2>3, <3>1 DEF HeldInv
    <3> QED
      BY <2>5, <3>3, <3>4, <3>5 DEF HeldInv
  <2> QED
    BY <2>1, <2>3, <2>4, <2>5, <2>6, ProducesWhen
<1> QED
  BY <1>3, <1>4, <1>5, <1>6, <1>7 DEF AnswerStep

LEMMA RevokeRefines ==
    ASSUME HeldInv, IInv, NEW k \in Keys, Revoke(k)
    PROVE  HeldInv' /\ Service!Next
<1>1. /\ db[k] = "valid" /\ db' = [db EXCEPT ![k] = "revoked"] /\ db \in [Keys -> Record \cup {NoRecord}]
      /\ UNCHANGED <<pending, cache, fetches, work_queue, mpc, current, rpc, asked>>
  BY DEF Revoke, IInv, TypeOK, routerVars, runVars, tables, netVars
<1>2. \A x \in Keys : HeldFor(x)' = IF x = k THEN HeldFor(x) \cup {"revoked"} ELSE HeldFor(x)
  BY <1>1 DEF HeldFor, NoRecord
<1>3. HeldInv'
  <2>1. DOMAIN cache \subseteq Keys /\ \A i \in DOMAIN fetches : fetches[i].key \in Keys
    <3>1. fetches \in Seq(Fetch) /\ DOMAIN cache \subseteq Keys
      BY DEF IInv, TypeOK, Fetch
    <3>2. \A i \in DOMAIN fetches : fetches[i] \in Fetch
      BY <3>1, ElementOfSeq, LenProperties
    <3> QED
      BY <3>1, <3>2 DEF Fetch
  <2>2. \A x \in DOMAIN cache' : cache'[x] \in HeldFor(x)'
    BY <1>1, <1>2, <2>1 DEF HeldInv
  <2>3. \A i \in DOMAIN fetches' : fetches'[i].rec # NoRecord => fetches'[i].rec \in HeldFor(fetches[i].key)'
    BY <1>1, <1>2, <2>1 DEF HeldInv
  <2> QED
    BY <1>1, <2>2, <2>3 DEF HeldInv, HeldFor
<1>4. \A x \in Keys : OutstandingFor(x)' = OutstandingFor(x)
  BY <1>1, CountsSame DEF Serving
<1>5. "revoked" \in Record /\ Asked' = Asked
  BY <1>1 DEF Record, Asked
<1> QED
  BY <1>1, <1>2, <1>3, <1>4, <1>5, UpdatesWhen

\* The mini client implements the lookup service: at most one result per request, of the
\* records cif-db held for that very key, whatever the threads, the cache and the answers do.
THEOREM ImplementsLookupService == Spec => ImplementsKeyLookup
<1>1. Init => Service!Init
  <2> SUFFICES ASSUME Init
               PROVE  Service!Init
    OBVIOUS
  <2>1. rpc = "poll" /\ asked = 0 /\ work_queue = <<>> /\ fetches = <<>> /\ mpc = "starting"
        /\ pending = [k \in {} |-> NoRecord]
    BY DEF Init
  <2>2. \A k \in Keys : OutstandingFor(k) = 0
    <3>1. \A k \in Keys : Queued(k) = {} /\ Fetching(k) = {} /\ Serving(k) = 0
      BY <2>1 DEF Queued, Fetching, Serving
    <3>2. Cardinality({}) = 0
      BY FS_EmptySet
    <3> QED
      BY <3>1, <3>2 DEF OutstandingFor, Queued, Fetching, Serving
  <2>3. \A k \in Keys : HeldFor(k) \in SUBSET Record
    BY DEF Init, HeldFor, Record, NoRecord
  <2>4. pending = [k \in {} |-> k]
    BY <2>1
  <2> QED
    BY <2>1, <2>2, <2>3, <2>4 DEF Service!Init, Service!Idle
<1>2. IInv /\ IInv' /\ HeldInv /\ [Next]_vars => HeldInv' /\ [Service!Next]_(Service!vars)
  <2> SUFFICES ASSUME IInv, IInv', HeldInv, [Next]_vars
               PROVE  HeldInv' /\ (Service!Next \/ UNCHANGED Service!vars)
    OBVIOUS
  <2>1. CASE UNCHANGED vars
    <3>1. UNCHANGED <<pending, cache, fetches, db, work_queue, mpc, current, rpc, asked>>
      BY <2>1 DEF vars, routerVars, runVars, tables, netVars
    <3>2. Asked' = Asked /\ \A x \in Keys : Serving(x)' = Serving(x)
      BY <3>1 DEF Asked, Serving
    <3> QED
      BY <3>1, <3>2, HeldKept, CountsSame, StuttersWhen
  <2>2. CASE RouterStep \/ (\E k \in Keys : LookupApikey(k))
    BY <2>2, RouterRefines
  <2>3. CASE RunStep
    BY <2>3, RunRefines
  <2>4. CASE \E i \in 1..MaxLookups : Forward(i) \/ AnswerStep(i)
    BY <2>4, AnswerRefines
  <2>5. CASE \E k \in Keys : Revoke(k)
    BY <2>5, RevokeRefines
  <2> QED
    BY <2>1, <2>2, <2>3, <2>4, <2>5 DEF Next
<1> QED
  BY <1>1, <1>2, Invariance, HeldInit, PTL DEF Spec, ImplementsKeyLookup, Service!Spec

=============================================================================
