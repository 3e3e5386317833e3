----------------------------- MODULE SmrtProofs -----------------------------
(***************************************************************************)
(* The records of a feed on their way to the router, for any feed, any     *)
(* workers and any size of batches: what the counters of the main thread   *)
(* and of the sender say about the records themselves.                     *)
(***************************************************************************)
EXTENDS Smrt, FiniteSetTheorems, SequenceTheorems, TLAPS

-----------------------------------------------------------------------------
(* How many results records turn into.                                     *)

Yields == yield \in [Records -> 1..MaxYield]

LEMMA SizeTyped ==
    ASSUME Yields, NEW rs \in SUBSET Records
    PROVE  /\ IsFiniteSet(rs) /\ Cardinality(rs) \in Nat
           /\ IsFiniteSet(ResultsOf(rs)) /\ Size(rs) \in Nat
<1>1. IsFiniteSet(rs)
  BY RecordsAssumption, FS_Subset
<1>2. IsFiniteSet(rs \X (1..MaxYield))
  <2>1. IsFiniteSet(1..MaxYield)
    BY BoundsAssumption, FS_Interval
  <2> QED
    BY <1>1, <2>1, FS_Product, Zenon
<1>3. IsFiniteSet(ResultsOf(rs))
  BY <1>2, FS_Subset DEF ResultsOf
<1> QED
  BY <1>1, <1>3, FS_CardinalityType DEF Size

LEMMA SizeEmpty == Size({}) = 0
<1>1. ResultsOf({}) = {}
  BY DEF ResultsOf
<1> QED
  BY <1>1, FS_EmptySet DEF Size

LEMMA SizeOne ==
    ASSUME Yields, NEW r \in Records
    PROVE  Size({r}) = yield[r]
<1>1. yield[r] \in 1..MaxYield
  BY DEF Yields
<1>2. ResultsOf({r}) = {r} \X (1..yield[r])
  BY <1>1, BoundsAssumption DEF ResultsOf
<1>3. /\ IsFiniteSet({r}) /\ Cardinality({r}) = 1
      /\ IsFiniteSet(1..yield[r]) /\ Cardinality(1..yield[r]) = yield[r]
  <2>1. yield[r] \in Int /\ 1 \in Int /\ yield[r] >= 1
    BY <1>1, BoundsAssumption
  <2>2. IsFiniteSet(1..yield[r]) /\ Cardinality(1..yield[r]) = IF 1 > yield[r] THEN 0 ELSE yield[r] - 1 + 1
    BY <2>1, FS_Interval
  <2>3. IsFiniteSet({r}) /\ Cardinality({r}) = 1
    BY FS_Singleton, Zenon
  <2>4. yield[r] - 1 + 1 = yield[r] /\ ~ (1 > yield[r])
    BY <2>1
  <2> QED
    BY <2>2, <2>3, <2>4
<1>4. Cardinality({r} \X (1..yield[r])) = 1 * yield[r]
  <2>1. Cardinality({r} \X (1..yield[r])) = Cardinality({r}) * Cardinality(1..yield[r])
    BY <1>3, FS_Product, Zenon
  <2> QED
    BY <1>3, <2>1
<1> QED
  BY <1>1, <1>2, <1>4, BoundsAssumption DEF Size

LEMMA SizeUnion ==
    ASSUME Yields, NEW rs \in SUBSET Records, NEW qs \in SUBSET Records, rs \cap qs = {}
    PROVE  /\ Size(rs \cup qs) = Size(rs) + Size(qs)
           /\ Cardinality(rs \cup qs) = Cardinality(rs) + Cardinality(qs)
<1>1. ResultsOf(rs \cup qs) = ResultsOf(rs) \cup ResultsOf(qs)
  BY DEF ResultsOf
<1>2. ResultsOf(rs) \cap ResultsOf(qs) = {}
  BY DEF ResultsOf
<1>3. /\ IsFiniteSet(ResultsOf(rs)) /\ IsFiniteSet(ResultsOf(qs)) /\ Size(rs) \in Nat /\ Size(qs) \in Nat
      /\ IsFiniteSet(rs) /\ IsFiniteSet(qs) /\ Cardinality(rs) \in Nat /\ Cardinality(qs) \in Nat
  BY SizeTyped
<1>4. Cardinality(rs \cap qs) = 0 /\ Cardinality(ResultsOf(rs) \cap ResultsOf(qs)) = 0
  BY <1>2, FS_EmptySet, Zenon
<1>5. Cardinality(ResultsOf(rs) \cup ResultsOf(qs)) =
        Cardinality(ResultsOf(rs)) + Cardinality(ResultsOf(qs)) - Cardinality(ResultsOf(rs) \cap ResultsOf(qs))
  BY <1>3, FS_Union
<1>6. Cardinality(rs \cup qs) = Cardinality(rs) + Cardinality(qs) - Cardinality(rs \cap qs)
  BY <1>3, FS_Union
<1>7. Size(rs \cup qs) = Size(rs) + Size(qs)
  <2>1. Size(rs \cup qs) = Cardinality(ResultsOf(rs) \cup ResultsOf(qs))
    BY <1>1, Zenon DEF Size
  <2> QED
    BY <1>3, <1>4, <1>5, <2>1 DEF Size
<1>8. Cardinality(rs \cup qs) = Cardinality(rs) + Cardinality(qs)
  BY <1>3, <1>4, <1>6
<1> QED
  BY <1>7, <1>8

\* Each record turns into one result or more.
LEMMA SizeAtLeast ==
    ASSUME Yields, NEW rs \in SUBSET Records
    PROVE  Cardinality(rs) <= Size(rs)
<1>1. rs \X {1} \subseteq ResultsOf(rs)
  BY BoundsAssumption DEF ResultsOf, Yields
<1>2. IsFiniteSet(rs) /\ IsFiniteSet(ResultsOf(rs)) /\ Cardinality(rs) \in Nat
  BY SizeTyped
<1>3. Cardinality(rs \X {1}) = Cardinality(rs) * 1
  <2>1. IsFiniteSet({1}) /\ Cardinality({1}) = 1
    BY FS_Singleton
  <2>2. Cardinality(rs \X {1}) = Cardinality(rs) * Cardinality({1})
    BY <1>2, <2>1, FS_Product, Zenon
  <2> QED
    BY <2>1, <2>2
<1>4. Cardinality(rs \X {1}) <= Cardinality(ResultsOf(rs))
  BY <1>1, <1>2, FS_Subset
<1> QED
  BY <1>2, <1>3, <1>4 DEF Size

\* As many results as all records turn into come from all records.
LEMMA SizeWhole ==
    ASSUME Yields, NEW rs \in SUBSET Records
    PROVE  Size(rs) <= All /\ (Size(rs) = All => rs = Records)
<1> DEFINE rest == Records \ rs
<1>1. All = Size(rs) + Size(rest)
  <2>1. Records = rs \cup rest /\ rs \cap rest = {}
    OBVIOUS
  <2> QED
    BY <2>1, SizeUnion DEF All
<1>2. Size(rs) \in Nat /\ Size(rest) \in Nat /\ IsFiniteSet(rest) /\ Cardinality(rest) \in Nat
  BY SizeTyped
<1>3. Cardinality(rest) <= Size(rest)
  BY SizeAtLeast
<1>4. Cardinality(rest) = 0 => rest = {}
  BY <1>2, FS_EmptySet
<1> HIDE DEF rest
<1>5. Size(rs) <= All /\ (Size(rs) = All => rest = {})
  BY <1>1, <1>2, <1>3, <1>4
<1> QED
  BY <1>5 DEF rest

\* What records turn into beside themselves.
Extra(rs) == Size(rs) - Cardinality(rs)

LEMMA ExtraTyped ==
    ASSUME Yields, NEW rs \in SUBSET Records
    PROVE  /\ Extra(rs) \in Nat /\ Extra(rs) <= Extra(Records)
           /\ Extra(Records) = All - Cardinality(Records)
<1> DEFINE rest == Records \ rs
<1>1. Size(Records) = Size(rs) + Size(rest) /\ Cardinality(Records) = Cardinality(rs) + Cardinality(rest)
  <2>1. Records = rs \cup rest /\ rs \cap rest = {}
    OBVIOUS
  <2> QED
    BY <2>1, SizeUnion
<1>2. /\ Size(rs) \in Nat /\ Size(rest) \in Nat /\ Cardinality(rs) \in Nat /\ Cardinality(rest) \in Nat
      /\ Cardinality(rs) <= Size(rs) /\ Cardinality(rest) <= Size(rest)
  BY SizeTyped, SizeAtLeast
<1> HIDE DEF rest
<1> QED
  BY <1>1, <1>2 DEF Extra, All

LEMMA ExtraAdd ==
    ASSUME Yields, NEW rs \in SUBSET Records, NEW r \in Records \ rs
    PROVE  Extra(rs \cup {r}) = Extra(rs) + yield[r] - 1
<1>1. Size(rs \cup {r}) = Size(rs) + Size({r}) /\ Cardinality(rs \cup {r}) = Cardinality(rs) + Cardinality({r})
  BY SizeUnion
<1>2. Size({r}) = yield[r] /\ Cardinality({r}) = 1 /\ yield[r] \in Int
  BY SizeOne, FS_Singleton, BoundsAssumption DEF Yields
<1>3. Size(rs) \in Nat /\ Cardinality(rs) \in Nat
  BY SizeTyped
<1> QED
  BY <1>1, <1>2, <1>3 DEF Extra

LEMMA SizeStays ==
    ASSUME UNCHANGED yield
    PROVE  \A rs : Size(rs)' = Size(rs) /\ Extra(rs)' = Extra(rs)
BY DEF Size, ResultsOf, Extra

-----------------------------------------------------------------------------
(* Channels of the workers: what comes in at the end and goes at the head. *)

LEMMA Pushed ==
    ASSUME NEW S, NEW c \in [Workers -> Seq(S)], NEW w \in Workers, NEW m \in S,
           NEW d, d = [c EXCEPT ![w] = Append(@, m)]
    PROVE  LET last == Len(c[w]) + 1
           IN /\ d \in [Workers -> Seq(S)] /\ last \in 1..Len(d[w]) /\ d[w][last] = m
              /\ \A v \in Workers : Len(d[v]) = IF v = w THEN last ELSE Len(c[v])
              /\ \A v \in Workers : \A n \in 1..Len(c[v]) : n \in 1..Len(d[v]) /\ d[v][n] = c[v][n]
              /\ \A v \in Workers : \A n \in 1..Len(d[v]) : n \in 1..Len(c[v]) \/ (v = w /\ n = last)
<1>1. c[w] \in Seq(S)
  OBVIOUS
<1>2. Append(c[w], m) \in Seq(S)
  BY <1>1
<1>3. d[w] = Append(c[w], m) /\ d \in [Workers -> Seq(S)] /\ \A v \in Workers \ {w} : d[v] = c[v]
  BY <1>2
<1>4. /\ Len(Append(c[w], m)) = Len(c[w]) + 1 /\ Append(c[w], m)[Len(c[w]) + 1] = m /\ Len(c[w]) \in Nat
      /\ \A n \in 1..Len(c[w]) : Append(c[w], m)[n] = c[w][n]
  BY <1>1, AppendProperties
<1> QED
  BY <1>3, <1>4

LEMMA Popped ==
    ASSUME NEW S, NEW c \in [Workers -> Seq(S)], NEW w \in Workers, c[w] # <<>>,
           NEW d, d = [c EXCEPT ![w] = Tail(@)]
    PROVE  /\ d \in [Workers -> Seq(S)] /\ 1 \in 1..Len(c[w]) /\ Head(c[w]) = c[w][1] /\ c[w][1] \in S
           /\ \A v \in Workers : Len(d[v]) = IF v = w THEN Len(c[w]) - 1 ELSE Len(c[v])
           /\ \A n \in 1..Len(d[w]) : n + 1 \in 1..Len(c[w]) /\ d[w][n] = c[w][n + 1]
           /\ \A n \in 1..Len(c[w]) : n # 1 => n - 1 \in 1..Len(d[w]) /\ d[w][n - 1] = c[w][n]
           /\ \A v \in Workers : v # w => d[v] = c[v]
<1>1. c[w] \in Seq(S)
  OBVIOUS
<1>2. /\ Tail(c[w]) \in Seq(S) /\ Len(Tail(c[w])) = Len(c[w]) - 1
      /\ \A i \in 1..Len(Tail(c[w])) : Tail(c[w])[i] = c[w][i + 1]
      /\ Head(c[w]) \in S
  BY <1>1, HeadTailProperties
<1>3. d[w] = Tail(c[w]) /\ d \in [Workers -> Seq(S)] /\ \A v \in Workers \ {w} : d[v] = c[v]
  BY <1>2
<1>4. Len(c[w]) \in Nat \ {0} /\ Head(c[w]) = c[w][1]
  BY <1>1, EmptySeq
<1> QED
  BY <1>2, <1>3, <1>4

-----------------------------------------------------------------------------
(* The types that need no counting.                                        *)

Types ==
    /\ Yields /\ batch_control \in BatchControls
    /\ mpc \in {"polling", "summed", "check", "returned"} /\ work_done \in BOOLEAN
    /\ waiting \subseteq Records /\ record \in [Workers -> Records]
    /\ wpc \in [Workers -> {"polling", "convert", "added", "results", "stopped", "dead"}]
    /\ sums \in [Workers -> Seq(0..(MaxYield - 1))] /\ results \in [Workers -> Seq(Records)]
    /\ spc \in {"starting", "polling", "last", "done", "dead"}
    /\ queue \subseteq Records /\ queue_defined \in BOOLEAN

LEMMA InitTypes == Init => Types
<1> SUFFICES ASSUME Init PROVE Types
  OBVIOUS
<1>1. [w \in Workers |-> <<>>] \in [Workers -> Seq(0..(MaxYield - 1))]
  OBVIOUS
<1>2. [w \in Workers |-> <<>>] \in [Workers -> Seq(Records)]
  OBVIOUS
<1> QED
  BY <1>1, <1>2 DEF Init, Types, Yields

LEMMA NextTypes == Types /\ [Next]_vars => Types'
<1> SUFFICES ASSUME Types, [Next]_vars PROVE Types'
  OBVIOUS
<1>1. ASSUME NEW w \in Workers, Take(w) PROVE Types'
  BY <1>1 DEF Take, WorkerGoes, Types, Yields, input, masterVar, senderVar
<1>2. ASSUME NEW w \in Workers, SendAdded(w) PROVE Types'
  <2>1. yield[record[w]] \in 1..MaxYield /\ MaxYield \in Nat
    BY BoundsAssumption DEF Types, Yields
  <2>2. CASE yield[record[w]] > 1
    <3> DEFINE m == yield[record[w]] - 1
    <3>1. m \in 0..(MaxYield - 1) /\ sums' = [sums EXCEPT ![w] = Append(@, m)]
      BY <1>2, <2>1, <2>2 DEF SendAdded, Push
    <3> HIDE DEF m
    <3>2. sums' \in [Workers -> Seq(0..(MaxYield - 1))]
      BY <3>1, Pushed DEF Types
    <3> QED
      BY <1>2, <3>2 DEF SendAdded, WorkerGoes, Types, Yields, input, masterVar, senderVar
  <2> QED
    BY <1>2, <2>2 DEF SendAdded, WorkerGoes, Types, Yields, input, masterVar, senderVar
<1>3. ASSUME NEW w \in Workers, SendResults(w) PROVE Types'
  <2>1. results' \in [Workers -> Seq(Records)]
    BY <1>3, Pushed DEF SendResults, Push, Types
  <2> QED
    BY <1>3, <2>1 DEF SendResults, WorkerGoes, Types, Yields, input, masterVar, senderVar
<1>4. ASSUME NEW w \in Workers, SendCompleted(w) PROVE Types'
  <2>1. COMPLETED \in 0..(MaxYield - 1) /\ sums' = [sums EXCEPT ![w] = Append(@, COMPLETED)]
    BY <1>4, BoundsAssumption DEF SendCompleted, Push, COMPLETED
  <2>2. sums' \in [Workers -> Seq(0..(MaxYield - 1))]
    BY <2>1, Pushed DEF Types
  <2> QED
    BY <1>4, <2>2 DEF SendCompleted, WorkerGoes, Types, Yields, input, masterVar, senderVar
<1>5. ASSUME NEW w \in Workers, WorkerStops(w) \/ WorkerDies(w) PROVE Types'
  BY <1>5 DEF WorkerStops, WorkerDies, WorkerGoes, Types, Yields, input, masterVar, senderVar
<1>6. ASSUME NEW w \in Workers, ReceiveSum(w) PROVE Types'
  <2>1. sums' \in [Workers -> Seq(0..(MaxYield - 1))]
    BY <1>6, Popped DEF ReceiveSum, Types
  <2> QED
    BY <1>6, <2>1 DEF ReceiveSum, Publish, Types, Yields, input, workerVar, senderVar
<1>7. CASE ReceiveReturn \/ CheckDone
  BY <1>7 DEF ReceiveReturn, CheckDone, Publish, Types, Yields, input, workerVar, senderVar
<1>8. CASE Subscribe \/ SenderEnds
  BY <1>8 DEF Subscribe, SenderEnds, Types, Yields, input, masterVar, workerVar
<1>9. \A q \in SUBSET Records : \A total, then : then \in {"last", "done"} /\ SubmitBatch(q, total, then) =>
          spc' \in {"starting", "polling", "last", "done", "dead"} /\ queue' \subseteq Records
  BY DEF SubmitBatch, LeftAfterBatch
<1>10. ASSUME NEW w \in Workers, ServeResults(w) PROVE Types'
  <2>1. results' \in [Workers -> Seq(Records)] /\ Head(results[w]) \in Records
    BY <1>10, Popped DEF ServeResults, Types
  <2>2. spc' \in {"starting", "polling", "last", "done", "dead"} /\ queue' \subseteq Records
    BY <1>9, <1>10, <2>1 DEF ServeResults, Types
  <2> QED
    BY <1>10, <2>1, <2>2 DEF ServeResults, Types, Yields, input, masterVar, workerVar
<1>11. CASE ServeControl
  <2>1. spc' \in {"starting", "polling", "last", "done", "dead"} /\ queue' \subseteq Records
    BY <1>9, <1>11 DEF ServeControl, Types
  <2> QED
    BY <1>11, <2>1 DEF ServeControl, Types, Yields, input, masterVar, workerVar
<1>12. CASE UNCHANGED vars
  BY <1>12 DEF vars, Types, Yields, input, masterVar, workerVar, senderVar
<1> QED
  BY <1>1, <1>2, <1>3, <1>4, <1>5, <1>6, <1>7, <1>8, <1>10, <1>11, <1>12
     DEF Next, WorkerStep, MasterStep, SenderStep

-----------------------------------------------------------------------------
(* What the main thread has counted.  A are the records whose ADDED it has *)
(* received or that need none, C those completed; q are the records that   *)
(* the messages on their way to it are about, worker by worker.            *)

Counted(A, C) ==
    /\ A \subseteq Records /\ C \subseteq A
    /\ \A r \in Records : yield[r] = 1 => r \in A
    /\ master_count = Cardinality(Records) - Cardinality(C)
    /\ total_recs = Cardinality(Records) + Extra(A)

\* The records of the messages, and of each record at most one message of either kind.
About(q) ==
    /\ q \in [Workers -> Seq(Records)] /\ \A w \in Workers : Len(q[w]) = Len(sums[w])
    /\ \A v, w \in Workers : \A m \in 1..Len(sums[v]), n \in 1..Len(sums[w]) :
          q[v][m] = q[w][n] /\ (sums[v][m] = COMPLETED <=> sums[w][n] = COMPLETED) => v = w /\ m = n

\* Message m of w is the ADDED of record r; there is one before message n, or at all.
IsAdded(q, w, m, r)     == q[w][m] = r /\ sums[w][m] # COMPLETED
AddedBefore(q, w, n, r) == \E m \in 1..Len(sums[w]) : m < n /\ IsAdded(q, w, m, r)
AddedSent(q, w, r)      == \E m \in 1..Len(sums[w]) : IsAdded(q, w, m, r)

\* Each message says what it should, and COMPLETED does not overtake ADDED.
OnTheWay(A, C, q) ==
    \A w \in Workers : \A n \in 1..Len(sums[w]) :
        IF sums[w][n] = COMPLETED
        THEN q[w][n] \notin C /\ (q[w][n] \in A \/ AddedBefore(q, w, n, q[w][n]))
        ELSE q[w][n] \notin A /\ sums[w][n] = yield[q[w][n]] - 1

\* Nothing has been said of a record that waits or is being converted, and of one whose
\* results are being sent only ADDED.
Unsaid(A, C, q, r) ==
    /\ r \notin C /\ (r \in A => yield[r] = 1)
    /\ \A w \in Workers : \A n \in 1..Len(sums[w]) : q[w][n] # r
Announced(A, C, q, w, r) ==
    /\ r \notin C /\ (r \in A \/ AddedSent(q, w, r))
    /\ \A v \in Workers : \A n \in 1..Len(sums[v]) : sums[v][n] = COMPLETED => q[v][n] # r
Said(A, C, q) ==
    /\ \A r \in waiting : Unsaid(A, C, q, r)
    /\ \A w \in Workers : wpc[w] = "convert" => Unsaid(A, C, q, record[w])
    /\ \A w \in Workers : wpc[w] \in {"added", "results"} => Announced(A, C, q, w, record[w])

\* No record is worked on by two workers.
Works(w) == wpc[w] \in {"convert", "added", "results"}
WorkApart ==
    /\ \A w \in Workers : Works(w) => record[w] \notin waiting
    /\ \A v, w \in Workers : Works(v) /\ Works(w) /\ record[v] = record[w] => v = w

Tells(A, C, q) == Counted(A, C) /\ About(q) /\ OnTheWay(A, C, q) /\ Said(A, C, q)
Counts == \E A, C \in SUBSET Records : \E q \in [Workers -> Seq(Records)] : Tells(A, C, q)

CInv == Types /\ WorkApart /\ Counts

LEMMA InitCounts == Init => WorkApart /\ Counts
<1> SUFFICES ASSUME Init PROVE WorkApart /\ Counts
  OBVIOUS
<1> DEFINE A == {r \in Records : yield[r] = 1}
           q == [w \in Workers |-> <<>>]
<1>1. Yields
  BY DEF Init, Yields
<1>2. Extra(A) = 0
  <2>1. ResultsOf(A) = A \X {1}
    BY <1>1, BoundsAssumption DEF ResultsOf, Yields
  <2>2. IsFiniteSet(A) /\ Cardinality(A) \in Nat
    BY <1>1, SizeTyped
  <2>3. IsFiniteSet({1}) /\ Cardinality({1}) = 1
    BY FS_Singleton
  <2>4. Cardinality(A \X {1}) = Cardinality(A) * Cardinality({1})
    BY <2>2, <2>3, FS_Product, Zenon
  <2>5. Size(A) = Cardinality(A \X {1})
    BY <2>1, Zenon DEF Size
  <2> HIDE DEF A
  <2> QED
    BY <2>2, <2>3, <2>4, <2>5 DEF Extra
<1>3. Counted(A, {})
  <2>1. Cardinality({}) = 0
    BY FS_EmptySet
  <2>2. Cardinality(Records) \in Nat
    BY <1>1, SizeTyped
  <2>3. A \subseteq Records /\ {} \subseteq A /\ \A r \in Records : yield[r] = 1 => r \in A
    OBVIOUS
  <2> HIDE DEF A
  <2> QED
    BY <1>2, <2>1, <2>2, <2>3 DEF Counted, Init
<1>4. q \in [Workers -> Seq(Records)] /\ \A w \in Workers : q[w] = <<>> /\ sums[w] = <<>>
  BY DEF Init
<1>5. \A w \in Workers : Len(q[w]) = 0 /\ Len(sums[w]) = 0 /\ 1..Len(sums[w]) = {}
  BY <1>4
<1> HIDE DEF q
<1>6. About(q) /\ OnTheWay(A, {}, q)
  BY <1>4, <1>5 DEF About, OnTheWay
<1>7. Said(A, {}, q)
  BY <1>5 DEF Init, Said, Unsaid
<1>8. WorkApart
  BY DEF Init, WorkApart, Works
<1> QED
  BY <1>3, <1>4, <1>6, <1>7, <1>8 DEF Counts, Tells

\* Messages about one record, of one kind, are the same message.
LEMMA OneMessageEach ==
    ASSUME NEW q, About(q), NEW v \in Workers, NEW w \in Workers,
           NEW m \in 1..Len(sums[v]), NEW n \in 1..Len(sums[w])
    PROVE  q[v][m] = q[w][n] /\ (sums[v][m] = COMPLETED <=> sums[w][n] = COMPLETED) => v = w /\ m = n
  BY DEF About

\* Where nothing is sent or counted.
LEMMA SumsStay ==
    ASSUME UNCHANGED <<yield, master_count, total_recs, sums>>, NEW A, NEW C, NEW q, Tells(A, C, q)
    PROVE  Counted(A, C)' /\ About(q)' /\ OnTheWay(A, C, q)'
<1>1. Counted(A, C) => Counted(A, C)'
  BY SizeStays DEF Counted
<1>2. About(q) => About(q)'
  BY DEF About
<1>3. OnTheWay(A, C, q) => OnTheWay(A, C, q)'
  BY DEF OnTheWay, AddedBefore, IsAdded
<1> QED
  BY <1>1, <1>2, <1>3, Zenon DEF Tells

\* A worker's step that sends the main thread nothing.
LEMMA QuietCounts ==
    ASSUME CInv, Types', WorkApart',
           UNCHANGED <<yield, master_count, total_recs, sums>>,
           \A A, C, q : Said(A, C, q) => Said(A, C, q)'
    PROVE  CInv'
<1>1. PICK A \in SUBSET Records, C \in SUBSET Records, q \in [Workers -> Seq(Records)] : Tells(A, C, q)
  BY DEF CInv, Counts
<1>2. Counted(A, C)' /\ About(q)' /\ OnTheWay(A, C, q)'
  BY <1>1, SumsStay, Zenon
<1>3. Said(A, C, q)'
  BY <1>1 DEF Tells
<1> QED
  BY <1>2, <1>3 DEF CInv, Counts, Tells

LEMMA TakeCounts ==
    ASSUME CInv, Types', NEW w \in Workers, Take(w)
    PROVE  CInv'
<1>1. PICK r \in waiting : waiting' = waiting \ {r} /\ record' = [record EXCEPT ![w] = r]
  BY DEF Take
<1>2. /\ wpc[w] = "polling" /\ wpc' = [wpc EXCEPT ![w] = "convert"]
      /\ UNCHANGED <<yield, master_count, total_recs, sums>>
  BY DEF Take, WorkerGoes, input, masterVar
<1>3. /\ wpc'[w] = "convert" /\ record'[w] = r
      /\ \A v \in Workers : v # w => wpc'[v] = wpc[v] /\ record'[v] = record[v]
  BY <1>1, <1>2 DEF CInv, Types
<1>4. WorkApart'
  BY <1>1, <1>3 DEF CInv, WorkApart, Works
<1>5. \A A, C, q : Said(A, C, q) => Said(A, C, q)'
  BY <1>1, <1>2, <1>3 DEF Said, Unsaid, Announced, AddedSent, IsAdded
<1> QED
  BY <1>2, <1>4, <1>5, QuietCounts

LEMMA SendCounts ==
    ASSUME CInv, Types', NEW w \in Workers, SendResults(w) \/ WorkerStops(w) \/ WorkerDies(w)
    PROVE  CInv'
<1>1. UNCHANGED <<yield, master_count, total_recs, sums, waiting, record>>
  BY DEF SendResults, WorkerStops, WorkerDies, input, masterVar
<1>2. /\ \A v \in Workers : v # w => wpc'[v] = wpc[v]
      /\ wpc'[w] = "results" => wpc[w] = "added"
      /\ wpc'[w] \in {"results", "stopped", "dead"}
  BY DEF CInv, Types, SendResults, WorkerStops, WorkerDies, WorkerGoes
<1>3. WorkApart'
  BY <1>1, <1>2 DEF CInv, WorkApart, Works
<1>4. \A A, C, q : Said(A, C, q) => Said(A, C, q)'
  BY <1>1, <1>2 DEF Said, Unsaid, Announced, AddedSent, IsAdded
<1> QED
  BY <1>1, <1>3, <1>4, QuietCounts

\* ADDED: nothing had been said of the record.
LEMMA AddedCounts ==
    ASSUME CInv, Types', NEW w \in Workers, SendAdded(w)
    PROVE  CInv'
<1>0. Types /\ WorkApart
  BY DEF CInv
<1>1. PICK A \in SUBSET Records, C \in SUBSET Records, q \in [Workers -> Seq(Records)] : Tells(A, C, q)
  BY DEF CInv, Counts
<1>2. PICK r \in Records : r = record[w]
  BY <1>0 DEF Types
<1>3. /\ UNCHANGED <<yield, master_count, total_recs, waiting, record>>
      /\ wpc[w] = "convert" /\ wpc'[w] = "added" /\ \A v \in Workers : v # w => wpc'[v] = wpc[v]
  BY <1>0 DEF SendAdded, WorkerGoes, input, masterVar, Types
<1>4. WorkApart'
  BY <1>0, <1>3 DEF WorkApart, Works
<1>5. Unsaid(A, C, q, r)
  BY <1>1, <1>2, <1>3 DEF Tells, Said
<1>6. CASE UNCHANGED sums /\ yield[r] <= 1
  <2>1. yield[r] = 1 /\ r \in A
    BY <1>0, <1>1, <1>6, BoundsAssumption DEF Types, Yields, Tells, Counted
  <2>2. Counted(A, C)' /\ About(q)' /\ OnTheWay(A, C, q)'
    <3>1. UNCHANGED <<yield, master_count, total_recs, sums>>
      BY <1>3, <1>6
    <3> QED
      BY <1>1, <3>1, SumsStay, Zenon
  <2>3. Said(A, C, q)'
    <3>1. \A x : Unsaid(A, C, q, x) => Unsaid(A, C, q, x)'
      BY <1>3, <1>6 DEF Unsaid
    <3>2. \A v, x : Announced(A, C, q, v, x) => Announced(A, C, q, v, x)'
      BY <1>6 DEF Announced, AddedSent, IsAdded
    <3>3. Announced(A, C, q, w, r)'
      BY <1>5, <1>6, <2>1 DEF Announced, Unsaid
    <3> QED
      BY <1>1, <1>2, <1>3, <3>1, <3>2, <3>3 DEF Tells, Said
  <2> QED
    BY <1>4, <2>2, <2>3 DEF CInv, Counts, Tells
<1>7. CASE sums' = Push(sums, w, yield[r] - 1) /\ yield[r] > 1
  <2> DEFINE q2 == [q EXCEPT ![w] = Append(@, r)]
             last == Len(sums[w]) + 1
  <2>1. /\ last \in 1..Len(sums'[w]) /\ sums'[w][last] = yield[r] - 1
        /\ \A v \in Workers : Len(sums'[v]) = IF v = w THEN last ELSE Len(sums[v])
        /\ \A v \in Workers : \A n \in 1..Len(sums[v]) : n \in 1..Len(sums'[v]) /\ sums'[v][n] = sums[v][n]
        /\ \A v \in Workers : \A n \in 1..Len(sums'[v]) : n \in 1..Len(sums[v]) \/ (v = w /\ n = last)
    <3> DEFINE m == yield[r] - 1
    <3>1. m \in 0..(MaxYield - 1) /\ sums' = [sums EXCEPT ![w] = Append(@, m)]
      BY <1>0, <1>7, BoundsAssumption DEF Types, Yields, Push
    <3> HIDE DEF m
    <3>2. sums \in [Workers -> Seq(0..(MaxYield - 1))]
      BY <1>0 DEF Types
    <3>3. sums'[w][last] = m
      BY <3>1, <3>2, Pushed
    <3> QED
      BY <3>1, <3>2, <3>3, Pushed DEF m
  <2>2. /\ q2 \in [Workers -> Seq(Records)] /\ q2[w][last] = r
        /\ \A v \in Workers : Len(q2[v]) = IF v = w THEN last ELSE Len(sums[v])
        /\ \A v \in Workers : \A n \in 1..Len(sums[v]) : q2[v][n] = q[v][n]
    <3>1. \A v \in Workers : Len(q[v]) = Len(sums[v])
      BY <1>1 DEF Tells, About
    <3> QED
      BY <3>1, Pushed
  <2> HIDE DEF q2
  <2>3. last \in Int /\ \A v \in Workers : Len(sums[v]) \in Nat /\ Len(sums[v]) < Len(sums[v]) + 1
    <3>1. \A v \in Workers : sums[v] \in Seq(0..(MaxYield - 1))
      BY <1>0 DEF Types
    <3> QED
      BY <3>1
  <2>4. yield[r] - 1 # COMPLETED
    BY <1>0, <1>7, BoundsAssumption DEF Types, Yields, COMPLETED
  <2> HIDE DEF last
  <2>5. Counted(A, C)'
    BY <1>1, <1>3, SizeStays DEF Tells, Counted
  <2>6. About(q2)'
    <3>1. \A v \in Workers : Len(q2[v]) = Len(sums'[v])
      BY <2>1, <2>2
    <3>2. ASSUME NEW u \in Workers, NEW v \in Workers, NEW m \in 1..Len(sums'[u]), NEW n \in 1..Len(sums'[v]),
                 q2[u][m] = q2[v][n], sums'[u][m] = COMPLETED <=> sums'[v][n] = COMPLETED
          PROVE  u = v /\ m = n
      <4>1. CASE m \in 1..Len(sums[u]) /\ n \in 1..Len(sums[v])
        <5>1. /\ sums'[u][m] = sums[u][m] /\ sums'[v][n] = sums[v][n]
              /\ q2[u][m] = q[u][m] /\ q2[v][n] = q[v][n]
          BY <2>1, <2>2, <4>1
        <5>2. q[u][m] = q[v][n] /\ (sums[u][m] = COMPLETED <=> sums[v][n] = COMPLETED) => u = v /\ m = n
          BY <1>1, <4>1, OneMessageEach DEF Tells
        <5> QED
          BY <3>2, <5>1, <5>2
      <4>2. CASE m \in 1..Len(sums[u]) /\ v = w /\ n = last
        BY <1>5, <2>1, <2>2, <3>2, <4>2 DEF Unsaid
      <4>3. CASE n \in 1..Len(sums[v]) /\ u = w /\ m = last
        BY <1>5, <2>1, <2>2, <3>2, <4>3 DEF Unsaid
      <4> QED
        BY <2>1, <4>1, <4>2, <4>3
    <3> QED
      BY <2>2, <3>1, <3>2 DEF About
  <2>7. OnTheWay(A, C, q2)'
    <3> SUFFICES ASSUME NEW v \in Workers, NEW n \in 1..Len(sums'[v])
                 PROVE  IF sums'[v][n] = COMPLETED
                        THEN q2[v][n] \notin C /\ (q2[v][n] \in A \/ AddedBefore(q2, v, n, q2[v][n])')
                        ELSE q2[v][n] \notin A /\ sums'[v][n] = yield'[q2[v][n]] - 1
      BY DEF OnTheWay
    <3>1. CASE n \in 1..Len(sums[v])
      <4>1. \A x : AddedBefore(q, v, n, x) => AddedBefore(q2, v, n, x)'
        BY <2>1, <2>2 DEF AddedBefore, IsAdded
      <4> QED
        BY <1>1, <1>3, <2>1, <2>2, <3>1, <4>1 DEF Tells, OnTheWay
    <3>2. CASE v = w /\ n = last
      BY <1>3, <1>5, <1>7, <2>1, <2>2, <2>4, <3>2 DEF Unsaid
    <3> QED
      BY <2>1, <3>1, <3>2
  <2>8. Said(A, C, q2)'
    <3>1. \A x \in Records : x # r /\ Unsaid(A, C, q, x) => Unsaid(A, C, q2, x)'
      BY <1>3, <2>1, <2>2 DEF Unsaid
    <3>2. \A v \in Workers : \A x \in Records : v # w /\ x # r /\ Announced(A, C, q, v, x) => Announced(A, C, q2, v, x)'
      <4>1. \A v \in Workers : \A x : AddedSent(q, v, x) => AddedSent(q2, v, x)'
        BY <2>1, <2>2 DEF AddedSent, IsAdded
      <4>2. \A x : x # r /\ (\A v \in Workers : \A n \in 1..Len(sums[v]) : sums[v][n] = COMPLETED => q[v][n] # x)
                => \A v \in Workers : \A n \in 1..Len(sums'[v]) : sums'[v][n] = COMPLETED => q2[v][n] # x
        <5> SUFFICES ASSUME NEW x, x # r, NEW v \in Workers, NEW n \in 1..Len(sums'[v]), sums'[v][n] = COMPLETED,
                            \A u \in Workers : \A m \in 1..Len(sums[u]) : sums[u][m] = COMPLETED => q[u][m] # x
                     PROVE  q2[v][n] # x
          OBVIOUS
        <5>1. CASE n \in 1..Len(sums[v])
          BY <2>1, <2>2, <5>1
        <5>2. CASE v = w /\ n = last
          BY <2>2, <5>2
        <5> QED
          BY <2>1, <5>1, <5>2
      <4> QED
        BY <4>1, <4>2 DEF Announced
    <3>3. Announced(A, C, q2, w, r)'
      <4>1. AddedSent(q2, w, r)'
        BY <2>1, <2>2, <2>4 DEF AddedSent, IsAdded
      <4>2. \A v \in Workers : \A n \in 1..Len(sums'[v]) : sums'[v][n] = COMPLETED => q2[v][n] # r
        <5> SUFFICES ASSUME NEW v \in Workers, NEW n \in 1..Len(sums'[v]), sums'[v][n] = COMPLETED
                     PROVE  q2[v][n] # r
          OBVIOUS
        <5>1. CASE n \in 1..Len(sums[v])
          BY <1>5, <2>2, <5>1 DEF Unsaid
        <5>2. CASE v = w /\ n = last
          BY <2>1, <2>4, <5>2
        <5> QED
          BY <2>1, <5>1, <5>2
      <4> QED
        BY <1>5, <4>1, <4>2 DEF Announced, Unsaid
    <3>4. \A v \in Workers : v # w /\ Works(v) => record[v] # r
      BY <1>0, <1>2, <1>3 DEF WorkApart, Works
    <3>5. waiting \subseteq Records \ {r}
      BY <1>0, <1>2, <1>3 DEF WorkApart, Works, Types
    <3>6. \A v \in Workers : record[v] \in Records
      BY <1>0 DEF Types
    <3> QED
      BY <1>1, <1>2, <1>3, <3>1, <3>2, <3>3, <3>4, <3>5, <3>6 DEF Tells, Said, Works
  <2> QED
    BY <1>4, <2>2, <2>5, <2>6, <2>7, <2>8 DEF CInv, Counts, Tells
<1>8. yield[r] \in Int /\ (yield[r] > 1 \/ yield[r] <= 1)
  BY <1>0, BoundsAssumption DEF Types, Yields
<1> QED
  BY <1>2, <1>6, <1>7, <1>8 DEF SendAdded

\* COMPLETED: ADDED has been said, where it was due.
LEMMA CompletedCounts ==
    ASSUME CInv, Types', NEW w \in Workers, SendCompleted(w)
    PROVE  CInv'
<1>0. Types /\ WorkApart
  BY DEF CInv
<1>1. PICK A \in SUBSET Records, C \in SUBSET Records, q \in [Workers -> Seq(Records)] : Tells(A, C, q)
  BY DEF CInv, Counts
<1>2. PICK r \in Records : r = record[w]
  BY <1>0 DEF Types
<1>3. /\ UNCHANGED <<yield, master_count, total_recs, waiting, record>>
      /\ wpc[w] = "results" /\ wpc'[w] = "polling" /\ \A v \in Workers : v # w => wpc'[v] = wpc[v]
  BY <1>0 DEF SendCompleted, WorkerGoes, input, masterVar, Types
<1>4. WorkApart'
  BY <1>0, <1>3 DEF WorkApart, Works
<1>5. Announced(A, C, q, w, r)
  BY <1>1, <1>2, <1>3 DEF Tells, Said
<1> DEFINE q2 == [q EXCEPT ![w] = Append(@, r)]
           last == Len(sums[w]) + 1
<1>6. /\ last \in 1..Len(sums'[w]) /\ sums'[w][last] = COMPLETED
      /\ \A v \in Workers : Len(sums'[v]) = IF v = w THEN last ELSE Len(sums[v])
      /\ \A v \in Workers : \A n \in 1..Len(sums[v]) : n \in 1..Len(sums'[v]) /\ sums'[v][n] = sums[v][n]
      /\ \A v \in Workers : \A n \in 1..Len(sums'[v]) : n \in 1..Len(sums[v]) \/ (v = w /\ n = last)
  <2>1. COMPLETED \in 0..(MaxYield - 1) /\ sums' = [sums EXCEPT ![w] = Append(@, COMPLETED)]
    BY BoundsAssumption DEF SendCompleted, Push, COMPLETED
  <2>2. sums \in [Workers -> Seq(0..(MaxYield - 1))]
    BY <1>0 DEF Types
  <2>3. sums'[w][last] = COMPLETED
    BY <2>1, <2>2, Pushed
  <2> QED
    BY <2>1, <2>2, <2>3, Pushed
<1>7. /\ q2 \in [Workers -> Seq(Records)] /\ q2[w][last] = r
      /\ \A v \in Workers : Len(q2[v]) = IF v = w THEN last ELSE Len(sums[v])
      /\ \A v \in Workers : \A n \in 1..Len(sums[v]) : q2[v][n] = q[v][n]
  <2>1. \A v \in Workers : Len(q[v]) = Len(sums[v])
    BY <1>1 DEF Tells, About
  <2> QED
    BY <2>1, Pushed
<1> HIDE DEF q2
<1>8. \A m \in 1..Len(sums[w]) : m < last
  <2>1. sums[w] \in Seq(0..(MaxYield - 1))
    BY <1>0 DEF Types
  <2> QED
    BY <2>1
<1> HIDE DEF last
<1>9. Counted(A, C)'
  BY <1>1, <1>3, SizeStays DEF Tells, Counted
<1>10. About(q2)'
  <2>1. \A v \in Workers : Len(q2[v]) = Len(sums'[v])
    BY <1>6, <1>7
  <2>2. ASSUME NEW u \in Workers, NEW v \in Workers, NEW m \in 1..Len(sums'[u]), NEW n \in 1..Len(sums'[v]),
               q2[u][m] = q2[v][n], sums'[u][m] = COMPLETED <=> sums'[v][n] = COMPLETED
        PROVE  u = v /\ m = n
    <3>1. CASE m \in 1..Len(sums[u]) /\ n \in 1..Len(sums[v])
      <4>1. /\ sums'[u][m] = sums[u][m] /\ sums'[v][n] = sums[v][n]
            /\ q2[u][m] = q[u][m] /\ q2[v][n] = q[v][n]
        BY <1>6, <1>7, <3>1
      <4>2. q[u][m] = q[v][n] /\ (sums[u][m] = COMPLETED <=> sums[v][n] = COMPLETED) => u = v /\ m = n
        BY <1>1, <3>1, OneMessageEach DEF Tells
      <4> QED
        BY <2>2, <4>1, <4>2
    <3>2. CASE m \in 1..Len(sums[u]) /\ v = w /\ n = last
      BY <1>5, <1>6, <1>7, <2>2, <3>2 DEF Announced
    <3>3. CASE n \in 1..Len(sums[v]) /\ u = w /\ m = last
      BY <1>5, <1>6, <1>7, <2>2, <3>3 DEF Announced
    <3> QED
      BY <1>6, <3>1, <3>2, <3>3
  <2> QED
    BY <1>7, <2>1, <2>2 DEF About
<1>11. \A v \in Workers : \A n, x : AddedBefore(q, v, n, x) => AddedBefore(q2, v, n, x)'
  BY <1>6, <1>7 DEF AddedBefore, IsAdded
<1>12. OnTheWay(A, C, q2)'
  <2> SUFFICES ASSUME NEW v \in Workers, NEW n \in 1..Len(sums'[v])
               PROVE  IF sums'[v][n] = COMPLETED
                      THEN q2[v][n] \notin C /\ (q2[v][n] \in A \/ AddedBefore(q2, v, n, q2[v][n])')
                      ELSE q2[v][n] \notin A /\ sums'[v][n] = yield'[q2[v][n]] - 1
    BY DEF OnTheWay
  <2>1. CASE n \in 1..Len(sums[v])
    BY <1>1, <1>3, <1>6, <1>7, <1>11, <2>1 DEF Tells, OnTheWay
  <2>2. CASE v = w /\ n = last
    <3>1. AddedSent(q, w, r) => AddedBefore(q, w, last, r)
      BY <1>8 DEF AddedSent, AddedBefore
    <3> QED
      BY <1>5, <1>6, <1>7, <1>11, <2>2, <3>1 DEF Announced
  <2> QED
    BY <1>6, <2>1, <2>2
<1>13. Said(A, C, q2)'
  <2>1. ASSUME NEW x \in Records, x # r, Unsaid(A, C, q, x) PROVE Unsaid(A, C, q2, x)'
    <3>1. ASSUME NEW u \in Workers, NEW n \in 1..Len(sums'[u]) PROVE q2[u][n] # x
      <4>1. CASE n \in 1..Len(sums[u])
        BY <1>7, <2>1, <4>1 DEF Unsaid
      <4>2. CASE u = w /\ n = last
        BY <1>7, <2>1, <4>2
      <4> QED
        BY <1>6, <4>1, <4>2
    <3> QED
      BY <1>3, <2>1, <3>1 DEF Unsaid
  <2>2. ASSUME NEW v \in Workers, NEW x \in Records, x # r, Announced(A, C, q, v, x)
        PROVE  Announced(A, C, q2, v, x)'
    <3>1. AddedSent(q, v, x) => AddedSent(q2, v, x)'
      BY <1>6, <1>7 DEF AddedSent, IsAdded
    <3>2. ASSUME NEW u \in Workers, NEW n \in 1..Len(sums'[u]), sums'[u][n] = COMPLETED PROVE q2[u][n] # x
      <4>1. CASE n \in 1..Len(sums[u])
        <5>1. sums[u][n] = COMPLETED /\ q2[u][n] = q[u][n]
          BY <1>6, <1>7, <3>2, <4>1
        <5> QED
          BY <2>2, <4>1, <5>1 DEF Announced
      <4>2. CASE u = w /\ n = last
        BY <1>7, <2>2, <4>2
      <4> QED
        BY <1>6, <4>1, <4>2
    <3> QED
      BY <2>2, <3>1, <3>2 DEF Announced
  <2>3. \A v \in Workers : v # w /\ Works(v) => record[v] # r
    BY <1>0, <1>2, <1>3 DEF WorkApart, Works
  <2>4. waiting \subseteq Records \ {r}
    BY <1>0, <1>2, <1>3 DEF WorkApart, Works, Types
  <2>5. \A v \in Workers : record[v] \in Records
    BY <1>0 DEF Types
  <2> QED
    BY <1>1, <1>3, <2>1, <2>2, <2>3, <2>4, <2>5 DEF Tells, Said, Works
<1> QED
  BY <1>4, <1>7, <1>9, <1>10, <1>12, <1>13 DEF CInv, Counts, Tells

\* A message arrives: of ADDED the record comes into A, of COMPLETED into C.
LEMMA ReceiveCounts ==
    ASSUME CInv, Types', NEW w \in Workers, ReceiveSum(w)
    PROVE  CInv'
<1>0. Types /\ WorkApart
  BY DEF CInv
<1>1. PICK A \in SUBSET Records, C \in SUBSET Records, q \in [Workers -> Seq(Records)] : Tells(A, C, q)
  BY DEF CInv, Counts
<1>2. /\ UNCHANGED <<yield, waiting, record, wpc>>
      /\ sums[w] # <<>> /\ sums' = [sums EXCEPT ![w] = Tail(@)]
      /\ master_count' = IF Head(sums[w]) = COMPLETED THEN master_count - 1 ELSE master_count
      /\ total_recs' = total_recs + Head(sums[w])
  BY DEF ReceiveSum, input, workerVar
<1>3. WorkApart'
  BY <1>0, <1>2 DEF WorkApart, Works
<1> DEFINE q2 == [q EXCEPT ![w] = Tail(@)]
<1>4. /\ 1 \in 1..Len(sums[w]) /\ Head(sums[w]) = sums[w][1]
      /\ \A v \in Workers : Len(sums'[v]) = IF v = w THEN Len(sums[w]) - 1 ELSE Len(sums[v])
      /\ \A n \in 1..Len(sums'[w]) : n + 1 \in 1..Len(sums[w]) /\ sums'[w][n] = sums[w][n + 1]
      /\ \A n \in 1..Len(sums[w]) : n # 1 => n - 1 \in 1..Len(sums'[w]) /\ sums'[w][n - 1] = sums[w][n]
      /\ \A v \in Workers : v # w => sums'[v] = sums[v]
  <2>1. sums \in [Workers -> Seq(0..(MaxYield - 1))]
    BY <1>0 DEF Types
  <2> QED
    BY <1>2, <2>1, Popped
<1>5. /\ q2 \in [Workers -> Seq(Records)]
      /\ \A v \in Workers : Len(q2[v]) = Len(sums'[v])
      /\ \A n \in 1..Len(sums'[w]) : q2[w][n] = q[w][n + 1]
      /\ \A v \in Workers : v # w => q2[v] = q[v]
  <2>1. \A v \in Workers : Len(q[v]) = Len(sums[v])
    BY <1>1 DEF Tells, About
  <2>2. q[w] # <<>>
    BY <1>4, <2>1
  <2>3. \A v \in Workers : Len(q2[v]) = Len(sums'[v])
    BY <1>4, <2>1, <2>2, Popped
  <2> QED
    BY <2>2, <2>3, Popped
<1>6. PICK r \in Records : r = q[w][1]
  BY <1>1, <1>4, Popped DEF Tells, About
<1> HIDE DEF q2
<1>7. PICK done \in BOOLEAN : done = (sums[w][1] = COMPLETED)
  OBVIOUS
<1> DEFINE A2 == IF done THEN A ELSE A \cup {r}
           C2 == IF done THEN C \cup {r} ELSE C
<1>8. IF done THEN r \in A /\ r \notin C ELSE r \notin A /\ sums[w][1] = yield[r] - 1
  <2>1. ~ AddedBefore(q, w, 1, r)
    BY <1>0 DEF AddedBefore
  <2> QED
    BY <1>1, <1>4, <1>6, <1>7, <2>1 DEF Tells, OnTheWay
<1>9. A \subseteq A2 /\ C \subseteq C2 /\ A2 \subseteq A \cup {r} /\ C2 \subseteq C \cup {r} /\ C2 \subseteq A2
  BY <1>1, <1>8 DEF Tells, Counted
<1> HIDE DEF A2, C2
<1>10. Counted(A2, C2)'
  <2>1. Yields /\ Counted(A, C) /\ Cardinality(Records) \in Nat /\ sums[w][1] \in Int
    <3>1. sums \in [Workers -> Seq(0..(MaxYield - 1))]
      BY <1>0 DEF Types
    <3>2. sums[w][1] \in 0..(MaxYield - 1)
      BY <1>2, <3>1, Popped
    <3> QED
      BY <1>0, <1>1, <3>2, SizeTyped, BoundsAssumption DEF Tells, Types
  <2>2. /\ \A x \in Records : yield'[x] = 1 => x \in A2
        /\ A2 \in SUBSET Records /\ C2 \subseteq A2
    BY <1>2, <1>9, <2>1 DEF Counted
  <2>3. CASE done
    <3>1. C2 = C \cup {r} /\ A2 = A
      BY <2>3 DEF A2, C2
    <3>2. IsFiniteSet(C) /\ Cardinality(C) \in Nat
      BY <2>1, SizeTyped
    <3>3. Cardinality(C \cup {r}) = Cardinality(C) + 1
      BY <1>8, <2>3, <3>2, FS_AddElement
    <3>4. master_count' = master_count - 1 /\ total_recs' = total_recs
      <4>1. Head(sums[w]) = COMPLETED
        BY <1>4, <1>7, <2>3
      <4>2. total_recs \in Int
        BY <2>1, ExtraTyped DEF Counted
      <4> QED
        BY <1>2, <4>1, <4>2 DEF COMPLETED
    <3>5. Cardinality(C2) = Cardinality(C) + 1
      BY <3>1, <3>3, Zenon
    <3>6. master_count' = Cardinality(Records) - Cardinality(C2)
      BY <2>1, <3>2, <3>4, <3>5 DEF Counted
    <3> QED
      BY <1>2, <2>1, <2>2, <3>1, <3>4, <3>6, SizeStays DEF Counted
  <2>4. CASE ~ done
    <3>1. C2 = C /\ A2 = A \cup {r} /\ r \in Records \ A
      BY <1>8, <2>4 DEF A2, C2
    <3>2. Extra(A \cup {r}) = Extra(A) + yield[r] - 1 /\ Extra(A) \in Nat
      BY <2>1, <3>1, ExtraAdd, ExtraTyped
    <3>3. master_count' = master_count /\ total_recs' = total_recs + (yield[r] - 1)
      BY <1>2, <1>4, <1>7, <1>8, <2>4
    <3>4. Extra(A2) = Extra(A) + yield[r] - 1
      BY <3>1, <3>2, Zenon
    <3>5. yield[r] \in Int
      BY <2>1, BoundsAssumption DEF Yields
    <3>6. total_recs' = Cardinality(Records) + Extra(A2)
      BY <2>1, <3>2, <3>3, <3>4, <3>5 DEF Counted
    <3> QED
      BY <1>2, <2>1, <2>2, <3>1, <3>3, <3>6, SizeStays DEF Counted
  <2> QED
    BY <2>3, <2>4
<1> DEFINE at(v, n) == IF v = w THEN n + 1 ELSE n
<1>11. \A v \in Workers : \A n \in 1..Len(sums'[v]) :
          /\ at(v, n) \in 1..Len(sums[v]) /\ sums'[v][n] = sums[v][at(v, n)] /\ q2[v][n] = q[v][at(v, n)]
          /\ ~ (v = w /\ at(v, n) = 1)
  BY <1>4, <1>5
<1>12. \A v \in Workers : \A m, n \in 1..Len(sums'[v]) : at(v, m) = at(v, n) => m = n
  OBVIOUS
<1>13. \A v \in Workers : \A m \in 1..Len(sums[v]) :
          ~ (v = w /\ m = 1) => \E n \in 1..Len(sums'[v]) : at(v, n) = m
  BY <1>4
<1>14. \A v \in Workers : \A m, n \in 1..Len(sums'[v]) : at(v, m) < at(v, n) => m < n
  OBVIOUS
<1> HIDE DEF at
<1>15. \A v \in Workers : \A n \in 1..Len(sums[v]) :
          q[v][n] = r /\ (sums[v][n] = COMPLETED <=> done) => v = w /\ n = 1
  <2> SUFFICES ASSUME NEW v \in Workers, NEW n \in 1..Len(sums[v]),
                      q[v][n] = r, sums[v][n] = COMPLETED <=> done
               PROVE  v = w /\ n = 1
    OBVIOUS
  <2>1. q[v][n] = q[w][1] /\ (sums[v][n] = COMPLETED <=> sums[w][1] = COMPLETED) => v = w /\ n = 1
    BY <1>1, <1>4 DEF Tells, About
  <2> QED
    BY <1>6, <1>7, <2>1
<1>16. About(q2)'
  <2>1. ASSUME NEW u \in Workers, NEW v \in Workers, NEW m \in 1..Len(sums'[u]), NEW n \in 1..Len(sums'[v]),
               q2[u][m] = q2[v][n], sums'[u][m] = COMPLETED <=> sums'[v][n] = COMPLETED
        PROVE  u = v /\ m = n
    <3>1. PICK i \in 1..Len(sums[u]) : i = at(u, m) /\ sums'[u][m] = sums[u][i] /\ q2[u][m] = q[u][i]
      BY <1>11
    <3>2. PICK j \in 1..Len(sums[v]) : j = at(v, n) /\ sums'[v][n] = sums[v][j] /\ q2[v][n] = q[v][j]
      BY <1>11
    <3>3. q[u][i] = q[v][j] /\ (sums[u][i] = COMPLETED <=> sums[v][j] = COMPLETED) => u = v /\ i = j
      BY <1>1 DEF Tells, About
    <3>4. u = v /\ i = j
      BY <2>1, <3>1, <3>2, <3>3
    <3> QED
      BY <1>12, <3>1, <3>2, <3>4
  <2> QED
    BY <1>5, <2>1 DEF About
<1>17. ASSUME NEW v \in Workers, NEW i \in 1..Len(sums[v]), NEW x, IsAdded(q, v, i, x)
       PROVE  (x = r /\ ~ done) \/ \E n \in 1..Len(sums'[v]) : at(v, n) = i /\ IsAdded(q2, v, n, x)'
  <2>1. CASE v = w /\ i = 1
    BY <1>6, <1>7, <1>17, <2>1 DEF IsAdded
  <2>2. CASE ~ (v = w /\ i = 1)
    <3>1. PICK n \in 1..Len(sums'[v]) : at(v, n) = i
      BY <1>13, <2>2
    <3>2. sums'[v][n] = sums[v][i] /\ q2[v][n] = q[v][i]
      BY <1>11, <3>1
    <3> QED
      BY <1>17, <3>1, <3>2 DEF IsAdded
  <2> QED
    BY <2>1, <2>2
<1>18. r \in A2
  BY <1>8 DEF A2
<1>19. OnTheWay(A2, C2, q2)'
  <2> SUFFICES ASSUME NEW v \in Workers, NEW n \in 1..Len(sums'[v])
               PROVE  IF sums'[v][n] = COMPLETED
                      THEN q2[v][n] \notin C2 /\ (q2[v][n] \in A2 \/ AddedBefore(q2, v, n, q2[v][n])')
                      ELSE q2[v][n] \notin A2 /\ sums'[v][n] = yield'[q2[v][n]] - 1
    BY DEF OnTheWay
  <2>1. PICK j \in 1..Len(sums[v]) : /\ j = at(v, n) /\ sums'[v][n] = sums[v][j] /\ q2[v][n] = q[v][j]
                                     /\ ~ (v = w /\ j = 1)
    BY <1>11
  <2>2. PICK x : x = q[v][j]
    OBVIOUS
  <2>3. x = r => ~ (sums[v][j] = COMPLETED <=> done)
    BY <1>15, <2>1, <2>2
  <2>4. CASE sums[v][j] = COMPLETED
    <3>1. x \notin C /\ (x \in A \/ AddedBefore(q, v, j, x))
      BY <1>1, <2>2, <2>4 DEF Tells, OnTheWay
    <3>2. x \notin C2
      BY <2>3, <2>4, <3>1 DEF C2
    <3>3. ASSUME AddedBefore(q, v, j, x) PROVE x \in A2 \/ AddedBefore(q2, v, n, x)'
      <4>1. PICK i \in 1..Len(sums[v]) : i < j /\ IsAdded(q, v, i, x)
        BY <3>3 DEF AddedBefore
      <4>2. (x = r /\ ~ done) \/ \E m \in 1..Len(sums'[v]) : at(v, m) = i /\ IsAdded(q2, v, m, x)'
        BY <1>17, <4>1
      <4> QED
        BY <1>14, <1>18, <2>1, <4>1, <4>2 DEF AddedBefore
    <3> QED
      BY <1>9, <2>1, <2>2, <2>4, <3>1, <3>2, <3>3
  <2>5. CASE sums[v][j] # COMPLETED
    <3>1. x \notin A /\ sums[v][j] = yield[x] - 1
      BY <1>1, <2>2, <2>5 DEF Tells, OnTheWay
    <3>2. x \notin A2
      BY <2>3, <2>5, <3>1 DEF A2
    <3> QED
      BY <1>2, <2>1, <2>2, <2>5, <3>1, <3>2
  <2> QED
    BY <2>4, <2>5
<1>20. Said(A2, C2, q2)'
  <2>1. ASSUME NEW x, Unsaid(A, C, q, x) PROVE Unsaid(A2, C2, q2, x)'
    <3>1. x # r
      BY <1>4, <1>6, <2>1 DEF Unsaid
    <3>2. ASSUME NEW v \in Workers, NEW n \in 1..Len(sums'[v]) PROVE q2[v][n] # x
      <4>1. PICK j \in 1..Len(sums[v]) : q2[v][n] = q[v][j]
        BY <1>11
      <4> QED
        BY <2>1, <4>1 DEF Unsaid
    <3> QED
      BY <1>2, <1>9, <2>1, <3>1, <3>2 DEF Unsaid
  <2>2. ASSUME NEW v \in Workers, NEW x, Announced(A, C, q, v, x) PROVE Announced(A2, C2, q2, v, x)'
    <3>1. ~ (x = r /\ done)
      BY <1>4, <1>6, <1>7, <2>2 DEF Announced
    <3>2. ASSUME NEW u \in Workers, NEW n \in 1..Len(sums'[u]), sums'[u][n] = COMPLETED PROVE q2[u][n] # x
      <4>1. PICK j \in 1..Len(sums[u]) : q2[u][n] = q[u][j] /\ sums[u][j] = COMPLETED
        BY <1>11, <3>2
      <4> QED
        BY <2>2, <4>1 DEF Announced
    <3>3. AddedSent(q, v, x) => x \in A2 \/ AddedSent(q2, v, x)'
      BY <1>17, <1>18 DEF AddedSent
    <3>4. x \notin C2
      BY <2>2, <3>1 DEF Announced, C2
    <3> QED
      BY <1>9, <2>2, <3>2, <3>3, <3>4 DEF Announced
  <2> QED
    BY <1>1, <1>2, <2>1, <2>2 DEF Tells, Said
<1> QED
  BY <1>1, <1>3, <1>5, <1>9, <1>10, <1>16, <1>19, <1>20 DEF CInv, Counts, Tells, Counted

\* The rest of the steps does not touch what is counted.
LEMMA CountsKept ==
    ASSUME CInv, Types', UNCHANGED <<yield, master_count, total_recs, workerVar, sums>>
    PROVE  CInv'
<1>1. UNCHANGED <<waiting, wpc, record>>
  BY DEF workerVar
<1>2. WorkApart'
  BY <1>1 DEF CInv, WorkApart, Works
<1>3. \A A, C, q : Said(A, C, q) => Said(A, C, q)'
  BY <1>1 DEF Said, Unsaid, Announced, AddedSent, IsAdded
<1> QED
  BY <1>2, <1>3, QuietCounts

LEMMA NextCounts == CInv /\ [Next]_vars => CInv'
<1> SUFFICES ASSUME CInv, [Next]_vars PROVE CInv'
  OBVIOUS
<1>0. Types'
  BY NextTypes DEF CInv
<1>1. ASSUME NEW w \in Workers, WorkerStep(w) \/ WorkerStops(w) \/ WorkerDies(w) PROVE CInv'
  BY <1>0, <1>1, TakeCounts, AddedCounts, SendCounts, CompletedCounts DEF WorkerStep
<1>2. ASSUME NEW w \in Workers, ReceiveSum(w) PROVE CInv'
  BY <1>0, <1>2, ReceiveCounts
<1>3. CASE ReceiveReturn \/ CheckDone \/ SenderStep \/ UNCHANGED vars
  <2>1. UNCHANGED <<yield, master_count, total_recs, workerVar, sums>>
    BY <1>3 DEF ReceiveReturn, CheckDone, SenderStep, Subscribe, ServeResults, ServeControl, SenderEnds,
                vars, input, masterVar
  <2> QED
    BY <1>0, <2>1, CountsKept
<1> QED
  BY <1>1, <1>2, <1>3 DEF Next, MasterStep

\* The main thread's two counts: when nothing is left to complete, nothing is left to add.
LEMMA CountsExact ==
    ASSUME CInv
    PROVE  /\ Cardinality(Records) \in Nat /\ All \in Nat
           /\ master_count \in 0..Cardinality(Records)
           /\ total_recs \in Cardinality(Records)..All
           /\ master_count = 0 => total_recs = All
<1>1. PICK A \in SUBSET Records, C \in SUBSET Records : Counted(A, C)
  BY DEF CInv, Counts, Tells
<1>2. Yields
  BY DEF CInv, Types
<1>3. /\ Cardinality(Records) \in Nat /\ All \in Nat /\ IsFiniteSet(Records) /\ Cardinality(C) \in Nat
      /\ Extra(A) \in Nat /\ Extra(A) <= Extra(Records) /\ Extra(Records) = All - Cardinality(Records)
  BY <1>2, SizeTyped, ExtraTyped DEF All
<1>4. Cardinality(C) <= Cardinality(Records) /\ (Cardinality(C) = Cardinality(Records) => C = Records)
  BY <1>3, FS_Subset
<1>5. Cardinality(C) = Cardinality(Records) => Extra(A) = Extra(Records)
  BY <1>1, <1>4 DEF Counted
<1> QED
  BY <1>1, <1>3, <1>4, <1>5 DEF Counted

LEMMA TotalKnown == CInv => (master_count = 0 => total_recs = All)
BY CountsExact

-----------------------------------------------------------------------------
(* What the sender is told.                                                *)

Told == sender_total \in {0, All} /\ ctrl \in Seq({WRK_DONE, All})

LEMMA InitTold == Init => CInv /\ Told
BY InitTypes, InitCounts DEF Init, CInv, Told

LEMMA NextTold == CInv /\ CInv' /\ Told /\ [Next]_vars => Told'
<1> SUFFICES ASSUME CInv, CInv', Told, [Next]_vars PROVE Told'
  OBVIOUS
<1>1. UNCHANGED yield
  BY DEF Next, WorkerStep, MasterStep, SenderStep, Take, SendAdded, SendResults, SendCompleted, WorkerStops,
         WorkerDies, ReceiveSum, ReceiveReturn, CheckDone, Subscribe, ServeResults, ServeControl, SenderEnds,
         vars, input
<1>2. All' = All
  BY <1>1, SizeStays DEF All
<1>3. CASE UNCHANGED <<sender_total, ctrl>>
  BY <1>2, <1>3 DEF Told, WRK_DONE
<1>4. ASSUME NEW count, NEW total, Publish(count, total), count = 0 => total = All, UNCHANGED sender_total
      PROVE  Told'
  <2>1. CASE ctrl' = ctrl
    BY <1>3, <1>4, <2>1
  <2>2. CASE ctrl' = ctrl \o <<total, WRK_DONE>> /\ AllCompleted(count)
    <3>1. total = All
      BY <1>4, <2>2 DEF AllCompleted
    <3>2. <<total, WRK_DONE>> \in Seq({WRK_DONE, All})
      BY <3>1
    <3>3. ctrl' \in Seq({WRK_DONE, All})
      BY <2>2, <3>2 DEF Told
    <3> QED
      BY <1>2, <1>4, <3>3 DEF Told, WRK_DONE
  <2> QED
    BY <1>4, <2>1, <2>2 DEF Publish
<1>5. ASSUME NEW w \in Workers, ReceiveSum(w) PROVE Told'
  <2>1. Publish(master_count', total_recs') /\ UNCHANGED sender_total
    BY <1>5 DEF ReceiveSum, senderVar
  <2>2. PICK count, total : count = master_count' /\ total = total_recs'
    OBVIOUS
  <2>3. count = 0 => total = All
    <3>1. (master_count = 0 => total_recs = All)'
      BY TotalKnown, PTL
    <3> QED
      BY <1>2, <2>2, <3>1
  <2> QED
    BY <1>4, <2>1, <2>2, <2>3
<1>6. CASE ReceiveReturn
  <2>1. Publish(master_count, total_recs) /\ UNCHANGED sender_total
    BY <1>6 DEF ReceiveReturn, senderVar
  <2> QED
    BY <1>4, <2>1, CountsExact
<1>7. CASE ServeControl
  <2>1. ctrl # <<>> /\ ctrl' = Tail(ctrl) /\ sender_total' = IF Head(ctrl) = WRK_DONE THEN sender_total ELSE Head(ctrl)
    BY <1>7 DEF ServeControl
  <2>2. ctrl' \in Seq({WRK_DONE, All}) /\ Head(ctrl) \in {WRK_DONE, All}
    BY <2>1, HeadTailProperties DEF Told
  <2> QED
    BY <1>2, <2>1, <2>2 DEF Told, WRK_DONE
<1> QED
  BY <1>3, <1>5, <1>6, <1>7
     DEF Next, WorkerStep, MasterStep, SenderStep, Take, SendAdded, SendResults, SendCompleted, WorkerStops,
         WorkerDies, CheckDone, Subscribe, ServeResults, SenderEnds, vars, senderVar

-----------------------------------------------------------------------------
(* Where the results of a record are, and what the sender has reported: D  *)
(* are the records of the batches that the main thread knows of, b those   *)
(* of the batches whose sizes are on their way to it.                      *)

Submitted == {r \in Records : submitted[r] = 1}

\* The results of r have not been sent.
Fresh(r) ==
    /\ r \notin queue \cup Submitted
    /\ \A w \in Workers : \A n \in 1..Len(results[w]) : results[w][n] # r

\* The results of a record are in one place.
Places ==
    /\ \A r \in waiting : Fresh(r)
    /\ \A w \in Workers : wpc[w] \in {"convert", "added"} => Fresh(record[w])
    /\ \A v, w \in Workers : \A m \in 1..Len(results[v]), n \in 1..Len(results[w]) :
          results[v][m] = results[w][n] => v = w /\ m = n
    /\ \A w \in Workers : \A n \in 1..Len(results[w]) : results[w][n] \notin queue \cup Submitted
    /\ queue \cap Submitted = {}

Reports(D, b) ==
    /\ D \subseteq Submitted /\ returned_recs = Size(D)
    /\ b \in Seq(SUBSET Records) /\ Len(b) = Len(returns)
    /\ \A n \in 1..Len(returns) : returns[n] = Size(b[n]) /\ b[n] \subseteq Submitted \ D
    /\ \A m, n \in 1..Len(returns) : m # n => b[m] \cap b[n] = {}

\* What the sender knows: it ends with all submitted, and with one batch for all it
\* submits all or nothing.
SenderKnows ==
    /\ submitted \in [Records -> 0..1] /\ sent_recs = Size(Submitted)
    /\ spc \in {"last", "done"} => Complete
    /\ All - 1 <= batch_control /\ Submitted # {} => Complete

DInv == /\ CInv /\ Told /\ Places /\ SenderKnows
        /\ returns \in Seq(0..All) /\ (\E D \in SUBSET Records, b \in Seq(SUBSET Records) : Reports(D, b))
        /\ mpc = "returned" => total_recs <= returned_recs

LEMMA InitDInv == Init => DInv
<1> SUFFICES ASSUME Init PROVE DInv
  OBVIOUS
<1>1. CInv /\ Told
  BY InitTold
<1>2. Submitted = {}
  BY DEF Init, Submitted
<1>3. Size(Submitted) = 0
  BY <1>2, SizeEmpty, Zenon
<1>4. \A w \in Workers : results[w] = <<>> /\ 1..Len(results[w]) = {}
  BY DEF Init
<1>5. Places
  BY <1>2, <1>4 DEF Init, Places, Fresh
<1>6. SenderKnows
  BY <1>2, <1>3 DEF Init, SenderKnows
<1>7. Reports({}, <<>>)
  BY SizeEmpty DEF Init, Reports
<1>8. {} \in SUBSET Records /\ <<>> \in Seq(SUBSET Records) /\ returns \in Seq(0..All) /\ mpc # "returned"
  BY DEF Init
<1> QED
  BY <1>1, <1>5, <1>6, <1>7, <1>8 DEF DInv

\* Steps that leave the results where they are.
LEMMA StayDInv ==
    ASSUME DInv, CInv', Told', UNCHANGED <<yield, batch_control, queue, sent_recs, submitted, results>>,
           Places', spc' \in {"last", "done"} => spc \in {"last", "done"},
           UNCHANGED <<returns, returned_recs>>, mpc' = "returned" => total_recs' <= returned_recs'
    PROVE  DInv'
<1>1. Submitted' = Submitted /\ All' = All /\ Complete' = Complete
  BY SizeStays DEF DInv, Submitted, All, Complete
<1>2. SenderKnows'
  BY <1>1, SizeStays DEF DInv, SenderKnows
<1>3. \A D, b : Reports(D, b) => Reports(D, b)'
  BY <1>1, SizeStays DEF Reports
<1> QED
  BY <1>1, <1>2, <1>3 DEF DInv

LEMMA WorkerDInv ==
    ASSUME DInv, CInv', Told', NEW w \in Workers, WorkerStep(w) \/ WorkerStops(w) \/ WorkerDies(w)
    PROVE  DInv'
<1>0. Types /\ WorkApart /\ Places /\ mpc # "returned" /\ UNCHANGED <<input, masterVar, senderVar, returns>>
  <2>1. UNCHANGED <<input, masterVar, senderVar, returns>> /\ Running
    BY DEF WorkerStep, WorkerStops, WorkerDies, Take, SendAdded, SendResults, SendCompleted, WorkerGoes
  <2> QED
    BY <2>1 DEF DInv, CInv, Running
<1>1. Submitted' = Submitted /\ queue' = queue
  BY <1>0 DEF Submitted, senderVar
<1>2. CASE SendResults(w)
  <2> DEFINE last == Len(results[w]) + 1
  <2>1. PICK r \in Records : r = record[w]
    BY <1>0 DEF Types
  <2>2. /\ last \in 1..Len(results'[w]) /\ results'[w][last] = r
        /\ \A v \in Workers : \A n \in 1..Len(results[v]) : n \in 1..Len(results'[v]) /\ results'[v][n] = results[v][n]
        /\ \A v \in Workers : \A n \in 1..Len(results'[v]) : n \in 1..Len(results[v]) \/ (v = w /\ n = last)
    <3>1. results' = [results EXCEPT ![w] = Append(@, r)] /\ results \in [Workers -> Seq(Records)]
      BY <1>0, <1>2, <2>1 DEF SendResults, Push, Types
    <3> QED
      BY <3>1, Pushed
  <2> HIDE DEF last
  <2>3. /\ wpc[w] = "added" /\ wpc'[w] = "results" /\ \A v \in Workers : v # w => wpc'[v] = wpc[v]
        /\ UNCHANGED <<waiting, record>>
    BY <1>0, <1>2 DEF SendResults, WorkerGoes, Types
  <2>4. Fresh(r)
    BY <1>0, <2>1, <2>3 DEF Places
  <2>5. ASSUME NEW x, Fresh(x), x # r PROVE Fresh(x)'
    <3>1. ASSUME NEW v \in Workers, NEW n \in 1..Len(results'[v]) PROVE results'[v][n] # x
      <4>1. CASE n \in 1..Len(results[v])
        BY <2>2, <2>5, <4>1 DEF Fresh
      <4>2. CASE v = w /\ n = last
        BY <2>2, <2>5, <4>2
      <4> QED
        BY <2>2, <4>1, <4>2
    <3> QED
      BY <1>1, <2>5, <3>1 DEF Fresh
  <2>6. \A x \in waiting' : Fresh(x)'
    BY <1>0, <2>1, <2>3, <2>5 DEF Places, WorkApart, Works
  <2>7. \A v \in Workers : wpc'[v] \in {"convert", "added"} => Fresh(record[v])'
    <3> SUFFICES ASSUME NEW v \in Workers, wpc'[v] \in {"convert", "added"} PROVE Fresh(record[v])'
      OBVIOUS
    <3>1. PICK x : x = record[v] /\ record'[v] = x
      BY <2>3
    <3>2. Fresh(x) /\ x # r
      BY <1>0, <2>1, <2>3, <3>1 DEF Places, WorkApart, Works
    <3>3. Fresh(x)'
      BY <2>5, <3>2
    <3> QED
      BY <3>1, <3>3
  <2>8. ASSUME NEW u \in Workers, NEW v \in Workers, NEW m \in 1..Len(results'[u]), NEW n \in 1..Len(results'[v]),
               results'[u][m] = results'[v][n]
        PROVE  u = v /\ m = n
    <3>1. CASE m \in 1..Len(results[u]) /\ n \in 1..Len(results[v])
      <4>1. results[u][m] = results[v][n] => u = v /\ m = n
        BY <1>0, <3>1 DEF Places
      <4> QED
        BY <2>2, <2>8, <3>1, <4>1
    <3>2. CASE m \in 1..Len(results[u]) /\ v = w /\ n = last
      BY <2>2, <2>4, <2>8, <3>2 DEF Fresh
    <3>3. CASE n \in 1..Len(results[v]) /\ u = w /\ m = last
      BY <2>2, <2>4, <2>8, <3>3 DEF Fresh
    <3> QED
      BY <2>2, <3>1, <3>2, <3>3
  <2>9. ASSUME NEW v \in Workers, NEW n \in 1..Len(results'[v]) PROVE results'[v][n] \notin queue' \cup Submitted'
    <3>1. CASE n \in 1..Len(results[v])
      BY <1>0, <1>1, <2>2, <3>1 DEF Places
    <3>2. CASE v = w /\ n = last
      BY <1>1, <2>2, <2>4, <3>2 DEF Fresh
    <3> QED
      BY <2>2, <3>1, <3>2
  <2>10. Places'
    BY <1>0, <1>1, <2>6, <2>7, <2>8, <2>9 DEF Places
  <2>11. /\ \A D, b : Reports(D, b) => Reports(D, b)'
         /\ SenderKnows'
    <3>1. UNCHANGED <<yield, batch_control, sent_recs, submitted, spc, returned_recs, returns>>
      BY <1>0 DEF input, masterVar, senderVar
    <3>2. All' = All /\ Complete' = Complete
      BY <3>1, SizeStays DEF All, Complete
    <3> QED
      BY <1>1, <3>1, <3>2, SizeStays DEF DInv, Reports, SenderKnows
  <2>12. All' = All /\ mpc' = mpc /\ returns' = returns
    BY <1>0, SizeStays DEF All, input, masterVar
  <2> QED
    BY <1>0, <2>10, <2>11, <2>12 DEF DInv
<1>3. CASE ~ SendResults(w)
  <2>1. UNCHANGED results
    BY <1>3 DEF WorkerStep, WorkerStops, WorkerDies, Take, SendAdded, SendCompleted
  <2>2. \A x : Fresh(x) => Fresh(x)'
    BY <1>1, <2>1 DEF Fresh
  <2>3. /\ waiting' \subseteq waiting
        /\ \A v \in Workers : wpc'[v] \in {"convert", "added"} =>
              \/ wpc[v] \in {"convert", "added"} /\ record'[v] = record[v]
              \/ record'[v] \in waiting
    <3>1. CASE Take(w)
      BY <1>0, <3>1 DEF Take, WorkerGoes, Types
    <3>2. CASE SendAdded(w) \/ SendCompleted(w) \/ WorkerStops(w) \/ WorkerDies(w)
      BY <1>0, <3>2 DEF SendAdded, SendCompleted, WorkerStops, WorkerDies, WorkerGoes, Types
    <3> QED
      BY <1>3, <3>1, <3>2 DEF WorkerStep
  <2>4. \A v \in Workers : wpc'[v] \in {"convert", "added"} => Fresh(record[v])'
    <3> SUFFICES ASSUME NEW v \in Workers, wpc'[v] \in {"convert", "added"} PROVE Fresh(record[v])'
      OBVIOUS
    <3>1. PICK x : x = record'[v]
      OBVIOUS
    <3>2. Fresh(x)
      BY <1>0, <2>3, <3>1 DEF Places
    <3>3. Fresh(x)'
      BY <2>2, <3>2
    <3> QED
      BY <3>1, <3>3
  <2>5. Places'
    BY <1>0, <1>1, <2>1, <2>2, <2>3, <2>4 DEF Places
  <2>6. UNCHANGED <<yield, batch_control, queue, sent_recs, submitted, spc, returns, returned_recs, mpc>>
    BY <1>0 DEF input, masterVar, senderVar
  <2> QED
    BY <1>0, <2>1, <2>5, <2>6, StayDInv
<1> QED
  BY <1>2, <1>3

LEMMA MasterDInv ==
    ASSUME DInv, CInv', Told', MasterStep
    PROVE  DInv'
<1>0. Types /\ Places /\ mpc # "returned"
  BY DEF DInv, CInv, MasterStep, ReceiveSum, ReceiveReturn, CheckDone
<1>1. /\ UNCHANGED <<yield, batch_control, waiting, wpc, record, results, queue, spc, sent_recs, submitted>>
  BY DEF MasterStep, ReceiveSum, ReceiveReturn, CheckDone, input, workerVar, senderVar
<1>2. Submitted' = Submitted /\ All' = All /\ Complete' = Complete
  BY <1>1, SizeStays DEF Submitted, All, Complete
<1>3. Places'
  <2>1. \A x : Fresh(x) => Fresh(x)'
    BY <1>1, <1>2 DEF Fresh
  <2> QED
    BY <1>0, <1>1, <1>2, <2>1 DEF Places
<1>4. CASE ReceiveReturn
  <2>1. PICK D \in SUBSET Records, b \in Seq(SUBSET Records) : Reports(D, b)
    BY DEF DInv
  <2>2. /\ returns # <<>> /\ returned_recs' = returned_recs + Head(returns) /\ returns' = Tail(returns)
        /\ mpc' = "check"
    BY <1>4 DEF ReceiveReturn
  <2> DEFINE s == b[1]
             d == Tail(b)
  <2>3. /\ returns' \in Seq(0..All) /\ Len(returns') = Len(returns) - 1 /\ Len(returns) \in Nat \ {0}
        /\ Head(returns) = returns[1]
        /\ \A n \in 1..Len(returns') : n + 1 \in 1..Len(returns) /\ returns'[n] = returns[n + 1]
    <3>1. returns \in Seq(0..All)
      BY DEF DInv
    <3>2. Len(returns) \in Nat \ {0}
      BY <2>2, <3>1, EmptySeq
    <3> QED
      BY <2>2, <3>1, <3>2, HeadTailProperties
  <2>4. /\ Len(b) = Len(returns) /\ b \in Seq(SUBSET Records) /\ D \subseteq Submitted
        /\ \A n \in 1..Len(returns) : returns[n] = Size(b[n]) /\ b[n] \subseteq Submitted \ D
        /\ \A m, n \in 1..Len(returns) : m # n => b[m] \cap b[n] = {}
    BY <2>1 DEF Reports
  <2>5. /\ d \in Seq(SUBSET Records) /\ Len(d) = Len(returns')
        /\ \A n \in 1..Len(returns') : d[n] = b[n + 1]
    <3>1. b # <<>>
      BY <2>3, <2>4
    <3> QED
      BY <2>3, <2>4, <3>1, HeadTailProperties
  <2>6. 1 \in 1..Len(returns) /\ returns[1] = Size(s) /\ s \subseteq Submitted \ D /\ s \in SUBSET Records
    BY <2>3, <2>4 DEF Submitted
  <2>7. returned_recs' = Size(D \cup s)
    <3>1. D \in SUBSET Records /\ s \in SUBSET Records /\ D \cap s = {}
      BY <2>6
    <3>2. Size(D \cup s) = Size(D) + Size(s)
      BY <1>0, <3>1, SizeUnion DEF Types
    <3> QED
      BY <2>1, <2>2, <2>3, <2>6, <3>2 DEF Reports
  <2>8. \A n \in 1..Len(returns') : returns'[n] = Size(d[n]) /\ d[n] \subseteq Submitted \ (D \cup s)
    <3> SUFFICES ASSUME NEW n \in 1..Len(returns')
                 PROVE  returns'[n] = Size(d[n]) /\ d[n] \subseteq Submitted \ (D \cup s)
      OBVIOUS
    <3>1. PICK i \in 1..Len(returns) : i = n + 1 /\ returns'[n] = returns[i] /\ d[n] = b[i]
      BY <2>3, <2>5
    <3>2. i # 1
      BY <2>3, <3>1
    <3>3. b[i] \cap s = {} /\ returns[i] = Size(b[i]) /\ b[i] \subseteq Submitted \ D
      BY <2>4, <2>6, <3>2
    <3> QED
      BY <3>1, <3>3
  <2>9. \A m, n \in 1..Len(returns') : m # n => d[m] \cap d[n] = {}
    <3> SUFFICES ASSUME NEW m \in 1..Len(returns'), NEW n \in 1..Len(returns'), m # n
                 PROVE  d[m] \cap d[n] = {}
      OBVIOUS
    <3>1. m + 1 \in 1..Len(returns) /\ n + 1 \in 1..Len(returns) /\ m + 1 # n + 1
      BY <2>3
    <3> QED
      BY <2>4, <2>5, <3>1
  <2> HIDE DEF d, s
  <2>10. PICK E \in SUBSET Records, c \in Seq(SUBSET Records) : E = D \cup s /\ c = d
    BY <2>5, <2>6
  <2>11. Reports(E, c)'
    <3>1. E \subseteq Submitted
      BY <2>4, <2>6, <2>10
    <3>2. returned_recs' = Size(E)
      BY <2>7, <2>10, Zenon
    <3>3. \A n \in 1..Len(returns') : returns'[n] = Size(c[n]) /\ c[n] \subseteq Submitted \ E
      BY <2>8, <2>10
    <3> QED
      BY <1>1, <1>2, <2>5, <2>9, <2>10, <3>1, <3>2, <3>3, SizeStays DEF Reports
  <2>12. SenderKnows'
    BY <1>1, <1>2, SizeStays DEF DInv, SenderKnows
  <2> QED
    BY <1>2, <1>3, <2>2, <2>3, <2>11, <2>12 DEF DInv
<1>5. CASE CheckDone
  <2>1. UNCHANGED <<returns, returned_recs, total_recs>>
    BY <1>5 DEF CheckDone
  <2>2. total_recs \in Int
    BY CountsExact DEF DInv
  <2>3. returned_recs \in Int
    <3>1. PICK D \in SUBSET Records : returned_recs = Size(D)
      BY DEF DInv, Reports
    <3> QED
      BY <1>0, <3>1, SizeTyped DEF Types
  <2>4. mpc' = "returned" => total_recs' <= returned_recs'
    BY <1>5, <2>1, <2>2, <2>3 DEF CheckDone
  <2> QED
    BY <1>1, <1>3, <2>1, <2>4, StayDInv
<1>6. CASE \E w \in Workers : ReceiveSum(w)
  <2>1. UNCHANGED <<returns, returned_recs>> /\ mpc' # "returned"
    BY <1>6 DEF ReceiveSum
  <2> QED
    BY <1>1, <1>3, <2>1, StayDInv
<1> QED
  BY <1>4, <1>5, <1>6 DEF MasterStep

\* What a batch of the records q may do: q are none of those submitted.
LEMMA SubmitDInv ==
    ASSUME DInv, NEW q \in SUBSET Records, q \cap Submitted = {}, NEW total \in {0, All},
           NEW then, SubmitBatch(q, total, then),
           spc \in {"polling", "last"}, UNCHANGED <<yield, batch_control, returned_recs>>
    PROVE  /\ SenderKnows' /\ returns' \in Seq(0..All)' /\ \E D \in SUBSET Records, b \in Seq(SUBSET Records) : Reports(D, b)'
           /\ queue' \subseteq q /\ (queue' \cup Submitted') \subseteq q \cup Submitted /\ queue' \cap Submitted' = {}
<1>0. /\ Types /\ Yields /\ SenderKnows /\ returns \in Seq(0..All) /\ All \in Nat /\ Size(q) \in Nat
      /\ Size(Submitted) \in Nat /\ Size(q) <= All
  <2>1. Types /\ Yields /\ SenderKnows /\ returns \in Seq(0..All)
    BY DEF DInv, CInv, Types
  <2>2. Submitted \in SUBSET Records
    BY DEF Submitted
  <2> QED
    BY <2>1, <2>2, SizeTyped, SizeWhole DEF All
<1>1. All' = All /\ Seq(0..All)' = Seq(0..All)
  BY SizeStays DEF All
<1>2. PICK D \in SUBSET Records, b \in Seq(SUBSET Records) : Reports(D, b)
  BY DEF DInv
<1>3. Complete <=> Submitted = Records
  BY DEF Complete, Submitted
<1>4. Complete' <=> Submitted' = Records
  BY DEF Complete, Submitted
<1>5. CASE UNCHANGED <<submitted, returns, sent_recs>> /\ queue' = q /\ spc' \in {"polling", "dead"}
  <2>1. Submitted' = Submitted
    BY <1>5 DEF Submitted
  <2>2. SenderKnows'
    BY <1>0, <1>1, <1>3, <1>4, <1>5, <2>1, SizeStays DEF SenderKnows
  <2>3. Reports(D, b)'
    BY <1>2, <1>5, <2>1, SizeStays DEF Reports
  <2> QED
    BY <1>0, <1>1, <1>5, <2>1, <2>2, <2>3
<1>6. CASE /\ submitted' = [r \in Records |-> submitted[r] + IF r \in q THEN 1 ELSE 0]
           /\ returns' = Append(returns, Size(q)) /\ sent_recs' = sent_recs + Size(q) /\ queue' = {}
           /\ spc' = IF IsDone(q, total) THEN then ELSE "polling"
           /\ Size(q) - 1 > batch_control \/ IsDone(q, total)
  <2>1. submitted' \in [Records -> 0..1] /\ Submitted' = Submitted \cup q
    <3>1. \A r \in Records : submitted[r] \in {0, 1} /\ (r \in q => submitted[r] = 0)
      BY <1>0 DEF SenderKnows, Submitted
    <3> QED
      BY <1>6, <3>1 DEF Submitted
  <2>2. Size(Submitted \cup q) = Size(Submitted) + Size(q)
    <3>1. Submitted \in SUBSET Records /\ Submitted \cap q = {}
      BY DEF Submitted
    <3> QED
      BY <1>0, <3>1, SizeUnion
  <2>3. sent_recs' = Size(Submitted)'
    <3>1. Size(Submitted)' = Size(Submitted \cup q)
      <4>1. PICK x \in SUBSET Records : x = Submitted'
        BY DEF Submitted
      <4>2. Size(x)' = Size(x)
        BY SizeStays
      <4> QED
        BY <2>1, <4>1, <4>2 DEF Size, ResultsOf
    <3> QED
      BY <1>0, <1>6, <2>2, <3>1 DEF SenderKnows
  <2>4. IsDone(q, total) => Submitted \cup q = Records
    <3>1. CASE spc = "last"
      BY <1>0, <1>3, <3>1 DEF SenderKnows
    <3>2. CASE total = All /\ sent_recs \in {total, total - Size(q)}
      <4>1. Size(Submitted) = All => Submitted = Records
        BY <1>0, SizeWhole DEF Submitted
      <4>2. Submitted \cup q \in SUBSET Records
        BY DEF Submitted
      <4>3. Size(Submitted \cup q) = All => Submitted \cup q = Records
        BY <1>0, <4>2, SizeWhole
      <4> QED
        BY <1>0, <2>2, <3>2, <4>1, <4>3 DEF SenderKnows
    <3> QED
      BY <1>0, <3>1, <3>2 DEF IsDone
  <2>5. SenderKnows'
    <3>1. spc' \in {"last", "done"} => Complete'
      BY <1>4, <1>6, <2>1, <2>4
    <3>2. batch_control \in Nat
      BY <1>0, BoundsAssumption DEF Types
    <3>3. All - 1 <= batch_control => Complete'
      BY <1>0, <1>4, <1>6, <2>1, <2>4, <3>2
    <3> QED
      BY <1>1, <2>1, <2>3, <3>1, <3>3 DEF SenderKnows
  <2>6. returns' \in Seq(0..All)
    BY <1>0, <1>6
  <2>7. \E e \in Seq(SUBSET Records) : Reports(D, e)'
    <3> DEFINE e == Append(b, q)
               last == Len(returns) + 1
    <3>1. /\ returns' \in Seq(0..All) /\ Len(returns') = last /\ Len(returns) \in Nat
          /\ returns'[last] = Size(q) /\ \A n \in 1..Len(returns) : returns'[n] = returns[n]
      BY <1>0, <1>6, AppendProperties
    <3>2. /\ e \in Seq(SUBSET Records) /\ Len(e) = last /\ e[last] = q
          /\ \A n \in 1..Len(returns) : e[n] = b[n]
      <4>1. Len(b) = Len(returns)
        BY <1>2 DEF Reports
      <4> QED
        BY <4>1, AppendProperties
    <3>3. /\ D \subseteq Submitted /\ returned_recs = Size(D)
          /\ \A n \in 1..Len(returns) : returns[n] = Size(b[n]) /\ b[n] \subseteq Submitted \ D
          /\ \A m, n \in 1..Len(returns) : m # n => b[m] \cap b[n] = {}
      BY <1>2 DEF Reports
    <3>4. \A n \in 1..Len(returns') : n \in 1..Len(returns) \/ n = last
      BY <3>1
    <3> HIDE DEF e, last
    <3>5. \A n \in 1..Len(returns') : returns'[n] = Size(e[n]) /\ e[n] \subseteq Submitted' \ D
      BY <2>1, <3>1, <3>2, <3>3, <3>4
    <3>6. \A m, n \in 1..Len(returns') : m # n => e[m] \cap e[n] = {}
      <4> SUFFICES ASSUME NEW m \in 1..Len(returns'), NEW n \in 1..Len(returns'), m # n
                   PROVE  e[m] \cap e[n] = {}
        OBVIOUS
      <4>1. CASE m \in 1..Len(returns) /\ n \in 1..Len(returns)
        BY <3>2, <3>3, <4>1
      <4>2. CASE m = last \/ n = last
        BY <3>2, <3>3, <3>4, <4>2
      <4> QED
        BY <3>4, <4>1, <4>2
    <3>7. PICK f \in Seq(SUBSET Records) : f = e
      BY <3>2
    <3>8. Reports(D, f)'
      BY <2>1, <3>1, <3>2, <3>3, <3>5, <3>6, <3>7, SizeStays DEF Reports
    <3> QED
      BY <3>8
  <2> QED
    BY <1>1, <1>6, <2>1, <2>5, <2>6, <2>7
<1> QED
  BY <1>5, <1>6 DEF SubmitBatch, LeftAfterBatch

LEMMA SenderDInv ==
    ASSUME DInv, CInv', Told', SenderStep
    PROVE  DInv'
<1>0. Types /\ Places /\ Told /\ mpc # "returned"
  BY DEF DInv, CInv, SenderStep, Subscribe, ServeResults, ServeControl, SenderEnds, Running
<1>1. UNCHANGED <<yield, batch_control, returned_recs, total_recs, mpc, waiting, wpc, record>>
  BY DEF SenderStep, Subscribe, ServeResults, ServeControl, SenderEnds, input, masterVar, workerVar
<1>2. Seq(0..All)' = Seq(0..All)
  BY <1>1, SizeStays DEF All
<1>3. CASE Subscribe \/ SenderEnds
  <2>1. UNCHANGED <<queue, sent_recs, submitted, results, returns>>
    BY <1>3 DEF Subscribe, SenderEnds
  <2>2. Submitted' = Submitted
    BY <2>1 DEF Submitted
  <2>3. \A x : Fresh(x) => Fresh(x)'
    BY <2>1, <2>2 DEF Fresh
  <2>4. Places'
    BY <1>0, <1>1, <2>1, <2>2, <2>3 DEF Places
  <2>5. spc' \in {"last", "done"} => spc \in {"last", "done"}
    BY <1>3 DEF Subscribe, SenderEnds
  <2> QED
    BY <1>0, <1>1, <2>1, <2>4, <2>5, StayDInv
<1>4. ASSUME NEW w \in Workers, ServeResults(w) PROVE DInv'
  <2>1. /\ results[w] # <<>> /\ results' = [results EXCEPT ![w] = Tail(@)] /\ spc = "polling"
        /\ SubmitBatch(queue \cup {Head(results[w])}, sender_total, "last")
    BY <1>4 DEF ServeResults
  <2>2. /\ 1 \in 1..Len(results[w]) /\ Head(results[w]) = results[w][1] /\ results[w][1] \in Records
        /\ \A n \in 1..Len(results'[w]) : n + 1 \in 1..Len(results[w]) /\ results'[w][n] = results[w][n + 1]
        /\ \A v \in Workers : v # w => results'[v] = results[v]
    BY <1>0, <2>1, Popped DEF Types
  <2>3. PICK r \in Records : r = results[w][1]
    BY <2>2
  <2> DEFINE q == queue \cup {r}
  <2>4. r \notin queue \cup Submitted
    BY <1>0, <2>2, <2>3 DEF Places
  <2>5. q \in SUBSET Records /\ q \cap Submitted = {} /\ SubmitBatch(q, sender_total, "last")
    BY <1>0, <2>1, <2>2, <2>3, <2>4 DEF Types, Places
  <2> HIDE DEF q
  <2>6. /\ SenderKnows' /\ returns' \in Seq(0..All)' /\ \E D \in SUBSET Records, b \in Seq(SUBSET Records) : Reports(D, b)'
        /\ (queue' \cup Submitted') \subseteq q \cup Submitted /\ queue' \cap Submitted' = {}
    BY <1>0, <1>1, <2>1, <2>5, SubmitDInv DEF Told
  <2>7. (queue' \cup Submitted') \subseteq queue \cup Submitted \cup {r}
    BY <2>6 DEF q
  <2>8. \A v \in Workers : \A n \in 1..Len(results'[v]) :
          \E j \in 1..Len(results[v]) : /\ results'[v][n] = results[v][j] /\ ~ (v = w /\ j = 1)
                                        /\ j = IF v = w THEN n + 1 ELSE n
    <3> SUFFICES ASSUME NEW v \in Workers, NEW n \in 1..Len(results'[v])
                 PROVE  \E j \in 1..Len(results[v]) : /\ results'[v][n] = results[v][j] /\ ~ (v = w /\ j = 1)
                                                      /\ j = IF v = w THEN n + 1 ELSE n
      OBVIOUS
    <3>1. CASE v = w
      <4>1. n + 1 \in 1..Len(results[v]) /\ results'[v][n] = results[v][n + 1] /\ n + 1 # 1
        BY <2>2, <3>1
      <4> QED
        BY <3>1, <4>1
    <3>2. CASE v # w
      BY <2>2, <3>2
    <3> QED
      BY <3>1, <3>2
  <2>9. \A v \in Workers : \A j \in 1..Len(results[v]) : results[v][j] = r => v = w /\ j = 1
    BY <1>0, <2>2, <2>3 DEF Places
  <2>10. ASSUME NEW x, Fresh(x) PROVE Fresh(x)'
    <3>1. x # r
      BY <2>2, <2>3, <2>10 DEF Fresh
    <3>2. ASSUME NEW v \in Workers, NEW n \in 1..Len(results'[v]) PROVE results'[v][n] # x
      <4>1. PICK j \in 1..Len(results[v]) : results'[v][n] = results[v][j]
        BY <2>8
      <4> QED
        BY <2>10, <4>1 DEF Fresh
    <3> QED
      BY <2>7, <2>10, <3>1, <3>2 DEF Fresh
  <2>11. ASSUME NEW u \in Workers, NEW v \in Workers, NEW m \in 1..Len(results'[u]), NEW n \in 1..Len(results'[v]),
                results'[u][m] = results'[v][n]
         PROVE  u = v /\ m = n
    <3>1. PICK i \in 1..Len(results[u]) : results'[u][m] = results[u][i] /\ i = IF u = w THEN m + 1 ELSE m
      BY <2>8
    <3>2. PICK j \in 1..Len(results[v]) : results'[v][n] = results[v][j] /\ j = IF v = w THEN n + 1 ELSE n
      BY <2>8
    <3>3. results[u][i] = results[v][j] => u = v /\ i = j
      BY <1>0 DEF Places
    <3>4. u = v /\ i = j
      BY <2>11, <3>1, <3>2, <3>3
    <3>5. m \in Int /\ n \in Int
      OBVIOUS
    <3> QED
      BY <3>1, <3>2, <3>4, <3>5
  <2>12. ASSUME NEW v \in Workers, NEW n \in 1..Len(results'[v]) PROVE results'[v][n] \notin queue' \cup Submitted'
    <3>1. PICK j \in 1..Len(results[v]) : results'[v][n] = results[v][j] /\ ~ (v = w /\ j = 1)
      BY <2>8
    <3>2. results[v][j] # r /\ results[v][j] \notin queue \cup Submitted
      BY <1>0, <2>9, <3>1 DEF Places
    <3> QED
      BY <2>7, <3>1, <3>2
  <2>13. Places'
    BY <1>0, <1>1, <2>6, <2>10, <2>11, <2>12 DEF Places
  <2> QED
    BY <1>0, <1>1, <2>6, <2>13 DEF DInv
<1>5. CASE ServeControl
  <2>1. spc \in {"polling", "last"} /\ UNCHANGED results
    BY <1>5 DEF ServeControl
  <2>2. CASE queue_defined
    <3>1. PICK total : total = sender_total'
      OBVIOUS
    <3>2. total \in {0, All} /\ SubmitBatch(queue, total, "done")
      BY <1>1, <1>5, <2>2, <3>1, SizeStays DEF ServeControl, Told, All
    <3>3. queue \in SUBSET Records /\ queue \cap Submitted = {}
      BY <1>0 DEF Types, Places
    <3>4. /\ SenderKnows' /\ returns' \in Seq(0..All)' /\ \E D \in SUBSET Records, b \in Seq(SUBSET Records) : Reports(D, b)'
          /\ (queue' \cup Submitted') \subseteq queue \cup Submitted /\ queue' \cap Submitted' = {}
      BY <1>1, <2>1, <3>2, <3>3, SubmitDInv
    <3>5. \A x : Fresh(x) => Fresh(x)'
      BY <2>1, <3>4 DEF Fresh
    <3>6. Places'
      BY <1>0, <1>1, <2>1, <3>4, <3>5 DEF Places
    <3> QED
      BY <1>0, <1>1, <3>4, <3>6 DEF DInv
  <2>3. CASE ~ queue_defined
    <3>1. UNCHANGED <<queue, sent_recs, submitted, returns>> /\ spc' = "dead"
      BY <1>5, <2>3 DEF ServeControl
    <3>2. Submitted' = Submitted
      BY <3>1 DEF Submitted
    <3>3. \A x : Fresh(x) => Fresh(x)'
      BY <2>1, <3>1, <3>2 DEF Fresh
    <3>4. Places'
      BY <1>0, <1>1, <2>1, <3>1, <3>2, <3>3 DEF Places
    <3> QED
      BY <1>0, <1>1, <2>1, <3>1, <3>4, StayDInv
  <2> QED
    BY <2>2, <2>3
<1> QED
  BY <1>3, <1>4, <1>5 DEF SenderStep

LEMMA NextDInv == DInv /\ [Next]_vars => DInv'
<1> SUFFICES ASSUME DInv, [Next]_vars PROVE DInv'
  OBVIOUS
<1>0. CInv' /\ Told'
  BY NextCounts, NextTold DEF DInv
<1>1. CASE UNCHANGED vars
  <2>1. UNCHANGED <<yield, batch_control, queue, sent_recs, submitted, results, waiting, wpc, record, spc, returns,
                    returned_recs, mpc, total_recs>>
    BY <1>1 DEF vars, input, masterVar, workerVar, senderVar
  <2>2. Submitted' = Submitted /\ \A x : Fresh(x) => Fresh(x)'
    BY <2>1 DEF Submitted, Fresh
  <2>3. Places'
    BY <2>1, <2>2 DEF DInv, Places
  <2>4. mpc' = "returned" => total_recs' <= returned_recs'
    BY <2>1 DEF DInv
  <2> QED
    BY <1>0, <2>1, <2>3, <2>4, StayDInv
<1> QED
  BY <1>0, <1>1, WorkerDInv, MasterDInv, SenderDInv DEF Next

\* DInv holds in every reachable state of cif_smrt.
LEMMA Invariance == Spec => []DInv
BY InitDInv, NextDInv, PTL DEF Spec

-----------------------------------------------------------------------------
(* The theorems.                                                           *)

\* Variables keep their types: in particular no record is submitted twice, and no counter
\* runs past the records or the results there are.
THEOREM TypeCorrect == Spec => []TypeOK
<1>1. DInv => TypeOK
  <2> SUFFICES ASSUME DInv PROVE TypeOK
    OBVIOUS
  <2>1. /\ Types /\ All \in Nat /\ Cardinality(Records) \in Nat /\ master_count \in 0..Cardinality(Records)
        /\ total_recs \in Cardinality(Records)..All
    BY CountsExact DEF DInv, CInv
  <2>2. total_recs \in 0..All
    BY <2>1
  <2>3. \A rs \in SUBSET Records : Size(rs) \in 0..All
    BY <2>1, SizeTyped, SizeWhole DEF Types
  <2>4. sent_recs \in 0..All
    BY <2>3 DEF DInv, SenderKnows, Submitted
  <2>5. returned_recs \in 0..All
    BY <2>3 DEF DInv, Reports
  <2>6. sender_total \in 0..All /\ {WRK_DONE, All} \subseteq 0..All
    BY <2>1 DEF DInv, Told, WRK_DONE
  <2>7. ctrl \in Seq(0..All)
    BY <2>6, SeqMonotonic DEF DInv, Told
  <2> QED
    BY <2>1, <2>2, <2>4, <2>5, <2>6, <2>7 DEF DInv, SenderKnows, Types, Yields, TypeOK
<1> QED
  BY <1>1, Invariance, PTL

\* Any total the sender is given is the number of results there will be, however the
\* messages of the workers interleave.
THEOREM TotalsAreExact == Spec => []TotalIsExact
<1>1. DInv => TotalIsExact
  BY DEF DInv, Told, TotalIsExact
<1> QED
  BY <1>1, Invariance, PTL

\* When the sender ends, all results of all records have been submitted, once; and also when
\* process() returns, provided no record turns into several or all fit into one batch.
THEOREM EndsWhenComplete == Spec => []EndsComplete
<1>1. DInv => EndsComplete
  <2> SUFFICES ASSUME DInv PROVE EndsComplete
    OBVIOUS
  <2>1. spc \in {"last", "done"} => Complete
    BY DEF DInv, SenderKnows
  <2>2. ASSUME mpc = "returned", All = Cardinality(Records) \/ All - 1 <= batch_control PROVE Complete
    <3>1. /\ Types /\ All \in Nat /\ Cardinality(Records) \in Nat /\ total_recs \in Cardinality(Records)..All
          /\ IsFiniteSet(Records)
      BY CountsExact, RecordsAssumption DEF DInv, CInv
    <3>2. PICK D \in SUBSET Records : D \subseteq Submitted /\ returned_recs = Size(D)
      BY DEF DInv, Reports
    <3>3. total_recs <= Size(D) /\ Size(D) \in Nat /\ Size(D) <= All /\ (Size(D) = All => D = Records)
      BY <2>2, <3>1, <3>2, SizeTyped, SizeWhole DEF DInv, Types
    <3>4. CASE All = Cardinality(Records)
      <4>1. D = Records
        BY <3>1, <3>3, <3>4
      <4> QED
        BY <3>2, <4>1 DEF Complete, Submitted
    <3>5. CASE All - 1 <= batch_control
      <4>1. Cardinality(Records) # 0
        BY <3>1, FS_EmptySet, RecordsAssumption
      <4>2. Size(D) # 0
        BY <3>1, <3>3, <4>1
      <4>3. Submitted # {}
        BY <3>2, <4>2, SizeEmpty
      <4> QED
        BY <3>5, <4>3 DEF DInv, SenderKnows
    <3> QED
      BY <2>2, <3>4, <3>5
  <2> QED
    BY <2>1, <2>2 DEF EndsComplete
<1> QED
  BY <1>1, Invariance, PTL

=============================================================================
