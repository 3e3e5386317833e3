-------------------------------- MODULE Smrt --------------------------------
(***************************************************************************)
(* How cif_smrt gets a feed's records to the router                        *)
(* (smrt/lib/CIF/Smrt.pm): the main thread, process(), hands the records   *)
(* to worker threads; a worker turns a record into one or more results and *)
(* sends them to the sender thread; the sender submits them in batches.    *)
(*                                                                         *)
(* Nobody joins a thread.  Who is finished is found out by counting, with  *)
(* messages over sockets between which there is no order: each worker      *)
(* pushes ADDED and COMPLETED to the main thread and results to the        *)
(* sender, the main thread publishes TOTAL and WRK_DONE, and the sender    *)
(* returns the size of each batch.                                         *)
(***************************************************************************)
EXTENDS Integers, Sequences, FiniteSets

CONSTANTS
    Records,         \* the records of the feed
    Workers,         \* the worker threads
    MaxYield,        \* bound: results one record turns into
    BatchControls,   \* bound: the values batch_control may have
    Faults           \* bound: what may fail, of "submit" and "worker"

ASSUME RecordsAssumption == IsFiniteSet(Records) /\ Records # {}
ASSUME BoundsAssumption == MaxYield \in Nat \ {0} /\ BatchControls \subseteq Nat
ASSUME FaultsAssumption == Faults \subseteq {"submit", "worker"}

VARIABLES
    yield,           \* results each record turns into, the preprocessing done
    batch_control,
    mpc,             \* the main thread: "polling", "summed", "check" or "returned"
    master_count,    \* records not yet completed, as it knows
    total_recs,      \* results to expect, as it knows
    returned_recs,   \* its $sent_recs: results the sender reports
    work_done,       \* whether WRK_DONE has been published
    waiting,         \* records no worker has taken
    wpc,             \* each worker
    record,          \* the record it took last
    sums,            \* worker -> messages on their way to the main thread
    results,         \* worker -> records whose results are on their way to the sender
    spc,             \* the sender: "starting", "polling", "last", "done" or "dead"
    queue,           \* records whose results it holds
    queue_defined,   \* whether it has got any
    sender_total,    \* its $total_recs, 0 while unknown
    sent_recs,       \* its $sent_recs
    ctrl,            \* messages published to it and on their way
    returns,         \* sizes of batches on their way to the main thread
    submitted        \* how often the results of each record were submitted (history)

input     == <<yield, batch_control>>
masterVar == <<mpc, master_count, total_recs, returned_recs, work_done>>
workerVar == <<waiting, wpc, record>>
senderVar == <<spc, queue, queue_defined, sender_total, sent_recs, submitted>>
vars == <<input, masterVar, workerVar, senderVar, sums, results, ctrl, returns>>

\* What a set of records turns into: the results of each, numbered; and how many they are.
ResultsOf(rs) == {x \in rs \X (1..MaxYield) : x[2] <= yield[x[1]]}
Size(rs)      == Cardinality(ResultsOf(rs))

\* The messages COMPLETED:1 and WRK_DONE; a positive number is an ADDED or a TOTAL.
COMPLETED == 0
WRK_DONE  == 0

\* Once process() has returned, cif_smrt exits and takes all threads with it.
Running == mpc # "returned"

Init ==
    /\ yield \in [Records -> 1..MaxYield] /\ batch_control \in BatchControls
    /\ mpc = "polling" /\ master_count = Cardinality(Records)
    /\ total_recs = Cardinality(Records) /\ returned_recs = 0 /\ work_done = FALSE
    /\ waiting = Records /\ wpc = [w \in Workers |-> "polling"]
    /\ record \in {f \in [Workers -> Records] : \A v, w \in Workers : f[v] = f[w]}
    /\ sums = [w \in Workers |-> <<>>] /\ results = [w \in Workers |-> <<>>]
    /\ spc = "starting" /\ queue = {} /\ queue_defined = FALSE
    /\ sender_total = 0 /\ sent_recs = 0
    /\ ctrl = <<>> /\ returns = <<>> /\ submitted = [r \in Records |-> 0]

-----------------------------------------------------------------------------
(* A worker.                                                               *)

WorkerGoes(w, from, to) == Running /\ wpc[w] = from /\ wpc' = [wpc EXCEPT ![w] = to]
Push(channel, w, m) == [channel EXCEPT ![w] = Append(@, m)]

Take(w) ==
    /\ WorkerGoes(w, "polling", "convert")
    /\ \E r \in waiting : waiting' = waiting \ {r} /\ record' = [record EXCEPT ![w] = r]
    /\ UNCHANGED <<input, masterVar, senderVar, sums, results, ctrl, returns>>

\* Mutated: the record itself is counted too.
SendAddedWithItself(w) ==
    /\ WorkerGoes(w, "convert", "added")
    /\ sums' = IF yield[record[w]] > 1 THEN Push(sums, w, yield[record[w]]) ELSE sums
    /\ UNCHANGED <<input, masterVar, waiting, record, senderVar, results, ctrl, returns>>

\* The main thread counts the record itself, so only what it became in addition is sent.
SendAdded(w) ==
    /\ WorkerGoes(w, "convert", "added")
    /\ sums' = IF yield[record[w]] > 1 THEN Push(sums, w, yield[record[w]] - 1) ELSE sums
    /\ UNCHANGED <<input, masterVar, waiting, record, senderVar, results, ctrl, returns>>

SendResults(w) ==
    /\ WorkerGoes(w, "added", "results")
    /\ results' = Push(results, w, record[w])
    /\ UNCHANGED <<input, masterVar, waiting, record, senderVar, sums, ctrl, returns>>

SendCompleted(w) ==
    /\ WorkerGoes(w, "results", "polling")
    /\ sums' = Push(sums, w, COMPLETED)
    /\ UNCHANGED <<input, masterVar, waiting, record, senderVar, results, ctrl, returns>>

WorkerStops(w) ==
    /\ work_done /\ WorkerGoes(w, "polling", "stopped")
    /\ UNCHANGED <<input, masterVar, waiting, record, senderVar, sums, results, ctrl, returns>>

\* Turning the record into IODEF raises, and nothing catches it.
WorkerDies(w) ==
    /\ "worker" \in Faults /\ WorkerGoes(w, "convert", "dead")
    /\ UNCHANGED <<input, masterVar, waiting, record, senderVar, sums, results, ctrl, returns>>

-----------------------------------------------------------------------------
(* The main thread.  In one round of its loop it takes at most one message *)
(* from the workers, then at most one from the sender.                     *)

AllCompleted(count) == count = 0

\* With nothing left to complete, TOTAL and WRK_DONE are published, after every message
\* anew; a sender that is not there yet misses them.
Publish(count, total) ==
    IF AllCompleted(count)
    THEN /\ work_done' = TRUE
         /\ ctrl' = IF spc = "starting" THEN ctrl ELSE ctrl \o <<total, WRK_DONE>>
    ELSE UNCHANGED <<work_done, ctrl>>

ReceiveSum(w) ==
    /\ mpc = "polling" /\ sums[w] # <<>>
    /\ mpc' = "summed"
    /\ sums' = [sums EXCEPT ![w] = Tail(@)]
    /\ master_count' = IF Head(sums[w]) = COMPLETED THEN master_count - 1 ELSE master_count
    /\ total_recs' = total_recs + Head(sums[w])
    /\ Publish(master_count', total_recs')
    /\ UNCHANGED <<input, returned_recs, workerVar, senderVar, results, returns>>

ReceiveReturn ==
    /\ mpc \in {"polling", "summed"} /\ returns # <<>>
    /\ mpc' = "check"
    /\ Publish(master_count, total_recs)
    /\ returned_recs' = returned_recs + Head(returns) /\ returns' = Tail(returns)
    /\ UNCHANGED <<input, master_count, total_recs, workerVar, senderVar, sums, results>>

\* Mutated: it does not wait for the sender.
CheckCompleted ==
    /\ mpc \in {"summed", "check"}
    /\ mpc' = IF master_count > 0 THEN "polling" ELSE "returned"
    /\ UNCHANGED <<input, master_count, total_recs, returned_recs, work_done, workerVar,
                   senderVar, sums, results, ctrl, returns>>

CheckDone ==
    /\ mpc \in {"summed", "check"}
    /\ mpc' = IF returned_recs < total_recs THEN "polling" ELSE "returned"
    /\ UNCHANGED <<input, master_count, total_recs, returned_recs, work_done, workerVar,
                   senderVar, sums, results, ctrl, returns>>

-----------------------------------------------------------------------------
(* The sender.  In one round it takes at most one message from the         *)
(* workers, then at most one from the main thread.                         *)

\* The client has registered with the router, and the sockets are there.
Subscribe ==
    /\ Running /\ spc = "starting" /\ spc' = "polling"
    /\ UNCHANGED <<input, masterVar, workerVar, queue, queue_defined, sender_total, sent_recs,
                   submitted, sums, results, ctrl, returns>>

\* Mutated: what is still in the queue is not counted.
IsDoneWhenSent(q, total) == spc = "last" \/ (total > 0 /\ sent_recs = total)

IsDone(q, total) == spc = "last" \/ (total > 0 /\ sent_recs \in {total, total - Size(q)})

\* Mutated: the queue is not emptied.
LeftAfterBatchAll(q) == q

LeftAfterBatch(q) == {}

\* After each message: a full queue, or the last one, is submitted and its size returned.
\* Should the submission fail, the sender dies of composing its error message.
SubmitBatch(q, total, then) ==
    IF Size(q) - 1 > batch_control \/ IsDone(q, total)
    THEN \/ /\ submitted' = [r \in Records |-> submitted[r] + IF r \in q THEN 1 ELSE 0]
            /\ returns' = Append(returns, Size(q))
            /\ sent_recs' = sent_recs + Size(q) /\ queue' = LeftAfterBatch(q)
            /\ spc' = IF IsDone(q, total) THEN then ELSE "polling"
         \/ /\ "submit" \in Faults /\ spc' = "dead" /\ queue' = q
            /\ UNCHANGED <<submitted, returns, sent_recs>>
    ELSE spc' = "polling" /\ queue' = q /\ UNCHANGED <<submitted, returns, sent_recs>>

ServeResults(w) ==
    /\ Running /\ spc = "polling" /\ results[w] # <<>>
    /\ results' = [results EXCEPT ![w] = Tail(@)]
    /\ queue_defined' = TRUE
    /\ SubmitBatch(queue \cup {Head(results[w])}, sender_total, "last")
    /\ UNCHANGED <<input, masterVar, workerVar, sender_total, sums, ctrl>>

\* Before the first results the queue is undefined: a control message then kills the
\* sender in its own debugging output.
ServeControl ==
    /\ Running /\ spc \in {"polling", "last"} /\ ctrl # <<>>
    /\ ctrl' = Tail(ctrl)
    /\ sender_total' = IF Head(ctrl) = WRK_DONE THEN sender_total ELSE Head(ctrl)
    /\ IF queue_defined THEN SubmitBatch(queue, sender_total', "done")
       ELSE spc' = "dead" /\ UNCHANGED <<queue, submitted, returns, sent_recs>>
    /\ UNCHANGED <<input, masterVar, workerVar, queue_defined, sums, results>>

\* The round in which it was done brought no control message.
SenderEnds ==
    /\ Running /\ spc = "last" /\ spc' = "done"
    /\ UNCHANGED <<input, masterVar, workerVar, queue, queue_defined, sender_total, sent_recs,
                   submitted, sums, results, ctrl, returns>>

-----------------------------------------------------------------------------

WorkerStep(w) == Take(w) \/ SendAdded(w) \/ SendResults(w) \/ SendCompleted(w)
MasterStep    == (\E w \in Workers : ReceiveSum(w)) \/ ReceiveReturn \/ CheckDone
SenderStep    == Subscribe \/ (\E w \in Workers : ServeResults(w)) \/ ServeControl \/ SenderEnds

Next ==
    \/ \E w \in Workers : WorkerStep(w) \/ WorkerStops(w) \/ WorkerDies(w)
    \/ MasterStep \/ SenderStep

\* Every thread is scheduled, and a message that is sent arrives.
Fairness == (\A w \in Workers : WF_vars(WorkerStep(w))) /\ WF_vars(MasterStep) /\ WF_vars(SenderStep)

Spec     == Init /\ [][Next]_vars
FairSpec == Spec /\ Fairness

-----------------------------------------------------------------------------
(* Properties.                                                             *)

All == Size(Records)

TypeOK ==
    /\ yield \in [Records -> 1..MaxYield] /\ batch_control \in BatchControls
    /\ mpc \in {"polling", "summed", "check", "returned"}
    /\ master_count \in 0..Cardinality(Records) /\ total_recs \in 0..All
    /\ returned_recs \in 0..All /\ work_done \in BOOLEAN
    /\ waiting \subseteq Records /\ record \in [Workers -> Records]
    /\ wpc \in [Workers -> {"polling", "convert", "added", "results", "stopped", "dead"}]
    /\ sums \in [Workers -> Seq(0..(MaxYield - 1))] /\ results \in [Workers -> Seq(Records)]
    /\ spc \in {"starting", "polling", "last", "done", "dead"}
    /\ queue \subseteq Records /\ queue_defined \in BOOLEAN
    /\ sender_total \in 0..All /\ sent_recs \in 0..All
    /\ ctrl \in Seq(0..All) /\ returns \in Seq(0..All)
    /\ submitted \in [Records -> 0..1]

\* "we're not done till we at-least have a total from the master thread": any total the
\* sender is given, however early, is the number of results there will be.
TotalIsExact ==
    /\ sender_total \in {0, All}
    /\ \A n \in DOMAIN ctrl : ctrl[n] \in {WRK_DONE, All}

\* All results of all records have been submitted, once: when the sender ends, in whatever
\* order TOTAL and the results reached it, and when cif_smrt reports success, provided no
\* record turns into several, or all fit into one batch.  (Otherwise the size of a batch
\* can reach the main thread before the ADDED of its records, and be taken for the whole.)
Complete == \A r \in Records : submitted[r] = 1
EndsComplete ==
    /\ spc \in {"last", "done"} => Complete
    /\ mpc = "returned" /\ (All = Cardinality(Records) \/ All - 1 <= batch_control) => Complete

\* process() returns, if no thread dies and the sender has subscribed in time.
Undisturbed ==
    /\ spc # "dead" /\ \A w \in Workers : wpc[w] # "dead"
    /\ ~(work_done /\ spc = "starting")
Returns == mpc = "returned"
ProcessReturns == []Undisturbed => <>Returns

=============================================================================
