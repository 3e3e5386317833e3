------------------------------- MODULE Store -------------------------------
(***************************************************************************)
(* How a submission becomes searchable in cif-db, and stops being so: the  *)
(* writer (writeToDb of db/src/poc-db.py), which puts documents into the   *)
(* cif_objs table through a batch; the Exploder, which scans the table     *)
(* from a checkpoint and hands each document to the Indexer; the Indexer,  *)
(* which puts rows into the index table and references to them into        *)
(* cif_objs, through two more batches; and the Purger, which reads which   *)
(* index rows are old and deletes them one by one.  The tables and the     *)
(* checkpoint are in HBase and survive the process; the batches do not.    *)
(*                                                                         *)
(* One server, so one Exploder thread and one salt (hadoop.num_servers is  *)
(* 1 by default), and one index table.                                     *)
(***************************************************************************)
EXTENDS Integers, Sequences, FiniteSets

CONSTANTS
    Addresses,     \* the addresses documents mention
    Unpackable,    \* those of a kind whose packing raises, as IPv6 addresses and ASNs
    Contents,      \* bound: what the n-th document may mention, sequences of addresses
    BatchSize,     \* puts a batch collects before it is sent
    MaxLifespan,   \* index.purge_after, in seconds
    SleepTime,     \* seconds the Exploder sleeps
    MaxDocs,       \* bound: documents submitted
    MaxTime,       \* bound: last clock reading, in seconds
    MaxStops       \* bound: times the process ends and is started again

ASSUME ContentsAssumption ==
    Unpackable \subseteq Addresses /\ \A d \in 1..MaxDocs : Contents[d] \subseteq Seq(Addresses)
ASSUME SizesAssumption ==
    BatchSize \in Nat \ {0} /\ MaxLifespan \in Nat /\ SleepTime \in Nat \ {0}
ASSUME BoundsAssumption == MaxDocs \in Nat /\ MaxTime \in Nat \ {0} /\ MaxStops \in Nat

VARIABLES
    now,
    docs,          \* documents received: [ts, content, put_at]; 0 is "never put"
    batch,         \* the writer's batch: numbers of documents
    checkpoint,    \* exploder.checkpoint in the registry
    epc,           \* where the Exploder is
    endts,         \* the end of its current scan
    todo,          \* documents of the scan it has not indexed yet
    processed,     \* whether it has indexed any
    wake,          \* when its sleep is over
    scanned,       \* documents ever handed to the Indexer (history)
    passed,        \* whether a scan has passed over a document (history)
    index_batch,   \* the Indexer's batch for the index table: [addr, doc]
    index,         \* index table: address -> [doc, at]
    ref_batch,     \* its batch for cif_objs: <<doc, address>>
    refs,          \* references in cif_objs, likewise
    doomed,        \* rows the Purger has read as old and not deleted yet
    purge_at,      \* when it read them (history); 0 when there are none
    stops          \* times the process has ended

exploder == <<checkpoint, epc, endts, todo, processed, wake, scanned, passed>>
indexer  == <<index_batch, index, ref_batch, refs>>
writer   == <<docs, batch>>
purger   == <<doomed, purge_at>>
vars == <<now, writer, exploder, indexer, purger, stops>>

NoDoc  == 0        \* the string "None"
Doc    == 1..MaxDocs
Stored == {d \in DOMAIN docs : docs[d].put_at # 0}

Init ==
    /\ now = 1 /\ docs = <<>> /\ batch = <<>>
    /\ checkpoint = 0 /\ epc = "begin" /\ endts = 0 /\ todo = {} /\ processed = FALSE /\ wake = 0
    /\ scanned = {} /\ passed = FALSE
    /\ index_batch = <<>> /\ index = [a \in {} |-> a] /\ ref_batch = <<>> /\ refs = {}
    /\ doomed = {} /\ purge_at = 0 /\ stops = 0

-----------------------------------------------------------------------------
(* Batches: a batch is sent whenever it holds BatchSize puts.              *)

Sent(b) == SubSeq(b, 1, (Len(b) \div BatchSize) * BatchSize)
Kept(b) == SubSeq(b, (Len(b) \div BatchSize) * BatchSize + 1, Len(b))
Elements(s) == {s[n] : n \in DOMAIN s}

\* Puts on the index table; a later put on a row replaces an earlier one.
LastFor(puts, a) == puts[CHOOSE n \in DOMAIN puts :
                           puts[n].addr = a /\ \A m \in DOMAIN puts : puts[m].addr = a => m <= n]
Rows(puts) == {puts[n].addr : n \in DOMAIN puts}
IndexAfter(puts) ==
    [a \in DOMAIN index \cup Rows(puts) |->
        IF a \in Rows(puts) THEN [doc |-> LastFor(puts, a).doc, at |-> now] ELSE index[a]]

-----------------------------------------------------------------------------
(* The writer.                                                             *)

\* Documents whose puts are in b are in cif_objs from now on.
PutAt(ds, b) ==
    [d \in DOMAIN ds |-> IF d \in Elements(b) THEN [ds[d] EXCEPT !.put_at = now] ELSE ds[d]]

Submit(content) ==
    /\ Len(docs) < MaxDocs /\ content \in Contents[Len(docs) + 1]
    /\ LET b == Append(batch, Len(docs) + 1)
       IN /\ docs' = PutAt(Append(docs, [ts |-> now, content |-> content, put_at |-> 0]), Sent(b))
          /\ batch' = Kept(b)
    /\ UNCHANGED <<now, exploder, indexer, purger, stops>>

-----------------------------------------------------------------------------
(* The Exploder and the Indexer.                                           *)

\* Mutated: a document put one second after it was stamped is missed.
ScanStartAtCheckpoint == IF checkpoint = 0 THEN 1 ELSE checkpoint

\* One second before the checkpoint.
ScanStart == (IF checkpoint = 0 THEN 1 ELSE checkpoint) - 1

\* The rows come in few and are fetched at once.
BeginScan ==
    /\ epc = "begin"
    /\ endts' = now /\ processed' = FALSE
    /\ todo' = {d \in Stored : ScanStart <= docs[d].ts /\ docs[d].ts < now}
    /\ epc' = "scan"
    /\ UNCHANGED <<now, writer, checkpoint, wake, scanned, passed, indexer, purger, stops>>

\* Mutated: rows come in the order of their hashes.
IsNextByHash(d) == d \in todo

\* A rowkey starts with the timestamp, the hash comes after it.
IsNext(d) == d \in todo /\ \A e \in todo : docs[d].ts <= docs[e].ts

\* Indexer.extract commits one row for each address, up to one it cannot pack.
Whole(d)     == \A n \in DOMAIN docs[d].content : docs[d].content[n] \notin Unpackable
Committed(d) == {n \in DOMAIN docs[d].content :
                   \A m \in 1..n : docs[d].content[m] \notin Unpackable}

\* commit() ends with reset(), which forgets the document: what follows the first address
\* is put under "None", and without a reference.
IndexPuts(d) == [n \in 1..Cardinality(Committed(d)) |->
                   [addr |-> docs[d].content[n], doc |-> IF n = 1 THEN d ELSE NoDoc]]
RefPuts(d)   == IF Committed(d) = {} THEN <<>> ELSE << <<d, docs[d].content[1]>> >>

\* The exception of an address that cannot be packed is caught after `processed` was to be
\* counted.
IndexDocument(d) ==
    /\ epc = "scan" /\ IsNext(d)
    /\ LET ib == index_batch \o IndexPuts(d)  rb == ref_batch \o RefPuts(d)
       IN /\ index' = IndexAfter(Sent(ib)) /\ index_batch' = Kept(ib)
          /\ refs' = refs \cup Elements(Sent(rb)) /\ ref_batch' = Kept(rb)
    /\ todo' = todo \ {d} /\ scanned' = scanned \cup {d}
    /\ processed' = (processed \/ Whole(d))
    /\ UNCHANGED <<now, writer, checkpoint, epc, endts, wake, passed, purger, stops>>

\* run() looks at one column of the row, whichever comes first: of a document that was
\* indexed before it may be a reference, and the document is passed over.
PassOver(d) ==
    /\ epc = "scan" /\ IsNext(d) /\ \E r \in refs : r[1] = d
    /\ todo' = todo \ {d} /\ passed' = TRUE
    /\ UNCHANGED <<now, writer, checkpoint, epc, endts, processed, wake, scanned, indexer, purger, stops>>

EndScan ==
    /\ epc = "scan" /\ todo = {}
    /\ epc' = "sleep" /\ wake' = now + SleepTime
    /\ UNCHANGED <<now, writer, checkpoint, endts, todo, processed, scanned, passed, indexer, purger, stops>>

\* Mutated: the checkpoint is the time of the wake-up.
CheckpointNow == now

\* Mutated: the second at the end of the scan is taken for scanned.
CheckpointAfterEnd == endts + 1

CheckpointValue == endts

\* A sleep that would last past MaxTime is cut short.
SetCheckpoint ==
    /\ epc = "sleep" /\ (now >= wake \/ now = MaxTime)
    /\ checkpoint' = IF processed THEN CheckpointValue ELSE checkpoint
    /\ epc' = "begin" /\ processed' = FALSE
    /\ UNCHANGED <<now, writer, endts, todo, wake, scanned, passed, indexer, purger, stops>>

-----------------------------------------------------------------------------
(* The Purger.                                                             *)

\* Mutated: an age is compared with None, the lifespan of a timespec that is not understood.
IsOldAtOnce(a) == now >= index[a].at

\* Ages are in milliseconds, the limit is in seconds.
IsOld(a) == 1000 * (now - index[a].at) > MaxLifespan

\* The rows come in few and are fetched at once.
PurgeScan ==
    /\ doomed = {} /\ \E a \in DOMAIN index : IsOld(a)
    /\ doomed' = {a \in DOMAIN index : IsOld(a)} /\ purge_at' = now
    /\ UNCHANGED <<now, writer, exploder, indexer, stops>>

\* The row goes whatever is in it by now.  The reference is looked for under the document's
\* rowkey and not the index row's, so none is found.
Purge(a) ==
    /\ a \in doomed /\ doomed' = doomed \ {a}
    /\ purge_at' = IF doomed' = {} THEN 0 ELSE purge_at
    /\ index' = [b \in DOMAIN index \ {a} |-> index[b]]
    /\ UNCHANGED <<now, writer, exploder, index_batch, ref_batch, refs, stops>>

-----------------------------------------------------------------------------
(* The process ends and is started again; time passes.                     *)

Restart ==
    /\ stops < MaxStops /\ stops' = stops + 1
    /\ batch' = <<>> /\ index_batch' = <<>> /\ ref_batch' = <<>>
    /\ epc' = "begin" /\ todo' = {} /\ processed' = FALSE /\ wake' = 0
    /\ doomed' = {} /\ purge_at' = 0
    /\ UNCHANGED <<now, checkpoint, endts, scanned, passed, index, refs>>

Crash == Restart /\ UNCHANGED docs

\* On a keyboard interrupt the writer's batch is sent, the others are not.
Interrupt == Restart /\ docs' = PutAt(docs, batch)

Tick == now < MaxTime /\ now' = now + 1 /\ UNCHANGED <<writer, exploder, indexer, purger, stops>>

-----------------------------------------------------------------------------

ExploderStep == BeginScan \/ (\E d \in Doc : IndexDocument(d) \/ PassOver(d)) \/ EndScan \/ SetCheckpoint

Next ==
    \/ \E d \in Doc : \E content \in Contents[d] : Submit(content)
    \/ ExploderStep
    \/ PurgeScan \/ \E a \in Addresses : Purge(a)
    \/ Crash \/ Interrupt \/ Tick

\* The Exploder's thread is scheduled and the clock runs; submissions, purges and ends of
\* the process come when they come.
Fairness == WF_vars(ExploderStep) /\ WF_vars(Tick)

Spec     == Init /\ [][Next]_vars
FairSpec == Spec /\ Fairness

-----------------------------------------------------------------------------
(* Properties.                                                             *)

Put == [addr : Addresses, doc : Doc \cup {NoDoc}]

TypeOK ==
    /\ now \in 1..MaxTime
    /\ docs \in Seq([ts : 1..MaxTime, content : UNION {Contents[d] : d \in Doc}, put_at : 0..MaxTime])
    /\ batch \in Seq(Doc)
    /\ checkpoint \in 0..MaxTime /\ endts \in 0..MaxTime
    /\ epc \in {"begin", "scan", "sleep"} /\ todo \subseteq Doc /\ processed \in BOOLEAN
    /\ wake \in 0..(MaxTime + SleepTime) /\ scanned \subseteq Doc /\ passed \in BOOLEAN
    /\ index_batch \in Seq(Put) /\ ref_batch \in Seq(Doc \X Addresses)
    /\ DOMAIN index \subseteq Addresses
    /\ \A a \in DOMAIN index : index[a] \in [doc : Doc \cup {NoDoc}, at : 1..MaxTime]
    /\ refs \subseteq Doc \X Addresses
    /\ doomed \subseteq DOMAIN index /\ purge_at \in 0..MaxTime
    /\ stops \in 0..MaxStops

\* A document that is put in the second of its timestamp or the next is read by the
\* Exploder before the checkpoint is more than a second past it, wherever the process
\* ends.  (One that waits longer in the writer's batch may be put behind the checkpoint
\* and stay unread.)
Timely(d) == d \in Stored /\ docs[d].put_at <= docs[d].ts + 1
TimelyIsScanned == \A d \in DOMAIN docs : Timely(d) /\ docs[d].ts + 1 < checkpoint => d \in scanned

\* The same as a promise: such a document is scanned in the end.
TimelyWillBeScanned ==
    \A d \in Doc :
        (d \in DOMAIN docs /\ Timely(d) /\ docs[d].ts < MaxTime) ~> (d \in scanned)

\* Between two scans the last word on an address, in the index or on its way there, is
\* that of the youngest scanned document that has it as its first address, however scans
\* overlap.  (A second address carries no document; a stop loses what is on its way; and
\* of two documents that are scanned again the younger may be passed over.)
LastWord(a) == IF a \in Rows(index_batch) THEN {LastFor(index_batch, a).doc}
               ELSE IF a \in DOMAIN index THEN {index[a].doc} ELSE {}
About(a)    == {d \in scanned : docs[d].content # <<>> /\ docs[d].content[1] = a}
IndexFresh ==
    epc = "sleep" /\ stops = 0 /\ ~passed =>
        \A a \in Addresses : \A d \in LastWord(a) \ {NoDoc} :
            \A e \in About(a) : docs[e].ts <= docs[d].ts

\* A row goes only when the last report on its address is older than the lifespan, taken
\* for milliseconds; a younger one goes only if it came between the Purger's scan and its
\* delete.
PurgedWasOld ==
    [][\A a \in DOMAIN index \ DOMAIN index' :
         1000 * (now - index[a].at) > MaxLifespan \/ index[a].at >= purge_at]_vars

=============================================================================
