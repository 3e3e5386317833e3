---------------------------- MODULE StoreProofs ----------------------------
(***************************************************************************)
(* The way of a submission into the index, for any documents, any size of  *)
(* batches and any number of stops: types, the documents the Exploder's    *)
(* scans reach, the last word the index has on an address, and the rows    *)
(* that the Purger deletes.                                                *)
(***************************************************************************)
EXTENDS Store, FiniteSetTheorems, SequenceTheorems, WellFoundedInduction, TLAPS

-----------------------------------------------------------------------------
(* Batches.                                                                *)

\* Batches are sent whole.
LEMMA SentOf ==
    ASSUME NEW n \in Nat
    PROVE  (n \div BatchSize) * BatchSize \in 0..n
<1>1. BatchSize \in Nat \ {0}
  BY SizesAssumption
<1>2. n \div BatchSize \in Nat /\ n = BatchSize * (n \div BatchSize) + (n % BatchSize) /\ n % BatchSize \in 0..(BatchSize - 1)
  BY <1>1
<1>3. (n \div BatchSize) * BatchSize = BatchSize * (n \div BatchSize) /\ BatchSize * (n \div BatchSize) \in Nat
  BY <1>1, <1>2
<1> QED
  BY <1>1, <1>2, <1>3

\* What is sent and what is kept make up the batch.
LEMMA SentAndKept ==
    ASSUME NEW S, NEW b \in Seq(S)
    PROVE  Sent(b) \in Seq(S) /\ Kept(b) \in Seq(S) /\ Sent(b) \o Kept(b) = b
<1> DEFINE k == (Len(b) \div BatchSize) * BatchSize
<1>1. Len(b) \in Nat /\ k \in 0..Len(b)
  BY SentOf, LenProperties
<1> HIDE DEF k
<1>2. SubSeq(b, 1, k) \in Seq(S) /\ SubSeq(b, k + 1, Len(b)) \in Seq(S)
  <2>1. (\A i \in 1..k : b[i] \in S) /\ \A i \in (k + 1)..Len(b) : b[i] \in S
    BY <1>1, ElementOfSeq
  <2> QED
    BY <1>1, <2>1, SubSeqProperties
<1>3. SubSeq(b, 1, k) \o SubSeq(b, k + 1, Len(b)) = SubSeq(b, 1, Len(b))
  <2>1. 1 \in 1..(Len(b) + 1) /\ k \in (1 - 1)..Len(b) /\ Len(b) \in k..Len(b)
    BY <1>1
  <2> QED
    BY <2>1, ConcatAdjacentSubSeq
<1>4. SubSeq(b, 1, Len(b)) = b
  BY SubSeqFull
<1> QED
  BY <1>2, <1>3, <1>4 DEF Sent, Kept, k

LEMMA ElementsTyped ==
    ASSUME NEW S, NEW s \in Seq(S)
    PROVE  Elements(s) \subseteq S
  BY ElementOfSeq, LenProperties DEF Elements

LEMMA ElementsOfConcat ==
    ASSUME NEW S, NEW s \in Seq(S), NEW t \in Seq(S)
    PROVE  Elements(s \o t) = Elements(s) \cup Elements(t)
<1>1. /\ DOMAIN s = 1..Len(s) /\ DOMAIN t = 1..Len(t) /\ DOMAIN (s \o t) = 1..(Len(s) + Len(t))
      /\ Len(s) \in Nat /\ Len(t) \in Nat
      /\ \A i \in 1..(Len(s) + Len(t)) : (s \o t)[i] = IF i <= Len(s) THEN s[i] ELSE t[i - Len(s)]
  BY ConcatProperties, LenProperties
<1>2. \A i \in 1..Len(s) : (s \o t)[i] = s[i] /\ i \in 1..(Len(s) + Len(t))
  BY <1>1
<1>3. \A i \in 1..Len(t) : (s \o t)[Len(s) + i] = t[i] /\ Len(s) + i \in 1..(Len(s) + Len(t))
  BY <1>1
<1>5. Elements(s \o t) \subseteq Elements(s) \cup Elements(t)
  <2> SUFFICES ASSUME NEW i \in 1..(Len(s) + Len(t))
               PROVE  (s \o t)[i] \in Elements(s) \cup Elements(t)
    BY <1>1, Zenon DEF Elements
  <2>1. CASE i \in 1..Len(s)
    BY <1>1, <1>2, <2>1 DEF Elements
  <2>2. CASE i \notin 1..Len(s)
    <3>1. (s \o t)[i] = t[i - Len(s)] /\ i - Len(s) \in 1..Len(t)
      BY <1>1, <2>2
    <3> QED
      BY <1>1, <3>1 DEF Elements
  <2> QED
    BY <2>1, <2>2
<1>6. Elements(s) \subseteq Elements(s \o t)
  BY <1>1, <1>2 DEF Elements
<1>7. Elements(t) \subseteq Elements(s \o t)
  <2> SUFFICES ASSUME NEW i \in 1..Len(t)
               PROVE  t[i] \in Elements(s \o t)
    BY <1>1, Zenon DEF Elements
  <2> QED
    BY <1>1, <1>3 DEF Elements
<1> QED
  BY <1>5, <1>6, <1>7

LEMMA ElementsSplit ==
    ASSUME NEW S, NEW b \in Seq(S)
    PROVE  Elements(b) = Elements(Sent(b)) \cup Elements(Kept(b))
<1>1. Sent(b) \in Seq(S) /\ Kept(b) \in Seq(S) /\ Sent(b) \o Kept(b) = b
  BY SentAndKept
<1>2. Elements(Sent(b) \o Kept(b)) = Elements(Sent(b)) \cup Elements(Kept(b))
  BY <1>1, ElementsOfConcat, Zenon
<1> QED
  BY <1>1, <1>2, Zenon

\* A nonempty set of positions has a last one.
LEMMA LastPosition ==
    ASSUME NEW n \in Nat, NEW P \in SUBSET (1..n), P # {}
    PROVE  \E i \in P : \A j \in P : j <= i
<1> DEFINE Q == {m \in Nat : n - m \in P}
<1>1. Q \subseteq Nat /\ Q # {}
  <2>1. PICK i \in P : TRUE
    OBVIOUS
  <2>2. i \in Nat /\ n - i \in Nat /\ n - (n - i) = i
    BY <2>1
  <2> QED
    BY <2>1, <2>2
<1>2. PICK m \in Q : \A k \in Q : ~ (<<k, m>> \in OpToRel(<, Nat))
  <2> HIDE DEF Q
  <2> QED
    BY <1>1, NatLessThanWellFounded, WFMin
<1>3. \A k \in Q : m <= k
  <2>1. \A k \in Nat : k < m => <<k, m>> \in OpToRel(<, Nat)
    BY DEF OpToRel
  <2> HIDE DEF Q
  <2> SUFFICES ASSUME NEW k \in Q
               PROVE  m <= k
    OBVIOUS
  <2>2. m \in Nat /\ k \in Nat
    BY <1>1
  <2>3. ~ (k < m)
    BY <1>2, <2>1, <2>2, Zenon
  <2> QED
    BY <2>2, <2>3
<1>4. ASSUME NEW j \in P
      PROVE  j <= n - m
  <2>1. j \in 1..n /\ n - j \in Nat /\ n - (n - j) = j
    OBVIOUS
  <2>2. n - j \in Q
    BY <2>1
  <2> QED
    BY <1>3, <2>1, <2>2
<1>5. n - m \in P
  OBVIOUS
<1> QED
  BY <1>4, <1>5

-----------------------------------------------------------------------------
(* The last put for an address.                                            *)

\* Puts with an address and a document.
Puts == Seq([addr : Addresses, doc : Doc \cup {NoDoc}])

IsLast(puts, a, n) == n \in DOMAIN puts /\ puts[n].addr = a /\ \A m \in DOMAIN puts : puts[m].addr = a => m <= n

LEMMA LastForIs ==
    ASSUME NEW S, NEW puts \in Seq(S), NEW a
    PROVE  /\ a \in Rows(puts) => \E n \in DOMAIN puts : IsLast(puts, a, n)
           /\ \A n \in DOMAIN puts : IsLast(puts, a, n) => a \in Rows(puts) /\ LastFor(puts, a) = puts[n]
<1>1. DOMAIN puts = 1..Len(puts) /\ Len(puts) \in Nat
  BY LenProperties
<1>2. ASSUME a \in Rows(puts)
      PROVE  \E n \in DOMAIN puts : IsLast(puts, a, n)
  <2> DEFINE P == {n \in DOMAIN puts : puts[n].addr = a}
  <2>1. P \in SUBSET (1..Len(puts)) /\ P # {}
    BY <1>1, <1>2 DEF Rows
  <2>2. \E i \in P : \A j \in P : j <= i
    <3> HIDE DEF P
    <3> QED
      BY <1>1, <2>1, LastPosition
  <2> QED
    BY <2>2 DEF IsLast
<1>3. ASSUME NEW n \in DOMAIN puts, IsLast(puts, a, n)
      PROVE  a \in Rows(puts) /\ LastFor(puts, a) = puts[n]
  <2>1. a \in Rows(puts)
    BY <1>3 DEF IsLast, Rows
  <2> DEFINE c == CHOOSE m \in DOMAIN puts : puts[m].addr = a /\ \A k \in DOMAIN puts : puts[k].addr = a => k <= m
  <2>2. c \in DOMAIN puts /\ puts[c].addr = a /\ \A k \in DOMAIN puts : puts[k].addr = a => k <= c
    BY <1>3 DEF IsLast
  <2>3. LastFor(puts, a) = puts[c]
    BY DEF LastFor
  <2> HIDE DEF c
  <2>4. c <= n /\ n <= c
    BY <1>3, <2>2 DEF IsLast
  <2>5. c = n
    BY <1>1, <2>2, <2>4
  <2> QED
    BY <2>1, <2>3, <2>5
<1> QED
  BY <1>2, <1>3

LEMMA RowsOfConcat ==
    ASSUME NEW S, NEW s \in Seq(S), NEW t \in Seq(S)
    PROVE  Rows(s \o t) = Rows(s) \cup Rows(t)
<1>1. \A u : Rows(u) = {x.addr : x \in Elements(u)}
  BY DEF Rows, Elements
<1>2. Elements(s \o t) = Elements(s) \cup Elements(t)
  BY ElementsOfConcat
<1> QED
  BY <1>1, <1>2

\* The last put for an address among two batches is the one in the second, if it has any.
LEMMA LastForConcat ==
    ASSUME NEW S, NEW s \in Seq(S), NEW t \in Seq(S), NEW a
    PROVE  /\ a \in Rows(t) => LastFor(s \o t, a) = LastFor(t, a)
           /\ a \in Rows(s) /\ a \notin Rows(t) => LastFor(s \o t, a) = LastFor(s, a)
<1>1. /\ DOMAIN s = 1..Len(s) /\ DOMAIN t = 1..Len(t) /\ DOMAIN (s \o t) = 1..(Len(s) + Len(t))
      /\ Len(s) \in Nat /\ Len(t) \in Nat /\ s \o t \in Seq(S)
      /\ \A i \in 1..(Len(s) + Len(t)) : (s \o t)[i] = IF i <= Len(s) THEN s[i] ELSE t[i - Len(s)]
  BY ConcatProperties, LenProperties
<1>2. ASSUME a \in Rows(t)
      PROVE  LastFor(s \o t, a) = LastFor(t, a)
  <2>1. PICK n \in 1..Len(t) : IsLast(t, a, n)
    BY <1>1, <1>2, LastForIs
  <2>2. IsLast(s \o t, a, Len(s) + n) /\ (s \o t)[Len(s) + n] = t[n] /\ Len(s) + n \in DOMAIN (s \o t)
    BY <1>1, <2>1 DEF IsLast
  <2>3. LastFor(s \o t, a) = (s \o t)[Len(s) + n]
    BY <1>1, <2>2, LastForIs, Zenon
  <2>4. LastFor(t, a) = t[n]
    BY <1>1, <2>1, LastForIs, Zenon
  <2> QED
    BY <2>2, <2>3, <2>4
<1>3. ASSUME a \in Rows(s), a \notin Rows(t)
      PROVE  LastFor(s \o t, a) = LastFor(s, a)
  <2>1. PICK n \in 1..Len(s) : IsLast(s, a, n)
    BY <1>1, <1>3, LastForIs
  <2>2. \A m \in 1..Len(t) : t[m].addr # a
    BY <1>1, <1>3 DEF Rows
  <2>3. IsLast(s \o t, a, n) /\ (s \o t)[n] = s[n]
    <3>1. n \in 1..(Len(s) + Len(t)) /\ (s \o t)[n] = s[n] /\ s[n].addr = a
      BY <1>1, <2>1 DEF IsLast
    <3>2. ASSUME NEW m \in 1..(Len(s) + Len(t)), (s \o t)[m].addr = a
          PROVE  m <= n
      <4>1. CASE m <= Len(s)
        BY <1>1, <2>1, <3>2, <4>1 DEF IsLast
      <4>2. CASE ~ (m <= Len(s))
        <5>1. m - Len(s) \in 1..Len(t) /\ (s \o t)[m] = t[m - Len(s)]
          BY <1>1, <4>2
        <5> QED
          BY <2>2, <3>2, <5>1
      <4> QED
        BY <4>1, <4>2
    <3> QED
      BY <1>1, <3>1, <3>2 DEF IsLast
  <2>4. n \in DOMAIN (s \o t)
    BY <2>3 DEF IsLast
  <2>5. LastFor(s \o t, a) = (s \o t)[n]
    BY <1>1, <2>3, <2>4, LastForIs, Zenon
  <2>6. LastFor(s, a) = s[n]
    BY <1>1, <2>1, LastForIs, Zenon
  <2> QED
    BY <2>3, <2>5, <2>6
<1> QED
  BY <1>2, <1>3

LEMMA PutsConcat ==
    ASSUME NEW s \in Puts, NEW t \in Puts, NEW a
    PROVE  /\ Rows(s \o t) = Rows(s) \cup Rows(t)
           /\ a \in Rows(t) => LastFor(s \o t, a) = LastFor(t, a)
           /\ a \in Rows(s) /\ a \notin Rows(t) => LastFor(s \o t, a) = LastFor(s, a)
<1> DEFINE S == [addr : Addresses, doc : Doc \cup {NoDoc}]
<1>1. s \in Seq(S) /\ t \in Seq(S)
  BY DEF Puts
<1> HIDE DEF S
<1>2. Rows(s \o t) = Rows(s) \cup Rows(t)
  BY <1>1, RowsOfConcat
<1>3. a \in Rows(t) => LastFor(s \o t, a) = LastFor(t, a)
  BY <1>1, LastForConcat
<1>4. a \in Rows(s) /\ a \notin Rows(t) => LastFor(s \o t, a) = LastFor(s, a)
  BY <1>1, LastForConcat
<1> QED
  BY <1>2, <1>3, <1>4

LEMMA LastForTyped ==
    ASSUME NEW puts \in Puts, NEW a \in Rows(puts)
    PROVE  /\ LastFor(puts, a) \in [addr : Addresses, doc : Doc \cup {NoDoc}] /\ LastFor(puts, a).addr = a
           /\ LastFor(puts, a) \in Elements(puts)
<1>1. PICK n \in DOMAIN puts : IsLast(puts, a, n)
  BY LastForIs DEF Puts
<1>2. LastFor(puts, a) = puts[n]
  BY <1>1, LastForIs DEF Puts
<1>3. puts[n] \in [addr : Addresses, doc : Doc \cup {NoDoc}]
  BY LenProperties, ElementOfSeq DEF Puts
<1> QED
  BY <1>1, <1>2, <1>3 DEF IsLast, Elements

-----------------------------------------------------------------------------
(* The inductive invariant.                                                *)

\* What is on its way to the index, or in it, comes from documents that were scanned, and
\* those are in cif_objs.
Known ==
    /\ DOMAIN docs \subseteq Doc
    /\ todo \cup scanned \subseteq Stored /\ \A d \in todo \cup scanned : docs[d].ts < now
    /\ epc # "scan" => todo = {}
    /\ \A r \in refs \cup Elements(ref_batch) : r[1] \in scanned
    /\ \A p \in Elements(index_batch) : p.addr \notin Unpackable /\ p.doc \in scanned \cup {NoDoc}
    /\ \A a \in DOMAIN index : a \notin Unpackable /\ index[a].doc \in scanned \cup {NoDoc}

\* No scan ends, and no checkpoint is set, later than now; and the Exploder is at most one
\* scan behind.
Reached ==
    /\ endts <= now /\ checkpoint <= now /\ TimelyIsScanned
    /\ epc # "begin" =>
         \A d \in DOMAIN docs : Timely(d) /\ docs[d].ts + 1 < endts => d \in scanned \cup todo

\* A row that is to be purged was old when it was read, or has been put since.
Aged ==
    /\ purge_at <= now
    /\ \A a \in doomed : 1000 * (purge_at - index[a].at) > MaxLifespan \/ index[a].at >= purge_at

\* A scan takes up all documents younger than one it has still to index.
InOrder == \A d \in todo : \A e \in scanned : docs[e].ts > docs[d].ts => e \in todo

\* The last word on an address is that of the youngest document, but for those the scan
\* has still to index.
Fresh ==
    stops = 0 /\ ~ passed =>
        \A a \in Addresses : \A d \in LastWord(a) \ {NoDoc} : \A e \in About(a) :
            docs[e].ts <= docs[d].ts \/ e \in todo

IInv == TypeOK /\ Known /\ Reached /\ Aged /\ InOrder /\ Fresh

-----------------------------------------------------------------------------
(* What the Indexer puts for a document.                                   *)

Documents == [ts : 1..MaxTime, content : UNION {Contents[d] : d \in Doc}, put_at : 0..MaxTime]

LEMMA DocumentTyped ==
    ASSUME docs \in Seq(Documents), NEW d \in DOMAIN docs
    PROVE  /\ docs[d] \in Documents /\ docs[d].ts \in 1..MaxTime /\ docs[d].put_at \in 0..MaxTime
           /\ docs[d].content \in Seq(Addresses)
           /\ DOMAIN docs = 1..Len(docs) /\ Len(docs) \in Nat
<1>1. docs[d] \in Documents /\ DOMAIN docs = 1..Len(docs) /\ Len(docs) \in Nat
  BY ElementOfSeq, LenProperties
<1>2. docs[d].content \in UNION {Contents[e] : e \in Doc}
  BY <1>1 DEF Documents
<1>3. docs[d].content \in Seq(Addresses)
  BY <1>2, ContentsAssumption DEF Doc
<1> QED
  BY <1>1, <1>3 DEF Documents

\* The addresses that are committed are the first ones, as many as can be packed.
LEMMA CommittedAre ==
    ASSUME docs \in Seq(Documents), NEW d \in DOMAIN docs
    PROVE  /\ Cardinality(Committed(d)) \in Nat
           /\ \A n \in 1..Cardinality(Committed(d)) :
                n \in DOMAIN docs[d].content /\ docs[d].content[n] \in Addresses \ Unpackable
           /\ docs[d].content # <<>> /\ docs[d].content[1] \notin Unpackable
                => 1 \in 1..Cardinality(Committed(d))
           /\ Committed(d) = {} => Cardinality(Committed(d)) = 0
           /\ Committed(d) # {} => docs[d].content[1] \in Addresses
<1> DEFINE c == docs[d].content
           C == Committed(d)
<1>1. c \in Seq(Addresses) /\ DOMAIN c = 1..Len(c) /\ Len(c) \in Nat
  BY DocumentTyped, LenProperties
<1>2. C \subseteq 1..Len(c) /\ \A n \in C : \A m \in 1..n : m \in C /\ c[m] \notin Unpackable
  BY <1>1 DEF Committed
<1>3. IsFiniteSet(C) /\ Cardinality(C) \in Nat
  <2> HIDE DEF C
  <2>1. IsFiniteSet(1..Len(c))
    BY <1>1, FS_Interval
  <2> QED
    BY <1>2, <2>1, FS_Subset, FS_CardinalityType, Zenon
<1>4. ASSUME NEW n \in 1..Cardinality(C)
      PROVE  n \in C
  <2> SUFFICES ASSUME n \notin C
               PROVE  FALSE
    OBVIOUS
  <2>1. \A m \in C : m \in 1..(n - 1)
    <3> SUFFICES ASSUME NEW m \in C, ~ (m < n)
                 PROVE  FALSE
      BY <1>1, <1>2, <1>3
    <3>1. m \in Nat /\ n \in Nat /\ n \in 1..m
      BY <1>1, <1>2, <1>3
    <3> QED
      BY <1>2, <3>1
  <2>2. C \subseteq 1..(n - 1)
    BY <2>1
  <2>3. IsFiniteSet(1..(n - 1)) /\ Cardinality(1..(n - 1)) = n - 1
    <3>1. n \in Nat /\ n >= 1
      BY <1>3
    <3> QED
      BY <3>1, FS_Interval
  <2>4. Cardinality(C) <= n - 1
    BY <2>2, <2>3, FS_Subset
  <2> QED
    BY <1>3, <2>4
<1>5. \A n \in 1..Cardinality(C) : n \in DOMAIN c /\ c[n] \in Addresses \ Unpackable
  <2> SUFFICES ASSUME NEW n \in 1..Cardinality(C)
               PROVE  n \in DOMAIN c /\ c[n] \in Addresses \ Unpackable
    OBVIOUS
  <2>1. n \in C /\ n \in 1..n /\ n \in 1..Len(c)
    BY <1>1, <1>2, <1>4
  <2> QED
    BY <1>1, <1>2, <2>1, ElementOfSeq
<1>6. ASSUME c # <<>>, c[1] \notin Unpackable
      PROVE  1 \in 1..Cardinality(C)
  <2>1. 1 \in 1..Len(c)
    BY <1>1, <1>6, EmptySeq
  <2>2. 1 \in C
    BY <1>1, <1>6, <2>1 DEF Committed
  <2>3. Cardinality(C) # 0
    BY <1>3, <2>2, FS_EmptySet
  <2> QED
    BY <1>3, <2>3
<1>7. C = {} => Cardinality(C) = 0
  BY FS_EmptySet
<1>8. C # {} => c[1] \in Addresses
  <2> SUFFICES ASSUME C # {}
               PROVE  c[1] \in Addresses
    OBVIOUS
  <2>1. 1 \in 1..Len(c)
    BY <1>1, <1>2
  <2> QED
    BY <1>1, <2>1, ElementOfSeq
<1> QED
  BY <1>3, <1>5, <1>6, <1>7, <1>8

LEMMA PutsOf ==
    ASSUME docs \in Seq(Documents), NEW d \in DOMAIN docs, d \in Doc
    PROVE  /\ IndexPuts(d) \in Puts /\ RefPuts(d) \in Seq(Doc \X Addresses)
           /\ \A p \in Elements(IndexPuts(d)) : p.addr \notin Unpackable /\ p.doc \in {d, NoDoc}
           /\ \A p \in Elements(IndexPuts(d)) : p.doc = d => p.addr = docs[d].content[1]
           /\ docs[d].content # <<>> /\ docs[d].content[1] \notin Unpackable
                => docs[d].content[1] \in Rows(IndexPuts(d))
           /\ \A r \in Elements(RefPuts(d)) : r[1] = d
<1> DEFINE c == docs[d].content
           k == Cardinality(Committed(d))
<1>1. /\ k \in Nat /\ \A n \in 1..k : c[n] \in Addresses \ Unpackable
      /\ c # <<>> /\ c[1] \notin Unpackable => 1 \in 1..k
      /\ Committed(d) # {} => c[1] \in Addresses
  BY CommittedAre
<1> HIDE DEF c, k
<1>2. IndexPuts(d) = [n \in 1..k |-> [addr |-> c[n], doc |-> IF n = 1 THEN d ELSE NoDoc]]
  BY DEF IndexPuts, c, k
<1>3. IndexPuts(d) \in Puts
  <2> DEFINE e(n) == [addr |-> c[n], doc |-> IF n = 1 THEN d ELSE NoDoc]
             S == [addr : Addresses, doc : Doc \cup {NoDoc}]
  <2>1. \A n \in 1..k : e(n) \in S
    BY <1>1
  <2> HIDE DEF e, S
  <2>2. [n \in 1..k |-> e(n)] \in Seq(S)
    BY <1>1, <2>1, IsASeq
  <2> QED
    BY <1>2, <2>2 DEF e, S, Puts
<1>4. RefPuts(d) \in Seq(Doc \X Addresses)
  <2>1. CASE Committed(d) = {}
    BY <2>1, EmptySeq DEF RefPuts
  <2>2. CASE Committed(d) # {}
    <3>1. RefPuts(d) = << <<d, c[1]>> >> /\ <<d, c[1]>> \in Doc \X Addresses
      BY <1>1, <2>2 DEF RefPuts, c
    <3> QED
      BY <3>1
  <2> QED
    BY <2>1, <2>2
<1>5. ASSUME NEW p \in Elements(IndexPuts(d))
      PROVE  p.addr \notin Unpackable /\ p.doc \in {d, NoDoc} /\ (p.doc = d => p.addr = c[1])
  <2>1. PICK n \in 1..k : p = [addr |-> c[n], doc |-> IF n = 1 THEN d ELSE NoDoc]
    BY <1>2 DEF Elements
  <2>2. d # NoDoc
    BY BoundsAssumption DEF Doc, NoDoc
  <2> QED
    BY <1>1, <2>1, <2>2
<1>6. ASSUME c # <<>>, c[1] \notin Unpackable
      PROVE  c[1] \in Rows(IndexPuts(d))
  BY <1>1, <1>2, <1>6 DEF Rows
<1>7. ASSUME NEW r \in Elements(RefPuts(d))
      PROVE  r[1] = d
  <2>1. CASE Committed(d) = {}
    BY <1>7, <2>1 DEF RefPuts, Elements
  <2>2. CASE Committed(d) # {}
    BY <1>7, <2>2 DEF RefPuts, Elements
  <2> QED
    BY <2>1, <2>2
<1> QED
  BY <1>3, <1>4, <1>5, <1>6, <1>7 DEF c

\* A batch changes nothing of a document but when it was put, and that to now.
LEMMA PutAtIs ==
    ASSUME NEW ds \in Seq(Documents), NEW b, now \in 1..MaxTime
    PROVE  /\ PutAt(ds, b) \in Seq(Documents) /\ DOMAIN PutAt(ds, b) = DOMAIN ds
           /\ \A d \in DOMAIN ds :
                /\ PutAt(ds, b)[d].ts = ds[d].ts /\ PutAt(ds, b)[d].content = ds[d].content
                /\ PutAt(ds, b)[d].put_at \in {ds[d].put_at, now}
<1> DEFINE e(d) == IF d \in Elements(b) THEN [ds[d] EXCEPT !.put_at = now] ELSE ds[d]
<1>1. DOMAIN ds = 1..Len(ds) /\ Len(ds) \in Nat /\ \A d \in 1..Len(ds) : ds[d] \in Documents
  BY LenProperties, ElementOfSeq
<1>2. ASSUME NEW d \in 1..Len(ds)
      PROVE  /\ e(d) \in Documents
             /\ e(d).ts = ds[d].ts /\ e(d).content = ds[d].content /\ e(d).put_at \in {ds[d].put_at, now}
  <2>1. ds[d] \in Documents
    BY <1>1
  <2>2. CASE d \in Elements(b)
    <3>1. PICK t \in 1..MaxTime, c \in UNION {Contents[x] : x \in Doc}, p \in 0..MaxTime :
            ds[d] = [ts |-> t, content |-> c, put_at |-> p]
      BY <2>1 DEF Documents
    <3>2. e(d) = [ts |-> t, content |-> c, put_at |-> now]
      BY <2>2, <3>1
    <3>3. now \in 0..MaxTime
      BY BoundsAssumption
    <3>4. [ts |-> t, content |-> c, put_at |-> now] \in Documents
      BY <3>3 DEF Documents
    <3> HIDE DEF e
    <3> QED
      BY <3>1, <3>2, <3>4
  <2>3. CASE d \notin Elements(b)
    BY <2>1, <2>3
  <2> QED
    BY <2>2, <2>3
<1>3. PutAt(ds, b) = [d \in 1..Len(ds) |-> e(d)]
  BY <1>1 DEF PutAt
<1> HIDE DEF e
<1>4. [d \in 1..Len(ds) |-> e(d)] \in Seq(Documents)
  BY <1>1, <1>2, IsASeq
<1> QED
  BY <1>1, <1>2, <1>3, <1>4

IndexTyped ==
    /\ DOMAIN index \subseteq Addresses
    /\ \A a \in DOMAIN index : index[a] \in [doc : Doc \cup {NoDoc}, at : 1..MaxTime]

LEMMA IndexAfterIs ==
    ASSUME IndexTyped, now \in 1..MaxTime, NEW puts \in Puts
    PROVE  /\ DOMAIN IndexAfter(puts) = DOMAIN index \cup Rows(puts) /\ Rows(puts) \subseteq Addresses
           /\ \A a \in Rows(puts) : IndexAfter(puts)[a] = [doc |-> LastFor(puts, a).doc, at |-> now]
           /\ \A a \in DOMAIN index \ Rows(puts) : IndexAfter(puts)[a] = index[a]
           /\ \A a \in DOMAIN IndexAfter(puts) : IndexAfter(puts)[a] \in [doc : Doc \cup {NoDoc}, at : 1..MaxTime]
<1>1. DOMAIN IndexAfter(puts) = DOMAIN index \cup Rows(puts)
  BY DEF IndexAfter
<1>2. \A a \in Rows(puts) : LastFor(puts, a) \in [addr : Addresses, doc : Doc \cup {NoDoc}] /\ LastFor(puts, a).addr = a
  BY LastForTyped
<1>3. ASSUME NEW a \in Rows(puts)
      PROVE  /\ IndexAfter(puts)[a] = [doc |-> LastFor(puts, a).doc, at |-> now]
             /\ IndexAfter(puts)[a] \in [doc : Doc \cup {NoDoc}, at : 1..MaxTime] /\ a \in Addresses
  <2>1. IndexAfter(puts)[a] = [doc |-> LastFor(puts, a).doc, at |-> now]
    BY DEF IndexAfter
  <2>2. LastFor(puts, a).doc \in Doc \cup {NoDoc} /\ LastFor(puts, a).addr \in Addresses /\ LastFor(puts, a).addr = a
    BY <1>2
  <2> QED
    BY <2>1, <2>2
<1>4. \A a \in DOMAIN index \ Rows(puts) : IndexAfter(puts)[a] = index[a]
  BY DEF IndexAfter
<1> QED
  BY <1>1, <1>3, <1>4 DEF IndexTyped

-----------------------------------------------------------------------------
(* Types.                                                                  *)

LEMMA DocsTyped == TypeOK => docs \in Seq(Documents) /\ now \in 1..MaxTime /\ IndexTyped /\ index_batch \in Puts
  BY DEF TypeOK, Documents, IndexTyped, Put, Puts

\* What a submission does to the documents.
LEMMA Submitted ==
    ASSUME TypeOK, NEW c \in Doc, NEW content \in Contents[c], Submit(content)
    PROVE  /\ docs' \in Seq(Documents) /\ batch' \in Seq(Doc)
           /\ DOMAIN docs' = DOMAIN docs \cup {Len(docs) + 1} /\ Len(docs) + 1 \notin DOMAIN docs
           /\ docs'[Len(docs) + 1].put_at \in {0, now} /\ docs'[Len(docs) + 1].ts = now
           /\ \A d \in DOMAIN docs :
                /\ docs'[d].ts = docs[d].ts /\ docs'[d].content = docs[d].content
                /\ docs'[d].put_at \in {docs[d].put_at, now}
<1> DEFINE n   == Len(docs) + 1
           new == [ts |-> now, content |-> content, put_at |-> 0]
           ds  == Append(docs, new)
           b   == Append(batch, n)
<1>1. docs \in Seq(Documents) /\ now \in 1..MaxTime /\ batch \in Seq(Doc)
  BY DocsTyped DEF TypeOK
<1>2. DOMAIN docs = 1..Len(docs) /\ Len(docs) \in Nat /\ n \in Doc
  BY <1>1, LenProperties, BoundsAssumption DEF Submit, Doc
<1>3. new \in Documents /\ new.ts = now /\ new.put_at = 0
  <2>1. content \in UNION {Contents[e] : e \in Doc}
    OBVIOUS
  <2> QED
    BY <1>1, <2>1, BoundsAssumption DEF Documents
<1>4. docs' = PutAt(ds, Sent(b)) /\ batch' = Kept(b)
  BY DEF Submit
<1> HIDE DEF new
<1>5. ds \in Seq(Documents) /\ DOMAIN ds = 1..n /\ ds[n] = new /\ \A d \in DOMAIN docs : ds[d] = docs[d]
  <2>1. ds \in Seq(Documents) /\ Len(ds) = n /\ (\A i \in 1..Len(docs) : ds[i] = docs[i]) /\ ds[n] = new
    BY <1>1, <1>3, AppendProperties
  <2>2. DOMAIN ds = 1..Len(ds)
    BY <2>1, LenProperties
  <2> QED
    BY <1>2, <2>1, <2>2
<1>6. b \in Seq(Doc)
  BY <1>1, <1>2, AppendProperties
<1> HIDE DEF ds, b
<1>7. batch' \in Seq(Doc)
  BY <1>4, <1>6, SentAndKept
<1>8. /\ docs' \in Seq(Documents) /\ DOMAIN docs' = DOMAIN ds
      /\ \A d \in DOMAIN ds : /\ docs'[d].ts = ds[d].ts /\ docs'[d].content = ds[d].content
                              /\ docs'[d].put_at \in {ds[d].put_at, now}
  BY <1>1, <1>4, <1>5, PutAtIs
<1>9. DOMAIN ds = DOMAIN docs \cup {n} /\ n \notin DOMAIN docs /\ n \in DOMAIN ds
  BY <1>2, <1>5
<1>10. docs'[n].put_at \in {0, now} /\ docs'[n].ts = now
  BY <1>3, <1>5, <1>8, <1>9
<1>11. \A d \in DOMAIN docs : d \in DOMAIN ds
  BY <1>9
<1> QED
  BY <1>5, <1>7, <1>8, <1>9, <1>10, <1>11

\* What the Indexer does with a document.
LEMMA Indexed ==
    ASSUME TypeOK, Known, NEW d \in Doc, IndexDocument(d)
    PROVE  \E ib \in Puts, rb \in Seq(Doc \X Addresses) :
             /\ ib = index_batch \o IndexPuts(d) /\ Sent(ib) \in Puts /\ Kept(ib) \in Puts
             /\ index' = IndexAfter(Sent(ib)) /\ index_batch' = Kept(ib)
             /\ rb = ref_batch \o RefPuts(d)
             /\ Sent(rb) \in Seq(Doc \X Addresses) /\ Kept(rb) \in Seq(Doc \X Addresses)
             /\ refs' = refs \cup Elements(Sent(rb)) /\ ref_batch' = Kept(rb)
             /\ d \in DOMAIN docs /\ d \in todo
<1> DEFINE ib == index_batch \o IndexPuts(d)
           rb == ref_batch \o RefPuts(d)
<1>1. d \in DOMAIN docs /\ d \in todo
  BY DEF IndexDocument, IsNext, Known, Stored
<1>2. docs \in Seq(Documents) /\ index_batch \in Puts /\ ref_batch \in Seq(Doc \X Addresses)
  BY DocsTyped DEF TypeOK
<1>3. IndexPuts(d) \in Puts /\ RefPuts(d) \in Seq(Doc \X Addresses)
  BY <1>1, <1>2, PutsOf
<1>4. ib \in Puts /\ rb \in Seq(Doc \X Addresses)
  BY <1>2, <1>3, ConcatProperties DEF Puts
<1>5. /\ index' = IndexAfter(Sent(ib)) /\ index_batch' = Kept(ib)
      /\ refs' = refs \cup Elements(Sent(rb)) /\ ref_batch' = Kept(rb)
  BY DEF IndexDocument
<1>6. Sent(ib) \in Puts /\ Kept(ib) \in Puts /\ Sent(rb) \in Seq(Doc \X Addresses) /\ Kept(rb) \in Seq(Doc \X Addresses)
  <2> HIDE DEF ib, rb
  <2> QED
    BY <1>4, SentAndKept DEF Puts
<1> QED
  BY <1>1, <1>4, <1>5, <1>6

LEMMA TypeInit == Init => TypeOK
<1> SUFFICES ASSUME Init
             PROVE  TypeOK
  OBVIOUS
<1>1. docs = <<>> /\ batch = <<>> /\ index_batch = <<>> /\ ref_batch = <<>> /\ DOMAIN index = {}
  BY DEF Init
<1>2. /\ docs \in Seq([ts : 1..MaxTime, content : UNION {Contents[d] : d \in Doc}, put_at : 0..MaxTime])
      /\ batch \in Seq(Doc) /\ index_batch \in Seq(Put) /\ ref_batch \in Seq(Doc \X Addresses)
  BY <1>1, EmptySeq
<1>3. /\ now \in 1..MaxTime /\ checkpoint \in 0..MaxTime /\ endts \in 0..MaxTime
      /\ wake \in 0..(MaxTime + SleepTime) /\ purge_at \in 0..MaxTime /\ stops \in 0..MaxStops
  BY BoundsAssumption, SizesAssumption DEF Init
<1>4. /\ epc = "begin" /\ todo = {} /\ processed = FALSE /\ scanned = {} /\ passed = FALSE
      /\ refs = {} /\ doomed = {}
  BY DEF Init
<1> QED
  BY <1>1, <1>2, <1>3, <1>4 DEF TypeOK

LEMMA TypeStep ==
    ASSUME TypeOK, Known, [Next]_vars
    PROVE  TypeOK'
<1>1. ASSUME NEW c \in Doc, NEW content \in Contents[c], Submit(content)
      PROVE  TypeOK'
  BY <1>1, Submitted DEF TypeOK, Submit, Documents, exploder, indexer, purger
<1>2. CASE BeginScan
  <2>1. todo' \subseteq Doc
    BY <1>2 DEF BeginScan, Known, Stored
  <2>2. endts' \in 0..MaxTime /\ epc' = "scan" /\ processed' = FALSE
    BY <1>2, BoundsAssumption DEF BeginScan, TypeOK
  <2>3. UNCHANGED <<now, docs, batch, checkpoint, wake, scanned, passed, index_batch, index, ref_batch, refs,
                    doomed, purge_at, stops>>
    BY <1>2 DEF BeginScan, writer, indexer, purger
  <2> QED
    BY <2>1, <2>2, <2>3 DEF TypeOK
<1>3. ASSUME NEW d \in Doc, IndexDocument(d)
      PROVE  TypeOK'
  <2>1. PICK ib \in Puts, rb \in Seq(Doc \X Addresses) :
             /\ Sent(ib) \in Puts /\ Kept(ib) \in Puts
             /\ index' = IndexAfter(Sent(ib)) /\ index_batch' = Kept(ib)
             /\ Sent(rb) \in Seq(Doc \X Addresses) /\ Kept(rb) \in Seq(Doc \X Addresses)
             /\ refs' = refs \cup Elements(Sent(rb)) /\ ref_batch' = Kept(rb)
    BY <1>3, Indexed
  <2>2. IndexTyped /\ now \in 1..MaxTime
    BY DocsTyped
  <2>3. /\ DOMAIN index' \subseteq Addresses /\ DOMAIN index \subseteq DOMAIN index'
        /\ \A a \in DOMAIN index' : index'[a] \in [doc : Doc \cup {NoDoc}, at : 1..MaxTime]
    BY <2>1, <2>2, IndexAfterIs DEF IndexTyped
  <2>4. index_batch' \in Seq(Put)
    BY <2>1 DEF Puts, Put
  <2>5. refs' \subseteq Doc \X Addresses /\ ref_batch' \in Seq(Doc \X Addresses)
    BY <2>1, ElementsTyped DEF TypeOK
  <2>6. /\ now' = now /\ docs' = docs /\ batch' = batch /\ checkpoint' = checkpoint /\ epc' = epc
        /\ endts' = endts /\ wake' = wake /\ passed' = passed /\ doomed' = doomed /\ purge_at' = purge_at
        /\ stops' = stops /\ todo' = todo \ {d} /\ scanned' = scanned \cup {d} /\ processed' \in BOOLEAN
    BY <1>3 DEF IndexDocument, writer, purger
  <2> QED
    BY <2>3, <2>4, <2>5, <2>6 DEF TypeOK
<1>4. ASSUME NEW d \in Doc, PassOver(d)
      PROVE  TypeOK'
  BY <1>4 DEF TypeOK, PassOver, writer, indexer, purger
<1>5. CASE EndScan
  BY <1>5, BoundsAssumption, SizesAssumption DEF TypeOK, EndScan, writer, indexer, purger
<1>6. CASE SetCheckpoint
  BY <1>6 DEF TypeOK, SetCheckpoint, CheckpointValue, writer, indexer, purger
<1>7. CASE PurgeScan
  BY <1>7, BoundsAssumption DEF TypeOK, PurgeScan, writer, exploder, indexer
<1>8. ASSUME NEW a \in Addresses, Purge(a)
      PROVE  TypeOK'
  <2>1. /\ DOMAIN index' = DOMAIN index \ {a} /\ (\A b \in DOMAIN index' : index'[b] = index[b])
        /\ doomed' = doomed \ {a} /\ purge_at' \in {0, purge_at}
    BY <1>8 DEF Purge
  <2>2. /\ DOMAIN index' \subseteq Addresses /\ doomed' \subseteq DOMAIN index' /\ purge_at' \in 0..MaxTime
        /\ \A b \in DOMAIN index' : index'[b] \in [doc : Doc \cup {NoDoc}, at : 1..MaxTime]
    BY <2>1, BoundsAssumption DEF TypeOK
  <2> QED
    BY <1>8, <2>2 DEF TypeOK, Purge, writer, exploder
<1>9. ASSUME Restart, docs' = docs \/ \E b : docs' = PutAt(docs, b)
      PROVE  TypeOK'
  <2>1. docs' \in Seq(Documents)
    BY <1>9, DocsTyped, PutAtIs
  <2>2. <<>> \in Seq(Doc) /\ <<>> \in Seq(Put) /\ <<>> \in Seq(Doc \X Addresses)
    BY EmptySeq
  <2>3. /\ batch' = <<>> /\ index_batch' = <<>> /\ ref_batch' = <<>> /\ epc' = "begin" /\ todo' = {}
        /\ processed' = FALSE /\ wake' = 0 /\ doomed' = {} /\ purge_at' = 0
        /\ UNCHANGED <<now, checkpoint, endts, scanned, passed, index, refs>>
    BY <1>9 DEF Restart
  <2>4. stops' \in 0..MaxStops
    BY <1>9, BoundsAssumption DEF Restart, TypeOK
  <2>5. 0 \in 0..(MaxTime + SleepTime) /\ 0 \in 0..MaxTime /\ FALSE \in BOOLEAN
    BY BoundsAssumption, SizesAssumption
  <2> QED
    BY <2>1, <2>2, <2>3, <2>4, <2>5 DEF TypeOK, Documents
<1>10. CASE Tick
  BY <1>10, BoundsAssumption DEF TypeOK, Tick, writer, exploder, indexer, purger
<1>11. CASE UNCHANGED vars
  BY <1>11 DEF TypeOK, vars, writer, exploder, indexer, purger
<1> QED
  BY <1>1, <1>2, <1>3, <1>4, <1>5, <1>6, <1>7, <1>8, <1>9, <1>10, <1>11 DEF Next, ExploderStep, Crash, Interrupt

-----------------------------------------------------------------------------
(* What is on its way comes from scanned documents.                        *)

LEMMA KnownInit == Init => Known
<1> SUFFICES ASSUME Init
             PROVE  Known
  OBVIOUS
<1>1. docs = <<>> /\ index_batch = <<>> /\ ref_batch = <<>> /\ DOMAIN index = {}
  BY DEF Init
<1>2. DOMAIN docs = {} /\ Elements(index_batch) = {} /\ Elements(ref_batch) = {}
  BY <1>1 DEF Elements
<1> QED
  BY <1>1, <1>2 DEF Init, Known

\* Documents change, what comes from them does not.
LEMMA KnownKept ==
    ASSUME Known, TypeOK, now' \in 1..MaxTime, now <= now', DOMAIN docs' \subseteq Doc, DOMAIN docs \subseteq DOMAIN docs',
           \A d \in DOMAIN docs :
                /\ docs'[d].ts = docs[d].ts
                /\ docs[d].put_at # 0 => docs'[d].put_at # 0,
           todo' \subseteq todo, scanned' = scanned, epc' # "scan" => todo' = {},
           refs' = refs, Elements(ref_batch') \subseteq Elements(ref_batch),
           Elements(index_batch') \subseteq Elements(index_batch),
           DOMAIN index' \subseteq DOMAIN index, \A a \in DOMAIN index' : index'[a] = index[a]
    PROVE  Known'
<1>1. Stored \subseteq Stored'
  BY DEF Stored
<1>2. todo' \cup scanned' \subseteq todo \cup scanned
  OBVIOUS
<1>3. todo' \cup scanned' \subseteq Stored'
  BY <1>1, <1>2 DEF Known
<1>4. ASSUME NEW d \in todo' \cup scanned'
      PROVE  docs'[d].ts < now'
  <2>1. d \in DOMAIN docs /\ docs[d].ts < now
    BY <1>2 DEF Known, Stored
  <2>2. docs[d].ts \in Int /\ now \in Int /\ now' \in Int
    BY <2>1, DocsTyped, DocumentTyped
  <2>3. docs'[d].ts = docs[d].ts
    BY <2>1
  <2> QED
    BY <2>1, <2>2, <2>3
<1>5. \A r \in refs' \cup Elements(ref_batch') : r[1] \in scanned'
  BY DEF Known
<1>6. \A p \in Elements(index_batch') : p.addr \notin Unpackable /\ p.doc \in scanned' \cup {NoDoc}
  BY DEF Known
<1>7. \A a \in DOMAIN index' : a \notin Unpackable /\ index'[a].doc \in scanned' \cup {NoDoc}
  BY DEF Known
<1> QED
  BY <1>3, <1>4, <1>5, <1>6, <1>7, Elements(ref_batch)' = Elements(ref_batch'),
     Elements(index_batch)' = Elements(index_batch') DEF Known

\* What Restart does to the documents.
LEMMA Restarted ==
    ASSUME TypeOK, Restart, docs' = docs \/ \E b : docs' = PutAt(docs, b)
    PROVE  /\ DOMAIN docs' = DOMAIN docs
           /\ \A d \in DOMAIN docs : /\ docs'[d].ts = docs[d].ts /\ docs'[d].content = docs[d].content
                                     /\ docs'[d].put_at \in {docs[d].put_at, now}
  BY DocsTyped, PutAtIs

LEMMA KnownStep ==
    ASSUME TypeOK, Known, [Next]_vars
    PROVE  Known'
<1> USE DocsTyped, BoundsAssumption
<1>1. ASSUME NEW c \in Doc, NEW content \in Contents[c], Submit(content)
      PROVE  Known'
  <2>1. /\ DOMAIN docs' = DOMAIN docs \cup {Len(docs) + 1}
        /\ \A d \in DOMAIN docs : docs'[d].ts = docs[d].ts /\ (docs[d].put_at # 0 => docs'[d].put_at # 0)
    <3>1. /\ DOMAIN docs' = DOMAIN docs \cup {Len(docs) + 1}
          /\ \A d \in DOMAIN docs :
                /\ docs'[d].ts = docs[d].ts /\ docs'[d].content = docs[d].content
                /\ docs'[d].put_at \in {docs[d].put_at, now}
      BY <1>1, Submitted, Zenon
    <3> QED
      BY <3>1
  <2>2. Len(docs) + 1 \in Doc
    BY <1>1, LenProperties DEF Submit, Doc
  <2>3. UNCHANGED <<now, epc, todo, scanned, index_batch, index, ref_batch, refs>>
    BY <1>1 DEF Submit, exploder, indexer
  <2>4. now <= now' /\ DOMAIN docs' \subseteq Doc /\ (epc' # "scan" => todo' = {}) /\ now' \in 1..MaxTime
    BY <2>1, <2>2, <2>3 DEF Known
  <2> QED
    BY <2>1, <2>3, <2>4, KnownKept
<1>2. CASE BeginScan
  <2>1. /\ UNCHANGED <<now, docs, scanned, index_batch, index, ref_batch, refs>>
        /\ todo' \subseteq Stored /\ (\A d \in todo' : docs[d].ts < now) /\ epc' = "scan"
    BY <1>2 DEF BeginScan, writer, indexer
  <2> QED
    BY <2>1 DEF Known, Stored, Elements
<1>3. ASSUME NEW d \in Doc, IndexDocument(d)
      PROVE  Known'
  <2>1. PICK ib \in Puts, rb \in Seq(Doc \X Addresses) :
             /\ ib = index_batch \o IndexPuts(d) /\ Sent(ib) \in Puts /\ Kept(ib) \in Puts
             /\ index' = IndexAfter(Sent(ib)) /\ index_batch' = Kept(ib)
             /\ rb = ref_batch \o RefPuts(d)
             /\ refs' = refs \cup Elements(Sent(rb)) /\ ref_batch' = Kept(rb)
             /\ d \in DOMAIN docs /\ d \in todo
    BY <1>3, Indexed
  <2>2. /\ now' = now /\ docs' = docs /\ epc' = epc /\ epc = "scan"
        /\ todo' = todo \ {d} /\ scanned' = scanned \cup {d}
    BY <1>3 DEF IndexDocument, writer
  <2>3. ASSUME NEW r \in Elements(rb)
        PROVE  r[1] \in scanned'
    <3>1. Elements(rb) = Elements(ref_batch) \cup Elements(RefPuts(d))
      BY <2>1, PutsOf, ElementsOfConcat DEF TypeOK
    <3>2. r \in Elements(ref_batch) => r[1] \in scanned
      BY DEF Known
    <3>3. r \in Elements(RefPuts(d)) => r[1] = d
      BY <2>1, PutsOf
    <3> QED
      BY <2>2, <3>1, <3>2, <3>3
  <2>4. ASSUME NEW p \in Elements(ib)
        PROVE  p.addr \notin Unpackable /\ p.doc \in scanned' \cup {NoDoc}
    <3>1. Elements(ib) = Elements(index_batch) \cup Elements(IndexPuts(d))
      BY <2>1, PutsOf, ElementsOfConcat DEF Puts
    <3>2. p \in Elements(index_batch) => p.addr \notin Unpackable /\ p.doc \in scanned \cup {NoDoc}
      BY DEF Known
    <3>3. p \in Elements(IndexPuts(d)) => p.addr \notin Unpackable /\ p.doc \in {d, NoDoc}
      BY <2>1, PutsOf
    <3> QED
      BY <2>2, <3>1, <3>2, <3>3
  <2>5. /\ Elements(ib) = Elements(Sent(ib)) \cup Elements(Kept(ib))
        /\ Elements(rb) = Elements(Sent(rb)) \cup Elements(Kept(rb))
    BY ElementsSplit DEF Puts
  <2>6. \A r \in refs' \cup Elements(ref_batch') : r[1] \in scanned'
    BY <2>1, <2>2, <2>3, <2>5 DEF Known
  <2>7. \A p \in Elements(index_batch') : p.addr \notin Unpackable /\ p.doc \in scanned' \cup {NoDoc}
    BY <2>1, <2>4, <2>5
  <2>8. ASSUME NEW a \in DOMAIN index'
        PROVE  a \notin Unpackable /\ index'[a].doc \in scanned' \cup {NoDoc}
    <3>1. /\ DOMAIN index' = DOMAIN index \cup Rows(Sent(ib))
          /\ a \in Rows(Sent(ib)) => index'[a].doc = LastFor(Sent(ib), a).doc
          /\ a \in DOMAIN index \ Rows(Sent(ib)) => index'[a] = index[a]
      <4>1. IndexTyped /\ now \in 1..MaxTime /\ Sent(ib) \in Puts
        BY <2>1
      <4> DEFINE new == IndexAfter(Sent(ib))
      <4>2. /\ DOMAIN new = DOMAIN index \cup Rows(Sent(ib))
            /\ \A b \in Rows(Sent(ib)) : new[b] = [doc |-> LastFor(Sent(ib), b).doc, at |-> now]
            /\ \A b \in DOMAIN index \ Rows(Sent(ib)) : new[b] = index[b]
        BY <4>1, IndexAfterIs, Zenon
      <4> HIDE DEF new
      <4>3. index' = new
        BY <2>1 DEF new
      <4> QED
        BY <4>2, <4>3
    <3>2. CASE a \in Rows(Sent(ib))
      <4>1. LastFor(Sent(ib), a) \in Elements(ib) /\ LastFor(Sent(ib), a).addr = a
        BY <2>1, <2>5, <3>2, LastForTyped
      <4> QED
        BY <2>4, <3>1, <3>2, <4>1
    <3>3. CASE a \notin Rows(Sent(ib))
      BY <2>2, <3>1, <3>3 DEF Known
    <3> QED
      BY <3>2, <3>3
  <2>9. /\ DOMAIN docs' \subseteq Doc /\ todo' \cup scanned' \subseteq Stored'
        /\ (\A x \in todo' \cup scanned' : docs'[x].ts < now') /\ (epc' # "scan" => todo' = {})
    BY <2>1, <2>2 DEF Known, Stored
  <2> QED
    BY <2>6, <2>7, <2>8, <2>9, Elements(ref_batch)' = Elements(ref_batch'),
       Elements(index_batch)' = Elements(index_batch') DEF Known
<1>4. ASSUME NEW d \in Doc, PassOver(d)
      PROVE  Known'
  <2>1. /\ UNCHANGED <<now, docs, epc, scanned, index_batch, index, ref_batch, refs>>
        /\ todo' = todo \ {d}
    BY <1>4 DEF PassOver, writer, indexer
  <2>2. now <= now' /\ DOMAIN docs' \subseteq Doc /\ (epc' # "scan" => todo' = {})
    BY <2>1 DEF Known
  <2> QED
    BY <2>1, <2>2, KnownKept
<1>5. CASE EndScan
  <2>1. UNCHANGED <<now, docs, todo, scanned, index_batch, index, ref_batch, refs>> /\ todo = {}
    BY <1>5 DEF EndScan, writer, indexer
  <2>2. now <= now' /\ DOMAIN docs' \subseteq Doc
    BY <2>1 DEF Known
  <2> QED
    BY <2>1, <2>2, KnownKept
<1>6. CASE SetCheckpoint
  <2>1. UNCHANGED <<now, docs, todo, scanned, index_batch, index, ref_batch, refs>> /\ epc = "sleep"
    BY <1>6 DEF SetCheckpoint, writer, indexer
  <2>2. now <= now' /\ DOMAIN docs' \subseteq Doc /\ todo' = {}
    BY <2>1 DEF Known
  <2> QED
    BY <2>1, <2>2, KnownKept
<1>7. CASE PurgeScan
  <2>1. UNCHANGED <<now, docs, epc, todo, scanned, index_batch, index, ref_batch, refs>>
    BY <1>7 DEF PurgeScan, writer, exploder, indexer
  <2>2. now <= now' /\ DOMAIN docs' \subseteq Doc /\ (epc' # "scan" => todo' = {})
    BY <2>1 DEF Known
  <2> QED
    BY <2>1, <2>2, KnownKept
<1>8. ASSUME NEW a \in Addresses, Purge(a)
      PROVE  Known'
  <2>1. /\ UNCHANGED <<now, docs, epc, todo, scanned, index_batch, ref_batch, refs>>
        /\ DOMAIN index' \subseteq DOMAIN index /\ \A b \in DOMAIN index' : index'[b] = index[b]
    BY <1>8 DEF Purge, writer, exploder
  <2>2. now <= now' /\ DOMAIN docs' \subseteq Doc /\ (epc' # "scan" => todo' = {})
    BY <2>1 DEF Known
  <2> QED
    BY <2>1, <2>2, KnownKept
<1>9. ASSUME Restart, docs' = docs \/ \E b : docs' = PutAt(docs, b)
      PROVE  Known'
  <2>1. /\ UNCHANGED <<now, scanned, index, refs>> /\ todo' = {}
        /\ index_batch' = <<>> /\ ref_batch' = <<>>
    BY <1>9 DEF Restart
  <2>2. Elements(index_batch') = {} /\ Elements(ref_batch') = {}
    BY <2>1 DEF Elements
  <2>3. /\ DOMAIN docs' = DOMAIN docs
        /\ \A d \in DOMAIN docs : docs'[d].ts = docs[d].ts /\ (docs[d].put_at # 0 => docs'[d].put_at # 0)
    BY <1>9, Restarted
  <2>4. now <= now' /\ DOMAIN docs' \subseteq Doc
    BY <2>1, <2>3 DEF Known
  <2> QED
    BY <2>1, <2>2, <2>3, <2>4, KnownKept
<1>10. CASE Tick
  <2>1. UNCHANGED <<docs, epc, todo, scanned, index_batch, index, ref_batch, refs>>
    BY <1>10 DEF Tick, writer, exploder, indexer
  <2>2. now <= now' /\ now' \in 1..MaxTime
    BY <1>10 DEF Tick
  <2>3. DOMAIN docs' \subseteq Doc /\ (epc' # "scan" => todo' = {})
    BY <2>1 DEF Known
  <2> QED
    BY <2>1, <2>2, <2>3, KnownKept
<1>11. CASE UNCHANGED vars
  <2>1. UNCHANGED <<now, docs, epc, todo, scanned, index_batch, index, ref_batch, refs>>
    BY <1>11 DEF vars, writer, exploder, indexer
  <2>2. now <= now' /\ DOMAIN docs' \subseteq Doc /\ (epc' # "scan" => todo' = {})
    BY <2>1 DEF Known
  <2> QED
    BY <2>1, <2>2, KnownKept
<1> QED
  BY <1>1, <1>2, <1>3, <1>4, <1>5, <1>6, <1>7, <1>8, <1>9, <1>10, <1>11 DEF Next, ExploderStep, Crash, Interrupt

-----------------------------------------------------------------------------
(* How far the Exploder has got.                                           *)

LEMMA ReachedInit == Init => Reached
  BY DEF Init, Reached, TimelyIsScanned

\* A document is put at once or left alone, and nothing scanned or to be scanned is lost.
LEMMA ReachedKept ==
    ASSUME TypeOK, Reached, now' \in Nat, now <= now', endts' = endts, checkpoint' = checkpoint,
           scanned \subseteq scanned',
           epc' # "begin" => epc # "begin" /\ scanned \cup todo \subseteq scanned' \cup todo',
           \A d \in DOMAIN docs' :
                /\ docs'[d].ts \in Nat /\ docs'[d].put_at \in Nat
                /\ \/ d \in DOMAIN docs /\ docs'[d].ts = docs[d].ts /\ docs'[d].put_at = docs[d].put_at
                   \/ docs'[d].put_at \in {0, now}
    PROVE  Reached'
<1>1. now \in Nat /\ endts \in Nat /\ checkpoint \in Nat
  BY BoundsAssumption DEF TypeOK
<1>2. ASSUME NEW d \in DOMAIN docs', NEW x \in Nat, x <= now,
             docs'[d].put_at # 0, docs'[d].put_at <= docs'[d].ts + 1, docs'[d].ts + 1 < x
      PROVE  d \in DOMAIN docs /\ Timely(d) /\ docs[d].ts = docs'[d].ts
  <2>1. docs'[d].ts \in Nat /\ docs'[d].put_at \in Nat
    OBVIOUS
  <2>2. docs'[d].put_at \notin {0, now}
    BY <1>1, <1>2, <2>1
  <2>3. d \in DOMAIN docs /\ docs'[d].ts = docs[d].ts /\ docs'[d].put_at = docs[d].put_at
    BY <2>2
  <2> QED
    BY <1>2, <2>3 DEF Timely, Stored
<1>3. ASSUME NEW d \in DOMAIN docs', Timely(d)', docs'[d].ts + 1 < checkpoint'
      PROVE  d \in scanned'
  <2>1. docs'[d].put_at # 0 /\ docs'[d].put_at <= docs'[d].ts + 1 /\ docs'[d].ts + 1 < checkpoint
    BY <1>3 DEF Timely, Stored
  <2>2. checkpoint <= now
    BY DEF Reached
  <2>3. d \in DOMAIN docs /\ Timely(d) /\ docs[d].ts = docs'[d].ts
    BY <1>1, <1>2, <2>1, <2>2
  <2> QED
    BY <2>1, <2>3 DEF Reached, TimelyIsScanned
<1>4. ASSUME epc' # "begin", NEW d \in DOMAIN docs', Timely(d)', docs'[d].ts + 1 < endts'
      PROVE  d \in scanned' \cup todo'
  <2>1. docs'[d].put_at # 0 /\ docs'[d].put_at <= docs'[d].ts + 1 /\ docs'[d].ts + 1 < endts
    BY <1>4 DEF Timely, Stored
  <2>2. endts <= now
    BY DEF Reached
  <2>3. d \in DOMAIN docs /\ Timely(d) /\ docs[d].ts = docs'[d].ts
    BY <1>1, <1>2, <2>1, <2>2
  <2> QED
    BY <1>4, <2>1, <2>3 DEF Reached
<1>5. endts' <= now' /\ checkpoint' <= now'
  BY <1>1 DEF Reached
<1>6. TimelyIsScanned'
  BY <1>3 DEF TimelyIsScanned
<1>7. epc' # "begin" => \A d \in DOMAIN docs' : Timely(d)' /\ docs'[d].ts + 1 < endts' => d \in scanned' \cup todo'
  BY <1>4
<1> QED
  BY <1>5, <1>6, <1>7 DEF Reached

LEMMA ReachedStep ==
    ASSUME TypeOK, Known, Reached, [Next]_vars
    PROVE  Reached'
<1>0. now \in Nat /\ now <= now /\ docs \in Seq(Documents)
  BY BoundsAssumption, DocsTyped DEF TypeOK
<1>a. \A d \in DOMAIN docs : docs[d].ts \in Nat /\ docs[d].put_at \in Nat
  BY <1>0, DocumentTyped, BoundsAssumption
<1>1. ASSUME NEW c \in Doc, NEW content \in Contents[c], Submit(content)
      PROVE  Reached'
  <2>1. /\ docs' \in Seq(Documents)
        /\ DOMAIN docs' = DOMAIN docs \cup {Len(docs) + 1} /\ docs'[Len(docs) + 1].put_at \in {0, now}
        /\ \A d \in DOMAIN docs :
                /\ docs'[d].ts = docs[d].ts /\ docs'[d].content = docs[d].content
                /\ docs'[d].put_at \in {docs[d].put_at, now}
    BY <1>1, Submitted, Zenon
  <2>2. ASSUME NEW d \in DOMAIN docs'
        PROVE  docs'[d].ts \in Nat /\ docs'[d].put_at \in Nat
    <3>1. docs'[d] \in Documents
      BY <2>1, ElementOfSeq, LenProperties
    <3> QED
      BY <3>1, BoundsAssumption DEF Documents
  <2>3. \A d \in DOMAIN docs' :
           \/ d \in DOMAIN docs /\ docs'[d].ts = docs[d].ts /\ docs'[d].put_at = docs[d].put_at
           \/ docs'[d].put_at \in {0, now}
    BY <2>1
  <2>4. UNCHANGED <<now, checkpoint, epc, endts, todo, scanned>>
    BY <1>1 DEF Submit, exploder
  <2> QED
    BY <1>0, <2>2, <2>3, <2>4, ReachedKept
<1>2. CASE BeginScan
  <2>1. /\ UNCHANGED <<now, docs, checkpoint, scanned>> /\ endts' = now
        /\ todo' = {d \in Stored : ScanStart <= docs[d].ts /\ docs[d].ts < now}
    BY <1>2 DEF BeginScan, writer
  <2>2. endts' <= now' /\ checkpoint' <= now' /\ TimelyIsScanned'
    BY <1>0, <2>1 DEF Reached, TimelyIsScanned, Timely, Stored
  <2>3. ASSUME NEW d \in DOMAIN docs, Timely(d), docs[d].ts + 1 < now
        PROVE  d \in scanned \cup todo'
    <3>1. docs[d].ts \in Nat /\ checkpoint \in Nat /\ docs[d].ts >= 0
      BY <1>a, BoundsAssumption DEF TypeOK
    <3>2. CASE docs[d].ts + 1 < checkpoint
      BY <2>3, <3>2 DEF Reached, TimelyIsScanned
    <3>3. CASE ~ (docs[d].ts + 1 < checkpoint)
      <4>1. ScanStart <= docs[d].ts /\ docs[d].ts < now
        BY <1>0, <2>3, <3>1, <3>3 DEF ScanStart
      <4> QED
        BY <2>1, <2>3, <4>1 DEF Timely
    <3> QED
      BY <3>2, <3>3
  <2> QED
    BY <2>1, <2>2, <2>3 DEF Reached, Timely, Stored
<1>3. ASSUME NEW d \in Doc, IndexDocument(d)
      PROVE  Reached'
  <2>1. UNCHANGED <<now, docs, checkpoint, epc, endts>> /\ todo' = todo \ {d} /\ scanned' = scanned \cup {d}
        /\ epc = "scan"
    BY <1>3 DEF IndexDocument, writer
  <2> QED
    BY <1>0, <1>a, <2>1, ReachedKept
<1>4. ASSUME NEW d \in Doc, PassOver(d)
      PROVE  Reached'
  <2>1. UNCHANGED <<now, docs, checkpoint, epc, endts, scanned>> /\ todo' = todo \ {d}
        /\ epc = "scan" /\ d \in scanned
    BY <1>4 DEF PassOver, writer, Known
  <2> QED
    BY <1>0, <1>a, <2>1, ReachedKept
<1>5. CASE EndScan
  <2>1. UNCHANGED <<now, docs, checkpoint, endts, todo, scanned>> /\ epc = "scan"
    BY <1>5 DEF EndScan, writer
  <2> QED
    BY <1>0, <1>a, <2>1, ReachedKept
<1>6. CASE SetCheckpoint
  <2>1. UNCHANGED <<now, docs, endts, todo, scanned>> /\ epc = "sleep" /\ epc' = "begin"
        /\ checkpoint' \in {checkpoint, endts} /\ todo = {}
    BY <1>6 DEF SetCheckpoint, CheckpointValue, writer, Known
  <2>2. \A d \in DOMAIN docs : Timely(d) /\ docs[d].ts + 1 < endts => d \in scanned
    BY <2>1 DEF Reached
  <2>3. TimelyIsScanned'
    BY <2>1, <2>2 DEF Reached, TimelyIsScanned, Timely, Stored
  <2> QED
    BY <2>1, <2>3 DEF Reached
<1>7. CASE PurgeScan
  <2>1. UNCHANGED <<now, docs, checkpoint, epc, endts, todo, scanned>>
    BY <1>7 DEF PurgeScan, writer, exploder
  <2> QED
    BY <1>0, <1>a, <2>1, ReachedKept
<1>8. ASSUME NEW a \in Addresses, Purge(a)
      PROVE  Reached'
  <2>1. UNCHANGED <<now, docs, checkpoint, epc, endts, todo, scanned>>
    BY <1>8 DEF Purge, writer, exploder
  <2> QED
    BY <1>0, <1>a, <2>1, ReachedKept
<1>9. ASSUME Restart, docs' = docs \/ \E b : docs' = PutAt(docs, b)
      PROVE  Reached'
  <2>1. UNCHANGED <<now, checkpoint, endts, scanned>> /\ epc' = "begin"
    BY <1>9 DEF Restart
  <2>2. /\ DOMAIN docs' = DOMAIN docs
        /\ \A d \in DOMAIN docs : /\ docs'[d].ts = docs[d].ts /\ docs'[d].content = docs[d].content
                                  /\ docs'[d].put_at \in {docs[d].put_at, now}
    BY <1>9, Restarted
  <2>3. \A d \in DOMAIN docs' :
                /\ docs'[d].ts \in Nat /\ docs'[d].put_at \in Nat
                /\ \/ d \in DOMAIN docs /\ docs'[d].ts = docs[d].ts /\ docs'[d].put_at = docs[d].put_at
                   \/ docs'[d].put_at \in {0, now}
    BY <1>0, <1>a, <2>2
  <2> QED
    BY <1>0, <2>1, <2>3, ReachedKept
<1>10. CASE Tick
  <2>1. UNCHANGED <<docs, checkpoint, epc, endts, todo, scanned>> /\ now' \in Nat /\ now <= now'
    BY <1>0, <1>10 DEF Tick, writer, exploder
  <2> QED
    BY <1>a, <2>1, ReachedKept
<1>11. CASE UNCHANGED vars
  <2>1. UNCHANGED <<now, docs, checkpoint, epc, endts, todo, scanned>>
    BY <1>11 DEF vars, writer, exploder
  <2> QED
    BY <1>0, <1>a, <2>1, ReachedKept
<1> QED
  BY <1>1, <1>2, <1>3, <1>4, <1>5, <1>6, <1>7, <1>8, <1>9, <1>10, <1>11 DEF Next, ExploderStep, Crash, Interrupt

-----------------------------------------------------------------------------
(* What the Purger is about to delete.                                     *)

LEMMA AgedInit == Init => Aged
  BY DEF Init, Aged

LEMMA AgedStep ==
    ASSUME TypeOK, Known, Aged, [Next]_vars
    PROVE  Aged'
<1>0. /\ now \in Nat /\ purge_at \in Nat /\ doomed \subseteq DOMAIN index
      /\ \A a \in DOMAIN index : index[a].at \in Nat
  BY BoundsAssumption DEF TypeOK
<1>1. ASSUME NEW d \in Doc, IndexDocument(d)
      PROVE  Aged'
  <2>1. PICK ib \in Puts : Sent(ib) \in Puts /\ index' = IndexAfter(Sent(ib))
    BY <1>1, Indexed
  <2> DEFINE new == IndexAfter(Sent(ib))
  <2>2. IndexTyped /\ now \in 1..MaxTime
    BY DocsTyped
  <2>3. /\ \A b \in Rows(Sent(ib)) : new[b] = [doc |-> LastFor(Sent(ib), b).doc, at |-> now]
        /\ \A b \in DOMAIN index \ Rows(Sent(ib)) : new[b] = index[b]
    BY <2>1, <2>2, IndexAfterIs, Zenon
  <2> HIDE DEF new
  <2>4. ASSUME NEW a \in DOMAIN index
        PROVE  new[a] = index[a] \/ new[a].at = now
    <3>1. CASE a \in Rows(Sent(ib))
      <4>1. new[a] = [doc |-> LastFor(Sent(ib), a).doc, at |-> now]
        BY <2>3, <3>1
      <4> QED
        BY <4>1
    <3>2. CASE a \notin Rows(Sent(ib))
      BY <2>3, <3>2
    <3> QED
      BY <3>1, <3>2
  <2>5. UNCHANGED <<now, doomed, purge_at>> /\ index' = new
    BY <1>1, <2>1 DEF IndexDocument, purger, new
  <2> QED
    BY <1>0, <2>4, <2>5 DEF Aged
<1>2. CASE PurgeScan
  BY <1>0, <1>2 DEF PurgeScan, Aged, indexer, IsOld
<1>3. ASSUME NEW a \in Addresses, Purge(a)
      PROVE  Aged'
  <2>1. /\ now' = now /\ doomed' = doomed \ {a} /\ purge_at' = IF doomed' = {} THEN 0 ELSE purge_at
        /\ \A b \in DOMAIN index \ {a} : index'[b] = index[b]
    BY <1>3 DEF Purge
  <2> QED
    BY <1>0, <2>1 DEF Aged
<1>4. CASE Restart
  <2>1. doomed' = {} /\ purge_at' = 0 /\ now' = now
    BY <1>4 DEF Restart
  <2> QED
    BY <1>0, <2>1 DEF Aged
<1>5. ASSUME UNCHANGED <<doomed, purge_at, index>>, now' \in {now, now + 1}
      PROVE  Aged'
  BY <1>0, <1>5 DEF Aged
<1>6. ASSUME NEW c \in Doc, NEW content \in Contents[c], Submit(content)
      PROVE  Aged'
  BY <1>5, <1>6 DEF Submit, indexer, purger
<1>7. CASE BeginScan \/ EndScan \/ SetCheckpoint
  BY <1>5, <1>7 DEF BeginScan, EndScan, SetCheckpoint, indexer, purger
<1>8. ASSUME NEW d \in Doc, PassOver(d)
      PROVE  Aged'
  BY <1>5, <1>8 DEF PassOver, indexer, purger
<1>9. CASE Tick
  BY <1>5, <1>9 DEF Tick, indexer, purger
<1>10. CASE UNCHANGED vars
  BY <1>5, <1>10 DEF vars, indexer, purger
<1> QED
  BY <1>1, <1>2, <1>3, <1>4, <1>6, <1>7, <1>8, <1>9, <1>10 DEF Next, ExploderStep, Crash, Interrupt

-----------------------------------------------------------------------------
(* The order of a scan.                                                    *)

LEMMA OrderInit == Init => InOrder
  BY DEF Init, InOrder

\* Nothing joins the scan, and what leaves it was scanned and is the oldest in it.
LEMMA OrderStep ==
    ASSUME TypeOK, Known, InOrder, [Next]_vars
    PROVE  InOrder'
<1>0. docs \in Seq(Documents) /\ todo \cup scanned \subseteq DOMAIN docs
  BY DocsTyped DEF Known, Stored
<1>a. \A d \in DOMAIN docs : docs[d].ts \in Nat
  BY <1>0, DocumentTyped
<1>1. CASE BeginScan
  <2>1. /\ UNCHANGED <<docs, scanned>>
        /\ todo' = {d \in Stored : ScanStart <= docs[d].ts /\ docs[d].ts < now}
    BY <1>1 DEF BeginScan, writer
  <2>2. ScanStart \in Int
    BY BoundsAssumption DEF TypeOK, ScanStart
  <2>3. ASSUME NEW d \in todo', NEW e \in scanned, docs[e].ts > docs[d].ts
        PROVE  e \in todo'
    <3>1. e \in Stored /\ docs[e].ts < now
      BY DEF Known
    <3>2. docs[d].ts \in Int /\ docs[e].ts \in Int /\ ScanStart <= docs[d].ts
      BY <1>a, <2>1, <3>1 DEF Stored
    <3>3. ScanStart <= docs[e].ts
      BY <2>2, <2>3, <3>2
    <3> QED
      BY <2>1, <3>1, <3>3
  <2> QED
    BY <2>1, <2>3 DEF InOrder
<1>2. ASSUME NEW d \in Doc, IsNext(d), UNCHANGED docs, todo' = todo \ {d},
             scanned' = scanned \cup {d}
      PROVE  InOrder'
  <2> SUFFICES ASSUME NEW x \in todo', NEW e \in scanned', docs[e].ts > docs[x].ts
               PROVE  e \in todo'
    BY <1>2 DEF InOrder
  <2>1. x \in todo /\ docs[d].ts <= docs[x].ts /\ d \in todo
    BY <1>2 DEF IsNext
  <2>2. e # d
    BY <1>0, <1>a, <2>1
  <2>3. e \in todo
    BY <1>2, <2>1, <2>2 DEF InOrder
  <2> QED
    BY <1>2, <2>2, <2>3
<1>3. ASSUME NEW d \in Doc, IndexDocument(d)
      PROVE  InOrder'
  BY <1>2, <1>3 DEF IndexDocument, writer
<1>4. ASSUME NEW d \in Doc, PassOver(d)
      PROVE  InOrder'
  <2>1. d \in scanned
    BY <1>4 DEF PassOver, Known
  <2>2. scanned' = scanned \cup {d} /\ todo' = todo \ {d} /\ IsNext(d) /\ docs' = docs
    BY <1>4, <2>1 DEF PassOver, writer
  <2> QED
    BY <1>2, <2>2
<1>5. ASSUME \A d \in DOMAIN docs : docs'[d].ts = docs[d].ts, todo' = todo, scanned' = scanned
      PROVE  InOrder'
  BY <1>0, <1>5 DEF InOrder
<1>6. ASSUME NEW c \in Doc, NEW content \in Contents[c], Submit(content)
      PROVE  InOrder'
  <2>1. \A d \in DOMAIN docs : docs'[d].ts = docs[d].ts /\ docs'[d].content = docs[d].content
                               /\ docs'[d].put_at \in {docs[d].put_at, now}
    BY <1>6, Submitted, Zenon
  <2> QED
    BY <1>5, <1>6, <2>1 DEF Submit, exploder
<1>7. CASE EndScan \/ SetCheckpoint
  BY <1>5, <1>7 DEF EndScan, SetCheckpoint, writer
<1>8. CASE Restart
  BY <1>8 DEF Restart, InOrder
<1>9. CASE PurgeScan \/ Tick
  BY <1>5, <1>9 DEF PurgeScan, Tick, writer, exploder
<1>10. ASSUME NEW a \in Addresses, Purge(a)
       PROVE  InOrder'
  BY <1>5, <1>10 DEF Purge, writer, exploder
<1>11. CASE UNCHANGED vars
  BY <1>5, <1>11 DEF vars, writer, exploder
<1> QED
  BY <1>1, <1>3, <1>4, <1>6, <1>7, <1>8, <1>9, <1>10, <1>11 DEF Next, ExploderStep, Crash, Interrupt

-----------------------------------------------------------------------------
(* The last word on an address.                                            *)

LEMMA FreshInit == Init => Fresh
  BY DEF Init, Fresh, About

\* It is that of a scanned document, or of none, and on an address that can be packed.
LEMMA WordKnown ==
    ASSUME TypeOK, Known, NEW a, NEW x \in LastWord(a)
    PROVE  x \in scanned \cup {NoDoc} /\ a \notin Unpackable
<1>1. CASE a \in Rows(index_batch)
  <2>1. LastFor(index_batch, a) \in Elements(index_batch) /\ LastFor(index_batch, a).addr = a
    BY <1>1, DocsTyped, LastForTyped
  <2>2. x = LastFor(index_batch, a).doc
    BY <1>1 DEF LastWord
  <2> QED
    BY <2>1, <2>2 DEF Known
<1>2. CASE a \notin Rows(index_batch)
  <2>1. a \in DOMAIN index /\ x = index[a].doc
    BY <1>2 DEF LastWord
  <2> QED
    BY <2>1 DEF Known
<1> QED
  BY <1>1, <1>2

\* Handing a document to the Indexer changes the last word on the addresses it puts, to
\* that document or to none, and on no others.
LEMMA WordIndexed ==
    ASSUME TypeOK, Known, NEW d \in Doc, IndexDocument(d), NEW a \in Addresses
    PROVE  /\ a \in Rows(IndexPuts(d)) =>
                \A x \in LastWord(a)' \ {NoDoc} : x = d /\ docs[d].content[1] = a
           /\ a \notin Rows(IndexPuts(d)) => LastWord(a)' = LastWord(a)
<1>1. PICK ib \in Puts :
             /\ ib = index_batch \o IndexPuts(d) /\ Sent(ib) \in Puts /\ Kept(ib) \in Puts
             /\ index' = IndexAfter(Sent(ib)) /\ index_batch' = Kept(ib) /\ d \in DOMAIN docs
  BY Indexed
<1>2. IndexTyped /\ now \in 1..MaxTime /\ index_batch \in Puts /\ IndexPuts(d) \in Puts
  BY <1>1, DocsTyped, PutsOf
<1>3. Sent(ib) \o Kept(ib) = ib
  BY <1>1, SentAndKept DEF Puts
<1>4. /\ Rows(ib) = Rows(Sent(ib)) \cup Rows(Kept(ib))
      /\ Rows(ib) = Rows(index_batch) \cup Rows(IndexPuts(d))
  <2>1. Rows(Sent(ib) \o Kept(ib)) = Rows(Sent(ib)) \cup Rows(Kept(ib))
    BY <1>1, PutsConcat
  <2>2. Rows(index_batch \o IndexPuts(d)) = Rows(index_batch) \cup Rows(IndexPuts(d))
    BY <1>2, PutsConcat
  <2> QED
    BY <1>1, <1>3, <2>1, <2>2, Zenon
<1>5. /\ a \in Rows(Kept(ib)) => LastFor(ib, a) = LastFor(Kept(ib), a)
      /\ a \in Rows(Sent(ib)) /\ a \notin Rows(Kept(ib)) => LastFor(ib, a) = LastFor(Sent(ib), a)
  <2>1. /\ a \in Rows(Kept(ib)) => LastFor(Sent(ib) \o Kept(ib), a) = LastFor(Kept(ib), a)
        /\ a \in Rows(Sent(ib)) /\ a \notin Rows(Kept(ib)) => LastFor(Sent(ib) \o Kept(ib), a) = LastFor(Sent(ib), a)
    BY <1>1, PutsConcat
  <2> QED
    BY <1>3, <2>1, Zenon
<1>6. /\ a \in Rows(IndexPuts(d)) => LastFor(ib, a) = LastFor(IndexPuts(d), a)
      /\ a \in Rows(index_batch) /\ a \notin Rows(IndexPuts(d)) => LastFor(ib, a) = LastFor(index_batch, a)
  <2>1. /\ a \in Rows(IndexPuts(d)) => LastFor(index_batch \o IndexPuts(d), a) = LastFor(IndexPuts(d), a)
        /\ a \in Rows(index_batch) /\ a \notin Rows(IndexPuts(d))
              => LastFor(index_batch \o IndexPuts(d), a) = LastFor(index_batch, a)
    BY <1>2, PutsConcat
  <2> QED
    BY <1>1, <2>1, Zenon
<1>7. LastWord(a)' = IF a \in Rows(Kept(ib)) THEN {LastFor(Kept(ib), a).doc}
                     ELSE IF a \in DOMAIN index' THEN {index'[a].doc} ELSE {}
  BY <1>1 DEF LastWord, Rows, LastFor
<1> DEFINE new == IndexAfter(Sent(ib))
<1>8. /\ DOMAIN new = DOMAIN index \cup Rows(Sent(ib))
      /\ a \in Rows(Sent(ib)) => new[a].doc = LastFor(Sent(ib), a).doc
      /\ a \in DOMAIN index \ Rows(Sent(ib)) => new[a] = index[a]
  <2>1. /\ DOMAIN new = DOMAIN index \cup Rows(Sent(ib))
        /\ a \in Rows(Sent(ib)) => new[a] = [doc |-> LastFor(Sent(ib), a).doc, at |-> now]
        /\ a \in DOMAIN index \ Rows(Sent(ib)) => new[a] = index[a]
    BY <1>1, <1>2, IndexAfterIs, Zenon
  <2> HIDE DEF new
  <2>2. ASSUME a \in Rows(Sent(ib))
        PROVE  new[a].doc = LastFor(Sent(ib), a).doc
    BY <2>1, <2>2
  <2> QED
    BY <2>1, <2>2
<1>9. index' = new
  BY <1>1
<1> HIDE DEF new
<1>10. a \in Rows(ib) => LastWord(a)' = {LastFor(ib, a).doc}
  BY <1>4, <1>5, <1>7, <1>8, <1>9
<1>11. a \notin Rows(ib) => LastWord(a)' = LastWord(a)
  BY <1>4, <1>7, <1>8, <1>9 DEF LastWord
<1>12. ASSUME a \in Rows(IndexPuts(d)), NEW x \in LastWord(a)' \ {NoDoc}
       PROVE  x = d /\ docs[d].content[1] = a
  <2>1. x = LastFor(IndexPuts(d), a).doc
    BY <1>4, <1>6, <1>10, <1>12
  <2>2. LastFor(IndexPuts(d), a) \in Elements(IndexPuts(d)) /\ LastFor(IndexPuts(d), a).addr = a
    BY <1>2, <1>12, LastForTyped
  <2>3. \A p \in Elements(IndexPuts(d)) : p.doc \in {d, NoDoc} /\ (p.doc = d => p.addr = docs[d].content[1])
    BY <1>1, DocsTyped, PutsOf
  <2> QED
    BY <1>12, <2>1, <2>2, <2>3
<1>13. ASSUME a \notin Rows(IndexPuts(d))
       PROVE  LastWord(a)' = LastWord(a)
  <2>1. CASE a \in Rows(index_batch)
    BY <1>4, <1>6, <1>10, <1>13, <2>1 DEF LastWord
  <2>2. CASE a \notin Rows(index_batch)
    BY <1>4, <1>11, <1>13, <2>2
  <2> QED
    BY <2>1, <2>2
<1> QED
  BY <1>12, <1>13

\* Nothing else puts a word in the index, and no document changes what it is about.
LEMMA FreshKept ==
    ASSUME TypeOK, Known, Fresh, stops' = stops, passed' = passed, scanned' = scanned, todo \subseteq todo',
           index_batch' = index_batch, DOMAIN index' \subseteq DOMAIN index,
           \A a \in DOMAIN index' : index'[a] = index[a],
           \A d \in DOMAIN docs : docs'[d].ts = docs[d].ts /\ docs'[d].content = docs[d].content
    PROVE  Fresh'
<1> SUFFICES ASSUME stops = 0, ~ passed, NEW a \in Addresses, NEW d \in LastWord(a)' \ {NoDoc}, NEW e \in About(a)'
             PROVE  docs'[e].ts <= docs'[d].ts \/ e \in todo'
  BY DEF Fresh
<1>1. d \in LastWord(a)
  BY DEF LastWord, Rows, LastFor
<1>2. d \in scanned
  BY <1>1, WordKnown
<1>3. scanned \subseteq DOMAIN docs
  BY DEF Known, Stored
<1>4. e \in scanned /\ e \in About(a)
  BY <1>3 DEF About
<1>5. docs[e].ts <= docs[d].ts \/ e \in todo
  BY <1>1, <1>4 DEF Fresh
<1> QED
  BY <1>2, <1>3, <1>4, <1>5

LEMMA FreshStep ==
    ASSUME TypeOK, Known, InOrder, Fresh, [Next]_vars
    PROVE  Fresh'
<1>0. docs \in Seq(Documents) /\ todo \cup scanned \subseteq DOMAIN docs /\ \A d \in DOMAIN docs : docs[d].ts \in Nat
  <2>1. docs \in Seq(Documents) /\ todo \cup scanned \subseteq DOMAIN docs
    BY DocsTyped DEF Known, Stored
  <2>2. \A d \in DOMAIN docs : docs[d].ts \in Nat
    BY <2>1, DocumentTyped
  <2> QED
    BY <2>1, <2>2
<1>1. ASSUME NEW d \in Doc, IndexDocument(d)
      PROVE  Fresh'
  <2>1. /\ UNCHANGED <<docs, stops, passed>> /\ todo' = todo \ {d} /\ scanned' = scanned \cup {d}
        /\ d \in todo /\ \A e \in todo : docs[d].ts <= docs[e].ts
    BY <1>1 DEF IndexDocument, IsNext, writer
  <2> SUFFICES ASSUME stops = 0, ~ passed, NEW a \in Addresses, NEW x \in LastWord(a)' \ {NoDoc}, NEW e \in About(a)'
               PROVE  docs[e].ts <= docs[x].ts \/ e \in todo'
    BY <2>1 DEF Fresh
  <2>2. /\ e \in scanned \cup {d} /\ docs[e].content # <<>> /\ docs[e].content[1] = a
        /\ e \in DOMAIN docs /\ d \in DOMAIN docs
    BY <1>0, <2>1 DEF About
  <2>3. CASE a \in Rows(IndexPuts(d))
    <3>1. x = d
      BY <1>1, <2>3, WordIndexed
    <3>2. CASE e = d
      BY <1>0, <2>2, <3>1, <3>2
    <3>3. CASE e # d
      BY <1>0, <2>1, <2>2, <3>1, <3>3 DEF InOrder
    <3> QED
      BY <3>2, <3>3
  <2>4. CASE a \notin Rows(IndexPuts(d))
    <3>1. x \in LastWord(a) /\ a \notin Unpackable /\ x \in scanned
      <4>1. x \in LastWord(a)
        BY <1>1, <2>4, WordIndexed
      <4> QED
        BY <4>1, WordKnown
    <3>2. e # d
      BY <1>0, <2>2, <2>4, <3>1, PutsOf
    <3>3. e \in About(a)
      BY <2>2, <3>2 DEF About
    <3>4. docs[e].ts <= docs[x].ts \/ e \in todo
      BY <3>1, <3>3 DEF Fresh
    <3> QED
      BY <2>1, <3>2, <3>4
  <2> QED
    BY <2>3, <2>4
<1>2. ASSUME NEW d \in Doc, PassOver(d)
      PROVE  Fresh'
  BY <1>2 DEF PassOver, Fresh
<1>3. CASE Restart
  <2>1. stops' # 0
    BY <1>3 DEF Restart, TypeOK
  <2> QED
    BY <2>1 DEF Fresh
<1>4. ASSUME UNCHANGED <<docs, stops, passed, scanned, index_batch, index>>, todo \subseteq todo'
      PROVE  Fresh'
  BY <1>4, FreshKept
<1>5. ASSUME NEW c \in Doc, NEW content \in Contents[c], Submit(content)
      PROVE  Fresh'
  <2>1. \A d \in DOMAIN docs : /\ docs'[d].ts = docs[d].ts /\ docs'[d].content = docs[d].content
                               /\ docs'[d].put_at \in {docs[d].put_at, now}
    BY <1>5, Submitted, Zenon
  <2>2. UNCHANGED <<stops, passed, scanned, index_batch, index, todo>>
    BY <1>5 DEF Submit, exploder, indexer
  <2> QED
    BY <2>1, <2>2, FreshKept
<1>6. CASE BeginScan
  <2>1. todo = {}
    BY <1>6 DEF BeginScan, Known
  <2> QED
    BY <1>4, <1>6, <2>1 DEF BeginScan, writer, indexer
<1>7. CASE EndScan \/ SetCheckpoint
  BY <1>4, <1>7 DEF EndScan, SetCheckpoint, writer, indexer
<1>8. CASE PurgeScan \/ Tick
  BY <1>4, <1>8 DEF PurgeScan, Tick, writer, exploder, indexer
<1>9. ASSUME NEW a \in Addresses, Purge(a)
      PROVE  Fresh'
  <2>1. UNCHANGED <<docs, stops, passed, scanned, index_batch, todo>> /\ DOMAIN index' \subseteq DOMAIN index
        /\ \A b \in DOMAIN index' : index'[b] = index[b]
    BY <1>9 DEF Purge, writer, exploder
  <2> QED
    BY <2>1, FreshKept
<1>10. CASE UNCHANGED vars
  BY <1>4, <1>10 DEF vars, writer, exploder, indexer
<1> QED
  BY <1>1, <1>2, <1>3, <1>5, <1>6, <1>7, <1>8, <1>9, <1>10 DEF Next, ExploderStep, Crash, Interrupt

-----------------------------------------------------------------------------
(* The results.                                                            *)

LEMMA Invariance == Spec => []IInv
<1>1. Init => IInv
  BY TypeInit, KnownInit, ReachedInit, AgedInit, OrderInit, FreshInit DEF IInv
<1>2. IInv /\ [Next]_vars => IInv'
  BY TypeStep, KnownStep, ReachedStep, AgedStep, OrderStep, FreshStep DEF IInv
<1> QED
  BY <1>1, <1>2, PTL DEF Spec

\* Every variable keeps its type: what the writer, the Exploder, the Indexer and the Purger
\* of db/src and db/src/DB keep in memory, and the tables.
THEOREM TypeCorrect == Spec => []TypeOK
<1>1. IInv => TypeOK
  BY DEF IInv
<1> QED
  BY <1>1, Invariance, PTL

\* A document that is put in the second of its timestamp or the next is never left behind
\* the checkpoint of Exploder.run() unread, whatever else is submitted and wherever the
\* process ends.
THEOREM NothingTimelyMissed == Spec => []TimelyIsScanned
<1>1. IInv => TimelyIsScanned
  BY DEF IInv, Reached
<1> QED
  BY <1>1, Invariance, PTL

\* Between two scans the last word on an address is that of the youngest scanned document
\* about it, although the scans of Exploder.run() overlap and index documents again.
THEOREM LastWordIsYoungest == Spec => []IndexFresh
<1>1. IInv => IndexFresh
  <2> SUFFICES ASSUME IInv, epc = "sleep", stops = 0, ~ passed,
                      NEW a \in Addresses, NEW d \in LastWord(a) \ {NoDoc}, NEW e \in About(a)
               PROVE  docs[e].ts <= docs[d].ts
    BY DEF IndexFresh
  <2>1. todo = {}
    BY DEF IInv, Known
  <2> QED
    BY <2>1 DEF IInv, Fresh
<1> QED
  BY <1>1, Invariance, PTL

\* A row that Purger.run() deletes was older than the lifespan when it read it, or has been
\* put since it read it.
THEOREM OnlyOldRowsGo == Spec => PurgedWasOld
<1>1. IInv /\ [Next]_vars =>
        [\A a \in DOMAIN index \ DOMAIN index' :
           1000 * (now - index[a].at) > MaxLifespan \/ index[a].at >= purge_at]_vars
  <2> SUFFICES ASSUME IInv, [Next]_vars, NEW a \in DOMAIN index \ DOMAIN index'
               PROVE  1000 * (now - index[a].at) > MaxLifespan \/ index[a].at >= purge_at
    OBVIOUS
  <2>0. TypeOK /\ Known /\ Aged
    BY DEF IInv
  <2>1. ASSUME NEW d \in Doc, IndexDocument(d)
        PROVE  FALSE
    <3>1. PICK ib \in Puts : Sent(ib) \in Puts /\ index' = IndexAfter(Sent(ib))
      BY <2>0, <2>1, Indexed
    <3> QED
      BY <3>1 DEF IndexAfter
  <2>2. ASSUME index' = index
        PROVE  FALSE
    BY <2>2
  <2>3. PICK b \in Addresses : Purge(b)
    BY <2>1, <2>2 DEF Next, ExploderStep, Crash, Interrupt, Submit, BeginScan, PassOver, EndScan, SetCheckpoint,
          PurgeScan, Restart, Tick, vars, indexer
  <2>4. a \in doomed
    BY <2>3 DEF Purge
  <2>5. index[a].at \in Int /\ now \in Int /\ purge_at \in Int /\ MaxLifespan \in Int /\ purge_at <= now
    BY <2>0, BoundsAssumption, SizesAssumption DEF TypeOK, Aged
  <2> QED
    BY <2>0, <2>4, <2>5 DEF Aged
<1> QED
  BY <1>1, Invariance, PTL DEF Spec, PurgedWasOld

=============================================================================
