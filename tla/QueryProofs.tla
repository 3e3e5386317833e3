---------------------------- MODULE QueryProofs ----------------------------
(***************************************************************************)
(* Queries over index tables that change meanwhile, for any registry, any  *)
(* documents and queries, any number of servers and any size of batches:   *)
(* what a response holds, and why a query gets none.                       *)
(***************************************************************************)
EXTENDS Query, FiniteSetTheorems, SequenceTheorems, WellFoundedInduction, TLAPS

-----------------------------------------------------------------------------
(* Sequences.                                                              *)

LEMMA ToSetTyped ==
    ASSUME NEW S, NEW s \in Seq(S)
    PROVE  /\ ToSet(s) \subseteq S /\ DOMAIN s = 1..Len(s) /\ Len(s) \in Nat
           /\ \A n \in 1..Len(s) : s[n] \in ToSet(s) /\ s[n] \in S
  BY ElementOfSeq, LenProperties DEF ToSet

LEMMA ToSetOfConcat ==
    ASSUME NEW S, NEW s \in Seq(S), NEW t \in Seq(S)
    PROVE  ToSet(s \o t) \subseteq ToSet(s) \cup ToSet(t)
<1>1. /\ DOMAIN s = 1..Len(s) /\ DOMAIN t = 1..Len(t) /\ DOMAIN (s \o t) = 1..(Len(s) + Len(t))
      /\ Len(s) \in Nat /\ Len(t) \in Nat
      /\ \A i \in 1..(Len(s) + Len(t)) : (s \o t)[i] = IF i <= Len(s) THEN s[i] ELSE t[i - Len(s)]
  BY ConcatProperties, LenProperties
<1> SUFFICES ASSUME NEW i \in 1..(Len(s) + Len(t))
             PROVE  (s \o t)[i] \in ToSet(s) \cup ToSet(t)
  BY <1>1, Zenon DEF ToSet
<1>2. CASE i <= Len(s)
  <2>1. (s \o t)[i] = s[i] /\ i \in 1..Len(s)
    BY <1>1, <1>2
  <2> QED
    BY <1>1, <2>1 DEF ToSet
<1>3. CASE ~ (i <= Len(s))
  <2>1. (s \o t)[i] = t[i - Len(s)] /\ i - Len(s) \in 1..Len(t)
    BY <1>1, <1>3
  <2> QED
    BY <1>1, <2>1 DEF ToSet
<1> QED
  BY <1>2, <1>3

LEMMA ToSetOfSub ==
    ASSUME NEW S, NEW s \in Seq(S), NEW m \in 1..(Len(s) + 1), NEW n \in 0..Len(s)
    PROVE  SubSeq(s, m, n) \in Seq(S) /\ ToSet(SubSeq(s, m, n)) \subseteq ToSet(s)
<1>1. DOMAIN s = 1..Len(s) /\ Len(s) \in Nat /\ \A i \in 1..Len(s) : s[i] \in S
  BY LenProperties, ElementOfSeq
<1>2. \A i \in m..n : s[i] \in S
  BY <1>1
<1>3. /\ SubSeq(s, m, n) \in Seq(S)
      /\ Len(SubSeq(s, m, n)) = IF m <= n THEN n - m + 1 ELSE 0
      /\ \A i \in 1..(n - m + 1) : SubSeq(s, m, n)[i] = s[m + i - 1]
  BY <1>1, <1>2, SubSeqProperties
<1>4. DOMAIN SubSeq(s, m, n) = 1..Len(SubSeq(s, m, n))
  BY <1>3, LenProperties
<1> DEFINE u == SubSeq(s, m, n)
<1> HIDE DEF u
<1>5. ASSUME NEW i \in DOMAIN u
      PROVE  u[i] \in ToSet(s)
  <2>1. i \in 1..(n - m + 1) /\ m + i - 1 \in 1..Len(s)
    BY <1>1, <1>3, <1>4 DEF u
  <2>2. u[i] = s[m + i - 1]
    BY <1>3, <2>1 DEF u
  <2> QED
    BY <1>1, <2>1, <2>2 DEF ToSet
<1>6. ToSet(u) \subseteq ToSet(s)
  BY <1>5 DEF ToSet
<1> QED
  BY <1>3, <1>6 DEF u

LEMMA ToSetOfTail ==
    ASSUME NEW S, NEW s \in Seq(S), s # <<>>
    PROVE  /\ Tail(s) \in Seq(S) /\ Head(s) \in ToSet(s) /\ Head(s) \in S
           /\ ToSet(s) = {Head(s)} \cup ToSet(Tail(s))
<1>1. /\ Tail(s) \in Seq(S) /\ Len(Tail(s)) = Len(s) - 1 /\ Head(s) \in S
      /\ \A i \in 1..Len(Tail(s)) : Tail(s)[i] = s[i + 1]
  BY HeadTailProperties
<1>2. DOMAIN s = 1..Len(s) /\ DOMAIN Tail(s) = 1..Len(Tail(s)) /\ Len(s) \in Nat \ {0} /\ Head(s) = s[1]
  BY <1>1, LenProperties, EmptySeq
<1>3. Head(s) \in ToSet(s)
  BY <1>2 DEF ToSet
<1> DEFINE u == Tail(s)
<1> HIDE DEF u
<1>4. ToSet(u) \subseteq ToSet(s)
  <2> SUFFICES ASSUME NEW i \in DOMAIN u
               PROVE  u[i] \in ToSet(s)
    BY DEF ToSet
  <2>1. u[i] = s[i + 1] /\ i + 1 \in 1..Len(s)
    BY <1>1, <1>2 DEF u
  <2> QED
    BY <1>2, <2>1 DEF ToSet
<1>5. ASSUME NEW i \in 1..Len(s)
      PROVE  s[i] \in {Head(s)} \cup ToSet(u)
  <2>1. CASE i = 1
    BY <1>2, <2>1
  <2>2. CASE i # 1
    <3>1. i - 1 \in DOMAIN u /\ u[i - 1] = s[i]
      BY <1>1, <1>2, <2>2 DEF u
    <3> QED
      BY <3>1 DEF ToSet
  <2> QED
    BY <2>1, <2>2
<1>6. ToSet(s) \subseteq {Head(s)} \cup ToSet(u)
  BY <1>2, <1>5 DEF ToSet
<1> QED
  BY <1>1, <1>3, <1>4, <1>6 DEF u

LEMMA Division ==
    ASSUME NEW a \in Nat, NEW b \in Nat \ {0}
    PROVE  a \div b \in Nat /\ a % b \in 0..(b - 1) /\ a = b * (a \div b) + (a % b)
  OBVIOUS

\* Batches are sent whole.
LEMMA SentOf ==
    ASSUME NEW n \in Nat
    PROVE  (n \div BatchSize) * BatchSize \in 0..n
<1>1. BatchSize \in Nat \ {0}
  BY SizesAssumption
<1>2. n \div BatchSize \in Nat /\ n = BatchSize * (n \div BatchSize) + (n % BatchSize) /\ n % BatchSize \in 0..(BatchSize - 1)
  BY <1>1
<1>3. (n \div BatchSize) * BatchSize = BatchSize * (n \div BatchSize) /\ BatchSize * (n \div BatchSize) \in Nat
  BY <1>1, <1>2
<1> QED
  BY <1>1, <1>2, <1>3

LEMMA FirstPosition ==
    ASSUME NEW P \in SUBSET Nat, P # {}
    PROVE  Min(P) \in P /\ \A n \in P : Min(P) <= n
<1>1. PICK m \in P : \A k \in P : ~ (<<k, m>> \in OpToRel(<, Nat))
  BY NatLessThanWellFounded, WFMin
<1>2. ASSUME NEW k \in P
      PROVE  m <= k
  <2>1. \A i, j \in Nat : i < j => <<i, j>> \in OpToRel(<, Nat)
    BY DEF OpToRel
  <2>2. m \in Nat /\ k \in Nat
    OBVIOUS
  <2>3. ~ (k < m)
    BY <1>1, <2>1, <2>2, Zenon
  <2> QED
    BY <2>2, <2>3
<1> QED
  BY <1>2 DEF Min

-----------------------------------------------------------------------------
(* What the Indexer puts for a document.                                   *)

\* The addresses that are committed are the first ones, none of which raises.
LEMMA AddressesAre ==
    ASSUME NEW d \in Documents
    PROVE  /\ Committed(d.content) \in 0..Len(d.content)
           /\ Addresses(d.content) \in Seq(Address)
           /\ \A i \in 1..Len(Addresses(d.content)) :
                /\ i \in 1..Len(d.content) /\ Addresses(d.content)[i] = d.content[i]
                /\ d.content[i] \in Address /\ ~ IndexRaises(d.content[i].kind)
<1> DEFINE c == d.content
           I == {i \in 1..Len(c) : IndexRaises(c[i].kind)}
<1>1. c \in Seq(Address)
  BY DocumentsAssumption
<1> HIDE DEF c
<1>2. Len(c) \in Nat /\ DOMAIN c = 1..Len(c) /\ \A i \in 1..Len(c) : c[i] \in Address
  BY <1>1, LenProperties, ElementOfSeq
<1>3. Committed(c) = IF I # {} THEN Min(I) ELSE 0
  BY DEF Committed, SelectInSubSeq
<1>4. CASE I = {}
  <2>1. Committed(c) = 0 /\ Addresses(c) = c
    BY <1>3, <1>4 DEF Addresses
  <2>2. \A i \in 1..Len(c) : ~ IndexRaises(c[i].kind)
    BY <1>4
  <2> QED
    BY <1>1, <1>2, <2>1, <2>2 DEF c
<1>5. CASE I # {}
  <2>1. I \in SUBSET Nat
    BY <1>2
  <2>2. Min(I) \in I /\ \A n \in I : Min(I) <= n
    <3> HIDE DEF I
    <3> QED
      BY <1>5, <2>1, FirstPosition
  <2> DEFINE k == Committed(c)
  <2>3. k \in 1..Len(c) /\ \A i \in 1..(k - 1) : i \in 1..Len(c) /\ ~ IndexRaises(c[i].kind)
    <3>1. k = Min(I)
      BY <1>3, <1>5
    <3> HIDE DEF k
    <3>2. k \in 1..Len(c) /\ k \in Nat
      BY <1>2, <2>2, <3>1
    <3>3. ASSUME NEW i \in 1..(k - 1)
          PROVE  i \in 1..Len(c) /\ ~ IndexRaises(c[i].kind)
      <4>1. i \in 1..Len(c) /\ ~ (k <= i)
        BY <1>2, <3>2
      <4>2. i \notin I
        BY <2>2, <3>1, <4>1
      <4> QED
        BY <4>1, <4>2
    <3> QED
      BY <3>2, <3>3
  <2>4. Addresses(c) = SubSeq(c, 1, k - 1)
    BY <1>2, <2>3 DEF Addresses
  <2> HIDE DEF k
  <2>5. /\ SubSeq(c, 1, k - 1) \in Seq(Address)
        /\ Len(SubSeq(c, 1, k - 1)) = k - 1
        /\ \A i \in 1..(k - 1) : SubSeq(c, 1, k - 1)[i] = c[i]
    <3>1. \A i \in 1..(k - 1) : c[i] \in Address
      BY <1>2, <2>3
    <3>2. /\ SubSeq(c, 1, k - 1) \in Seq(Address)
          /\ Len(SubSeq(c, 1, k - 1)) = IF 1 <= k - 1 THEN (k - 1) - 1 + 1 ELSE 0
          /\ \A i \in 1..((k - 1) - 1 + 1) : SubSeq(c, 1, k - 1)[i] = c[1 + i - 1]
      <4>1. 1 \in Int /\ k - 1 \in Int
        BY <1>2, <2>3
      <4> QED
        BY <3>1, <4>1, SubSeqProperties
    <3>3. (k - 1) - 1 + 1 = k - 1 /\ (1 <= k - 1 \/ k - 1 = 0) /\ \A i \in 1..(k - 1) : 1 + i - 1 = i
      BY <1>2, <2>3
    <3> QED
      BY <3>2, <3>3
  <2> QED
    BY <1>2, <2>3, <2>4, <2>5 DEF c, k
<1> QED
  BY <1>4, <1>5

\* A row about a document is the row of its first address.
Faithful(r) ==
    r.doc # NoDoc =>
        /\ r.doc.content # <<>> /\ r.doc.content[1] \in Address /\ ~ IndexRaises(r.doc.content[1].kind)
        /\ r.table = r.doc.type /\ r.type = Enum[r.doc.content[1].kind]
        /\ r.key = Pack(r.doc.content[1].kind, r.doc.content[1].value)

FaithfulRow == {r \in Row : Faithful(r)}

LEMMA SaltTyped ==
    ASSUME NEW t, salt[t] \in 0..(NumServers - 1), NEW n \in Nat
    PROVE  SaltAfter(t, n) \in 0..(NumServers - 1)
<1>1. NumServers \in Nat \ {0}
  BY SizesAssumption
<1>2. salt[t] + 2 * n \in Nat
  BY <1>1
<1>3. (salt[t] + 2 * n) % NumServers \in 0..(NumServers - 1)
  BY <1>1, <1>2
<1> QED
  BY <1>3 DEF SaltAfter

LEMMA PutsAre ==
    ASSUME NEW d \in Documents, salt[d.type] \in 0..(NumServers - 1)
    PROVE  /\ Puts(d) \in Seq(FaithfulRow)
           /\ \A p \in ToSet(Puts(d)) : p.table = d.type
           /\ \A p \in ToSet(Puts(d)) : p.doc # NoDoc => p.doc = d /\ p = Puts(d)[1]
<1> DEFINE adrs == Addresses(d.content)
           e(i) == [table |-> d.type, server |-> SaltAfter(d.type, i), type |-> Enum[adrs[i].kind],
                    key |-> Pack(adrs[i].kind, adrs[i].value), doc |-> IF i = 1 THEN d ELSE NoDoc]
<1>1. /\ adrs \in Seq(Address) /\ DOMAIN adrs = 1..Len(adrs) /\ Len(adrs) \in Nat
      /\ \A i \in 1..Len(adrs) : /\ i \in 1..Len(d.content) /\ adrs[i] = d.content[i] /\ adrs[i] \in Address
                               /\ ~ IndexRaises(adrs[i].kind)
  BY AddressesAre, LenProperties
<1>2. Puts(d) = [i \in 1..Len(adrs) |-> e(i)]
  BY <1>1 DEF Puts
<1> HIDE DEF adrs
<1>3. ASSUME NEW i \in 1..Len(adrs)
      PROVE  e(i) \in FaithfulRow
  <2>1. /\ adrs[i].kind \in DOMAIN Enum /\ adrs[i] \in ToSet(d.content) /\ d.content # <<>>
        /\ i \in Nat
    <3>1. d.content \in Seq(Address) /\ DOMAIN d.content = 1..Len(d.content)
      BY DocumentsAssumption, LenProperties
    <3>2. adrs[i] \in ToSet(d.content)
      BY <1>1, <3>1, ToSetTyped
    <3>4. d.content # <<>>
      <4>1. i \in 1..Len(d.content)
        BY <1>1
      <4>2. Len(<<>>) = 0
        BY EmptySeq
      <4> QED
        BY <4>1, <4>2
    <3>3. adrs[i].kind \in DOMAIN Enum
      BY <1>1 DEF Address
    <3> QED
      BY <1>1, <3>2, <3>3, <3>4
  <2>2. /\ e(i).table = d.type /\ e(i).server = SaltAfter(d.type, i) /\ e(i).type = Enum[adrs[i].kind]
        /\ e(i).key = Pack(adrs[i].kind, adrs[i].value) /\ e(i).doc = IF i = 1 THEN d ELSE NoDoc
    OBVIOUS
  <2>3. /\ d.type \in Types /\ SaltAfter(d.type, i) \in 0..(NumServers - 1)
        /\ Enum[adrs[i].kind] \in {Enum[n] : n \in DOMAIN Enum}
        /\ Pack(adrs[i].kind, adrs[i].value) \in {Pack(a.kind, a.value) : a \in UNION {ToSet(x.content) : x \in Documents}}
        /\ (IF i = 1 THEN d ELSE NoDoc) \in Documents \cup {NoDoc}
    BY <2>1, SaltTyped DEF Types
  <2>4. e(i) \in Row
    BY <2>3 DEF Row
  <2> HIDE DEF e
  <2>5. Faithful(e(i))
    <3>1. CASE i = 1
      BY <1>1, <2>1, <2>2, <3>1 DEF Faithful
    <3>2. CASE i # 1
      BY <2>2, <3>2 DEF Faithful
    <3> QED
      BY <3>1, <3>2
  <2> QED
    BY <2>4, <2>5 DEF FaithfulRow
<1>4. \A i \in 1..Len(adrs) : e(i).table = d.type /\ e(i).doc = IF i = 1 THEN d ELSE NoDoc
  OBVIOUS
<1> HIDE DEF e
<1>5. Puts(d) \in Seq(FaithfulRow)
  <2> DEFINE k == Len(adrs)
  <2>1. k \in Nat /\ \A i \in 1..k : e(i) \in FaithfulRow
    BY <1>1, <1>3
  <2> HIDE DEF k
  <2>2. [i \in 1..k |-> e(i)] \in Seq(FaithfulRow)
    BY <2>1, IsASeq
  <2> QED
    BY <1>2, <2>2 DEF k
<1>6. ASSUME NEW p \in ToSet(Puts(d))
      PROVE  p.table = d.type /\ (p.doc # NoDoc => p.doc = d /\ p = Puts(d)[1])
  <2>1. PICK i \in 1..Len(adrs) : p = e(i) /\ Puts(d)[i] = e(i)
    BY <1>2 DEF ToSet
  <2> QED
    BY <1>4, <2>1
<1> QED
  BY <1>5, <1>6

-----------------------------------------------------------------------------
(* The index tables.                                                       *)

Salts == 0..(NumServers - 1)

\* Rows about documents are faithful, and every table that has rows exists.
IndexShape ==
    /\ tables \subseteq Types /\ rows \subseteq FaithfulRow /\ \A r \in rows : r.table \in tables
    /\ batch \in [Types -> Seq(FaithfulRow)] /\ \A t \in Types : \A p \in ToSet(batch[t]) : p.table = t
    /\ salt \in [Types -> Salts]
    /\ indexed \in [Documents -> Nat] /\ deletes \in Nat

LEMMA IndexShapeInit == Init => IndexShape
<1> SUFFICES ASSUME Init
             PROVE  IndexShape
  OBVIOUS
<1>1. \A t \in Types : ToSet(batch[t]) = {}
  <2>1. ToSet(<<>>) = {}
    BY DEF ToSet
  <2>2. \A t \in Types : batch[t] = <<>>
    BY DEF Init
  <2> QED
    BY <2>1, <2>2
<1>2. batch \in [Types -> Seq(FaithfulRow)]
  <2>1. <<>> \in Seq(FaithfulRow)
    BY EmptySeq
  <2> QED
    BY <2>1 DEF Init
<1>3. salt \in [Types -> Salts] /\ indexed \in [Documents -> Nat]
  <2>1. salt = [t \in Types |-> 0] /\ indexed = [d \in Documents |-> 0]
    BY DEF Init
  <2>2. 0 \in Salts
    BY SizesAssumption DEF Salts
  <2> QED
    BY <2>1, <2>2
<1> QED
  BY <1>1, <1>2, <1>3 DEF Init, IndexShape

\* What indexing a document does to the rows: all there is was there before, in a table or
\* a batch, or is put for this document.
LEMMA Indexed ==
    ASSUME IndexShape, NEW d \in Documents, Index(d)
    PROVE  /\ IndexShape' /\ tables \subseteq tables'
           /\ rows' \subseteq rows \cup ToSet(batch[d.type]) \cup ToSet(Puts(d))
           /\ \A t \in Types : ToSet(batch'[t]) \subseteq ToSet(batch[t]) \cup ToSet(Puts(d))
           /\ indexed' = [indexed EXCEPT ![d] = @ + 1] /\ lasting' = lasting \cap rows'
           /\ UNCHANGED <<deletes, handler>>
<1> DEFINE t    == d.type
           puts == batch[t] \o Puts(d)
           sent == (Len(puts) \div BatchSize) * BatchSize
<1>1. t \in Types
  BY DEF Types
<1>2. batch[t] \in Seq(FaithfulRow) /\ salt[t] \in Salts
  BY <1>1 DEF IndexShape
<1>3. /\ Puts(d) \in Seq(FaithfulRow)
      /\ \A p \in ToSet(Puts(d)) : p.table = t
  BY <1>2, PutsAre DEF Salts
<1>4. /\ tables' = tables \cup {t}
      /\ rows' = RowsAfter(puts, sent) /\ lasting' = lasting \cap rows'
      /\ batch' = [batch EXCEPT ![t] = SubSeq(puts, sent + 1, Len(puts))]
      /\ salt' = [salt EXCEPT ![t] = SaltAfter(t, Packed(d))]
      /\ indexed' = [indexed EXCEPT ![d] = @ + 1]
      /\ UNCHANGED <<deletes, handler>>
  BY DEF Index
<1>5. puts \in Seq(FaithfulRow)
  BY <1>2, <1>3, ConcatProperties
<1>6. ToSet(puts) \subseteq ToSet(batch[t]) \cup ToSet(Puts(d))
  BY <1>2, <1>3, ToSetOfConcat
<1> HIDE DEF puts
<1>7. Len(puts) \in Nat /\ sent \in 0..Len(puts) /\ sent \in Nat
  <2>1. Len(puts) \in Nat
    BY <1>5, LenProperties
  <2> QED
    BY <2>1, SentOf
<1> HIDE DEF sent
<1>8. /\ SubSeq(puts, sent + 1, Len(puts)) \in Seq(FaithfulRow)
      /\ ToSet(SubSeq(puts, sent + 1, Len(puts))) \subseteq ToSet(puts)
  <2>1. sent + 1 \in 1..(Len(puts) + 1) /\ Len(puts) \in 0..Len(puts)
    BY <1>7
  <2> QED
    BY <1>5, <2>1, ToSetOfSub
<1>9. RowsAfter(puts, sent) \subseteq rows \cup ToSet(puts)
  <2>1. \A i \in 1..sent : puts[i] \in ToSet(puts)
    <3>1. \A i \in 1..sent : i \in 1..Len(puts)
      BY <1>7
    <3> QED
      BY <1>5, <3>1, ToSetTyped
  <2> QED
    BY <2>1 DEF RowsAfter
<1>10. ToSet(puts) \subseteq FaithfulRow /\ \A p \in ToSet(puts) : p.table = t
  <2>1. ToSet(puts) \subseteq FaithfulRow
    BY <1>5, ToSetTyped
  <2>2. \A p \in ToSet(batch[t]) : p.table = t
    BY <1>1 DEF IndexShape
  <2> QED
    BY <1>3, <1>6, <2>1, <2>2
<1>11. tables' \subseteq Types /\ rows' \subseteq FaithfulRow /\ \A r \in rows' : r.table \in tables'
  BY <1>1, <1>4, <1>9, <1>10 DEF IndexShape
<1>12. ASSUME NEW u \in Types
       PROVE  /\ ToSet(batch'[u]) \subseteq ToSet(batch[u]) \cup ToSet(Puts(d))
              /\ \A p \in ToSet(batch'[u]) : p.table = u
  <2>1. CASE u = t
    <3>1. batch'[u] = SubSeq(puts, sent + 1, Len(puts))
      BY <1>4, <2>1 DEF IndexShape
    <3> QED
      BY <1>6, <1>8, <1>10, <2>1, <3>1
  <2>2. CASE u # t
    <3>1. batch'[u] = batch[u]
      BY <1>4, <2>2 DEF IndexShape
    <3> QED
      BY <3>1 DEF IndexShape
  <2> QED
    BY <2>1, <2>2
<1>13. batch' \in [Types -> Seq(FaithfulRow)]
  BY <1>1, <1>4, <1>8 DEF IndexShape
<1>14. salt' \in [Types -> Salts]
  <2>1. Packed(d) \in Nat
    <3>1. Committed(d.content) \in Nat /\ Len(Addresses(d.content)) \in Nat
      <4>1. d.content \in Seq(Address) /\ Addresses(d.content) \in Seq(Address)
        BY AddressesAre, DocumentsAssumption
      <4>2. Len(d.content) \in Nat /\ Len(Addresses(d.content)) \in Nat
        BY <4>1, LenProperties
      <4> QED
        BY <4>2, AddressesAre
    <3> QED
      BY <3>1 DEF Packed
  <2>2. SaltAfter(t, Packed(d)) \in Salts
    BY <1>2, <2>1, SaltTyped DEF Salts
  <2> QED
    BY <1>1, <1>4, <2>2 DEF IndexShape
<1>15. indexed' \in [Documents -> Nat] /\ deletes' \in Nat
  BY <1>4 DEF IndexShape
<1>16. IndexShape'
  BY <1>11, <1>12, <1>13, <1>14, <1>15 DEF IndexShape
<1> QED
  BY <1>4, <1>6, <1>9, <1>12, <1>16

LEMMA Deleted ==
    ASSUME IndexShape, NEW r \in rows, Purge(r) \/ Repair(r)
    PROVE  /\ IndexShape' /\ rows' = rows \ {r} /\ lasting' = lasting \ {r}
           /\ UNCHANGED <<tables, batch, salt, indexed, handler>>
<1>1. /\ deletes' = deletes + 1 /\ rows' = rows \ {r} /\ lasting' = lasting \ {r}
      /\ UNCHANGED <<tables, batch, salt, indexed, handler>>
  BY DEF Purge, Repair, Delete
<1> QED
  BY <1>1 DEF IndexShape

-----------------------------------------------------------------------------
(* The scans of a query.                                                   *)

\* Every server is scanned for every table of a query.
LEMMA ScansAre ==
    ASSUME NEW q, SecondariesOf(q) \in Seq(ToSet(SecondariesOf(q))), NEW server \in Salts,
           NEW secondary \in ToSet(SecondariesOf(q))
    PROVE  <<server, secondary>> \in ToSet(Scans(q))
<1> DEFINE s == SecondariesOf(q)
           k == Len(s)
<1>1. k \in Nat /\ DOMAIN s = 1..k
  BY LenProperties
<1>2. PICK j \in 1..k : s[j] = secondary
  BY <1>1 DEF ToSet
<1> HIDE DEF k
<1>3. server \in Nat /\ server <= NumServers - 1 /\ NumServers \in Nat /\ k > 0 /\ j \in Nat
  BY <1>1, <1>2, SizesAssumption DEF Salts
<1> DEFINE x == k * server
           n == x + j
<1>4. x \in Nat /\ x + k <= NumServers * k
  <2>1. x \in Nat
    BY <1>1, <1>3
  <2>2. NumServers - server \in Nat /\ NumServers - server >= 1
    BY <1>3
  <2>3. k * (NumServers - server) >= k
    BY <1>1, <2>2
  <2>4. k * (NumServers - server) = NumServers * k - x
    BY <1>1, <1>3
  <2> QED
    BY <1>1, <1>3, <2>1, <2>3, <2>4
<1> HIDE DEF x
<1>5. n \in 1..NumServers * k
  BY <1>1, <1>2, <1>3, <1>4
<1>6. (n - 1) \div k = server /\ (n - 1) % k = j - 1
  <2>1. n - 1 \in Nat /\ n - 1 = x + (j - 1) /\ j - 1 \in 0..(k - 1)
    BY <1>1, <1>2, <1>3, <1>4
  <2> DEFINE d == (n - 1) \div k
             m == (n - 1) % k
  <2>2. d \in Nat /\ m \in 0..(k - 1) /\ n - 1 = k * d + m
    <3> HIDE DEF n
    <3>1. n - 1 \in Nat /\ k \in Nat \ {0}
      BY <1>1, <1>3, <2>1
    <3> QED
      BY <3>1, Division
  <2> HIDE DEF d, m
  <2>3. ~ (d < server)
    <3> SUFFICES ASSUME d < server
                 PROVE  FALSE
      OBVIOUS
    <3>1. server - d >= 1 /\ server - d \in Nat
      BY <1>3, <2>2
    <3>2. k * (server - d) >= k
      BY <1>1, <3>1
    <3>3. k * (server - d) = x - k * d
      BY <1>1, <1>3, <2>2 DEF x
    <3>4. k * d \in Nat
      BY <1>1, <2>2
    <3> QED
      BY <1>1, <1>4, <2>1, <2>2, <3>2, <3>3, <3>4
  <2>4. ~ (server < d)
    <3> SUFFICES ASSUME server < d
                 PROVE  FALSE
      OBVIOUS
    <3>1. d - server >= 1 /\ d - server \in Nat
      BY <1>3, <2>2
    <3>2. k * (d - server) >= k
      BY <1>1, <3>1
    <3>3. k * (d - server) = k * d - x
      BY <1>1, <1>3, <2>2 DEF x
    <3>4. k * d \in Nat
      BY <1>1, <2>2
    <3> QED
      BY <1>1, <1>4, <2>1, <2>2, <3>2, <3>3, <3>4
  <2>5. d = server
    BY <1>3, <2>2, <2>3, <2>4
  <2>6. m = j - 1
    <3>1. k * d = x
      BY <2>5 DEF x
    <3> QED
      BY <1>4, <2>1, <2>2, <3>1
  <2> QED
    BY <2>5, <2>6 DEF d, m
<1>7. Scans(q)[n] = <<server, secondary>> /\ n \in DOMAIN Scans(q)
  <2>1. 1 + (j - 1) = j
    BY <1>3
  <2>2. Scans(q) = [i \in 1..NumServers * k |-> <<(i - 1) \div k, s[1 + ((i - 1) % k)]>>]
    BY DEF Scans, k
  <2> HIDE DEF n, s
  <2> QED
    BY <1>2, <1>5, <1>6, <2>1, <2>2
<1> QED
  BY <1>7 DEF ToSet

-----------------------------------------------------------------------------
(* The inductive invariant.                                                *)

Pairs    == Salts \X (ToSet(Secondaries) \cup {q.sec : q \in Queries})
Response == [query : Queries, found : SUBSET FaithfulRow, lasting : SUBSET FaithfulRow]

HandlerShape ==
    /\ pc \in {"idle", "open", "scan", "sent", "dead"}
    /\ request \in Seq(Queries) /\ failed \subseteq Queries /\ status \in {"", "SUCCESS", "FAILED"}
    /\ available \subseteq tables /\ found \subseteq FaithfulRow /\ lasting \subseteq FaithfulRow
    /\ todo \in Seq(Pairs) /\ responses \in Seq(Response) /\ faults \in Nat

\* The rows that a query's scans are after.
Matches(q, r) ==
    /\ ~ Mismatched(q) /\ Decoded(q) /\ r.doc # NoDoc
    /\ r.table \in ToSet(SecondariesOf(q)) /\ InRange(q, r.type)
    /\ Limited(q) => IsPrefix(Pack(GuessTypeOf(q.lim), q.lim.value), r.key)

\* While a query is asked, what was found matches, and a row that matches and has been in
\* its table all along has been found or is in a table that is still to be scanned.
Asking ==
    pc = "scan" =>
        /\ request # <<>> /\ ~ Mismatched(Head(request))
        /\ \A p \in ToSet(todo) : p[2] \in ToSet(SecondariesOf(Head(request)))
        /\ \A r \in found : Matches(Head(request), r)
        /\ lasting \subseteq rows /\ \A r \in lasting : r.table \in available
        /\ \A r \in lasting : Matches(Head(request), r) => r \in found \/ <<r.server, r.table>> \in ToSet(todo)

\* A response holds rows that match its query, and all of those that lasted.
Answered ==
    \A i \in DOMAIN responses :
        /\ \A r \in responses[i].found : Matches(responses[i].query, r)
        /\ \A r \in responses[i].lasting : Matches(responses[i].query, r) => r \in responses[i].found

\* The rows there are, in tables, batches and responses.
Everywhere ==
    rows \cup found \cup (UNION {ToSet(batch[t]) : t \in Types})
         \cup (UNION {responses[i].found : i \in DOMAIN responses})

\* A document that was not indexed has no row, one that was indexed once has one at most.
Once ==
    \A d \in Documents \ {NoDoc} :
        /\ indexed[d] = 0 => \A r \in Everywhere : r.doc # d
        /\ indexed[d] = 1 => \A r, s \in Everywhere : r.doc = d /\ s.doc = d => r = s

IInv == IndexShape /\ HandlerShape /\ Asking /\ Answered /\ Once /\ FailsForAReason

\* The scans of a query are of tables it is about.
LEMMA ScansTyped ==
    ASSUME NEW q \in Queries
    PROVE  /\ SecondariesOf(q) \in Seq(ToSet(SecondariesOf(q)))
           /\ Scans(q) \in Seq(Pairs)
           /\ \A p \in ToSet(Scans(q)) : p[2] \in ToSet(SecondariesOf(q))
<1> DEFINE s == SecondariesOf(q)
           S == ToSet(Secondaries) \cup {x.sec : x \in Queries}
           k == Len(s)
           e(n) == <<(n - 1) \div k, s[1 + ((n - 1) % k)]>>
<1>1. s \in Seq(ToSet(s)) /\ ToSet(s) \subseteq S
  <2>1. CASE s = <<q.sec>>
    <3>1. <<q.sec>> \in Seq({q.sec}) /\ ToSet(<<q.sec>>) = {q.sec}
      BY DEF ToSet
    <3> QED
      BY <2>1, <3>1
  <2>2. CASE s = Secondaries
    <3>1. DOMAIN Secondaries = 1..Len(Secondaries) /\ Len(Secondaries) \in Nat
      BY SecondariesAssumption, LenProperties
    <3> DEFINE n == Len(Secondaries)
               f(i) == Secondaries[i]
    <3>2. Secondaries = [i \in 1..n |-> f(i)]
      BY <3>1, SecondariesAssumption, LenProperties
    <3>3. n \in Nat /\ \A i \in 1..n : f(i) \in ToSet(Secondaries)
      BY <3>1 DEF ToSet
    <3> HIDE DEF n, f
    <3>4. [i \in 1..n |-> f(i)] \in Seq(ToSet(Secondaries))
      BY <3>3, IsASeq
    <3> QED
      BY <2>2, <3>2, <3>4
  <2> QED
    BY <2>1, <2>2 DEF SecondariesOf
<1> HIDE DEF s, S
<1>2. k \in Nat /\ DOMAIN s = 1..k /\ \A i \in 1..k : s[i] \in ToSet(s)
  BY <1>1, LenProperties, ElementOfSeq
<1> DEFINE m == NumServers * k
<1>3. m \in Nat /\ NumServers \in Nat \ {0}
  BY <1>2, SizesAssumption
<1> HIDE DEF k
<1>4. ASSUME NEW n \in 1..m
      PROVE  e(n) \in Salts \X ToSet(s)
  <2>1. k \in Nat \ {0} /\ n - 1 \in Nat /\ n - 1 < m
    BY <1>2, <1>3
  <2>2. /\ (n - 1) \div k \in Nat /\ (n - 1) % k \in 0..(k - 1)
        /\ n - 1 = k * ((n - 1) \div k) + ((n - 1) % k)
    BY <2>1, Division
  <2> DEFINE d == (n - 1) \div k
             r == (n - 1) % k
  <2> HIDE DEF d, r
  <2>3. d \in Nat /\ r \in 0..(k - 1) /\ n - 1 = k * d + r
    BY <2>2 DEF d, r
  <2>4. d <= NumServers - 1
    <3> SUFFICES ASSUME ~ (d <= NumServers - 1)
                 PROVE  FALSE
      OBVIOUS
    <3>1. d - NumServers \in Nat
      BY <1>3, <2>3
    <3>2. k * (d - NumServers) >= 0 /\ k * (d - NumServers) = k * d - m
      BY <1>3, <2>1, <2>3, <3>1
    <3>3. k * d \in Nat
      BY <2>1, <2>3
    <3> QED
      BY <1>3, <2>1, <2>3, <3>2, <3>3
  <2>5. d \in Salts /\ s[1 + r] \in ToSet(s)
    <3>1. 1 + r \in 1..k
      BY <2>1, <2>3
    <3> QED
      BY <1>2, <1>3, <2>3, <2>4, <3>1 DEF Salts
  <2>6. e(n) = <<d, s[1 + r]>>
    BY DEF d, r
  <2> QED
    BY <2>5, <2>6
<1>5. Scans(q) = [n \in 1..m |-> e(n)]
  BY DEF Scans, s, k
<1> HIDE DEF e, m
<1>6. \A n \in 1..m : e(n) \in Salts \X ToSet(s)
  BY <1>4
<1>7. [n \in 1..m |-> e(n)] \in Seq(Salts \X ToSet(s))
  BY <1>3, <1>6, IsASeq
<1>8. \A p \in Salts \X ToSet(s) : p \in Pairs /\ p[2] \in ToSet(s)
  BY <1>1 DEF Pairs, S
<1>9. Scans(q) \in Seq(Pairs)
  BY <1>5, <1>7, <1>8, SeqMonotonic
<1>10. ToSet(Scans(q)) \subseteq Salts \X ToSet(s)
  BY <1>5, <1>7, ToSetTyped
<1> QED
  BY <1>1, <1>8, <1>9, <1>10 DEF s

\* Between Open and the end of a query there is a query, and what Fail does.
LEMMA Requested ==
    ASSUME HandlerShape, request # <<>>
    PROVE  Head(request) \in Queries /\ Tail(request) \in Seq(Queries)
  BY HeadTailProperties DEF HandlerShape

LEMMA HandlerShapeInit == Init => HandlerShape
<1> SUFFICES ASSUME Init
             PROVE  HandlerShape
  OBVIOUS
<1>1. <<>> \in Seq(Queries) /\ <<>> \in Seq(Pairs) /\ <<>> \in Seq(Response)
  BY EmptySeq
<1> QED
  BY <1>1 DEF Init, HandlerShape

\* Rows of tables are faithful, and so are those that are found.
LEMMA ScannedAre ==
    ASSUME IndexShape, HandlerShape, NEW q, NEW server, NEW secondary
    PROVE  Scanned(q, server, secondary) \subseteq FaithfulRow
  BY DEF Scanned, IndexShape

LEMMA FaultsCounted == HandlerShape => faults \in Nat
  BY DEF HandlerShape

LEMMA HandlerShapeStep ==
    ASSUME IndexShape, HandlerShape, Asking, [Next]_vars
    PROVE  HandlerShape'
<1>1. ASSUME NEW d \in Documents, Index(d)
      PROVE  HandlerShape'
  <2>1. tables \subseteq tables' /\ lasting' \subseteq lasting /\ UNCHANGED handler
    BY <1>1, Indexed
  <2> QED
    BY <2>1 DEF HandlerShape, handler
<1>2. ASSUME NEW r \in rows, Purge(r) \/ Repair(r)
      PROVE  HandlerShape'
  <2>1. tables' = tables /\ lasting' \subseteq lasting /\ UNCHANGED handler
    BY <1>2, Deleted
  <2> QED
    BY <2>1 DEF HandlerShape, handler
<1>3. ASSUME NEW queries \in UNION {[1..n -> Queries] : n \in 1..MaxQueries}, Receive(queries)
      PROVE  HandlerShape'
  <2>1. queries \in Seq(Queries)
    <3>1. PICK n \in 1..MaxQueries : queries \in [1..n -> Queries]
      OBVIOUS
    <3>2. n \in Nat
      OBVIOUS
    <3> QED
      BY <3>1, <3>2, SeqDef
  <2> QED
    BY <1>3, <2>1 DEF Receive, HandlerShape, index
<1>4. ASSUME Fail, request # <<>>, faults' \in Nat, tables' = tables, available' \subseteq tables
      PROVE  HandlerShape'
  <2>1. Head(request) \in Queries /\ Tail(request) \in Seq(Queries)
    BY <1>4, Requested
  <2> QED
    BY <1>4, <2>1 DEF Fail, HandlerShape
<1>5. CASE Open
  <2>1. available' = tables /\ UNCHANGED <<index, faults>> /\ request # <<>>
    BY <1>5 DEF Open
  <2>2. CASE Mismatched(Head(request))
    BY <1>4, <1>5, <2>1, <2>2 DEF Open, HandlerShape, index
  <2>3. CASE ~ Mismatched(Head(request))
    <3>1. Head(request) \in Queries
      BY <2>1, Requested
    <3>2. todo' \in Seq(Pairs)
      BY <1>5, <2>3, <3>1, ScansTyped DEF Open
    <3>3. /\ pc' = "scan" /\ found' = {} /\ lasting' = rows /\ tables' = tables
          /\ UNCHANGED <<request, status, responses, failed>>
      BY <1>5, <2>1, <2>3 DEF Open, index
    <3> QED
      BY <2>1, <3>2, <3>3 DEF HandlerShape, IndexShape
  <2> QED
    BY <2>2, <2>3
<1>6. CASE Scan
  <2>1. /\ UNCHANGED <<index, pc, request, status, responses, failed, available, lasting, faults>>
        /\ todo' = Tail(todo) /\ todo # <<>>
        /\ \/ found' = found
           \/ found' \subseteq found \cup Scanned(Head(request), Head(todo)[1], Head(todo)[2])
    BY <1>6 DEF Scan
  <2>2. todo' \in Seq(Pairs)
    BY <2>1, HeadTailProperties DEF HandlerShape
  <2>3. found' \subseteq FaithfulRow
    BY <2>1, ScannedAre DEF HandlerShape
  <2> QED
    BY <2>1, <2>2, <2>3 DEF HandlerShape, index
<1>7. CASE ScanRaises
  <2>1. Fail /\ UNCHANGED <<index, available, faults>> /\ request # <<>>
    BY <1>7 DEF ScanRaises, Asking
  <2> QED
    BY <1>4, <2>1 DEF HandlerShape, index
<1>8. CASE Respond
  <2>1. request # <<>> /\ UNCHANGED <<index, status, failed, available, todo, found, lasting, faults>>
        /\ pc' = "open" /\ request' = Tail(request)
        /\ responses' = Append(responses, [query |-> Head(request), found |-> found, lasting |-> lasting])
    BY <1>8 DEF Respond, Asking
  <2>2. Head(request) \in Queries /\ request' \in Seq(Queries)
    BY <2>1, Requested
  <2>3. [query |-> Head(request), found |-> found, lasting |-> lasting] \in Response
    BY <2>2 DEF Response, HandlerShape
  <2>4. responses' \in Seq(Response)
    BY <2>1, <2>3, AppendProperties DEF HandlerShape
  <2> QED
    BY <2>1, <2>2, <2>4 DEF HandlerShape, index
<1>9. CASE Send
  BY <1>9 DEF Send, HandlerShape, index
<1>10. CASE ScanFails
  <2>1. Fail /\ UNCHANGED <<index, available>> /\ request # <<>> /\ faults' = faults + 1
    BY <1>10 DEF ScanFails, Asking
  <2>2. faults \in Nat
    BY FaultsCounted
  <2>4. faults' \in Nat
    BY <2>1, <2>2
  <2>3. tables' = tables /\ available' \subseteq tables
    BY <2>1 DEF HandlerShape, index
  <2> QED
    BY <1>4, <2>1, <2>3, <2>4
<1>11. CASE OpenDies
  <2>0. faults \in Nat
    BY FaultsCounted
  <2>2. faults' = faults + 1
    BY <1>11 DEF OpenDies
  <2>3. faults' \in Nat
    BY <2>0, <2>2
  <2>1. tables' = tables /\ pc' = "dead"
        /\ UNCHANGED <<request, status, responses, failed, available, todo, found, lasting>>
    BY <1>11 DEF OpenDies, index
  <2> QED
    BY <2>1, <2>3 DEF HandlerShape
<1>12. CASE UNCHANGED vars
  BY <1>12 DEF vars, index, handler, HandlerShape
<1> QED
  BY <1>1, <1>2, <1>3, <1>5, <1>6, <1>7, <1>8, <1>9, <1>10, <1>11, <1>12 DEF Next, Work

-----------------------------------------------------------------------------
(* What a query finds.                                                     *)

LEMMA AskingInit == Init => Asking /\ Answered
<1> SUFFICES ASSUME Init
             PROVE  Asking /\ Answered
  OBVIOUS
<1>1. pc = "idle" /\ responses = <<>>
  BY DEF Init
<1>2. DOMAIN responses = {}
  BY <1>1
<1> QED
  BY <1>1, <1>2 DEF Asking, Answered

\* A query that is over asks for nothing.
LEMMA AskingKept ==
    ASSUME Asking, UNCHANGED <<pc, request, todo, found, available>>, lasting' \subseteq lasting, lasting' \subseteq rows'
    PROVE  Asking'
<1> SUFFICES ASSUME pc = "scan"
             PROVE  Asking'
  BY DEF Asking
<1> DEFINE q == Head(request)
<1>1. /\ request # <<>> /\ ~ Mismatched(q)
      /\ \A p \in ToSet(todo) : p[2] \in ToSet(SecondariesOf(q))
      /\ \A r \in found : Matches(q, r)
      /\ \A r \in lasting : r.table \in available
      /\ \A r \in lasting : Matches(q, r) => r \in found \/ <<r.server, r.table>> \in ToSet(todo)
  BY DEF Asking
<1>2. Head(request') = q /\ request' = request /\ todo' = todo /\ found' = found /\ available' = available
  OBVIOUS
<1> HIDE DEF q
<1> QED
  BY <1>1, <1>2 DEF Asking

LEMMA AskingStep ==
    ASSUME IndexShape, HandlerShape, Asking, [Next]_vars
    PROVE  Asking'
<1>1. ASSUME NEW d \in Documents, Index(d)
      PROVE  Asking'
  <2>1. lasting' = lasting \cap rows' /\ UNCHANGED handler
    BY <1>1, Indexed
  <2>2. UNCHANGED <<pc, request, todo, found, available>> /\ lasting' \subseteq lasting /\ lasting' \subseteq rows'
    BY <2>1 DEF handler
  <2> QED
    BY <2>2, AskingKept
<1>2. ASSUME NEW r \in rows, Purge(r) \/ Repair(r), pc = "scan"
      PROVE  Asking'
  <2>1. rows' = rows \ {r} /\ lasting' = lasting \ {r} /\ UNCHANGED handler
    BY <1>2, Deleted
  <2>2. lasting \subseteq rows
    BY <1>2 DEF Asking
  <2>3. UNCHANGED <<pc, request, todo, found, available>> /\ lasting' \subseteq lasting /\ lasting' \subseteq rows'
    BY <2>1, <2>2 DEF handler
  <2> QED
    BY <2>3, AskingKept
<1>3. ASSUME pc' # "scan"
      PROVE  Asking'
  BY <1>3 DEF Asking
<1>4. ASSUME NEW r \in rows, Purge(r) \/ Repair(r), pc # "scan"
      PROVE  Asking'
  BY <1>3, <1>4, Deleted DEF handler
<1>5. CASE Open /\ ~ Mismatched(Head(request))
  <2> DEFINE q == Head(request)
  <2>1. /\ request # <<>> /\ request' = request /\ available' = tables /\ rows' = rows
        /\ todo' = Scans(q) /\ found' = {} /\ lasting' = rows /\ ~ Mismatched(q)
    BY <1>5 DEF Open, index
  <2>2. q \in Queries
    BY <2>1, Requested
  <2>3. \A p \in ToSet(Scans(q)) : p[2] \in ToSet(SecondariesOf(q))
    BY <2>2, ScansTyped
  <2>4. ASSUME NEW r \in rows, Matches(q, r)
        PROVE  <<r.server, r.table>> \in ToSet(Scans(q))
    <3>1. r.server \in Salts
      BY DEF IndexShape, FaithfulRow, Row, Salts
    <3>2. r.table \in ToSet(SecondariesOf(q))
      BY <2>4 DEF Matches
    <3>3. SecondariesOf(q) \in Seq(ToSet(SecondariesOf(q)))
      BY <2>2, ScansTyped
    <3> HIDE DEF q
    <3> QED
      BY <3>1, <3>2, <3>3, ScansAre
  <2>5. \A r \in rows : r.table \in tables
    BY DEF IndexShape
  <2>6. Head(request') = q
    BY <2>1
  <2> HIDE DEF q
  <2> QED
    BY <2>1, <2>3, <2>4, <2>5, <2>6 DEF Asking
<1>6. CASE Scan
  <2> DEFINE q == Head(request)
             next == Head(todo)
             hits == {r \in Scanned(q, next[1], next[2]) : r.doc # NoDoc}
  <2>1. /\ pc = "scan" /\ todo # <<>> /\ todo' = Tail(todo)
        /\ UNCHANGED <<rows, pc, request, available, lasting>>
        /\ \/ next[2] \notin available /\ found' = found
           \/ next[2] \in available /\ Decoded(q) /\ found' = found \cup hits
    BY <1>6 DEF Scan, index
  <2>2. /\ request # <<>> /\ ~ Mismatched(q)
        /\ \A p \in ToSet(todo) : p[2] \in ToSet(SecondariesOf(q))
        /\ \A r \in found : Matches(q, r)
        /\ lasting \subseteq rows /\ \A r \in lasting : r.table \in available
        /\ \A r \in lasting : Matches(q, r) => r \in found \/ <<r.server, r.table>> \in ToSet(todo)
    BY <2>1 DEF Asking
  <2>3. next \in ToSet(todo) /\ ToSet(todo) = {next} \cup ToSet(todo')
    BY <2>1, ToSetOfTail DEF HandlerShape
  <2>4. ASSUME NEW r \in hits, Decoded(q)
        PROVE  Matches(q, r)
    <3>1. r.table = next[2] /\ next[2] \in ToSet(SecondariesOf(q))
      BY <2>2, <2>3 DEF Scanned
    <3> QED
      BY <2>2, <2>4, <3>1 DEF Scanned, Matches
  <2>5. ASSUME NEW r \in lasting, Matches(q, r), <<r.server, r.table>> = next, Decoded(q)
        PROVE  r \in hits
    BY <2>2, <2>5 DEF Matches, Scanned
  <2>6. ASSUME NEW r \in lasting, Matches(q, r)
        PROVE  r \in found' \/ <<r.server, r.table>> \in ToSet(todo')
    <3>1. CASE r \in found
      BY <2>1, <3>1
    <3>2. CASE <<r.server, r.table>> \in ToSet(todo')
      BY <3>2
    <3>3. CASE <<r.server, r.table>> = next
      <4>1. next[2] \in available
        <5>1. next[2] = r.table
          BY <3>3
        <5> QED
          BY <2>2, <5>1
      <4> QED
        BY <2>1, <2>5, <2>6, <3>3, <4>1
    <3> QED
      BY <2>2, <2>3, <2>6, <3>1, <3>2, <3>3
  <2>7. \A r \in found' : Matches(q, r)
    BY <2>1, <2>2, <2>4
  <2>8. \A p \in ToSet(todo') : p[2] \in ToSet(SecondariesOf(q))
    BY <2>2, <2>3
  <2>9. Head(request') = q
    BY <2>1
  <2> HIDE DEF q, next, hits
  <2> QED
    BY <2>1, <2>2, <2>6, <2>7, <2>8, <2>9 DEF Asking
<1>7. ASSUME NEW queries \in UNION {[1..n -> Queries] : n \in 1..MaxQueries}, Receive(queries)
      PROVE  Asking'
  BY <1>3, <1>7 DEF Receive
<1>8. CASE Open /\ Mismatched(Head(request))
  BY <1>3, <1>8 DEF Open, Fail
<1>9. CASE ScanRaises \/ ScanFails
  BY <1>3, <1>9 DEF ScanRaises, ScanFails, Fail
<1>10. CASE Respond \/ Send \/ OpenDies
  BY <1>3, <1>10 DEF Respond, Send, OpenDies
<1>11. CASE UNCHANGED vars
  BY <1>11 DEF vars, index, handler, Asking
<1> QED
  BY <1>1, <1>2, <1>4, <1>5, <1>6, <1>7, <1>8, <1>9, <1>10, <1>11 DEF Next, Work

\* Only Respond adds a response.
LEMMA ResponsesKept ==
    ASSUME IndexShape, HandlerShape, [Next]_vars
    PROVE  responses' = responses \/ Respond
<1>1. ASSUME NEW d \in Documents, Index(d)
      PROVE  responses' = responses
  BY <1>1, Indexed DEF handler
<1>2. ASSUME NEW r \in rows, Purge(r) \/ Repair(r)
      PROVE  responses' = responses
  BY <1>2, Deleted DEF handler
<1>3. ASSUME NEW queries \in UNION {[1..n -> Queries] : n \in 1..MaxQueries}, Receive(queries)
      PROVE  responses' = responses
  BY <1>3 DEF Receive
<1>4. ASSUME Open \/ Scan \/ ScanRaises \/ Send \/ ScanFails \/ OpenDies
      PROVE  responses' = responses
  BY <1>4 DEF Open, Scan, ScanRaises, Send, ScanFails, OpenDies, Fail
<1>5. CASE UNCHANGED vars
  BY <1>5 DEF vars, handler
<1> QED
  BY <1>1, <1>2, <1>3, <1>4, <1>5 DEF Next, Work

LEMMA AnsweredStep ==
    ASSUME IndexShape, HandlerShape, Asking, Answered, [Next]_vars
    PROVE  Answered'
<1>1. CASE responses' = responses
  BY <1>1 DEF Answered
<1>2. CASE Respond
  <2> DEFINE q   == Head(request)
             new == [query |-> q, found |-> found, lasting |-> lasting]
  <2>1. pc = "scan" /\ todo = <<>> /\ responses' = Append(responses, new)
    BY <1>2 DEF Respond
  <2>2. ToSet(todo) = {}
    BY <2>1 DEF ToSet
  <2>3. /\ \A r \in found : Matches(q, r)
        /\ \A r \in lasting : Matches(q, r) => r \in found
    BY <2>1, <2>2 DEF Asking
  <2>4. new.query = q /\ new.found = found /\ new.lasting = lasting
    OBVIOUS
  <2> HIDE DEF q, new
  <2>5. /\ DOMAIN responses = 1..Len(responses) /\ DOMAIN responses' = 1..(Len(responses) + 1)
        /\ Len(responses) \in Nat
        /\ \A i \in 1..Len(responses) : responses'[i] = responses[i]
        /\ responses'[Len(responses) + 1] = new
    <3>1. responses \in Seq(Response \cup {new})
      BY SeqMonotonic DEF HandlerShape
    <3>2. new \in Response \cup {new}
      OBVIOUS
    <3>3. /\ Len(responses') = Len(responses) + 1
          /\ responses' \in Seq(Response \cup {new})
          /\ \A i \in 1..Len(responses) : responses'[i] = responses[i]
          /\ responses'[Len(responses) + 1] = new
      BY <2>1, <3>1, <3>2, AppendProperties
    <3> QED
      BY <3>1, <3>3, LenProperties
  <2> SUFFICES ASSUME NEW i \in 1..(Len(responses) + 1)
               PROVE  /\ \A r \in responses'[i].found : Matches(responses'[i].query, r)
                      /\ \A r \in responses'[i].lasting :
                            Matches(responses'[i].query, r) => r \in responses'[i].found
    BY <2>5 DEF Answered
  <2>6. CASE i \in 1..Len(responses)
    BY <2>5, <2>6 DEF Answered
  <2>7. CASE i = Len(responses) + 1
    BY <2>3, <2>4, <2>5, <2>7
  <2> QED
    BY <2>5, <2>6, <2>7
<1> QED
  BY <1>1, <1>2, ResponsesKept

-----------------------------------------------------------------------------
(* Rows of a document.                                                     *)

\* Rows that were there already, or come from the tables, are no news.
LEMMA OnceKept ==
    ASSUME Once, indexed' = indexed, Everywhere' \subseteq Everywhere
    PROVE  Once'
  BY DEF Once

LEMMA OnceInit == Init => Once
<1> SUFFICES ASSUME Init
             PROVE  Once
  OBVIOUS
<1>1. rows = {} /\ found = {} /\ responses = <<>> /\ batch = [t \in Types |-> <<>>]
  BY DEF Init
<1>2. indexed = [d \in Documents |-> 0]
  BY DEF Init
<1>3. ToSet(<<>>) = {} /\ DOMAIN responses = {}
  BY <1>1 DEF ToSet
<1>4. Everywhere = {}
  BY <1>1, <1>3 DEF Everywhere
<1> QED
  BY <1>2, <1>4 DEF Once

LEMMA OnceStep ==
    ASSUME IndexShape, HandlerShape, Asking, Once, [Next]_vars
    PROVE  Once'
<1>1. ASSUME NEW d \in Documents, Index(d)
      PROVE  Once'
  <2>1. /\ rows' \subseteq rows \cup ToSet(batch[d.type]) \cup ToSet(Puts(d))
        /\ \A t \in Types : ToSet(batch'[t]) \subseteq ToSet(batch[t]) \cup ToSet(Puts(d))
        /\ indexed' = [indexed EXCEPT ![d] = @ + 1]
    BY <1>1, Indexed
  <2>2. found' = found /\ responses' = responses
    BY <1>1, Indexed DEF handler
  <2>3. d.type \in Types
    BY DEF Types
  <2>4. Everywhere' \subseteq Everywhere \cup ToSet(Puts(d))
    BY <2>1, <2>2, <2>3 DEF Everywhere
  <2>5. \A p \in ToSet(Puts(d)) : p.doc # NoDoc => p.doc = d /\ p = Puts(d)[1]
    BY <2>3, PutsAre DEF IndexShape, Salts
  <2>6. /\ indexed \in [Documents -> Nat]
        /\ \A x \in Documents : indexed'[x] = IF x = d THEN indexed[x] + 1 ELSE indexed[x]
    BY <2>1 DEF IndexShape
  <2> SUFFICES ASSUME NEW x \in Documents \ {NoDoc}
               PROVE  /\ indexed'[x] = 0 => \A r \in Everywhere' : r.doc # x
                      /\ indexed'[x] = 1 => \A r, s \in Everywhere' : r.doc = x /\ s.doc = x => r = s
    BY DEF Once
  <2>7. CASE x # d
    <3>1. indexed'[x] = indexed[x]
      BY <2>6, <2>7
    <3>2. ASSUME NEW r \in Everywhere', r.doc = x
          PROVE  r \in Everywhere
      BY <2>4, <2>5, <2>7, <3>2
    <3> QED
      BY <3>1, <3>2 DEF Once
  <2>8. CASE x = d
    <3>1. indexed'[x] = indexed[x] + 1 /\ indexed[x] \in Nat
      BY <2>6, <2>8
    <3>2. CASE indexed[x] = 0
      <4>1. \A r \in Everywhere : r.doc # x
        BY <3>2 DEF Once
      <4>2. ASSUME NEW r \in Everywhere', r.doc = x
            PROVE  r = Puts(d)[1]
        BY <2>4, <2>5, <4>1, <4>2
      <4> QED
        BY <3>1, <3>2, <4>2
    <3>3. CASE indexed[x] # 0
      <4>1. indexed'[x] # 0 /\ indexed'[x] # 1
        BY <3>1, <3>3
      <4> QED
        BY <4>1
    <3> QED
      BY <3>2, <3>3
  <2> QED
    BY <2>7, <2>8
<1>2. ASSUME NEW r \in rows, Purge(r) \/ Repair(r)
      PROVE  Once'
  <2>1. rows' = rows \ {r} /\ UNCHANGED <<batch, indexed, handler>>
    BY <1>2, Deleted
  <2>2. Everywhere' \subseteq Everywhere
    BY <2>1 DEF Everywhere, handler
  <2> QED
    BY <2>1, <2>2, OnceKept
<1>3. ASSUME UNCHANGED index, UNCHANGED responses, found' \subseteq found \cup rows
      PROVE  Once'
  <2>1. Everywhere' \subseteq Everywhere
    BY <1>3 DEF Everywhere, index
  <2> QED
    BY <1>3, <2>1, OnceKept DEF index
<1>4. ASSUME NEW queries \in UNION {[1..n -> Queries] : n \in 1..MaxQueries}, Receive(queries)
      PROVE  Once'
  BY <1>3, <1>4 DEF Receive
<1>5. CASE Open
  <2>1. UNCHANGED index /\ UNCHANGED responses /\ (found' = {} \/ found' = found)
    BY <1>5 DEF Open, Fail
  <2> QED
    BY <1>3, <2>1
<1>6. CASE Scan
  <2>1. UNCHANGED index /\ UNCHANGED responses /\ found' \subseteq found \cup rows
    BY <1>6 DEF Scan, Scanned
  <2> QED
    BY <1>3, <2>1
<1>7. CASE ScanRaises \/ ScanFails
  <2>1. UNCHANGED index /\ UNCHANGED responses /\ found' = found
    BY <1>7 DEF ScanRaises, ScanFails, Fail
  <2> QED
    BY <1>3, <2>1
<1>8. CASE Respond
  <2> DEFINE new == [query |-> Head(request), found |-> found, lasting |-> lasting]
  <2>1. UNCHANGED index /\ found' = found /\ responses' = Append(responses, new)
    BY <1>8 DEF Respond
  <2>2. new.found = found
    OBVIOUS
  <2> HIDE DEF new
  <2>3. \A i \in DOMAIN responses' : responses'[i] = new \/ (i \in DOMAIN responses /\ responses'[i] = responses[i])
    <3>1. responses \in Seq(Response \cup {new}) /\ new \in Response \cup {new}
      BY SeqMonotonic DEF HandlerShape
    <3>2. /\ Len(responses') = Len(responses) + 1
          /\ responses' \in Seq(Response \cup {new})
          /\ \A i \in 1..Len(responses) : responses'[i] = responses[i]
          /\ responses'[Len(responses) + 1] = new
      BY <2>1, <3>1, AppendProperties
    <3>3. DOMAIN responses = 1..Len(responses) /\ DOMAIN responses' = 1..Len(responses') /\ Len(responses) \in Nat
      BY <3>1, <3>2, LenProperties
    <3> QED
      BY <3>2, <3>3
  <2>4. UNION {responses'[i].found : i \in DOMAIN responses'} \subseteq found \cup (UNION {responses[i].found : i \in DOMAIN responses})
    BY <2>2, <2>3
  <2>5. Everywhere' \subseteq Everywhere
    BY <2>1, <2>4 DEF Everywhere, index
  <2> QED
    BY <2>1, <2>5, OnceKept DEF index
<1>9. CASE Send \/ OpenDies
  <2>1. UNCHANGED index /\ UNCHANGED responses /\ found' = found
    BY <1>9 DEF Send, OpenDies
  <2> QED
    BY <1>3, <2>1
<1>10. CASE UNCHANGED vars
  BY <1>3, <1>10 DEF vars, handler
<1> QED
  BY <1>1, <1>2, <1>4, <1>5, <1>6, <1>7, <1>8, <1>9, <1>10 DEF Next, Work

-----------------------------------------------------------------------------
(* Names and what they stand for.                                          *)

\* What a limiter is taken for is a name with a number.
LEMMA GuessIs ==
    ASSUME NEW q \in Queries, Limited(q)
    PROVE  /\ q.lim \in Address /\ GuessTypeOf(q.lim) \in DOMAIN Enum
           /\ GuessTypeOf(q.lim) \in {q.lim.kind, "ipv6", "search"}
<1>1. q.lim \in Address
  BY QueriesAssumption DEF Limited
<1>2. q.lim.kind \in DOMAIN Enum
  BY <1>1 DEF Address
<1>3. GuessTypeOf(q.lim) \in {q.lim.kind, "ipv6", "search"}
  BY DEF GuessTypeOf
<1>4. "ipv6" \in DOMAIN Enum /\ "search" \in DOMAIN Enum
  BY EnumAssumption
<1> QED
  BY <1>1, <1>2, <1>3, <1>4

\* The members of a group, of which a scan's range has the first.
LEMMA GroupIs ==
    ASSUME NEW g \in DOMAIN Groups
    PROVE  /\ g \notin DOMAIN Enum /\ DOMAIN Groups[g] = {1, 2}
           /\ Groups[g][1] \in DOMAIN Enum /\ Groups[g][2] \in DOMAIN Enum
           /\ ToSet(Groups[g]) = {Groups[g][1], Groups[g][2]}
           /\ EnumOf(g) = [i \in {1, 2} |-> Enum[Groups[g][i]]]
           /\ Len(EnumOf(g)) = 2
           /\ Enum[Groups[g][2]] = Enum[Groups[g][1]] + 1
<1>1. /\ g \notin DOMAIN Enum /\ Groups[g] \in Seq(DOMAIN Enum) /\ Len(Groups[g]) = 2
      /\ Enum[Groups[g][2]] = Enum[Groups[g][1]] + 1
  BY GroupsAssumption
<1>2. DOMAIN Groups[g] = 1..2 /\ 1..2 = {1, 2}
  BY <1>1, LenProperties
<1>3. \A i \in {1, 2} : Groups[g][i] \in DOMAIN Enum
  BY <1>1, <1>2, ElementOfSeq
<1>4. ToSet(Groups[g]) = {Groups[g][1], Groups[g][2]}
  BY <1>2 DEF ToSet
<1>5. EnumOf(g) = [i \in {1, 2} |-> Enum[Groups[g][i]]]
  BY <1>1, <1>2 DEF EnumOf
<1>6. Len(EnumOf(g)) = 2
  <2> DEFINE e(i) == Enum[Groups[g][i]]
             k == 2
  <2>1. EnumOf(g) = [i \in 1..k |-> e(i)] /\ k \in Nat
    BY <1>2, <1>5
  <2> HIDE DEF k, e
  <2>2. Len([i \in 1..k |-> e(i)]) = k
    BY <2>1
  <2> QED
    BY <2>1, <2>2 DEF k
<1> QED
  BY <1>1, <1>2, <1>3, <1>4, <1>5, <1>6

\* A category has the number of a name iff it is a member.
LEMMA NumberIsMember ==
    ASSUME NEW name, NEW k \in DOMAIN Enum
    PROVE  Enum[k] \in ToSet(EnumOf(name)) <=> k \in Members(name)
<1>1. \A m, n \in DOMAIN Enum : Enum[m] = Enum[n] => m = n
  BY EnumAssumption
<1>2. CASE name \in DOMAIN Groups
  <2> DEFINE a == Groups[name][1]
             b == Groups[name][2]
  <2>1. a \in DOMAIN Enum /\ b \in DOMAIN Enum /\ Members(name) = {a, b}
    BY <1>2, GroupIs DEF Members
  <2>2. ToSet(EnumOf(name)) = {Enum[a], Enum[b]}
    BY <1>2, GroupIs DEF ToSet
  <2> HIDE DEF a, b
  <2> QED
    BY <1>1, <2>1, <2>2
<1>3. CASE name \in DOMAIN Enum /\ name \notin DOMAIN Groups
  <2>1. EnumOf(name) = <<Enum[name]>> /\ Members(name) = {name}
    BY <1>3 DEF EnumOf, Members
  <2>2. ToSet(<<Enum[name]>>) = {Enum[name]}
    BY DEF ToSet
  <2> QED
    BY <1>1, <1>3, <2>1, <2>2
<1>4. CASE name \notin DOMAIN Enum /\ name \notin DOMAIN Groups
  <2>1. EnumOf(name) = <<>> /\ Members(name) = {name}
    BY <1>4 DEF EnumOf, Members
  <2>2. ToSet(<<>>) = {}
    BY DEF ToSet
  <2> QED
    BY <1>4, <2>1, <2>2
<1> QED
  BY <1>2, <1>3, <1>4

\* A name that stands for nothing has no members with a number.
LEMMA NoNumber ==
    ASSUME NEW name
    PROVE  EnumOf(name) = <<>> <=> Members(name) \cap DOMAIN Enum = {}
<1>1. CASE name \in DOMAIN Groups
  <2>1. EnumOf(name) # <<>>
    BY <1>1, GroupIs, EmptySeq
  <2>2. Groups[name][1] \in Members(name) \cap DOMAIN Enum
    BY <1>1, GroupIs DEF Members
  <2> QED
    BY <2>1, <2>2
<1>2. CASE name \notin DOMAIN Groups
  <2>1. Members(name) = {name}
    BY <1>2 DEF Members
  <2>2. EnumOf(name) = IF name \in DOMAIN Enum THEN <<Enum[name]>> ELSE <<>>
    BY <1>2 DEF EnumOf
  <2>3. <<Enum[name]>> # <<>>
    OBVIOUS
  <2> QED
    BY <2>1, <2>2, <2>3
<1> QED
  BY <1>1, <1>2

-----------------------------------------------------------------------------
(* Queries that get no response.                                           *)

\* The reasons a query can have of its own.
Blamed(q) ==
    \/ q.pri # "" /\ (Members(q.pri) \cap DOMAIN Enum = {} \/ ~ SecondaryExists(q.sec))
    \/ Limited(q) /\ GuessTypeOf(q.lim) \in {"ipv6", "asn"}
    \/ Limited(q) /\ q.pri # "" /\ GuessTypeOf(q.lim) \notin Members(q.pri)

LEMMA Raised ==
    ASSUME NEW q \in Queries,
           Mismatched(q) \/ ~ Decoded(q) \/ (Limited(q) /\ PackRaises(GuessTypeOf(q.lim)))
    PROVE  Blamed(q)
<1>1. CASE Mismatched(q)
  <2>1. q.pri # "" /\ Limited(q) /\ Enum[GuessTypeOf(q.lim)] \notin ToSet(EnumOf(q.pri))
    BY <1>1 DEF Mismatched
  <2>2. GuessTypeOf(q.lim) \in DOMAIN Enum
    BY <2>1, GuessIs
  <2>3. GuessTypeOf(q.lim) \notin Members(q.pri)
    BY <2>1, <2>2, NumberIsMember
  <2> QED
    BY <2>1, <2>3 DEF Blamed
<1>2. CASE ~ Decoded(q)
  BY <1>2, NoNumber DEF Decoded, Blamed
<1>3. CASE Limited(q) /\ PackRaises(GuessTypeOf(q.lim))
  BY <1>3 DEF PackRaises, Blamed
<1> QED
  BY <1>1, <1>2, <1>3

LEMMA ReasonsAre == FailsForAReason <=> \A q \in failed : faults > 0 \/ Blamed(q)
  BY Zenon DEF FailsForAReason, Blamed

\* A query that is added to those that failed has a reason.
LEMMA ReasonAdded ==
    ASSUME HandlerShape, FailsForAReason, NEW q, failed' \subseteq failed \cup {q},
           faults' = faults \/ faults' = faults + 1, faults' > 0 \/ Blamed(q)
    PROVE  FailsForAReason'
<1>1. \A x \in failed : faults > 0 \/ Blamed(x)
  BY ReasonsAre
<1>2. faults \in Nat
  BY FaultsCounted
<1>3. faults > 0 => faults' > 0
  BY <1>2
<1>4. \A x \in failed' : faults' > 0 \/ Blamed(x)
  BY <1>1, <1>3
<1>5. \A x : Blamed(x)' <=> Blamed(x)
  BY DEF Blamed
<1> QED
  BY <1>4, Zenon DEF FailsForAReason, Blamed

LEMMA ReasonsStep ==
    ASSUME IndexShape, HandlerShape, Asking, FailsForAReason, [Next]_vars
    PROVE  FailsForAReason'
<1>1. ASSUME failed' = failed, faults' = faults
      PROVE  FailsForAReason'
  BY <1>1 DEF FailsForAReason
<1>2. ASSUME NEW d \in Documents, Index(d)
      PROVE  FailsForAReason'
  BY <1>1, <1>2, Indexed DEF handler
<1>3. ASSUME NEW r \in rows, Purge(r) \/ Repair(r)
      PROVE  FailsForAReason'
  BY <1>1, <1>3, Deleted DEF handler
<1>4. ASSUME NEW queries \in UNION {[1..n -> Queries] : n \in 1..MaxQueries}, Receive(queries)
      PROVE  FailsForAReason'
  BY <1>1, <1>4 DEF Receive
<1>5. CASE Open /\ ~ Mismatched(Head(request))
  BY <1>1, <1>5 DEF Open
<1>6. CASE Open /\ Mismatched(Head(request))
  <2>1. Head(request) \in Queries /\ faults' = faults /\ failed' = failed \cup {Head(request)}
    BY <1>6, Requested DEF Open, Fail
  <2>2. Blamed(Head(request))
    BY <1>6, <2>1, Raised
  <2> QED
    BY <2>1, <2>2, ReasonAdded
<1>7. CASE ScanRaises
  <2>1. /\ pc = "scan" /\ Fail /\ faults' = faults
        /\ ~ Decoded(Head(request)) \/ (Limited(Head(request)) /\ PackRaises(GuessTypeOf(Head(request).lim)))
    BY <1>7 DEF ScanRaises
  <2>2. Head(request) \in Queries /\ failed' = failed \cup {Head(request)}
    BY <2>1, Requested DEF Fail, Asking
  <2>3. Blamed(Head(request))
    BY <2>1, <2>2, Raised
  <2> QED
    BY <2>1, <2>2, <2>3, ReasonAdded
<1>8. CASE ScanFails
  <2>1. faults' = faults + 1 /\ failed' = failed \cup {Head(request)}
    BY <1>8 DEF ScanFails, Fail
  <2>2. faults \in Nat
    BY FaultsCounted
  <2>3. faults' > 0
    BY <2>1, <2>2
  <2> QED
    BY <2>1, <2>3, ReasonAdded
<1>9. CASE OpenDies
  <2>1. faults' = faults + 1 /\ failed' = failed
    BY <1>9 DEF OpenDies
  <2>2. faults \in Nat
    BY FaultsCounted
  <2>3. faults' > 0
    BY <2>1, <2>2
  <2> QED
    BY <2>1, <2>3, ReasonAdded
<1>10. CASE Scan \/ Respond \/ Send
  BY <1>1, <1>10 DEF Scan, Respond, Send
<1>11. CASE UNCHANGED vars
  BY <1>1, <1>11 DEF vars, handler
<1> QED
  BY <1>2, <1>3, <1>4, <1>5, <1>6, <1>7, <1>8, <1>9, <1>10, <1>11 DEF Next, Work

-----------------------------------------------------------------------------
(* The invariant holds.                                                    *)

LEMMA Invariance == Spec => []IInv
<1>1. Init => IInv
  <2>1. Init => FailsForAReason
    BY DEF Init, FailsForAReason
  <2> QED
    BY <2>1, IndexShapeInit, HandlerShapeInit, AskingInit, OnceInit DEF IInv
<1>2. IInv /\ [Next]_vars => IInv'
  <2> SUFFICES ASSUME IInv, [Next]_vars
               PROVE  IInv'
    OBVIOUS
  <2> USE DEF IInv
  <2>1. HandlerShape' /\ Asking' /\ Answered' /\ Once' /\ FailsForAReason'
    BY HandlerShapeStep, AskingStep, AnsweredStep, OnceStep, ReasonsStep
  <2>2. IndexShape'
    <3>1. CASE \E d \in Documents : Index(d)
      BY <3>1, Indexed
    <3>2. CASE \E r \in rows : Purge(r) \/ Repair(r)
      BY <3>2, Deleted
    <3>3. CASE UNCHANGED index
      BY <3>3 DEF index, IndexShape
    <3>4. ASSUME NEW queries \in UNION {[1..n -> Queries] : n \in 1..MaxQueries}, Receive(queries)
          PROVE  UNCHANGED index
      BY <3>4 DEF Receive
    <3>5. ASSUME Work \/ UNCHANGED vars
          PROVE  UNCHANGED index
      BY <3>5 DEF Work, Open, Scan, ScanRaises, Respond, Send, ScanFails, OpenDies, vars
    <3> QED
      BY <3>1, <3>2, <3>3, <3>4, <3>5 DEF Next
  <2> QED
    BY <2>1, <2>2
<1> QED
  BY <1>1, <1>2, PTL DEF Spec

-----------------------------------------------------------------------------
(* What queries ask for, and what scans are after.                         *)

LEMMA PrefixIs ==
    ASSUME NEW S, NEW s \in Seq(S), NEW t \in Seq(S)
    PROVE  IsPrefix(s, t) <=> Len(s) <= Len(t) /\ \A i \in 1..Len(s) : s[i] = t[i]
<1>1. Len(s) \in Nat /\ Len(t) \in Nat /\ (\A i \in 1..Len(s) : s[i] \in S) /\ (\A i \in 1..Len(t) : t[i] \in S)
  BY LenProperties, ElementOfSeq
<1> SUFFICES ASSUME Len(s) <= Len(t)
             PROVE  SubSeq(s, 1, Len(s)) = SubSeq(t, 1, Len(s)) <=> \A i \in 1..Len(s) : s[i] = t[i]
  BY DEF IsPrefix
<1> DEFINE u == SubSeq(s, 1, Len(s))
           v == SubSeq(t, 1, Len(s))
           n == Len(s)
<1>2. /\ u \in Seq(S) /\ Len(u) = n /\ \A i \in 1..n : u[i] = s[i]
      /\ v \in Seq(S) /\ Len(v) = n /\ \A i \in 1..n : v[i] = t[i]
  BY <1>1, SubSeqProperties
<1> HIDE DEF u, v, n
<1>3. u = v <=> \A i \in 1..n : u[i] = v[i]
  BY <1>1, <1>2, SeqEqual DEF n
<1> QED
  BY <1>2, <1>3 DEF u, v, n

\* The provers do not know that "0" is a string.
LEMMA NetworkPacked ==
    ASSUME NEW v \in Seq(STRING), Len(v) \in 1..2
    PROVE  /\ Pack("ipv4", v) \in Seq(STRING \cup {"0"}) /\ Len(Pack("ipv4", v)) = 2
           /\ Pack("ipv4", v)[1] = v[1]
           /\ Len(v) = 2 => Pack("ipv4", v) = v
<1> DEFINE S == STRING \cup {"0"}
<1>1. v \in Seq(S) /\ "0" \in S
  BY SeqMonotonic
<1> HIDE DEF S
<1>2. CASE Len(v) = 1
  <2>1. Pack("ipv4", v) = Append(v, "0")
    BY <1>2 DEF Pack
  <2>2. /\ Append(v, "0") \in Seq(S) /\ Len(Append(v, "0")) = Len(v) + 1
        /\ \A i \in 1..Len(v) : Append(v, "0")[i] = v[i]
    BY <1>1, AppendProperties
  <2>3. Len(v) + 1 = 2 /\ 1 \in 1..Len(v) /\ Len(v) # 2
    BY <1>2
  <2>4. Len(Append(v, "0")) = 2 /\ Append(v, "0")[1] = v[1]
    BY <2>2, <2>3
  <2> QED
    BY <2>1, <2>2, <2>3, <2>4, Zenon DEF S
<1>3. CASE Len(v) = 2
  <2>1. Pack("ipv4", v) = v
    BY <1>3 DEF Pack
  <2> QED
    BY <1>1, <1>3, <2>1, Zenon DEF S
<1> QED
  BY <1>2, <1>3

\* A limiter's prefix is one of the rowkey of the addresses it covers, and of the network
\* that an IPv4 address is in.
LEMMA PackedPrefix ==
    ASSUME NEW l \in Address, NEW a \in Address, l.kind = a.kind, ~ IndexRaises(a.kind)
    PROVE  /\ IsPrefix(Pack(l.kind, l.value), Pack(a.kind, a.value)) => Covers(l, a) \/ Covers(a, l)
           /\ Covers(l, a) /\ (l.kind = "ipv4" => Len(l.value) = 2)
                => IsPrefix(Pack(l.kind, l.value), Pack(a.kind, a.value))
<1>1. l.value \in Seq(STRING) /\ a.value \in Seq(STRING)
  BY DEF Address
<1>2. CASE l.kind = "ipv4"
  <2> DEFINE u == l.value
             v == a.value
  <2>1. u \in Seq(STRING) /\ v \in Seq(STRING) /\ Len(u) \in 1..2 /\ Len(v) \in 1..2
    <3>1. a.kind = "ipv4"
      BY <1>2
    <3>2. Len(l.value) \in 1..2 /\ Len(a.value) \in 1..2
      BY <1>2, <3>1 DEF Address
    <3> QED
      BY <1>1, <3>2
  <2>2. /\ Covers(l, a) <=> IsPrefix(u, v)
        /\ Covers(a, l) <=> IsPrefix(v, u)
    BY <1>2 DEF Covers
  <2> DEFINE p == Pack(l.kind, u)
             k == Pack(a.kind, v)
  <2>3. p = Pack("ipv4", u) /\ k = Pack("ipv4", v)
    BY <1>2
  <2> HIDE DEF u, v, p, k
  <2>5. /\ p \in Seq(STRING \cup {"0"}) /\ Len(p) = 2 /\ p[1] = u[1] /\ (Len(u) = 2 => p = u)
        /\ k \in Seq(STRING \cup {"0"}) /\ Len(k) = 2 /\ k[1] = v[1] /\ (Len(v) = 2 => k = v)
    BY <2>1, <2>3, NetworkPacked
  <2>6. IsPrefix(p, k) <=> p[1] = k[1] /\ p[2] = k[2]
    BY <2>5, PrefixIs
  <2>7. /\ IsPrefix(u, v) <=> Len(u) <= Len(v) /\ u[1] = v[1] /\ (Len(u) = 2 => u[2] = v[2])
        /\ IsPrefix(v, u) <=> Len(v) <= Len(u) /\ u[1] = v[1] /\ (Len(v) = 2 => u[2] = v[2])
    BY <2>1, PrefixIs
  <2>8. IsPrefix(p, k) => IsPrefix(u, v) \/ IsPrefix(v, u)
    BY <2>1, <2>5, <2>6, <2>7
  <2>9. IsPrefix(u, v) /\ Len(u) = 2 => IsPrefix(p, k)
    BY <2>1, <2>5, <2>6, <2>7
  <2> QED
    BY <1>2, <2>2, <2>8, <2>9 DEF p, k, u, v
<1>3. CASE l.kind = "domain"
  <2>1. Pack(l.kind, l.value) = Reverse(l.value) /\ Pack(a.kind, a.value) = Reverse(a.value)
    BY <1>3 DEF Pack
  <2>2. Covers(l, a) <=> IsPrefix(Reverse(l.value), Reverse(a.value))
    BY <1>3 DEF Covers, IsSuffix
  <2> QED
    BY <1>3, <2>1, <2>2
<1>4. CASE l.kind \notin {"ipv4", "domain"}
  <2>1. l.kind # "email"
    BY DEF IndexRaises
  <2>2. Pack(l.kind, l.value) = l.value /\ Pack(a.kind, a.value) = a.value
    BY <1>4, <2>1 DEF Pack
  <2>3. Covers(l, a) <=> IsPrefix(l.value, a.value)
    BY <1>4 DEF Covers
  <2> QED
    BY <2>2, <2>3
<1> QED
  BY <1>2, <1>3, <1>4

\* What is known of a row that a query is after, or should be.
LEMMA AddressOf ==
    ASSUME NEW r \in FaithfulRow, r.doc # NoDoc
    PROVE  /\ r.doc.content[1] \in Address /\ r.doc.content[1].kind \in DOMAIN Enum
           /\ ~ IndexRaises(r.doc.content[1].kind)
           /\ r.type = Enum[r.doc.content[1].kind]
           /\ r.key = Pack(r.doc.content[1].kind, r.doc.content[1].value)
<1>1. r.doc.content[1] \in Address /\ ~ IndexRaises(r.doc.content[1].kind)
  BY DEF FaithfulRow, Faithful
<1>2. r.doc.content[1].kind \in DOMAIN Enum
  BY <1>1 DEF Address
<1> QED
  BY <1>1, <1>2 DEF FaithfulRow, Faithful

\* A single primary is a category, a group is scanned for its first member.
LEMMA RangeOfName ==
    ASSUME NEW q, ~ Limited(q), NEW k \in DOMAIN Enum
    PROVE  /\ InRange(q, Enum[k]) => k \in Members(q.pri)
           /\ k \in Members(q.pri) /\ (q.pri \in DOMAIN Groups => k # Groups[q.pri][2]) => InRange(q, Enum[k])
<1>1. PrimariesOf(q) = EnumOf(q.pri)
  BY DEF PrimariesOf
<1>2. \A m, n \in DOMAIN Enum : Enum[m] \in Nat /\ (Enum[m] = Enum[n] => m = n)
  BY EnumAssumption
<1>3. CASE q.pri \in DOMAIN Groups
  <2> DEFINE a == Groups[q.pri][1]
             b == Groups[q.pri][2]
             p == EnumOf(q.pri)
  <2>1. a \in DOMAIN Enum /\ b \in DOMAIN Enum /\ Members(q.pri) = {a, b} /\ Enum[b] = Enum[a] + 1
    BY <1>3, GroupIs DEF Members
  <2>2. Len(p) = 2 /\ p[1] = Enum[a] /\ p[2] = Enum[b]
    BY <1>3, GroupIs
  <2>3. InRange(q, Enum[k]) <=> p[1] <= Enum[k] /\ Enum[k] < p[2]
    BY <1>1, <2>2 DEF InRange
  <2>4. Enum[a] \in Nat /\ Enum[k] \in Nat
    BY <1>2, <2>1
  <2>5. InRange(q, Enum[k]) <=> Enum[k] = Enum[a]
    BY <2>1, <2>2, <2>3, <2>4
  <2>6. InRange(q, Enum[k]) <=> k = a
    BY <1>2, <2>1, <2>5
  <2> QED
    BY <1>3, <2>1, <2>6
<1>4. CASE q.pri \notin DOMAIN Groups
  <2>1. Members(q.pri) = {q.pri}
    BY <1>4 DEF Members
  <2>2. CASE q.pri \in DOMAIN Enum
    <3>1. PrimariesOf(q) = <<Enum[q.pri]>>
      BY <1>1, <1>4, <2>2 DEF EnumOf
    <3>2. Len(<<Enum[q.pri]>>) = 1 /\ <<Enum[q.pri]>>[1] = Enum[q.pri]
      OBVIOUS
    <3>3. InRange(q, Enum[k]) <=> Enum[k] = Enum[q.pri]
      BY <3>1, <3>2 DEF InRange
    <3> QED
      BY <1>2, <1>4, <2>1, <2>2, <3>3
  <2>3. CASE q.pri \notin DOMAIN Enum
    <3>1. PrimariesOf(q) = <<>> /\ Len(<<>>) = 0
      BY <1>1, <1>4, <2>3 DEF EnumOf
    <3>2. ~ InRange(q, Enum[k])
      BY <3>1 DEF InRange
    <3> QED
      BY <2>1, <2>3, <3>2
  <2> QED
    BY <2>2, <2>3
<1> QED
  BY <1>3, <1>4

LEMMA RangeOfLimiter ==
    ASSUME NEW q \in Queries, Limited(q), NEW k \in DOMAIN Enum
    PROVE  InRange(q, Enum[k]) <=> k = GuessTypeOf(q.lim)
<1> DEFINE g == GuessTypeOf(q.lim)
<1>1. g \in DOMAIN Enum
  BY GuessIs
<1>2. PrimariesOf(q) = <<Enum[g]>> /\ Len(<<Enum[g]>>) = 1 /\ <<Enum[g]>>[1] = Enum[g]
  BY DEF PrimariesOf
<1> HIDE DEF g
<1>3. InRange(q, Enum[k]) <=> Enum[k] = Enum[g]
  BY <1>2 DEF InRange
<1>4. Enum[k] = Enum[g] => k = g
  BY <1>1, EnumAssumption
<1>5. InRange(q, Enum[k]) <=> k = g
  BY <1>3, <1>4
<1> QED
  BY <1>5 DEF g

\* What a scan is after is what was asked for.
LEMMA MatchesIsAsked ==
    ASSUME NEW q \in Queries, NEW r \in FaithfulRow, Matches(q, r)
    PROVE  AsksFor(q, r) \/ (InIndex(q, r) /\ Covers(r.doc.content[1], q.lim))
<1> DEFINE a == r.doc.content[1]
<1>1. /\ ~ Mismatched(q) /\ Decoded(q) /\ r.doc # NoDoc
      /\ r.table \in ToSet(SecondariesOf(q)) /\ InRange(q, r.type)
      /\ Limited(q) => IsPrefix(Pack(GuessTypeOf(q.lim), q.lim.value), r.key)
  BY DEF Matches
<1>2. /\ a \in Address /\ a.kind \in DOMAIN Enum /\ ~ IndexRaises(a.kind)
      /\ r.type = Enum[a.kind] /\ r.key = Pack(a.kind, a.value)
  BY <1>1, AddressOf
<1> HIDE DEF a
<1>3. Limited(q) => a.kind = GuessTypeOf(q.lim)
  BY <1>1, <1>2, RangeOfLimiter
<1>4. q.pri # "" => a.kind \in Members(q.pri)
  <2>1. CASE Limited(q)
    <3>1. q.pri # "" => Enum[a.kind] \in ToSet(EnumOf(q.pri))
      BY <1>1, <1>3, <2>1 DEF Mismatched
    <3> QED
      BY <1>2, <3>1, NumberIsMember
  <2>2. CASE ~ Limited(q)
    BY <1>1, <1>2, <2>2, RangeOfName
  <2> QED
    BY <2>1, <2>2
<1>5. (q.pri # "" => r.table = q.sec) /\ SecondaryExists(r.table)
  <2>1. CASE q.pri # ""
    <3>1. SecondariesOf(q) = <<q.sec>> /\ SecondaryExists(q.sec)
      BY <1>1, <2>1 DEF SecondariesOf, Decoded
    <3>2. ToSet(<<q.sec>>) = {q.sec}
      BY DEF ToSet
    <3> QED
      BY <1>1, <3>1, <3>2
  <2>2. CASE q.pri = ""
    BY <1>1, <2>2 DEF SecondariesOf, SecondaryExists
  <2> QED
    BY <2>1, <2>2
<1>6. InIndex(q, r)
  BY <1>4, <1>5 DEF InIndex, a
<1>7. ASSUME Limited(q)
      PROVE  Covers(q.lim, a) \/ Covers(a, q.lim)
  <2>1. q.lim \in Address /\ a.kind \in {q.lim.kind, "ipv6", "search"}
    BY <1>3, <1>7, GuessIs
  <2>2. a.kind \notin {"ipv6", "search"}
    BY <1>2 DEF IndexRaises, PackRaises
  <2>3. q.lim.kind = a.kind
    BY <2>1, <2>2
  <2>4. IsPrefix(Pack(q.lim.kind, q.lim.value), Pack(a.kind, a.value))
    BY <1>1, <1>2, <1>3, <1>7, <2>3
  <2> QED
    BY <1>2, <2>1, <2>3, <2>4, PackedPrefix
<1> QED
  BY <1>6, <1>7 DEF AsksFor, a

\* And what was asked for is what a scan is after, when the limiter is understood.  The range
\* for a group ends before its second member, which must be one that has no rows.
LEMMA AskedIsMatched ==
    ASSUME \A g \in DOMAIN Groups : IndexRaises(Groups[g][2]),
           NEW q \in Queries, NEW r \in FaithfulRow, r.doc # NoDoc, Understood(q), AsksFor(q, r)
    PROVE  Matches(q, r)
<1> DEFINE a == r.doc.content[1]
<1>1. /\ q.pri # "" => a.kind \in Members(q.pri) /\ r.table = q.sec
      /\ SecondaryExists(r.table)
      /\ Limited(q) => Covers(q.lim, a)
  BY DEF AsksFor, InIndex
<1>2. /\ a \in Address /\ a.kind \in DOMAIN Enum /\ ~ IndexRaises(a.kind)
      /\ r.type = Enum[a.kind] /\ r.key = Pack(a.kind, a.value)
  BY AddressOf
<1> HIDE DEF a
<1>3. Limited(q) => /\ q.lim \in Address /\ GuessTypeOf(q.lim) = q.lim.kind /\ q.lim.kind = a.kind
                    /\ q.lim.kind = "ipv4" => Len(q.lim.value) = 2
  BY <1>1, GuessIs DEF Understood, Covers
<1>4. ~ Mismatched(q)
  <2>1. q.pri # "" => Enum[a.kind] \in ToSet(EnumOf(q.pri))
    BY <1>1, <1>2, NumberIsMember
  <2> QED
    BY <1>3, <2>1 DEF Mismatched
<1>5. Decoded(q)
  <2> SUFFICES ASSUME q.pri # ""
               PROVE  EnumOf(q.pri) # <<>> /\ SecondaryExists(q.sec)
    BY DEF Decoded
  <2>1. a.kind \in Members(q.pri) \cap DOMAIN Enum
    BY <1>1, <1>2
  <2> QED
    BY <1>1, <2>1, NoNumber
<1>6. r.table \in ToSet(SecondariesOf(q))
  <2>1. CASE q.pri # ""
    <3>1. SecondariesOf(q) = <<q.sec>> /\ r.table = q.sec
      BY <1>1, <1>5, <2>1 DEF SecondariesOf
    <3> QED
      BY <3>1 DEF ToSet
  <2>2. CASE q.pri = ""
    BY <1>1, <2>2 DEF SecondariesOf, SecondaryExists
  <2> QED
    BY <2>1, <2>2
<1>7. InRange(q, r.type)
  <2>1. CASE Limited(q)
    BY <1>2, <1>3, <2>1, RangeOfLimiter
  <2>2. CASE ~ Limited(q)
    <3>1. q.pri # ""
      BY <2>2, QueriesAssumption DEF Limited
    <3>2. q.pri \in DOMAIN Groups => a.kind # Groups[q.pri][2]
      BY <1>2
    <3>3. InRange(q, Enum[a.kind])
      BY <1>1, <1>2, <2>2, <3>1, <3>2, RangeOfName
    <3> QED
      BY <1>2, <3>3
  <2> QED
    BY <2>1, <2>2
<1>8. Limited(q) => IsPrefix(Pack(GuessTypeOf(q.lim), q.lim.value), r.key)
  <2> SUFFICES ASSUME Limited(q)
               PROVE  IsPrefix(Pack(q.lim.kind, q.lim.value), Pack(a.kind, a.value))
    BY <1>2, <1>3
  <2> QED
    BY <1>1, <1>2, <1>3, PackedPrefix
<1> QED
  BY <1>4, <1>5, <1>6, <1>7, <1>8 DEF Matches

-----------------------------------------------------------------------------
(* Theorems.                                                               *)

LEMMA ResponsesTyped ==
    ASSUME HandlerShape, NEW i \in DOMAIN responses
    PROVE  /\ responses[i].query \in Queries /\ responses[i].found \subseteq FaithfulRow
           /\ responses[i].lasting \subseteq FaithfulRow
<1>1. responses \in Seq(Response)
  BY DEF HandlerShape
<1>2. responses[i] \in Response
  BY <1>1, LenProperties, ElementOfSeq
<1> QED
  BY <1>2 DEF Response

\* The index tables and the handler keep their types through everything that is indexed,
\* deleted and asked.
THEOREM TypeCorrect == Spec => []TypeOK
<1>1. IInv => TypeOK
  <2> SUFFICES ASSUME IndexShape, HandlerShape
               PROVE  TypeOK
    BY DEF IInv
  <2>1. FaithfulRow \subseteq Row
    BY DEF FaithfulRow
  <2>2. tables \subseteq Types /\ rows \subseteq Row /\ indexed \in [Documents -> Nat] /\ deletes \in Nat
    BY <2>1 DEF IndexShape
  <2>3. \A t \in Types : batch[t] \in Seq(Row) /\ salt[t] \in 0..(NumServers - 1)
    <3> SUFFICES ASSUME NEW t \in Types
                 PROVE  batch[t] \in Seq(Row) /\ salt[t] \in 0..(NumServers - 1)
      OBVIOUS
    <3>1. batch[t] \in Seq(FaithfulRow) /\ salt[t] \in Salts
      BY DEF IndexShape
    <3> QED
      BY <2>1, <3>1, SeqMonotonic DEF Salts
  <2>4. responses \in Seq([query : Queries, found : SUBSET Row, lasting : SUBSET Row])
    <3>1. Response \subseteq [query : Queries, found : SUBSET Row, lasting : SUBSET Row]
      BY <2>1 DEF Response
    <3> QED
      BY <3>1, SeqMonotonic DEF HandlerShape
  <2>5. /\ pc \in {"idle", "open", "scan", "sent", "dead"} /\ request \in Seq(Queries)
        /\ failed \subseteq Queries /\ status \in {"", "SUCCESS", "FAILED"}
        /\ available \subseteq tables /\ found \subseteq Row /\ lasting \subseteq Row /\ faults \in Nat
    BY <2>1 DEF HandlerShape
  <2>6. todo \in Seq((0..(NumServers - 1)) \X (ToSet(Secondaries) \cup {q.sec : q \in Queries}))
    BY DEF HandlerShape, Pairs, Salts
  <2> QED
    BY <2>2, <2>3, <2>4, <2>5, <2>6 DEF TypeOK
<1> QED
  BY <1>1, Invariance, PTL

\* A query is not left without a response unless HBase raised or the query itself is to
\* blame: Fail is reached for no other reason.
THEOREM FailuresHaveReasons == Spec => []FailsForAReason
<1>1. IInv => FailsForAReason
  BY DEF IInv
<1> QED
  BY <1>1, Invariance, PTL

\* Nobody gets a report they did not ask for: the rows that any prefix or range of rowkeys
\* leads to are about addresses that the query, decoded, asks for.
THEOREM OnlyWhatWasAsked == Spec => []AnswersMatch
<1>1. IInv => AnswersMatch
  <2> SUFFICES ASSUME HandlerShape, Answered, NEW i \in DOMAIN responses, NEW r \in responses[i].found
               PROVE  \/ AsksFor(responses[i].query, r)
                      \/ InIndex(responses[i].query, r) /\ Covers(r.doc.content[1], responses[i].query.lim)
    BY DEF IInv, AnswersMatch
  <2>1. responses[i].query \in Queries /\ r \in FaithfulRow
    BY ResponsesTyped
  <2>2. Matches(responses[i].query, r)
    BY DEF Answered
  <2> QED
    BY <2>1, <2>2, MatchesIsAsked
<1> QED
  BY <1>1, Invariance, PTL

\* Rows that are there throughout a query are in its response, whatever else is put and
\* deleted, over all servers and tables.  Of a group only the first member is scanned, so
\* the second must be one the Indexer raises for, as it does for the ipv6 of infrastructure.
THEOREM NothingMissed ==
    ASSUME \A g \in DOMAIN Groups : IndexRaises(Groups[g][2])
    PROVE  Spec => []AnswersComplete
<1>1. IInv => AnswersComplete
  <2> SUFFICES ASSUME HandlerShape, Answered, NEW i \in DOMAIN responses, Understood(responses[i].query)
               PROVE  Complete(responses[i].query, responses[i])
    BY DEF IInv, AnswersComplete
  <2> SUFFICES ASSUME NEW r \in responses[i].lasting, r.doc # NoDoc, AsksFor(responses[i].query, r)
               PROVE  r \in responses[i].found
    BY DEF Complete
  <2>1. responses[i].query \in Queries /\ r \in FaithfulRow
    BY ResponsesTyped
  <2>2. Matches(responses[i].query, r)
    BY <2>1, AskedIsMatched
  <2> QED
    BY <2>2 DEF Answered
<1> QED
  BY <1>1, Invariance, PTL

\* Salts keep the servers' rows apart: a response has a document twice only if it was
\* indexed twice, because of a document's addresses only the first has a row that leads to it.
THEOREM OneRowPerIndexing == Spec => []TwiceOnlyIfIndexedTwice
<1>1. IInv => TwiceOnlyIfIndexedTwice
  <2> SUFFICES ASSUME IndexShape, HandlerShape, Answered, Once,
                      NEW i \in DOMAIN responses, NEW r \in responses[i].found, NEW s \in responses[i].found,
                      r # s, r.doc = s.doc
               PROVE  indexed[r.doc] > 1
    BY DEF IInv, TwiceOnlyIfIndexedTwice
  <2>1. r \in FaithfulRow
    BY ResponsesTyped
  <2>2. r.doc # NoDoc
    BY DEF Answered, Matches
  <2>3. r.doc \in Documents \ {NoDoc}
    BY <2>1, <2>2 DEF FaithfulRow, Row
  <2>4. r \in Everywhere /\ s \in Everywhere
    BY DEF Everywhere
  <2>5. indexed[r.doc] # 0 /\ indexed[r.doc] # 1
    BY <2>3, <2>4 DEF Once
  <2>6. indexed[r.doc] \in Nat
    BY <2>3 DEF IndexShape
  <2> QED
    BY <2>5, <2>6
<1> QED
  BY <1>1, Invariance, PTL

=============================================================================
