----------------------------- MODULE KeyLookup ------------------------------
(***************************************************************************)
(* What the router may rely on when it has the embedded mini client look   *)
(* up an API key: lookup_apikey, pending, pending_apikey_lookups and       *)
(* get_pending_apikey / remove_pending_apikey, without threads, queues,    *)
(* caches or messages.                                                     *)
(*                                                                         *)
(* Each request yields at most one result; a result is a record cif-db     *)
(* holds or once held for that very key; results of one key overwrite each *)
(* other until they are taken.  A request may also come to nothing.        *)
(***************************************************************************)
EXTENDS Integers

CONSTANTS Keys, Records

VARIABLES
    asked,         \* how many lookups have been asked for
    outstanding,   \* per key, the requests that may still yield a result
    pending,       \* key -> record, the results nobody has taken yet
    held           \* per key, every record cif-db has held for it

vars == <<asked, outstanding, pending, held>>

Without(table, k) == [x \in DOMAIN table \ {k} |-> table[x]]
With(table, k, r) == [x \in DOMAIN table \cup {k} |-> IF x = k THEN r ELSE table[x]]

TypeOK ==
    /\ asked \in Nat
    /\ outstanding \in [Keys -> Nat]
    /\ DOMAIN pending \subseteq Keys
    /\ \A k \in DOMAIN pending : pending[k] \in Records
    /\ held \in [Keys -> SUBSET Records]

Idle ==
    /\ asked = 0
    /\ outstanding = [k \in Keys |-> 0]
    /\ pending = [k \in {} |-> k]

Init == Idle /\ held \in [Keys -> SUBSET Records]

Ask(k) ==
    /\ asked' = asked + 1
    /\ outstanding' = [outstanding EXCEPT ![k] = @ + 1]
    /\ UNCHANGED <<pending, held>>

Produce(k, r) ==
    /\ outstanding[k] > 0 /\ r \in held[k]
    /\ outstanding' = [outstanding EXCEPT ![k] = @ - 1]
    /\ pending' = With(pending, k, r)
    /\ UNCHANGED <<asked, held>>

\* No record, an answer without a callback, a wake-up nobody heard.
Lose(k) ==
    /\ outstanding[k] > 0
    /\ outstanding' = [outstanding EXCEPT ![k] = @ - 1]
    /\ UNCHANGED <<asked, pending, held>>

Take(k) ==
    /\ k \in DOMAIN pending
    /\ pending' = Without(pending, k)
    /\ UNCHANGED <<asked, outstanding, held>>

\* cif-db's table changes on its own.
Update(k, r) ==
    /\ held' = [held EXCEPT ![k] = @ \cup {r}]
    /\ UNCHANGED <<asked, outstanding, pending>>

\* The mini client is replaced by a new one, which has been asked for nothing.
Restart ==
    /\ outstanding' = [k \in Keys |-> 0]
    /\ pending' = [k \in {} |-> k]
    /\ UNCHANGED <<asked, held>>

Next == Restart \/ \E k \in Keys :
    \/ Ask(k) \/ Lose(k) \/ Take(k)
    \/ \E r \in Records : Produce(k, r) \/ Update(k, r)

Spec == Init /\ [][Next]_vars

=============================================================================
