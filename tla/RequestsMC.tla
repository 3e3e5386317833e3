----------------------------- MODULE RequestsMC -----------------------------
(* Instances of Requests for model checking: what the user types.          *)
EXTENDS Requests

C(cmd, dst, qty) == [cmd |-> cmd, dst |-> dst, qty |-> qty]
SomeCommands == {C("LISTCLIENTS", Router, 1), C("THREADS_LIST", "cif-db", 1),
                 C("PING", "cif-db", 2), C("PING", Me, 1)}

=============================================================================
