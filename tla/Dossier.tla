------------------------------- MODULE Dossier -------------------------------
(***************************************************************************)
(* What the process flow promises of the documents: each is filed under    *)
(* the hash it was first seen with and no other, and filing it opens every *)
(* doubt its client has of it in the same stroke.  Open doubts are closed  *)
(* one by one, by a reviewer.                                              *)
(***************************************************************************)
CONSTANTS
    Uuids, Clients,
    FlagTypes,
    Doubts(_, _),    \* per client and hash, the flags the document deserves
    None

VARIABLES filed, open

vars == <<filed, open>>

Init ==
    /\ filed = [u \in Uuids |-> None]
    /\ open = [u \in Uuids |-> {}]

\* A document is filed, or met again as it was filed.
File(u, client) ==
    LET hash == filed'[u]
    IN  /\ hash # None
        /\ filed[u] \in {None, hash}
        /\ filed' = [filed EXCEPT ![u] = hash]
        /\ open' = [open EXCEPT ![u] = @ \cup Doubts(client, hash)]

CloseFlag(u, type) ==
    /\ type \in open[u]
    /\ open' = [open EXCEPT ![u] = @ \ {type}]
    /\ UNCHANGED filed

Next ==
    \E u \in Uuids :
        \/ \E type \in FlagTypes : CloseFlag(u, type)
        \/ \E client \in Clients : File(u, client)

Spec == Init /\ [][Next]_vars
=============================================================================
