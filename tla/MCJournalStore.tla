--------------------------- MODULE MCJournalStore ----------------------------
(***************************************************************************)
(* Three connections, two with the driver's own transactions and one that  *)
(* a unit of work drives, and three records: two that differ under one     *)
(* key, as two runs of one document record them, and one under another.    *)
(***************************************************************************)
EXTENDS JournalStore

CONSTANTS c1, c2, c3

MCRecords ==
    { [key |-> "k1", body |-> "a", legs |-> 2], [key |-> "k1", body |-> "b", legs |-> 2],
      [key |-> "k2", body |-> "a", legs |-> 1] }

MCMode == [c \in Connections |-> IF c = c3 THEN "unit" ELSE "implicit"]
=============================================================================
