---- MODULE AppendOnlyLedger ----
(***************************************************************************)
(* What the journal promises its readers (ports/persistence.py,            *)
(* JournalEntryStore): whole records, one per key, written once and never  *)
(* taken back.  Accounting and JournalStore both implement it.             *)
(***************************************************************************)
VARIABLE ledger   \* the records a reader can meet, each with its key

\* No record a reader can meet has this key.
Free(key) == \A met \in ledger : met.key # key

\* Nothing is recorded at first.
Init == ledger = {}

\* One record more, under a key that was free.
Append == \E record \in ledger' : Free(record.key) /\ ledger' = {record} \cup ledger

Spec == Init /\ [][Append]_ledger
====
