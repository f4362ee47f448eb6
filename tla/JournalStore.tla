----------------------------- MODULE JournalStore ----------------------------
(***************************************************************************)
(* SqliteJournalEntryStore.append row by row: the entry, its legs and the  *)
(* posting snapshot are separate inserts on a connection whose transaction *)
(* the driver opens by itself ("implicit", the store commits) or that a    *)
(* SqliteUnitOfWork opens ("unit", the store does not commit).             *)
(* Translated from infrastructure/persistence/sqlite.py and                *)
(* transactions.py.                                                        *)
(*                                                                         *)
(* A record is its key, what it says (body) and its number of legs.  A     *)
(* writer that finds the database locked raises before it has written      *)
(* anything, which is the same as not having called yet.                   *)
(***************************************************************************)
EXTENDS Integers, Sequences, FiniteSets

CONSTANTS
    Connections,
    Records,      \* [key, body, legs] records the callers may append
    Mode,         \* per connection, "implicit" or "unit"
    Interrupted,  \* the connections an error other than IntegrityError may strike
    None

ASSUME ModeAssumption ==
    Mode \in [Connections -> {"implicit", "unit"}] /\ Interrupted \subseteq Connections
ASSUME RecordsAssumption ==
    /\ None \notin Records
    /\ \A r \in Records :
          r.legs \in Nat /\ r = [key |-> r.key, body |-> r.body, legs |-> r.legs]
    \* the legs are part of what a record says
    /\ \A r, s \in Records : r.key = s.key /\ r.body = s.body => r.legs = s.legs

VARIABLES
    disk,     \* the committed rows
    pending,  \* per connection, the rows its open transaction has written
    call,     \* per connection, the append under way: the record, None if idle
    at,       \* per connection, the rows that append has written; -1 before the lookup,
              \* one more than there are once the COMMIT has failed
    open,     \* the connections inside a transaction that holds the write lock
    acked     \* the records append has returned for

vars == <<disk, pending, call, at, open, acked>>

Row(table, r, i) == [table |-> table, key |-> r.key, ordinal |-> i, body |-> r.body]

\* _insert: the entry, its legs in order, the snapshot.
RowAt(r, i) ==
    IF i = 0 THEN Row("journal_entries", r, 0)
    ELSE IF i <= r.legs THEN Row("journal_lines", r, i)
    ELSE Row("posting_snapshot", r, 0)

RowCount(r) == r.legs + 2

RowsOf(r) == {RowAt(r, i) : i \in 0..RowCount(r) - 1}

\* A connection reads its own uncommitted rows.
Visible(c) == disk \cup pending[c]

\* Mutant: the primary key covers what the row says.
SameRow(a, b) == a = b

SameIdentity(a, b) == a.table = b.table /\ a.key = b.key /\ a.ordinal = b.ordinal

EntryRows(rows, key) == {x \in rows : x.table = "journal_entries" /\ x.key = key}

KeyRows(rows, key) == {x \in rows : x.key = key}

Init ==
    /\ disk = {}
    /\ pending = [c \in Connections |-> {}]
    /\ call = [c \in Connections |-> None]
    /\ at = [c \in Connections |-> -1]
    /\ open = {}
    /\ acked = {}

LockIsFree(c) == open \subseteq {c}

\* append is called; a unit of work takes the write lock first.
Call(c, r) ==
    /\ call[c] = None
    /\ Mode[c] = "unit" => LockIsFree(c)
    /\ open' = IF Mode[c] = "unit" THEN open \cup {c} ELSE open
    /\ call' = [call EXCEPT ![c] = r]
    /\ at' = [at EXCEPT ![c] = -1]
    /\ UNCHANGED <<disk, pending, acked>>

Rollback(c) ==
    /\ pending' = [pending EXCEPT ![c] = {}]
    /\ open' = open \ {c}

\* Mutant: the unit of work does not roll back.
RaiseWithoutRollback(c) ==
    /\ call' = [call EXCEPT ![c] = None]
    /\ at' = [at EXCEPT ![c] = -1]
    /\ UNCHANGED <<disk, pending, open, acked>>

\* The exception reaches the caller: a unit of work rolls back on its way.
Raise(c) ==
    /\ call' = [call EXCEPT ![c] = None]
    /\ at' = [at EXCEPT ![c] = -1]
    /\ IF Mode[c] = "unit" THEN Rollback(c) ELSE UNCHANGED <<pending, open>>
    /\ UNCHANGED <<disk, acked>>

\* Mutant: the position in the inserts outlives the call.
ReturnUnreset(c) ==
    /\ call' = [call EXCEPT ![c] = None]
    /\ acked' = acked \cup {call[c]}
    /\ UNCHANGED at

\* append returns; whether what was written is durable is the caller's to know.
Return(c) ==
    /\ call' = [call EXCEPT ![c] = None]
    /\ at' = [at EXCEPT ![c] = -1]
    /\ acked' = acked \cup {call[c]}

\* COMMIT: every row the transaction holds, whichever append wrote it.
CommitRows(c) == disk' = disk \cup pending[c] /\ Rollback(c)

\* The key is free: go on to the inserts.
LookupMiss(c) ==
    /\ call[c] # None /\ at[c] = -1
    /\ EntryRows(Visible(c), call[c].key) = {}
    /\ at' = [at EXCEPT ![c] = 0]
    /\ UNCHANGED <<disk, pending, call, open, acked>>

\* The identical record is there: nothing to write, and append commits nothing.
LookupSame(c) ==
    /\ call[c] # None /\ at[c] = -1
    /\ KeyRows(Visible(c), call[c].key) = RowsOf(call[c])
    /\ Return(c)
    /\ IF Mode[c] = "unit" THEN CommitRows(c) ELSE UNCHANGED <<disk, pending, open>>

\* Another record, or half of one, is there: ImmutableRecordConflict, or the
\* ValueError of an entry without its snapshot.
LookupOther(c) ==
    /\ call[c] # None /\ at[c] = -1
    /\ EntryRows(Visible(c), call[c].key) # {}
    /\ KeyRows(Visible(c), call[c].key) # RowsOf(call[c])
    /\ Raise(c)

\* The next insert; the first one opens the driver's transaction.
Insert(c) ==
    LET row == RowAt(call[c], at[c])
    IN  /\ call[c] # None /\ at[c] \in 0..RowCount(call[c]) - 1
        /\ LockIsFree(c)
        /\ \A x \in Visible(c) : ~ SameIdentity(x, row)
        /\ pending' = [pending EXCEPT ![c] = @ \cup {row}]
        /\ open' = open \cup {c}
        /\ at' = [at EXCEPT ![c] = @ + 1]
        /\ UNCHANGED <<disk, call, acked>>

\* The insert meets a row another connection committed since the lookup:
\* IntegrityError, the one error the store itself rolls back for.
InsertRefused(c) ==
    LET row == RowAt(call[c], at[c])
    IN  /\ call[c] # None /\ at[c] \in 0..RowCount(call[c]) - 1
        /\ LockIsFree(c)
        /\ \E x \in Visible(c) : SameIdentity(x, row)
        /\ call' = [call EXCEPT ![c] = None]
        /\ at' = [at EXCEPT ![c] = -1]
        /\ Rollback(c)
        /\ UNCHANGED <<disk, acked>>

\* Mutant: append returns and leaves the commit to somebody else.
CommitLater(c) ==
    /\ call[c] # None /\ at[c] = RowCount(call[c])
    /\ Return(c)
    /\ UNCHANGED <<disk, pending, open>>

\* All rows are written: the store, or the unit of work, commits.
Commit(c) ==
    /\ call[c] # None /\ at[c] = RowCount(call[c])
    /\ CommitRows(c)
    /\ Return(c)

\* COMMIT itself raises: a reader held the database for too long.  It is outside
\* the unit's try, so nothing is rolled back, and no other unit can begin here.
CommitFails(c) ==
    /\ c \in Interrupted /\ Mode[c] = "unit"
    /\ call[c] # None /\ at[c] = RowCount(call[c])
    /\ at' = [at EXCEPT ![c] = @ + 1]
    /\ UNCHANGED <<disk, pending, call, open, acked>>

\* The next store that commits on this connection commits that transaction too,
\* whose caller was told it had failed.
CommitLeftOpen(c) ==
    /\ call[c] # None /\ at[c] = RowCount(call[c]) + 1
    /\ CommitRows(c)
    /\ call' = [call EXCEPT ![c] = None]
    /\ at' = [at EXCEPT ![c] = -1]
    /\ UNCHANGED acked

\* Any other exception inside append: a full disk, a value the driver cannot
\* bind, an interrupt from the keyboard.
Interrupt(c) ==
    /\ c \in Interrupted
    /\ call[c] # None /\ at[c] <= RowCount(call[c])
    /\ Raise(c)

\* The process dies or the connection is closed: SQLite rolls back.
Close(c) ==
    /\ call[c] # None \/ c \in open
    /\ call' = [call EXCEPT ![c] = None]
    /\ at' = [at EXCEPT ![c] = -1]
    /\ Rollback(c)
    /\ UNCHANGED <<disk, acked>>

Next ==
    \E c \in Connections :
        \/ \E r \in Records : Call(c, r)
        \/ LookupMiss(c)
        \/ LookupSame(c)
        \/ LookupOther(c)
        \/ Insert(c)
        \/ InsertRefused(c)
        \/ Commit(c)
        \/ CommitFails(c)
        \/ CommitLeftOpen(c)
        \/ Interrupt(c)
        \/ Close(c)

Spec == Init /\ [][Next]_vars

-----------------------------------------------------------------------------
(***************************** Properties **********************************)

TypeOK ==
    /\ pending \in [Connections -> SUBSET UNION {RowsOf(r) : r \in Records}]
    /\ disk \subseteq UNION {RowsOf(r) : r \in Records}
    /\ call \in [Connections -> Records \cup {None}]
    /\ \A c \in Connections :
          at[c] \in -1..(IF call[c] = None THEN -1 ELSE RowCount(call[c]) + 1)
    /\ open \subseteq Connections
    /\ acked \subseteq Records

\* The records a reader can meet whole.
Whole == {r \in Records : RowsOf(r) \subseteq disk}

\* sqlite.py:1537-1540 and :1498 say a reader can never meet half a posting:
\* every committed row belongs to a record committed with all its rows.
NoHalfPosting == disk \subseteq UNION {RowsOf(r) : r \in Whole}

\* A record append has returned for is durable, also after a retry that found
\* its own key taken.
AcknowledgedIsDurable == acked \subseteq Whole

\* What readers meet is the promised ledger, with connections racing on a key
\* and dying between two rows.
L == INSTANCE AppendOnlyLedger WITH ledger <- Whole
ImplementsLedger == L!Spec
=============================================================================
