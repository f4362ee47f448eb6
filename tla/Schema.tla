------------------------------- MODULE Schema --------------------------------
(***************************************************************************)
(* init_schema: a process that opens the database reads its version, runs  *)
(* the statements of every later step of the ladder, adds the columns that *)
(* tables of earlier versions lack, and stamps the version last.  Each     *)
(* statement is committed by itself, so that other processes, a crash or   *)
(* an exception may come between any two.  Translated from                 *)
(* infrastructure/persistence/sqlite.py.                                   *)
(*                                                                         *)
(* A schema is the set of its parts: <<table, "table">>, a column added to *)
(* a table since its first version, or one of its append-only guards.      *)
(***************************************************************************)
EXTENDS Connections, SequencesExt

CONSTANTS Processes    \* those that open the database

VARIABLES
    schema,    \* the parts the database has
    version,   \* PRAGMA user_version
    opening    \* per process, how far its init_schema has come

schemaVars == <<schema, version, opening>>

SCHEMA_VERSION == 6

\* The tables each version brought, in the order they are created.
TablesOfStep ==
    << <<"download_jobs", "download_cursors", "source_records">>,
       <<"documents", "fiscal_events", "contributor_profiles", "csf_artifacts",
         "review_flags", "pipeline_runs">>,
       <<"profile_obligaciones">>,
       <<"metadata_snapshots", "journal_entries", "journal_lines", "posting_snapshot">>,
       <<>>, <<>> >>

\* The columns added to a table of an earlier version, in the order of the checks.
AddedColumns ==
    << <<"download_jobs", "pipeline_run_id">>, <<"contributor_profiles", "codigo_postal">>,
       <<"journal_entries", "assumptions">>, <<"journal_lines", "resolved_account">> >>

\* The version that brought each of them.
ColumnStep == <<2, 3, 5, 6>>

APPEND_ONLY_TABLES == TablesOfStep[4]

Guards(table) == << <<table, "no_update">>, <<table, "no_delete">> >>

Creation(step) == [n \in DOMAIN TablesOfStep[step] |-> <<TablesOfStep[step][n], "table">>]

\* The guards follow the fact tables, in the same step.
MIGRATIONS ==
    [step \in 1..SCHEMA_VERSION |->
        IF step # 4 THEN Creation(step)
        ELSE Creation(4) \o Guards(APPEND_ONLY_TABLES[1]) \o Guards(APPEND_ONLY_TABLES[2])
                         \o Guards(APPEND_ONLY_TABLES[3]) \o Guards(APPEND_ONLY_TABLES[4])]

\* Mutant: the ladder is entered one step late.
StatementsSkippingOne(found) ==
    FlattenSeq(SubSeq(MIGRATIONS, found + 2, SCHEMA_VERSION))

\* The statements of the steps after the version that was found.
Statements(found) == FlattenSeq(SubSeq(MIGRATIONS, found + 1, SCHEMA_VERSION))

\* What a table is created with today.
PartsOf(part) ==
    {part} \cup (IF part[2] # "table" THEN {}
                 ELSE {AddedColumns[n] : n \in {m \in DOMAIN AddedColumns :
                                                    AddedColumns[m][1] = part[1]}})

\* A database as the program of that version left it.
SchemaOfVersion(v) ==
    Range(FlattenSeq(SubSeq(MIGRATIONS, 1, v)))
    \cup {AddedColumns[n] : n \in {m \in DOMAIN AddedColumns : ColumnStep[m] <= v}}

Complete == SchemaOfVersion(SCHEMA_VERSION)

Progress(pc) == [pc |-> pc, found |-> None, at |-> 1]

\* The programs before schema 2 did not stamp what they left.  A process has
\* opened the database, has yet to, or never will.
SchemaInit(left, stamped, begun) ==
    /\ schema = SchemaOfVersion(left)
    /\ version = stamped
    /\ opening = [p \in Processes |-> Progress(begun[p])]

IsOpen(p) == opening[p].pc = "open"

Further(p, pc) == opening' = [opening EXCEPT ![p].pc = pc, ![p].at = 1]
NextOne(p, pc) == opening' = [opening EXCEPT ![p].pc = pc, ![p].at = @ + 1]

\* The exception leaves init_schema, which may be called again.
OpeningFails(p) == opening' = [opening EXCEPT ![p] = Progress("closed")]

ReadVersion(p) ==
    /\ opening[p].pc = "closed"
    /\ opening' = [opening EXCEPT ![p] = [pc |-> "ladder", found |-> version, at |-> 1]]
    /\ UNCHANGED <<schema, version>>

Statement(p) == Statements(opening[p].found)[opening[p].at]

AtStatement(p) ==
    opening[p].pc = "ladder" /\ opening[p].at <= Len(Statements(opening[p].found))

\* CREATE ... IF NOT EXISTS.
CreateFound(p) ==
    /\ AtStatement(p) /\ Statement(p) \in schema
    /\ NextOne(p, "ladder")
    /\ UNCHANGED <<schema, version>>

Create(p) ==
    /\ AtStatement(p) /\ Statement(p) \notin schema /\ LockIsFree
    /\ schema' = schema \cup PartsOf(Statement(p))
    /\ NextOne(p, "ladder")
    /\ UNCHANGED version

LadderClimbed(p) ==
    /\ opening[p].pc = "ladder" /\ opening[p].at > Len(Statements(opening[p].found))
    /\ Further(p, "columns")
    /\ UNCHANGED <<schema, version>>

AtColumn(p) == opening[p].pc = "columns" /\ opening[p].at <= Len(AddedColumns)
Column(p) == AddedColumns[opening[p].at]
Lacks(p) == <<Column(p)[1], "table">> \in schema /\ Column(p) \notin schema

\* PRAGMA table_info: no such table, or the column is there.
ColumnFound(p) ==
    /\ AtColumn(p) /\ ~ Lacks(p)
    /\ NextOne(p, "columns")
    /\ UNCHANGED <<schema, version>>

ColumnMissing(p) ==
    /\ AtColumn(p) /\ Lacks(p)
    /\ opening' = [opening EXCEPT ![p].pc = "alter"]
    /\ UNCHANGED <<schema, version>>

AddColumn(p) ==
    /\ opening[p].pc = "alter" /\ LockIsFree /\ Column(p) \notin schema
    /\ schema' = schema \cup {Column(p)}
    /\ NextOne(p, "columns")
    /\ UNCHANGED version

\* Another process added the column since: "duplicate column name".
AddColumnTwice(p) ==
    /\ opening[p].pc = "alter" /\ Column(p) \in schema
    /\ OpeningFails(p)
    /\ UNCHANGED <<schema, version>>

Migrated(p) == opening[p].pc = "columns" /\ opening[p].at > Len(AddedColumns)

Stamp(p) ==
    /\ Migrated(p) /\ opening[p].found < SCHEMA_VERSION /\ LockIsFree
    /\ version' = SCHEMA_VERSION
    /\ Further(p, "open")
    /\ UNCHANGED schema

StampedAlready(p) ==
    /\ Migrated(p) /\ opening[p].found >= SCHEMA_VERSION
    /\ Further(p, "open")
    /\ UNCHANGED <<schema, version>>

\* A statement that has to write waits in vain for the lock.
OpeningLocked(p) ==
    /\ \/ AtStatement(p) /\ Statement(p) \notin schema
       \/ opening[p].pc = "alter"
       \/ Migrated(p) /\ opening[p].found < SCHEMA_VERSION
    /\ LockedOut(p)
    /\ OpeningFails(p)
    /\ UNCHANGED <<schema, version>>

\* The process dies, or the disk is full: the next one opens the database anew.
OpeningDies(p) ==
    /\ opening[p].pc \notin {"closed", "open", "away"}
    /\ OpeningFails(p)
    /\ UNCHANGED <<schema, version>>

Open(p) ==
    \/ ReadVersion(p)
    \/ CreateFound(p) \/ Create(p) \/ LadderClimbed(p)
    \/ ColumnFound(p) \/ ColumnMissing(p) \/ AddColumn(p) \/ AddColumnTwice(p)
    \/ Stamp(p) \/ StampedAlready(p)
    \/ OpeningLocked(p)
=============================================================================
