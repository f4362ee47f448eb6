----------------------------- MODULE Accounting ------------------------------
(***************************************************************************)
(* The accounting stage over its stores: workers that run                  *)
(* ExecuteAccountingUseCase.execute on projected documents, while metadata *)
(* observations arrive, the client's chart of accounts is replaced and the *)
(* clock advances.  Each read of a store, the key check and the insert is  *)
(* a step of its own: nothing in the code holds a lock or a transaction    *)
(* across them.  Translated from                                           *)
(* application/use_cases/execute_accounting.py and the stores it calls.    *)
(***************************************************************************)
EXTENDS PostingValidator

CONSTANTS
    Workers,       \* concurrent runs of the stage over one database
    Projections,   \* the documents in each client's books: contributor,
                   \* perspective and the parsed document
    Observations,  \* what a metadata row may say: a status and, for a
                   \* cancellation, its FechaCancelacion (or None)
    Charts,        \* the versions of the account mapping
    MaxClock,      \* bound on the clock
    MaxSnapshots   \* bound on the observations of one document

\* A chart version names one chart, and resolves a role to an account or not
\* at all (AccountMapping refuses an empty account).
ASSUME ChartAssumption ==
    /\ None \notin Charts
    /\ \A m, n \in Charts : m.version = n.version => m = n
    /\ \A m \in Charts : \A role \in DOMAIN m.accounts : m.accounts[role] # None

\* Every projected document is identified and no status was read for it yet.
ASSUME ProjectionAssumption ==
    /\ None \notin Projections
    /\ \A p \in Projections :
          /\ {"uuid", "status", "pagos", "relaciones"} \subseteq DOMAIN p.doc
          /\ p.doc.uuid # None /\ p.doc.status = "UNKNOWN"

\* A uuid is of one document, in whosever books it is.
ASSUME DocumentAssumption ==
    \A p, q \in Projections : p.doc.uuid = q.doc.uuid => p.doc = q.doc

ASSUME BoundsAssumption == MaxClock \in Nat /\ MaxSnapshots \in Nat

VARIABLES
    archive,    \* the uuids of the documents projected so far
    snapshots,  \* per contributor and uuid, the observations in append order
    charts,     \* per contributor, the mapping in force (None: not configured)
    journal,    \* the records of journal_entries
    clock,      \* the instant the clock shows
    workers     \* per worker, how far its current run has come

vars == <<archive, snapshots, charts, journal, clock, workers>>

Contributors == {p.contributor : p \in Projections}
Uuids == {p.doc.uuid : p \in Projections}
Books == {<<p.contributor, p.doc.uuid>> : p \in Projections}

(***************************** The stores **********************************)

\* A run that is not under way: never started, or ended with that outcome.
Resting == {"idle", "recorded", "noop", "conflict", "integrity_error",
            "document_review", "ambiguous", "unbalanced", "not_configured"}

Worker(pc, p, doc, cancelledOn, chart, decision, record) ==
    [pc |-> pc, projection |-> p, doc |-> doc, cancelledOn |-> cancelledOn,
     chart |-> chart, decision |-> decision, record |-> record]

Ended(outcome) == Worker(outcome, None, None, None, None, None, None)

\* The observations the metadata can hold, with the instant of retrieval.
Snapshot ==
    [status : {o.status : o \in Observations},
     cancelledOn : {o.cancelledOn : o \in Observations},
     retrieved : 0..MaxClock]

\* The newest observation; the one appended last among equally new ones.
Latest(history) ==
    LET newest == Max({history[i].retrieved : i \in DOMAIN history})
    IN  history[Max({i \in DOMAIN history : history[i].retrieved = newest})]

\* Mutant: the records of a source are read from every client's books.
ForSourceOfAnyone(contributor, uuid) == {r \in journal : r.source = uuid}

ForSource(contributor, uuid) ==
    {r \in journal : r.contributor = contributor /\ r.source = uuid}

\* Mutant: any record of the source counts, a PROPOSED one too.
IsRecorded(contributor, uuid) == ForSource(contributor, uuid) # {}

IsPosted(contributor, uuid) ==
    \E r \in ForSource(contributor, uuid) : r.state = "POSTED"

\* What the stored artifact says of an original: nothing if it is not archived.
OriginalFacts(uuid) ==
    IF uuid \in archive
    THEN LET doc == (CHOOSE p \in Projections : p.doc.uuid = uuid).doc
         IN  [metodo |-> doc.metodo, total |-> doc.total, moneda |-> doc.moneda]
    ELSE [metodo |-> None, total |-> None, moneda |-> None]

RelatedDocument(contributor, uuid) ==
    LET facts == OriginalFacts(uuid)
    IN  [metodo |-> facts.metodo, total |-> facts.total, moneda |-> facts.moneda,
         posted |-> IsPosted(contributor, uuid)]

RelatedUuids(doc) == {doc.relaciones[i].uuid : i \in DOMAIN doc.relaciones}

SettledUuids(doc) ==
    IF doc.pagos = None THEN {} ELSE {Doctos(doc.pagos)[i].uuid : i \in DOMAIN Doctos(doc.pagos)}

\* Mutant: the entries the books already hold are not read.
PostingContextBlind(w) ==
    LET c == w.projection.contributor
    IN  [contributor |-> c, doc |-> w.doc, perspective |-> w.projection.perspective,
         classification |-> ClassificationFor(w.projection.perspective, w.doc, w.chart),
         posted |-> {u \in SettledUuids(w.doc) : IsPosted(c, u)},
         related |-> [u \in RelatedUuids(w.doc) |-> RelatedDocument(c, u)],
         previous |-> {}, cancelledOn |-> w.cancelledOn]

\* The context of a document whose status is resolved, from the ledger now.
PostingContext(w) ==
    LET c == w.projection.contributor
    IN  [contributor |-> c, doc |-> w.doc, perspective |-> w.projection.perspective,
         classification |-> ClassificationFor(w.projection.perspective, w.doc, w.chart),
         posted |-> {u \in SettledUuids(w.doc) : IsPosted(c, u)},
         related |-> [u \in RelatedUuids(w.doc) |-> RelatedDocument(c, u)],
         previous |-> IF w.doc.status = "CANCELLED" THEN ForSource(c, w.doc.uuid) ELSE {},
         cancelledOn |-> w.cancelledOn]

(************************** The environment ********************************)

Init ==
    /\ archive = {}
    /\ snapshots = [b \in Books |-> <<>>]
    /\ charts \in [Contributors -> Charts \cup {None}]
    /\ journal = {}
    /\ clock = 0
    /\ workers = [w \in Workers |-> Ended("idle")]

\* M2 projects a document; its XML is readable from then on.
Project(uuid) ==
    /\ uuid \notin archive
    /\ archive' = archive \cup {uuid}
    /\ UNCHANGED <<snapshots, charts, journal, clock, workers>>

\* An observation is appended, whatever its age; the same evidence twice is
\* kept once.
Observe(b, o, retrieved) ==
    LET snapshot == [status |-> o.status, cancelledOn |-> o.cancelledOn, retrieved |-> retrieved]
    IN  /\ Len(snapshots[b]) < MaxSnapshots
        /\ \A i \in DOMAIN snapshots[b] : snapshots[b][i] # snapshot
        /\ snapshots' = [snapshots EXCEPT ![b] = Append(@, snapshot)]
        /\ UNCHANGED <<archive, charts, journal, clock, workers>>

\* The operator puts another version of the client's chart in force.
ChangeChart(c, m) ==
    /\ charts[c] # m
    /\ charts' = [charts EXCEPT ![c] = m]
    /\ UNCHANGED <<archive, snapshots, journal, clock, workers>>

Tick ==
    /\ clock < MaxClock
    /\ clock' = clock + 1
    /\ UNCHANGED <<archive, snapshots, charts, journal, workers>>

(***************************** One execute *********************************)

\* execute is called; the latest observation resolves the source state.
ReadStatus(w, p) ==
    LET history == snapshots[<<p.contributor, p.doc.uuid>>]
        cancelled == history # <<>> /\ Latest(history).status = "CANCELLED"
    IN  /\ workers[w].pc \in Resting
        /\ p.doc.uuid \in archive
        /\ workers' = [workers EXCEPT ![w] =
               Worker("mapping", p,
                      IF history = <<>> THEN p.doc
                      ELSE [p.doc EXCEPT !.status = Latest(history).status],
                      IF cancelled THEN Latest(history).cancelledOn ELSE None,
                      None, None, None)]
        /\ UNCHANGED <<archive, snapshots, charts, journal, clock>>

\* The chart is resolved once per document; without one the run raises.
ReadMapping(w) ==
    LET chart == charts[workers[w].projection.contributor]
    IN  /\ workers[w].pc = "mapping"
        /\ workers' = [workers EXCEPT ![w] =
               IF chart = None THEN Ended("not_configured")
               ELSE Worker("ledger", workers[w].projection, workers[w].doc,
                           workers[w].cancelledOn, chart, None, None)]
        /\ UNCHANGED <<archive, snapshots, charts, journal, clock>>

\* The ledger is read into the context, and the document decided on.  A
\* decision that names no entry never reaches the ledger.
ReadLedgerAndDecide(w) ==
    LET ctx == PostingContext(workers[w])
        proposal == ProposeFor(ctx)
        decision == Decide(ctx, proposal, workers[w].chart)
    IN  /\ workers[w].pc = "ledger"
        /\ workers' = [workers EXCEPT ![w] =
               IF proposal.kind = "raise" THEN Ended("ambiguous")
               ELSE IF decision.entry = None THEN Ended("document_review")
               ELSE Worker("append", workers[w].projection, None, None, None, decision, None)]
        /\ UNCHANGED <<archive, snapshots, charts, journal, clock>>

\* Mutant: the record is stamped with the chart in force when it is written.
CheckKeyRestamped(w) ==
    LET inForce == charts[workers[w].projection.contributor].version
        record == ToRecord([workers[w].decision EXCEPT !.mapping = inForce], clock)
    IN  /\ workers[w].pc = "append"
        /\ workers' = [workers EXCEPT ![w] =
               IF \E r \in journal : r.key = record.key THEN Ended("noop")
               ELSE Worker("insert", workers[w].projection, None, None, None, None, record)]
        /\ UNCHANGED <<archive, snapshots, charts, journal, clock>>

\* The record is dated now; a POSTED one that does not balance aborts.  Then
\* append's first half, the lookup of its key: an identical record is a no-op,
\* another one under the key a conflict.
CheckKey(w) ==
    LET record == ToRecord(workers[w].decision, clock)
        existing == {r \in journal : r.key = record.key}
    IN  /\ workers[w].pc = "append"
        /\ workers' = [workers EXCEPT ![w] =
               IF record.state = "POSTED" /\ ~ IsBalanced(record.lines)
               THEN Ended("unbalanced")
               ELSE IF existing = {}
               THEN Worker("insert", workers[w].projection, None, None, None, None, record)
               ELSE IF existing = {record} THEN Ended("noop")
               ELSE Worker("conflict", None, None, None, None, None, record)]
        /\ UNCHANGED <<archive, snapshots, charts, journal, clock>>

\* Mutant: the table has no primary key.
InsertUnchecked(w) ==
    /\ workers[w].pc = "insert"
    /\ journal' = journal \cup {workers[w].record}
    /\ workers' = [workers EXCEPT ![w] = Ended("recorded")]
    /\ UNCHANGED <<archive, snapshots, charts, clock>>

\* Mutant: INSERT OR REPLACE, so that the later append wins.
InsertOrReplace(w) ==
    /\ workers[w].pc = "insert"
    /\ journal' = {r \in journal : r.key # workers[w].record.key} \cup {workers[w].record}
    /\ workers' = [workers EXCEPT ![w] = Ended("recorded")]
    /\ UNCHANGED <<archive, snapshots, charts, clock>>

\* append's second half: the insert, which the primary key refuses when
\* another connection committed the key in the meantime.
Insert(w) ==
    LET record == workers[w].record
        taken == \E r \in journal : r.key = record.key
    IN  /\ workers[w].pc = "insert"
        /\ journal' = IF taken THEN journal ELSE journal \cup {record}
        /\ workers' = [workers EXCEPT ![w] =
               Ended(IF taken THEN "integrity_error" ELSE "recorded")]
        /\ UNCHANGED <<archive, snapshots, charts, clock>>

\* The process dies: whatever it had read or decided is gone.
Crash(w) ==
    /\ workers[w].pc \notin Resting
    /\ workers' = [workers EXCEPT ![w] = Ended("idle")]
    /\ UNCHANGED <<archive, snapshots, charts, journal, clock>>

Environment ==
    \/ \E u \in Uuids : Project(u)
    \/ \E b \in Books, o \in Observations, t \in 0..clock : Observe(b, o, t)
    \/ \E c \in Contributors, m \in Charts : ChangeChart(c, m)
    \/ Tick

\* What a started run does next.
Proceed(w) ==
    \/ ReadMapping(w)
    \/ ReadLedgerAndDecide(w)
    \/ CheckKey(w)
    \/ Insert(w)

Next ==
    \/ Environment
    \/ \E w \in Workers :
          \/ \E p \in Projections : ReadStatus(w, p)
          \/ Proceed(w)
          \/ Crash(w)

Spec == Init /\ [][Next]_vars

\* A started run ends, by an answer, an exception or a crash: execute waits for
\* nobody.
RunsEnd == \A w \in Workers : []<>(workers[w].pc \in Resting)

\* The caller re-runs the stage over its archive for ever, a started run ends,
\* and the process does not die for ever.
Fairness ==
    /\ RunsEnd
    /\ \A w \in Workers, p \in Projections : SF_vars(ReadStatus(w, p))
    /\ <>[][\A w \in Workers : ~ Crash(w)]_vars

FairSpec == Spec /\ Fairness

-----------------------------------------------------------------------------
(***************************** Properties **********************************)

States == {"POSTED", "PROPOSED", "SKIPPED"}

Running == {"mapping", "ledger", "append", "insert"}

\* Types, and a record's key: the identity it is stored under is its own.
TypeOK ==
    /\ archive \subseteq Uuids
    /\ snapshots \in [Books -> Seq(Snapshot)]
    /\ \A b \in Books : Len(snapshots[b]) <= MaxSnapshots
    /\ charts \in [Contributors -> Charts \cup {None}]
    /\ clock \in 0..MaxClock
    /\ \A w \in Workers :
          /\ workers[w].pc \in Resting \cup Running
          /\ workers[w].projection \in Projections \cup {None}
    /\ \A r \in journal :
          /\ r.state \in States /\ r.recordedAt \in 0..MaxClock
          /\ r.key = <<r.contributor, r.source, r.rule, r.version, r.mapping>>

\* A posting state is assigned once (journal.py, sqlite.py:1537): no two
\* records share a key, however many connections append at the same time.
OneRecordPerKey ==
    \A r, s \in journal : r.key = s.key => r = s

\* The books hold a posted record of the source: read off the journal, not
\* through the store's reader.
HasPosting(contributor, uuid) ==
    \E r \in journal : r.contributor = contributor /\ r.source = uuid /\ r.state = "POSTED"

\* Every leg is on the account that the record's own mapping version gives.
OnItsChart(r) ==
    \E m \in Charts :
        /\ m.version = r.mapping
        /\ \A i \in DOMAIN r.lines :
              /\ r.lines[i].role \in DOMAIN m.accounts
              /\ r.lines[i].account = m.accounts[r.lines[i].role]

\* The records are the promised ledger: never changed, never taken back.
L == INSTANCE AppendOnlyLedger WITH ledger <- journal
ImplementsLedger == L!Spec

\* A decision is versioned by exactly one mapping: the legs of a posted record
\* are on that mapping's accounts, even when the chart was replaced between
\* the read and the append (execute_accounting.py:24-26).
PostedUsesItsChart ==
    \A r \in journal : r.state = "POSTED" => OnItsChart(r)

\* Among these observations, the SAT told the client the source is VIGENTE.
SeenVigente(observed, contributor, uuid) ==
    /\ <<contributor, uuid>> \in Books
    /\ \E i \in DOMAIN observed[<<contributor, uuid>>] :
          observed[<<contributor, uuid>>][i].status = "VIGENTE"

\* Nothing is posted on a presumption (execute_accounting.py:14-18): the SAT
\* was seen to say VIGENTE of every posted source, to the client that books it.
PostedFromVigente ==
    \A r \in journal : r.state = "POSTED" => SeenVigente(snapshots, r.contributor, r.source)

\* The leg with its account, and the leg that takes it back.
Booking(line) == <<line.role, line.key, line.side, line.amount, line.account>>
TakenBack(line) ==
    <<line.role, <<"reversal">> \o line.key, Opposite(line.side), line.amount, line.account>>

\* Every reversal in the ledger undoes a posted record of its own source, leg
\* by leg and on the accounts of that record, whatever chart is in force.
ReversalMirrorsPosting ==
    \A r \in journal : r.rule = RULE_4_15B.id =>
        \E s \in journal :
            /\ s.contributor = r.contributor /\ s.source = r.source
            /\ s.state = "POSTED" /\ s.hash = r.hash
            /\ DOMAIN s.lines = DOMAIN r.lines
            /\ \A i \in DOMAIN s.lines : Booking(r.lines[i]) = TakenBack(s.lines[i])

\* A collection, a payment or a credit note with legs against an original is
\* in the ledger only after a posted record of that original, in the same books.
SettledOriginalsArePosted ==
    \A r \in journal, p \in Projections :
        r.source = p.doc.uuid /\ r.contributor = p.contributor =>
            /\ r.state = "POSTED" /\ (\E row \in REP_ROWS : row.id = r.rule) =>
                  \A u \in SettledUuids(p.doc) : HasPosting(r.contributor, u)
            /\ (\E row \in CREDIT_NOTE_ROWS : row.id = r.rule) /\ r.lines # <<>> =>
                  \E u \in RelatedUuids(p.doc) : HasPosting(r.contributor, u)

\* One run at a time, a cancelled source is skipped only while nothing of it
\* is posted: 4.15a and 4.15b partition the cancellations.
SkipNeverContradictsLedger ==
    [][\A r \in journal' \ journal :
          r.rule = RULE_4_15A.id => ~ HasPosting(r.contributor, r.source)]_vars

CancelledNow(p) ==
    LET history == snapshots[<<p.contributor, p.doc.uuid>>]
    IN  /\ history # <<>>
        /\ Latest(history).status = "CANCELLED"
        /\ Latest(history).cancelledOn # None

Reversed(p) ==
    \E r \in journal :
        r.contributor = p.contributor /\ r.source = p.doc.uuid /\ r.rule = RULE_4_15B.id

\* While one chart is in force, a posted source that stays cancelled is
\* reversed: also when the cancellation arrived between the status read and
\* the append of the posting.
CancelledPostingIsReversed ==
    \A p \in Projections :
        (HasPosting(p.contributor, p.doc.uuid) /\ CancelledNow(p))
            ~> (Reversed(p) \/ ~ CancelledNow(p))

\* What the gate would say of the document now.
DecisionNow(p) ==
    LET history == snapshots[<<p.contributor, p.doc.uuid>>]
        doc == [p.doc EXCEPT !.status = Latest(history).status]
        chart == charts[p.contributor]
        ctx == PostingContext(Worker("ledger", p, doc, None, chart, None, None))
    IN  Decide(ctx, ProposeFor(ctx), chart)

Postable(p) ==
    LET history == snapshots[<<p.contributor, p.doc.uuid>>]
    IN  /\ p.doc.uuid \in archive
        /\ charts[p.contributor] # None
        /\ history # <<>> /\ Latest(history).status = "VIGENTE"
        /\ DecisionNow(p).state = "POSTED"

\* validator.py:416-421 says a document of unresolved status "waits for the
\* metadata join that would resolve it": once resolved, it posts.
ResolvedDocumentEventuallyPosts ==
    \A p \in Projections :
        Postable(p) ~> (HasPosting(p.contributor, p.doc.uuid) \/ ~ Postable(p))

\* cancellation.py:98 says one source has one accounting fact.
OneAccountingFact ==
    \A r, s \in journal :
        /\ r.state = "POSTED" /\ s.state = "POSTED"
        /\ r.contributor = s.contributor /\ r.source = s.source
        => r = s
=============================================================================
