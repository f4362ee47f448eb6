# sat-descarga-masiva in TLA+

A verification development of `sat_descarga_masiva`: the program that downloads a
taxpayer's CFDI (Mexican electronic invoices) from the SAT, archives and projects
them, and books each one as a journal entry or says why it cannot. TLA+ modules
model the program, TLC checks them on small instances, and TLAPS proves what can
be proved for every value of the constants. Paths below are relative to
`src/sat_descarga_masiva/`.

## 1. Inventory

| Part | State it keeps | Operations | Talks to |
|---|---|---|---|
| **Accounting stage** (`application/use_cases/execute_accounting.py`) | none of its own; reads four stores and appends to one | `execute` | metadata snapshots, chart provider, ledger, archive, clock |
| **Posting engine** (`contabilidad/rules/*`, `classification.py`) | none: a pure function of a `PostingContext` | `propose` | called by `execute` |
| **Gate, valuation, record** (`contabilidad/validator.py`, `valuation.py`, `fx.py`, `journal.py`) | none | `value_entry`, `decide`, `to_record` | called by `execute` |
| **Journal entry store** (`infrastructure/persistence/sqlite.py:1532`, `transactions.py`) | `journal_entries`, `journal_lines`, `posting_snapshot`, append-only by trigger | `append`, `get`, `for_source` | SQLite connections, a unit of work |
| **Metadata snapshot store** (`sqlite.py:1189`) | observations per client and UUID, append-only | `append`, `latest_for` | written by ingestion, read by `execute` |
| **Document repository, review flags, pipeline runs** (`sqlite.py:1081`, `:1358`, `:1440`) | a row per UUID; one fact per opening and closing of a flag; a row per run | `save`, `open_flag`, `close_flag` | written by the process flow and by reviewers |
| **Process flow** (`process_client.py`, `process_documents.py`) | none: the run row says where it is, RUNNING then COMPLETED or FAILED | `run`, `process` | the profile store, the reader, the fiscal stage, a transaction per document |
| **Fiscal stage** (`fiscal/*`, `infrastructure/fiscal/*`) | none: a function of the bytes and of the contributor | `parse`, `verify`, `project_document` | called by `process` |
| **Schema** (`sqlite.py:762`) | the tables, columns and guards, and `user_version` | `init_schema` | every process that opens the database |
| **Download workflow** (`execute_download.py`, `policies/`) | the request id it saved | `execute` (submit, poll, download) | SAT gateways, clock, sleeper |
| **Source archive** (`filesystem_sink.py`, `extractor.py`, `ingest_downloaded_package.py`) | zip and manifest per content hash; extracted XML | `store`, `extract` | the file system |
| **Facade** (`facade/client.py`) | none | `download_and_ingest` | the download workflow, then the archive, package by package |
| **Onboarding** (`onboard_contributor.py`, `csf_sink.py`) | versions of a contributor's profile with their obligations; the retained constancia, as a file and in an index | `onboard` | PDF parser, profile and artifact stores |
| **Fiscal events** (`contabilidad/fiscal_state.py`) | none: two observations to an event | `document_status_changed` | event store |
| **Other stores** (`sqlite.py`, `memory.py`): download jobs, cursors, source index, fiscal events | a row per key | single statements | nothing in the source calls them |
| **Edges**: SOAP gateways, HTTP, FIEL, vault, YAML, PDF | — | conversions and I/O | third-party libraries |

What is hard. Nothing holds a lock or a transaction from the first read of
`execute` to its append, so a metadata observation, a new chart or another run
may come between any two of its steps. The ledger is append-only and keyed by
what was decided, so a decision taken too early stays. A posting is several rows
of three tables. A cancellation must undo a posting made under a chart that may
no longer be in force, in the books of one client of the two that may hold the
same UUID. Amounts come from a file and may be absent, not finite, negative or
inconsistent, and constructors raise on such values, which would abort a batch.
On the intake side one write lock is all that orders the actors: a run reads its
clock before its transaction, an onboarding reads the latest version and looks
into its stores in separate statements, a reviewer looks a flag up before it is
closed, and a migration commits statement by statement. Each of them may be
overtaken, die or be locked out between any two of its steps.

What makes each part correct:

* **engine and gate**: no guard of a constructor can fire on what the rules build;
  a posted entry books the *whole* document; a payment creates and loses nothing;
  credit notes and reversals mirror what they answer; rows are disjoint.
* **stage**: a record is under one chart; nothing is posted that was not seen
  VIGENTE; one record per key; a cancelled posting is reversed in the end.
* **store**: readers meet whole records, one per key, never changed, and an
  acknowledged one survives a crash.
* **process flow**: a document and its flags appear together or not at all, under one
  hash, with no flag open twice and none closed twice; a run row says what happened.
* **onboarding**: versions are consecutive and whole, and never change; evidence is kept
  and indexed before a profile rests on it.
* **schema**: whoever is past `init_schema` has every table, column and guard.
* **download**: the poll loop ends, by answer or by deadline, and only a resolved
  request is downloaded.
* **archive**: evidence is immutable, and complete if it is there.

Every hazard, with its line and the properties aimed at it, is in `PROJECT.json`.

## 2. Modules

    JournalContract                vocabulary: amounts, legs, entries, answers
      AmountRules                  classification and the amounts a document states
        IncomeRules  RepRules  CreditNoteRules        rows 4.1-4.4, 4.5a/b, 4.6-4.9
      CancellationRules            rows 4.15a, 4.15b
        PostingRules               scope (4.11, 4.12, 4.14), drafts (4.10, 4.13), the selector
          PostingValidator         rates, conversion, the ten conditions, the record
            PostingEngine          one document in, one decision out     (MCPostingEngine)
            Accounting             the stage over its stores             (MCAccounting)
            PostingProofs          what the gate guarantees
              AccountingProofs     what the ledger can hold
    JournalStore                   append, row by row                    (MCJournalStore)
      JournalStoreProofs           no reader meets half a posting
    SatStatus                      what the SAT's answers mean, the backoff
      Download                     submit, poll, download
        Acquisition                the facade over both                  (MCAcquisition)
          AcquisitionProofs        the archive, the download and its backoff
    SourceArchive                  zip, manifest and members as files; also under Acquisition
    Connections                    one write lock, one clock
      Schema                       init_schema, statement by statement
      Onboarding                   the file, the index and the profile, step by step
      Processing                   runs over batches, and reviewers; uses FiscalReading
        Intake                     the three over one database       (MCIntake)
          OnboardingProofs         what is on record of the onboardings
            IntakeProofs           what can be on file, which flags can be open, what a
                                   migration leaves behind
    FiscalReading                  from the bytes to what the fiscal stage makes of them
    Dossier                        what the process flow promises; implemented by Intake
    AppendOnlyLedger               what the journal promises; implemented by
                                   Accounting and by JournalStore
    RecursionTheorems              what proofs about recursive functions rest on

**Data.** An amount is an integer number of cents or `NaN`, the one non-finite
amount a document can carry (`MoneyPolicy` quantizes, and an infinity raises
there); as in `Decimal`, it differs from everything, itself included (`Differs`).
As a rate `NaN` stands for any non-finite `Decimal`. `None` is an absent field. A
rate is a fraction. A document is a record of the fields the rules read. Flags are
sets of flag types: their prose, and which of several flags of a type is stated, is
left out. A line key is a tuple of its parts.

**Correspondence.** `ProposeFor` is `propose`, `ValueEntry` the rate chain with
`value_entry`, `Decide` the validator's `decide`, `ToRecord` the decision's
`to_record`. A rule that raises `ValueError` answers `Raise`. In `Accounting`,
`ReadStatus`, `ReadMapping`, `ReadLedgerAndDecide`, `CheckKey` and `Insert` are,
in order, the steps of `execute` between which another process may act; the
reads of the ledger in the middle are one step, since a document is answered by
one kind of rule and each kind does one of these reads. `CheckKey` and `Insert`
are the two halves of `append`, and `JournalStore` shows why the second may be one step:
its `ImplementsLedger` maps the rows on disk to whole records that appear at
commit. A run that finds the database locked has raised before it wrote, which is
the same as not having called yet.

`Download`, `SourceArchive` and `Acquisition` follow the call stack of
`download_and_ingest`: `job` is the frame of `execute` and of its poll loop, `ingest` that
of the ingester, the sink and the extractor, `client` that of the facade. A step is a
call to the SAT (`Submit`, `Verify`, `DownloadPackage`), the end of a sleep (`Wake`), or
the opening or closing of a file (`Store`, `CloseZip`, `OpenManifest`,
`CloseManifest`, `ReadMember`, `CloseMember`). A file that is open is torn until it is closed,
and stays so if the process dies or an `OSError` strikes. The hash of a content is the
content. Instants are counted from the beginning of a call, since the code only
compares one with its own deadline; `Horizon` stands for all later instants.

`Intake` follows `init_schema` (`opening`), `onboard` (`onboarding`), `run` with `process`
(`run`), and `close_flag` (`reviewer`): each is a call whose `pc` is the statement it is
at. Rows that a transaction has written and not yet committed are in the call
(`run[r].row`, `run[r].facts`, `onboarding[o].record`), not in the tables, so
nobody else sees them; COMMIT moves them (`Commit`, `SaveCommit`) and a rollback forgets them
(`Surface`, `Raise`). The COMMIT of a `SqliteUnitOfWork` is outside its `try`
(`transactions.py:50`): when it raises, because a reader keeps the file from being
written, nothing is rolled back. `CommitFails` leaves the transaction and its lock with
the caller's connection (`Uncommitted`), until that is closed (`RunDies`) or a store
that commits is used on it: called again, the run commits with its own row what was left
(`StartOver`; `CommitLeftOpen` in `JournalStore`). `writer` is the connection that holds the lock; a statement that has to
write waits until it is free, and may give up (`Locked`, `OnboardingLocked`,
`OpeningLocked`, `Disconnect`). `record` and `close_flag` do not roll back when a
unique key refuses their row: `RecordRefused` and `CloseRefused` keep the lock
until the connection is closed. A constancia, a document and a hash are what the code tells
apart of them: `FiscalReading` is a function of the features of a document that the
parser, the verifier and the projector branch on, with the texts that do not convert.
A torn constancia (`WriteOpen`, then a crash) is a file that exists, which is all
that a later onboarding looks at. A database as an older program left it is `SchemaOfVersion`.

**Environment.** `Project` makes a document's XML readable; `Observe` appends a
metadata observation of any age; `ChangeChart` puts another version in force;
`Tick` moves the clock; `Crash` forgets a run. Of `Acquisition`: the SAT answers a poll with any of
`Replies`, any call to it may raise (`SubmitFails`, `VerifyFails`), time passes (`Tick`),
the file system fails (`FileFails`), and `Crash` empties what is in memory, the
request ids included (`memory.py:82` is their only store). Of `Intake`: `Demand` calls runs
and closes flags, again and again; `Fault` lets any call die, and an exception strike a
transaction; `Passes` moves the clock.

## 3. Runs

| Run | Question | Bounds |
|---|---|---|
| `posting_engine` | Does any document break the engine? | 11 families of contexts (amounts, retenciones and claves, identity, currency, four of payments, two of credit notes, cancellations with their histories), each crossed over the values its code tells apart, under a full and a partial chart, with a rate provider that offers 3/2 |
| `accounting` | Do races corrupt the ledger, and is an original always posted before what settles it? | one document, two workers, two observations, and two instants, the second chart only at the first of them; or one worker and an invoice, a payment and a credit note in every order |
| `accounting_live` | Are two clients' books kept apart, and is a cancelled posting reversed in the end? | `LiveSpec`, which is `FairSpec` in the instance where the second client is told once; one UUID in the books of two clients, one worker, two observations, two instants |
| `journal_store` | Can connections, exceptions or crashes tear a posting? | three connections (two with implicit transactions, one in a unit of work that any exception may strike), three records, two under one key |
| `acquisition` | Does every call end, ask no faster than its backoff, download only what is resolved, and leave evidence alone? | two requests, replies of each class of state and code, six lists of packages (repeating, contradicting, unsafe, too large, with too many entries, no zip), a timeout of three, a delay that doubles to two |
| `intake` | Do migrations, onboardings, runs and reviewers over one database keep what each of them promises, and does every run close its row? | `MCSpec`, six scenarios: two processes that open a database of any version, one of which onboards; two onboardings of one client; an onboarding and a run; two runs of two clients over one document, one of them with a second copy of other bytes; a run and two reviewers; one run over a document of every variant. Two instants, three review facts |
| `posting_engine_tax`, `accounting_one_fact`, `accounting_resolved`, `journal_store_interrupted`, `acquisition_overflow`, `intake_unreadable` | Does the code do what this line of the documentation says? | each finds a counterexample: section 5 |

**Why the bounds are enough.** Two workers suffice for a race on a key; one
document, because records of different sources never meet except through a
payment or a credit note, which has a scenario of its own. Two observations are
the most a cancellation needs (VIGENTE, then CANCELLED), and with retrieval
instants of their own they also arrive in the wrong order. Two charts tell the one that was
read from the one in force. Legs of different counts, and two records under one
key, are what the rows of a posting can be confused by. The engine is a function,
so its runs enumerate inputs: a family varies the fields that are read together.

Two calls let one find what another left; in a timeout of three the delay reaches its
cap and a sleep can overrun the deadline. `MaxFloat` is out of reach in `acquisition`,
and small in `acquisition_overflow`, where it stands for the largest float (and the timeout is four).

In `intake` two calls of each kind are the most that a race needs, since all they share is
one lock, one clock and the tables; every scenario is a set of states of `Init`, chosen so that the
actors meet on one client, one constancia, one UUID or one database. Three facts are an opening,
its closure and the opening that a second processing may add; two instants
tell a run that looked at its clock before another from one that looked after it. The last scenario
reads every variant of a document once, down every branch of `FiscalReading`.

The runs do not check for deadlock: the store of a finite number of observations
and instants, and the one step of the engine, really end, as do migrations and
onboardings, and nobody has to close a flag.

**Fairness.** Nothing in the source runs the accounting stage: a caller does.
`FairSpec` says that the caller runs it again and again over its archive
(strong fairness of each `ReadStatus`, which the other documents can keep
disabling by occupying a worker), that a run once started ends (`RunsEnd`: `execute`
waits for nobody, so it answers, raises or dies), and that the process does not die
for ever. Observations, charts and the clock are under no fairness: they need not
happen. `FairSpec` of `Acquisition` says that a call that has begun goes on (weak fairness
of `Step`: the calls to the SAT and the file system return or raise, and a sleep ends) and
that time passes (weak fairness of `Passes`). The SAT may ask to be asked again for
ever: the deadline, not fairness, is what ends a call. `Fairness` of `Intake` is weak fairness of
`Work(r)`, what a run that was called does by itself: it ends, by an answer or by an exception that
`run` turns into a FAILED row. Nothing is assumed of callers, reviewers, faults, the clock, or of
others who may keep the lock: a run that waits for it gives up after the timeout of its
connection. `RunRowIsClosed` excepts what leaves a row RUNNING: a process that dies, and an
exception that is no `SatClientError` (of the library, of a locked database, of a struck
transaction or of its COMMIT), which `run` lets through. Only `EveryCallEnds`,
`CancelledPostingIsReversed`, `RunRowIsClosed` and `ResolvedDocumentEventuallyPosts`
depend on fairness.

## 4. Proofs

`PostingProofs` is about one decision, for every context, answer and chart.
`ProposalIdentity`: what the engine proposes is about the document it was asked
about (one lemma per family of rows). `PostedIsSound`: a decision is POSTED only if the
document is VIGENTE, and then it balances, is about that document, and resolves
every leg on the chart that versions it. The argument is that an empty set of
refusals makes each of the ten conditions true (`NoRefusal`), and that the
conversion to pesos touches amounts only (`ValuationIdentity`).

`AccountingProofs` is about the ledger, for any workers, projections,
observations, charts and bounds. `TypeCorrect`, `KeysAreUnique`,
`PostedOnItsChart` and `PostedAfterVigente` rest on one inductive invariant,
`IInv`. The properties themselves are not inductive: what is inserted was decided
earlier, on a status and a chart read earlier still. `IInv` therefore says of a
run under way what its reads are worth: a document in hand that is VIGENTE was
observed so (`SoundRead`), a POSTED decision is resolved by some chart and about a
source seen VIGENTE (`SoundDecision`), a record about to be inserted is sound
(`SoundRecord`). All of it is stable because observations only accrue
(`SoundStays`) and a chart version names one chart. `Insert` then keeps keys unique
because it looks at the key once more, as the primary key does.
`ImplementsTheLedger` shows that every step is an append to `AppendOnlyLedger` or a stutter.

`ReversalsMirrorPostings` and `OriginalsArePosted` need a second invariant, `BackedInv`:
each record rests on posted records of the ledger (`Backed`: a reversal mirrors one
of its own source, a payment or a note settles such), and so does the record of each
decision under way. A decision is backed by the ledger that was read
(`DecidedIsBacked`, with one lemma per rule that reads it), and stays so because the
ledger only grows (`BackedStays`). That argument does not work for a decision that rests on
the ledger *not* holding something: `SkipsOfAloneRun` therefore has the hypothesis that
there is one worker, and its invariant `SkipInv` says of that worker's decision what only
others could undo. Two concurrent runs do undo it.

Two theorems say which guards of the stage never fire. `LedgerIsBalanced`: every posted record
balances, and `_assert_balanced_for_commit`, which aborts an append that would not, aborts none;
`BalancedInv` carries the balance from the gate's refusal through the record to the
insert. `OnlyAmbiguityStopsARun`: a run raises over a reversal only where its client's
books hold two postings of the source, which differ in their rule, its version or the
chart's. A single posting is on the accounts of one chart (`SoundRecord`), so it has one account per role
(`PostedHasHistory`), and the two raises of `_historical_accounts` are never reached.

`PostingEngineProofs` is about the engine, for every context and chart. Its invariant
`IInv` says only that the verdict is the rules' answer put through the gate, about a
typed context. Each theorem then finds who answers (`WhoAnswers`: a claiming row,
the cancellation, or nobody) and follows that row from what it reads to the legs it writes. An income:
the net base, the IVA and the money leg add up, leg by leg, to what the document states
(`WholeDocumentIsBooked`). A payment complement writes the legs of each
related document of each payment, so that its total is a sum of sums
(`RepConservesCash`): the weight of a joined list is the sum of the weights of
its parts, by induction over the parts. `ReversalsComeToZero` is an induction over the
legs, `ForeignAtItsRate` goes through `ValueEntry` leg by leg, `NotesMirrorOriginals` and
`RowsNeverCompete` compare the rows of the tables.

`DecisionsAreRecordable` goes through every answer there is, the flagged ones
included. A list of legs is `Sound` when each leg moves a positive amount on one side
under a key of its own. Row by row: two or three legs of a document have constant keys
(`IncomeIsSound`, `NoteIsSound`); a reversal prefixes the keys of a posted record, and prefixed
keys differ where the keys do (`ReversalKeys`); the legs of a payment complement are keyed
by the place of their payment, of their document and of their role, so lists of different places
never meet (`KeysTellDoctosApart`) and a joined list is sound when its parts are and no two of them share a
key (`FlattenIsSound`, by the induction that joins the list). What the rules answer is
sound (`AnswersAreSound`), stays so in pesos (`ConvertedIsSound`: what rounds to
nothing is refused) and through the gate (`DecisionsAreSound`). Its hypothesis,
`"rule" \notin DOMAIN None`, says that the sentinel is not a record. A reversal reads a record of the
journal, which is assumed to be one (`PostedRecord`, in `ContextAssumption`);
`PostingsCanBeReversed` is the other half: whatever the engine posts has a record that meets
that assumption, so a journal that only it writes to never makes it fail.

`RecursionTheorems` is what those inductions rest on. The library states induction for an
operator parameter, which cannot be instantiated here; but a set of naturals has a
least element (`WFMin`), so `Inductive` states induction for a *set*, and
`Recursion` that a function defined by its first value and its step exists.
Hence what `SumAmounts`, `FlattenSeq`, the backoff's powers and the delays owed
return can be proved, since each is a recursive function and no `RECURSIVE` operator.

`JournalStoreProofs` is about any connections and records. Its invariant says that what a
transaction holds is the prefix of one append, of a key that no committed row
has (which the lock keeps until COMMIT), and that every committed key has all the rows of one
record; a transaction whose COMMIT has failed holds a whole append, so that whoever commits it
commits a whole record. `StoreTypes`, `NoPostingIsHalf`, `AcknowledgedStays` and `StoreImplementsLedger` follow, all
stated under `InterruptsMeetUnits`: an exception other than `IntegrityError` strikes only units of
work, which roll back. The code does not guarantee it, and `journal_store_interrupted` shows
what happens without (section 5).

`AcquisitionProofs` is about any replies, policy and packages. For the archive, the
invariant follows one ingestion: each step relies on the file that the step before it closed, and
a crash or an `OSError` may leave a file torn but takes none away (`EvidenceIsFirst`,
`WhatReturnsIsExtracted`, `EvidenceStaysWhole`). For the download it follows one execution: the
request polled is the one submitted, what is downloaded is a prefix of what a resolving answer
lists (`OutcomesAreResolved`), and the time slept is the sum of the delays so far, which
`PollsKeepTheirDistance` compares with the clock. `TimeoutIsHonoured` has the hypothesis
`NoOverflowInTime`: no power that the backoff computes within the timeout overflows. Without it
the claim fails (`acquisition_overflow`).

`OnboardingProofs` is about any number of onboardings next to any runs and
reviewers. `EvidenceIsRetained`, `VersionsAreWhole` and `RecordsAreImmutable` rest on
`OnboardingInv`, which says what a call may rely on at each step (`SoundCall`): once past the
store its original exists, once past the index it is indexed, and the version it is about to
save continues those of its client (`SoundRecord`). Another call may save that version first;
the parent row is then refused, so that in the transaction no profile has the call's
version, and the lock (`LockInv`) keeps it so until COMMIT. One lemma per phase
of a call (`ReadingStep`, `WritingStep`, `CommittingStep`, `EndingStep`).

`IntakeProofs` is about the process flow: `NothingFiledUnprofiled`,
`CompletedRunsFiled`, `FlagsOpenOnce`, `FlagsCloseOnce`, `NothingIsDatedBack`,
`IntakeTypes` and `IntakeImplementsDossier`. `IInv` adds to `OnboardingInv` what is on file
(`TablesInv`), what each run knows (`RunsInv`) and who has the lock (`RunLockInv`). Its heart is
`SoundFacts`: a run inside its transaction has, for each flag it has looked at, found it open or
an opening of its own to append, and no opening twice. That is about `flags`, which reviewers and other
runs change; it stays true because all of them need the lock the run has. `OpenStep` and
`CommitOpens` are the two steps where it counts. `IntakeImplementsDossier` maps the steps to those of
`Dossier`: COMMIT files a document with all its doubts open (`CommitFiles`), a closure takes one
away (`ClosureCloses`), nothing else shows (`OnlyCommitsFile`).

`OpenedDatabasesAreWhole` is about the migrations, for any number of processes, any version left
behind and any crash. The ladder is a list of statements joined from those of its versions
(`LadderHolds`). `SchemaInv` says that each opening has run the statements before its place in
the ladder, those of columns included (`SoundOpening`): the schema has their
tables, columns and guards, and keeps them because it only grows. So whoever reaches the stamp has
run all of them, whoever else was at it, and a version that was stamped before names what
is there already (`VersionsHold`).

Assumptions, and why the code justifies them:

* `Sentinels`: the sentinels are no amounts. `RateAssumption`: a provider answers a positive rate,
  or none (`Valuation` refuses others). `ContextAssumption`: the fields the rules read are `Decimal`s or
  absent, and lists are lists, as the dataclasses of `posting.py` declare them; a posted record of the
  journal has a source, legs that could be constructed, and one account per role
  (`PostedRecord`: the constructors of `journal.py` refuse others, `account_for` gives a role
  one account, and `PostingsCanBeReversed` proves it of what the engine posts).
* `ChartAssumption`: a version names one chart, and no role maps to an empty account.
  `ProjectionAssumption`: a projected document has a UUID, and no status was read for it yet.
  `DocumentAssumption`: a UUID is of one document, in whosever books (`documents` is keyed by it).
* `RecordsAssumption`: a record has a number of legs, which its content determines. `ModeAssumption`: a
  connection is in a unit of work or not.
* `ReplyAssumption`, `PackageAssumption`, `ContentAssumption`: a reply lists packages that have a
  content, which is a list of members.
* `ConstanciaAssumption`: a hash is of one content. `BatchAssumption`: a batch is a list.
  `ActorAssumption`: no actor is two. `NoneIsNoUuid`.
* `BoundsAssumption`, `DownloadBounds`, `ExtractionAssumption`, `PolicyAssumption`,
  `ClockAssumption`: bounds are numbers, and a policy is what its own constructor accepts.

TLC evaluates them on the instances it checks.

Only model-checked: liveness (`EveryCallEnds`, `CancelledPostingIsReversed`, `RunRowIsClosed`), which is out of
the prover's reach. Every other property of a passing run is a theorem.

## 5. Where the documentation and the code disagree

* `amounts.py:182`: a corrupt amount, "non-finite, zero or negative", is never
  posted. A negative `ImporteDR` of a payment is summed and its legs dropped
  (`reposting.py:586`, `:632`).
* `cancellation.py:98`: one source has one accounting fact. Re-run under a new
  chart, a posted document posts again, and can then not be reversed.
* `validator.py:416`: a document of unknown status waits for the metadata. Its
  refusal takes the key, and it never posts.
* `sqlite.py:1538`: any failure rolls back. Only `IntegrityError` does (`:1575`).
* `execute_download.py:103`: the poll loop honours the timeout. `backoff.py:23` computes
  `multiplier ** attempt` as a float before it caps it, and `2.0 ** 1024` is an
  `OverflowError`: with a `max_delay` under about 84 seconds it comes before the default
  24 hours are over.
* `process_documents.py:16-20`: bytes that are no CFDI are counted, and do not stop the
  batch. Only `XmlParseError` is counted (`:102`); what `satcfdi` raises on a document it
  does not know (`satcfdi_fiscal_parser.py:43`) ends the run, every time it is run.

Seen while modelling, and not the subject of a run: `5003` and `5011` are documented as
"partition the range" and "wait/resume" (`AGENT.md:153`), and both give the outcome of
a request that found nothing. `ingest_downloaded_package.py:6` calls the extraction
"independently re-runnable": after a write that failed half way it conflicts with its own
remnant (`extractor.py:72`). `test_m3_accounting_use_case.py:1094` has a retry that is a no-op: with a
clock that moves it is an `ImmutableRecordConflict` (`execute_accounting.py:181`). A request id is
saved in memory alone (`execute_download.py:84`), so a crash while polling forgets a request the
SAT has accepted; packages are ingested one after another (`client.py:72`), so one that raises leaves
the later ones undone. `SqliteUnitOfWork` turns its connection to autocommit (`transactions.py:39`).
A payment complement with a payment that names no related document, beside one that does, posts
the second and books the cash of the first nowhere, unflagged (`reposting.py:374` leaves it out of the
sum check, `:258` flags only a complement in which no payment names any), where `AGENT.md:199` has
the related amounts add up to each `Monto`; `PostedRepConservesCash` therefore sums the payments that
name a document.
A unit of work does not roll back when its COMMIT raises (`transactions.py:43`, `:50`): the caller
is told of a failure, and the next row it saves on that connection commits the unit.
`record` and `close_flag` leave their transaction open after an `IntegrityError`, and everybody else
with "database is locked". A constancia that a crash left torn is never written again
(`csf_sink.py:34`). A document is keyed by its UUID alone, so the one a second client
processes stays under the first (`sqlite.py:1127`). A zip that is there is never written again
(`filesystem_sink.py:33`), so one that a crash left torn, or without its
manifest, stays so; `EvidenceFirst` therefore says that evidence is there, not that it is whole.

## 6. Not modelled

How text becomes an amount, a date or an RFC: `FiscalReading` takes, for each text of a
document, that it converts or does not, and follows what the parser, the verifier and
the projector make of either. SOAP, HTTP, FIEL, the vault, YAML and PDF: conversions and
I/O around third-party libraries. The prose of flags, the evidence fields of a
conversion but its rate, and the policy version carry no behaviour. Fiscal events
(`fiscal_state.py`), and the stores of events, download jobs, cursors and the source
index, are called by nothing in the source: which calls they meet, and in what order, is
not there to be modelled. An operator who edits a chart without a new version is outside
`ChartAssumption`. `_require_an_answer_to_this_question` (`fx.py:247`) guards against a
provider that answers another question; the modelled provider does not. The COMMIT of a
store that commits by itself raises in two ways. The row of a run is one statement in
autocommit and is lost with its exception, as when the lock does not come (`Locked`). A
closure, or an onboarding's rows, would stay in an open transaction of their connection:
after `close_flag` and `record` only the lock stays in the model (`CloseRefused`,
`RecordRefused`), not the row, and that a later call commits such a row is left out. A
database with the schema of a newer program is an initial state (`Databases`) and no
step: the source has no such program, so what it would migrate, and when, is not there
to be modelled.

## 7. Plan

Done: the posting engine, the accounting stage, the journal store, the acquisition of
packages, the intake (migrations, onboarding, process flow, reviewers); the proofs of
every safety property that a run checks. Left:

1. The accounting stage over `JournalStore` instead of over a set: that the composition refines
   `Accounting` where only units of work are interrupted.
