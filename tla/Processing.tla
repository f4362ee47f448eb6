----------------------------- MODULE Processing ------------------------------
(***************************************************************************)
(* The process flow: ExecuteProcessUseCase.run for one client over a batch *)
(* of extracted artifacts, ProcessDocumentsUseCase.process document by     *)
(* document, one transaction each, and the reviewers who close the flags   *)
(* it opens.  Runs may overlap, start again under their own id, be struck  *)
(* by an exception inside a transaction, or die.  Translated from          *)
(* application/use_cases/process_client.py, process_documents.py,          *)
(* infrastructure/persistence/sqlite.py and transactions.py.               *)
(***************************************************************************)
EXTENDS Connections, FiscalReading, SequencesExt

CONSTANTS
    Runs,          \* run ids, one caller each
    Reviewers,     \* connections on which flags are closed
    Batches,       \* [client, artifacts] calls; an artifact is [name, stored, bytes]
    Interrupted,   \* the runs an exception may strike inside a transaction
    MaxFacts       \* bound on the review facts, in the callers' guards

\* SHA-256: equal hashes are equal bytes.
HashOf(bytes) == <<"sha256", bytes>>

\* What can be on file.
Rows ==
    [hash : {HashOf(a.bytes) : a \in UNION {Range(b.artifacts) : b \in Batches}},
     contributor : {b.client : b \in Batches},
     perspective : {"emitido", "recibido", "undetermined"},
     firstSeen : 0..MaxClock, lastSeen : 0..MaxClock, lastRun : Runs]

ASSUME BatchAssumption ==
    /\ \A b \in Batches : b.artifacts \in Seq(Range(b.artifacts))
    \* None stands for no call, no hash and no row
    /\ None \notin Batches \cup Rows
    /\ \A b \in Batches : \A a \in Range(b.artifacts) : HashOf(a.bytes) # None

VARIABLES
    documents,   \* per uuid, its row in documents, or None
    flags,       \* the rows of review_flags: flag_id is the position
    runs,        \* per run id, its row in pipeline_runs, or None
    run,         \* per run, how far its caller's call has come
    reviewer     \* per reviewer, the flag whose closure is looked up, or None

processingVars == <<documents, flags, runs, run, reviewer>>

\* A call that is not under way.
RunOver == {"idle", "returned", "raised", "dead"}

NoCounts == [parsed |-> 0, quarantined |-> 0, failed |-> 0, conflicted |-> 0]

NewCall(pc, request) ==
    [pc |-> pc, request |-> request, next |-> 1, counts |-> NoCounts, cause |-> None,
     now |-> None, row |-> None, flag |-> 1, facts |-> <<>>]

\* None requested: a call that is never made.
ProcessingInit(requests) ==
    /\ documents = [u \in Uuids |-> None]
    /\ flags = <<>>
    /\ runs = [r \in Runs |-> None]
    /\ run = [r \in Runs |-> NewCall("idle", requests[r])]
    /\ reviewer = [v \in Reviewers |-> None]

Client(r) == run[r].request.client
Artifacts(r) == run[r].request.artifacts
Artifact(r) == Artifacts(r)[run[r].next]
Projected(r) == ProjectDocument(Client(r), Artifact(r).bytes, Artifact(r).name)

Turn(r, call) == run' = [run EXCEPT ![r] = call]

GoOn(r, pc) == Turn(r, [run[r] EXCEPT !.pc = pc])

\* The call is over: nothing of its own is left of it.
EndWith(r, pc, cause) ==
    Turn(r, [NewCall(pc, run[r].request) EXCEPT !.cause = cause])

\* The exception leaves the call: the transaction, if any, is rolled back.
Surface(r, cause) ==
    /\ EndWith(r, "raised", cause)
    /\ Release(r)
    /\ UNCHANGED <<documents, flags, runs, reviewer>>

(******************************* The run row *******************************)

RunRow(status, failedStage, counts) ==
    [status |-> status, failedStage |-> failedStage, counts |-> counts]

\* The row is upserted and committed by itself.
SaveRun(r, row) == LockIsFree /\ runs' = [runs EXCEPT ![r] = row]

\* The attempt is recorded before it happens; a run may be called again.
Start(r) ==
    /\ run[r].pc \in RunOver /\ run[r].request # None
    /\ Len(flags) < MaxFacts
    /\ SaveRun(r, RunRow("RUNNING", None, NoCounts))
    /\ Turn(r, NewCall("profile", run[r].request))
    /\ UNCHANGED <<documents, flags, reviewer, writer>>

\* Mutant: the flow does not ask for a profile.
CheckProfileNever(r, hasProfile) ==
    /\ run[r].pc = "profile"
    /\ GoOn(r, "artifact")
    /\ UNCHANGED <<documents, flags, runs, reviewer, writer>>

\* The process flow requires a resolved profile.
CheckProfile(r, hasProfile) ==
    /\ run[r].pc = "profile"
    /\ GoOn(r, IF hasProfile THEN "artifact" ELSE "unprofiled")
    /\ UNCHANGED <<documents, flags, runs, reviewer, writer>>

CloseUnprofiled(r) ==
    /\ run[r].pc = "unprofiled"
    /\ SaveRun(r, RunRow("FAILED", "onboarding", NoCounts))
    /\ EndWith(r, "returned", None)
    /\ UNCHANGED <<documents, flags, reviewer, writer>>

\* Mutant: a document that is already recorded counts as done, whatever its bytes.
OutcomeOfAny(counts) ==
    IF counts.parsed + counts.conflicted > 0
    THEN RunRow("COMPLETED", None, counts) ELSE RunRow("FAILED", "fiscal", counts)

\* FAILED when nothing was parsed, an empty batch included.
Outcome(counts) ==
    IF counts.parsed > 0
    THEN RunRow("COMPLETED", None, counts) ELSE RunRow("FAILED", "fiscal", counts)

Close(r) ==
    /\ run[r].pc = "artifact" /\ run[r].next > Len(Artifacts(r))
    /\ SaveRun(r, Outcome(run[r].counts))
    /\ EndWith(r, "returned", None)
    /\ UNCHANGED <<documents, flags, reviewer, writer>>

\* A SatClientError: the row is closed as FAILED and the exception propagates.
Fail(r) ==
    /\ run[r].pc = "failing"
    /\ SaveRun(r, RunRow("FAILED", "fiscal", NoCounts))
    /\ EndWith(r, "raised", "store")
    /\ UNCHANGED <<documents, flags, reviewer, writer>>

(***************************** One document ********************************)

\* Mutant: the document is tried again.
CountAgain(r, outcome) ==
    Turn(r, [NewCall("artifact", run[r].request) EXCEPT
                !.next = run[r].next, !.counts = [run[r].counts EXCEPT ![outcome] = 1]])

\* The document is counted, and the batch goes on.
Count(r, outcome) ==
    Turn(r, [NewCall("artifact", run[r].request) EXCEPT
                !.next = run[r].next + 1, !.counts = [run[r].counts EXCEPT ![outcome] = @ + 1]])

AtArtifact(r) == run[r].pc = "artifact" /\ run[r].next <= Len(Artifacts(r))

\* ExtractionError: our copy is missing, or no longer what was recorded.
Unread(r) ==
    /\ AtArtifact(r) /\ ~ Artifact(r).stored
    /\ GoOn(r, "failing")
    /\ UNCHANGED <<documents, flags, runs, reviewer, writer>>

ParserFault(r) ==
    /\ AtArtifact(r) /\ Artifact(r).stored
    /\ Parse(Artifact(r).bytes) = "XmlParseError"
    /\ Count(r, "failed")
    /\ UNCHANGED <<documents, flags, runs, reviewer, writer>>

IsRead(r) == Artifact(r).stored /\ Parse(Artifact(r).bytes) = "read"

\* Every other exception of the parser or the projector surfaces.
Defect(r) ==
    /\ AtArtifact(r) /\ Artifact(r).stored
    /\ \/ Parse(Artifact(r).bytes) = "defect"
       \/ IsRead(r) /\ ~ Projects(Artifact(r).bytes)
    /\ Surface(r, "document")

Quarantine(r) ==
    /\ AtArtifact(r) /\ IsRead(r) /\ Projects(Artifact(r).bytes)
    /\ Projected(r).quarantine # "admitted"
    /\ Count(r, "quarantined")
    /\ UNCHANGED <<documents, flags, runs, reviewer, writer>>

\* The clock is read before the transaction begins.
Project(r) ==
    /\ AtArtifact(r) /\ IsRead(r) /\ Projects(Artifact(r).bytes)
    /\ Projected(r).quarantine = "admitted"
    /\ Turn(r, [run[r] EXCEPT !.pc = "begin", !.now = clock])
    /\ UNCHANGED <<documents, flags, runs, reviewer, writer>>

\* BEGIN IMMEDIATE takes the write lock up front.
BeginUnit(r) ==
    /\ run[r].pc = "begin" /\ LockIsFree
    /\ GoOn(r, "save") /\ writer' = r
    /\ UNCHANGED <<documents, flags, runs, reviewer>>

\* Mutant: a later save moves the row to its own instant.
ProjectionRowMoved(existing, r) ==
    [existing EXCEPT !.lastSeen = run[r].now, !.lastRun = r]

\* What the UPDATE of an existing row moves.
ProjectionRow(existing, r) ==
    [existing EXCEPT !.lastSeen = IF run[r].now > @ THEN run[r].now ELSE @, !.lastRun = r]

NewRow(r) ==
    [hash |-> HashOf(Artifact(r).bytes), contributor |-> Client(r),
     perspective |-> Projected(r).perspective,
     firstSeen |-> run[r].now, lastSeen |-> run[r].now, lastRun |-> r]

ClosuresOf(facts, id) == {i \in DOMAIN facts : facts[i].closes = id}

\* The openings no later row closes.
OpenFlags(facts, uuid) ==
    {i \in DOMAIN facts :
        facts[i].subject = uuid /\ facts[i].closes = None /\ ClosuresOf(facts, i) = {}}

OpenTypes(facts, uuid) == {facts[i].type : i \in OpenFlags(facts, uuid)}

Opening(r, type) ==
    [subject |-> Artifact(r).name, type |-> type, at |-> run[r].now, closes |-> None]

\* Inside the transaction: no one else sees the row yet.
SaveDocument(r) ==
    LET existing == documents[Artifact(r).name]
    IN  /\ run[r].pc = "save"
        /\ existing # None => existing.hash = HashOf(Artifact(r).bytes)
        /\ Turn(r, [run[r] EXCEPT !.pc = "open",
                !.row = IF existing = None THEN NewRow(r) ELSE ProjectionRow(existing, r)])
        /\ UNCHANGED <<documents, flags, runs, reviewer, writer>>

FlagsLeft(r) == run[r].flag <= Len(Projected(r).flags)

\* The next open flag of the document is appended, unless it is open already.
OpenFlag(r) ==
    LET type == Projected(r).flags[run[r].flag]
    IN  /\ run[r].pc = "open" /\ FlagsLeft(r)
        /\ Turn(r, [run[r] EXCEPT !.flag = @ + 1,
                !.facts = IF type \in OpenTypes(flags, Artifact(r).name) THEN @
                          ELSE Append(@, Opening(r, type))])
        /\ UNCHANGED <<documents, flags, runs, reviewer, writer>>

\* SourceHashConflict: the transaction is rolled back and the batch goes on.
Conflict(r) ==
    LET existing == documents[Artifact(r).name]
    IN  /\ run[r].pc = "save"
        /\ existing # None /\ existing.hash # HashOf(Artifact(r).bytes)
        /\ Count(r, "conflicted") /\ Release(r)
        /\ UNCHANGED <<documents, flags, runs, reviewer>>

\* The transaction holds the document and all its flags.
AtCommit(r) == run[r].pc = "open" /\ ~ FlagsLeft(r)

\* Its COMMIT has failed, and it is open still.
Uncommitted(r) == AtCommit(r) /\ run[r].cause = "commit"

\* What it holds becomes visible together.
CommitUnit(r) ==
    /\ documents' = [documents EXCEPT ![Artifact(r).name] = run[r].row]
    /\ flags' = flags \o run[r].facts
    /\ Release(r)

\* Mutant: the document is committed before its flags are.
CommitEarly(r) ==
    /\ AtCommit(r) /\ run[r].cause = None
    /\ documents' = [documents EXCEPT ![Artifact(r).name] = run[r].row]
    /\ IF documents[Artifact(r).name] = None THEN UNCHANGED <<flags, run, writer>>
       ELSE flags' = flags \o run[r].facts /\ Count(r, "parsed") /\ Release(r)
    /\ UNCHANGED <<runs, reviewer>>

\* COMMIT: the document and its flags.
Commit(r) ==
    /\ AtCommit(r) /\ run[r].cause = None
    /\ CommitUnit(r)
    /\ Count(r, "parsed")
    /\ UNCHANGED <<runs, reviewer>>

\* COMMIT itself raises, a reader having the database for too long: it is outside
\* the unit's try, so the exception leaves the run and its transaction stays open.
CommitFails(r) ==
    /\ r \in Interrupted
    /\ AtCommit(r) /\ run[r].cause = None
    /\ Turn(r, [run[r] EXCEPT !.cause = "commit"])
    /\ UNCHANGED <<documents, flags, runs, reviewer, writer>>

\* Called again with its transaction open, the run commits it with its own row.
StartOver(r) ==
    /\ Uncommitted(r)
    /\ Len(flags) < MaxFacts
    /\ CommitUnit(r)
    /\ runs' = [runs EXCEPT ![r] = RunRow("RUNNING", None, NoCounts)]
    /\ Turn(r, NewCall("profile", run[r].request))
    /\ UNCHANGED reviewer

(************************** The reviewers **********************************)

\* close_flag looks up the opening and its closure: the first closure is the fact.
LookUp(v, id) ==
    /\ reviewer[v] = None
    /\ Len(flags) < MaxFacts
    /\ id \in DOMAIN flags /\ flags[id].closes = None /\ ClosuresOf(flags, id) = {}
    /\ reviewer' = [reviewer EXCEPT ![v] = id]
    /\ UNCHANGED <<documents, flags, runs, run, writer>>

Closure(id) == [flags[id] EXCEPT !.closes = id, !.at = clock]

\* Mutant: nothing in the database refuses a second closure.
CloseFlagUnchecked(v) ==
    /\ reviewer[v] # None /\ ~ LockedOut(v)
    /\ flags' = Append(flags, Closure(reviewer[v]))
    /\ reviewer' = [reviewer EXCEPT ![v] = None]
    /\ Release(v)
    /\ UNCHANGED <<documents, runs, run>>

\* INSERT and COMMIT, the latter of an earlier open transaction too.
CloseFlag(v) ==
    /\ reviewer[v] # None /\ ~ LockedOut(v)
    /\ ClosuresOf(flags, reviewer[v]) = {}
    /\ flags' = Append(flags, Closure(reviewer[v]))
    /\ reviewer' = [reviewer EXCEPT ![v] = None]
    /\ Release(v)
    /\ UNCHANGED <<documents, runs, run>>

\* UNIQUE(closes_flag_id) refuses a second closure: IntegrityError, and the
\* driver's transaction stays open on the reviewer's connection.
CloseRefused(v) ==
    /\ reviewer[v] # None /\ LockIsFree
    /\ ClosuresOf(flags, reviewer[v]) # {}
    /\ reviewer' = [reviewer EXCEPT ![v] = None]
    /\ writer' = v
    /\ UNCHANGED <<documents, flags, runs, run>>

\* The lock did not come, or the reviewer gives up the connection.
Disconnect(v) ==
    /\ writer = v \/ (reviewer[v] # None /\ LockedOut(v))
    /\ reviewer' = [reviewer EXCEPT ![v] = None]
    /\ Release(v)
    /\ UNCHANGED <<documents, flags, runs, run>>

(*************************** What goes wrong *******************************)

\* The lock did not come in time: OperationalError, which is no SatClientError.
Locked(r) ==
    /\ \/ run[r].pc \in {"unprofiled", "failing", "begin"}
       \/ run[r].pc = "artifact" /\ run[r].next > Len(Artifacts(r))
    /\ LockedOut(r)
    /\ Surface(r, "locked")

\* Any exception inside the transaction: a full disk, an interrupt.
Strike(r) ==
    /\ r \in Interrupted /\ run[r].pc \in {"save", "open"} /\ ~ Uncommitted(r)
    /\ Surface(r, "interrupt")

RunDies(r) ==
    /\ run[r].pc \notin RunOver
    /\ EndWith(r, "dead", None) /\ Release(r)
    /\ UNCHANGED <<documents, flags, runs, reviewer>>

RunStep(r) ==
    \/ CloseUnprofiled(r) \/ Close(r) \/ Fail(r)
    \/ Unread(r) \/ ParserFault(r) \/ Defect(r) \/ Quarantine(r) \/ Project(r)
    \/ BeginUnit(r) \/ SaveDocument(r) \/ OpenFlag(r) \/ Conflict(r) \/ Commit(r)
    \/ Locked(r)
=============================================================================
