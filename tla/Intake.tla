------------------------------- MODULE Intake --------------------------------
(***************************************************************************)
(* Onboarding and the process flow over one database, which each process   *)
(* opens, and migrates, before it is used: a run processes the documents   *)
(* of a client only once an onboarding has resolved the client's profile,  *)
(* and all of them compete for the write lock.                             *)
(***************************************************************************)
EXTENDS Schema, Onboarding, Processing

ASSUME ActorAssumption ==
    /\ Onboardings \cap Runs = {} /\ Onboardings \cap Reviewers = {} /\ Runs \cap Reviewers = {}
    /\ None \notin Onboardings \cup Runs \cup Reviewers
    /\ Processes = Onboardings \cup Runs
    /\ None \notin Uuids
    /\ MaxFacts \in Nat

vars == <<connectionVars, schemaVars, onboardingVars, processingVars>>

\* The database as it was left, the profiles that were confirmed before, and
\* the calls to come.
InitWith(left, stamped, begun, confirmed, calls, batches) ==
    /\ ConnectionInit
    /\ SchemaInit(left, stamped, begun)
    /\ OnboardingInit(confirmed, calls)
    /\ ProcessingInit(batches)

\* One constancia per client was confirmed, by a call that succeeds.
Confirmed ==
    {calls \in SUBSET {call \in Constancias : call.csf.readable /\ IdentityMatches(call)} :
        \A a, b \in calls : a.client = b.client => a = b}

\* No program stamped version 1; a newer one may have stamped 7.
Databases == {<<0, 0>>, <<1, 0>>, <<6, 7>>} \cup {<<v, v>> : v \in 2..SCHEMA_VERSION}

\* Who has opened the database found, or left, a complete one; profiles are
\* there since version 3.
Init ==
    \E database \in Databases, begun \in [Processes -> {"closed", "open", "away"}],
       confirmed \in Confirmed, calls \in [Onboardings -> Constancias \cup {None}],
       batches \in [Runs -> Batches \cup {None}] :
          /\ (\E p \in Processes : begun[p] = "open") => database[1] = SCHEMA_VERSION
          /\ confirmed # {} => database[1] >= 3
          /\ InitWith(database[1], database[2], begun, confirmed, calls, batches)

HasProfile(client) == VersionsOf(client) # {}

CheckProfileOf(r) == run[r].request # None /\ CheckProfile(r, HasProfile(Client(r)))

OpenDatabase(p) == Open(p) /\ UNCHANGED <<connectionVars, onboardingVars, processingVars>>

Onboard(o) == IsOpen(o) /\ OnboardingStep(o) /\ UNCHANGED <<clock, schemaVars, processingVars>>

Work(r) == (CheckProfileOf(r) \/ RunStep(r)) /\ UNCHANGED <<clock, schemaVars, onboardingVars>>

\* The callers: a run is started, or started again; a flag is closed.
Demand ==
    /\ \/ \E r \in Runs : IsOpen(r) /\ (Start(r) \/ StartOver(r))
       \/ \E v \in Reviewers : \E id \in DOMAIN flags : LookUp(v, id)
       \/ \E v \in Reviewers : CloseFlag(v) \/ CloseRefused(v)
    /\ UNCHANGED <<clock, schemaVars, onboardingVars>>

Relinquish ==
    \E v \in Reviewers : Disconnect(v) /\ UNCHANGED <<clock, schemaVars, onboardingVars>>

Fault ==
    \/ \E p \in Processes :
          OpeningDies(p) /\ UNCHANGED <<connectionVars, onboardingVars, processingVars>>
    \/ \E o \in Onboardings :
          OnboardingDies(o) /\ UNCHANGED <<clock, schemaVars, processingVars>>
    \/ \E r \in Runs :
          (Strike(r) \/ CommitFails(r) \/ RunDies(r)) /\ UNCHANGED <<clock, schemaVars, onboardingVars>>

Passes == Tick /\ UNCHANGED <<schemaVars, onboardingVars, processingVars>>

Next ==
    \/ \E p \in Processes : OpenDatabase(p)
    \/ \E o \in Onboardings : Onboard(o)
    \/ \E r \in Runs : Work(r)
    \/ Demand \/ Relinquish \/ Fault \/ Passes

Spec == Init /\ [][Next]_vars

\* A run that has begun goes on.  Nothing is assumed of who calls, of the
\* faults, of the clock, or of the others, who may keep the lock for ever.
Fairness == \A r \in Runs : WF_vars(Work(r))

FairSpec == Spec /\ Fairness

-----------------------------------------------------------------------------
(***************************** Properties **********************************)

TypeOK ==
    /\ writer \in Onboardings \cup Runs \cup Reviewers \cup {None}
    /\ clock \in 0..MaxClock
    /\ originals \in [Hashes -> {"absent", "torn", "whole"}]
    /\ csfArtifacts \in [Hashes -> (0..MaxClock) \cup {None}]
    /\ \A u \in Uuids : documents[u] # None => documents[u].firstSeen <= documents[u].lastSeen
    /\ \A i \in DOMAIN flags : flags[i].closes = None \/ flags[i].closes \in 1..i - 1
    /\ \A r \in Runs : (writer = r) = (run[r].pc \in {"save", "open"})
    /\ \A o \in Onboardings : (writer = o) = (onboarding[o].pc \in {"children", "stranded"})

\* Two runs over one document, or a run and a reviewer: a document never has
\* two open flags of one type (process_documents.py:28-30).
OneOpenFlagPerType ==
    \A u \in Uuids : \A i, j \in OpenFlags(flags, u) :
        flags[i].type = flags[j].type => i = j

\* Two reviewers who close one flag record one closure (sqlite.py:1361-1363).
ClosedOnce == \A i \in DOMAIN flags : Cardinality(ClosuresOf(flags, i)) <= 1

\* A document is filed with all its flags or not at all; a conflict, an
\* exception or a crash leaves neither (process_documents.py:128-139).
ClientsOfBatches == {b.client : b \in Batches}

\* What the fiscal stage doubts of a document, for the client it is read for.
DoubtsOf(client, hash) == Range(ProjectDocument(client, hash[2], NONE).flags)

D == INSTANCE Dossier WITH
        Clients <- ClientsOfBatches,
        Doubts <- DoubtsOf,
        filed <- [u \in Uuids |-> IF documents[u] = None THEN None ELSE documents[u].hash],
        open <- [u \in Uuids |-> OpenTypes(flags, u)]

ImplementsDossier == D!Spec

\* A run that overtakes another never dates a document back: the clocks are
\* read before the transactions begin (sqlite.py:1127-1134).
LastSeenNeverGoesBack ==
    [][\A u \in Uuids :
          documents[u] # None =>
              /\ documents'[u].firstSeen = documents[u].firstSeen
              /\ documents'[u].lastSeen >= documents[u].lastSeen]_documents

\* The process flow requires a resolved profile: no document of a client is
\* filed before one (process_client.py:34-38).
FiledAfterOnboarding ==
    \A u \in Uuids : documents[u] # None => HasProfile(documents[u].contributor)

\* What a COMPLETED row says of its run is so: at least one of its documents
\* is on file under the very bytes it was given (process_client.py:24-28).
CompletedRunFiled ==
    \A r \in Runs :
        (runs[r] # None /\ runs[r].status = "COMPLETED") =>
            \E a \in Range(Artifacts(r)) :
                /\ a.name \in Uuids /\ documents[a.name] # None
                /\ documents[a.name].hash = HashOf(a.bytes)

\* Versions of a profile are consecutive and each is there with all its
\* obligations, whatever onboardings race or die (sqlite.py:1233-1239).
ProfilesAreWhole ==
    /\ \A p, q \in profiles : SameVersion(p, q) => p = q
    /\ \A p \in profiles : p.version = 1 \/ p.version - 1 \in VersionsOf(p.client)
    /\ \A p \in profiles : \A call \in Constancias :
          call.csf.sha = p.csf =>
              Cardinality({row \in obligaciones : SameVersion(row, p)}) = call.csf.obligations
    /\ \A row \in obligaciones : \E p \in profiles : SameVersion(row, p)

\* A confirmed version is never edited, an indexed original never repointed
\* nor dated again (onboard_contributor.py:128-138, :163-168).
OnboardingIsImmutable ==
    [][/\ profiles \subseteq profiles' /\ obligaciones \subseteq obligaciones'
       /\ \A h \in Hashes : csfArtifacts[h] # None => csfArtifacts'[h] = csfArtifacts[h]]_vars

\* The audit chain: profile, then the index, then a file (onboard_contributor.py:144-150).
RetainedFirst ==
    /\ \A p \in profiles : csfArtifacts[p.csf] # None
    /\ \A h \in Hashes : csfArtifacts[h] # None => originals[h] # "absent"

\* Whatever was left, whoever else migrates and whenever one of them died: a
\* stamped database, and one that init_schema returned for, has every table,
\* column and guard (sqlite.py:762-783).
OpenedIsComplete ==
    (version >= SCHEMA_VERSION \/ \E p \in Processes : IsOpen(p)) => Complete \subseteq schema

IsRunning(r) == runs[r] # None /\ runs[r].status = "RUNNING"

\* A row does not stay RUNNING: the run closes it, unless a crash or an
\* exception that is no SatClientError keeps it from doing so.
RunRowIsClosed ==
    \A r \in Runs :
        IsRunning(r) ~>
            \/ ~ IsRunning(r)
            \/ run[r].pc = "dead"
            \/ run[r].pc = "raised" /\ run[r].cause \in {"document", "locked", "interrupt"}
            \/ Uncommitted(r)
=============================================================================
