----------------------------- MODULE Onboarding ------------------------------
(***************************************************************************)
(* OnboardContributorUseCase.onboard: the constancia is retained on disk,  *)
(* indexed by its hash, parsed, checked against the client, and becomes    *)
(* the next version of the client's profile.  Several onboardings may run  *)
(* at once, on connections of their own; any may die at any step.          *)
(* Translated from application/use_cases/onboard_contributor.py,           *)
(* fiscal/identity.py, fiscal/onboarding.py, infrastructure/source/        *)
(* csf_sink.py and the stores of infrastructure/persistence/sqlite.py.     *)
(*                                                                         *)
(* A constancia is its hash, whether it can be read, whose it is, the      *)
(* facts it states and its number of obligations.                          *)
(***************************************************************************)
EXTENDS Connections

CONSTANTS
    Onboardings,    \* concurrent calls of onboard
    Constancias     \* [client, cert, csf] calls: csf is [sha, readable, rfc, facts, obligations]

ASSUME ConstanciaAssumption ==
    /\ None \notin Constancias
    /\ \A call \in Constancias :
          call.csf.obligations \in Nat /\ call.csf.sha # None
    \* the hash is of the content
    /\ \A a, b \in Constancias : a.csf.sha = b.csf.sha => a.csf = b.csf

VARIABLES
    originals,     \* per hash, the file of the constancia: absent, torn or whole
    csfArtifacts,  \* per hash, the instant it was indexed at, or None
    profiles,      \* the rows of contributor_profiles
    obligaciones,  \* the rows of profile_obligaciones
    onboarding     \* per call, how far it has come

onboardingVars == <<originals, csfArtifacts, profiles, obligaciones, onboarding>>

Hashes == {call.csf.sha : call \in Constancias}
Clients == {call.client : call \in Constancias}

\* Before the call, or after it: nothing of it runs.
OnboardingOver ==
    {"idle", "onboarded", "unchanged", "mismatch", "raised", "dead"}

Call(pc, request) ==
    [pc |-> pc, request |-> request, at |-> None, latest |-> None, record |-> None]

ObligationRows(record, csf) ==
    {[client |-> record.client, version |-> record.version, ordinal |-> n] :
        n \in 1..csf.obligations}

FirstVersion(call) ==
    [client |-> call.client, version |-> 1, csf |-> call.csf.sha, facts |-> call.csf.facts,
     at |-> 0]

\* What is on record of the calls that were confirmed before; None requested
\* is a call that is never made.
OnboardingInit(confirmed, requests) ==
    /\ originals = [h \in Hashes |->
            IF \E call \in confirmed : call.csf.sha = h THEN "whole" ELSE "absent"]
    /\ csfArtifacts = [h \in Hashes |->
            IF \E call \in confirmed : call.csf.sha = h THEN 0 ELSE None]
    /\ profiles = {FirstVersion(call) : call \in confirmed}
    /\ obligaciones = UNION {ObligationRows(FirstVersion(call), call.csf) : call \in confirmed}
    /\ onboarding = [o \in Onboardings |-> Call("idle", requests[o])]

Csf(o) == onboarding[o].request.csf
Sha(o) == Csf(o).sha

Become(o, call) == onboarding' = [onboarding EXCEPT ![o] = call]

GoTo(o, pc) == Become(o, [onboarding[o] EXCEPT !.pc = pc])

\* The call is over: nothing of its own is left of it.
EndAs(o, pc) == Become(o, Call(pc, onboarding[o].request))

\* The exception leaves onboard; the connection goes with the caller's process.
Raise(o) == EndAs(o, "raised") /\ Release(o)

(**************************** The evidence *********************************)

Begin(o) ==
    /\ onboarding[o].pc = "idle" /\ onboarding[o].request # None
    /\ GoTo(o, "store")
    /\ UNCHANGED <<originals, csfArtifacts, profiles, obligaciones, writer>>

\* store: a file of that name, whatever is in it, is the constancia.
StoreFound(o) ==
    /\ onboarding[o].pc = "store" /\ originals[Sha(o)] # "absent"
    /\ Become(o, [onboarding[o] EXCEPT !.pc = "index", !.at = clock])
    /\ UNCHANGED <<originals, csfArtifacts, profiles, obligaciones, writer>>

\* Mutant: the original is indexed before it is kept.
StoreMissingLater(o) ==
    /\ onboarding[o].pc = "store" /\ originals[Sha(o)] = "absent"
    /\ Become(o, [onboarding[o] EXCEPT !.pc = "index", !.at = clock])
    /\ UNCHANGED <<originals, csfArtifacts, profiles, obligaciones, writer>>

StoreMissing(o) ==
    /\ onboarding[o].pc = "store" /\ originals[Sha(o)] = "absent"
    /\ GoTo(o, "open")
    /\ UNCHANGED <<originals, csfArtifacts, profiles, obligaciones, writer>>

\* write_bytes truncates, then writes.
WriteOpen(o) ==
    /\ onboarding[o].pc = "open"
    /\ originals' = [originals EXCEPT ![Sha(o)] = "torn"]
    /\ GoTo(o, "write")
    /\ UNCHANGED <<csfArtifacts, profiles, obligaciones, writer>>

WriteAll(o) ==
    /\ onboarding[o].pc = "write"
    /\ originals' = [originals EXCEPT ![Sha(o)] = "whole"]
    /\ Become(o, [onboarding[o] EXCEPT !.pc = "index", !.at = clock])
    /\ UNCHANGED <<csfArtifacts, profiles, obligaciones, writer>>

\* An OSError half way: a full disk.
WriteFails(o) ==
    /\ onboarding[o].pc = "write"
    /\ Raise(o)
    /\ UNCHANGED <<originals, csfArtifacts, profiles, obligaciones>>

\* get: a hash already on record keeps the instant it was recorded at.
IndexGet(o) ==
    /\ onboarding[o].pc = "index"
    /\ Become(o, [onboarding[o] EXCEPT !.pc = "record",
            !.at = IF csfArtifacts[Sha(o)] = None THEN @ ELSE csfArtifacts[Sha(o)]])
    /\ UNCHANGED <<originals, csfArtifacts, profiles, obligaciones, writer>>

\* record: the identical row is a no-op, another one a conflict.
RecordSame(o) ==
    /\ onboarding[o].pc = "record" /\ csfArtifacts[Sha(o)] = onboarding[o].at
    /\ GoTo(o, "parse")
    /\ UNCHANGED <<originals, csfArtifacts, profiles, obligaciones, writer>>

RecordConflict(o) ==
    /\ onboarding[o].pc = "record"
    /\ csfArtifacts[Sha(o)] \notin {None, onboarding[o].at}
    /\ Raise(o)
    /\ UNCHANGED <<originals, csfArtifacts, profiles, obligaciones>>

RecordMissing(o) ==
    /\ onboarding[o].pc = "record" /\ csfArtifacts[Sha(o)] = None
    /\ GoTo(o, "insert")
    /\ UNCHANGED <<originals, csfArtifacts, profiles, obligaciones, writer>>

\* Mutant: INSERT OR REPLACE.
RecordReplace(o) ==
    /\ onboarding[o].pc = "insert" /\ LockIsFree
    /\ csfArtifacts' = [csfArtifacts EXCEPT ![Sha(o)] = onboarding[o].at]
    /\ GoTo(o, "parse")
    /\ UNCHANGED <<originals, profiles, obligaciones, writer>>

RecordInsert(o) ==
    /\ onboarding[o].pc = "insert" /\ LockIsFree
    /\ csfArtifacts[Sha(o)] = None
    /\ csfArtifacts' = [csfArtifacts EXCEPT ![Sha(o)] = onboarding[o].at]
    /\ GoTo(o, "parse")
    /\ UNCHANGED <<originals, profiles, obligaciones, writer>>

\* Another call indexed the hash since: IntegrityError.  The driver's
\* transaction stays open until the connection goes.
RecordRefused(o) ==
    /\ onboarding[o].pc = "insert" /\ LockIsFree
    /\ csfArtifacts[Sha(o)] # None
    /\ GoTo(o, "stranded") /\ writer' = o
    /\ UNCHANGED <<originals, csfArtifacts, profiles, obligaciones>>

(**************************** The profile **********************************)

\* CsfParseError: the evidence is kept, nothing is claimed of it.
ParseFails(o) ==
    /\ onboarding[o].pc = "parse" /\ ~ Csf(o).readable
    /\ Raise(o)
    /\ UNCHANGED <<originals, csfArtifacts, profiles, obligaciones>>

\* check_three_way_rfc: the folder, the certificate and the constancia.
IdentityMatches(call) ==
    call.client = call.cert /\ call.client = call.csf.rfc /\ call.cert = call.csf.rfc

Mismatch(o) ==
    /\ onboarding[o].pc = "parse" /\ Csf(o).readable
    /\ ~ IdentityMatches(onboarding[o].request)
    /\ EndAs(o, "mismatch")
    /\ UNCHANGED <<originals, csfArtifacts, profiles, obligaciones, writer>>

VersionsOf(client) == {p.version : p \in {q \in profiles : q.client = client}}

Latest(client) ==
    IF VersionsOf(client) = {} THEN None
    ELSE CHOOSE p \in profiles :
            p.client = client /\ \A v \in VersionsOf(client) : v <= p.version

\* The latest version with its obligations, as it is read back.
ReadLatest(o) ==
    /\ onboarding[o].pc = "parse" /\ Csf(o).readable
    /\ IdentityMatches(onboarding[o].request)
    /\ Become(o, [onboarding[o] EXCEPT !.pc = "decide",
                                       !.latest = Latest(onboarding[o].request.client)])
    /\ UNCHANGED <<originals, csfArtifacts, profiles, obligaciones, writer>>

\* Same source and same profile.  The stored profile is the one of its source.
IsUnchanged(o) ==
    /\ onboarding[o].latest # None
    /\ onboarding[o].latest.csf = Sha(o)
    /\ onboarding[o].latest.facts = Csf(o).facts

Unchanged(o) ==
    /\ onboarding[o].pc = "decide" /\ IsUnchanged(o)
    /\ EndAs(o, "unchanged")
    /\ UNCHANGED <<originals, csfArtifacts, profiles, obligaciones, writer>>

NextVersion(o) ==
    IF onboarding[o].latest = None THEN 1 ELSE onboarding[o].latest.version + 1

Confirm(o) ==
    /\ onboarding[o].pc = "decide" /\ ~ IsUnchanged(o)
    /\ Become(o, [onboarding[o] EXCEPT !.pc = "save",
            !.record = [client |-> onboarding[o].request.client, version |-> NextVersion(o),
                        csf |-> Sha(o), facts |-> Csf(o).facts, at |-> clock]])
    /\ UNCHANGED <<originals, csfArtifacts, profiles, obligaciones, writer>>

SameVersion(p, q) == p.client = q.client /\ p.version = q.version

Saved(o) == {p \in profiles : SameVersion(p, onboarding[o].record)}

\* save: an identical version is a no-op, another one under its number a conflict.
SaveSame(o) ==
    /\ onboarding[o].pc = "save" /\ Saved(o) = {onboarding[o].record}
    /\ EndAs(o, "onboarded")
    /\ UNCHANGED <<originals, csfArtifacts, profiles, obligaciones, writer>>

SaveConflict(o) ==
    /\ onboarding[o].pc = "save" /\ Saved(o) \notin {{}, {onboarding[o].record}}
    /\ Raise(o)
    /\ UNCHANGED <<originals, csfArtifacts, profiles, obligaciones>>

SaveMissing(o) ==
    /\ onboarding[o].pc = "save" /\ Saved(o) = {}
    /\ GoTo(o, "parent")
    /\ UNCHANGED <<originals, csfArtifacts, profiles, obligaciones, writer>>

\* The parent row opens the driver's transaction, not yet visible to anyone.
SaveParent(o) ==
    /\ onboarding[o].pc = "parent" /\ LockIsFree
    /\ Saved(o) = {}
    /\ GoTo(o, "children") /\ writer' = o
    /\ UNCHANGED <<originals, csfArtifacts, profiles, obligaciones>>

\* Another call saved that version since: IntegrityError, and save rolls back.
SaveRefused(o) ==
    /\ onboarding[o].pc = "parent" /\ LockIsFree
    /\ Saved(o) # {}
    /\ Raise(o)
    /\ UNCHANGED <<originals, csfArtifacts, profiles, obligaciones>>

\* Mutant: the parent row is committed, the obligations follow.
SaveParentAlone(o) ==
    /\ onboarding[o].pc = "children"
    /\ IF onboarding[o].record \in profiles
       THEN /\ obligaciones' = obligaciones \cup ObligationRows(onboarding[o].record, Csf(o))
            /\ EndAs(o, "onboarded") /\ Release(o)
            /\ UNCHANGED profiles
       ELSE /\ profiles' = profiles \cup {onboarding[o].record}
            /\ UNCHANGED <<obligaciones, onboarding, writer>>
    /\ UNCHANGED <<originals, csfArtifacts>>

\* The obligations, then COMMIT: parent and children become visible together.
SaveCommit(o) ==
    /\ onboarding[o].pc = "children"
    /\ profiles' = profiles \cup {onboarding[o].record}
    /\ obligaciones' = obligaciones \cup ObligationRows(onboarding[o].record, Csf(o))
    /\ EndAs(o, "onboarded") /\ Release(o)
    /\ UNCHANGED <<originals, csfArtifacts>>

(*************************** What goes wrong *******************************)

\* The lock did not come in time: OperationalError.
OnboardingLocked(o) ==
    /\ onboarding[o].pc \in {"insert", "parent"} /\ LockedOut(o)
    /\ Raise(o)
    /\ UNCHANGED <<originals, csfArtifacts, profiles, obligaciones>>

\* An exception between the rows of the profile: save rolls back.
SaveInterrupted(o) ==
    /\ onboarding[o].pc = "children"
    /\ Raise(o)
    /\ UNCHANGED <<originals, csfArtifacts, profiles, obligaciones>>

\* The stranded caller gives its connection up.
Leave(o) ==
    /\ onboarding[o].pc = "stranded"
    /\ Raise(o)
    /\ UNCHANGED <<originals, csfArtifacts, profiles, obligaciones>>

OnboardingDies(o) ==
    /\ onboarding[o].pc \notin OnboardingOver
    /\ EndAs(o, "dead") /\ Release(o)
    /\ UNCHANGED <<originals, csfArtifacts, profiles, obligaciones>>

OnboardingStep(o) ==
    \/ Begin(o)
    \/ StoreFound(o) \/ StoreMissing(o) \/ WriteOpen(o) \/ WriteAll(o) \/ WriteFails(o)
    \/ IndexGet(o) \/ RecordSame(o) \/ RecordConflict(o) \/ RecordMissing(o)
    \/ RecordInsert(o) \/ RecordRefused(o)
    \/ ParseFails(o) \/ Mismatch(o) \/ ReadLatest(o) \/ Unchanged(o) \/ Confirm(o)
    \/ SaveSame(o) \/ SaveConflict(o) \/ SaveMissing(o) \/ SaveParent(o)
    \/ SaveRefused(o) \/ SaveCommit(o)
    \/ OnboardingLocked(o) \/ SaveInterrupted(o) \/ Leave(o)
=============================================================================
