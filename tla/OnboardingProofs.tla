--------------------------- MODULE OnboardingProofs ---------------------------
(***************************************************************************)
(* The onboardings of any number of clients, in any number of calls at     *)
(* once, next to the runs and the reviewers: what is on record of them.    *)
(* The inductive invariant says of a call what it may rely on at each      *)
(* step, which no other call, no run and no crash takes away: nothing that *)
(* is kept or indexed goes again, and the lock keeps the others out        *)
(* between the parent row of a profile and its COMMIT.                     *)
(***************************************************************************)
EXTENDS Intake, TLAPS, FiniteSetTheorems

(*************************** The invariant *********************************)

AfterStore == {"index", "record", "insert", "stranded"}
Saving == {"save", "parent", "children"}
AfterIndex == {"parse", "decide"} \cup Saving
Working == {"store", "open", "write"} \cup AfterStore \cup AfterIndex

\* The version a call would save continues those of its client.
SoundRecord(record, request) ==
    /\ record.client = request.client /\ record.csf = request.csf.sha
    /\ record.version \in Nat \ {0}
    /\ record.version = 1 \/ record.version - 1 \in VersionsOf(request.client)

SoundCall(call) ==
    /\ DOMAIN call = {"pc", "request", "at", "latest", "record"}
    /\ call.pc \in OnboardingOver \cup Working
    /\ call.request \in Constancias \cup {None}
    /\ call.pc \in Working => call.request # None
    /\ call.pc \in AfterStore \cup AfterIndex => originals[call.request.csf.sha] # "absent"
    /\ call.pc \in AfterStore => call.at \in 0..MaxClock
    /\ call.pc \in AfterIndex => csfArtifacts[call.request.csf.sha] # None
    /\ call.pc = "decide" =>
          \/ call.latest = None
          \/ call.latest \in profiles /\ call.latest.client = call.request.client
    /\ call.pc \in Saving => SoundRecord(call.record, call.request)
    /\ call.pc = "children" => \A p \in profiles : ~ SameVersion(p, call.record)

SoundCalls ==
    /\ onboarding = [o \in Onboardings |-> onboarding[o]]
    /\ \A o \in Onboardings : SoundCall(onboarding[o])

EvidenceInv ==
    /\ clock \in 0..MaxClock
    /\ originals \in [Hashes -> {"absent", "torn", "whole"}]
    /\ csfArtifacts \in [Hashes -> (0..MaxClock) \cup {None}]

\* A call in the middle of its transaction has the lock.
LockInv == \A o \in Onboardings : (writer = o) = (onboarding[o].pc \in {"children", "stranded"})

ProfileInv ==
    /\ \A p \in profiles : p.csf \in Hashes
    /\ \E n \in Nat : \A p \in profiles : p.version \in 1..n

StoresInv == EvidenceInv /\ SoundCalls /\ ProfileInv /\ RetainedFirst /\ ProfilesAreWhole

OnboardingInv == StoresInv /\ LockInv

(*************************** The operators *********************************)

\* A constancia states as many obligations as it brings rows.
LEMMA CountOfRows ==
    ASSUME NEW record, NEW csf, csf.obligations \in Nat
    PROVE  Cardinality(ObligationRows(record, csf)) = csf.obligations
<1> DEFINE n == csf.obligations
           row(i) == [client |-> record.client, version |-> record.version, ordinal |-> i]
           rows == ObligationRows(record, csf)
           f == [i \in 1..n |-> row(i)]
<1>1. rows = {row(i) : i \in 1..n}
  BY DEF ObligationRows
<1>2. f \in [1..n -> rows]
  BY <1>1
<1>3. \A i, j \in 1..n : f[i] = f[j] => i = j
  <2>1. \A i \in 1..n : f[i].ordinal = i
    OBVIOUS
  <2>2. QED
    BY <2>1
<1>4. \A x \in rows : \E i \in 1..n : f[i] = x
  BY <1>1
<1>5. f \in Bijection(1..n, rows)
  <2> HIDE DEF f, rows
  <2>1. f \in Injection(1..n, rows)
    BY <1>2, <1>3 DEF Injection, IsInjective
  <2>2. f \in Surjection(1..n, rows)
    BY <1>2, <1>4 DEF Surjection
  <2>3. QED
    BY <2>1, <2>2 DEF Bijection
<1>6. ExistsBijection(1..n, rows)
  BY <1>5 DEF ExistsBijection
<1>7. QED
  BY <1>6, FS_CountingElements

\* A bounded non-empty set of naturals has a greatest element.
LEMMA GreatestExists ==
    ASSUME NEW n \in Nat, NEW S \in SUBSET (1..n), S # {}
    PROVE  \E m \in S : \A s \in S : s <= m
<1> DEFINE T == {n - s : s \in S}
<1>1. T \subseteq Nat /\ T # {}
  <2>1. \A s \in S : n - s \in Nat
    OBVIOUS
  <2>2. QED
    BY <2>1
<1>2. PICK t \in T : \A u \in T : ~ (u < t)
  <2> HIDE DEF T
  <2>1. \E t \in T : \A u \in T : ~ (<<u, t>> \in OpToRel(<, Nat))
    BY <1>1, WFMin, NatLessThanWellFounded, Zenon
  <2>2. \A u, t \in Nat : u < t => <<u, t>> \in OpToRel(<, Nat)
    BY Zenon DEF OpToRel
  <2>3. QED
    BY <1>1, <2>1, <2>2, Zenon
<1>3. PICK m \in S : t = n - m
  OBVIOUS
<1>4. ASSUME NEW s \in S
      PROVE  s <= m
  <2>1. n - s \in T
    OBVIOUS
  <2>2. ~ (n - s < n - m)
    BY <1>2, <1>3, <2>1
  <2>3. QED
    BY <2>2
<1>5. QED
  BY <1>4

\* The latest version is none of a client without any, and one of the client's
\* otherwise.
LEMMA LatestIsOfClient ==
    ASSUME ProfileInv, NEW client
    PROVE  \/ Latest(client) = None
           \/ Latest(client) \in profiles /\ Latest(client).client = client
<1>1. SUFFICES ASSUME VersionsOf(client) # {}
               PROVE  \E p \in profiles :
                         p.client = client /\ \A v \in VersionsOf(client) : v <= p.version
  BY DEF Latest
<1>2. PICK n \in Nat : \A p \in profiles : p.version \in 1..n
  BY DEF ProfileInv
<1>3. VersionsOf(client) \in SUBSET (1..n)
  BY <1>2 DEF VersionsOf
<1>4. PICK m \in VersionsOf(client) : \A v \in VersionsOf(client) : v <= m
  BY <1>1, <1>3, GreatestExists
<1>5. PICK p \in profiles : p.client = client /\ p.version = m
  BY DEF VersionsOf
<1>6. QED
  BY <1>4, <1>5

(************************* One step of one call ****************************)

\* Nothing of the stores moves, and the call stays sound.
LEMMA CallGoesOn ==
    ASSUME StoresInv, NEW o \in Onboardings,
           UNCHANGED <<clock, originals, csfArtifacts, profiles, obligaciones>>,
           NEW call, Become(o, call), SoundCall(call)
    PROVE  StoresInv'
<1>1. EvidenceInv' /\ ProfileInv' /\ RetainedFirst' /\ ProfilesAreWhole'
  BY DEF StoresInv, EvidenceInv, ProfileInv, RetainedFirst, ProfilesAreWhole, SameVersion,
         VersionsOf
<1>2. SoundCall(call)'
  BY DEF SoundCall, SoundRecord, VersionsOf, SameVersion
<1>3. \A x \in Onboardings : SoundCall(onboarding[x])'
  <2>1. \A c : SoundCall(c) => (SoundCall(c))'
    BY DEF SoundCall, SoundRecord, VersionsOf, SameVersion
  <2>2. \A x \in Onboardings : SoundCall(onboarding'[x])
    BY DEF StoresInv, SoundCalls, Become
  <2> HIDE DEF SoundCall
  <2>3. TAKE x \in Onboardings
  <2>4. SoundCall(onboarding[x])' <=> \A c : c = onboarding'[x] => (SoundCall(c))'
    OBVIOUS
  <2>5. QED
    BY <2>1, <2>2, <2>4
<1>4. SoundCalls'
  BY <1>3 DEF StoresInv, SoundCalls, Become
<1>5. QED
  BY <1>1, <1>4 DEF StoresInv

\* A call that is over claims nothing.
LEMMA CallEnds ==
    ASSUME StoresInv, NEW o \in Onboardings,
           UNCHANGED <<clock, originals, csfArtifacts, profiles, obligaciones>>,
           NEW pc \in OnboardingOver, EndAs(o, pc)
    PROVE  StoresInv'
<1>1. SoundCall(Call(pc, onboarding[o].request))
  BY DEF StoresInv, SoundCalls, SoundCall, Call, OnboardingOver, AfterStore, AfterIndex,
         Saving, Working
<1>2. QED
  BY <1>1, CallGoesOn DEF EndAs

\* The steps that leave the stores alone.
LEMMA ReadingStep ==
    ASSUME StoresInv, UNCHANGED clock, NEW o \in Onboardings,
           \/ Begin(o) \/ StoreFound(o) \/ StoreMissing(o)
           \/ IndexGet(o) \/ RecordSame(o) \/ RecordMissing(o) \/ RecordRefused(o)
           \/ ReadLatest(o) \/ Confirm(o) \/ SaveMissing(o) \/ SaveParent(o)
    PROVE  StoresInv'
<1> DEFINE call == onboarding[o]
<1> USE DEF OnboardingOver, AfterStore, AfterIndex, Saving, Working, Csf, Sha
<1>0. SoundCall(call)
  BY DEF StoresInv, SoundCalls
<1>1. CASE Begin(o)
  <2>1. SoundCall([call EXCEPT !.pc = "store"])
    BY <1>0, <1>1 DEF Begin, SoundCall
  <2>2. QED
    BY <1>1, <2>1, CallGoesOn DEF Begin, GoTo
<1>2. CASE StoreFound(o)
  <2> DEFINE next == [call EXCEPT !.pc = "index", !.at = clock]
  <2>2. SoundCall(next)
    BY <1>0, <1>2 DEF StoreFound, SoundCall, StoresInv, EvidenceInv
  <2>3. QED
    BY <1>2, <2>2, CallGoesOn DEF StoreFound
<1>3. CASE StoreMissing(o)
  <2>1. SoundCall([call EXCEPT !.pc = "open"])
    BY <1>0, <1>3 DEF StoreMissing, SoundCall
  <2>2. QED
    BY <1>3, <2>1, CallGoesOn DEF StoreMissing, GoTo
<1>4. CASE IndexGet(o)
  <2> DEFINE found == csfArtifacts[Sha(o)]
             next == [call EXCEPT !.pc = "record", !.at = IF found = None THEN @ ELSE found]
  <2>1. Sha(o) \in Hashes
    BY <1>0, <1>4 DEF IndexGet, SoundCall, Hashes
  <2>2. found = None \/ found \in 0..MaxClock
    BY <2>1 DEF StoresInv, EvidenceInv
  <2>4. SoundCall(next)
    <3> HIDE DEF found
    <3> QED BY <1>0, <1>4, <2>2 DEF IndexGet, SoundCall
  <2>5. QED
    BY <1>4, <2>4, CallGoesOn DEF IndexGet
<1>5. CASE RecordSame(o)
  <2>1. SoundCall([call EXCEPT !.pc = "parse"])
    BY <1>0, <1>5, ClockAssumption DEF RecordSame, SoundCall
  <2>2. QED
    BY <1>5, <2>1, CallGoesOn DEF RecordSame, GoTo
<1>6. CASE RecordMissing(o)
  <2>1. SoundCall([call EXCEPT !.pc = "insert"])
    BY <1>0, <1>6 DEF RecordMissing, SoundCall
  <2>2. QED
    BY <1>6, <2>1, CallGoesOn DEF RecordMissing, GoTo
<1>7. CASE RecordRefused(o)
  <2>1. SoundCall([call EXCEPT !.pc = "stranded"])
    BY <1>0, <1>7 DEF RecordRefused, SoundCall
  <2>2. QED
    BY <1>7, <2>1, CallGoesOn DEF RecordRefused, GoTo
<1>8. CASE ReadLatest(o)
  <2> DEFINE latest == Latest(call.request.client)
  <2>1. latest = None \/ (latest \in profiles /\ latest.client = call.request.client)
    BY LatestIsOfClient DEF StoresInv
  <2> DEFINE next == [call EXCEPT !.pc = "decide", !.latest = latest]
  <2>3. SoundCall(next)
    <3> HIDE DEF latest
    <3> QED BY <1>0, <1>8, <2>1 DEF ReadLatest, SoundCall
  <2>4. QED
    BY <1>8, <2>3, CallGoesOn DEF ReadLatest
<1>9. CASE Confirm(o)
  <2> DEFINE record == [client |-> call.request.client, version |-> NextVersion(o),
                        csf |-> Sha(o), facts |-> Csf(o).facts, at |-> clock]
  <2>1. PICK n \in Nat : \A p \in profiles : p.version \in 1..n
    BY DEF StoresInv, ProfileInv
  <2>2. /\ NextVersion(o) \in Nat \ {0}
        /\ NextVersion(o) = 1 \/ NextVersion(o) - 1 \in VersionsOf(call.request.client)
    BY <1>0, <1>9, <2>1 DEF Confirm, SoundCall, NextVersion, VersionsOf
  <2>3. SoundRecord(record, call.request)
    BY <2>2 DEF SoundRecord
  <2> DEFINE next == [call EXCEPT !.pc = "save", !.record = record]
  <2>5. SoundCall(next)
    <3> HIDE DEF record
    <3> QED BY <1>0, <1>9, <2>3 DEF Confirm, SoundCall
  <2>6. QED
    BY <1>9, <2>5, CallGoesOn DEF Confirm
<1>10. CASE SaveMissing(o)
  <2>1. SoundCall([call EXCEPT !.pc = "parent"])
    BY <1>0, <1>10 DEF SaveMissing, SoundCall
  <2>2. QED
    BY <1>10, <2>1, CallGoesOn DEF SaveMissing, GoTo
<1>11. CASE SaveParent(o)
  <2>1. \A p \in profiles : ~ SameVersion(p, call.record)
    BY <1>11 DEF SaveParent, Saved
  <2>2. SoundCall([call EXCEPT !.pc = "children"])
    BY <1>0, <1>11, <2>1 DEF SaveParent, SoundCall
  <2>3. QED
    BY <1>11, <2>2, CallGoesOn DEF SaveParent, GoTo
<1>12. QED
  BY <1>1, <1>2, <1>3, <1>4, <1>5, <1>6, <1>7, <1>8, <1>9, <1>10, <1>11

\* The steps a call ends with, COMMIT apart.
LEMMA EndingStep ==
    ASSUME StoresInv, UNCHANGED clock, NEW o \in Onboardings,
           \/ WriteFails(o) \/ RecordConflict(o) \/ ParseFails(o) \/ Mismatch(o)
           \/ Unchanged(o) \/ SaveSame(o) \/ SaveConflict(o) \/ SaveRefused(o)
           \/ OnboardingLocked(o) \/ SaveInterrupted(o) \/ Leave(o) \/ OnboardingDies(o)
    PROVE  StoresInv'
<1>1. PICK pc \in OnboardingOver : EndAs(o, pc)
  BY DEF WriteFails, RecordConflict, ParseFails, Mismatch, Unchanged, SaveSame, SaveConflict,
         SaveRefused, OnboardingLocked, SaveInterrupted, Leave, OnboardingDies, Raise,
         OnboardingOver
<1>2. UNCHANGED <<clock, originals, csfArtifacts, profiles, obligaciones>>
  BY DEF WriteFails, RecordConflict, ParseFails, Mismatch, Unchanged, SaveSame, SaveConflict,
         SaveRefused, OnboardingLocked, SaveInterrupted, Leave, OnboardingDies
<1>3. QED
  BY <1>1, <1>2, CallEnds
\* The steps that keep a file, index a hash, or add a version: none takes
\* anything from another call.
LEMMA WritingStep ==
    ASSUME StoresInv, UNCHANGED clock, NEW o \in Onboardings,
           WriteOpen(o) \/ WriteAll(o) \/ RecordInsert(o)
    PROVE  StoresInv'
<1> DEFINE call == onboarding[o]
<1> USE DEF OnboardingOver, AfterStore, AfterIndex, Saving, Working, Csf, Sha
<1>0. SoundCall(call) /\ DOMAIN onboarding = Onboardings
  BY DEF StoresInv, SoundCalls
<1>1. Sha(o) \in Hashes
  BY <1>0 DEF WriteOpen, WriteAll, RecordInsert, SoundCall, Hashes
<1>2. UNCHANGED profiles /\ UNCHANGED obligaciones
  BY DEF WriteOpen, WriteAll, RecordInsert
<1>3. /\ EvidenceInv'
      /\ \A h \in Hashes : originals[h] # "absent" => originals'[h] # "absent"
      /\ \A h \in Hashes : csfArtifacts[h] # None => csfArtifacts'[h] # None
      /\ onboarding'[o].pc \in {"index", "parse", "write"}
      /\ \E next : Become(o, next)
  <2>1. CASE WriteOpen(o)
    BY <1>0, <1>1, <2>1 DEF StoresInv, EvidenceInv, WriteOpen, GoTo, Become, SoundCall
  <2>2. CASE WriteAll(o)
    BY <1>0, <1>1, <2>2 DEF StoresInv, EvidenceInv, WriteAll, Become, SoundCall
  <2>3. CASE RecordInsert(o)
    BY <1>0, <1>1, <2>3, ClockAssumption
    DEF StoresInv, EvidenceInv, RecordInsert, GoTo, Become, SoundCall
  <2>4. QED
    BY <2>1, <2>2, <2>3
<1>4. \A x \in Onboardings : /\ SoundCall(onboarding[x])
                               /\ onboarding[x].request \in Constancias
                               => onboarding[x].request.csf.sha \in Hashes
  BY DEF Hashes
<1>5. \A x \in Onboardings \ {o} : SoundCall(onboarding[x])'
  <2> SUFFICES ASSUME NEW x \in Onboardings \ {o}
               PROVE  SoundCall(onboarding[x])'
    OBVIOUS
  <2>1. onboarding'[x] = onboarding[x] /\ SoundCall(onboarding[x])
    BY <1>3 DEF StoresInv, SoundCalls, Become
  <2>2. QED
    BY <1>2, <1>3, <1>4, <2>1 DEF SoundCall, SoundRecord, VersionsOf, SameVersion
<1>6. SoundCall(onboarding[o])'
  <2>1. CASE WriteOpen(o)
    BY <1>0, <2>1 DEF WriteOpen, GoTo, Become, SoundCall
  <2>2. CASE WriteAll(o)
    BY <1>0, <1>1, <2>2 DEF StoresInv, EvidenceInv, WriteAll, Become, SoundCall
  <2>3. CASE RecordInsert(o)
    BY <1>0, <1>1, <2>3, ClockAssumption
    DEF StoresInv, EvidenceInv, RecordInsert, GoTo, Become, SoundCall
  <2>4. QED
    BY <2>1, <2>2, <2>3
<1>7. SoundCalls'
  BY <1>3, <1>5, <1>6 DEF StoresInv, SoundCalls, Become
<1>8. RetainedFirst'
  <2>1. \A p \in profiles : csfArtifacts'[p.csf] # None
    BY <1>3 DEF StoresInv, ProfileInv, RetainedFirst
  <2>2. \A h \in Hashes : csfArtifacts'[h] # None => originals'[h] # "absent"
    <3>1. CASE WriteOpen(o) \/ WriteAll(o)
      BY <1>3, <3>1 DEF StoresInv, RetainedFirst, WriteOpen, WriteAll
    <3>2. CASE RecordInsert(o)
      BY <1>0, <1>1, <3>2 DEF StoresInv, RetainedFirst, RecordInsert, SoundCall, EvidenceInv
    <3>3. QED
      BY <3>1, <3>2
  <2>3. QED
    BY <1>2, <2>1, <2>2 DEF RetainedFirst
<1>9. ProfileInv' /\ ProfilesAreWhole'
  BY <1>2 DEF StoresInv, ProfileInv, ProfilesAreWhole, SameVersion, VersionsOf
<1>10. QED
  BY <1>3, <1>7, <1>8, <1>9 DEF StoresInv

\* COMMIT: the version and its obligations, of which nothing was there.
LEMMA CommittingStep ==
    ASSUME StoresInv, LockInv, UNCHANGED clock, NEW o \in Onboardings, SaveCommit(o)
    PROVE  StoresInv'
<1> DEFINE call == onboarding[o]
           record == call.record
           rows == ObligationRows(record, Csf(o))
<1> USE DEF OnboardingOver, AfterStore, AfterIndex, Saving, Working, Csf, Sha
<1>0. SoundCall(call) /\ DOMAIN onboarding = Onboardings
  BY DEF StoresInv, SoundCalls
<1>1. /\ call.request \in Constancias /\ SoundRecord(record, call.request)
      /\ \A p \in profiles : ~ SameVersion(p, record)
      /\ csfArtifacts[Sha(o)] # None
      /\ Sha(o) \in Hashes
  BY <1>0 DEF SaveCommit, SoundCall, Hashes
<1>2. /\ profiles' = profiles \cup {record} /\ obligaciones' = obligaciones \cup rows
      /\ UNCHANGED <<originals, csfArtifacts>>
      /\ Become(o, Call("onboarded", call.request))
  BY DEF SaveCommit, EndAs
<1>3. \A x \in Onboardings \ {o} : onboarding[x].pc # "children"
  BY DEF LockInv, SaveCommit
<1>4. \A client : VersionsOf(client) \subseteq VersionsOf(client)'
  BY <1>2 DEF VersionsOf
<1>5. SoundCalls'
  <2>1. SoundCall(onboarding[o])'
    BY <1>0, <1>2 DEF Become, Call, SoundCall
  <2>2. \A x \in Onboardings \ {o} : SoundCall(onboarding[x])'
    <3> SUFFICES ASSUME NEW x \in Onboardings \ {o}
                 PROVE  SoundCall(onboarding[x])'
      OBVIOUS
    <3>1. onboarding'[x] = onboarding[x] /\ SoundCall(onboarding[x])
      BY <1>2 DEF StoresInv, SoundCalls, Become
    <3>2. SoundRecord(onboarding[x].record, onboarding[x].request)
             => SoundRecord(onboarding[x].record, onboarding[x].request)'
      BY <1>4, <3>1 DEF SoundRecord
    <3>3. QED
      BY <1>2, <1>3, <3>1, <3>2 DEF SoundCall
  <2>3. QED
    BY <1>2, <2>1, <2>2 DEF StoresInv, SoundCalls, Become
<1>6. EvidenceInv'
  BY <1>2 DEF StoresInv, EvidenceInv
<1>7. RetainedFirst'
  BY <1>1, <1>2 DEF StoresInv, RetainedFirst, SoundRecord
<1>8. ProfileInv'
  <2>1. PICK n \in Nat : \A p \in profiles : p.version \in 1..n
    BY DEF StoresInv, ProfileInv
  <2>2. record.version \in Nat \ {0}
    BY <1>1 DEF SoundRecord
  <2>3. PICK m \in Nat : m >= n /\ m >= record.version
    BY <2>2
  <2>4. \A p \in profiles' : p.version \in 1..m
    <3> HIDE DEF record
    <3> QED BY <1>2, <2>1, <2>2, <2>3
  <2>5. QED
    BY <1>1, <1>2, <2>4 DEF StoresInv, ProfileInv, SoundRecord
<1>9. ProfilesAreWhole'
  <2> HIDE DEF record, call
  <2>1. \A row \in rows : SameVersion(row, record)
    BY DEF ObligationRows, SameVersion
  <2>2. \A row \in obligaciones : ~ SameVersion(row, record)
    BY <1>1 DEF StoresInv, ProfilesAreWhole, SameVersion
  <2>3. \A p \in profiles : \A row \in rows : ~ SameVersion(row, p)
    BY <1>1, <2>1 DEF SameVersion
  <2>4. \A p, q \in profiles' : SameVersion(p, q) => p = q
    BY <1>1, <1>2 DEF StoresInv, ProfilesAreWhole, SameVersion
  <2>5. \A p \in profiles' : p.version = 1 \/ p.version - 1 \in VersionsOf(p.client)'
    BY <1>1, <1>2, <1>4 DEF StoresInv, ProfilesAreWhole, SoundRecord
  <2>6. ASSUME NEW p \in profiles', NEW asked \in Constancias, asked.csf.sha = p.csf
        PROVE  Cardinality({row \in obligaciones' : SameVersion(row, p)}) = asked.csf.obligations
    <3>1. CASE p \in profiles
      <4>1. {row \in obligaciones' : SameVersion(row, p)} = {row \in obligaciones : SameVersion(row, p)}
        BY <1>2, <2>3, <3>1
      <4>2. QED
        BY <2>6, <3>1, <4>1 DEF StoresInv, ProfilesAreWhole
    <3>2. CASE p = record
      <4>1. {row \in obligaciones' : SameVersion(row, p)} = rows
        BY <1>2, <2>1, <2>2, <3>2
      <4>2. asked.csf = Csf(o) /\ asked.csf.obligations \in Nat
        BY <1>1, <2>6, <3>2, ConstanciaAssumption DEF SoundRecord, call
      <4>3. QED
        BY <4>1, <4>2, CountOfRows
    <3>3. QED
      BY <1>2, <3>1, <3>2
  <2>7. \A row \in obligaciones' : \E p \in profiles' : SameVersion(row, p)
    BY <1>2, <2>1 DEF StoresInv, ProfilesAreWhole
  <2>8. QED
    BY <2>4, <2>5, <2>6, <2>7 DEF ProfilesAreWhole, SameVersion
<1>10. QED
  BY <1>5, <1>6, <1>7, <1>8, <1>9 DEF StoresInv
(*************************** The write lock ********************************)

\* An actor only ever takes the free lock, or gives up its own.
LockStep(actor) ==
    \/ UNCHANGED writer
    \/ LockIsFree /\ writer' = actor
    \/ writer = actor /\ writer' = None

LEMMA OnboardingLocks ==
    ASSUME NEW o, OnboardingStep(o) \/ OnboardingDies(o)
    PROVE  LockStep(o)
BY DEF OnboardingStep, OnboardingDies, Begin, StoreFound, StoreMissing, WriteOpen, WriteAll,
       WriteFails, IndexGet, RecordSame, RecordConflict, RecordMissing, RecordInsert,
       RecordRefused, ParseFails, Mismatch, ReadLatest, Unchanged, Confirm, SaveSame,
       SaveConflict, SaveMissing, SaveParent, SaveRefused, SaveCommit, OnboardingLocked,
       SaveInterrupted, Leave, Raise, Release, LockStep

\* Whatever a run does, or meets.
RunActs(r) ==
    \/ CheckProfileOf(r) \/ RunStep(r) \/ Start(r) \/ StartOver(r)
    \/ Strike(r) \/ CommitFails(r) \/ RunDies(r)

LEMMA RunLocks ==
    ASSUME NEW r, RunActs(r)
    PROVE  LockStep(r)
BY DEF RunActs, CheckProfileOf, CheckProfile, RunStep, Strike, CommitFails, RunDies, Start,
       StartOver, CommitUnit, CloseUnprofiled, Close, Fail, Unread, ParserFault, Defect,
       Quarantine, Project, BeginUnit, SaveDocument, OpenFlag, Conflict, Commit, Locked,
       Surface, Release, LockStep

LEMMA ReviewerLocks ==
    ASSUME NEW v, \/ CloseFlag(v) \/ CloseRefused(v) \/ Disconnect(v)
                  \/ \E id \in DOMAIN flags : LookUp(v, id)
    PROVE  LockStep(v)
BY DEF CloseFlag, CloseRefused, Disconnect, LookUp, Release, LockStep

\* A call holds the lock exactly while its transaction is open.
LEMMA CallHoldsLock ==
    ASSUME StoresInv, LockInv, NEW o \in Onboardings,
           OnboardingStep(o) \/ OnboardingDies(o)
    PROVE  LockInv'
<1> DEFINE call == onboarding[o]
<1>0. DOMAIN call = {"pc", "request", "at", "latest", "record"} /\ DOMAIN onboarding = Onboardings
  BY DEF StoresInv, SoundCalls, SoundCall
<1>1. \E next : Become(o, next)
  BY DEF OnboardingStep, OnboardingDies, Begin, StoreFound, StoreMissing, WriteOpen, WriteAll,
         WriteFails, IndexGet, RecordSame, RecordConflict, RecordMissing, RecordInsert,
         RecordRefused, ParseFails, Mismatch, ReadLatest, Unchanged, Confirm, SaveSame,
         SaveConflict, SaveMissing, SaveParent, SaveRefused, SaveCommit, OnboardingLocked,
         SaveInterrupted, Leave, Raise, GoTo, EndAs
<1>2. (writer' = o) = (onboarding'[o].pc \in {"children", "stranded"})
  <2> USE <1>0, ActorAssumption DEF LockInv, Become, GoTo, EndAs, Call, Release, Raise,
          LockIsFree, LockedOut, OnboardingOver
  <2>1. ASSUME NEW next, Become(o, next), UNCHANGED writer,
               call.pc \notin {"children", "stranded"},
               next.pc \notin {"children", "stranded"}
        PROVE  (writer' = o) = (onboarding'[o].pc \in {"children", "stranded"})
    BY <2>1
  <2>2. CASE Begin(o) \/ StoreMissing(o) \/ WriteOpen(o)
    BY <2>2 DEF Begin, StoreMissing, WriteOpen
  <2>3. CASE StoreFound(o) \/ WriteAll(o)
    <3>1. [call EXCEPT !.pc = "index", !.at = clock].pc = "index"
      OBVIOUS
    <3>2. QED
      BY <2>1, <2>3, <3>1 DEF StoreFound, WriteAll
  <2>4. CASE RecordSame(o) \/ RecordMissing(o) \/ RecordInsert(o) \/ SaveMissing(o)
    BY <2>4 DEF RecordSame, RecordMissing, RecordInsert, SaveMissing
  <2>5. CASE IndexGet(o)
    <3> DEFINE found == IF csfArtifacts[Sha(o)] = None THEN call.at ELSE csfArtifacts[Sha(o)]
    <3>1. [call EXCEPT !.pc = "record", !.at = found].pc = "record"
      OBVIOUS
    <3>2. QED
      BY <2>1, <2>5, <3>1 DEF IndexGet
  <2>6. CASE ReadLatest(o)
    <3>1. \A latest : [call EXCEPT !.pc = "decide", !.latest = latest].pc = "decide"
      OBVIOUS
    <3>2. QED
      BY <2>1, <2>6, <3>1 DEF ReadLatest
  <2>7. CASE Confirm(o)
    <3>1. \A record : [call EXCEPT !.pc = "save", !.record = record].pc = "save"
      OBVIOUS
    <3>2. QED
      BY <2>1, <2>7, <3>1 DEF Confirm
  <2>8. CASE Mismatch(o) \/ Unchanged(o) \/ SaveSame(o)
    BY <2>8 DEF Mismatch, Unchanged, SaveSame
  <2>9. CASE RecordRefused(o) \/ SaveParent(o)
    BY <2>9 DEF RecordRefused, SaveParent
  <2>10. CASE \/ WriteFails(o) \/ RecordConflict(o) \/ ParseFails(o) \/ SaveConflict(o)
             \/ SaveRefused(o) \/ SaveCommit(o)
    BY <2>10 DEF WriteFails, RecordConflict, ParseFails, SaveConflict, SaveRefused, SaveCommit
  <2>11. CASE \/ OnboardingLocked(o) \/ SaveInterrupted(o) \/ Leave(o) \/ OnboardingDies(o)
    BY <2>11 DEF OnboardingLocked, SaveInterrupted, Leave, OnboardingDies
  <2>12. QED
    BY <2>2, <2>3, <2>8, <2>9, <2>10, <2>11, <2>4, <2>5, <2>6, <2>7 DEF OnboardingStep
<1>3. \A x \in Onboardings \ {o} : (writer' = x) = (writer = x)
  BY OnboardingLocks, ActorAssumption DEF LockStep, LockIsFree
<1>4. \A x \in Onboardings \ {o} : onboarding'[x] = onboarding[x]
  BY <1>0, <1>1 DEF Become
<1>5. QED
  BY <1>2, <1>3, <1>4 DEF LockInv

(*************************** The specification *****************************)

\* The others leave the stores of the onboarding alone.
LEMMA OthersKeepOnboardingInv ==
    ASSUME OnboardingInv, UNCHANGED onboardingVars, clock' \in 0..MaxClock,
           \/ UNCHANGED writer
           \/ \E actor \in Runs \cup Reviewers : LockStep(actor)
    PROVE  OnboardingInv'
<1>1. UNCHANGED <<originals, csfArtifacts, profiles, obligaciones, onboarding>>
  BY DEF onboardingVars
<1>2. StoresInv'
  BY <1>1 DEF OnboardingInv, StoresInv, EvidenceInv, SoundCalls, SoundCall, SoundRecord,
              ProfileInv, RetainedFirst, ProfilesAreWhole, VersionsOf, SameVersion
<1>3. \A o \in Onboardings : (writer' = o) = (writer = o)
  BY ActorAssumption DEF LockStep, LockIsFree
<1>4. QED
  BY <1>1, <1>2, <1>3 DEF OnboardingInv, LockInv

LEMMA InitOnboardingInv == Init => OnboardingInv
<1> SUFFICES ASSUME Init
             PROVE  OnboardingInv
  OBVIOUS
<1>1. PICK confirmed \in Confirmed, calls \in [Onboardings -> Constancias \cup {None}] :
         OnboardingInit(confirmed, calls)
  BY DEF Init, InitWith
<1>2. /\ confirmed \subseteq Constancias
      /\ \A a, b \in confirmed : a.client = b.client => a = b
  BY DEF Confirmed
<1>3. clock = 0 /\ writer = None
  BY DEF Init, InitWith, ConnectionInit
<1>4. EvidenceInv
  BY <1>1, <1>3, ClockAssumption DEF OnboardingInit, EvidenceInv
<1>5. SoundCalls /\ LockInv
  BY <1>1, <1>3, ActorAssumption
  DEF OnboardingInit, SoundCalls, SoundCall, Call, OnboardingOver, Working, AfterStore,
      AfterIndex, Saving, LockInv
<1>6. profiles = {FirstVersion(call) : call \in confirmed}
  BY <1>1 DEF OnboardingInit
<1>7. \A p \in profiles : p.version = 1 /\ \E call \in confirmed : p = FirstVersion(call)
  BY <1>6 DEF FirstVersion
<1>8. ProfileInv
  <2>1. \A p \in profiles : p.csf \in Hashes
    BY <1>2, <1>7 DEF FirstVersion, Hashes
  <2>2. \A p \in profiles : p.version \in 1..1
    BY <1>7
  <2>3. QED
    BY <2>1, <2>2 DEF ProfileInv
<1>9. RetainedFirst
  BY <1>1, <1>2, <1>7, ClockAssumption DEF OnboardingInit, RetainedFirst, FirstVersion, Hashes
<1>10. \A p, q \in profiles : SameVersion(p, q) => p = q
  BY <1>2, <1>7 DEF SameVersion, FirstVersion
<1>11. obligaciones = UNION {ObligationRows(FirstVersion(call), call.csf) : call \in confirmed}
  BY <1>1 DEF OnboardingInit
<1>12. \A row \in obligaciones : \E p \in profiles : SameVersion(row, p)
  BY <1>6, <1>11 DEF ObligationRows, SameVersion
<1>13. ASSUME NEW p \in profiles, NEW asked \in Constancias, asked.csf.sha = p.csf
       PROVE  Cardinality({row \in obligaciones : SameVersion(row, p)}) = asked.csf.obligations
  <2>1. PICK call \in confirmed : p = FirstVersion(call)
    BY <1>7
  <2>2. asked.csf = call.csf /\ call.csf.obligations \in Nat
    BY <1>2, <1>13, <2>1, ConstanciaAssumption DEF FirstVersion
  <2>3. \A other \in confirmed : \A row \in ObligationRows(FirstVersion(other), other.csf) :
           SameVersion(row, p) => other = call
    BY <1>2, <2>1 DEF ObligationRows, FirstVersion, SameVersion
  <2>4. \A row \in ObligationRows(p, call.csf) : SameVersion(row, p)
    BY DEF ObligationRows, SameVersion
  <2>5. {row \in obligaciones : SameVersion(row, p)} = ObligationRows(p, call.csf)
    BY <1>11, <2>1, <2>3, <2>4
  <2>6. QED
    BY <2>2, <2>5, CountOfRows
<1>14. ProfilesAreWhole
  BY <1>7, <1>10, <1>12, <1>13 DEF ProfilesAreWhole
<1>15. QED
  BY <1>4, <1>5, <1>8, <1>9, <1>14 DEF OnboardingInv, StoresInv

LEMMA NextOnboardingInv == OnboardingInv /\ [Next]_vars => OnboardingInv'
<1> SUFFICES ASSUME OnboardingInv, [Next]_vars
             PROVE  OnboardingInv'
  OBVIOUS
<1>0. clock \in 0..MaxClock
  BY DEF OnboardingInv, StoresInv, EvidenceInv
<1>1. ASSUME NEW o \in Onboardings, OnboardingStep(o) \/ OnboardingDies(o), UNCHANGED clock
      PROVE  OnboardingInv'
  <2>1. StoresInv /\ LockInv
    BY DEF OnboardingInv
  <2>2. StoresInv'
    BY <1>1, <2>1, ReadingStep, EndingStep, WritingStep, CommittingStep DEF OnboardingStep
  <2>3. LockInv'
    BY <1>1, <2>1, CallHoldsLock
  <2>4. QED
    BY <2>2, <2>3 DEF OnboardingInv
<1>2. CASE \E o \in Onboardings : Onboard(o)
  BY <1>1, <1>2 DEF Onboard
<1>3. CASE \E r \in Runs : Work(r)
  BY <1>0, <1>3, RunLocks, OthersKeepOnboardingInv DEF Work, RunActs
<1>4. CASE Demand
  BY <1>0, <1>4, RunLocks, ReviewerLocks, OthersKeepOnboardingInv DEF Demand, RunActs
<1>5. CASE Relinquish
  BY <1>0, <1>5, ReviewerLocks, OthersKeepOnboardingInv DEF Relinquish
<1>6. CASE Fault
  <2>1. CASE \E p \in Processes :
                OpeningDies(p) /\ UNCHANGED <<connectionVars, onboardingVars, processingVars>>
    BY <1>0, <2>1, OthersKeepOnboardingInv DEF connectionVars
  <2>2. CASE \E o \in Onboardings :
                OnboardingDies(o) /\ UNCHANGED <<clock, schemaVars, processingVars>>
    BY <1>1, <2>2
  <2>3. CASE \E r \in Runs :
                /\ Strike(r) \/ CommitFails(r) \/ RunDies(r)
                /\ UNCHANGED <<clock, schemaVars, onboardingVars>>
    BY <1>0, <2>3, RunLocks, OthersKeepOnboardingInv DEF RunActs
  <2>4. QED
    BY <1>6, <2>1, <2>2, <2>3 DEF Fault
<1>7. CASE Passes
  BY <1>0, <1>7, ClockAssumption, OthersKeepOnboardingInv DEF Passes, Tick
<1>8. CASE \E p \in Processes : OpenDatabase(p)
  BY <1>0, <1>8, OthersKeepOnboardingInv DEF OpenDatabase, connectionVars
<1>9. CASE UNCHANGED vars
  BY <1>0, <1>9, OthersKeepOnboardingInv DEF vars, connectionVars
<1>10. QED
  BY <1>2, <1>3, <1>4, <1>5, <1>6, <1>7, <1>8, <1>9 DEF Next

LEMMA SpecOnboardingInv == Spec => []OnboardingInv
<1>1. Init => OnboardingInv
  BY InitOnboardingInv
<1>2. OnboardingInv /\ [Next]_vars => OnboardingInv'
  BY NextOnboardingInv
<1>3. QED
  BY <1>1, <1>2, PTL DEF Spec
(****************************** The theorems *******************************)

\* Whatever onboardings overlap or die: what is indexed has its file, and what
\* a profile rests on is indexed.
THEOREM EvidenceIsRetained == Spec => []RetainedFirst
<1>1. OnboardingInv => RetainedFirst
  BY DEF OnboardingInv, StoresInv
<1>2. QED
  BY <1>1, SpecOnboardingInv, PTL

\* The versions of a client are 1, 2, 3 and so on, one row each and never in
\* part, however many onboardings read the same latest version.
THEOREM VersionsAreWhole == Spec => []ProfilesAreWhole
<1>1. OnboardingInv => ProfilesAreWhole
  BY DEF OnboardingInv, StoresInv
<1>2. QED
  BY <1>1, SpecOnboardingInv, PTL

\* Only the step that writes a row changes what is on record of it.
LEMMA RecordsOnlyGrow ==
    ASSUME OnboardingInv, [Next]_vars
    PROVE  /\ profiles \subseteq profiles' /\ obligaciones \subseteq obligaciones'
           /\ \A h \in Hashes : csfArtifacts[h] # None => csfArtifacts'[h] = csfArtifacts[h]
<1>1. CASE UNCHANGED onboardingVars
  BY <1>1 DEF onboardingVars
<1>2. CASE \E o \in Onboardings : SaveCommit(o)
  BY <1>2 DEF SaveCommit
<1>3. ASSUME NEW o \in Onboardings, RecordInsert(o)
      PROVE  \A h \in Hashes : csfArtifacts[h] # None => csfArtifacts'[h] = csfArtifacts[h]
  BY <1>3 DEF RecordInsert, OnboardingInv, StoresInv, EvidenceInv
<1>4. ASSUME NEW o \in Onboardings, RecordInsert(o)
      PROVE  UNCHANGED <<profiles, obligaciones>>
  BY <1>4 DEF RecordInsert
<1>5. ASSUME NEW o \in Onboardings, OnboardingStep(o) \/ OnboardingDies(o),
             ~ SaveCommit(o), ~ RecordInsert(o)
      PROVE  UNCHANGED <<csfArtifacts, profiles, obligaciones>>
  BY <1>5 DEF OnboardingStep, OnboardingDies, Begin, StoreFound, StoreMissing, WriteOpen,
     WriteAll, WriteFails, IndexGet, RecordSame, RecordConflict, RecordMissing, RecordRefused,
     ParseFails, Mismatch, ReadLatest, Unchanged, Confirm, SaveSame, SaveConflict, SaveMissing,
     SaveParent, SaveRefused, OnboardingLocked, SaveInterrupted, Leave
<1>6. CASE \E o \in Onboardings : OnboardingStep(o) \/ OnboardingDies(o)
  BY <1>2, <1>3, <1>4, <1>5, <1>6
<1>7. QED
  BY <1>1, <1>6 DEF Next, vars, OpenDatabase, Onboard, Work, Demand, Relinquish, Fault, Passes

\* A confirmed version is never edited nor taken back, and an indexed original
\* is never dated again.
THEOREM RecordsAreImmutable == Spec => OnboardingIsImmutable
<1>1. OnboardingInv /\ [Next]_vars =>
         [/\ profiles \subseteq profiles' /\ obligaciones \subseteq obligaciones'
          /\ \A h \in Hashes : csfArtifacts[h] # None => csfArtifacts'[h] = csfArtifacts[h]]_vars
  BY RecordsOnlyGrow
<1>2. QED
  BY <1>1, SpecOnboardingInv, PTL DEF Spec, OnboardingIsImmutable
=============================================================================
