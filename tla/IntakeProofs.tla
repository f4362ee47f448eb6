----------------------------- MODULE IntakeProofs -----------------------------
(***************************************************************************)
(* The process flow for any number of runs, reviewers, documents and       *)
(* clients: what can be on file, and which flags can be open.  A run that  *)
(* is inside its transaction has the write lock, so what it has read of    *)
(* the documents and of the flags stays as it read it; the inductive       *)
(* invariant says what that is.  Last, the database they all have opened.  *)
(***************************************************************************)
EXTENDS OnboardingProofs, RecursionTheorems, SequenceTheorems

(*************************** The flags of a document ***********************)

\* A sequence without a repetition.
Distinct(s) == \A i, j \in DOMAIN s : s[i] = s[j] => i = j

\* A document deserves each flag at most once.
LEMMA FlagsOfDocument ==
    ASSUME NEW contributor, NEW raw, NEW name
    PROVE  LET deserved == ProjectDocument(contributor, raw, name).flags
           IN  deserved \in Seq(FlagTypes) /\ Distinct(deserved)
<1> DEFINE a == BuildFiscalDocument(raw).flags
           b == ResolvePerspective(contributor, raw).flags
           c == ReviewFlagsFor(Verify(raw))
<1>1. a \in {<<>>, <<"unsupported_currency">>}
  BY DEF BuildFiscalDocument, CurrencyFlags
<1>2. b \in {<<>>, <<"perspective_mismatch">>, <<"perspective_undetermined">>}
  BY DEF ResolvePerspective, Resolved
<1>3. c \in {<<>>, <<"cfdi_signature">>}
  BY DEF ReviewFlagsFor
<1>4. ProjectDocument(contributor, raw, name).flags = a \o b \o c
  BY DEF ProjectDocument
<1> HIDE DEF a, b, c
<1>5. a \in Seq(FlagTypes) /\ b \in Seq(FlagTypes) /\ c \in Seq(FlagTypes)
  <2>1. <<>> \in Seq(FlagTypes) /\ \A type \in FlagTypes : <<type>> \in Seq(FlagTypes)
    OBVIOUS
  <2>2. QED
    BY <1>1, <1>2, <1>3, <2>1 DEF FlagTypes
<1>6. /\ a \o b \in Seq(FlagTypes) /\ Len(a \o b) = Len(a) + Len(b)
      /\ \A i \in 1..Len(a) + Len(b) :
            (a \o b)[i] = IF i <= Len(a) THEN a[i] ELSE b[i - Len(a)]
  BY <1>5, ConcatProperties
<1>7. /\ (a \o b) \o c \in Seq(FlagTypes) /\ Len((a \o b) \o c) = Len(a \o b) + Len(c)
      /\ \A i \in 1..Len(a \o b) + Len(c) :
            ((a \o b) \o c)[i] = IF i <= Len(a \o b) THEN (a \o b)[i] ELSE c[i - Len(a \o b)]
  BY <1>5, <1>6, ConcatProperties
<1>8. /\ Len(a) \in {0, 1} /\ (Len(a) = 1 => a[1] = "unsupported_currency")
      /\ Len(b) \in {0, 1}
      /\ Len(b) = 1 => b[1] \in {"perspective_mismatch", "perspective_undetermined"}
      /\ Len(c) \in {0, 1} /\ (Len(c) = 1 => c[1] = "cfdi_signature")
  BY <1>1, <1>2, <1>3
<1>9. /\ Len(a) \in Nat /\ Len(b) \in Nat /\ Len(c) \in Nat
      /\ Len(a) <= 1 /\ Len(b) <= 1 /\ Len(c) <= 1
  <2>1. \A n \in {0, 1} : n \in Nat /\ n <= 1
    OBVIOUS
  <2>2. QED
    BY <1>8, <2>1, Zenon
<1>10. DOMAIN ((a \o b) \o c) = 1..Len(a) + Len(b) + Len(c)
  BY <1>6, <1>7, LenProperties
<1>11. Distinct((a \o b) \o c)
  <2> DEFINE all == (a \o b) \o c
  <2>1. ASSUME NEW i \in 1..Len(a) + Len(b) + Len(c)
        PROVE  /\ i <= Len(a) => i = 1 /\ all[i] = a[1]
               /\ Len(a) < i /\ i <= Len(a) + Len(b) => i = Len(a) + 1 /\ all[i] = b[1]
               /\ Len(a) + Len(b) < i => i = Len(a) + Len(b) + 1 /\ all[i] = c[1]
    <3>1. all[i] = IF i <= Len(a) + Len(b) THEN (a \o b)[i] ELSE c[i - (Len(a) + Len(b))]
      BY <1>6, <1>7
    <3>2. i <= Len(a) + Len(b) =>
             (a \o b)[i] = IF i <= Len(a) THEN a[i] ELSE b[i - Len(a)]
      BY <1>6, <1>9
    <3> HIDE DEF all
    <3>3. CASE i <= Len(a)
      <4>1. i = 1
        BY <1>9, <3>3
      <4>2. QED
        BY <1>9, <3>1, <3>2, <3>3, <4>1
    <3>4. CASE Len(a) < i /\ i <= Len(a) + Len(b)
      <4>1. i = Len(a) + 1 /\ i - Len(a) = 1
        BY <1>9, <3>4
      <4>2. QED
        BY <1>9, <3>1, <3>2, <3>4, <4>1
    <3>5. CASE Len(a) + Len(b) < i
      <4>1. i = Len(a) + Len(b) + 1 /\ i - (Len(a) + Len(b)) = 1
        BY <1>9, <3>5
      <4>2. QED
        BY <1>9, <3>1, <3>5, <4>1
    <3>6. QED
      BY <1>9, <3>3, <3>4, <3>5
  <2>2. ASSUME NEW i \in 1..Len(a) + Len(b) + Len(c)
        PROVE  /\ i <= Len(a) => all[i] = "unsupported_currency"
               /\ Len(a) < i /\ i <= Len(a) + Len(b) =>
                     all[i] \in {"perspective_mismatch", "perspective_undetermined"}
               /\ Len(a) + Len(b) < i => all[i] = "cfdi_signature"
    BY <1>8, <2>1
  <2> HIDE DEF all
  <2>3. QED
    BY <1>9, <1>10, <2>1, <2>2 DEF Distinct, all
<1>12. QED
  BY <1>4, <1>7, <1>11
(*************************** The invariant *********************************)

RunKeys == {"pc", "request", "next", "counts", "cause", "now", "row", "flag", "facts"}
AtDocument == {"begin", "save", "open"}
UnderWay == {"profile", "unprofiled", "artifact", "failing"} \cup AtDocument

Fact == [subject : Uuids, type : FlagTypes, at : 0..MaxClock, closes : Nat \cup {None}]

\* The document a call is at, and the flags it deserves.
DocOf(call) == call.request.artifacts[call.next]
Deserved(call) ==
    ProjectDocument(call.request.client, DocOf(call).bytes, DocOf(call).name).flags

FiledOf(request) ==
    \E a \in Range(request.artifacts) :
        /\ a.name \in Uuids /\ documents[a.name] # None
        /\ documents[a.name].hash = HashOf(a.bytes)

\* The row continues what is on file.
SoundRow(row, doc) ==
    /\ row \in Rows /\ row.hash = HashOf(doc.bytes)
    /\ row.firstSeen <= row.lastSeen
    /\ HasProfile(row.contributor)
    /\ documents[doc.name] # None =>
          /\ row.hash = documents[doc.name].hash
          /\ row.firstSeen = documents[doc.name].firstSeen
          /\ row.lastSeen >= documents[doc.name].lastSeen

\* The openings so far: one for each flag looked at that is not open.
SoundFacts(call) ==
    /\ call.flag \in Nat \ {0}
    /\ call.facts \in Seq(Fact)
    /\ \A i \in DOMAIN call.facts :
          /\ call.facts[i].subject = DocOf(call).name /\ call.facts[i].closes = None
          /\ call.facts[i].type \notin OpenTypes(flags, DocOf(call).name)
          /\ \E n \in DOMAIN Deserved(call) :
                n < call.flag /\ Deserved(call)[n] = call.facts[i].type
    /\ \A i, j \in DOMAIN call.facts : call.facts[i].type = call.facts[j].type => i = j
    /\ \A n \in DOMAIN Deserved(call) : n < call.flag =>
          \/ Deserved(call)[n] \in OpenTypes(flags, DocOf(call).name)
          \/ \E i \in DOMAIN call.facts : call.facts[i].type = Deserved(call)[n]

SoundRun(call) ==
    /\ DOMAIN call = RunKeys
    /\ call.pc \in RunOver \cup UnderWay
    /\ call.request \in Batches \cup {None}
    /\ call.pc \in UnderWay => call.request # None
    /\ call.next \in Nat \ {0}
    /\ DOMAIN call.counts = {"parsed", "quarantined", "failed", "conflicted"}
    /\ call.counts.parsed \in Nat
    /\ call.counts.parsed > 0 => FiledOf(call.request)
    /\ call.pc \in {"artifact"} \cup AtDocument => HasProfile(call.request.client)
    /\ call.pc \in AtDocument =>
          /\ call.next \in DOMAIN call.request.artifacts
          /\ DocOf(call).name \in Uuids
          /\ call.now \in 0..MaxClock
    /\ call.pc # "open" => call.flag = 1 /\ call.facts = <<>>
    /\ call.pc = "open" => SoundRow(call.row, DocOf(call)) /\ SoundFacts(call)

RunsInv ==
    /\ run = [r \in Runs |-> run[r]]
    /\ \A r \in Runs : SoundRun(run[r])

\* A run holds the lock exactly while its transaction is open.
RunLockInv == \A r \in Runs : (writer = r) = (run[r].pc \in {"save", "open"})

FileInv ==
    /\ documents \in [Uuids -> Rows \cup {None}]
    /\ \A u \in Uuids : documents[u] # None =>
          documents[u].firstSeen <= documents[u].lastSeen /\ HasProfile(documents[u].contributor)

\* A row closes a row before it.
ClosesEarlier(facts) ==
    \A i \in DOMAIN facts : facts[i].closes # None => facts[i].closes \in 1..i - 1

FlagInv ==
    /\ flags \in Seq(Fact)
    /\ ClosesEarlier(flags)
    /\ ClosedOnce /\ OneOpenFlagPerType

ReviewerInv ==
    /\ reviewer = [v \in Reviewers |-> reviewer[v]]
    /\ \A v \in Reviewers : reviewer[v] # None =>
          reviewer[v] \in DOMAIN flags /\ flags[reviewer[v]].closes = None

RunRowInv ==
    /\ runs = [r \in Runs |-> runs[r]]
    /\ CompletedRunFiled

TablesInv == FileInv /\ FlagInv /\ ReviewerInv /\ RunRowInv

IInv == OnboardingInv /\ TablesInv /\ RunsInv /\ RunLockInv

(************************* One step of one run *****************************)

\* The tables are left alone, and the run stays sound.
LEMMA RunGoesOn ==
    ASSUME RunsInv, NEW r \in Runs, UNCHANGED <<documents, flags, profiles>>,
           NEW call, Turn(r, call), SoundRun(call)
    PROVE  RunsInv'
<1> USE DEF SoundRun, FiledOf, SoundRow, SoundFacts, HasProfile, VersionsOf, OpenTypes,
        OpenFlags, ClosuresOf
<1>1. \A x : SoundRun(x) => SoundRun(x)'
  OBVIOUS
<1> HIDE DEF SoundRun
<1>2. QED
  BY <1>1 DEF RunsInv, Turn

\* A run that is over, or has yet to look for the profile, claims nothing.
LEMMA FreshRunIsSound ==
    ASSUME NEW request \in Batches \cup {None}, NEW pc \in RunOver \cup {"profile"},
           pc = "profile" => request # None
    PROVE  /\ SoundRun(NewCall(pc, request))
           /\ \A cause : SoundRun([NewCall(pc, request) EXCEPT !.cause = cause])
BY DEF SoundRun, NewCall, NoCounts, RunKeys, RunOver, UnderWay, AtDocument

LEMMA RunEnds ==
    ASSUME RunsInv, NEW r \in Runs, UNCHANGED <<documents, flags, profiles>>,
           NEW pc \in RunOver, NEW cause, EndWith(r, pc, cause)
    PROVE  RunsInv'
<1>1. run[r].request \in Batches \cup {None}
  BY DEF RunsInv, SoundRun
<1>2. SoundRun([NewCall(pc, run[r].request) EXCEPT !.cause = cause])
  BY <1>1, FreshRunIsSound DEF RunOver
<1>3. QED
  BY <1>2, RunGoesOn DEF EndWith
\* A document is counted: the run is at the next one.
Counted(call, outcome) ==
    [NewCall("artifact", call.request) EXCEPT
        !.next = call.next + 1, !.counts = [call.counts EXCEPT ![outcome] = @ + 1]]

LEMMA CountedIsSound ==
    ASSUME NEW call, SoundRun(call), call.pc \in {"artifact"} \cup AtDocument,
           NEW outcome \in {"quarantined", "failed", "conflicted"}
    PROVE  SoundRun(Counted(call, outcome))
<1> DEFINE next == Counted(call, outcome)
<1>1. /\ DOMAIN next = RunKeys /\ next.pc = "artifact" /\ next.request = call.request
      /\ next.next = call.next + 1 /\ next.flag = 1 /\ next.facts = <<>>
      /\ next.counts = [call.counts EXCEPT ![outcome] = @ + 1]
  BY DEF Counted, NewCall, RunKeys
<1>2. /\ DOMAIN next.counts = DOMAIN call.counts /\ next.counts.parsed = call.counts.parsed
      /\ next.next \in Nat \ {0}
  BY <1>1 DEF SoundRun
<1> HIDE DEF next
<1>3. QED
  BY <1>1, <1>2 DEF SoundRun, RunOver, UnderWay, AtDocument, next

\* The steps that end the call, or go on without a look at a document.
LEMMA PlainRunStep ==
    ASSUME RunsInv, NEW r \in Runs,
           \/ CheckProfileOf(r) \/ Unread(r) \/ ParserFault(r) \/ Defect(r) \/ Quarantine(r)
           \/ BeginUnit(r) \/ Conflict(r) \/ Locked(r) \/ Strike(r) \/ CommitFails(r)
           \/ RunDies(r),
           UNCHANGED profiles
    PROVE  RunsInv'
<1> DEFINE call == run[r]
<1> USE DEF RunOver, UnderWay, AtDocument
<1>0. SoundRun(call)
  BY DEF RunsInv
<1>1. CASE CheckProfileOf(r)
  <2> DEFINE next(pc) == [call EXCEPT !.pc = pc]
  <2>1. PICK pc : /\ Turn(r, next(pc))
                  /\ \/ pc = "artifact" /\ HasProfile(call.request.client)
                     \/ pc = "unprofiled"
    BY <1>1 DEF CheckProfileOf, CheckProfile, GoOn, Client
  <2>2. call.pc = "profile" /\ UNCHANGED <<documents, flags>>
    BY <1>1 DEF CheckProfileOf, CheckProfile
  <2>3. SoundRun(next(pc))
    BY <1>0, <2>1, <2>2 DEF SoundRun, FiledOf
  <2>4. QED
    BY <2>1, <2>2, <2>3, RunGoesOn
<1>2. CASE Unread(r)
  <2>1. SoundRun([call EXCEPT !.pc = "failing"])
    BY <1>0, <1>2 DEF SoundRun, Unread, AtArtifact
  <2>2. QED
    BY <1>2, <2>1, RunGoesOn DEF Unread, GoOn
<1>3. CASE ParserFault(r) \/ Quarantine(r) \/ Conflict(r)
  <2>1. PICK outcome \in {"quarantined", "failed", "conflicted"} : Turn(r, Counted(call, outcome))
    BY <1>3 DEF ParserFault, Quarantine, Conflict, Count, Counted
  <2>2. call.pc \in {"artifact"} \cup AtDocument /\ UNCHANGED <<documents, flags>>
    BY <1>3 DEF ParserFault, Quarantine, Conflict, AtArtifact
  <2>3. SoundRun(Counted(call, outcome))
    BY <1>0, <2>2, CountedIsSound
  <2>4. QED
    BY <2>1, <2>2, <2>3, RunGoesOn
<1>4. CASE BeginUnit(r)
  <2>1. SoundRun([call EXCEPT !.pc = "save"])
    BY <1>0, <1>4 DEF SoundRun, BeginUnit, DocOf
  <2>2. QED
    BY <1>4, <2>1, RunGoesOn DEF BeginUnit, GoOn
<1>5. CASE Defect(r) \/ Locked(r) \/ Strike(r) \/ RunDies(r)
  <2>1. /\ \E pc \in RunOver : \E cause : EndWith(r, pc, cause)
        /\ UNCHANGED <<documents, flags>>
    BY <1>5 DEF Defect, Locked, Strike, RunDies, Surface
  <2>2. QED
    BY <2>1, RunEnds
<1>6. CASE CommitFails(r)
  <2> DEFINE next == [call EXCEPT !.cause = "commit"]
  <2>1. /\ DOMAIN next = RunKeys /\ next.pc = call.pc /\ next.request = call.request
        /\ next.next = call.next /\ next.counts = call.counts /\ next.now = call.now
        /\ next.flag = call.flag /\ next.facts = call.facts /\ next.row = call.row
    BY <1>0 DEF SoundRun, RunKeys
  <2>2. DOMAIN call = RunKeys /\ DocOf(next) = DocOf(call) /\ Deserved(next) = Deserved(call)
    BY <1>0, <2>1 DEF SoundRun, DocOf, Deserved
  <2> HIDE DEF next
  <2>3. SoundFacts(call) => SoundFacts(next)
    BY <2>1, <2>2 DEF SoundFacts
  <2>4. SoundRun(next)
    BY <1>0, <2>1, <2>2, <2>3 DEF SoundRun
  <2>5. QED
    BY <1>6, <2>4, RunGoesOn DEF CommitFails, next
<1>7. QED
  BY <1>1, <1>2, <1>3, <1>4, <1>5, <1>6
\* The document in hand is one of the batch, and its flags are a sequence.
LEMMA DocumentInHand ==
    ASSUME NEW call, SoundRun(call), call.request \in Batches,
           call.next \in DOMAIN call.request.artifacts
    PROVE  /\ DocOf(call) \in Range(call.request.artifacts)
           /\ Deserved(call) \in Seq(FlagTypes) /\ Distinct(Deserved(call))
           /\ DOMAIN Deserved(call) = 1..Len(Deserved(call)) /\ Len(Deserved(call)) \in Nat
<1>1. DocOf(call) \in Range(call.request.artifacts)
  BY DEF DocOf, Range
<1>2. Deserved(call) \in Seq(FlagTypes) /\ Distinct(Deserved(call))
  BY FlagsOfDocument DEF Deserved
<1>3. QED
  BY <1>1, <1>2, LenProperties

\* What the clock shows when the document is projected dates it.
LEMMA ProjectStep ==
    ASSUME RunsInv, clock \in 0..MaxClock, NEW r \in Runs, Project(r), UNCHANGED profiles
    PROVE  RunsInv'
<1> DEFINE call == run[r]
           next == [call EXCEPT !.pc = "begin", !.now = clock]
<1>0. SoundRun(call)
  BY DEF RunsInv
<1>1. /\ call.pc = "artifact" /\ call.request \in Batches
      /\ call.next <= Len(call.request.artifacts)
  BY <1>0 DEF Project, AtArtifact, SoundRun, UnderWay, Artifacts
<1>2. call.next \in DOMAIN call.request.artifacts
  <2>1. DOMAIN call.request.artifacts = 1..Len(call.request.artifacts)
    BY <1>1, BatchAssumption, LenProperties
  <2>2. QED
    BY <1>0, <1>1, <2>1 DEF SoundRun
<1>3. DocOf(call).name \in Uuids
  BY DEF Project, Projected, ProjectDocument, QuarantineReason, Artifact, Artifacts, DocOf
<1>4. /\ DOMAIN next = RunKeys /\ next.pc = "begin" /\ next.now = clock
      /\ next.request = call.request /\ next.next = call.next /\ next.counts = call.counts
      /\ next.flag = call.flag /\ next.facts = call.facts
  BY <1>0 DEF SoundRun, RunKeys
<1>5. DocOf(next) = DocOf(call)
  BY <1>4 DEF DocOf
<1> HIDE DEF next
<1>6. SoundRun(next)
  BY <1>0, <1>1, <1>2, <1>3, <1>4, <1>5 DEF SoundRun, RunOver, UnderWay, AtDocument
<1>7. QED
  BY <1>6, RunGoesOn DEF Project, next

\* The row that is written is the first one, or continues the one on file.
LEMMA SaveStep ==
    ASSUME RunsInv, FileInv, NEW r \in Runs, SaveDocument(r), UNCHANGED profiles
    PROVE  RunsInv'
<1> DEFINE call == run[r]
           doc == DocOf(call)
           old == documents[doc.name]
           row == IF old = None THEN NewRow(r) ELSE ProjectionRow(old, r)
           next == [call EXCEPT !.pc = "open", !.row = row]
<1>0. SoundRun(call)
  BY DEF RunsInv
<1>1. /\ call.pc = "save" /\ call.request \in Batches
      /\ call.next \in DOMAIN call.request.artifacts
      /\ HasProfile(call.request.client) /\ doc.name \in Uuids /\ call.now \in 0..MaxClock
      /\ call.flag = 1 /\ call.facts = <<>>
  BY <1>0 DEF SaveDocument, SoundRun, UnderWay, AtDocument
<1>2. doc = Artifact(r) /\ call.request.client = Client(r)
  BY DEF DocOf, Artifact, Artifacts, Client
<1>3. old # None => old.hash = HashOf(doc.bytes)
  BY <1>2 DEF SaveDocument
<1>4. HashOf(doc.bytes) \in {HashOf(a.bytes) : a \in UNION {Range(b.artifacts) : b \in Batches}}
  BY <1>0, <1>1, DocumentInHand
<1>5. SoundRow(row, doc)
  <2>1. CASE old = None
    <3>1. NewRow(r) \in Rows
      BY <1>1, <1>2, <1>4
      DEF NewRow, Rows, Projected, ProjectDocument, ResolvePerspective, Resolved
    <3>2. QED
      BY <1>1, <1>2, <2>1, <3>1 DEF SoundRow, NewRow
  <2>2. CASE old # None
    <3>1. /\ old \in Rows /\ old.firstSeen <= old.lastSeen /\ HasProfile(old.contributor)
          /\ old.firstSeen \in Nat /\ old.lastSeen \in Nat /\ call.now \in Nat
      BY <1>1, <2>2 DEF FileInv, Rows
    <3> DEFINE last == IF call.now > old.lastSeen THEN call.now ELSE old.lastSeen
               moved == [old EXCEPT !.lastSeen = last, !.lastRun = r]
    <3>2. moved \in Rows /\ moved.hash = old.hash /\ moved.contributor = old.contributor
          /\ moved.firstSeen = old.firstSeen /\ moved.lastSeen = last
      BY <1>1, <3>1 DEF Rows
    <3>3. row = moved
      BY <2>2 DEF ProjectionRow
    <3> HIDE DEF moved
    <3>4. QED
      BY <1>3, <2>2, <3>1, <3>2, <3>3 DEF SoundRow
  <2>3. QED
    BY <2>1, <2>2
<1>6. /\ DOMAIN next = RunKeys /\ next.pc = "open" /\ next.row = row /\ next.now = call.now
      /\ next.request = call.request /\ next.next = call.next /\ next.counts = call.counts
      /\ next.flag = call.flag /\ next.facts = call.facts
  BY <1>0 DEF SoundRun, RunKeys
<1> HIDE DEF next, row
<1>7. DocOf(next) = doc /\ Deserved(next) = Deserved(call)
  BY <1>6 DEF DocOf, Deserved
<1>8. SoundFacts(next)
  <2>1. next.flag = 1 /\ next.facts = <<>> /\ DOMAIN Deserved(next) \subseteq Nat \ {0}
    BY <1>0, <1>1, <1>6, <1>7, DocumentInHand
  <2>2. QED
    BY <2>1 DEF SoundFacts
<1>9. SoundRun(next)
  BY <1>0, <1>1, <1>5, <1>6, <1>7, <1>8 DEF SoundRun, RunOver, UnderWay, AtDocument
<1>10. QED
  BY <1>2, <1>9, RunGoesOn DEF SaveDocument, next, row

\* The next flag is open already, or it is appended: no other opening has it.
LEMMA OpenStep ==
    ASSUME RunsInv, clock \in 0..MaxClock, NEW r \in Runs, OpenFlag(r), UNCHANGED profiles
    PROVE  RunsInv'
<1> DEFINE call == run[r]
           doc == DocOf(call)
           deserved == Deserved(call)
           type == deserved[call.flag]
           isOpen == type \in OpenTypes(flags, doc.name)
           stated == [subject |-> doc.name, type |-> type, at |-> call.now, closes |-> None]
           facts == IF isOpen THEN call.facts ELSE Append(call.facts, stated)
           next == [call EXCEPT !.flag = call.flag + 1, !.facts = facts]
<1>0. SoundRun(call)
  BY DEF RunsInv
<1>1. /\ call.pc = "open" /\ call.request \in Batches
      /\ call.next \in DOMAIN call.request.artifacts
      /\ doc.name \in Uuids /\ call.now \in 0..MaxClock
      /\ SoundRow(call.row, doc) /\ SoundFacts(call)
  BY <1>0 DEF OpenFlag, SoundRun, UnderWay, AtDocument
<1>2. /\ doc = Artifact(r) /\ deserved = Projected(r).flags
      /\ call.flag <= Len(deserved)
  BY DEF DocOf, Artifact, Artifacts, Client, Projected, Deserved, OpenFlag, FlagsLeft
<1>3. /\ deserved \in Seq(FlagTypes) /\ Distinct(deserved)
      /\ DOMAIN deserved = 1..Len(deserved) /\ Len(deserved) \in Nat
  BY <1>0, <1>1, DocumentInHand
<1>4. call.flag \in DOMAIN deserved /\ type \in FlagTypes
  BY <1>1, <1>2, <1>3, ElementOfSeq DEF SoundFacts
<1>5. Turn(r, next)
  BY <1>2 DEF OpenFlag, Opening
<1>6. /\ DOMAIN next = RunKeys /\ next.pc = call.pc /\ next.row = call.row
      /\ next.now = call.now /\ next.request = call.request /\ next.next = call.next
      /\ next.counts = call.counts /\ next.flag = call.flag + 1 /\ next.facts = facts
  BY <1>0 DEF SoundRun, RunKeys
<1> HIDE DEF next
<1>7. DocOf(next) = doc /\ Deserved(next) = deserved
  BY <1>6 DEF DocOf, Deserved
<1>8. stated \in Fact
  BY <1>1, <1>4 DEF Fact
<1>9. SoundFacts(next)
  <2> DEFINE open == OpenTypes(flags, doc.name)
  <2>1. /\ call.flag \in Nat \ {0} /\ call.facts \in Seq(Fact)
        /\ DOMAIN call.facts = 1..Len(call.facts) /\ Len(call.facts) \in Nat
    BY <1>1, LenProperties DEF SoundFacts
  <2>2. ASSUME NEW i \in DOMAIN call.facts
        PROVE  /\ call.facts[i].subject = doc.name /\ call.facts[i].closes = None
               /\ call.facts[i].type \notin open /\ call.facts[i].type # type
               /\ \E n \in DOMAIN deserved :
                     n < call.flag /\ deserved[n] = call.facts[i].type
    <3>1. PICK n \in DOMAIN deserved : n < call.flag /\ deserved[n] = call.facts[i].type
      BY <1>1 DEF SoundFacts
    <3>2. n # call.flag
      BY <1>3, <2>1, <3>1
    <3>3. deserved[n] # type
      BY <1>3, <1>4, <3>2 DEF Distinct
    <3>4. QED
      BY <1>1, <3>1, <3>3 DEF SoundFacts
  <2>3. \A i, j \in DOMAIN call.facts : call.facts[i].type = call.facts[j].type => i = j
    BY <1>1 DEF SoundFacts
  <2>4. \A n \in DOMAIN deserved : n < call.flag =>
           deserved[n] \in open \/ \E i \in DOMAIN call.facts : call.facts[i].type = deserved[n]
    BY <1>1 DEF SoundFacts
  <2>5. \A n \in DOMAIN deserved : n < call.flag + 1 => n < call.flag \/ deserved[n] = type
    BY <1>3, <2>1
  <2>6. \A n \in DOMAIN deserved : n < call.flag => n < call.flag + 1
    BY <1>3, <2>1
  <2>7. call.flag < call.flag + 1 /\ call.flag + 1 \in Nat \ {0}
    BY <2>1
  <2>8. SUFFICES
          /\ facts \in Seq(Fact)
          /\ \A i \in DOMAIN facts :
                /\ facts[i].subject = doc.name /\ facts[i].closes = None
                /\ facts[i].type \notin open
                /\ \E n \in DOMAIN deserved : n < call.flag + 1 /\ deserved[n] = facts[i].type
          /\ \A i, j \in DOMAIN facts : facts[i].type = facts[j].type => i = j
          /\ \A n \in DOMAIN deserved : n < call.flag + 1 =>
                deserved[n] \in open \/ \E i \in DOMAIN facts : facts[i].type = deserved[n]
    <3> HIDE DEF facts, open
    <3> QED BY <1>6, <1>7, <2>7 DEF SoundFacts, open
  <2> HIDE DEF deserved, doc, open
  <2>9. CASE isOpen
    <3>1. facts = call.facts /\ type \in open
      BY <2>9 DEF open
    <3> HIDE DEF facts
    <3>2. QED
      BY <2>1, <2>2, <2>3, <2>4, <2>5, <2>6, <3>1
  <2>10. CASE ~ isOpen
    <3>1. /\ facts = Append(call.facts, stated) /\ type \notin open
          /\ stated.subject = doc.name /\ stated.closes = None /\ stated.type = type
      BY <2>10 DEF open
    <3> HIDE DEF stated
    <3>2. /\ facts \in Seq(Fact) /\ DOMAIN facts = 1..Len(call.facts) + 1
          /\ \A i \in 1..Len(call.facts) + 1 :
                facts[i] = IF i \in DOMAIN call.facts THEN call.facts[i] ELSE stated
      BY <1>8, <2>1, <3>1, AppendProperties, LenProperties
    <3> HIDE DEF facts
    <3>3. ASSUME NEW i \in DOMAIN facts
          PROVE  /\ i \in DOMAIN call.facts \/ i = Len(call.facts) + 1
                 /\ i \in DOMAIN call.facts => facts[i] = call.facts[i]
                 /\ i \notin DOMAIN call.facts => facts[i] = stated
      BY <2>1, <3>2
    <3>4. Len(call.facts) + 1 \in DOMAIN facts /\ DOMAIN call.facts \subseteq DOMAIN facts
          /\ Len(call.facts) + 1 \notin DOMAIN call.facts
      BY <2>1, <3>2
    <3> HIDE DEF type
    <3>5. \A i \in DOMAIN facts :
             /\ facts[i].subject = doc.name /\ facts[i].closes = None
             /\ facts[i].type \notin open
             /\ \E n \in DOMAIN deserved : n < call.flag + 1 /\ deserved[n] = facts[i].type
      BY <1>4, <2>2, <2>6, <2>7, <3>1, <3>3 DEF type
    <3>6. \A i, j \in DOMAIN facts : facts[i].type = facts[j].type => i = j
      BY <2>2, <2>3, <3>1, <3>3
    <3>7. \A n \in DOMAIN deserved : n < call.flag + 1 =>
             deserved[n] \in open \/ \E i \in DOMAIN facts : facts[i].type = deserved[n]
      BY <2>4, <2>5, <3>1, <3>3, <3>4
    <3>8. QED
      BY <3>2, <3>5, <3>6, <3>7
  <2>11. QED
    BY <2>9, <2>10
<1>10. SoundRun(next)
  BY <1>0, <1>1, <1>6, <1>7, <1>9 DEF SoundRun, RunOver, UnderWay, AtDocument
<1>11. QED
  BY <1>5, <1>10, RunGoesOn DEF OpenFlag
(*************************** The rows of flags *****************************)

\* Rows that close nothing leave what is open open, and are open themselves.
LEMMA OpeningsAppended ==
    ASSUME NEW before \in Seq(Fact), ClosesEarlier(before),
           NEW opened \in Seq(Fact), \A i \in DOMAIN opened : opened[i].closes = None
    PROVE  /\ before \o opened \in Seq(Fact)
           /\ ClosesEarlier(before \o opened)
           /\ DOMAIN (before \o opened) = 1..Len(before) + Len(opened)
           /\ \A i \in DOMAIN before : i \in DOMAIN (before \o opened)
                                         /\ (before \o opened)[i] = before[i]
           /\ \A i \in DOMAIN opened :
                 /\ Len(before) + i \in DOMAIN (before \o opened)
                 /\ (before \o opened)[Len(before) + i] = opened[i]
           /\ \A id \in Nat : ClosuresOf(before \o opened, id) = ClosuresOf(before, id)
           /\ \A i \in DOMAIN opened : ClosuresOf(before, Len(before) + i) = {}
           /\ \A i \in DOMAIN (before \o opened) :
                 i \in DOMAIN before \/ \E n \in DOMAIN opened : i = Len(before) + n
           /\ \A u : OpenFlags(before \o opened, u) =
                 OpenFlags(before, u)
                 \cup {Len(before) + i : i \in {n \in DOMAIN opened : opened[n].subject = u}}
<1> DEFINE after == before \o opened
<1>1. /\ DOMAIN before = 1..Len(before) /\ Len(before) \in Nat
      /\ DOMAIN opened = 1..Len(opened) /\ Len(opened) \in Nat
  BY LenProperties
<1>2. /\ after \in Seq(Fact) /\ Len(after) = Len(before) + Len(opened)
      /\ \A i \in 1..Len(before) + Len(opened) :
            after[i] = IF i <= Len(before) THEN before[i] ELSE opened[i - Len(before)]
  BY ConcatProperties
<1>3. DOMAIN after = 1..Len(before) + Len(opened)
  BY <1>2, LenProperties
<1> HIDE DEF after
<1>4. /\ \A i \in DOMAIN before : i \in DOMAIN after /\ after[i] = before[i]
      /\ \A i \in DOMAIN opened :
            Len(before) + i \in DOMAIN after /\ after[Len(before) + i] = opened[i]
  <2>1. ASSUME NEW i \in DOMAIN before
        PROVE  i \in DOMAIN after /\ after[i] = before[i]
    BY <1>1, <1>2, <1>3
  <2>2. ASSUME NEW i \in DOMAIN opened
        PROVE  Len(before) + i \in DOMAIN after /\ after[Len(before) + i] = opened[i]
    <3>1. /\ Len(before) + i \in 1..Len(before) + Len(opened) /\ ~ (Len(before) + i <= Len(before))
          /\ Len(before) + i - Len(before) = i
      BY <1>1
    <3>2. QED
      BY <1>2, <1>3, <3>1
  <2>3. QED
    BY <2>1, <2>2
<1>5. ASSUME NEW i \in DOMAIN after
      PROVE  i \in DOMAIN before \/ \E n \in DOMAIN opened : i = Len(before) + n
  <2>1. i \in 1..Len(before) \/ (i - Len(before) \in 1..Len(opened) /\ i = Len(before) + (i - Len(before)))
    BY <1>1, <1>3
  <2>2. QED
    BY <1>1, <2>1
<1>6. ClosesEarlier(after)
  BY <1>4, <1>5 DEF ClosesEarlier
<1>7. ASSUME NEW id \in Nat
      PROVE  ClosuresOf(after, id) = ClosuresOf(before, id)
  BY <1>4, <1>5, ClockAssumption DEF ClosuresOf
<1>8. \A n \in DOMAIN opened : ClosuresOf(before, Len(before) + n) = {}
  <2> SUFFICES ASSUME NEW n \in DOMAIN opened, NEW i \in ClosuresOf(before, Len(before) + n)
               PROVE  FALSE
    OBVIOUS
  <2>1. i \in 1..Len(before) /\ before[i].closes = Len(before) + n
    BY <1>1 DEF ClosuresOf
  <2>2. Len(before) + n \in Nat /\ ~ (Len(before) + n <= i - 1)
    BY <1>1, <2>1
  <2>3. Len(before) + n \in 1..i - 1
    BY <1>1, <2>1, <2>2, ClockAssumption DEF ClosesEarlier
  <2>4. QED
    BY <1>1, <2>1, <2>2, <2>3
<1>9. ASSUME NEW u
      PROVE  OpenFlags(after, u) = OpenFlags(before, u)
                \cup {Len(before) + i : i \in {n \in DOMAIN opened : opened[n].subject = u}}
  <2>1. \A i \in DOMAIN before : i \in OpenFlags(after, u) <=> i \in OpenFlags(before, u)
    BY <1>1, <1>4, <1>7 DEF OpenFlags
  <2>2. \A n \in DOMAIN opened :
           Len(before) + n \in OpenFlags(after, u) <=> opened[n].subject = u
    <3>1. \A n \in DOMAIN opened : Len(before) + n \in Nat
      BY <1>1
    <3>2. QED
      BY <1>4, <1>7, <1>8, <3>1 DEF OpenFlags
  <2>3. OpenFlags(after, u) \subseteq DOMAIN after /\ OpenFlags(before, u) \subseteq DOMAIN before
    BY DEF OpenFlags
  <2>4. QED
    BY <1>5, <2>1, <2>2, <2>3
<1>10. QED
  BY <1>2, <1>3, <1>4, <1>5, <1>6, <1>7, <1>8, <1>9 DEF after

\* A closure takes its opening, and nothing else, out of what is open.
LEMMA ClosureAppended ==
    ASSUME NEW before \in Seq(Fact), ClosesEarlier(before),
           NEW id \in DOMAIN before, before[id].closes = None,
           NEW fact \in Fact, fact.closes = id
    PROVE  /\ Append(before, fact) \in Seq(Fact)
           /\ ClosesEarlier(Append(before, fact))
           /\ DOMAIN Append(before, fact) = 1..Len(before) + 1
           /\ \A i \in DOMAIN before : i \in DOMAIN Append(before, fact)
                                         /\ Append(before, fact)[i] = before[i]
           /\ Append(before, fact)[Len(before) + 1] = fact
           /\ ClosuresOf(Append(before, fact), id) = ClosuresOf(before, id) \cup {Len(before) + 1}
           /\ \A x : x # id => ClosuresOf(Append(before, fact), x) = ClosuresOf(before, x)
           /\ \A u : OpenFlags(Append(before, fact), u) = OpenFlags(before, u) \ {id}
<1> DEFINE after == Append(before, fact)
           last == Len(before) + 1
<1>1. DOMAIN before = 1..Len(before) /\ Len(before) \in Nat
  BY LenProperties
<1>2. /\ after \in Seq(Fact) /\ DOMAIN after = 1..last
      /\ \A i \in 1..Len(before) : after[i] = before[i]
      /\ after[last] = fact
  BY AppendProperties, LenProperties
<1> HIDE DEF after
<1>3. /\ DOMAIN after = DOMAIN before \cup {last} /\ last \notin DOMAIN before
      /\ \A i \in DOMAIN before : after[i] = before[i]
  BY <1>1, <1>2
<1>4. id \in 1..last - 1 /\ id # None
  BY <1>1, ClockAssumption
<1>5. ClosesEarlier(after)
  BY <1>1, <1>2, <1>3, <1>4 DEF ClosesEarlier
<1>6. /\ ClosuresOf(after, id) = ClosuresOf(before, id) \cup {last}
      /\ \A x : x # id => ClosuresOf(after, x) = ClosuresOf(before, x)
  BY <1>2, <1>3 DEF ClosuresOf
<1>7. ASSUME NEW u
      PROVE  OpenFlags(after, u) = OpenFlags(before, u) \ {id}
  <2>1. last \notin OpenFlags(after, u)
    BY <1>2, <1>4 DEF OpenFlags
  <2>2. id \notin OpenFlags(after, u)
    BY <1>6 DEF OpenFlags
  <2>3. \A i \in DOMAIN before \ {id} : i \in OpenFlags(after, u) <=> i \in OpenFlags(before, u)
    BY <1>3, <1>6 DEF OpenFlags
  <2>4. OpenFlags(after, u) \subseteq DOMAIN after /\ OpenFlags(before, u) \subseteq DOMAIN before
    BY DEF OpenFlags
  <2>5. QED
    BY <1>3, <2>1, <2>2, <2>3, <2>4
<1>8. QED
  BY <1>2, <1>3, <1>5, <1>6, <1>7 DEF after
(******************************* COMMIT ************************************)

\* COMMIT, by the run or by the call that finds its transaction open.
Commits(r) == Commit(r) \/ StartOver(r)

\* What a run that commits brings.
LEMMA CommitBrings ==
    ASSUME RunsInv, RunLockInv, NEW r \in Runs, Commits(r)
    PROVE  LET call == run[r]
               name == DocOf(call).name
           IN  /\ SoundRun(call) /\ call.request \in Batches
               /\ DocOf(call) \in Range(call.request.artifacts) /\ name \in Uuids
               /\ SoundRow(call.row, DocOf(call)) /\ SoundFacts(call)
               /\ \A n \in DOMAIN Deserved(call) : n < call.flag
               /\ documents' = [documents EXCEPT ![name] = call.row]
               /\ flags' = flags \o call.facts
               /\ \A s \in Runs \ {r} : run[s].pc # "open"
<1> DEFINE call == run[r]
<1> USE DEF Commits, Commit, StartOver, Uncommitted, AtCommit
<1>1. SoundRun(call) /\ call.pc = "open"
  BY DEF RunsInv
<1>2. /\ call.request \in Batches /\ call.next \in DOMAIN call.request.artifacts
      /\ DocOf(call).name \in Uuids /\ SoundRow(call.row, DocOf(call)) /\ SoundFacts(call)
  BY <1>1 DEF SoundRun, UnderWay, AtDocument
<1>3. /\ DocOf(call) = Artifact(r) /\ Deserved(call) = Projected(r).flags
  BY DEF DocOf, Artifact, Artifacts, Client, Projected, Deserved
<1>4. /\ DocOf(call) \in Range(call.request.artifacts)
      /\ DOMAIN Deserved(call) = 1..Len(Deserved(call)) /\ Len(Deserved(call)) \in Nat
  BY <1>1, <1>2, DocumentInHand
<1>5. call.flag \in Nat /\ ~ (call.flag <= Len(Deserved(call)))
  BY <1>2, <1>3 DEF FlagsLeft, SoundFacts
<1>6. \A n \in DOMAIN Deserved(call) : n < call.flag
  BY <1>4, <1>5
<1>7. /\ documents' = [documents EXCEPT ![DocOf(call).name] = call.row]
      /\ flags' = flags \o call.facts
  BY <1>3 DEF CommitUnit
<1>8. \A s \in Runs \ {r} : run[s].pc # "open"
  BY <1>1 DEF RunLockInv
<1>9. QED
  BY <1>1, <1>2, <1>4, <1>6, <1>7, <1>8

\* What is on file stays on file, under the same hash; the document of the run
\* that commits is on file now.
LEMMA FiledStays ==
    ASSUME RunsInv, RunLockInv, FileInv, NEW r \in Runs, Commits(r), UNCHANGED profiles
    PROVE  /\ FileInv'
           /\ \A request : FiledOf(request) \/ request = run[r].request => FiledOf(request)'
<1> DEFINE call == run[r]
           name == DocOf(call).name
<1>1. /\ call.request \in Batches /\ DocOf(call) \in Range(call.request.artifacts)
      /\ name \in Uuids /\ SoundRow(call.row, DocOf(call))
      /\ documents' = [documents EXCEPT ![name] = call.row]
  BY CommitBrings
<1>2. /\ call.row \in Rows /\ call.row # None /\ call.row.hash = HashOf(DocOf(call).bytes)
      /\ call.row.firstSeen <= call.row.lastSeen /\ HasProfile(call.row.contributor)
      /\ documents[name] # None => call.row.hash = documents[name].hash
  BY <1>1, BatchAssumption DEF SoundRow
<1>3. /\ documents' \in [Uuids -> Rows \cup {None}] /\ documents'[name] = call.row
      /\ \A u \in Uuids \ {name} : documents'[u] = documents[u]
  BY <1>1, <1>2 DEF FileInv
<1>4. FileInv'
  BY <1>2, <1>3 DEF FileInv, HasProfile, VersionsOf
<1>5. ASSUME NEW request, FiledOf(request)
      PROVE  FiledOf(request)'
  BY <1>2, <1>3, <1>5 DEF FiledOf
<1>6. ASSUME NEW request, request = call.request
      PROVE  FiledOf(request)'
  <2>1. DocOf(call) \in Range(request.artifacts)
    BY <1>1, <1>6
  <2> DEFINE doc == DocOf(call)
             bytes == call.row.hash
  <2>2. documents'[doc.name] # None /\ documents'[doc.name].hash = HashOf(doc.bytes)
    BY <1>2, <1>3
  <2>3. \A a : a \in Range(request.artifacts) /\ a.name \in Uuids /\ documents'[a.name] # None
               /\ documents'[a.name].hash = HashOf(a.bytes) => FiledOf(request)'
    BY DEF FiledOf
  <2>4. QED
    BY <1>1, <2>1, <2>2, <2>3
<1>7. QED
  BY <1>4, <1>5, <1>6

\* The openings of a document that is filed open no flag twice.
LEMMA CommitOpens ==
    ASSUME RunsInv, RunLockInv, FlagInv, NEW r \in Runs, Commits(r)
    PROVE  /\ FlagInv'
           /\ \A i \in DOMAIN flags : i \in DOMAIN flags' /\ flags'[i] = flags[i]
<1> DEFINE call == run[r]
           name == DocOf(call).name
           opened == call.facts
           after == flags \o opened
<1>1. flags' = after /\ SoundFacts(call)
  BY CommitBrings
<1>2. /\ flags \in Seq(Fact) /\ ClosesEarlier(flags)
      /\ opened \in Seq(Fact) /\ \A i \in DOMAIN opened : opened[i].closes = None
  BY <1>1 DEF FlagInv, SoundFacts
<1>3. /\ after \in Seq(Fact) /\ ClosesEarlier(after)
      /\ \A i \in DOMAIN flags : i \in DOMAIN after /\ after[i] = flags[i]
      /\ \A i \in DOMAIN opened :
            Len(flags) + i \in DOMAIN after /\ after[Len(flags) + i] = opened[i]
      /\ \A id \in Nat : ClosuresOf(after, id) = ClosuresOf(flags, id)
      /\ \A i \in DOMAIN opened : ClosuresOf(flags, Len(flags) + i) = {}
      /\ \A i \in DOMAIN after : i \in DOMAIN flags \/ \E n \in DOMAIN opened : i = Len(flags) + n
      /\ \A u : OpenFlags(after, u) =
            OpenFlags(flags, u)
            \cup {Len(flags) + i : i \in {n \in DOMAIN opened : opened[n].subject = u}}
  BY <1>2, OpeningsAppended
<1> HIDE DEF after
<1>4. \A i \in DOMAIN after : Cardinality(ClosuresOf(after, i)) <= 1
  <2>1. /\ DOMAIN flags \subseteq Nat /\ Len(flags) \in Nat
        /\ DOMAIN opened \subseteq Nat
    BY <1>2, LenProperties
  <2>2. ASSUME NEW i \in DOMAIN flags
        PROVE  Cardinality(ClosuresOf(after, i)) <= 1
    BY <1>3, <2>1 DEF FlagInv, ClosedOnce
  <2>3. ASSUME NEW n \in DOMAIN opened
        PROVE  Cardinality(ClosuresOf(after, Len(flags) + n)) <= 1
    <3>1. ClosuresOf(after, Len(flags) + n) = {}
      <4>1. Len(flags) + n \in Nat
        BY <2>1
      <4>2. QED
        BY <1>3, <4>1
    <3>2. Cardinality({}) <= 1
      BY FS_EmptySet
    <3>3. QED
      BY <3>1, <3>2, Zenon
  <2>4. ASSUME NEW i \in DOMAIN after, i \notin DOMAIN flags
        PROVE  Cardinality(ClosuresOf(after, i)) <= 1
    <3>1. PICK n \in DOMAIN opened : i = Len(flags) + n
      BY <1>3, <2>4
    <3>2. QED
      BY <2>3, <3>1
  <2>5. QED
    BY <2>2, <2>4
<1>5. ASSUME NEW u \in Uuids, NEW i \in OpenFlags(after, u), NEW j \in OpenFlags(after, u),
             after[i].type = after[j].type
      PROVE  i = j
  <2> DEFINE IsNew(k) == \E n \in DOMAIN opened : k = Len(flags) + n /\ opened[n].subject = u
  <2>1. \A k \in OpenFlags(after, u) : k \in OpenFlags(flags, u) \/ IsNew(k)
    BY <1>3
  <2>2. \A k \in OpenFlags(flags, u) : k \in DOMAIN flags /\ after[k] = flags[k]
                                       /\ flags[k].type \in OpenTypes(flags, u)
    BY <1>3 DEF OpenFlags, OpenTypes
  <2>3. ASSUME NEW k, IsNew(k)
        PROVE  after[k].type \notin OpenTypes(flags, u)
    <3>1. PICK n \in DOMAIN opened : k = Len(flags) + n /\ opened[n].subject = u
      BY <2>3
    <3>2. opened[n].subject = name /\ opened[n].type \notin OpenTypes(flags, name)
      BY <1>1 DEF SoundFacts
    <3>3. QED
      BY <1>3, <3>1, <3>2
  <2>4. \A n, m \in DOMAIN opened : opened[n].type = opened[m].type => n = m
    BY <1>1 DEF SoundFacts
  <2>5. CASE i \in OpenFlags(flags, u) /\ j \in OpenFlags(flags, u)
    BY <1>5, <2>2, <2>5 DEF FlagInv, OneOpenFlagPerType
  <2>6. CASE IsNew(i) /\ IsNew(j)
    BY <1>3, <1>5, <2>4, <2>6
  <2>7. QED
    BY <1>5, <2>1, <2>2, <2>3, <2>5, <2>6
<1>6. FlagInv'
  <2>1. ClosesEarlier(flags)' /\ flags' \in Seq(Fact)
    BY <1>1, <1>3 DEF ClosesEarlier
  <2>2. ClosedOnce'
    BY <1>1, <1>4 DEF ClosedOnce, ClosuresOf
  <2>3. OneOpenFlagPerType'
    BY <1>1, <1>5 DEF OneOpenFlagPerType, OpenFlags, ClosuresOf
  <2>4. QED
    BY <2>1, <2>2, <2>3 DEF FlagInv
<1>7. QED
  BY <1>1, <1>3, <1>6

\* COMMIT keeps every part of the invariant but the lock's.
LEMMA CommitStep ==
    ASSUME RunsInv, RunLockInv, TablesInv, NEW r \in Runs, Commits(r), UNCHANGED profiles
    PROVE  RunsInv' /\ TablesInv'
<1> DEFINE call == run[r]
<1>1. SoundRun(call) /\ \A s \in Runs \ {r} : run[s].pc # "open"
  BY CommitBrings
<1>2. /\ FileInv' /\ \A request : FiledOf(request) \/ request = call.request => FiledOf(request)'
      /\ FlagInv' /\ \A i \in DOMAIN flags : i \in DOMAIN flags' /\ flags'[i] = flags[i]
  BY FiledStays, CommitOpens DEF TablesInv
<1>3. PICK next :
        /\ Turn(r, next)
        /\ DOMAIN next = RunKeys /\ next.pc \in {"artifact", "profile"}
        /\ next.request = call.request /\ next.next \in Nat \ {0}
        /\ next.flag = 1 /\ next.facts = <<>>
        /\ DOMAIN next.counts = {"parsed", "quarantined", "failed", "conflicted"}
        /\ next.counts.parsed \in Nat
  <2>1. CASE Commit(r)
    <3> DEFINE counted == Counted(call, "parsed")
    <3>1. /\ DOMAIN counted = RunKeys /\ counted.pc = "artifact"
          /\ counted.request = call.request /\ counted.next = call.next + 1
          /\ counted.flag = 1 /\ counted.facts = <<>>
          /\ counted.counts = [call.counts EXCEPT !["parsed"] = @ + 1]
      BY DEF Counted, NewCall, RunKeys
    <3>2. /\ DOMAIN counted.counts = {"parsed", "quarantined", "failed", "conflicted"}
          /\ counted.counts.parsed \in Nat /\ counted.next \in Nat \ {0}
      BY <1>1, <3>1 DEF SoundRun
    <3>3. Turn(r, counted)
      BY <2>1 DEF Commit, Count, Counted
    <3> HIDE DEF counted
    <3>4. QED
      BY <3>1, <3>2, <3>3
  <2>2. CASE StartOver(r)
    <3> DEFINE again == NewCall("profile", call.request)
    <3>1. /\ DOMAIN again = RunKeys /\ again.pc = "profile" /\ again.request = call.request
          /\ again.next = 1 /\ again.flag = 1 /\ again.facts = <<>> /\ again.counts = NoCounts
      BY DEF NewCall, RunKeys
    <3>2. /\ DOMAIN again.counts = {"parsed", "quarantined", "failed", "conflicted"}
          /\ again.counts.parsed \in Nat /\ again.next \in Nat \ {0}
      BY <3>1 DEF NoCounts
    <3>3. Turn(r, again)
      BY <2>2 DEF StartOver
    <3> HIDE DEF again
    <3>4. QED
      BY <3>1, <3>2, <3>3
  <2>3. QED
    BY <2>1, <2>2 DEF Commits
<1>4. call.request \in Batches /\ HasProfile(call.request.client)
  <2>1. call.pc = "open"
    BY DEF Commits, Commit, StartOver, Uncommitted, AtCommit
  <2>2. QED
    BY <1>1, <2>1 DEF SoundRun, UnderWay, AtDocument
<1>5. ASSUME NEW x, SoundRun(x), x.pc # "open"
      PROVE  SoundRun(x)'
  BY <1>2, <1>5 DEF SoundRun, HasProfile, VersionsOf
<1>6. ASSUME NEW x, x = next
      PROVE  SoundRun(x)'
  <2>1. FiledOf(x.request)'
    BY <1>2, <1>3, <1>6
  <2>2. HasProfile(x.request.client)'
    BY <1>3, <1>4, <1>6 DEF HasProfile, VersionsOf
  <2>3. QED
    BY <1>3, <1>4, <1>6, <2>1, <2>2, BatchAssumption
    DEF SoundRun, RunOver, UnderWay, AtDocument
<1>7. \A s \in Runs \ {r} : run'[s] = run[s]
  BY <1>3 DEF RunsInv, Turn
<1>8. run'[r] = next /\ run' = [s \in Runs |-> run'[s]]
  BY <1>3 DEF RunsInv, Turn
<1>9. RunsInv'
  <2>1. \A s \in Runs \ {r} : SoundRun(run[s]) /\ run[s].pc # "open"
    BY <1>1 DEF RunsInv
  <2>2. \A s \in Runs : SoundRun(run[s])'
    <3>1. ASSUME NEW s \in Runs, NEW x, x = run'[s]
          PROVE  SoundRun(x)'
      BY <1>5, <1>6, <1>7, <1>8, <2>1, <3>1
    <3>2. QED
      BY <3>1
  <2>3. QED
    BY <1>8, <2>2 DEF RunsInv
<1>10. ReviewerInv'
  BY <1>2 DEF TablesInv, ReviewerInv, Commits, Commit, StartOver
<1>11. RunRowInv'
  <2>0. /\ runs' = [s \in Runs |-> runs'[s]]
        /\ \A s \in Runs : runs'[s] = runs[s] \/ runs'[s].status # "COMPLETED"
    <3>1. RunRow("RUNNING", None, NoCounts).status # "COMPLETED"
      BY DEF RunRow
    <3>2. QED
      BY <3>1 DEF TablesInv, RunRowInv, Commits, Commit, StartOver
  <2>1. \A s \in Runs : run'[s].request = run[s].request
    BY <1>3, <1>7, <1>8
  <2>2. ASSUME NEW s \in Runs, runs'[s] # None, runs'[s].status = "COMPLETED",
               NEW request, request = run[s].request
        PROVE  FiledOf(request)'
    <3>1. FiledOf(request)
      BY <2>0, <2>2 DEF TablesInv, RunRowInv, CompletedRunFiled, FiledOf, Artifacts
    <3>2. QED
      BY <1>2, <3>1
  <2>3. CompletedRunFiled'
    BY <2>1, <2>2 DEF CompletedRunFiled, FiledOf, Artifacts
  <2>4. QED
    BY <2>0, <2>3 DEF RunRowInv
<1>12. QED
  BY <1>2, <1>9, <1>10, <1>11 DEF TablesInv

(*************************** The other steps *******************************)

\* What a run was asked for stays.
LEMMA RequestsStay ==
    ASSUME RunsInv, NEW r \in Runs,
           RunActs(r)
    PROVE  \A s \in Runs : run'[s].request = run[s].request
<1>1. ASSUME NEW call, Turn(r, call), call.request = run[r].request
      PROVE  \A s \in Runs : run'[s].request = run[s].request
  BY <1>1 DEF RunsInv, Turn
<1>2. DOMAIN run[r] = RunKeys
  BY DEF RunsInv, SoundRun
<1>3. \A pc, cause : /\ NewCall(pc, run[r].request).request = run[r].request
                     /\ [NewCall(pc, run[r].request) EXCEPT !.cause = cause].request
                           = run[r].request
  BY DEF NewCall
<1>4. \A pc : [run[r] EXCEPT !.pc = pc].request = run[r].request
  BY <1>2 DEF RunKeys
<1>5. \A outcome : Counted(run[r], outcome).request = run[r].request
  BY DEF Counted, NewCall
<1>6. CASE \/ CheckProfileOf(r) \/ Unread(r) \/ BeginUnit(r)
  BY <1>1, <1>4, <1>6 DEF CheckProfileOf, CheckProfile, Unread, BeginUnit, GoOn
<1>7. CASE \/ CloseUnprofiled(r) \/ Close(r) \/ Fail(r) \/ Defect(r) \/ Locked(r) \/ Start(r)
           \/ StartOver(r) \/ Strike(r) \/ RunDies(r)
  BY <1>1, <1>3, <1>7 DEF CloseUnprofiled, Close, Fail, Defect, Locked, Start, StartOver, Strike,
     RunDies, Surface, EndWith
<1>8. CASE ParserFault(r) \/ Quarantine(r) \/ Conflict(r) \/ Commit(r)
  BY <1>1, <1>5, <1>8 DEF ParserFault, Quarantine, Conflict, Commit, Count, Counted
<1>9. CASE Project(r) \/ SaveDocument(r) \/ OpenFlag(r) \/ CommitFails(r)
  <2>1. \A row : [run[r] EXCEPT !.pc = "open", !.row = row].request = run[r].request
    BY <1>2 DEF RunKeys
  <2>2. \A now : [run[r] EXCEPT !.pc = "begin", !.now = now].request = run[r].request
    BY <1>2 DEF RunKeys
  <2>3. \A flag, facts : [run[r] EXCEPT !.flag = flag, !.facts = facts].request = run[r].request
    BY <1>2 DEF RunKeys
  <2>4. CASE Project(r)
    BY <1>1, <2>2, <2>4 DEF Project
  <2>5. CASE SaveDocument(r)
    <3>1. PICK row : Turn(r, [run[r] EXCEPT !.pc = "open", !.row = row])
      BY <2>5 DEF SaveDocument
    <3>2. QED
      BY <1>1, <2>1, <3>1
  <2>6. CASE OpenFlag(r)
    <3>1. PICK facts : Turn(r, [run[r] EXCEPT !.flag = run[r].flag + 1, !.facts = facts])
      BY <2>6 DEF OpenFlag
    <3>2. QED
      BY <1>1, <2>3, <3>1
  <2>7. CASE CommitFails(r)
    <3>1. [run[r] EXCEPT !.cause = "commit"].request = run[r].request
      BY <1>2 DEF RunKeys
    <3>2. QED
      BY <1>1, <2>7, <3>1 DEF CommitFails
  <2>8. QED
    BY <1>9, <2>4, <2>5, <2>6, <2>7
<1>10. QED
  BY <1>6, <1>7, <1>8, <1>9 DEF RunActs, RunStep

\* A run that is inside its transaction has it, and the others have not.
LEMMA RunHoldsLock ==
    ASSUME RunsInv, RunLockInv, NEW r \in Runs,
           RunActs(r)
    PROVE  RunLockInv'
<1> DEFINE call == run[r]
<1>0. DOMAIN call = RunKeys /\ DOMAIN run = Runs
  BY DEF RunsInv, SoundRun
<1>1. \A next : Turn(r, next) => /\ run'[r] = next
                                 /\ \A s \in Runs \ {r} : run'[s] = run[s]
  BY <1>0 DEF Turn
<1>2. /\ \E next : Turn(r, next)
      /\ (writer' = r) <=> (run'[r].pc \in {"save", "open"})
  <2>0. (writer = r) <=> (call.pc \in {"save", "open"})
    BY DEF RunLockInv
  <2> USE <2>0, ActorAssumption DEF RunOver, LockIsFree, LockedOut, Release
  <2>1. ASSUME NEW pc, NEW cause, EndWith(r, pc, cause)
        PROVE  (\E next : Turn(r, next)) /\ run'[r].pc = pc
    <3>1. [NewCall(pc, call.request) EXCEPT !.cause = cause].pc = pc
      BY DEF NewCall
    <3>2. QED
      BY <1>1, <2>1, <3>1 DEF EndWith
  <2>2. CASE CheckProfileOf(r) \/ Unread(r) \/ BeginUnit(r)
    <3>1. \A pc : [call EXCEPT !.pc = pc].pc = pc
      BY <1>0 DEF RunKeys
    <3>2. \A pc : GoOn(r, pc) => (\E next : Turn(r, next)) /\ run'[r].pc = pc
      BY <1>1, <3>1 DEF GoOn
    <3>3. CASE CheckProfileOf(r)
      BY <3>2, <3>3 DEF CheckProfileOf, CheckProfile
    <3>4. CASE Unread(r)
      BY <3>2, <3>4 DEF Unread, AtArtifact
    <3>5. CASE BeginUnit(r)
      BY <3>2, <3>5 DEF BeginUnit
    <3>6. QED
      BY <2>2, <3>3, <3>4, <3>5
  <2>3. CASE CloseUnprofiled(r) \/ Close(r) \/ Fail(r) \/ Start(r)
    <3>1. NewCall("profile", call.request).pc = "profile"
      BY DEF NewCall
    <3>2. QED
      BY <1>1, <2>1, <2>3, <3>1 DEF CloseUnprofiled, Close, Fail, Start, SaveRun
  <2>4. CASE Defect(r) \/ Locked(r) \/ Strike(r) \/ RunDies(r)
    BY <2>1, <2>4 DEF Defect, AtArtifact, Locked, Strike, RunDies, Surface
  <2>5. CASE ParserFault(r) \/ Quarantine(r) \/ Conflict(r) \/ Commit(r)
    <3>1. \A outcome : Counted(call, outcome).pc = "artifact"
      BY DEF Counted, NewCall
    <3>2. QED
      BY <1>1, <2>5, <3>1 DEF ParserFault, Quarantine, Conflict, Commit, CommitUnit, AtArtifact,
         Count, Counted
  <2>6. CASE Project(r)
    <3>1. [call EXCEPT !.pc = "begin", !.now = clock].pc = "begin"
      BY <1>0 DEF RunKeys
    <3>2. QED
      BY <1>1, <2>6, <3>1 DEF Project, AtArtifact
  <2>7. CASE SaveDocument(r)
    <3>1. \A row : [call EXCEPT !.pc = "open", !.row = row].pc = "open"
      BY <1>0 DEF RunKeys
    <3>2. PICK row : /\ Turn(r, [call EXCEPT !.pc = "open", !.row = row])
                     /\ call.pc = "save" /\ UNCHANGED writer
      BY <2>7 DEF SaveDocument
    <3>3. QED
      BY <1>1, <3>1, <3>2
  <2>8. CASE OpenFlag(r)
    <3>1. PICK flag, facts : Turn(r, [call EXCEPT !.flag = flag, !.facts = facts])
      BY <2>8 DEF OpenFlag
    <3>2. [call EXCEPT !.flag = flag, !.facts = facts].pc = call.pc
      BY <1>0 DEF RunKeys
    <3>3. QED
      BY <1>1, <2>8, <3>1, <3>2 DEF OpenFlag
  <2>9. CASE StartOver(r)
    <3>1. NewCall("profile", call.request).pc = "profile"
      BY DEF NewCall
    <3>2. QED
      BY <1>1, <2>9, <3>1 DEF StartOver, CommitUnit
  <2>10. CASE CommitFails(r)
    <3>1. [call EXCEPT !.cause = "commit"].pc = call.pc
      BY <1>0 DEF RunKeys
    <3>2. QED
      BY <1>1, <2>10, <3>1 DEF CommitFails
  <2>11. QED
    BY <2>2, <2>3, <2>4, <2>5, <2>6, <2>7, <2>8, <2>9, <2>10 DEF RunActs, RunStep
<1>3. \A s \in Runs \ {r} : (writer' = s) = (writer = s)
  BY RunLocks, ActorAssumption DEF LockStep, LockIsFree
<1>4. QED
  BY <1>1, <1>2, <1>3 DEF RunLockInv

\* The row says COMPLETED only of a run that filed a document.
LEMMA RunRowStep ==
    ASSUME RunsInv, TablesInv, NEW r \in Runs, UNCHANGED profiles,
           Start(r) \/ CloseUnprofiled(r) \/ Close(r) \/ Fail(r)
    PROVE  RunsInv' /\ RunRowInv'
<1> DEFINE call == run[r]
<1>0. SoundRun(call)
  BY DEF RunsInv
<1>1. RunsInv'
  <2>1. CASE Start(r)
    <3>1. SoundRun(NewCall("profile", call.request))
      BY <1>0, <2>1, FreshRunIsSound DEF Start, SoundRun
    <3>2. QED
      BY <2>1, <3>1, RunGoesOn DEF Start
  <2>2. CASE CloseUnprofiled(r) \/ Close(r) \/ Fail(r)
    <3>1. /\ \E pc \in RunOver : \E cause : EndWith(r, pc, cause)
          /\ UNCHANGED <<documents, flags>>
      BY <2>2 DEF CloseUnprofiled, Close, Fail, RunOver
    <3>2. QED
      BY <3>1, RunEnds
  <2>3. QED
    BY <2>1, <2>2
<1>2. PICK row : /\ runs' = [runs EXCEPT ![r] = row]
                 /\ row.status = "COMPLETED" => FiledOf(call.request)
  <2>1. CASE Start(r) \/ CloseUnprofiled(r) \/ Fail(r)
    <3>1. \A stage : /\ RunRow("RUNNING", stage, NoCounts).status # "COMPLETED"
                     /\ RunRow("FAILED", stage, NoCounts).status # "COMPLETED"
      BY DEF RunRow
    <3>2. QED
      BY <2>1, <3>1 DEF Start, CloseUnprofiled, Fail, SaveRun
  <2>2. CASE Close(r)
    <3>1. Outcome(call.counts).status = "COMPLETED" => call.counts.parsed > 0
      BY DEF Outcome, RunRow
    <3>2. QED
      BY <1>0, <2>2, <3>1 DEF Close, SaveRun, SoundRun
  <2>3. QED
    BY <2>1, <2>2
<1>3. UNCHANGED documents /\ \A s \in Runs : run'[s].request = run[s].request
  BY RequestsStay DEF Start, CloseUnprofiled, Close, Fail, RunActs, RunStep
<1>4. /\ runs' = [s \in Runs |-> runs'[s]] /\ runs'[r] = row
      /\ \A s \in Runs \ {r} : runs'[s] = runs[s]
  BY <1>2 DEF TablesInv, RunRowInv
<1>5. CompletedRunFiled'
  BY <1>2, <1>3, <1>4 DEF TablesInv, RunRowInv, CompletedRunFiled, FiledOf, Artifacts
<1>6. QED
  BY <1>1, <1>4, <1>5 DEF RunRowInv

\* The rows of the others stay as they are, and profiles are only added.
LEMMA TablesStay ==
    ASSUME RunsInv, TablesInv, profiles \subseteq profiles',
           UNCHANGED <<documents, flags>>
    PROVE  /\ FileInv' /\ FlagInv'
           /\ \A x : SoundRun(x) => SoundRun(x)'
           /\ UNCHANGED reviewer => ReviewerInv'
           /\ UNCHANGED run => RunsInv'
           /\ UNCHANGED runs /\ (\A r \in Runs : run'[r].request = run[r].request) => RunRowInv'
<1>1. \A client : HasProfile(client) => HasProfile(client)'
  BY DEF HasProfile, VersionsOf
<1>2. FileInv'
  BY <1>1 DEF TablesInv, FileInv
<1>3. FlagInv' /\ (UNCHANGED reviewer => ReviewerInv')
  BY DEF TablesInv, FlagInv, ClosesEarlier, ClosedOnce, OneOpenFlagPerType, OpenFlags,
         ClosuresOf, ReviewerInv
<1>4. \A x : SoundRun(x) => SoundRun(x)'
  BY <1>1 DEF SoundRun, FiledOf, SoundRow, SoundFacts, OpenTypes, OpenFlags, ClosuresOf
<1>5. UNCHANGED run => RunsInv'
  BY <1>4 DEF RunsInv
<1>6. UNCHANGED runs /\ (\A r \in Runs : run'[r].request = run[r].request) => RunRowInv'
  BY DEF TablesInv, RunRowInv, CompletedRunFiled, Artifacts
<1>7. QED
  BY <1>2, <1>3, <1>4, <1>5, <1>6

LEMMA RunKeepsInv ==
    ASSUME IInv, NEW r \in Runs, UNCHANGED <<clock, profiles>>,
           RunActs(r)
    PROVE  TablesInv' /\ RunsInv' /\ RunLockInv'
<1>0. TablesInv /\ RunsInv /\ RunLockInv /\ clock \in 0..MaxClock /\ FileInv
  BY DEF IInv, OnboardingInv, StoresInv, EvidenceInv, TablesInv
<1>1. RunLockInv'
  BY <1>0, RunHoldsLock
<1>2. \A s \in Runs : run'[s].request = run[s].request
  BY <1>0, RequestsStay
<1>3. CASE Start(r) \/ CloseUnprofiled(r) \/ Close(r) \/ Fail(r)
  <2>1. UNCHANGED <<documents, flags, reviewer>>
    BY <1>3 DEF Start, CloseUnprofiled, Close, Fail
  <2>2. RunsInv' /\ RunRowInv'
    BY <1>0, <1>3, RunRowStep
  <2>3. QED
    BY <1>0, <1>1, <2>1, <2>2, TablesStay DEF TablesInv
<1>4. CASE Commits(r)
  BY <1>0, <1>1, <1>4, CommitStep
<1>5. CASE \/ CheckProfileOf(r) \/ Unread(r) \/ ParserFault(r) \/ Defect(r) \/ Quarantine(r)
           \/ Project(r) \/ BeginUnit(r) \/ SaveDocument(r) \/ OpenFlag(r) \/ Conflict(r)
           \/ Locked(r) \/ Strike(r) \/ CommitFails(r) \/ RunDies(r)
  <2>1. UNCHANGED <<documents, flags, runs, reviewer>>
    BY <1>5 DEF CheckProfileOf, CheckProfile, Unread, ParserFault, Defect, Quarantine, Project,
       BeginUnit, SaveDocument, OpenFlag, Conflict, Locked, Strike, CommitFails, RunDies, Surface
  <2>2. RunsInv'
    BY <1>0, <1>5, PlainRunStep, ProjectStep, SaveStep, OpenStep
  <2>3. QED
    BY <1>0, <1>1, <1>2, <2>1, <2>2, TablesStay DEF TablesInv
<1>6. QED
  BY <1>3, <1>4, <1>5 DEF RunActs, RunStep, Commits

\* What a reviewer who closes a flag adds.
LEMMA FlagCloses ==
    ASSUME FlagInv, ReviewerInv, clock \in 0..MaxClock, NEW v, CloseFlag(v), v \in Reviewers
    PROVE  LET id == reviewer[v]
           IN  /\ flags' \in Seq(Fact) /\ ClosesEarlier(flags')
               /\ DOMAIN flags' = 1..Len(flags) + 1
               /\ \A i \in DOMAIN flags : i \in DOMAIN flags' /\ flags'[i] = flags[i]
               /\ ClosuresOf(flags', id) = ClosuresOf(flags, id) \cup {Len(flags) + 1}
               /\ \A x : x # id => ClosuresOf(flags', x) = ClosuresOf(flags, x)
               /\ \A u : OpenFlags(flags', u) = OpenFlags(flags, u) \ {id}
               /\ flags[id] \in Fact /\ id \in OpenFlags(flags, flags[id].subject)
<1> DEFINE id == reviewer[v]
           fact == Closure(id)
<1>1. /\ id \in DOMAIN flags /\ flags[id].closes = None /\ ClosuresOf(flags, id) = {}
      /\ flags' = Append(flags, fact)
  BY DEF ReviewerInv, CloseFlag
<1>2. flags \in Seq(Fact) /\ ClosesEarlier(flags) /\ flags[id] \in Fact /\ id \in Nat
  BY <1>1, ElementOfSeq, LenProperties DEF FlagInv
<1>3. fact \in Fact /\ fact.closes = id
  BY <1>2 DEF Closure, Fact
<1>4. id \in OpenFlags(flags, flags[id].subject)
  BY <1>1 DEF OpenFlags
<1> HIDE DEF fact
<1>5. QED
  BY <1>1, <1>2, <1>3, <1>4, ClosureAppended

\* A reviewer takes an opening out of what is open, and no run is looking.
LEMMA ReviewerKeepsInv ==
    ASSUME IInv, NEW v \in Reviewers, UNCHANGED <<clock, profiles>>,
           \/ CloseFlag(v) \/ CloseRefused(v) \/ Disconnect(v)
           \/ \E id \in DOMAIN flags : LookUp(v, id)
    PROVE  TablesInv' /\ RunsInv' /\ RunLockInv'
<1>0. TablesInv /\ RunsInv /\ RunLockInv /\ clock \in 0..MaxClock /\ FlagInv /\ ReviewerInv
  BY DEF IInv, OnboardingInv, StoresInv, EvidenceInv, TablesInv
<1>1. UNCHANGED <<documents, runs, run>>
  BY DEF CloseFlag, CloseRefused, Disconnect, LookUp
<1>2. RunLockInv'
  <2>1. \A r \in Runs : (writer' = r) = (writer = r)
    BY ReviewerLocks, ActorAssumption DEF LockStep, LockIsFree
  <2>2. QED
    BY <1>0, <1>1, <2>1 DEF RunLockInv
<1>3. CASE CloseRefused(v) \/ Disconnect(v) \/ \E id \in DOMAIN flags : LookUp(v, id)
  <2>1. UNCHANGED flags
    BY <1>3 DEF CloseRefused, Disconnect, LookUp
  <2>2. ReviewerInv'
    BY <1>0, <1>3, <2>1 DEF ReviewerInv, CloseRefused, Disconnect, LookUp
  <2>3. QED
    BY <1>0, <1>1, <1>2, <2>1, <2>2, TablesStay DEF TablesInv
<1>4. CASE CloseFlag(v)
  <2> DEFINE id == reviewer[v]
             after == flags'
  <2>1. id \in DOMAIN flags /\ flags[id].closes = None /\ ClosuresOf(flags, id) = {}
    BY <1>0, <1>4 DEF ReviewerInv, CloseFlag
  <2>2. flags \in Seq(Fact) /\ ClosesEarlier(flags)
    BY <1>0 DEF FlagInv
  <2>4. /\ after \in Seq(Fact) /\ ClosesEarlier(after) /\ DOMAIN after = 1..Len(flags) + 1
        /\ \A i \in DOMAIN flags : i \in DOMAIN after /\ after[i] = flags[i]
        /\ ClosuresOf(after, id) = ClosuresOf(flags, id) \cup {Len(flags) + 1}
        /\ \A x : x # id => ClosuresOf(after, x) = ClosuresOf(flags, x)
        /\ \A u : OpenFlags(after, u) = OpenFlags(flags, u) \ {id}
    BY <1>0, <1>4, FlagCloses
  <2>5. DOMAIN flags = 1..Len(flags) /\ Len(flags) \in Nat
    BY <2>2, LenProperties
  <2>6. \A i \in DOMAIN after : Cardinality(ClosuresOf(after, i)) <= 1
    <3>1. ASSUME NEW i \in DOMAIN flags, i # id
          PROVE  Cardinality(ClosuresOf(after, i)) <= 1
      BY <1>0, <2>4, <3>1 DEF FlagInv, ClosedOnce
    <3>2. Cardinality(ClosuresOf(after, id)) <= 1
      <4>1. ClosuresOf(after, id) = {Len(flags) + 1}
        BY <2>1, <2>4
      <4>2. Cardinality({Len(flags) + 1}) <= 1
        <5>1. Cardinality({Len(flags) + 1}) = 1
          BY FS_Singleton, Zenon
        <5>2. \A n : n = 1 => n <= 1
          OBVIOUS
        <5>3. QED
          BY <5>1, <5>2, Zenon
      <4>3. QED
        BY <4>1, <4>2, Zenon
    <3>3. Cardinality(ClosuresOf(after, Len(flags) + 1)) <= 1
      <4>1. ClosuresOf(flags, Len(flags) + 1) = {}
        <5>1. SUFFICES ASSUME NEW i \in DOMAIN flags, flags[i].closes = Len(flags) + 1
                       PROVE  FALSE
          BY DEF ClosuresOf
        <5>2. flags[i].closes \in 1..i - 1
          BY <2>2, <2>5, <5>1, ClockAssumption DEF ClosesEarlier
        <5>3. QED
          BY <2>5, <5>1, <5>2
      <4>2. Len(flags) + 1 # id
        BY <2>1, <2>5
      <4>3. ClosuresOf(after, Len(flags) + 1) = {}
        BY <2>4, <4>1, <4>2
      <4>4. Cardinality({}) <= 1
        BY FS_EmptySet
      <4>5. QED
        BY <4>3, <4>4, Zenon
    <3>4. \A i \in DOMAIN after : i \in DOMAIN flags \/ i = Len(flags) + 1
      BY <2>4, <2>5
    <3>5. QED
      BY <3>1, <3>2, <3>3, <3>4
  <2>7. \A u \in Uuids : \A i, j \in OpenFlags(after, u) : after[i].type = after[j].type => i = j
    <3>1. \A u : \A i \in OpenFlags(after, u) :
             i \in OpenFlags(flags, u) /\ after[i] = flags[i]
      BY <2>4 DEF OpenFlags
    <3>2. QED
      BY <1>0, <3>1 DEF FlagInv, OneOpenFlagPerType
  <2>8. FlagInv'
    <3>1. ClosesEarlier(flags)'
      BY <2>4 DEF ClosesEarlier
    <3>2. ClosedOnce'
      BY <2>6 DEF ClosedOnce, ClosuresOf
    <3>3. OneOpenFlagPerType'
      BY <2>7 DEF OneOpenFlagPerType, OpenFlags, ClosuresOf
    <3>4. QED
      BY <2>4, <3>1, <3>2, <3>3 DEF FlagInv
  <2>9. ReviewerInv'
    BY <1>0, <1>4, <2>1, <2>4 DEF ReviewerInv, CloseFlag
  <2>10. FileInv' /\ RunRowInv'
    BY <1>0, <1>1 DEF TablesInv, FileInv, RunRowInv, HasProfile, VersionsOf, CompletedRunFiled,
       Artifacts
  <2>11. RunsInv'
    <3>1. \A r \in Runs : run[r].pc # "open"
      BY <1>0, <1>4, ActorAssumption DEF CloseFlag, LockedOut, RunLockInv
    <3>2. ASSUME NEW x, SoundRun(x), x.pc # "open"
          PROVE  SoundRun(x)'
      BY <1>1, <3>2 DEF SoundRun, FiledOf, HasProfile, VersionsOf
    <3>3. QED
      BY <1>0, <1>1, <3>1, <3>2 DEF RunsInv
  <2>12. QED
    BY <1>2, <2>8, <2>9, <2>10, <2>11 DEF TablesInv
<1>5. QED
  BY <1>3, <1>4

(*************************** The specification *****************************)

LEMMA InitIInv == Init => IInv
<1> SUFFICES ASSUME Init
             PROVE  IInv
  OBVIOUS
<1>1. PICK batches \in [Runs -> Batches \cup {None}] : ProcessingInit(batches)
  BY DEF Init, InitWith
<1>2. writer = None
  BY DEF Init, InitWith, ConnectionInit
<1>3. RunsInv /\ RunLockInv
  <2>1. run = [r \in Runs |-> NewCall("idle", batches[r])]
    BY <1>1 DEF ProcessingInit
  <2>2. \A r \in Runs : run[r] = NewCall("idle", batches[r])
    BY <2>1
  <2>3. \A request \in Batches \cup {None} :
           SoundRun(NewCall("idle", request)) /\ NewCall("idle", request).pc = "idle"
    BY FreshRunIsSound DEF RunOver, NewCall
  <2>4. \A r \in Runs : batches[r] \in Batches \cup {None}
    OBVIOUS
  <2>5. RunsInv
    BY <2>1, <2>2, <2>3, <2>4 DEF RunsInv
  <2>6. QED
    BY <1>2, <2>2, <2>3, <2>4, <2>5, ActorAssumption DEF RunLockInv
<1>4. FileInv /\ ReviewerInv /\ RunRowInv
  BY <1>1 DEF ProcessingInit, FileInv, ReviewerInv, RunRowInv, CompletedRunFiled
<1>5. FlagInv
  BY <1>1 DEF ProcessingInit, FlagInv, ClosesEarlier, ClosedOnce, OneOpenFlagPerType, OpenFlags
<1>6. QED
  BY <1>3, <1>4, <1>5, InitOnboardingInv DEF IInv, TablesInv

LEMMA NextIInv == IInv /\ [Next]_vars => IInv'
<1> SUFFICES ASSUME IInv, [Next]_vars
             PROVE  IInv'
  OBVIOUS
<1>0. /\ OnboardingInv /\ TablesInv /\ RunsInv /\ RunLockInv
      /\ OnboardingInv' /\ profiles \subseteq profiles'
  BY NextOnboardingInv, RecordsOnlyGrow DEF IInv
<1>1. ASSUME UNCHANGED processingVars,
             UNCHANGED writer \/ \E actor \in Onboardings : LockStep(actor)
      PROVE  IInv'
  <2>1. UNCHANGED <<documents, flags, runs, run, reviewer>>
    BY <1>1 DEF processingVars
  <2>2. \A r \in Runs : (writer' = r) = (writer = r)
    BY <1>1, ActorAssumption DEF LockStep, LockIsFree
  <2>3. RunLockInv'
    BY <1>0, <2>1, <2>2 DEF RunLockInv
  <2>4. QED
    BY <1>0, <2>1, <2>3, TablesStay DEF IInv, TablesInv
<1>2. ASSUME NEW r \in Runs, UNCHANGED <<clock, onboardingVars>>,
             RunActs(r)
      PROVE  IInv'
  BY <1>0, <1>2, RunKeepsInv DEF IInv, onboardingVars
<1>3. ASSUME NEW v \in Reviewers, UNCHANGED <<clock, onboardingVars>>,
             \/ CloseFlag(v) \/ CloseRefused(v) \/ Disconnect(v)
             \/ \E id \in DOMAIN flags : LookUp(v, id)
      PROVE  IInv'
  BY <1>0, <1>3, ReviewerKeepsInv DEF IInv, onboardingVars
<1>4. CASE \E o \in Onboardings : Onboard(o)
  BY <1>1, <1>4, OnboardingLocks DEF Onboard
<1>5. CASE \E r \in Runs : Work(r)
  BY <1>2, <1>5 DEF Work, RunActs
<1>6. CASE Demand
  BY <1>2, <1>3, <1>6 DEF Demand, RunActs
<1>7. CASE Relinquish
  BY <1>3, <1>7 DEF Relinquish
<1>8. CASE Fault
  BY <1>1, <1>2, <1>8, OnboardingLocks DEF Fault, RunActs, connectionVars
<1>9. CASE Passes \/ (\E p \in Processes : OpenDatabase(p)) \/ UNCHANGED vars
  BY <1>1, <1>9 DEF Passes, Tick, OpenDatabase, vars, connectionVars
<1>10. QED
  BY <1>4, <1>5, <1>6, <1>7, <1>8, <1>9 DEF Next

LEMMA SpecIInv == Spec => []IInv
<1>1. Init => IInv
  BY InitIInv
<1>2. IInv /\ [Next]_vars => IInv'
  BY NextIInv
<1>3. QED
  BY <1>1, <1>2, PTL DEF Spec

\* Only COMMIT and the closures touch what is on file.
LEMMA OnlyCommitsFile ==
    ASSUME [Next]_vars
    PROVE  /\ UNCHANGED documents \/ \E r \in Runs : Commits(r)
           /\ \/ \E r \in Runs : Commits(r) /\ UNCHANGED profiles
              \/ \E v \in Reviewers : CloseFlag(v)
              \/ UNCHANGED <<documents, flags>>
<1>1. ASSUME NEW r \in Runs, ~ Commits(r),
             RunActs(r)
      PROVE  UNCHANGED <<documents, flags>>
  BY <1>1 DEF RunActs, Commits, CheckProfileOf, CheckProfile, RunStep, Start, CloseUnprofiled,
     Close, Fail, Unread, ParserFault, Defect, Quarantine, Project, BeginUnit, SaveDocument,
     OpenFlag, Conflict, Locked, Strike, CommitFails, RunDies, Surface
<1>2. ASSUME NEW v \in Reviewers,
             CloseRefused(v) \/ Disconnect(v) \/ \E id \in DOMAIN flags : LookUp(v, id)
      PROVE  UNCHANGED <<documents, flags>>
  BY <1>2 DEF CloseRefused, Disconnect, LookUp
<1>3. \A v \in Reviewers : CloseFlag(v) => UNCHANGED documents
  BY DEF CloseFlag
<1>4. QED
  BY <1>1, <1>2, <1>3 DEF Next, OpenDatabase, Onboard, Work, Demand, Relinquish, Fault, Passes,
     RunActs, vars, processingVars, onboardingVars

(****************************** The theorems *******************************)

\* Whatever onboardings and runs overlap or die, a document is on file only for
\* a client whose profile was resolved.
THEOREM NothingFiledUnprofiled == Spec => []FiledAfterOnboarding
<1>1. IInv => FiledAfterOnboarding
  BY DEF IInv, TablesInv, FileInv, FiledAfterOnboarding
<1>2. QED
  BY <1>1, SpecIInv, PTL

\* A run that is on record as COMPLETED has filed one of its documents, whoever
\* filed it before or after.
THEOREM CompletedRunsFiled == Spec => []CompletedRunFiled
<1>1. IInv => CompletedRunFiled
  BY DEF IInv, TablesInv, RunRowInv
<1>2. QED
  BY <1>1, SpecIInv, PTL

\* However many reviewers close a flag at once, one of them does.
THEOREM FlagsCloseOnce == Spec => []ClosedOnce
<1>1. IInv => ClosedOnce
  BY DEF IInv, TablesInv, FlagInv
<1>2. QED
  BY <1>1, SpecIInv, PTL

\* However many runs file a document, none opens a flag of it that is open.
THEOREM FlagsOpenOnce == Spec => []OneOpenFlagPerType
<1>1. IInv => OneOpenFlagPerType
  BY DEF IInv, TablesInv, FlagInv
<1>2. QED
  BY <1>1, SpecIInv, PTL

\* A run that overtakes another never dates a document back.
THEOREM NothingIsDatedBack == Spec => LastSeenNeverGoesBack
<1> DEFINE Kept == \A u \in Uuids :
                      documents[u] # None =>
                          /\ documents'[u].firstSeen = documents[u].firstSeen
                          /\ documents'[u].lastSeen >= documents[u].lastSeen
<1>1. ASSUME IInv, [Next]_vars
      PROVE  [Kept]_documents
  <2>1. UNCHANGED documents \/ \E r \in Runs : Commits(r)
    BY <1>1, OnlyCommitsFile
  <2>2. ASSUME NEW r \in Runs, Commits(r)
        PROVE  Kept
    <3> DEFINE call == run[r]
               name == DocOf(call).name
    <3>1. /\ name \in Uuids /\ SoundRow(call.row, DocOf(call))
          /\ documents' = [documents EXCEPT ![name] = call.row]
      BY <1>1, <2>2, CommitBrings DEF IInv
    <3>2. \A u \in Uuids : documents[u] # None =>
             documents[u] \in Rows /\ documents[u].lastSeen >= documents[u].lastSeen
      BY <1>1 DEF IInv, TablesInv, FileInv, Rows
    <3>3. /\ documents'[name] = call.row
          /\ \A u \in Uuids \ {name} : documents'[u] = documents[u]
      BY <1>1, <3>1 DEF IInv, TablesInv, FileInv
    <3>4. QED
      BY <3>1, <3>2, <3>3 DEF SoundRow
  <2>3. QED
    BY <2>1, <2>2
<1>2. QED
  BY <1>1, SpecIInv, PTL DEF Spec, LastSeenNeverGoesBack

\* The lock is free, or one of the actors has it.
LEMMA SpecWriter == Spec => [](writer \in Onboardings \cup Runs \cup Reviewers \cup {None})
<1> DEFINE Held == writer \in Onboardings \cup Runs \cup Reviewers \cup {None}
<1>1. Init => Held
  BY DEF Init, InitWith, ConnectionInit
<1>2. Held /\ [Next]_vars => Held'
  <2> SUFFICES ASSUME Held, [Next]_vars
               PROVE  Held'
    OBVIOUS
  <2>1. ASSUME NEW actor \in Onboardings \cup Runs \cup Reviewers, LockStep(actor)
        PROVE  Held'
    BY <2>1 DEF LockStep
  <2>2. CASE UNCHANGED writer
    BY <2>2
  <2>3. UNCHANGED writer \/ \E actor \in Onboardings \cup Runs \cup Reviewers : LockStep(actor)
    BY OnboardingLocks, RunLocks, ReviewerLocks
    DEF Next, OpenDatabase, Onboard, Work, Demand, Relinquish, Fault, Passes, Tick, RunActs, vars,
        connectionVars
  <2>4. QED
    BY <2>1, <2>2, <2>3
<1>3. QED
  BY <1>1, <1>2, PTL DEF Spec

\* Whoever has the lock is in the middle of a transaction, and the rows on file
\* are what the code writes.
THEOREM IntakeTypes == Spec => []TypeOK
<1>1. IInv /\ writer \in Onboardings \cup Runs \cup Reviewers \cup {None} => TypeOK
  BY DEF IInv, OnboardingInv, StoresInv, EvidenceInv, LockInv, TablesInv, FileInv, FlagInv,
         ClosesEarlier, RunLockInv, TypeOK
<1>2. QED
  BY <1>1, SpecIInv, SpecWriter, PTL

(************************* The dossier is implemented **********************)

\* COMMIT files the document and every doubt of it at once.
LEMMA CommitFiles ==
    ASSUME IInv, NEW r \in Runs, Commits(r), UNCHANGED profiles
    PROVE  D!Next
<1> DEFINE call == run[r]
           name == DocOf(call).name
           client == call.request.client
           hash == call.row.hash
           opened == call.facts
           filed == [u \in Uuids |-> IF documents[u] = None THEN None ELSE documents[u].hash]
           open == [u \in Uuids |-> OpenTypes(flags, u)]
<1>0. RunsInv /\ RunLockInv /\ FileInv /\ FlagInv
  BY DEF IInv, TablesInv
<1>1. /\ call.request \in Batches /\ DocOf(call) \in Range(call.request.artifacts)
      /\ name \in Uuids /\ SoundRow(call.row, DocOf(call)) /\ SoundFacts(call)
      /\ \A n \in DOMAIN Deserved(call) : n < call.flag
      /\ documents' = [documents EXCEPT ![name] = call.row]
      /\ flags' = flags \o opened
  BY <1>0, CommitBrings
<1>2. /\ hash = HashOf(DocOf(call).bytes) /\ hash # None
      /\ documents[name] # None => hash = documents[name].hash
      /\ call.row # None
  BY <1>1, BatchAssumption DEF SoundRow
<1>3. /\ documents'[name] = call.row
      /\ \A u \in Uuids \ {name} : documents'[u] = documents[u]
  BY <1>0, <1>1 DEF FileInv
<1>4. client \in ClientsOfBatches
  BY <1>1 DEF ClientsOfBatches
<1>5. DoubtsOf(client, hash) = Range(Deserved(call))
  <2>1. hash[2] = DocOf(call).bytes
    BY <1>2 DEF HashOf
  <2>2. ProjectDocument(client, DocOf(call).bytes, NONE).flags = Deserved(call)
    BY DEF ProjectDocument, Deserved
  <2>3. QED
    BY <2>1, <2>2 DEF DoubtsOf
<1>6. \A u : OpenFlags(flags', u) =
         OpenFlags(flags, u)
         \cup {Len(flags) + i : i \in {n \in DOMAIN opened : opened[n].subject = u}}
  <2>1. /\ flags \in Seq(Fact) /\ ClosesEarlier(flags)
        /\ opened \in Seq(Fact) /\ \A i \in DOMAIN opened : opened[i].closes = None
    BY <1>0, <1>1 DEF FlagInv, SoundFacts
  <2>2. \A u : OpenFlags(flags \o opened, u) =
           OpenFlags(flags, u)
           \cup {Len(flags) + i : i \in {n \in DOMAIN opened : opened[n].subject = u}}
    BY <2>1, OpeningsAppended
  <2>3. QED
    BY <1>1, <2>2
<1>7. /\ \A i \in DOMAIN flags : flags'[i] = flags[i]
      /\ \A i \in DOMAIN opened : flags'[Len(flags) + i] = opened[i]
  <2>1. /\ flags \in Seq(Fact) /\ ClosesEarlier(flags)
        /\ opened \in Seq(Fact) /\ \A i \in DOMAIN opened : opened[i].closes = None
    BY <1>0, <1>1 DEF FlagInv, SoundFacts
  <2>2. /\ \A i \in DOMAIN flags : (flags \o opened)[i] = flags[i]
        /\ \A i \in DOMAIN opened : (flags \o opened)[Len(flags) + i] = opened[i]
    BY <2>1, OpeningsAppended
  <2>3. QED
    BY <1>1, <2>2
<1>8. \A u \in Uuids : OpenTypes(flags', u) =
         OpenTypes(flags, u) \cup {opened[i].type : i \in {n \in DOMAIN opened : opened[n].subject = u}}
  <2> SUFFICES ASSUME NEW u \in Uuids
               PROVE  OpenTypes(flags', u) = OpenTypes(flags, u)
                         \cup {opened[i].type : i \in {n \in DOMAIN opened : opened[n].subject = u}}
    OBVIOUS
  <2>1. \A i \in OpenFlags(flags, u) : i \in DOMAIN flags /\ flags'[i].type = flags[i].type
    BY <1>7 DEF OpenFlags
  <2>2. QED
    BY <1>6, <1>7, <2>1 DEF OpenTypes
<1>9. \A i \in DOMAIN opened : opened[i].subject = name
  BY <1>1 DEF SoundFacts
<1>10. {opened[i].type : i \in DOMAIN opened} \subseteq Range(Deserved(call))
  BY <1>1 DEF SoundFacts, Range
<1>11. Range(Deserved(call)) \subseteq
          OpenTypes(flags, name) \cup {opened[i].type : i \in DOMAIN opened}
  BY <1>1 DEF SoundFacts, Range
<1>12. OpenTypes(flags', name) = OpenTypes(flags, name) \cup DoubtsOf(client, hash)
  <2>1. {n \in DOMAIN opened : opened[n].subject = name} = DOMAIN opened
    BY <1>9
  <2>2. OpenTypes(flags', name) =
           OpenTypes(flags, name) \cup {opened[i].type : i \in DOMAIN opened}
    BY <1>1, <1>8, <2>1
  <2> HIDE DEF hash, client, name, opened
  <2>3. QED
    BY <1>5, <1>10, <1>11, <2>2
<1>13. ASSUME NEW u \in Uuids \ {name}
       PROVE  OpenTypes(flags', u) = OpenTypes(flags, u)
  <2>1. {n \in DOMAIN opened : opened[n].subject = u} = {}
    BY <1>9
  <2>2. {opened[i].type : i \in {n \in DOMAIN opened : opened[n].subject = u}} = {}
    BY <2>1
  <2>3. QED
    BY <1>8, <2>2
<1> HIDE DEF hash, client, name
<1>14. /\ filed'[name] = hash /\ filed[name] \in {None, hash}
       /\ filed' = [filed EXCEPT ![name] = hash]
  <2>1. \A u \in Uuids : filed'[u] = IF u = name THEN hash ELSE filed[u]
    BY <1>2, <1>3 DEF hash
  <2>2. filed[name] \in {None, hash}
    BY <1>1, <1>2
  <2>3. QED
    BY <1>1, <2>1, <2>2
<1>15. open' = [open EXCEPT ![name] = @ \cup DoubtsOf(client, hash)]
  <2>1. \A u : OpenTypes(flags, u)' = OpenTypes(flags', u)
    BY DEF OpenTypes, OpenFlags, ClosuresOf
  <2>2. \A u \in Uuids :
           open'[u] = IF u = name THEN open[u] \cup DoubtsOf(client, hash) ELSE open[u]
    BY <1>12, <1>13, <2>1
  <2>3. QED
    BY <1>1, <2>2
<1>16. ASSUME NEW u \in Uuids, NEW c \in ClientsOfBatches, u = name, c = client
       PROVE  D!File(u, c)
  <2> HIDE DEF filed, open
  <2>1. /\ filed'[u] # None /\ filed[u] \in {None, filed'[u]}
        /\ filed' = [filed EXCEPT ![u] = filed'[u]]
        /\ open' = [open EXCEPT ![u] = @ \cup DoubtsOf(c, filed'[u])]
    BY <1>2, <1>14, <1>15, <1>16 DEF hash
  <2>2. QED
    BY <2>1, Zenon DEF D!File, filed, open
<1>17. QED
  <2>1. \E u \in Uuids, c \in ClientsOfBatches : u = name /\ c = client
    BY <1>1, <1>4
  <2>2. QED
    BY <1>16, <2>1 DEF D!Next

\* A closure closes one open doubt: no other opening has its type.
LEMMA ClosureCloses ==
    ASSUME IInv, NEW v \in Reviewers, CloseFlag(v)
    PROVE  D!Next
<1> DEFINE id == reviewer[v]
           subject == flags[id].subject
           type == flags[id].type
           open == [u \in Uuids |-> OpenTypes(flags, u)]
<1>0. FlagInv /\ ReviewerInv /\ clock \in 0..MaxClock
  BY DEF IInv, OnboardingInv, StoresInv, EvidenceInv, TablesInv
<1>1. /\ \A i \in DOMAIN flags : flags'[i] = flags[i]
      /\ \A u : OpenFlags(flags', u) = OpenFlags(flags, u) \ {id}
      /\ subject \in Uuids /\ type \in FlagTypes
      /\ id \in OpenFlags(flags, subject)
  BY <1>0, FlagCloses DEF Fact
<1>2. \A u : \A i \in OpenFlags(flags, u) : i \in DOMAIN flags /\ flags'[i] = flags[i]
                                            /\ flags[i].subject = u
  BY <1>1 DEF OpenFlags
<1>3. \A u : OpenTypes(flags', u) = {flags[i].type : i \in OpenFlags(flags, u) \ {id}}
  BY <1>1, <1>2 DEF OpenTypes
<1>4. ASSUME NEW u \in Uuids \ {subject}
      PROVE  OpenTypes(flags', u) = OpenTypes(flags, u)
  <2>1. OpenFlags(flags, u) \ {id} = OpenFlags(flags, u)
    BY <1>2
  <2>2. QED
    BY <1>3, <2>1 DEF OpenTypes
<1>5. OpenTypes(flags', subject) = OpenTypes(flags, subject) \ {type}
  <2>1. \A i \in OpenFlags(flags, subject) : flags[i].type = type => i = id
    BY <1>0, <1>1 DEF FlagInv, OneOpenFlagPerType
  <2>2. QED
    BY <1>1, <1>3, <2>1 DEF OpenTypes
<1>6. type \in OpenTypes(flags, subject)
  BY <1>1 DEF OpenTypes
<1> HIDE DEF subject, type, id
<1>7. open' = [open EXCEPT ![subject] = @ \ {type}] /\ type \in open[subject]
  <2>1. \A u : OpenTypes(flags, u)' = OpenTypes(flags', u)
    BY DEF OpenTypes, OpenFlags, ClosuresOf
  <2>2. QED
    BY <1>1, <1>4, <1>5, <1>6, <2>1
<1>8. UNCHANGED documents
  BY DEF CloseFlag
<1>9. D!CloseFlag(subject, type)
  BY <1>7, <1>8 DEF D!CloseFlag
<1>10. QED
  BY <1>1, <1>9 DEF D!Next

\* The process flow keeps the promise of the dossier: a document is filed with
\* all its flags or not at all, under one hash.
THEOREM IntakeImplementsDossier == Spec => ImplementsDossier
<1>1. Init => D!Init
  <2> SUFFICES ASSUME Init
               PROVE  D!Init
    OBVIOUS
  <2>1. documents = [u \in Uuids |-> None] /\ flags = <<>>
    BY DEF Init, InitWith, ProcessingInit
  <2>2. \A u \in Uuids : OpenTypes(flags, u) = {}
    BY <2>1 DEF OpenTypes, OpenFlags
  <2>3. QED
    BY <2>1, <2>2 DEF D!Init
<1>2. ASSUME IInv, [Next]_vars
      PROVE  [D!Next]_(D!vars)
  <2>1. \/ \E r \in Runs : Commits(r) /\ UNCHANGED profiles
        \/ \E v \in Reviewers : CloseFlag(v)
        \/ UNCHANGED <<documents, flags>>
    BY <1>2, OnlyCommitsFile
  <2>2. UNCHANGED <<documents, flags>> => UNCHANGED D!vars
    BY DEF D!vars, OpenTypes, OpenFlags, ClosuresOf
  <2>3. QED
    BY <1>2, <2>1, <2>2, CommitFiles, ClosureCloses
<1>3. QED
  BY <1>1, <1>2, SpecIInv, PTL DEF Spec, ImplementsDossier, D!Spec

(*************************** The migrations ********************************)

LadderSteps == 1..SCHEMA_VERSION
Tables == UNION {ToSet(TablesOfStep[i]) : i \in LadderSteps}
LadderParts == UNION {ToSet(MIGRATIONS[i]) : i \in LadderSteps}

\* A list is a list of what it holds, and of more.
LEMMA ListOfItsOwn ==
    ASSUME NEW A, NEW list \in Seq(A), NEW B, ToSet(list) \subseteq B
    PROVE  list \in Seq(B)
BY DEF ToSet

LEMMA TablesAreListed == \A i \in LadderSteps : TablesOfStep[i] \in Seq(Tables)
<1>1. \A i \in LadderSteps : i \in {1, 2, 3, 4, 5, 6}
  BY DEF LadderSteps, SCHEMA_VERSION
<1>2. ASSUME NEW i \in LadderSteps, NEW n \in Nat, NEW A, TablesOfStep[i] \in [1..n -> A]
      PROVE  TablesOfStep[i] \in Seq(Tables)
  <2>1. TablesOfStep[i] \in Seq(A)
    BY <1>2
  <2>2. ToSet(TablesOfStep[i]) \subseteq Tables
    BY DEF Tables
  <2>3. QED
    BY <2>1, <2>2, ListOfItsOwn
<1>3. TablesOfStep[1] \in [1..3 -> {"download_jobs", "download_cursors", "source_records"}]
  BY DEF TablesOfStep
<1>4. TablesOfStep[2] \in [1..6 -> {"documents", "fiscal_events", "contributor_profiles",
                                    "csf_artifacts", "review_flags", "pipeline_runs"}]
  BY DEF TablesOfStep
<1>5. TablesOfStep[3] \in [1..1 -> {"profile_obligaciones"}]
  BY DEF TablesOfStep
<1>6. TablesOfStep[4] \in [1..4 -> {"metadata_snapshots", "journal_entries", "journal_lines",
                                    "posting_snapshot"}]
  BY DEF TablesOfStep
<1>7. TablesOfStep[5] \in [1..0 -> {}] /\ TablesOfStep[6] \in [1..0 -> {}]
  BY DEF TablesOfStep
<1>8. 0 \in Nat /\ 1 \in Nat /\ 3 \in Nat /\ 4 \in Nat /\ 6 \in Nat
  OBVIOUS
<1>9. QED
  BY <1>1, <1>2, <1>3, <1>4, <1>5, <1>6, <1>7, <1>8, Zenon

\* A table, or a guard of one.
Named == Tables \X {"table", "no_update", "no_delete"}

\* The step of the fact tables creates them, and guards each of the four.
LEMMA FactStep ==
    /\ \A i \in LadderSteps : Creation(i) \in Seq(Named)
    /\ \A n \in 1..4 : Guards(APPEND_ONLY_TABLES[n]) \in Seq(Named)
    /\ MIGRATIONS[4] = (((Creation(4) \o Guards(APPEND_ONLY_TABLES[1]))
                            \o Guards(APPEND_ONLY_TABLES[2])) \o Guards(APPEND_ONLY_TABLES[3]))
                            \o Guards(APPEND_ONLY_TABLES[4])
    /\ 4 \in LadderSteps
<1>1. \A t \in Tables : Guards(t) \in Seq(Named)
  BY DEF Guards, Named
<1>2. \A i \in LadderSteps : Creation(i) \in Seq(Named)
  <2>1. \A t \in Seq(Tables) : [n \in DOMAIN t |-> <<t[n], "table">>] \in Seq(Named)
    BY DEF Named
  <2>2. QED
    BY <2>1, TablesAreListed DEF Creation
<1>3. 4 \in LadderSteps /\ APPEND_ONLY_TABLES \in Seq(Tables) /\ DOMAIN APPEND_ONLY_TABLES = 1..4
  <2>1. 4 \in LadderSteps
    BY DEF LadderSteps, SCHEMA_VERSION
  <2>2. DOMAIN APPEND_ONLY_TABLES = 1..4
    BY DEF APPEND_ONLY_TABLES, TablesOfStep
  <2>3. QED
    BY <2>1, <2>2, TablesAreListed DEF APPEND_ONLY_TABLES
<1>4. \A n \in 1..4 : Guards(APPEND_ONLY_TABLES[n]) \in Seq(Named)
  <2>1. \A A : \A s \in Seq(A) : \A n \in DOMAIN s : s[n] \in A
    OBVIOUS
  <2>2. \A n \in 1..4 : APPEND_ONLY_TABLES[n] \in Tables
    BY <1>3, <2>1, Zenon
  <2>3. QED
    BY <1>1, <2>2
<1>5. MIGRATIONS[4] = (((Creation(4) \o Guards(APPEND_ONLY_TABLES[1]))
                            \o Guards(APPEND_ONLY_TABLES[2])) \o Guards(APPEND_ONLY_TABLES[3]))
                            \o Guards(APPEND_ONLY_TABLES[4])
  BY <1>3 DEF MIGRATIONS, LadderSteps
<1>6. QED
  BY <1>2, <1>3, <1>4, <1>5

\* What is joined holds what each list holds.
LEMMA JoinHolds ==
    ASSUME NEW A, NEW s \in Seq(A), NEW t \in Seq(A)
    PROVE  s \o t \in Seq(A) /\ ToSet(s) \subseteq ToSet(s \o t)
<1>1. \A i \in DOMAIN s : i \in DOMAIN (s \o t) /\ (s \o t)[i] = s[i]
  OBVIOUS
<1>2. s \o t \in Seq(A)
  OBVIOUS
<1> DEFINE both == s \o t
<1> HIDE DEF both
<1>3. QED
  BY <1>1, <1>2 DEF both, ToSet

LEMMA FactStepHolds ==
    MIGRATIONS[4] \in Seq(Named) /\ ToSet(Creation(4)) \subseteq ToSet(MIGRATIONS[4])
<1> DEFINE g(n) == Guards(APPEND_ONLY_TABLES[n])
           upTo1 == Creation(4) \o g(1)
           upTo2 == upTo1 \o g(2)
           upTo3 == upTo2 \o g(3)
           upTo4 == upTo3 \o g(4)
<1>1. g(1) \in Seq(Named) /\ g(2) \in Seq(Named) /\ g(3) \in Seq(Named) /\ g(4) \in Seq(Named)
  BY FactStep
<1>2. Creation(4) \in Seq(Named) /\ MIGRATIONS[4] = upTo4
  BY FactStep
<1> HIDE DEF g
<1>3. upTo1 \in Seq(Named) /\ ToSet(Creation(4)) \subseteq ToSet(upTo1)
  BY <1>1, <1>2, JoinHolds, Zenon
<1> HIDE DEF upTo1
<1>4. upTo2 \in Seq(Named) /\ ToSet(upTo1) \subseteq ToSet(upTo2)
  BY <1>1, <1>3, JoinHolds, Zenon
<1> HIDE DEF upTo2
<1>5. upTo3 \in Seq(Named) /\ ToSet(upTo2) \subseteq ToSet(upTo3)
  BY <1>1, <1>4, JoinHolds, Zenon
<1> HIDE DEF upTo3
<1>6. upTo4 \in Seq(Named) /\ ToSet(upTo3) \subseteq ToSet(upTo4)
  BY <1>1, <1>5, JoinHolds, Zenon
<1> HIDE DEF upTo4
<1>7. QED
  BY <1>2, <1>3, <1>4, <1>5, <1>6

\* The statements of the ladder are one list of parts a step.
LEMMA StepsAreLists == MIGRATIONS \in Seq(Seq(LadderParts)) /\ Len(MIGRATIONS) = SCHEMA_VERSION
<1>1. \A i \in LadderSteps : MIGRATIONS[i] \in Seq(Named)
  <2>1. \A i \in LadderSteps : i # 4 => MIGRATIONS[i] = Creation(i)
    BY DEF MIGRATIONS, LadderSteps
  <2>2. QED
    BY <2>1, FactStep, FactStepHolds
<1>2. \A i \in LadderSteps : MIGRATIONS[i] \in Seq(LadderParts)
  <2>1. \A i \in LadderSteps : ToSet(MIGRATIONS[i]) \subseteq LadderParts
    BY DEF LadderParts
  <2>2. QED
    BY <1>1, <2>1, ListOfItsOwn
<1>3. MIGRATIONS = [i \in LadderSteps |-> MIGRATIONS[i]]
  BY DEF MIGRATIONS, LadderSteps
<1>4. LadderSteps = 1..6
  BY DEF LadderSteps, SCHEMA_VERSION
<1>5. QED
  BY <1>2, <1>3, <1>4 DEF SCHEMA_VERSION

\* A part of the ladder has the steps it was cut from.
LEMMA CutOfLadder ==
    ASSUME NEW m \in Nat \ {0}, NEW n \in 0..SCHEMA_VERSION
    PROVE  /\ SubSeq(MIGRATIONS, m, n) \in Seq(Seq(LadderParts))
           /\ \A i \in m..n : /\ i - m + 1 \in DOMAIN SubSeq(MIGRATIONS, m, n)
                               /\ SubSeq(MIGRATIONS, m, n)[i - m + 1] = MIGRATIONS[i]
<1> DEFINE cut == SubSeq(MIGRATIONS, m, n)
           size == IF m <= n THEN n - m + 1 ELSE 0
<1>1. cut = [i \in 1..size |-> MIGRATIONS[m + i - 1]]
  BY StepsAreLists, SubSeqProperties DEF SCHEMA_VERSION
<1>2. \A i \in 1..SCHEMA_VERSION : MIGRATIONS[i] \in Seq(LadderParts)
  BY StepsAreLists
<1>3. size \in Nat /\ \A i \in 1..size : m + i - 1 \in 1..SCHEMA_VERSION
  BY DEF SCHEMA_VERSION
<1> HIDE DEF cut
<1>4. cut \in Seq(Seq(LadderParts))
  <2> DEFINE L == Seq(LadderParts)
  <2>1. \A i \in 1..size : MIGRATIONS[m + i - 1] \in L
    BY <1>2, <1>3
  <2> HIDE DEF size, L
  <2>2. cut \in Seq(L)
    BY <1>1, <1>3, <2>1
  <2>3. QED
    BY <2>2 DEF L
<1>5. \A i \in m..n : i - m + 1 \in 1..size /\ m + (i - m + 1) - 1 = i
  BY DEF SCHEMA_VERSION
<1> HIDE DEF size
<1>6. \A i \in m..n : i - m + 1 \in DOMAIN cut /\ cut[i - m + 1] = MIGRATIONS[i]
  <2>1. TAKE i \in m..n
  <2>2. i - m + 1 \in 1..size /\ m + (i - m + 1) - 1 = i
    BY <1>5, Zenon
  <2>3. i - m + 1 \in DOMAIN cut /\ cut[i - m + 1] = MIGRATIONS[m + (i - m + 1) - 1]
    BY <1>1, <2>2, Zenon
  <2>4. QED
    BY <2>2, <2>3, Zenon
<1>7. QED
  BY <1>4, <1>6, Zenon DEF cut

\* The parts of the steps up to v.
StepsUpTo(v) == UNION {ToSet(MIGRATIONS[i]) : i \in {j \in LadderSteps : j <= v}}

\* The ladder from any version on holds the parts of all later steps.
LEMMA LadderHolds ==
    ASSUME NEW v \in Nat
    PROVE  /\ Statements(v) \in Seq(LadderParts)
           /\ LadderParts \subseteq StepsUpTo(v) \cup ToSet(Statements(v))
<1> DEFINE later == SubSeq(MIGRATIONS, v + 1, SCHEMA_VERSION)
<1>1. SCHEMA_VERSION = 6 /\ LadderSteps = 1..6
  BY DEF LadderSteps, SCHEMA_VERSION
<1>2. /\ later \in Seq(Seq(LadderParts))
      /\ \A i \in LadderSteps : i > v => /\ i - v \in DOMAIN later
                                  /\ later[i - v] = MIGRATIONS[i]
  <2>1. /\ v + 1 \in Nat \ {0} /\ SCHEMA_VERSION \in 0..SCHEMA_VERSION
        /\ \A i \in LadderSteps : i > v => /\ i \in (v + 1)..SCHEMA_VERSION
                                    /\ i - (v + 1) + 1 = i - v
    BY <1>1
  <2>2. /\ later \in Seq(Seq(LadderParts))
        /\ \A i \in (v + 1)..SCHEMA_VERSION : /\ i - (v + 1) + 1 \in DOMAIN later
                                              /\ later[i - (v + 1) + 1] = MIGRATIONS[i]
    <3>1. v + 1 \in Nat \ {0} /\ SCHEMA_VERSION \in 0..SCHEMA_VERSION
      BY <2>1, Zenon
    <3>2. QED
      BY <3>1, CutOfLadder, Zenon
  <2> HIDE DEF later
  <2>3. ASSUME NEW i \in LadderSteps, i > v
        PROVE  i - v \in DOMAIN later /\ later[i - v] = MIGRATIONS[i]
    <3>1. i \in (v + 1)..SCHEMA_VERSION /\ i - (v + 1) + 1 = i - v
      BY <2>1, <2>3
    <3>2. i - (v + 1) + 1 \in DOMAIN later /\ later[i - (v + 1) + 1] = MIGRATIONS[i]
      BY <2>2, <3>1, Zenon
    <3>3. QED
      BY <3>1, <3>2, Zenon
  <2>4. QED
    BY <2>2, <2>3
<1> HIDE DEF later
<1>3. /\ FlattenSeq(later) \in Seq(LadderParts)
      /\ \A i \in DOMAIN later : ToSet(later[i]) \subseteq ToSet(FlattenSeq(later))
  BY <1>2, FlattenHolds
<1>4. Statements(v) = FlattenSeq(later)
  BY DEF Statements, later
<1>5. ASSUME NEW i \in LadderSteps, NEW x \in ToSet(MIGRATIONS[i])
      PROVE  x \in StepsUpTo(v) \cup ToSet(Statements(v))
  <2>1. CASE i <= v
    BY <2>1 DEF StepsUpTo
  <2>2. CASE i > v
    BY <1>2, <1>3, <1>4, <2>2
  <2>3. i <= v \/ i > v
    BY <1>1
  <2>4. QED
    BY <2>1, <2>2, <2>3
<1>6. QED
  BY <1>3, <1>4, <1>5 DEF LadderParts

\* What a database of version v has, and what a complete one does.
LEMMA VersionsHold ==
    /\ \A v \in 0..SCHEMA_VERSION : StepsUpTo(v) \subseteq SchemaOfVersion(v)
    /\ Complete \subseteq LadderParts \cup ToSet(AddedColumns)
<1>1. SCHEMA_VERSION = 6 /\ LadderSteps = 1..6
  BY DEF LadderSteps, SCHEMA_VERSION
<1>2. ASSUME NEW v \in 0..SCHEMA_VERSION
      PROVE  /\ StepsUpTo(v) \subseteq Range(FlattenSeq(SubSeq(MIGRATIONS, 1, v)))
             /\ Range(FlattenSeq(SubSeq(MIGRATIONS, 1, v))) \subseteq LadderParts
  <2> DEFINE earlier == SubSeq(MIGRATIONS, 1, v)
  <2>1. /\ earlier \in Seq(Seq(LadderParts))
        /\ \A i \in LadderSteps : i <= v => i \in DOMAIN earlier /\ earlier[i] = MIGRATIONS[i]
    <3>1. \A i \in LadderSteps : i <= v => i \in 1..v /\ i - 1 + 1 = i
      BY <1>1
    <3>2. QED
      BY <3>1, CutOfLadder
  <2> HIDE DEF earlier
  <2>2. /\ FlattenSeq(earlier) \in Seq(LadderParts)
        /\ \A i \in DOMAIN earlier : ToSet(earlier[i]) \subseteq ToSet(FlattenSeq(earlier))
    BY <2>1, FlattenHolds
  <2>3. /\ Range(FlattenSeq(earlier)) = ToSet(FlattenSeq(earlier))
        /\ ToSet(FlattenSeq(earlier)) \subseteq LadderParts
    BY <2>2 DEF Range, ToSet
  <2>4. QED
    BY <2>1, <2>2, <2>3 DEF StepsUpTo, earlier
<1>3. \A m \in DOMAIN AddedColumns : AddedColumns[m] \in ToSet(AddedColumns)
  BY DEF ToSet
<1>4. QED
  BY <1>1, <1>2, <1>3 DEF SchemaOfVersion, Complete

\* Where an opening is, and what it has done so far: the steps it found done,
\* the statements it ran, the columns it looked at.
Openings == [pc : {"closed", "ladder", "columns", "alter", "open", "away"},
            found : Nat \cup {None}, at : Nat \ {0}]

SoundOpening(call, parts) ==
    /\ call \in Openings
    /\ call.pc = "ladder" =>
          /\ call.found \in Nat
          /\ StepsUpTo(call.found) \subseteq parts
          /\ \A n \in DOMAIN Statements(call.found) :
                n < call.at => Statements(call.found)[n] \in parts
    /\ call.pc \in {"columns", "alter"} =>
          /\ call.found \in Nat
          /\ LadderParts \subseteq parts
          /\ \A n \in DOMAIN AddedColumns : n < call.at => AddedColumns[n] \in parts
    /\ call.pc = "alter" => call.at <= Len(AddedColumns)
    /\ call.pc = "open" => Complete \subseteq parts

\* A stamped version has the steps it says, the latest has everything; nothing
\* that is there goes.
SchemaInv ==
    /\ version \in Nat
    /\ StepsUpTo(version) \subseteq schema
    /\ version >= SCHEMA_VERSION => Complete \subseteq schema
    /\ opening \in [Processes -> Openings]
    /\ \A p \in Processes : SoundOpening(opening[p], schema)

LEMMA SchemaBegins == Init => SchemaInv
<1>1. SUFFICES ASSUME NEW database \in Databases,
                      NEW begun \in [Processes -> {"closed", "open", "away"}],
                      (\E p \in Processes : begun[p] = "open") => database[1] = SCHEMA_VERSION,
                      SchemaInit(database[1], database[2], begun)
               PROVE  SchemaInv
  BY DEF Init, InitWith
<1>2. SCHEMA_VERSION = 6 /\ LadderSteps = 1..6
  BY DEF LadderSteps, SCHEMA_VERSION
<1>3. /\ database[1] \in 0..SCHEMA_VERSION /\ database[2] \in Nat
      /\ database[2] > database[1] => database[1] = SCHEMA_VERSION
      /\ database[2] >= SCHEMA_VERSION => database[1] = SCHEMA_VERSION
  BY <1>2 DEF Databases
<1>4. schema = SchemaOfVersion(database[1]) /\ version = database[2]
  BY <1>1 DEF SchemaInit
<1>5. StepsUpTo(version) \subseteq schema
  <2>1. StepsUpTo(version) \subseteq StepsUpTo(database[1])
    BY <1>2, <1>3, <1>4 DEF StepsUpTo
  <2>2. QED
    BY <1>3, <1>4, <2>1, VersionsHold
<1>6. database[1] = SCHEMA_VERSION => Complete \subseteq schema
  BY <1>4 DEF Complete
<1>7. opening = [p \in Processes |-> Progress(begun[p])]
  BY <1>1 DEF SchemaInit
<1>8. \A p \in Processes : opening[p] \in Openings /\ SoundOpening(opening[p], schema)
  BY <1>1, <1>6, <1>7 DEF Progress, Openings, SoundOpening
<1>9. opening \in [Processes -> Openings]
  BY <1>7, <1>8
<1>10. QED
  BY <1>3, <1>4, <1>5, <1>6, <1>8, <1>9 DEF SchemaInv

\* A step of one opening: the schema grows, the others' knowledge stays true.
LEMMA OneOpens ==
    ASSUME SchemaInv, NEW p \in Processes, NEW call, opening' = [opening EXCEPT ![p] = call],
           schema \subseteq schema', SoundOpening(call, schema'), version' = version
    PROVE  SchemaInv'
<1>1. \A c : SoundOpening(c, schema) => SoundOpening(c, schema')
  BY DEF SoundOpening
<1>2. call \in Openings
  BY DEF SoundOpening
<1>3. opening' \in [Processes -> Openings]
  BY <1>2 DEF SchemaInv
<1>4. \A q \in Processes : SoundOpening(opening'[q], schema')
  <2>1. TAKE q \in Processes
  <2>2. CASE q = p
    <3>1. opening'[q] = call
      BY <2>2 DEF SchemaInv
    <3>2. QED
      BY <3>1
  <2>3. CASE q # p
    <3>1. opening'[q] = opening[q]
      BY <2>3 DEF SchemaInv
    <3>2. SoundOpening(opening[q], schema')
      BY <1>1 DEF SchemaInv
    <3>3. QED
      BY <3>1, <3>2
  <2>4. QED
    BY <2>2, <2>3
<1>5. QED
  BY <1>3, <1>4 DEF SchemaInv

\* Every column was added to a table of the ladder.
LEMMA ColumnsHaveTables ==
    \A n \in DOMAIN AddedColumns : <<AddedColumns[n][1], "table">> \in LadderParts
<1>1. ASSUME NEW i \in LadderSteps, NEW n \in DOMAIN TablesOfStep[i]
      PROVE  <<TablesOfStep[i][n], "table">> \in LadderParts
  <2>1. <<TablesOfStep[i][n], "table">> \in ToSet(Creation(i))
    BY <1>1 DEF Creation, ToSet
  <2>2. ToSet(Creation(i)) \subseteq ToSet(MIGRATIONS[i])
    <3>1. CASE i # 4
      BY <3>1, Zenon DEF MIGRATIONS, LadderSteps
    <3>2. CASE i = 4
      BY <3>2, FactStepHolds
    <3>3. QED
      BY <3>1, <3>2
  <2>3. QED
    BY <2>1, <2>2 DEF LadderParts
<1>2. 1 \in LadderSteps /\ 2 \in LadderSteps /\ 4 \in LadderSteps
  BY DEF LadderSteps, SCHEMA_VERSION
<1>3. /\ 1 \in DOMAIN TablesOfStep[1] /\ TablesOfStep[1][1] = "download_jobs"
      /\ 3 \in DOMAIN TablesOfStep[2] /\ TablesOfStep[2][3] = "contributor_profiles"
      /\ 2 \in DOMAIN TablesOfStep[4] /\ TablesOfStep[4][2] = "journal_entries"
      /\ 3 \in DOMAIN TablesOfStep[4] /\ TablesOfStep[4][3] = "journal_lines"
  BY DEF TablesOfStep
<1>4. \A n \in DOMAIN AddedColumns :
          AddedColumns[n][1] \in {"download_jobs", "contributor_profiles", "journal_entries",
                                  "journal_lines"}
  BY DEF AddedColumns
<1>5. QED
  BY <1>1, <1>2, <1>3, <1>4

\* What a step of init_schema leaves, as its caller goes on or gives up.
LEMMA OpeningStep ==
    ASSUME SchemaInv, NEW p \in Processes, Open(p)
    PROVE  SchemaInv'
<1> DEFINE call == opening[p]
<1>1. call \in Openings /\ SoundOpening(call, schema) /\ opening \in [Processes -> Openings]
  BY DEF SchemaInv
<1>2. /\ call.at \in Nat \ {0} /\ call.found \in Nat \cup {None}
      /\ call.pc \in {"closed", "ladder", "columns", "alter", "open", "away"}
      /\ call = [pc |-> call.pc, found |-> call.found, at |-> call.at]
  BY <1>1 DEF Openings
<1>3. /\ \A pc \in {"closed", "ladder", "columns", "alter", "open"} :
            /\ NextOne(p, pc) => opening' = [opening EXCEPT ![p] =
                  [pc |-> pc, found |-> call.found, at |-> call.at + 1]]
            /\ Further(p, pc) => opening' = [opening EXCEPT ![p] =
                  [pc |-> pc, found |-> call.found, at |-> 1]]
      /\ [opening EXCEPT ![p].pc = "alter"] = [opening EXCEPT ![p] =
            [pc |-> "alter", found |-> call.found, at |-> call.at]]
      /\ OpeningFails(p) => opening' = [opening EXCEPT ![p] = Progress("closed")]
  <2>1. \A pc : /\ [opening EXCEPT ![p].pc = pc, ![p].at = @ + 1]
                      = [opening EXCEPT ![p] = [call EXCEPT !.pc = pc, !.at = @ + 1]]
                /\ [opening EXCEPT ![p].pc = pc, ![p].at = 1]
                      = [opening EXCEPT ![p] = [call EXCEPT !.pc = pc, !.at = 1]]
    BY <1>1
  <2>2. \A pc : /\ [call EXCEPT !.pc = pc, !.at = @ + 1]
                      = [pc |-> pc, found |-> call.found, at |-> call.at + 1]
                /\ [call EXCEPT !.pc = pc, !.at = 1]
                      = [pc |-> pc, found |-> call.found, at |-> 1]
                /\ [call EXCEPT !.pc = pc] = [pc |-> pc, found |-> call.found, at |-> call.at]
    <3>1. TAKE pc
    <3> DEFINE d == [call EXCEPT !.pc = pc]
               e == [d EXCEPT !.at = d.at + 1]
               f == [d EXCEPT !.at = 1]
    <3>2. d = [pc |-> pc, found |-> call.found, at |-> call.at]
      BY <1>1 DEF Openings
    <3>3. [call EXCEPT !.pc = pc, !.at = @ + 1] = e /\ [call EXCEPT !.pc = pc, !.at = 1] = f
      BY <3>2
    <3> HIDE DEF d, call
    <3>4. /\ e = [pc |-> pc, found |-> call.found, at |-> call.at + 1]
          /\ f = [pc |-> pc, found |-> call.found, at |-> 1]
      BY <3>2
    <3> HIDE DEF e, f
    <3>5. QED
      BY <3>2, <3>3, <3>4 DEF d
  <2>3. [opening EXCEPT ![p].pc = "alter"] = [opening EXCEPT ![p] = [call EXCEPT !.pc = "alter"]]
    OBVIOUS
  <2>4. ASSUME NEW pc, NextOne(p, pc)
        PROVE  opening' = [opening EXCEPT ![p] =
                              [pc |-> pc, found |-> call.found, at |-> call.at + 1]]
    <3>1. [call EXCEPT !.pc = pc, !.at = @ + 1]
             = [pc |-> pc, found |-> call.found, at |-> call.at + 1]
      BY <2>2
    <3>2. opening' = [opening EXCEPT ![p] = [call EXCEPT !.pc = pc, !.at = @ + 1]]
      BY <2>1, <2>4 DEF NextOne
    <3>3. QED
      BY <3>1, <3>2, Zenon
  <2>5. ASSUME NEW pc, Further(p, pc)
        PROVE  opening' = [opening EXCEPT ![p] =
                              [pc |-> pc, found |-> call.found, at |-> 1]]
    <3>1. [call EXCEPT !.pc = pc, !.at = 1] = [pc |-> pc, found |-> call.found, at |-> 1]
      BY <2>2
    <3>2. opening' = [opening EXCEPT ![p] = [call EXCEPT !.pc = pc, !.at = 1]]
      BY <2>1, <2>5 DEF Further
    <3>3. QED
      BY <3>1, <3>2, Zenon
  <2> HIDE DEF call
  <2>6. QED
    BY <2>2, <2>3, <2>4, <2>5 DEF OpeningFails
<1>4. SoundOpening(Progress("closed"), schema)
  BY DEF SoundOpening, Progress, Openings
<1>5. ASSUME NEW n \in Nat \ {0}, call.pc = "ladder", n = call.at,
             n <= Len(Statements(call.found)), NEW parts, schema \subseteq parts,
             Statements(call.found)[n] \in parts
      PROVE  SoundOpening([pc |-> "ladder", found |-> call.found, at |-> n + 1], parts)
  BY <1>1, <1>2, <1>5 DEF SoundOpening, Openings
<1>6. ASSUME NEW n \in Nat \ {0}, call.pc \in {"columns", "alter"}, n = call.at, NEW parts,
             schema \subseteq parts, AddedColumns[n] \in parts
      PROVE  SoundOpening([pc |-> "columns", found |-> call.found, at |-> n + 1], parts)
  <2>1. /\ call.found \in Nat /\ LadderParts \subseteq schema
        /\ \A m \in DOMAIN AddedColumns : m < call.at => AddedColumns[m] \in schema
    BY <1>1, <1>6 DEF SoundOpening
  <2>2. \A m \in DOMAIN AddedColumns : m < n + 1 => m < call.at \/ m = n
    BY <1>6 DEF AddedColumns
  <2>3. QED
    BY <1>6, <2>1, <2>2 DEF SoundOpening, Openings
<1>7. Migrated(p) => Complete \subseteq schema
  <2>1. SUFFICES ASSUME Migrated(p)
                 PROVE  LadderParts \cup ToSet(AddedColumns) \subseteq schema
    BY VersionsHold
  <2>2. /\ call.pc = "columns" /\ call.at > Len(AddedColumns) /\ Len(AddedColumns) = 4
        /\ DOMAIN AddedColumns = 1..4
    BY <2>1 DEF Migrated, AddedColumns
  <2>3. LadderParts \subseteq schema /\ \A n \in DOMAIN AddedColumns : AddedColumns[n] \in schema
    <3>1. \A n \in 1..4 : n < call.at
      BY <1>2, <2>2
    <3>2. QED
      BY <1>1, <2>2, <3>1 DEF SoundOpening
  <2>4. QED
    BY <2>3 DEF ToSet
<1> HIDE DEF call
<1>8. CASE ReadVersion(p)
  <2>1. /\ opening' = [opening EXCEPT ![p] = [pc |-> "ladder", found |-> version, at |-> 1]]
        /\ UNCHANGED <<schema, version>>
    BY <1>8 DEF ReadVersion
  <2>2. SoundOpening([pc |-> "ladder", found |-> version, at |-> 1], schema)
    BY DEF SchemaInv, SoundOpening, Openings
  <2>3. QED
    BY <2>1, <2>2, OneOpens
<1>9. CASE CreateFound(p)
  <2>1. /\ call.pc = "ladder" /\ call.at <= Len(Statements(call.found))
        /\ Statements(call.found)[call.at] \in schema
        /\ NextOne(p, "ladder") /\ UNCHANGED <<schema, version>>
    BY <1>9 DEF CreateFound, AtStatement, Statement, call
  <2>2. SoundOpening([pc |-> "ladder", found |-> call.found, at |-> call.at + 1], schema)
    BY <1>2, <1>5, <2>1
  <2>3. QED
    BY <1>3, <2>1, <2>2, OneOpens
<1>10. CASE Create(p)
  <2>1. /\ call.pc = "ladder" /\ call.at <= Len(Statements(call.found))
        /\ schema' = schema \cup PartsOf(Statements(call.found)[call.at])
        /\ NextOne(p, "ladder") /\ UNCHANGED version
    BY <1>10 DEF Create, AtStatement, Statement, call
  <2>2. schema \subseteq schema' /\ Statements(call.found)[call.at] \in schema'
    BY <2>1 DEF PartsOf
  <2>3. SoundOpening([pc |-> "ladder", found |-> call.found, at |-> call.at + 1], schema')
    BY <1>2, <1>5, <2>1, <2>2
  <2>4. QED
    BY <1>3, <2>1, <2>2, <2>3, OneOpens
<1>11. CASE LadderClimbed(p)
  <2>1. /\ call.pc = "ladder" /\ call.at > Len(Statements(call.found))
        /\ Further(p, "columns") /\ UNCHANGED <<schema, version>>
    BY <1>11 DEF LadderClimbed, call
  <2>2. /\ call.found \in Nat /\ StepsUpTo(call.found) \subseteq schema
        /\ \A n \in DOMAIN Statements(call.found) :
              n < call.at => Statements(call.found)[n] \in schema
    BY <1>1, <2>1 DEF SoundOpening
  <2>3. /\ Statements(call.found) \in Seq(LadderParts)
        /\ LadderParts \subseteq StepsUpTo(call.found) \cup ToSet(Statements(call.found))
    BY <2>2, LadderHolds
  <2>4. \A n \in DOMAIN Statements(call.found) : n < call.at
    BY <1>2, <2>1, <2>3
  <2>5. LadderParts \subseteq schema
    BY <2>2, <2>3, <2>4 DEF ToSet
  <2>6. SoundOpening([pc |-> "columns", found |-> call.found, at |-> 1], schema)
    BY <2>2, <2>5 DEF SoundOpening, Openings, AddedColumns
  <2>7. QED
    BY <1>3, <2>1, <2>6, OneOpens
<1>12. CASE ColumnFound(p)
  <2>1. /\ call.pc = "columns" /\ call.at <= Len(AddedColumns) /\ ~ Lacks(p)
        /\ NextOne(p, "columns") /\ UNCHANGED <<schema, version>>
    BY <1>12 DEF ColumnFound, AtColumn, call
  <2>2. AddedColumns[call.at] \in schema
    <3>1. call.at \in DOMAIN AddedColumns
      BY <1>2, <2>1 DEF AddedColumns
    <3>2. <<AddedColumns[call.at][1], "table">> \in LadderParts
      BY <3>1, ColumnsHaveTables
    <3>3. LadderParts \subseteq schema
      BY <1>1, <2>1 DEF SoundOpening
    <3>4. QED
      BY <2>1, <3>2, <3>3 DEF Lacks, Column, call
  <2>3. SoundOpening([pc |-> "columns", found |-> call.found, at |-> call.at + 1], schema)
    BY <1>2, <1>6, <2>1, <2>2
  <2>4. QED
    BY <1>3, <2>1, <2>3, OneOpens
<1>13. CASE ColumnMissing(p)
  <2>1. /\ call.pc = "columns" /\ call.at <= Len(AddedColumns)
        /\ opening' = [opening EXCEPT ![p] = [pc |-> "alter", found |-> call.found, at |-> call.at]]
        /\ UNCHANGED <<schema, version>>
    BY <1>3, <1>13 DEF ColumnMissing, AtColumn, call
  <2>2. SoundOpening([pc |-> "alter", found |-> call.found, at |-> call.at], schema)
    BY <1>1, <1>2, <2>1 DEF SoundOpening, Openings
  <2>3. QED
    BY <2>1, <2>2, OneOpens
<1>14. CASE AddColumn(p)
  <2>1. /\ call.pc = "alter" /\ schema' = schema \cup {AddedColumns[call.at]}
        /\ NextOne(p, "columns") /\ UNCHANGED version
    BY <1>14 DEF AddColumn, Column, call
  <2>2. SoundOpening([pc |-> "columns", found |-> call.found, at |-> call.at + 1], schema')
    BY <1>2, <1>6, <2>1
  <2>3. QED
    BY <1>3, <2>1, <2>2, OneOpens
<1>15. CASE AddColumnTwice(p) \/ OpeningLocked(p)
  <2>1. OpeningFails(p) /\ UNCHANGED <<schema, version>>
    BY <1>15 DEF AddColumnTwice, OpeningLocked
  <2>2. QED
    BY <1>3, <1>4, <2>1, OneOpens
<1>16. CASE StampedAlready(p)
  <2>1. Migrated(p) /\ Further(p, "open") /\ UNCHANGED <<schema, version>>
    BY <1>16 DEF StampedAlready
  <2>2. SoundOpening([pc |-> "open", found |-> call.found, at |-> 1], schema)
    BY <1>2, <1>7, <2>1 DEF SoundOpening, Openings
  <2>3. QED
    BY <1>3, <2>1, <2>2, OneOpens
<1>17. CASE Stamp(p)
  <2>1. /\ Migrated(p) /\ Further(p, "open") /\ schema' = schema /\ version' = SCHEMA_VERSION
    BY <1>17 DEF Stamp
  <2>2. SoundOpening([pc |-> "open", found |-> call.found, at |-> 1], schema)
    BY <1>2, <1>7, <2>1 DEF SoundOpening, Openings
  <2>3. opening' = [opening EXCEPT ![p] = [pc |-> "open", found |-> call.found, at |-> 1]]
    BY <1>3, <2>1
  <2>4. /\ opening' \in [Processes -> Openings]
        /\ \A q \in Processes : SoundOpening(opening'[q], schema')
    BY <1>1, <2>1, <2>2, <2>3 DEF SchemaInv, SoundOpening
  <2>5. LadderParts \subseteq schema
    BY <1>1, <2>1 DEF SoundOpening, Migrated, call
  <2>6. StepsUpTo(version') \subseteq LadderParts /\ version' \in Nat
    BY <2>1 DEF StepsUpTo, LadderParts, SCHEMA_VERSION
  <2>7. QED
    BY <1>7, <2>1, <2>4, <2>5, <2>6 DEF SchemaInv
<1>18. QED
  BY <1>8, <1>9, <1>10, <1>11, <1>12, <1>13, <1>14, <1>15, <1>16, <1>17 DEF Open

LEMMA SchemaStays == SchemaInv /\ [Next]_vars => SchemaInv'
<1> SUFFICES ASSUME SchemaInv, [Next]_vars
             PROVE  SchemaInv'
  OBVIOUS
<1>1. ASSUME UNCHANGED schemaVars
      PROVE  SchemaInv'
  BY <1>1 DEF SchemaInv, schemaVars
<1>2. CASE \E p \in Processes : OpenDatabase(p)
  BY <1>2, OpeningStep DEF OpenDatabase
<1>3. CASE Fault
  <2>1. CASE \E p \in Processes : OpeningDies(p)
    <3>1. PICK p \in Processes : OpeningDies(p)
      BY <2>1
    <3>2. /\ opening' = [opening EXCEPT ![p] = Progress("closed")]
          /\ schema' = schema /\ version' = version
      BY <3>1 DEF OpeningDies, OpeningFails
    <3>3. SoundOpening(Progress("closed"), schema')
      BY DEF SoundOpening, Progress, Openings
    <3>4. QED
      BY <3>2, <3>3, OneOpens
  <2>2. QED
    BY <1>1, <1>3, <2>1 DEF Fault
<1>4. QED
  BY <1>1, <1>2, <1>3 DEF Next, Onboard, Work, Demand, Relinquish, Passes, vars

\* Whatever version was left, whoever else migrates and whenever one of them
\* dies: a process for which init_schema returned finds every table, column and
\* guard, and so does one that trusts the stamp (sqlite.py:762-783).
THEOREM OpenedDatabasesAreWhole == Spec => []OpenedIsComplete
<1>1. SchemaInv => OpenedIsComplete
  BY DEF SchemaInv, SoundOpening, OpenedIsComplete, IsOpen
<1>2. QED
  BY <1>1, SchemaBegins, SchemaStays, PTL DEF Spec
=============================================================================
