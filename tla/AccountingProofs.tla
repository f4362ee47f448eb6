--------------------------- MODULE AccountingProofs --------------------------
(***************************************************************************)
(* The accounting stage for any number of workers, documents, charts and   *)
(* observations: what the ledger can hold.  The inductive invariant says   *)
(* of a run that has read something what that something was worth when it  *)
(* was read, which the other workers and the environment cannot undo: a    *)
(* ledger that only grows keeps whatever a decision rested on.             *)
(***************************************************************************)
EXTENDS Accounting, PostingProofs, FiniteSetTheorems, SequenceTheorems, WellFoundedInduction

(*************************** The invariant *********************************)

\* A record that may be appended, given the observations so far.
SoundRecord(r, observed) ==
    /\ r.state \in States /\ r.recordedAt \in 0..MaxClock
    /\ r.key = <<r.contributor, r.source, r.rule, r.version, r.mapping>>
    /\ r.state = "POSTED" => OnItsChart(r) /\ SeenVigente(observed, r.contributor, r.source)

\* A decision whose record, dated at any instant, is sound.
SoundDecision(d, observed) ==
    /\ d.state \in States
    /\ d.state = "POSTED" =>
          /\ \E m \in Charts : ResolvedBy(d, m)
          /\ SeenVigente(observed, d.entry.contributor, d.entry.source)

\* The document in hand is the projection's, VIGENTE only if so observed.
SoundRead(x, observed) ==
    /\ x.projection \in Projections
    /\ x.doc.uuid = x.projection.doc.uuid
    /\ x.doc.status = "VIGENTE" => SeenVigente(observed, x.projection.contributor, x.doc.uuid)

SoundWorker(x, observed) ==
    /\ x.pc \in Resting \cup Running
    /\ x.projection \in Projections \cup {None}
    /\ x.pc \in Running => x.projection \in Projections
    /\ x.pc \in {"mapping", "ledger"} => SoundRead(x, observed)
    /\ x.pc = "ledger" => x.chart \in Charts
    /\ x.pc = "append" => SoundDecision(x.decision, observed)
    /\ x.pc = "insert" => SoundRecord(x.record, observed)

SoundStores ==
    /\ archive \subseteq Uuids
    /\ snapshots \in [Books -> Seq(Snapshot)]
    /\ \A b \in Books : Len(snapshots[b]) <= MaxSnapshots
    /\ charts \in [Contributors -> Charts \cup {None}]
    /\ clock \in 0..MaxClock

SoundWorkers ==
    /\ workers = [w \in Workers |-> workers[w]]
    /\ \A w \in Workers : SoundWorker(workers[w], snapshots)

SoundJournal == \A r \in journal : SoundRecord(r, snapshots)

IInv == SoundStores /\ SoundWorkers /\ SoundJournal /\ OneRecordPerKey

(************************* The newest observation **************************)

\* Max finds the greatest element of a bounded non-empty set of naturals.
LEMMA MaxOfBounded ==
    ASSUME NEW n \in Nat, NEW S \in SUBSET (0..n), S # {}
    PROVE  Max(S) \in S
<1> DEFINE T == {n - x : x \in S}
<1>1. T \subseteq Nat /\ T # {}
  <2>1. \A x \in S : n - x \in Nat
    OBVIOUS
  <2>2. QED
    BY <2>1
<1>2. PICK t \in T : \A y \in T : ~ (y < t)
  <2> HIDE DEF T
  <2>1. \E t \in T : \A y \in T : ~ (<<y, t>> \in OpToRel(<, Nat))
    BY <1>1, WFMin, NatLessThanWellFounded, Zenon
  <2>2. \A y, t \in Nat : y < t => <<y, t>> \in OpToRel(<, Nat)
    BY Zenon DEF OpToRel
  <2>3. QED
    BY <1>1, <2>1, <2>2, Zenon
<1>3. PICK x \in S : t = n - x
  OBVIOUS
<1>4. ASSUME NEW y \in S
      PROVE  x >= y
  <2>1. n - y \in T /\ n - y \in Nat /\ t \in Nat
    BY <1>1
  <2>2. ~ (n - y < t)
    BY <1>2, <2>1
  <2>3. QED
    BY <1>3, <2>2
<1>5. QED
  BY <1>4 DEF Max

\* The newest observation is one that was made.
LEMMA LatestWasObserved ==
    ASSUME NEW history \in Seq(Snapshot), history # <<>>, BoundsAssumption
    PROVE  \E i \in DOMAIN history : Latest(history) = history[i]
<1> DEFINE times == {history[i].retrieved : i \in DOMAIN history}
           newest == Max(times)
           last == {i \in DOMAIN history : history[i].retrieved = newest}
<1>1. DOMAIN history = 1..Len(history) /\ Len(history) \in Nat /\ Len(history) # 0
  BY LenProperties, EmptySeq
<1>2. times \in SUBSET (0..MaxClock) /\ times # {}
  <2>1. \A i \in DOMAIN history : history[i] \in Snapshot
    BY <1>1, ElementOfSeq
  <2>2. QED
    BY <1>1, <2>1 DEF Snapshot
<1>3. newest \in times
  BY <1>2, MaxOfBounded DEF BoundsAssumption
<1>4. last \in SUBSET (0..Len(history)) /\ last # {}
  <2> HIDE DEF newest
  <2>1. \A i \in last : i \in 0..Len(history)
    BY <1>1
  <2>2. \E i \in DOMAIN history : history[i].retrieved = newest
    BY <1>3
  <2>3. QED
    BY <2>1, <2>2
<1>5. Max(last) \in last
  BY <1>1, <1>4, MaxOfBounded
<1>6. QED
  BY <1>5 DEF Latest

(*********************** Observations only accrue **************************)

Grown(before, after) ==
    \A b \in Books : \A i \in DOMAIN before[b] :
        i \in DOMAIN after[b] /\ after[b][i] = before[b][i]

\* More observations never make a sound record or a sound run unsound.
LEMMA SoundStays ==
    ASSUME NEW before, NEW after, Grown(before, after)
    PROVE  /\ \A r : SoundRecord(r, before) => SoundRecord(r, after)
           /\ \A x : SoundWorker(x, before) => SoundWorker(x, after)
<1>1. \A c, u : SeenVigente(before, c, u) => SeenVigente(after, c, u)
  BY DEF SeenVigente, Grown
<1>2. \A r : SoundRecord(r, before) => SoundRecord(r, after)
  BY <1>1 DEF SoundRecord
<1>3. \A x : SoundWorker(x, before) => SoundWorker(x, after)
  BY <1>1, <1>2 DEF SoundWorker, SoundRead, SoundDecision
<1>4. QED
  BY <1>2, <1>3

\* An appended observation leaves the earlier ones where they were.
LEMMA ObserveGrows ==
    ASSUME SoundStores, NEW b \in Books, NEW o \in Observations, NEW t \in 0..clock,
           Observe(b, o, t), BoundsAssumption
    PROVE  /\ Grown(snapshots, snapshots')
           /\ snapshots' \in [Books -> Seq(Snapshot)]
           /\ \A d \in Books : Len(snapshots'[d]) <= MaxSnapshots
<1> DEFINE s == [status |-> o.status, cancelledOn |-> o.cancelledOn, retrieved |-> t]
<1>1. s \in Snapshot
  BY DEF SoundStores, BoundsAssumption, Snapshot
<1>2. snapshots' = [snapshots EXCEPT ![b] = Append(snapshots[b], s)]
  BY DEF Observe
<1> HIDE DEF s
<1>3. /\ snapshots[b] \in Seq(Snapshot)
      /\ Append(snapshots[b], s) \in Seq(Snapshot)
      /\ Len(Append(snapshots[b], s)) = Len(snapshots[b]) + 1
      /\ \A i \in 1..Len(snapshots[b]) : Append(snapshots[b], s)[i] = snapshots[b][i]
  BY <1>1, AppendProperties DEF SoundStores
<1>4. snapshots' \in [Books -> Seq(Snapshot)]
  BY <1>2, <1>3 DEF SoundStores
<1>5. Grown(snapshots, snapshots')
  <2>1. SUFFICES ASSUME NEW d \in Books, NEW i \in DOMAIN snapshots[d]
                 PROVE  i \in DOMAIN snapshots'[d] /\ snapshots'[d][i] = snapshots[d][i]
    BY DEF Grown
  <2>2. CASE d = b
    <3>1. snapshots'[d] = Append(snapshots[b], s)
      BY <1>2, <2>2 DEF SoundStores
    <3>2. DOMAIN snapshots[b] = 1..Len(snapshots[b]) /\ Len(snapshots[b]) \in Nat
      BY <1>3, LenProperties
    <3>3. DOMAIN Append(snapshots[b], s) = 1..Len(snapshots[b]) + 1
      BY <1>3, LenProperties
    <3>4. QED
      BY <1>3, <2>2, <3>1, <3>2, <3>3
  <2>3. CASE d # b
    BY <1>2, <2>3 DEF SoundStores
  <2>4. QED
    BY <2>2, <2>3
<1>6. \A d \in Books : Len(snapshots'[d]) <= MaxSnapshots
  <2>1. Len(snapshots[b]) + 1 <= MaxSnapshots
    <3>1. Len(snapshots[b]) \in Nat /\ Len(snapshots[b]) < MaxSnapshots
      BY <1>3, LenProperties DEF Observe
    <3>2. QED
      BY <3>1 DEF BoundsAssumption
  <2>2. QED
    BY <1>2, <1>3, <2>1 DEF SoundStores
<1>7. QED
  BY <1>4, <1>5, <1>6

(************************ The invariant is inductive ***********************)

\* The initial state satisfies it: nothing is recorded and no run has begun.
LEMMA InitSound == Init => IInv
<1> SUFFICES ASSUME Init PROVE IInv
  OBVIOUS
<1> USE BoundsAssumption
<1>1. SoundStores
  <2>1. <<>> \in Seq(Snapshot) /\ Len(<<>>) = 0
    BY EmptySeq
  <2>2. QED
    BY <2>1 DEF Init, SoundStores, BoundsAssumption
<1>2. SoundWorkers
  BY DEF Init, SoundWorkers, SoundWorker, Ended, Worker, Resting, Running
<1>3. SoundJournal /\ OneRecordPerKey
  BY DEF Init, SoundJournal, OneRecordPerKey
<1>4. QED
  BY <1>1, <1>2, <1>3 DEF IInv

\* A step that only moves one worker on keeps it, if the worker stays sound.
LEMMA WorkerStep ==
    ASSUME IInv, NEW w \in Workers, NEW x,
           SoundWorker(x, snapshots),
           workers' = [workers EXCEPT ![w] = x],
           UNCHANGED <<archive, snapshots, charts, journal, clock>>
    PROVE  IInv'
<1>1. SoundStores'
  BY DEF IInv, SoundStores
<1>2. SoundWorkers'
  BY DEF IInv, SoundWorkers
<1>3. SoundJournal' /\ OneRecordPerKey'
  BY DEF IInv, SoundJournal, OneRecordPerKey
<1>4. QED
  BY <1>1, <1>2, <1>3 DEF IInv

\* A run that has ended is sound, whatever its outcome.
LEMMA EndedIsSound ==
    ASSUME NEW outcome \in Resting
    PROVE  SoundWorker(Ended(outcome), snapshots)
BY DEF SoundWorker, Ended, Worker, Resting, Running

\* What the environment does keeps it: it only adds observations.
LEMMA EnvironmentStep ==
    ASSUME IInv, Environment
    PROVE  IInv'
<1> USE BoundsAssumption
<1>1. ASSUME NEW u \in Uuids, Project(u)
      PROVE  IInv'
  BY <1>1 DEF IInv, Project, SoundStores, SoundWorkers, SoundJournal, OneRecordPerKey
<1>2. ASSUME NEW b \in Books, NEW o \in Observations, NEW t \in 0..clock, Observe(b, o, t)
      PROVE  IInv'
  <2>1. UNCHANGED <<archive, charts, journal, clock, workers>>
    BY <1>2 DEF Observe
  <2>2. /\ Grown(snapshots, snapshots')
        /\ snapshots' \in [Books -> Seq(Snapshot)]
        /\ \A d \in Books : Len(snapshots'[d]) <= MaxSnapshots
    BY <1>2, ObserveGrows DEF IInv
  <2>3. SoundStores'
    BY <2>1, <2>2 DEF IInv, SoundStores
  <2>4. SoundWorkers'
    BY <2>1, <2>2, SoundStays DEF IInv, SoundWorkers
  <2>5. SoundJournal' /\ OneRecordPerKey'
    BY <2>1, <2>2, SoundStays DEF IInv, SoundJournal, OneRecordPerKey
  <2>6. QED
    BY <2>3, <2>4, <2>5 DEF IInv
<1>3. ASSUME NEW c \in Contributors, NEW m \in Charts, ChangeChart(c, m)
      PROVE  IInv'
  BY <1>3 DEF IInv, ChangeChart, SoundStores, SoundWorkers, SoundJournal, OneRecordPerKey
<1>4. ASSUME Tick
      PROVE  IInv'
  BY <1>4 DEF IInv, Tick, SoundStores, SoundWorkers, SoundJournal, OneRecordPerKey,
              BoundsAssumption
<1>5. QED
  BY <1>1, <1>2, <1>3, <1>4 DEF Environment

\* The status read is worth something: VIGENTE in hand was observed.
LEMMA ReadStatusStep ==
    ASSUME IInv, NEW w \in Workers, NEW p \in Projections, ReadStatus(w, p)
    PROVE  IInv'
<1> DEFINE b == <<p.contributor, p.doc.uuid>>
           history == snapshots[b]
           doc == IF history = <<>> THEN p.doc
                  ELSE [p.doc EXCEPT !.status = Latest(history).status]
           date == IF history # <<>> /\ Latest(history).status = "CANCELLED"
                   THEN Latest(history).cancelledOn ELSE None
           x == Worker("mapping", p, doc, date, None, None, None)
<1>1. b \in Books
  BY DEF Books
<1>2. history \in Seq(Snapshot)
  BY <1>1 DEF IInv, SoundStores
<1>3. doc.uuid = p.doc.uuid
  BY ProjectionAssumption
<1>4. doc.status = "VIGENTE" => SeenVigente(snapshots, p.contributor, doc.uuid)
  <2>1. CASE history = <<>>
    BY <2>1, ProjectionAssumption
  <2>2. CASE history # <<>>
    <3>1. doc.status = Latest(history).status
      BY <2>2, ProjectionAssumption
    <3>2. PICK i \in DOMAIN history : Latest(history) = history[i]
      BY <1>2, <2>2, LatestWasObserved, BoundsAssumption
    <3>3. doc.status = "VIGENTE" => history[i].status = "VIGENTE"
      BY <3>1, <3>2
    <3> HIDE DEF doc
    <3>4. QED
      BY <1>1, <1>3, <3>2, <3>3 DEF SeenVigente
  <2>3. QED
    BY <2>1, <2>2
<1>5. SoundWorker(x, snapshots)
  <2> HIDE DEF doc, date
  <2>1. SoundRead(x, snapshots)
    BY <1>3, <1>4 DEF SoundRead, Worker
  <2>2. QED
    BY <2>1 DEF SoundWorker, Worker, Resting, Running
<1>6. workers' = [workers EXCEPT ![w] = x] /\ UNCHANGED <<archive, snapshots, charts, journal, clock>>
  BY DEF ReadStatus
<1> HIDE DEF x
<1>7. QED
  BY <1>5, <1>6, WorkerStep

\* The chart in hand is one of the client's charts.
LEMMA ReadMappingStep ==
    ASSUME IInv, NEW w \in Workers, ReadMapping(w)
    PROVE  IInv'
<1> DEFINE chart == charts[workers[w].projection.contributor]
           x == IF chart = None THEN Ended("not_configured")
                ELSE Worker("ledger", workers[w].projection, workers[w].doc,
                            workers[w].cancelledOn, chart, None, None)
<1>1. SoundWorker(workers[w], snapshots) /\ workers[w].pc = "mapping"
  BY DEF IInv, SoundWorkers, ReadMapping
<1>2. SoundRead(workers[w], snapshots)
  BY <1>1 DEF SoundWorker
<1>3. chart \in Charts \cup {None}
  BY <1>2 DEF IInv, SoundStores, SoundRead, Contributors
<1>4. SoundWorker(x, snapshots)
  <2>1. CASE chart = None
    BY <2>1, EndedIsSound DEF Resting
  <2>2. CASE chart # None
    <3>1. x = Worker("ledger", workers[w].projection, workers[w].doc,
                     workers[w].cancelledOn, chart, None, None)
      BY <2>2
    <3> HIDE DEF x
    <3>2. SoundRead(x, snapshots) /\ x.pc = "ledger" /\ x.chart = chart
      BY <1>2, <3>1 DEF SoundRead, Worker
    <3>3. QED
      BY <1>3, <2>2, <3>2 DEF SoundWorker, SoundRead, Resting, Running
  <2>3. QED
    BY <2>1, <2>2
<1>5. workers' = [workers EXCEPT ![w] = x] /\ UNCHANGED <<archive, snapshots, charts, journal, clock>>
  BY DEF ReadMapping
<1> HIDE DEF x
<1>6. QED
  BY <1>4, <1>5, WorkerStep

\* What is decided on the reads is sound: a POSTED decision is on the chart in
\* hand, about the document in hand, which was seen VIGENTE.
LEMMA DecideStep ==
    ASSUME IInv, NEW w \in Workers, ReadLedgerAndDecide(w)
    PROVE  IInv'
<1> DEFINE ctx == PostingContext(workers[w])
           proposal == ProposeFor(ctx)
           decision == Decide(ctx, proposal, workers[w].chart)
           append == Worker("append", workers[w].projection, None, None, None, decision, None)
           x == IF proposal.kind = "raise" THEN Ended("ambiguous")
                ELSE IF decision.entry = None THEN Ended("document_review")
                ELSE append
<1>1. SoundWorker(workers[w], snapshots) /\ workers[w].pc = "ledger"
  BY DEF IInv, SoundWorkers, ReadLedgerAndDecide
<1>2. SoundRead(workers[w], snapshots) /\ workers[w].chart \in Charts
  BY <1>1 DEF SoundWorker
<1>3. ctx.contributor = workers[w].projection.contributor /\ ctx.doc = workers[w].doc
  BY DEF PostingContext
<1>4. ProposesAbout(proposal, ctx)
  BY ProposalIdentity
<1>5. ASSUME proposal.kind # "raise"
      PROVE  SoundDecision(decision, snapshots)
  <2>1. decision.state \in States
    BY DecisionState DEF States
  <2>2. ASSUME decision.state = "POSTED"
        PROVE  /\ ResolvedBy(decision, workers[w].chart)
               /\ SeenVigente(snapshots, decision.entry.contributor, decision.entry.source)
    <3>1. /\ ctx.doc.status = "VIGENTE"
          /\ decision.entry.contributor = ctx.contributor
          /\ decision.entry.source = ctx.doc.uuid
          /\ ResolvedBy(decision, workers[w].chart)
      <4> HIDE DEF ctx, proposal
      <4>1. QED
        BY <1>4, <1>5, <2>2, PostedIsSound
    <3> HIDE DEF ctx, decision
    <3>2. QED
      BY <1>2, <1>3, <3>1 DEF SoundRead
  <2> HIDE DEF decision
  <2>3. QED
    BY <1>2, <2>1, <2>2 DEF SoundDecision
<1>6. SoundWorker(x, snapshots)
  <2> HIDE DEF proposal, decision
  <2>1. ASSUME proposal.kind # "raise"
        PROVE  SoundWorker(append, snapshots)
    BY <1>2, <1>5, <2>1 DEF SoundWorker, SoundRead, Worker, Resting, Running
  <2> HIDE DEF append
  <2>2. SoundWorker(Ended("ambiguous"), snapshots) /\ SoundWorker(Ended("document_review"), snapshots)
    BY EndedIsSound DEF Resting
  <2>3. QED
    BY <2>1, <2>2
<1>7. workers' = [workers EXCEPT ![w] = x] /\ UNCHANGED <<archive, snapshots, charts, journal, clock>>
  BY DEF ReadLedgerAndDecide
<1> HIDE DEF x
<1>8. QED
  BY <1>6, <1>7, WorkerStep

\* The record of a sound decision, whatever the instant it is dated.
LEMMA SoundDecisionGivesSoundRecord ==
    ASSUME NEW d, SoundDecision(d, snapshots), NEW t \in 0..MaxClock
    PROVE  SoundRecord(ToRecord(d, t), snapshots)
<1> DEFINE r == ToRecord(d, t)
<1>1. /\ r.key = <<r.contributor, r.source, r.rule, r.version, r.mapping>>
      /\ r.contributor = d.entry.contributor /\ r.source = d.entry.source
      /\ r.mapping = d.mapping /\ r.state = d.state /\ r.recordedAt = t
      /\ DOMAIN r.lines = DOMAIN d.entry.lines
      /\ \A i \in DOMAIN d.entry.lines :
            /\ r.lines[i].role = d.entry.lines[i].role
            /\ d.entry.lines[i].role \in DOMAIN d.accounts =>
                  r.lines[i].account = d.accounts[d.entry.lines[i].role]
  BY RecordOf
<1>2. ASSUME NEW m \in Charts, ResolvedBy(d, m)
      PROVE  OnItsChart(r)
  <2> HIDE DEF r
  <2>1. m.version = r.mapping
    BY <1>1, <1>2 DEF ResolvedBy
  <2>2. \A i \in DOMAIN r.lines :
           r.lines[i].role \in DOMAIN m.accounts /\ r.lines[i].account = m.accounts[r.lines[i].role]
    BY <1>1, <1>2 DEF ResolvedBy, RolesOf
  <2>3. QED
    BY <2>1, <2>2 DEF OnItsChart
<1> HIDE DEF r
<1>3. SoundRecord(r, snapshots)
  BY <1>1, <1>2 DEF SoundRecord, SoundDecision
<1>4. QED
  BY <1>3 DEF r

\* The key check writes nothing; the record it holds on to is sound.
LEMMA CheckKeyStep ==
    ASSUME IInv, NEW w \in Workers, CheckKey(w)
    PROVE  IInv'
<1> DEFINE record == ToRecord(workers[w].decision, clock)
           existing == {r \in journal : r.key = record.key}
           insert == Worker("insert", workers[w].projection, None, None, None, None, record)
           conflict == Worker("conflict", None, None, None, None, None, record)
           x == IF record.state = "POSTED" /\ ~ IsBalanced(record.lines) THEN Ended("unbalanced")
                ELSE IF existing = {} THEN insert
                ELSE IF existing = {record} THEN Ended("noop")
                ELSE conflict
<1>1. SoundWorker(workers[w], snapshots) /\ workers[w].pc = "append"
  BY DEF IInv, SoundWorkers, CheckKey
<1>2. workers[w].projection \in Projections /\ SoundDecision(workers[w].decision, snapshots)
  BY <1>1 DEF SoundWorker, Running
<1>3. SoundRecord(record, snapshots)
  BY <1>2, SoundDecisionGivesSoundRecord DEF IInv, SoundStores
<1>4. SoundWorker(x, snapshots)
  <2> HIDE DEF record
  <2>1. SoundWorker(insert, snapshots)
    BY <1>2, <1>3 DEF SoundWorker, Worker, Resting, Running
  <2>2. SoundWorker(conflict, snapshots)
    BY DEF SoundWorker, Worker, Resting, Running
  <2>3. SoundWorker(Ended("unbalanced"), snapshots) /\ SoundWorker(Ended("noop"), snapshots)
    BY EndedIsSound DEF Resting
  <2> HIDE DEF insert, conflict, existing
  <2>4. QED
    BY <2>1, <2>2, <2>3
<1>5. workers' = [workers EXCEPT ![w] = x] /\ UNCHANGED <<archive, snapshots, charts, journal, clock>>
  BY DEF CheckKey
<1> HIDE DEF x
<1>6. QED
  BY <1>4, <1>5, WorkerStep

\* An insert adds a sound record under a key the ledger did not have.
LEMMA InsertStep ==
    ASSUME IInv, NEW w \in Workers, Insert(w)
    PROVE  IInv'
<1> DEFINE record == workers[w].record
           taken == \E r \in journal : r.key = record.key
           x == Ended(IF taken THEN "integrity_error" ELSE "recorded")
<1>1. SoundRecord(record, snapshots)
  <2>1. SoundWorker(workers[w], snapshots) /\ workers[w].pc = "insert"
    BY DEF IInv, SoundWorkers, Insert
  <2>2. QED
    BY <2>1 DEF SoundWorker
<1>2. /\ UNCHANGED <<archive, snapshots, charts, clock>>
      /\ workers' = [workers EXCEPT ![w] = x]
      /\ journal' = IF taken THEN journal ELSE journal \cup {record}
  BY DEF Insert
<1>3. SoundWorker(x, snapshots)
  BY EndedIsSound DEF Resting
<1> HIDE DEF x
<1>4. SoundStores'
  BY <1>2 DEF IInv, SoundStores
<1>5. SoundWorkers'
  BY <1>2, <1>3 DEF IInv, SoundWorkers
<1>6. SoundJournal'
  BY <1>1, <1>2 DEF IInv, SoundJournal
<1>7. OneRecordPerKey'
  BY <1>2 DEF IInv, OneRecordPerKey
<1>8. QED
  BY <1>4, <1>5, <1>6, <1>7 DEF IInv

\* A crash forgets a run; the stores are as they were.
LEMMA CrashStep ==
    ASSUME IInv, NEW w \in Workers, Crash(w)
    PROVE  IInv'
<1>1. SoundWorker(Ended("idle"), snapshots)
  BY EndedIsSound DEF Resting
<1>2. QED
  BY <1>1, WorkerStep DEF Crash

LEMMA StepSound == IInv /\ [Next]_vars => IInv'
<1> SUFFICES ASSUME IInv, [Next]_vars
             PROVE  IInv'
  OBVIOUS
<1>1. CASE Environment
  BY <1>1, EnvironmentStep
<1>2. ASSUME NEW w \in Workers, NEW p \in Projections, ReadStatus(w, p)
      PROVE  IInv'
  BY <1>2, ReadStatusStep
<1>3. ASSUME NEW w \in Workers, Proceed(w)
      PROVE  IInv'
  BY <1>3, ReadMappingStep, DecideStep, CheckKeyStep, InsertStep DEF Proceed
<1>4. ASSUME NEW w \in Workers, Crash(w)
      PROVE  IInv'
  BY <1>4, CrashStep
<1>5. CASE UNCHANGED vars
  BY <1>5 DEF vars, IInv, SoundStores, SoundWorkers, SoundJournal, OneRecordPerKey
<1>6. QED
  BY <1>1, <1>2, <1>3, <1>4, <1>5 DEF Next

LEMMA InvariantHolds == Spec => []IInv
BY InitSound, StepSound, PTL DEF Spec

(************************* What a record rests on **************************)

\* The journal holds a posted record that r takes back, leg by leg.
Mirrors(r, ledger) ==
    r.rule = RULE_4_15B.id =>
        \E s \in ledger :
            /\ s.contributor = r.contributor /\ s.source = r.source
            /\ s.state = "POSTED" /\ s.hash = r.hash
            /\ DOMAIN s.lines = DOMAIN r.lines
            /\ \A i \in DOMAIN s.lines : Booking(r.lines[i]) = TakenBack(s.lines[i])

PostedIn(ledger, contributor, uuid) ==
    \E r \in ledger : r.contributor = contributor /\ r.source = uuid /\ r.state = "POSTED"

\* The journal holds the originals that r settles or corrects.
Settles(r, ledger) ==
    \A p \in Projections :
        r.source = p.doc.uuid /\ r.contributor = p.contributor =>
            /\ r.state = "POSTED" /\ (\E row \in REP_ROWS : row.id = r.rule) =>
                  \A u \in SettledUuids(p.doc) : PostedIn(ledger, r.contributor, u)
            /\ (\E row \in CREDIT_NOTE_ROWS : row.id = r.rule) /\ r.lines # <<>> =>
                  \E u \in RelatedUuids(p.doc) : PostedIn(ledger, r.contributor, u)

Backed(r, ledger) == Mirrors(r, ledger) /\ Settles(r, ledger)

BackedWorker(x, ledger) ==
    /\ x.pc \in {"mapping", "ledger"} =>
          /\ x.doc.pagos = x.projection.doc.pagos
          /\ x.doc.relaciones = x.projection.doc.relaciones
    /\ x.pc = "append" => \A t \in 0..MaxClock : Backed(ToRecord(x.decision, t), ledger)
    /\ x.pc = "insert" => Backed(x.record, ledger)

BackedInv ==
    /\ \A r \in journal : Backed(r, journal)
    /\ \A w \in Workers : BackedWorker(workers[w], journal)

\* A longer ledger backs what a shorter one did.
LEMMA BackedStays ==
    ASSUME NEW before, NEW after, before \subseteq after
    PROVE  /\ \A r : Backed(r, before) => Backed(r, after)
           /\ \A x : BackedWorker(x, before) => BackedWorker(x, after)
<1>1. \A r : Mirrors(r, before) => Mirrors(r, after)
  BY DEF Mirrors
<1>2. \A c, u : PostedIn(before, c, u) => PostedIn(after, c, u)
  BY DEF PostedIn
<1>3. \A r : Settles(r, before) => Settles(r, after)
  BY <1>2 DEF Settles
<1>4. \A r : Backed(r, before) => Backed(r, after)
  BY <1>1, <1>3 DEF Backed
<1>5. QED
  BY <1>4 DEF BackedWorker

\* A record under any other rule rests on no other.
LEMMA OtherRulesAreBacked ==
    ASSUME NEW r, r.rule \in OTHER_RULE_IDS \cup {"4.15a"}
    PROVE  Backed(r, journal)
BY RuleIds DEF Backed, Mirrors, Settles, OTHER_RULE_IDS

\* A reversal is decided on the posted record it takes back.
LEMMA ReversalIsBacked ==
    ASSUME NEW x, NEW m, NEW t, x.doc.status = "CANCELLED",
           Cancellation(PostingContext(x)).kind # "raise",
           Decide(PostingContext(x), Cancellation(PostingContext(x)), m).entry # None
    PROVE  Backed(ToRecord(Decide(PostingContext(x), Cancellation(PostingContext(x)), m), t), journal)
<1> DEFINE ctx == PostingContext(x)
           answer == Cancellation(ctx)
           decision == Decide(ctx, answer, m)
           s == CHOOSE r \in PostedEntries(ctx) : TRUE
           r == ToRecord(decision, t)
<1>1. ctx.previous = ForSource(ctx.contributor, x.doc.uuid)
  BY DEF PostingContext
<1> HIDE DEF ctx
<1>2. CASE PostedEntries(ctx) = {}
  <2>1. answer = CancellationSkip(ctx)
    BY <1>2 DEF Cancellation
  <2>2. UnderRules(answer, {"4.15a"}) /\ answer.kind \in {"skip", "review"}
    <3>1. CASE CancellationFlags(ctx) # {}
      BY <2>1, <3>1 DEF CancellationSkip, ReviewRequest, UnderRules
    <3>2. CASE CancellationFlags(ctx) = {}
      <4>1. answer = Skip(ProposedJournalEntry(RULE_4_15A, ctx, ctx.doc.uuid, ctx.doc.hash,
                                               ctx.cancelledOn, <<>>, {}))
        BY <2>1, <3>2 DEF CancellationSkip
      <4>2. UnderRules(answer, {RULE_4_15A.id})
        BY <4>1, ProposeRule, Zenon
      <4>3. QED
        BY <4>1, <4>2, RuleIds DEF Skip
    <3>3. QED
      BY <3>1, <3>2
  <2>3. decision.entry.rule = "4.15a"
    <3> HIDE DEF answer
    <3>1. decision.entry.rule \in {"4.15a"}
      BY <2>2, DecisionKeepsTheRule DEF ctx, answer
    <3>2. QED
      BY <3>1
  <2>4. r.rule = "4.15a"
    <3> HIDE DEF decision
    <3>1. QED
      BY <2>3, RecordOf
  <2> HIDE DEF r
  <2>5. Backed(r, journal)
    BY <2>4, OtherRulesAreBacked
  <2>6. QED
    BY <2>5 DEF r, ctx
<1>3. CASE PostedEntries(ctx) # {}
  <2>1. s \in PostedEntries(ctx)
    BY <1>3
  <2>2. /\ s \in journal /\ s.contributor = ctx.contributor /\ s.source = x.doc.uuid
        /\ s.state = "POSTED"
    BY <1>1, <2>1 DEF PostedEntries, ForSource
  <2>3. answer = Reversal(ctx, s)
    BY <1>3 DEF Cancellation, Raise, ctx
  <2> HIDE DEF s
  <2> DEFINE entry == ProposedJournalEntry(RULE_4_15B, ctx, s.source, s.hash, ctx.cancelledOn,
                                           ReversedLegs(s.lines), {})
  <2>4. HasHistory(s) /\ answer = ReviewRequest(entry, {"CANCELLED_AFTER_POSTING"}, HistoricalAccounts(s))
    <3>1. ctx.cancelledOn # None
      <4>1. SUFFICES ASSUME ctx.cancelledOn = None PROVE FALSE
        OBVIOUS
      <4>2. answer.kind = "review" /\ answer.entry = None
        BY <2>3, <4>1 DEF Reversal, ReviewRequest
      <4>3. decision.entry = None
        BY <4>2 DEF Decide, DecideReview, PostingDecision
      <4>4. QED
        BY <4>3 DEF ctx
    <3>2. answer.kind # "raise"
      BY DEF ctx
    <3>3. QED
      BY <2>3, <3>1, <3>2 DEF Reversal, Raise
  <2>5. /\ decision.entry = entry /\ decision.accounts = HistoricalAccounts(s)
        /\ decision.state = "PROPOSED"
    BY <2>4 DEF Decide, DecideReview, PostingDecision, ReviewRequest
  <2>6. /\ entry.contributor = ctx.contributor /\ entry.source = s.source /\ entry.hash = s.hash
        /\ entry.rule = "4.15b" /\ entry.lines = ReversedLegs(s.lines)
    BY DEF ProposedJournalEntry, RULE_4_15B
  <2> HIDE DEF entry, decision, answer
  <2>7. /\ r.contributor = s.contributor /\ r.source = s.source /\ r.hash = s.hash
        /\ r.rule = "4.15b" /\ r.state = "PROPOSED"
    BY <2>2, <2>5, <2>6 DEF ToRecord
  <2>8. \A i \in DOMAIN s.lines :
           /\ s.lines[i].role \in DOMAIN HistoricalAccounts(s)
           /\ HistoricalAccounts(s)[s.lines[i].role] = s.lines[i].account
    <3>1. TAKE i \in DOMAIN s.lines
    <3> DEFINE role == s.lines[i].role
               j == CHOOSE j \in DOMAIN s.lines : s.lines[j].role = role
    <3>2. j \in DOMAIN s.lines /\ s.lines[j].role = role
      OBVIOUS
    <3>3. s.lines[j].account = s.lines[i].account
      BY <2>4, <3>2 DEF HasHistory
    <3>4. role \in DOMAIN HistoricalAccounts(s) /\ HistoricalAccounts(s)[role] = s.lines[j].account
      BY DEF HistoricalAccounts, RolesOf
    <3>5. QED
      BY <3>3, <3>4
  <2>9. /\ DOMAIN r.lines = DOMAIN s.lines
        /\ \A i \in DOMAIN s.lines : Booking(r.lines[i]) = TakenBack(s.lines[i])
    <3>1. /\ DOMAIN decision.entry.lines = DOMAIN s.lines
          /\ \A i \in DOMAIN s.lines :
                decision.entry.lines[i] = JournalLine(s.lines[i].role, <<"reversal">> \o s.lines[i].key,
                                                      Opposite(s.lines[i].side), s.lines[i].amount)
      BY <2>5, <2>6 DEF ReversedLegs
    <3>2. /\ DOMAIN r.lines = DOMAIN s.lines
          /\ \A i \in DOMAIN s.lines :
                /\ r.lines[i].role = s.lines[i].role
                /\ r.lines[i].key = <<"reversal">> \o s.lines[i].key
                /\ r.lines[i].side = Opposite(s.lines[i].side)
                /\ r.lines[i].amount = s.lines[i].amount
                /\ r.lines[i].account = HistoricalAccounts(s)[s.lines[i].role]
      <4>1. DOMAIN r.lines = DOMAIN decision.entry.lines
        BY RecordOf DEF r
      <4> HIDE DEF r
      <4>2. SUFFICES ASSUME NEW i \in DOMAIN s.lines
                     PROVE  /\ r.lines[i].role = s.lines[i].role
                            /\ r.lines[i].key = <<"reversal">> \o s.lines[i].key
                            /\ r.lines[i].side = Opposite(s.lines[i].side)
                            /\ r.lines[i].amount = s.lines[i].amount
                            /\ r.lines[i].account = HistoricalAccounts(s)[s.lines[i].role]
        BY <3>1, <4>1
      <4>3. i \in DOMAIN decision.entry.lines
        BY <3>1
      <4>4. LET leg == decision.entry.lines[i]
            IN  /\ leg.role = s.lines[i].role /\ leg.key = <<"reversal">> \o s.lines[i].key
                /\ leg.side = Opposite(s.lines[i].side) /\ leg.amount = s.lines[i].amount
        <5>1. LET leg == ReversedLegs(s.lines)[i]
              IN  /\ leg.role = s.lines[i].role /\ leg.key = <<"reversal">> \o s.lines[i].key
                  /\ leg.side = Opposite(s.lines[i].side) /\ leg.amount = s.lines[i].amount
          BY ReversedLeg
        <5>2. QED
          BY <2>5, <2>6, <5>1
      <4>5. LET leg == decision.entry.lines[i]
            IN  /\ r.lines[i].role = leg.role /\ r.lines[i].key = leg.key
                /\ r.lines[i].side = leg.side /\ r.lines[i].amount = leg.amount
                /\ leg.role \in DOMAIN decision.accounts =>
                       r.lines[i].account = decision.accounts[leg.role]
        BY <4>3, RecordedLeg DEF r
      <4>6. QED
        BY <2>5, <2>8, <4>4, <4>5
    <3> HIDE DEF r
    <3>3. QED
      BY <2>8, <3>2 DEF Booking, TakenBack
  <2> HIDE DEF r
  <2>10. Mirrors(r, journal)
    BY <2>2, <2>7, <2>9 DEF Mirrors
  <2>11. Settles(r, journal)
    BY <2>7, RuleIds DEF Settles
  <2>12. QED
    BY <2>10, <2>11 DEF Backed, r, decision, answer, ctx
<1>4. QED
  BY <1>2, <1>3

\* What keeps one related document from posting keeps its payment from it.
LEMMA BlockingOfDocto ==
    ASSUME NEW pagos, NEW i \in DOMAIN Doctos(pagos)
    PROVE  DoctoBlocking(Doctos(pagos)[i]) \subseteq RepBlocking(pagos)
<1> DEFINE each == {DoctoBlocking(Doctos(pagos)[j]) : j \in DOMAIN Doctos(pagos)}
           payments == {PagoBlocking(pagos[j]) : j \in DOMAIN pagos}
<1>1. DoctoBlocking(Doctos(pagos)[i]) \in each
  OBVIOUS
<1>2. RepBlocking(pagos) = (UNION payments) \cup (UNION each)
  BY Zenon DEF RepBlocking
<1> HIDE DEF each, payments
<1>3. QED
  BY <1>1, <1>2

\* What a run in front of the ledger has in hand is its projection's.
InHand(x) ==
    /\ x.projection \in Projections
    /\ x.doc.uuid = x.projection.doc.uuid
    /\ x.doc.pagos = x.projection.doc.pagos
    /\ x.doc.relaciones = x.projection.doc.relaciones

\* A payment posts only where the ledger read held all that it settles.
LEMMA PaymentIsBacked ==
    ASSUME NEW x, InHand(x), NEW m \in Charts, NEW t, NEW row \in REP_ROWS,
           ProposeFor(PostingContext(x)) = RepRule(PostingContext(x), row),
           ProposeFor(PostingContext(x)).kind # "raise",
           Decide(PostingContext(x), ProposeFor(PostingContext(x)), m).entry # None
    PROVE  Backed(ToRecord(Decide(PostingContext(x), ProposeFor(PostingContext(x)), m), t), journal)
<1> DEFINE ctx == PostingContext(x)
           answer == ProposeFor(ctx)
           decision == Decide(ctx, answer, m)
           r == ToRecord(decision, t)
<1>1. /\ ctx.contributor = x.projection.contributor /\ ctx.doc = x.doc
      /\ ctx.posted = {u \in SettledUuids(x.doc) : IsPosted(ctx.contributor, u)}
  BY DEF PostingContext
<1>2. ProposesAbout(answer, ctx)
  BY ProposalIdentity
<1> HIDE DEF ctx
<1>3. UnderRules(answer, {row.id}) /\ answer = RepRule(ctx, row) /\ answer.kind # "raise"
  BY RowsAnswerAsThemselves DEF ctx
<1>4. answer.kind \in {"skip", "review", "propose"}
  BY <1>2, <1>3 DEF ProposesAbout
<1>5. decision.entry.rule = row.id
  <2>1. decision.entry.rule \in {row.id}
    <3> HIDE DEF answer
    <3>1. QED
      BY <1>3, <1>4, DecisionKeepsTheRule DEF ctx, answer
  <2>2. QED
    BY <2>1
<1>6. ASSUME decision.state = "POSTED"
      PROVE  \A u \in SettledUuids(x.doc) : u \in ctx.posted
  <2>1. answer.kind = "propose"
    <3> HIDE DEF answer
    <3>1. QED
      BY <1>4, <1>6, PostedWasProposed
  <2> DEFINE pagos == ctx.doc.pagos
             doctos == Doctos(pagos)
  <2>2. pagos # None /\ RepBlocking(pagos) = {} /\ Unresolved(pagos, ctx.posted) = {}
    <3>1. \A flags, lines : Review(ctx, row, flags, lines).kind # "propose"
      BY ReviewAnswer
    <3>2. RepRule(ctx, row).kind = "propose"
      BY <1>3, <2>1
    <3>3. RepBlocking(pagos) \cup Unresolved(pagos, ctx.posted) = {}
      BY <3>1, <3>2 DEF RepRule
    <3>4. pagos # None
      BY <3>1, <3>2 DEF RepRule
    <3>5. QED
      BY <3>3, <3>4
  <2>3. \A i \in DOMAIN doctos : IsNational(doctos[i].moneda)
    <3>1. TAKE i \in DOMAIN doctos
    <3>2. DoctoBlocking(doctos[i]) = {}
      BY <2>2, BlockingOfDocto
    <3>3. QED
      BY <3>2 DEF DoctoBlocking
  <2>4. \A i \in DOMAIN doctos : IsNational(doctos[i].moneda) => doctos[i].uuid \in ctx.posted
    BY <2>2 DEF Unresolved, GetsLegs
  <2>5. SettledUuids(x.doc) = {doctos[i].uuid : i \in DOMAIN doctos}
    BY <1>1, <2>2 DEF SettledUuids
  <2>6. QED
    BY <2>3, <2>4, <2>5
<1> HIDE DEF decision, answer
<1>7. /\ r.rule = row.id /\ r.state = decision.state
      /\ r.contributor = decision.entry.contributor /\ r.source = decision.entry.source
  BY <1>5, RecordOf
<1>8. decision.state = "POSTED" =>
          decision.entry.contributor = ctx.contributor /\ decision.entry.source = ctx.doc.uuid
  BY <1>2, <1>3, PostedIsSound DEF decision
<1> HIDE DEF r
<1>9. Mirrors(r, journal)
  BY <1>7, RuleIds DEF Mirrors
<1>10. Settles(r, journal)
  <2>1. row.id \in {"4.5a", "4.5b"} /\ \A other \in CREDIT_NOTE_ROWS : other.id # row.id
    BY RuleIds
  <2>2. ASSUME NEW p \in Projections, r.source = p.doc.uuid, r.contributor = p.contributor,
               r.state = "POSTED", NEW u \in SettledUuids(p.doc)
        PROVE  PostedIn(journal, r.contributor, u)
    <3>1. p.doc = x.projection.doc
      BY <1>1, <1>7, <1>8, <2>2, DocumentAssumption DEF InHand
    <3>2. u \in SettledUuids(x.doc)
      BY <2>2, <3>1 DEF InHand, SettledUuids
    <3>3. IsPosted(ctx.contributor, u) /\ r.contributor = ctx.contributor
      BY <1>1, <1>6, <1>7, <1>8, <2>2, <3>2
    <3>4. QED
      BY <3>3 DEF IsPosted, ForSource, PostedIn
  <2>3. QED
    BY <1>7, <2>1, <2>2 DEF Settles
<1>11. QED
  BY <1>9, <1>10 DEF Backed, r, decision, answer, ctx

\* A credit note has legs only where the ledger read held its original.
LEMMA CreditNoteIsBacked ==
    ASSUME NEW x, InHand(x), NEW m \in Charts, NEW t, NEW row \in CREDIT_NOTE_ROWS,
           ProposeFor(PostingContext(x)) = CreditNote(PostingContext(x), row),
           CreditNoteClaims(PostingContext(x), row),
           Decide(PostingContext(x), ProposeFor(PostingContext(x)), m).entry # None
    PROVE  Backed(ToRecord(Decide(PostingContext(x), ProposeFor(PostingContext(x)), m), t), journal)
<1> DEFINE ctx == PostingContext(x)
           answer == ProposeFor(ctx)
           decision == Decide(ctx, answer, m)
           r == ToRecord(decision, t)
<1>1. /\ ctx.contributor = x.projection.contributor /\ ctx.doc = x.doc
      /\ DOMAIN ctx.related = RelatedUuids(x.doc)
      /\ \A u \in RelatedUuids(x.doc) : ctx.related[u].posted = IsPosted(ctx.contributor, u)
  BY DEF PostingContext, RelatedDocument
<1> HIDE DEF ctx
<1>2. UnderRules(answer, {row.id}) /\ answer.kind = "review" /\ answer = CreditNote(ctx, row)
      /\ CreditNoteClaims(ctx, row)
  BY RowsAnswerAsThemselves, NeverProposed DEF ctx
<1>3. decision.entry.rule = row.id /\ decision.state = "PROPOSED" /\ decision.entry = answer.entry
  <2>1. decision.entry.rule \in {row.id}
    <3> HIDE DEF answer
    <3>1. QED
      BY <1>2, DecisionKeepsTheRule DEF ctx, answer
  <2>2. decision.state = "PROPOSED" /\ decision.entry = answer.entry
    <3> HIDE DEF answer
    <3>1. QED
      BY <1>2 DEF Decide, DecideReview, PostingDecision
  <2>3. QED
    BY <2>1, <2>2
<1>4. ASSUME answer.entry.lines # <<>>
      PROVE  \E u \in RelatedUuids(x.doc) : IsPosted(ctx.contributor, u)
  <2>1. CreditNoteFlags(ctx, row, CreditNoteOriginal(ctx)) = {}
    <3>1. ASSUME NEW flags, Review(ctx, row, flags, <<>>).entry # None
          PROVE  Review(ctx, row, flags, <<>>).entry.lines = <<>>
      BY <3>1 DEF Review, ReviewRequest, ProposedJournalEntry
    <3>2. answer.entry # None
      BY <1>3 DEF answer, ctx
    <3>3. QED
      BY <1>2, <1>4, <3>1, <3>2 DEF CreditNote
  <2>2. CreditNoteOriginal(ctx).posted
    BY <2>1 DEF CreditNoteFlags
  <2>3. /\ CreditNoteUuids(ctx.doc)[1] \in RelatedUuids(x.doc)
        /\ CreditNoteOriginal(ctx) = ctx.related[CreditNoteUuids(ctx.doc)[1]]
    BY <1>1, <1>2 DEF CreditNoteClaims, CreditNoteOriginal
  <2>4. QED
    BY <1>1, <2>2, <2>3
<1>5. answer.entry.contributor = ctx.contributor /\ answer.entry.source = ctx.doc.uuid
  <2>1. answer.entry # None
    BY <1>3 DEF answer, ctx
  <2>2. \A flags, lines : Review(ctx, row, flags, lines).entry # None =>
           /\ Review(ctx, row, flags, lines).entry.contributor = ctx.contributor
           /\ Review(ctx, row, flags, lines).entry.source = ctx.doc.uuid
    BY DEF Review, ReviewRequest, ProposedJournalEntry
  <2>3. QED
    BY <1>2, <2>1, <2>2 DEF CreditNote
<1> HIDE DEF decision, answer
<1>6. /\ r.rule = row.id /\ r.state = "PROPOSED"
      /\ r.contributor = ctx.contributor /\ r.source = ctx.doc.uuid
      /\ r.lines # <<>> => answer.entry.lines # <<>>
  <2>1. r.lines # <<>> => answer.entry.lines # <<>>
    BY <1>3 DEF ToRecord
  <2>2. QED
    BY <1>3, <1>5, <2>1, RecordOf
<1> HIDE DEF r
<1>7. Mirrors(r, journal)
  BY <1>6, RuleIds DEF Mirrors
<1>8. Settles(r, journal)
  <2>1. ASSUME NEW p \in Projections, r.source = p.doc.uuid, r.lines # <<>>
        PROVE  \E u \in RelatedUuids(p.doc) : PostedIn(journal, r.contributor, u)
    <3>1. p.doc = x.projection.doc
      BY <1>1, <1>6, <2>1, DocumentAssumption DEF InHand
    <3>2. RelatedUuids(p.doc) = RelatedUuids(x.doc)
      BY <3>1 DEF InHand, RelatedUuids
    <3>3. QED
      BY <1>4, <1>6, <2>1, <3>2 DEF IsPosted, ForSource, PostedIn
  <2>2. QED
    BY <1>6, <2>1 DEF Settles
<1>9. QED
  BY <1>7, <1>8 DEF Backed, r, decision, answer, ctx

\* Whatever the run decides, its record rests on the ledger it read.
LEMMA DecidedIsBacked ==
    ASSUME NEW x, InHand(x), NEW m \in Charts, NEW t,
           ProposeFor(PostingContext(x)).kind # "raise",
           Decide(PostingContext(x), ProposeFor(PostingContext(x)), m).entry # None
    PROVE  Backed(ToRecord(Decide(PostingContext(x), ProposeFor(PostingContext(x)), m), t), journal)
<1> DEFINE ctx == PostingContext(x)
           answer == ProposeFor(ctx)
           decision == Decide(ctx, answer, m)
           r == ToRecord(decision, t)
<1>1. ctx.doc = x.doc
  BY DEF PostingContext
<1>2. answer.kind \in {"skip", "review", "propose"}
  BY ProposalIdentity DEF ProposesAbout
<1>3. \/ x.doc.status = "CANCELLED" /\ answer = Cancellation(ctx)
      \/ UnderRules(answer, OTHER_RULE_IDS)
      \/ \E row \in REP_ROWS : answer = RepRule(ctx, row)
      \/ \E row \in CREDIT_NOTE_ROWS : CreditNoteClaims(ctx, row) /\ answer = CreditNote(ctx, row)
  BY <1>1, WhoAnswers, Zenon
<1>4. CASE x.doc.status = "CANCELLED" /\ answer = Cancellation(ctx)
  BY <1>4, ReversalIsBacked
<1>5. CASE UnderRules(answer, OTHER_RULE_IDS)
  <2>1. decision.entry.rule \in OTHER_RULE_IDS
    <3> HIDE DEF ctx, answer
    <3>1. Decide(ctx, answer, m).entry # None
      BY DEF ctx, answer
    <3>2. QED
      BY <1>2, <1>5, <3>1, DecisionKeepsTheRule
  <2> HIDE DEF decision
  <2>2. r.rule \in OTHER_RULE_IDS
    BY <2>1, RecordOf
  <2> HIDE DEF r
  <2>3. Backed(r, journal)
    BY <2>2, OtherRulesAreBacked
  <2>4. QED
    BY <2>3 DEF r, decision
<1>6. CASE \E row \in REP_ROWS : answer = RepRule(ctx, row)
  BY <1>6, PaymentIsBacked
<1>7. CASE \E row \in CREDIT_NOTE_ROWS : CreditNoteClaims(ctx, row) /\ answer = CreditNote(ctx, row)
  BY <1>7, CreditNoteIsBacked
<1>8. QED
  BY <1>3, <1>4, <1>5, <1>6, <1>7

(********************** The ledger rests on itself *************************)

\* A step that only moves one worker on keeps the ledger and the runs backed.
LEMMA BackedStep ==
    ASSUME IInv, BackedInv, NEW w \in Workers, NEW x, BackedWorker(x, journal),
           workers' = [workers EXCEPT ![w] = x], journal' = journal
    PROVE  BackedInv'
BY DEF IInv, SoundWorkers, BackedInv

\* A run that has ended rests on nothing.
LEMMA EndedIsBacked ==
    ASSUME NEW outcome \in Resting
    PROVE  BackedWorker(Ended(outcome), journal)
BY DEF BackedWorker, Ended, Worker, Resting

\* What is read in front of the ledger is the projection's document.
LEMMA ReadStatusBacked ==
    ASSUME IInv, BackedInv, NEW w \in Workers, NEW p \in Projections, ReadStatus(w, p)
    PROVE  BackedInv'
<1> DEFINE b == <<p.contributor, p.doc.uuid>>
           history == snapshots[b]
           doc == IF history = <<>> THEN p.doc
                  ELSE [p.doc EXCEPT !.status = Latest(history).status]
           date == IF history # <<>> /\ Latest(history).status = "CANCELLED"
                   THEN Latest(history).cancelledOn ELSE None
           x == Worker("mapping", p, doc, date, None, None, None)
<1>1. doc.pagos = p.doc.pagos /\ doc.relaciones = p.doc.relaciones
  BY ProjectionAssumption
<1>2. workers' = [workers EXCEPT ![w] = x] /\ journal' = journal
  BY DEF ReadStatus
<1> HIDE DEF doc, date
<1>3. BackedWorker(x, journal)
  BY <1>1 DEF BackedWorker, Worker
<1> HIDE DEF x
<1>4. QED
  BY <1>2, <1>3, BackedStep

\* The chart read changes nothing of it.
LEMMA ReadMappingBacked ==
    ASSUME IInv, BackedInv, NEW w \in Workers, ReadMapping(w)
    PROVE  BackedInv'
<1> DEFINE chart == charts[workers[w].projection.contributor]
           next == Worker("ledger", workers[w].projection, workers[w].doc,
                          workers[w].cancelledOn, chart, None, None)
           x == IF chart = None THEN Ended("not_configured") ELSE next
<1>1. BackedWorker(workers[w], journal) /\ workers[w].pc = "mapping"
  BY DEF BackedInv, ReadMapping
<1>2. BackedWorker(next, journal)
  BY <1>1 DEF BackedWorker, Worker
<1>3. BackedWorker(Ended("not_configured"), journal)
  BY EndedIsBacked DEF Resting
<1>4. workers' = [workers EXCEPT ![w] = x] /\ journal' = journal
  BY DEF ReadMapping
<1> HIDE DEF next
<1>5. BackedWorker(x, journal)
  BY <1>2, <1>3
<1> HIDE DEF x
<1>6. QED
  BY <1>4, <1>5, BackedStep

\* What is decided rests on the ledger that was read.
LEMMA DecideBacked ==
    ASSUME IInv, BackedInv, NEW w \in Workers, ReadLedgerAndDecide(w)
    PROVE  BackedInv'
<1> DEFINE ctx == PostingContext(workers[w])
           proposal == ProposeFor(ctx)
           decision == Decide(ctx, proposal, workers[w].chart)
           append == Worker("append", workers[w].projection, None, None, None, decision, None)
           x == IF proposal.kind = "raise" THEN Ended("ambiguous")
                ELSE IF decision.entry = None THEN Ended("document_review")
                ELSE append
<1>1. workers[w].pc = "ledger" /\ SoundWorker(workers[w], snapshots)
      /\ BackedWorker(workers[w], journal)
  BY DEF IInv, SoundWorkers, BackedInv, ReadLedgerAndDecide
<1>2. InHand(workers[w]) /\ workers[w].chart \in Charts
  BY <1>1 DEF InHand, SoundWorker, SoundRead, BackedWorker
<1>3. ASSUME proposal.kind # "raise", decision.entry # None
      PROVE  BackedWorker(append, journal)
  <2>1. \A t : Backed(ToRecord(decision, t), journal)
    BY <1>2, <1>3, DecidedIsBacked
  <2> HIDE DEF decision
  <2>2. QED
    BY <2>1 DEF BackedWorker, Worker
<1>4. BackedWorker(Ended("ambiguous"), journal) /\ BackedWorker(Ended("document_review"), journal)
  BY EndedIsBacked DEF Resting
<1>5. workers' = [workers EXCEPT ![w] = x] /\ journal' = journal
  BY DEF ReadLedgerAndDecide
<1>6. BackedWorker(x, journal)
  <2> HIDE DEF proposal, decision, append
  <2>1. QED
    BY <1>3, <1>4
<1> HIDE DEF x
<1>7. QED
  BY <1>5, <1>6, BackedStep

\* The record that is looked up is the decided one, dated by the clock.
LEMMA CheckKeyBacked ==
    ASSUME IInv, BackedInv, NEW w \in Workers, CheckKey(w)
    PROVE  BackedInv'
<1> DEFINE record == ToRecord(workers[w].decision, clock)
           existing == {r \in journal : r.key = record.key}
           insert == Worker("insert", workers[w].projection, None, None, None, None, record)
           conflict == Worker("conflict", None, None, None, None, None, record)
           x == IF record.state = "POSTED" /\ ~ IsBalanced(record.lines) THEN Ended("unbalanced")
                ELSE IF existing = {} THEN insert
                ELSE IF existing = {record} THEN Ended("noop")
                ELSE conflict
<1>1. Backed(record, journal)
  BY DEF IInv, SoundStores, BackedInv, BackedWorker, CheckKey
<1>2. workers' = [workers EXCEPT ![w] = x] /\ journal' = journal
  BY DEF CheckKey
<1> HIDE DEF record
<1>3. BackedWorker(insert, journal) /\ BackedWorker(conflict, journal)
  BY <1>1 DEF BackedWorker, Worker
<1>4. BackedWorker(Ended("unbalanced"), journal) /\ BackedWorker(Ended("noop"), journal)
  BY EndedIsBacked DEF Resting
<1> HIDE DEF insert, conflict, existing
<1>5. BackedWorker(x, journal)
  BY <1>3, <1>4
<1> HIDE DEF x
<1>6. QED
  BY <1>2, <1>5, BackedStep

\* The ledger only grows, so what a run was told of it stays true.
LEMMA InsertBacked ==
    ASSUME IInv, BackedInv, NEW w \in Workers, Insert(w)
    PROVE  BackedInv'
<1> DEFINE record == workers[w].record
           taken == \E r \in journal : r.key = record.key
           x == Ended(IF taken THEN "integrity_error" ELSE "recorded")
<1>1. Backed(record, journal)
  BY DEF BackedInv, BackedWorker, Insert
<1>2. /\ journal' = IF taken THEN journal ELSE journal \cup {record}
      /\ workers' = [workers EXCEPT ![w] = x]
  BY DEF Insert
<1>3. journal \subseteq journal'
  BY <1>2
<1>4. \A r : Backed(r, journal) => Backed(r, journal')
  BY <1>3, BackedStays
<1>5. \A y : BackedWorker(y, journal) => BackedWorker(y, journal')
  BY <1>3, BackedStays
<1>6. BackedWorker(x, journal')
  BY <1>5, EndedIsBacked DEF Resting
<1> HIDE DEF x
<1>7. \A r \in journal' : Backed(r, journal')
  BY <1>1, <1>2, <1>4 DEF BackedInv
<1>8. \A v \in Workers : BackedWorker(workers'[v], journal')
  BY <1>2, <1>5, <1>6 DEF IInv, SoundWorkers, BackedInv
<1>9. QED
  BY <1>7, <1>8 DEF BackedInv

LEMMA StepBacked == IInv /\ BackedInv /\ [Next]_vars => BackedInv'
<1> SUFFICES ASSUME IInv, BackedInv, [Next]_vars
             PROVE  BackedInv'
  OBVIOUS
<1>1. CASE Environment
  <2>1. UNCHANGED <<journal, workers>>
    BY <1>1 DEF Environment, Project, Observe, ChangeChart, Tick
  <2>2. QED
    BY <2>1 DEF BackedInv
<1>2. ASSUME NEW w \in Workers, NEW p \in Projections, ReadStatus(w, p)
      PROVE  BackedInv'
  BY <1>2, ReadStatusBacked
<1>3. ASSUME NEW w \in Workers, Proceed(w)
      PROVE  BackedInv'
  BY <1>3, ReadMappingBacked, DecideBacked, CheckKeyBacked, InsertBacked DEF Proceed
<1>4. ASSUME NEW w \in Workers, Crash(w)
      PROVE  BackedInv'
  BY <1>4, EndedIsBacked, BackedStep DEF Crash, Resting
<1>5. CASE UNCHANGED vars
  BY <1>5 DEF vars, BackedInv
<1>6. QED
  BY <1>1, <1>2, <1>3, <1>4, <1>5 DEF Next

LEMMA LedgerIsBacked == Spec => []BackedInv
<1>1. Init => BackedInv
  BY DEF Init, BackedInv, BackedWorker, Ended, Worker
<1>2. QED
  BY <1>1, StepBacked, InvariantHolds, PTL DEF Spec

(*************************** One run at a time *****************************)

\* A skip of a cancelled source is of one the ledger holds nothing posted of.
SkipsUnposted(r, ledger) ==
    r.rule = RULE_4_15A.id => ~ PostedIn(ledger, r.contributor, r.source)

SkippingWorker(x, ledger) ==
    /\ x.pc = "append" => \A t \in 0..MaxClock : SkipsUnposted(ToRecord(x.decision, t), ledger)
    /\ x.pc = "insert" => SkipsUnposted(x.record, ledger)

SkipInv == \A w \in Workers : SkippingWorker(workers[w], journal)

\* A cancellation is skipped only where the ledger read held no posting.
LEMMA CancellationSkipsUnposted ==
    ASSUME NEW x, NEW m, NEW t, x.doc.status = "CANCELLED",
           Cancellation(PostingContext(x)).kind # "raise",
           Decide(PostingContext(x), Cancellation(PostingContext(x)), m).entry # None
    PROVE  SkipsUnposted(ToRecord(Decide(PostingContext(x), Cancellation(PostingContext(x)), m), t),
                         journal)
<1> DEFINE ctx == PostingContext(x)
           answer == Cancellation(ctx)
           decision == Decide(ctx, answer, m)
           r == ToRecord(decision, t)
<1>1. ctx.previous = ForSource(ctx.contributor, ctx.doc.uuid)
  BY DEF PostingContext
<1>2. CASE PostedEntries(ctx) = {}
  <2>1. ~ PostedIn(journal, ctx.contributor, ctx.doc.uuid)
    <3> HIDE DEF ctx
    <3>1. QED
      BY <1>1, <1>2 DEF PostedEntries, ForSource, PostedIn
  <2>2. answer = CancellationSkip(ctx)
    BY <1>2 DEF Cancellation
  <2> DEFINE entry == ProposedJournalEntry(RULE_4_15A, ctx, ctx.doc.uuid, ctx.doc.hash,
                                           ctx.cancelledOn, <<>>, {})
  <2>3. decision.entry = entry
    <3>1. CASE CancellationFlags(ctx) # {}
      <4>1. answer.kind = "review" /\ answer.entry = None
        BY <2>2, <3>1 DEF CancellationSkip, ReviewRequest
      <4>2. decision.entry = None
        BY <4>1 DEF Decide, DecideReview, PostingDecision
      <4>3. QED
        BY <4>2 DEF decision, answer, ctx
    <3>2. CASE CancellationFlags(ctx) = {}
      <4>1. answer = Skip(entry)
        BY <2>2, <3>2 DEF CancellationSkip
      <4> HIDE DEF entry
      <4>2. QED
        BY <4>1 DEF Decide, DecideSkip, Refuse, PostingDecision, Skip
    <3>3. QED
      BY <3>1, <3>2
  <2>4. entry.contributor = ctx.contributor /\ entry.source = ctx.doc.uuid
    BY DEF ProposedJournalEntry
  <2> HIDE DEF entry, decision
  <2>5. r.contributor = ctx.contributor /\ r.source = ctx.doc.uuid
    BY <2>3, <2>4, RecordOf
  <2> HIDE DEF r
  <2>6. SkipsUnposted(r, journal)
    BY <2>1, <2>5 DEF SkipsUnposted
  <2>7. QED
    BY <2>6 DEF r, decision, answer, ctx
<1>3. CASE PostedEntries(ctx) # {}
  <2>1. UnderRules(answer, {RULE_4_15B.id}) /\ answer.kind # "skip"
    <3> DEFINE s == CHOOSE e \in PostedEntries(ctx) : TRUE
    <3>1. answer = Reversal(ctx, s)
      BY <1>3 DEF Cancellation, Raise, ctx
    <3> DEFINE entry == ProposedJournalEntry(RULE_4_15B, ctx, s.source, s.hash, ctx.cancelledOn,
                                             ReversedLegs(s.lines), {})
    <3>2. "rule" \in DOMAIN entry /\ entry.rule = RULE_4_15B.id
      BY DEF ProposedJournalEntry
    <3> HIDE DEF entry, s
    <3>3. answer.kind # "raise"
      BY DEF answer, ctx
    <3>4. \/ answer = ReviewRequest(None, {"MISSING_SOURCE_FIELD"}, NoAccounts)
          \/ answer = ReviewRequest(entry, {"CANCELLED_AFTER_POSTING"}, HistoricalAccounts(s))
      BY <3>1, <3>3 DEF Reversal, Raise, entry
    <3> HIDE DEF answer
    <3>5. QED
      BY <3>2, <3>4 DEF UnderRules, ReviewRequest
  <2>2. answer.kind \in {"review"}
    <3>1. answer.kind # "raise"
      BY DEF answer, ctx
    <3>2. answer = Reversal(ctx, CHOOSE e \in PostedEntries(ctx) : TRUE)
      BY <1>3, <3>1 DEF Cancellation, Raise
    <3>3. QED
      BY <3>1, <3>2 DEF Reversal, Raise, ReviewRequest
  <2>3. decision.entry.rule \in {RULE_4_15B.id}
    <3> HIDE DEF answer, ctx
    <3>1. Decide(ctx, answer, m).entry # None
      BY DEF ctx, answer
    <3>2. QED
      BY <2>1, <2>2, <3>1, DecisionKeepsTheRule
  <2> HIDE DEF decision
  <2>4. r.rule = RULE_4_15B.id
    BY <2>3, RecordOf
  <2> HIDE DEF r
  <2>5. SkipsUnposted(r, journal)
    BY <2>4, RuleIds DEF SkipsUnposted
  <2>6. QED
    BY <2>5 DEF r, decision, answer, ctx
<1>4. QED
  BY <1>2, <1>3

\* So is whatever is decided: no other rule has that identity.
LEMMA DecidedSkipsUnposted ==
    ASSUME NEW x, NEW m, NEW t,
           ProposeFor(PostingContext(x)).kind # "raise",
           Decide(PostingContext(x), ProposeFor(PostingContext(x)), m).entry # None
    PROVE  SkipsUnposted(ToRecord(Decide(PostingContext(x), ProposeFor(PostingContext(x)), m), t),
                         journal)
<1> DEFINE ctx == PostingContext(x)
           answer == ProposeFor(ctx)
           decision == Decide(ctx, answer, m)
           r == ToRecord(decision, t)
           Others == OTHER_RULE_IDS \cup {row.id : row \in REP_ROWS \cup CREDIT_NOTE_ROWS}
<1>1. ctx.doc = x.doc
  BY DEF PostingContext
<1>2. answer.kind \in {"skip", "review", "propose"}
  BY ProposalIdentity DEF ProposesAbout
<1>3. CASE x.doc.status = "CANCELLED" /\ answer = Cancellation(ctx)
  BY <1>3, CancellationSkipsUnposted
<1>4. ASSUME UnderRules(answer, Others)
      PROVE  SkipsUnposted(r, journal)
  <2>1. decision.entry.rule \in Others
    <3> HIDE DEF ctx, answer, Others
    <3>1. Decide(ctx, answer, m).entry # None
      BY DEF ctx, answer
    <3>2. QED
      BY <1>2, <1>4, <3>1, DecisionKeepsTheRule
  <2> HIDE DEF decision
  <2>2. r.rule \in Others
    BY <2>1, RecordOf
  <2> HIDE DEF r
  <2>3. RULE_4_15A.id \notin Others
    BY RuleIds DEF OTHER_RULE_IDS
  <2> HIDE DEF Others
  <2>4. QED
    BY <2>2, <2>3 DEF SkipsUnposted
<1>5. \/ x.doc.status = "CANCELLED" /\ answer = Cancellation(ctx)
      \/ UnderRules(answer, Others)
  <2>1. \/ x.doc.status = "CANCELLED" /\ answer = Cancellation(ctx)
        \/ UnderRules(answer, OTHER_RULE_IDS)
        \/ \E row \in REP_ROWS : answer = RepRule(ctx, row)
        \/ \E row \in CREDIT_NOTE_ROWS : CreditNoteClaims(ctx, row) /\ answer = CreditNote(ctx, row)
    BY <1>1, WhoAnswers, Zenon
  <2> HIDE DEF answer
  <2>2. QED
    BY <2>1, RowsAnswerAsThemselves DEF UnderRules
<1>6. QED
  BY <1>3, <1>4, <1>5

\* A step that only moves one worker on keeps it, if the ledger stays.
LEMMA SkipStep ==
    ASSUME IInv, SkipInv, NEW w \in Workers, NEW x, SkippingWorker(x, journal),
           workers' = [workers EXCEPT ![w] = x], journal' = journal
    PROVE  SkipInv'
BY DEF IInv, SoundWorkers, SkipInv

\* A run that has ended, or has decided nothing yet, skips nothing.
LEMMA UndecidedSkipsNothing ==
    ASSUME NEW x, x.pc \notin {"append", "insert"}
    PROVE  SkippingWorker(x, journal)
BY DEF SkippingWorker

LEMMA DecideSkips ==
    ASSUME IInv, SkipInv, NEW w \in Workers, ReadLedgerAndDecide(w)
    PROVE  SkipInv'
<1> DEFINE ctx == PostingContext(workers[w])
           proposal == ProposeFor(ctx)
           decision == Decide(ctx, proposal, workers[w].chart)
           append == Worker("append", workers[w].projection, None, None, None, decision, None)
           x == IF proposal.kind = "raise" THEN Ended("ambiguous")
                ELSE IF decision.entry = None THEN Ended("document_review")
                ELSE append
<1>1. ASSUME proposal.kind # "raise", decision.entry # None
      PROVE  SkippingWorker(append, journal)
  <2>1. \A t : SkipsUnposted(ToRecord(decision, t), journal)
    BY <1>1, DecidedSkipsUnposted
  <2> HIDE DEF decision
  <2>2. QED
    BY <2>1 DEF SkippingWorker, Worker
<1>2. SkippingWorker(Ended("ambiguous"), journal) /\ SkippingWorker(Ended("document_review"), journal)
  BY DEF SkippingWorker, Ended, Worker
<1>3. workers' = [workers EXCEPT ![w] = x] /\ journal' = journal
  BY DEF ReadLedgerAndDecide
<1>4. SkippingWorker(x, journal)
  <2> HIDE DEF proposal, decision, append
  <2>1. QED
    BY <1>1, <1>2
<1> HIDE DEF x
<1>5. QED
  BY <1>3, <1>4, SkipStep

LEMMA CheckKeySkips ==
    ASSUME IInv, SkipInv, NEW w \in Workers, CheckKey(w)
    PROVE  SkipInv'
<1> DEFINE record == ToRecord(workers[w].decision, clock)
           existing == {r \in journal : r.key = record.key}
           insert == Worker("insert", workers[w].projection, None, None, None, None, record)
           conflict == Worker("conflict", None, None, None, None, None, record)
           x == IF record.state = "POSTED" /\ ~ IsBalanced(record.lines) THEN Ended("unbalanced")
                ELSE IF existing = {} THEN insert
                ELSE IF existing = {record} THEN Ended("noop")
                ELSE conflict
<1>1. SkipsUnposted(record, journal)
  BY DEF IInv, SoundStores, SkipInv, SkippingWorker, CheckKey
<1>2. workers' = [workers EXCEPT ![w] = x] /\ journal' = journal
  BY DEF CheckKey
<1> HIDE DEF record
<1>3. SkippingWorker(insert, journal) /\ SkippingWorker(conflict, journal)
  BY <1>1 DEF SkippingWorker, Worker
<1>4. SkippingWorker(Ended("unbalanced"), journal) /\ SkippingWorker(Ended("noop"), journal)
  BY DEF SkippingWorker, Ended, Worker
<1> HIDE DEF insert, conflict, existing
<1>5. SkippingWorker(x, journal)
  BY <1>3, <1>4
<1> HIDE DEF x
<1>6. QED
  BY <1>2, <1>5, SkipStep

\* The run that inserts was the only one: afterwards nothing is decided.
LEMMA InsertSkips ==
    ASSUME IInv, SkipInv, NEW w \in Workers, Insert(w), \A v \in Workers : v = w
    PROVE  SkipInv'
<1>1. workers'[w] = Ended(IF \E r \in journal : r.key = workers[w].record.key
                          THEN "integrity_error" ELSE "recorded")
  BY DEF Insert, IInv, SoundWorkers
<1>2. workers'[w].pc \notin {"append", "insert"}
  BY <1>1 DEF Ended, Worker
<1>3. QED
  BY <1>2 DEF SkipInv, SkippingWorker

LEMMA StepSkips ==
    ASSUME \A v, w \in Workers : v = w
    PROVE  IInv /\ SkipInv /\ [Next]_vars => SkipInv'
<1> SUFFICES ASSUME IInv, SkipInv, [Next]_vars
             PROVE  SkipInv'
  OBVIOUS
<1>1. CASE Environment
  <2>1. UNCHANGED <<journal, workers>>
    BY <1>1 DEF Environment, Project, Observe, ChangeChart, Tick
  <2>2. QED
    BY <2>1 DEF SkipInv
<1>2. ASSUME NEW w \in Workers, NEW p \in Projections, ReadStatus(w, p)
      PROVE  SkipInv'
  <2> DEFINE history == snapshots[<<p.contributor, p.doc.uuid>>]
             x == Worker("mapping", p,
                         IF history = <<>> THEN p.doc
                         ELSE [p.doc EXCEPT !.status = Latest(history).status],
                         IF history # <<>> /\ Latest(history).status = "CANCELLED"
                         THEN Latest(history).cancelledOn ELSE None,
                         None, None, None)
  <2>1. x.pc = "mapping" /\ workers' = [workers EXCEPT ![w] = x] /\ journal' = journal
    BY <1>2 DEF ReadStatus, Worker
  <2> HIDE DEF x
  <2>2. QED
    BY <2>1, UndecidedSkipsNothing, SkipStep
<1>3. ASSUME NEW w \in Workers, ReadMapping(w)
      PROVE  SkipInv'
  <2> DEFINE next == Worker("ledger", workers[w].projection, workers[w].doc, workers[w].cancelledOn,
                            charts[workers[w].projection.contributor], None, None)
             x == IF charts[workers[w].projection.contributor] = None
                  THEN Ended("not_configured") ELSE next
  <2>1. workers' = [workers EXCEPT ![w] = x] /\ journal' = journal
    BY <1>3 DEF ReadMapping
  <2>2. SkippingWorker(x, journal)
    BY DEF SkippingWorker, Ended, Worker
  <2> HIDE DEF x
  <2>3. QED
    BY <2>1, <2>2, SkipStep
<1>4. ASSUME NEW w \in Workers, Crash(w)
      PROVE  SkipInv'
  <2>1. SkippingWorker(Ended("idle"), journal)
    BY DEF SkippingWorker, Ended, Worker
  <2>2. QED
    BY <1>4, <2>1, SkipStep DEF Crash
<1>5. CASE UNCHANGED vars
  BY <1>5 DEF vars, SkipInv
<1>6. QED
  BY <1>1, <1>2, <1>3, <1>4, <1>5, DecideSkips, CheckKeySkips, InsertSkips DEF Next, Proceed

(****************************** The theorems *******************************)

\* The types, and every record is stored under its own identity.
THEOREM TypeCorrect == Spec => []TypeOK
<1>1. IInv => TypeOK
  BY DEF IInv, SoundStores, SoundWorkers, SoundJournal, SoundWorker, SoundRecord, TypeOK
<1>2. QED
  BY <1>1, InvariantHolds, PTL

\* However many runs append at once, no two records of the ledger share a key.
THEOREM KeysAreUnique == Spec => []OneRecordPerKey
<1>1. IInv => OneRecordPerKey
  BY DEF IInv
<1>2. QED
  BY <1>1, InvariantHolds, PTL

\* A posted record is on the accounts of the one chart that versions it, even
\* when that chart was replaced while the run was under way.
THEOREM PostedOnItsChart == Spec => []PostedUsesItsChart
<1>1. IInv => PostedUsesItsChart
  BY DEF IInv, SoundJournal, SoundRecord, PostedUsesItsChart
<1>2. QED
  BY <1>1, InvariantHolds, PTL

\* Nothing is posted of a source the SAT was not seen to call VIGENTE.
THEOREM PostedAfterVigente == Spec => []PostedFromVigente
<1>1. IInv => PostedFromVigente
  BY DEF IInv, SoundJournal, SoundRecord, PostedFromVigente
<1>2. QED
  BY <1>1, InvariantHolds, PTL

\* The stage implements the ledger its readers are promised: every step adds
\* one record under a free key, or leaves the ledger as it was.
THEOREM ImplementsTheLedger == Spec => ImplementsLedger
<1>1. Init => L!Init
  BY DEF Init, L!Init
<1>2. ASSUME NEW w \in Workers, Insert(w)
      PROVE  [L!Append]_journal
  BY <1>2 DEF Insert, L!Append, L!Free
<1>3. ASSUME [Next]_vars, \A w \in Workers : ~ Insert(w)
      PROVE  UNCHANGED journal
  <2>1. CASE Environment \/ UNCHANGED vars
    BY <2>1 DEF Environment, Project, Observe, ChangeChart, Tick, vars
  <2>2. CASE \E w \in Workers : Proceed(w)
    BY <1>3, <2>2 DEF Proceed, ReadMapping, ReadLedgerAndDecide, CheckKey
  <2>3. CASE \E w \in Workers : Crash(w) \/ \E p \in Projections : ReadStatus(w, p)
    BY <2>3 DEF ReadStatus, Crash
  <2>4. QED
    BY <1>3, <2>1, <2>2, <2>3 DEF Next
<1>4. [Next]_vars => [L!Append]_journal
  BY <1>2, <1>3
<1>5. QED
  BY <1>1, <1>4, PTL DEF Spec, ImplementsLedger, L!Spec

\* Every reversal of the ledger takes back a posted record of its own source,
\* leg by leg and on that record's accounts: whichever chart is in force, and
\* whatever other runs append between the read of the ledger and the insert.
THEOREM ReversalsMirrorPostings == Spec => []ReversalMirrorsPosting
<1>1. BackedInv => ReversalMirrorsPosting
  BY DEF BackedInv, Backed, Mirrors, ReversalMirrorsPosting
<1>2. QED
  BY <1>1, LedgerIsBacked, PTL

\* No collection or payment is posted, and no credit note has legs, before its
\* originals are posted in the same client's books.
THEOREM OriginalsArePosted == Spec => []SettledOriginalsArePosted
<1>1. BackedInv => SettledOriginalsArePosted
  BY DEF BackedInv, Backed, Settles, PostedIn, HasPosting, SettledOriginalsArePosted
<1>2. QED
  BY <1>1, LedgerIsBacked, PTL

\* While one run at a time uses the database, a skip of a cancelled source is
\* recorded only where nothing of that source is posted: between the read of
\* the ledger and the insert nobody else can post it, whatever the SAT is
\* observed to say, whichever chart comes into force, and whenever runs die.
\* Two concurrent runs can break it, so the hypothesis is needed.
THEOREM SkipsOfAloneRun ==
    ASSUME \A v, w \in Workers : v = w
    PROVE  Spec => SkipNeverContradictsLedger
<1> DEFINE Skipped == \A r \in journal' \ journal :
                          r.rule = RULE_4_15A.id => ~ HasPosting(r.contributor, r.source)
<1>1. Init => SkipInv
  BY DEF Init, SkipInv, SkippingWorker, Ended, Worker
<1>2. IInv /\ SkipInv /\ [Next]_vars => [Skipped]_vars
  <2> SUFFICES ASSUME IInv, SkipInv, [Next]_vars, ~ UNCHANGED vars,
                      NEW r \in journal', r \notin journal, r.rule = RULE_4_15A.id
               PROVE  ~ HasPosting(r.contributor, r.source)
    OBVIOUS
  <2>1. PICK w \in Workers : Insert(w)
    <3>1. CASE Environment
      BY <3>1 DEF Environment, Project, Observe, ChangeChart, Tick
    <3>2. ASSUME NEW w \in Workers, (\E p \in Projections : ReadStatus(w, p)) \/ Crash(w)
          PROVE  FALSE
      BY <3>2 DEF ReadStatus, Crash
    <3>3. ASSUME NEW w \in Workers, ReadMapping(w) \/ ReadLedgerAndDecide(w) \/ CheckKey(w)
          PROVE  FALSE
      BY <3>3 DEF ReadMapping, ReadLedgerAndDecide, CheckKey
    <3>4. QED
      BY <3>1, <3>2, <3>3 DEF Next, Proceed
  <2>2. r = workers[w].record /\ workers[w].pc = "insert"
    BY <2>1 DEF Insert
  <2>3. SkipsUnposted(r, journal)
    BY <2>2 DEF SkipInv, SkippingWorker
  <2>4. QED
    BY <2>3 DEF SkipsUnposted, PostedIn, HasPosting
<1>3. QED
  BY <1>1, <1>2, StepSkips, InvariantHolds, PTL DEF Spec, SkipNeverContradictsLedger

(************************** What cannot be reversed ************************)

\* The rows answer; only a cancellation can raise.
LEMMA OnlyCancellationRaises ==
    ASSUME NEW c, ProposeFor(c).kind = "raise"
    PROVE  c.doc.status = "CANCELLED" /\ Cancellation(c).kind = "raise"
<1>1. \A rule, flags, lines : Review(c, rule, flags, lines).kind # "raise"
  BY ReviewAnswer
<1>2. \A entry : Propose(entry).kind # "raise" /\ Skip(entry).kind # "raise"
  BY DEF Propose, Skip
<1>3. \A flags, accounts : ReviewRequest(None, flags, accounts).kind # "raise"
  BY DEF ReviewRequest
<1>4. \A row : IncomeRule(c, row).kind # "raise"
  BY <1>1, <1>2, Zenon
     DEF IncomeRule, IssuedIncome, IssuedEntry, ReceivedPurchase, PurchaseEntry, IncomeEntry
<1>5. \A row : RepRule(c, row).kind # "raise"
  BY <1>1, <1>2, Zenon DEF RepRule
<1>6. \A row : CreditNote(c, row).kind # "raise"
  BY <1>1, Zenon DEF CreditNote
<1>7. Unclaimed(c).kind # "raise"
  BY <1>3, Zenon DEF Unclaimed, CreditNoteReview
<1>8. RowAnswer(c).kind # "raise"
  BY <1>4, <1>5, <1>6, <1>7, Zenon DEF RowAnswer
<1>9. OutOfScopeSkip(c).kind # "raise" /\ Draft(c).kind # "raise"
  BY <1>1, <1>2, Zenon DEF OutOfScopeSkip, Draft
<1>10. QED
  BY <1>8, <1>9, Zenon DEF ProposeFor

\* It raises over several POSTED records, or over one without a history.
LEMMA CancellationRaises ==
    ASSUME NEW c, Cancellation(c).kind = "raise", \A r \in PostedEntries(c) : HasHistory(r)
    PROVE  \E r, s \in PostedEntries(c) : r # s
<1>1. PostedEntries(c) # {} /\ Cardinality(PostedEntries(c)) > 1
  <2>1. CancellationSkip(c).kind # "raise"
    BY DEF CancellationSkip, ReviewRequest, Skip
  <2>2. ASSUME NEW s, HasHistory(s)
        PROVE  Reversal(c, s).kind # "raise"
    BY <2>2 DEF Reversal, ReviewRequest
  <2>3. PostedEntries(c) # {}
    BY <2>1 DEF Cancellation
  <2> DEFINE s == CHOOSE r \in PostedEntries(c) : TRUE
  <2>4. s \in PostedEntries(c)
    BY <2>3
  <2>5. Reversal(c, s).kind # "raise"
    BY <2>2, <2>4
  <2>6. QED
    BY <2>3, <2>5 DEF Cancellation
<1>2. \A r : PostedEntries(c) # {r}
  BY <1>1, FS_Singleton
<1>3. QED
  BY <1>1, <1>2

\* A posted record is on the accounts of one chart, so it names one account
\* per role and none is missing.
LEMMA PostedHasHistory ==
    ASSUME NEW r, OnItsChart(r)
    PROVE  HasHistory(r)
<1>1. PICK m \in Charts : \A i \in DOMAIN r.lines :
                            /\ r.lines[i].role \in DOMAIN m.accounts
                            /\ r.lines[i].account = m.accounts[r.lines[i].role]
  BY DEF OnItsChart
<1>2. \A role \in DOMAIN m.accounts : m.accounts[role] # None
  BY ChartAssumption
<1>3. QED
  BY <1>1, <1>2 DEF HasHistory

\* The client's books hold two postings of the source, under another rule, or
\* another version of the rule or of the chart.
PostedTwice(contributor, uuid) ==
    \E r, s \in ForSource(contributor, uuid) :
        /\ r.state = "POSTED" /\ s.state = "POSTED"
        /\ <<r.rule, r.version, r.mapping>> # <<s.rule, s.version, s.mapping>>

\* A run that gives up on an ambiguous ledger has one: its client's books hold
\* several postings of its source.  Whatever was posted before, by whichever
\* run and under whichever chart, a single posting can always be reversed
\* (cancellation.py:187 and :193 never raise).
THEOREM OnlyAmbiguityStopsARun ==
    Spec => [][\A w \in Workers :
                  workers[w].pc # "ambiguous" /\ workers'[w].pc = "ambiguous" =>
                      PostedTwice(workers[w].projection.contributor, workers[w].doc.uuid)]_vars
<1> DEFINE Stops(w) == workers[w].pc # "ambiguous" /\ workers'[w].pc = "ambiguous"
           Twice(w) == PostedTwice(workers[w].projection.contributor, workers[w].doc.uuid)
<1>1. IInv /\ [Next]_vars => [\A w \in Workers : Stops(w) => Twice(w)]_vars
  <2> SUFFICES ASSUME IInv, [Next]_vars, NEW w \in Workers, Stops(w)
               PROVE  Twice(w)
    OBVIOUS
  <2> DEFINE c == PostingContext(workers[w])
  <2>1. workers = [v \in Workers |-> workers[v]]
    BY DEF IInv, SoundWorkers
  <2>2. ProposeFor(c).kind = "raise"
    <3>1. CASE Environment \/ UNCHANGED vars
      BY <3>1 DEF Environment, Project, Observe, ChangeChart, Tick, vars
    <3>2. \A v \in Workers : \A x :
             workers' = [workers EXCEPT ![v] = x] => v = w /\ x.pc = "ambiguous"
      BY <2>1
    <3>3. \A outcome : Ended(outcome).pc = outcome
      BY DEF Ended, Worker
    <3>4. ASSUME NEW v \in Workers, (\E p \in Projections : ReadStatus(v, p)) \/ Crash(v)
          PROVE  FALSE
      <4>1. \A p, d, t : Worker("mapping", p, d, t, None, None, None).pc = "mapping"
        BY DEF Worker
      <4>2. \/ \E p, d, t : workers' = [workers EXCEPT ![v] = Worker("mapping", p, d, t, None, None, None)]
            \/ workers' = [workers EXCEPT ![v] = Ended("idle")]
        BY <3>4, Zenon DEF ReadStatus, Crash
      <4>3. QED
        BY <3>2, <3>3, <4>1, <4>2
    <3>5. ASSUME NEW v \in Workers, ReadMapping(v) \/ CheckKey(v) \/ Insert(v)
          PROVE  FALSE
      BY <3>2, <3>3, <3>5 DEF ReadMapping, CheckKey, Insert, Worker
    <3>6. ASSUME NEW v \in Workers, ReadLedgerAndDecide(v)
          PROVE  ProposeFor(c).kind = "raise"
      <4> DEFINE d == PostingContext(workers[v])
                 x == IF ProposeFor(d).kind = "raise" THEN Ended("ambiguous")
                      ELSE IF Decide(d, ProposeFor(d), workers[v].chart).entry = None
                      THEN Ended("document_review")
                      ELSE Worker("append", workers[v].projection, None, None, None,
                                  Decide(d, ProposeFor(d), workers[v].chart), None)
      <4>1. workers' = [workers EXCEPT ![v] = x]
        BY <3>6 DEF ReadLedgerAndDecide
      <4>2. ProposeFor(d).kind # "raise" => x.pc \in {"document_review", "append"}
        <5> HIDE DEF d
        <5>1. QED
          BY <3>3 DEF Worker
      <4> HIDE DEF x
      <4>3. v = w /\ x.pc = "ambiguous"
        BY <3>2, <4>1
      <4>4. ProposeFor(d).kind = "raise"
        BY <4>2, <4>3
      <4>5. QED
        BY <4>3, <4>4
    <3>7. QED
      BY <3>1, <3>4, <3>5, <3>6 DEF Next, Proceed
  <2>3. /\ c.doc.status = "CANCELLED" /\ Cancellation(c).kind = "raise"
        /\ c.previous = ForSource(workers[w].projection.contributor, workers[w].doc.uuid)
    <3>1. c.doc.status = "CANCELLED" /\ Cancellation(c).kind = "raise"
      <4> HIDE DEF c
      <4>1. QED
        BY <2>2, OnlyCancellationRaises
    <3>2. QED
      BY <3>1 DEF PostingContext
  <2> HIDE DEF c
  <2>4. \A r \in PostedEntries(c) : r \in journal /\ SoundRecord(r, snapshots) /\ r.state = "POSTED"
    BY <2>3 DEF PostedEntries, ForSource, IInv, SoundJournal
  <2>5. \A r \in PostedEntries(c) : HasHistory(r)
    BY <2>4, PostedHasHistory DEF SoundRecord
  <2>6. PICK r \in PostedEntries(c), s \in PostedEntries(c) : r # s
    BY <2>3, <2>5, CancellationRaises
  <2>7. r.key # s.key
    BY <2>4, <2>6 DEF IInv, OneRecordPerKey
  <2>8. /\ r.contributor = s.contributor /\ r.source = s.source
        /\ r \in c.previous /\ s \in c.previous
    BY <2>3, <2>6 DEF PostedEntries, ForSource
  <2>9. <<r.rule, r.version, r.mapping>> # <<s.rule, s.version, s.mapping>>
    BY <2>4, <2>6, <2>7, <2>8 DEF SoundRecord
  <2>10. QED
    BY <2>3, <2>4, <2>6, <2>8, <2>9 DEF PostedTwice
<1>2. QED
  BY <1>1, InvariantHolds, PTL DEF Spec

(************************* What cannot be unbalanced ***********************)

PostsBalanced(state, lines) == state = "POSTED" => IsBalanced(lines)

\* What a run has decided, and what it has found missing, balances if posted.
BalancedWorker(x) ==
    /\ x.pc # "unbalanced"
    /\ x.pc = "append" => PostsBalanced(x.decision.state, x.decision.entry.lines)
    /\ x.pc = "insert" => PostsBalanced(x.record.state, x.record.lines)

BalancedInv ==
    /\ \A w \in Workers : BalancedWorker(workers[w])
    /\ \A r \in journal : PostsBalanced(r.state, r.lines)

\* The record of a decision moves what the decision's entry moves.
LEMMA RecordedBalance ==
    ASSUME NEW d, NEW t, PostsBalanced(d.state, d.entry.lines)
    PROVE  PostsBalanced(ToRecord(d, t).state, ToRecord(d, t).lines)
<1> DEFINE legs == d.entry.lines
           lines == ToRecord(d, t).lines
<1>1. DOMAIN lines = DOMAIN legs /\ ToRecord(d, t).state = d.state
  BY RecordOf
<1>2. \A i \in DOMAIN legs : lines[i].side = legs[i].side /\ lines[i].amount = legs[i].amount
  BY RecordedLeg
<1> HIDE DEF lines, legs
<1>3. ASSUME NEW side
      PROVE  SideTotal(lines, side) = SideTotal(legs, side)
  <2>1. [i \in DOMAIN lines |-> IF lines[i].side = side THEN lines[i].amount ELSE 0]
          = [i \in DOMAIN legs |-> IF legs[i].side = side THEN legs[i].amount ELSE 0]
    BY <1>1, <1>2
  <2>2. QED
    BY <2>1, Zenon DEF SideTotal
<1>4. IsBalanced(legs) => IsBalanced(lines)
  BY <1>3, Zenon DEF IsBalanced
<1>5. QED
  BY <1>1, <1>4 DEF PostsBalanced, legs, lines

LEMMA BalancedStep ==
    ASSUME IInv, BalancedInv, [Next]_vars
    PROVE  BalancedInv'
<1>1. workers = [v \in Workers |-> workers[v]]
  BY DEF IInv, SoundWorkers
<1>2. ASSUME NEW w \in Workers, NEW x, workers' = [workers EXCEPT ![w] = x],
             BalancedWorker(x), UNCHANGED journal
      PROVE  BalancedInv'
  BY <1>1, <1>2 DEF BalancedInv
<1>3. \A outcome : outcome \notin {"unbalanced", "append", "insert"} => BalancedWorker(Ended(outcome))
  BY DEF BalancedWorker, Ended, Worker
<1>4. CASE Environment \/ UNCHANGED vars
  BY <1>4 DEF BalancedInv, Environment, Project, Observe, ChangeChart, Tick, vars
<1>5. ASSUME NEW w \in Workers, NEW p \in Projections, ReadStatus(w, p)
      PROVE  BalancedInv'
  <2>1. \A doc, t : BalancedWorker(Worker("mapping", p, doc, t, None, None, None))
    BY DEF BalancedWorker, Worker
  <2>2. \E doc, t : workers' = [workers EXCEPT ![w] = Worker("mapping", p, doc, t, None, None, None)]
    BY <1>5, Zenon DEF ReadStatus
  <2>3. UNCHANGED journal
    BY <1>5 DEF ReadStatus
  <2>4. QED
    BY <1>2, <2>1, <2>2, <2>3
<1>6. ASSUME NEW w \in Workers, ReadMapping(w)
      PROVE  BalancedInv'
  <2>1. \A p, doc, t, m : BalancedWorker(Worker("ledger", p, doc, t, m, None, None))
    BY DEF BalancedWorker, Worker
  <2>2. \E x : BalancedWorker(x) /\ workers' = [workers EXCEPT ![w] = x] /\ UNCHANGED journal
    BY <1>3, <1>6, <2>1 DEF ReadMapping
  <2>3. QED
    BY <1>2, <2>2
<1>7. ASSUME NEW w \in Workers, ReadLedgerAndDecide(w)
      PROVE  BalancedInv'
  <2> DEFINE c == PostingContext(workers[w])
             answer == ProposeFor(c)
             d == Decide(c, answer, workers[w].chart)
             append == Worker("append", workers[w].projection, None, None, None, d, None)
             x == IF answer.kind = "raise" THEN Ended("ambiguous")
                  ELSE IF d.entry = None THEN Ended("document_review") ELSE append
  <2>1. workers' = [workers EXCEPT ![w] = x] /\ UNCHANGED journal
    BY <1>7 DEF ReadLedgerAndDecide
  <2>2. answer.kind # "raise" => PostsBalanced(d.state, d.entry.lines)
    <3>1. ProposesAbout(answer, c)
      BY ProposalIdentity
    <3> HIDE DEF c, answer
    <3>2. QED
      BY <3>1, PostedIsSound DEF PostsBalanced
  <2> HIDE DEF c, answer, d
  <2>3. answer.kind # "raise" => BalancedWorker(append)
    BY <2>2 DEF BalancedWorker, Worker
  <2>4. BalancedWorker(x)
    BY <1>3, <2>3
  <2> HIDE DEF x
  <2>5. QED
    BY <1>2, <2>1, <2>4
<1>8. ASSUME NEW w \in Workers, CheckKey(w)
      PROVE  BalancedInv'
  <2> DEFINE record == ToRecord(workers[w].decision, clock)
             existing == {r \in journal : r.key = record.key}
             insert == Worker("insert", workers[w].projection, None, None, None, None, record)
             conflict == Worker("conflict", None, None, None, None, None, record)
             x == IF record.state = "POSTED" /\ ~ IsBalanced(record.lines) THEN Ended("unbalanced")
                  ELSE IF existing = {} THEN insert
                  ELSE IF existing = {record} THEN Ended("noop") ELSE conflict
  <2>1. workers' = [workers EXCEPT ![w] = x] /\ UNCHANGED journal
    BY <1>8 DEF CheckKey
  <2>2. PostsBalanced(record.state, record.lines)
    BY <1>8, RecordedBalance DEF CheckKey, BalancedInv, BalancedWorker
  <2> HIDE DEF record, existing
  <2>3. BalancedWorker(insert) /\ BalancedWorker(conflict)
    BY <2>2 DEF BalancedWorker, Worker
  <2>4. BalancedWorker(x)
    BY <1>3, <2>2, <2>3 DEF PostsBalanced
  <2> HIDE DEF x
  <2>5. QED
    BY <1>2, <2>1, <2>4
<1>9. ASSUME NEW w \in Workers, Insert(w)
      PROVE  BalancedInv'
  <2>1. PostsBalanced(workers[w].record.state, workers[w].record.lines)
    BY <1>9 DEF Insert, BalancedInv, BalancedWorker
  <2>2. \A r \in journal' : r \in journal \/ r = workers[w].record
    BY <1>9 DEF Insert
  <2>3. \E outcome \in {"integrity_error", "recorded"} :
           workers' = [workers EXCEPT ![w] = Ended(outcome)]
    BY <1>9 DEF Insert
  <2>4. \A v \in Workers : BalancedWorker(workers'[v])
    BY <1>1, <1>3, <2>3 DEF BalancedInv
  <2>5. QED
    BY <2>1, <2>2, <2>4 DEF BalancedInv
<1>10. ASSUME NEW w \in Workers, Crash(w)
       PROVE  BalancedInv'
  <2>1. workers' = [workers EXCEPT ![w] = Ended("idle")] /\ UNCHANGED journal
    BY <1>10 DEF Crash
  <2>2. QED
    BY <1>2, <1>3, <2>1
<1>11. QED
  BY <1>4, <1>5, <1>6, <1>7, <1>8, <1>9, <1>10 DEF Next, Proceed

\* Every posted record of the ledger balances, and the abort that waits for one
\* that does not (execute_accounting.py:477) is never taken: the gate refused it
\* before, and recording moves nothing.
THEOREM LedgerIsBalanced ==
    Spec => [](/\ \A w \in Workers : workers[w].pc # "unbalanced"
               /\ \A r \in journal : r.state = "POSTED" => IsBalanced(r.lines))
<1>1. Init => BalancedInv
  BY DEF Init, BalancedInv, BalancedWorker, Ended, Worker
<1>2. BalancedInv => /\ \A w \in Workers : workers[w].pc # "unbalanced"
                     /\ \A r \in journal : r.state = "POSTED" => IsBalanced(r.lines)
  BY DEF BalancedInv, BalancedWorker, PostsBalanced
<1>3. QED
  BY <1>1, <1>2, BalancedStep, InvariantHolds, PTL DEF Spec
=============================================================================
